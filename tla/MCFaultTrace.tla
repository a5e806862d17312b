---------------------------- MODULE MCFaultTrace ----------------------------
(***************************************************************************)
(* Packages for TLC: short logs whose lines are drawn from an alphabet     *)
(* that has a line for every rule, logs of several clocks, and packages of *)
(* every shape.  The bounds of the correlation are scaled to times of a    *)
(* few microseconds and to traces of a few events.                         *)
(***************************************************************************)
EXTENDS FaultTrace

MCBounds == [fanout |-> 1, burst |-> 3, second |-> 1, minute |-> 4, adjacent |-> 2, embedded |-> 4]

Text == [codes |-> {}, tokens |-> {}, names |-> {}, ret |-> "none", says |-> {},
         fragment |-> FALSE, informs |-> FALSE]

Line == [shape |-> "plog", time |-> 0, boot |-> None, level |-> "INFO", module |-> "RUNTIME",
         pid |-> 1, tid |-> 1, proc |-> "app", msg |-> "m", fault |-> "none", signal |-> FALSE,
         corr |-> {}, words |-> {}, fails |-> FALSE, align |-> <<>>, logical |-> None,
         physical |-> None, text |-> Text]

At(line, t) == [line EXCEPT !.time = t]

Content(parts, base, lines) ==
  [parts |-> parts, base |-> base, alone |-> FALSE, device |-> None, stamp |-> None, lines |-> lines]

File(name, content) ==
  [name |-> name, type |-> "file", unsafe |-> "none", declared |-> 1, size |-> 1,
   fails |-> "none", kind |-> "plain", damage |-> "none", members |-> <<>>, content |-> content]

HostLog(lines) == File(1, Content({"host"}, "app.log", lines))
DeviceLog(name, number, lines) ==
  File(name, [Content({"device"}, "device.log", lines) EXCEPT !.device = number])

Archive(name, members) == [File(name, Content({}, "a.zip", <<>>)) EXCEPT !.kind = "archive", !.members = members]

Dir(members) == [kind |-> "dir", damage |-> "none", members |-> members]

(* the lines of a host log *)
Task == {<<"stream_id", "1">>, <<"task_id", "1">>}
Error == [Line EXCEPT !.level = "ERROR", !.text.informs = TRUE]
Plain     == Line
Queued    == [Line EXCEPT !.module = "GE"]
Fatal     == [Error EXCEPT !.fault = "aicore-error", !.text.codes = {"E1"}, !.msg = "aicore"]
HcclCode  == [Error EXCEPT !.module = "HCCL", !.text.codes = {"E1"}, !.msg = "E1 again"]
Launched  == [Line EXCEPT !.words = {"dispatch"}, !.corr = Task, !.msg = "launch"]
Relaunched == [Launched EXCEPT !.msg = "launched", !.module = "GE"]
Returned  == [Line EXCEPT !.words = {"return"}, !.corr = Task, !.msg = "return", !.module = "DRV"]
Timeout   == [Error EXCEPT !.module = "HCCL", !.words = {"error-source"}, !.msg = "timeout", !.fault = "hccl-timeout"]
Frame     == [Error EXCEPT !.module = "OP", !.words = {"error-propagation"}, !.text.ret = "9", !.msg = "ret 9"]

HostLines == {Plain, Queued, Fatal, HcclCode, Launched, Relaunched, Returned, Timeout, Frame}

Limits == [entry |-> 2, total |-> 9, depth |-> 1]
Near == [before |-> 1, after |-> 1, limit |-> 1]
Wide == [before |-> 9, after |-> 9, limit |-> 3]

Job == [input |-> Dir(<<>>), limits |-> Limits, outside |-> TRUE, configured |-> TRUE,
        request |-> <<>>, reach |-> Wide, old |-> FALSE]

Reading(members) == [Job EXCEPT !.input = Dir(members)]

HostJobs ==
  {[Reading(<<HostLog(<<At(a, 0), At(b, t), At(c, 2), At(Fatal, 3)>>)>>) EXCEPT !.reach = IF t = 0 THEN Near ELSE Wide] :
     a, b, c \in HostLines, t \in {0, 1}}

(* longer ones, which the viewer does not embed whole *)
LongJobs ==
  {[Reading(<<HostLog(<<At(Plain, 0), At(a, 2), At(Plain, 3), At(b, 4), At(Queued, 5), At(Plain, 6)>>)>>)
      EXCEPT !.reach = r, !.request = q] :
     a \in {Fatal, Timeout}, b \in {Fatal, Frame, Plain}, r \in {Near, Wide, [Wide EXCEPT !.limit = 1]},
     q \in {<<>>, <<[kind |-> "event_id", id |-> 3]>>,
            <<[kind |-> "source_location", path |-> 1, line |-> 9]>>}}

(* two devices and the host, with what they declare of their clocks *)
Alarm == {<<"device_id", "0">>, <<"event_id", "1">>, <<"node_id", "1">>, <<"assertion", "x">>,
          <<"alarm_raised_time", "1">>}
Notify   == [Line EXCEPT !.words = {"notify-host"}, !.corr = Alarm, !.pid = 7]
Receive  == [Line EXCEPT !.words = {"receive-device-event"}, !.corr = Alarm]
Other    == [Fatal EXCEPT !.msg = "device", !.pid = 7]
To(d, off) == <<[to |-> d, off |-> off, unc |-> 1, how |-> "sync"]>>

Alignments == {<<>>, To(HostClock, 2), To(HostClock, -2), To(WallClock(0), 0), To(WallClock(1), 1), To(3, 0)}

ClockJobs ==
  {Reading(<<HostLog(<<At(Receive, 1), At(Fatal, 2)>>),
             DeviceLog(2, 0, <<[At(Notify, 1) EXCEPT !.align = a], [At(Other, 2) EXCEPT !.align = b]>>),
             DeviceLog(3, 1, <<[At(Other, 3) EXCEPT !.align = c]>>)>>) :
     a \in Alignments, b \in {<<>>, To(HostClock, 2)}, c \in {<<>>, To(WallClock(0), 1), To(WallClock(1), 0)}}

(* the other formats *)
Kernel  == File(4, Content({"host"}, "host_kernel.log", <<[Fatal EXCEPT !.shape = "kernel", !.boot = 3]>>))
Stack(reason) ==
  File(5, [Content({"host", "stackcore_tracer"}, "s.txt",
             <<[Line EXCEPT !.shape = "crash task", !.msg = "app"], [Line EXCEPT !.shape = "crash pid", !.msg = 1],
               [Line EXCEPT !.shape = "crash tid", !.msg = 1],
               [Line EXCEPT !.shape = "crash reason", !.msg = reason], [Line EXCEPT !.shape = "[stack]"]>>)
           EXCEPT !.stamp = 2])
Execute(t) ==
  File(6, Content({"execute_log"}, "execute_log", <<
    [Error EXCEPT !.shape = "traceback", !.text.ret = "9"],
    [Error EXCEPT !.shape = "execute", !.time = t, !.text.ret = "9", !.pid = 2], [Line EXCEPT !.shape = "custom"]>>))
Booted  == DeviceLog(7, None, <<[Other EXCEPT !.boot = 4, !.logical = 0, !.physical = 1],
                                 [Other EXCEPT !.boot = 5, !.physical = None]>>)
Clash   == DeviceLog(8, 0, <<[Other EXCEPT !.logical = 0, !.physical = 1]>>)
Foreign == File(9, Content({"docs"}, "readme", <<Line>>))
Undated == File(10, Content({"host"}, "old.log", <<At(Line, None)>>))
Garbled == File(11, Content({"host"}, "cut.log", <<At(Fatal, 1), [Line EXCEPT !.shape = "text"]>>))

FormatJobs ==
  {Reading(<<HostLog(<<At(Timeout, 0), At(Frame, 1)>>)>> \o s) :
     s \in {<<Kernel>>, <<Stack("signal 6")>>, <<Stack("signal 9")>>, <<Execute(2), Execute(None)>>, <<Execute(2)>>,
            <<Booted, Clash>>, <<Foreign, Undated>>, <<Garbled>>}}
  \cup {Reading(s) : s \in {<<>>, <<Foreign>>, <<Undated>>, <<HostLog(<<Plain>>)>>, <<Stack("signal 6")>>}}
  \cup {[Reading(<<HostLog(<<Plain>>)>>) EXCEPT !.request = <<[kind |-> "event_id", id |-> 1]>>],
        [Reading(<<HostLog(<<At(Fatal, 0), At(Fatal, 0)>>)>>) EXCEPT
           !.request = <<[kind |-> "source_location", path |-> 1, line |-> 2]>>],
        [Reading(<<Stack("signal 6")>>) EXCEPT
           !.request = <<[kind |-> "source_location", path |-> 5, line |-> 2]>>]}

(* packages of every shape *)
Log == HostLog(<<At(Fatal, 1)>>)
Damages == {"caught", "silent", "uncaught"}
Members ==
  {<<Log, Archive(20, <<Garbled>>)>>, <<Log, Archive(20, <<Archive(21, <<Garbled>>), Foreign>>)>>,
   <<Archive(20, <<[Log EXCEPT !.fails = "uncaught"], Garbled>>)>>, <<Log, [Undated EXCEPT !.type = "dir", !.damage = "silent"]>>,
   <<[Log EXCEPT !.size = 3], Garbled>>, <<Log, [Garbled EXCEPT !.declared = 3]>>, <<Log, [Garbled EXCEPT !.fails = "caught"]>>,
   <<Archive(20, <<Log, [Garbled EXCEPT !.unsafe = "unsafe_path"], [Foreign EXCEPT !.type = "hard"]>>)>>,
   <<Log, [Garbled EXCEPT !.type = "link"], [Foreign EXCEPT !.type = "special"], [Undated EXCEPT !.type = "dir"],
     [Kernel EXCEPT !.type = "junction"]>>}
  \cup {<<Log, [Archive(20, <<Garbled>>) EXCEPT !.damage = d], Foreign>> : d \in Damages}
  \cup {<<Log, [Archive(20, <<>>) EXCEPT !.kind = "corrupt", !.damage = d], Foreign>> : d \in {"caught", "uncaught"}}

PackageJobs ==
  {[Reading(m) EXCEPT !.input.kind = k, !.limits = l, !.old = o] :
     m \in Members, k \in {"dir", "zip"}, o \in BOOLEAN,
     l \in {Limits, [Limits EXCEPT !.total = 1], [Limits EXCEPT !.depth = 0]}}

RefusedJobs ==
  {[Job EXCEPT !.input.kind = k] : k \in {"link", "missing", "file"}}
  \cup {[Job EXCEPT !.outside = FALSE], [Job EXCEPT !.configured = FALSE], [Job EXCEPT !.input.damage = "caught", !.input.kind = "tar"],
        [Job EXCEPT !.limits.depth = -1]}
  \cup {[Reading(<<Log>>) EXCEPT !.input.kind = "tar", !.input.damage = d] : d \in Damages}
  \cup {[Reading(<<[Log EXCEPT !.fails = "uncaught"], Garbled>>) EXCEPT !.input.kind = "zip"]}

MCJobs == HostJobs \cup LongJobs \cup ClockJobs \cup FormatJobs \cup PackageJobs \cup RefusedJobs
=============================================================================
