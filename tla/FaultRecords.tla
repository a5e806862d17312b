---------------------------- MODULE FaultRecords ----------------------------
(***************************************************************************)
(* package_reader.py: what trace-skill reads of a log directory or of an   *)
(* archive, within its limits and without unpacking anything to disk.      *)
(* parser.py and normalization.py: the records it finds in what was read,  *)
(* and the merging of observations made twice.                             *)
(*                                                                         *)
(* An input is [kind, damage, members]: kind is "dir", "zip", "tar",       *)
(* "link", "file" (no archive) or "missing".  A member is                  *)
(*   [name, type, unsafe, declared, size, fails, kind, damage, members,    *)
(*    content]                                                             *)
(* name orders the full paths; type is "file", "dir", "link", "hard",      *)
(* "special" or "junction"; kind is "plain", "archive" or "corrupt" (an    *)
(* archive by its name that does not open).  fails is what reading its     *)
(* bytes raises: "none", "caught" (I/O, a wrong checksum) or "uncaught"    *)
(* (zlib.error, of deflate data that is not one).  damage is what an       *)
(* archive does behind the members given: "none"; "caught" when it breaks  *)
(* off in a member's data; "silent" when a tar ends before, or in, a       *)
(* header, which tarfile takes for its end; "uncaught" when a compressed   *)
(* tar breaks off or is garbled (EOFError, LZMAError).  A directory of     *)
(* damage "silent" may not be listed: rglob passes over what is in it.     *)
(*                                                                         *)
(* The content of an entry is [parts, base, alone, device, stamp, lines]:  *)
(* the directory names its path holds that matter, its file name, whether  *)
(* the path is that name alone, the device number in the path and the time *)
(* in a stackcore file's name (None when there is none).                   *)
(*                                                                         *)
(* A line is what the expressions see of it: shape is the record format it *)
(* has; time, boot, level, module, pid, tid, proc and msg its fields;      *)
(* fault the first fault rule its text satisfies outside denied and benign *)
(* phrases, signal that it names a signal; corr the <<key, value>> pairs,  *)
(* words the interaction rules it matches, fails that it denies them;      *)
(* align its clock_alignment declaration; logical and physical the device  *)
(* numbers it maps; text what correlation compares: the error codes, long  *)
(* identifiers and components its message names, the code it returns, what *)
(* it says of an application failure, and whether it is a stack fragment:  *)
(* [codes, tokens, names, ret, says, fragment, informs]; informs means it  *)
(* words an error and is no traceback.                                     *)
(***************************************************************************)
EXTENDS Integers, Sequences, FiniteSets, FiniteSetsExt, SequencesExt, TLC

None == -1

---------------------------------------------------------------------------
(* Reading the package *)

(* limits: [entry, total, depth] *)
LimitsAllowed(limits) == limits.entry > 0 /\ limits.total > 0 /\ limits.depth >= 0

Rejected(m, why) ==
  [path |-> m.name, status |-> "rejected", reason |-> why, parsed |-> 0, unparsed |-> 0]

ArchiveRecord(m) ==
  [path |-> m.name, status |-> "archive", reason |-> "none", parsed |-> 0, unparsed |-> 0]

(* why a member is refused unread; a directory is listed by real files     *)
(* only, an archive may name any path                                      *)
Refusal(container, m) ==
  IF container # "dir" /\ m.unsafe # "none" THEN m.unsafe
  ELSE CASE m.type = "link"     -> "symbolic_link"
         [] m.type = "hard"     -> "hard_link"
         [] m.type = "special"  -> "unsupported_entry_type"
         [] m.type = "junction" -> "reparse_point"
         [] OTHER               -> "none"

(* _read_bounded: the declared size is tested before a byte is read, the   *)
(* size that is really there after it                                      *)
OverBudget(size, limits, used) ==
  IF size > limits.entry THEN "entry_size_limit"
  ELSE IF used + size > limits.total THEN "cumulative_size_limit" ELSE "none"

ReadBounded(m, limits, used) ==
  IF OverBudget(m.declared, limits, used) # "none" THEN OverBudget(m.declared, limits, used)
  ELSE CASE m.fails = "caught"   -> "unreadable"
         [] m.fails = "uncaught" -> "uncaught"
         [] OTHER                -> OverBudget(m.size, limits, used)

(* escaped: an exception nobody catches has ended the reading *)
NothingRead == [entries |-> <<>>, inventory |-> <<>>, used |-> 0, escaped |-> FALSE]

Noted(read, item) == [read EXCEPT !.inventory = Append(@, item)]

Escaping(read) == [read EXCEPT !.escaped = TRUE]

(* what reading on behind the members of an archive comes to *)
Behind(m, read) ==
  CASE read.escaped \/ m.damage \in {"none", "silent"} -> read
    [] m.damage = "caught"   -> Noted(read, Rejected(m, "unreadable_archive"))
    [] m.damage = "uncaught" -> Escaping(read)

RECURSIVE ReadMembers(_, _, _, _, _)

AcceptOrDescend_Silent(m, depth, limits, read) ==
  CASE m.kind = "plain"   -> [read EXCEPT !.entries = Append(@, m)]
    [] m.kind = "corrupt" -> read
    [] m.kind = "archive" ->
         IF depth >= limits.depth THEN read
         ELSE ReadMembers("archive", m.members, depth + 1, limits, read)

(* _accept_or_descend: a member that has been read is opened when it is an *)
(* archive and not too deep, else it is an entry.  Whether it is an        *)
(* archive is found by opening it, where the damage of one that does not   *)
(* open is met; damage further on is met when its members are read.        *)
AcceptOrDescend(m, depth, limits, read) ==
  CASE m.kind = "plain"   -> [read EXCEPT !.entries = Append(@, m)]
    [] m.kind = "corrupt" -> Behind(m, read)
    [] m.kind = "archive" ->
         IF depth >= limits.depth
         THEN Noted(Noted(read, ArchiveRecord(m)), Rejected(m, "archive_depth_limit"))
         ELSE Behind(m, ReadMembers("archive", m.members, depth + 1, limits,
                                    Noted(read, ArchiveRecord(m))))

ReadMember(container, m, depth, limits, read) ==
  LET reason == IF Refusal(container, m) # "none" THEN Refusal(container, m)
                ELSE ReadBounded(m, limits, read.used)
  IN  IF read.escaped \/ m.type = "dir" THEN read
      ELSE CASE reason = "none"     -> AcceptOrDescend(m, depth, limits, [read EXCEPT !.used = @ + m.size])
             [] reason = "uncaught" -> Escaping(read)
             [] OTHER               -> Noted(read, Rejected(m, reason))

ReadMembers(container, members, depth, limits, read) ==
  FoldLeft(LAMBDA so, m : ReadMember(container, m, depth, limits, so), read, members)

ReadPackage(input, limits) ==
  LET read == ReadMembers(input.kind, input.members, 0, limits, NothingRead)
  IN  IF input.damage = "uncaught" THEN Escaping(read) ELSE read

(* read_package: an input that is no package, or that breaks off, is an    *)
(* error of its own, unless another exception has come first               *)
Refused(input, read) ==
  input.kind \notin {"dir", "zip", "tar"} \/ (input.damage = "caught" /\ ~read.escaped)

---------------------------------------------------------------------------
(* Fields *)

Components ==
  [RUNTIME |-> "Runtime", ACL |-> "AscendCL", ASCENDCL |-> "AscendCL", GE |-> "GE",
   HCCL |-> "HCCL", DRV |-> "Driver", IDEDD |-> "Data Dump", OP |-> "Operator",
   ATRACE |-> "Trace", TDT |-> "TDT", TUNE |-> "TUNE", TEFUSION |-> "TEFusion", FE |-> "GE"]

Component(module) ==
  IF module \in DOMAIN Components THEN Components[module] ELSE "Unclassified"

DriverModules == {"devdrv", "drv", "hdcdrv"}

(* _fault_rule: a message only counts at ERROR, a signal also at WARNING *)
FaultRule(line) ==
  IF line.level = "FATAL" THEN "level-fatal"
  ELSE IF line.level = "ERROR" \/ (line.level = "WARNING" /\ line.signal) THEN line.fault
  ELSE "none"

(* _extract_correlation: a key given two values makes all of them unusable *)
Correlation(line) ==
  LET pairs == {<<IF p[1] = "dev_id" THEN "device_id" ELSE p[1], p[2]>> : p \in line.corr}
  IN  IF \E p, q \in pairs : p[1] = q[1] /\ p # q THEN {} ELSE pairs

InteractionOrder ==
  <<"error-source", "error-propagation", "notify-host", "receive-device-event", "dispatch", "return">>

(* _interaction: the first rule in their order, none of a failed one *)
Interaction(line) ==
  LET seen == SelectSeq(InteractionOrder, LAMBDA w : w \in line.words)
  IN  IF line.fails \/ seen = <<>> THEN "none" ELSE seen[1]

(* clock domains are numbered in the order of their names; which of them   *)
(* are kept apart is what matters                                          *)
HostClock == 1000
BootClock(who) == who
WallClock(who) == 500 + who
ConflictOf(a, b) == 200 + 10 * a + b
UnknownSource(path) == 400 + path

(* what every adapter fills in alike *)
Record(path, n, line) ==
  [path |-> path, line |-> n, loc |-> "host", dom |-> HostClock, time |-> line.time, mono |-> None,
   level |-> line.level, module |-> line.module, comp |-> Component(line.module),
   pid |-> line.pid, tid |-> line.tid, proc |-> line.proc, msg |-> line.msg,
   rule |-> FaultRule(line), corr |-> Correlation(line), inter |-> Interaction(line),
   align |-> line.align, logical |-> None, physical |-> None, reported |-> None,
   clash |-> FALSE, extra |-> <<>>, text |-> line.text, parser |-> "host-common-plog"]

(* parse_cann_record *)
HostRecord(path, n, line) ==
  IF line.shape = "plog" /\ line.time # None THEN {Record(path, n, line)} ELSE {}

(* parse_host_kernel_record: the monotonic time is kept as text *)
KernelRecord(path, n, line) ==
  IF line.shape # "kernel" \/ line.time = None THEN {}
  ELSE {[Record(path, n, line) EXCEPT
           !.comp = IF line.module \in DriverModules THEN "Driver" ELSE "Unclassified",
           !.mono = line.boot, !.parser = "host-kernel"]}

(* parse_device_cann_record: the number in the path and the one the record *)
(* reports must agree, else the device is unknown; a record of 1970 with a *)
(* boot time is on the clock of the boot                                   *)
DeviceRecord(path, n, line, device) ==
  LET clash    == device # None /\ line.physical # None /\ device # line.physical
      physical == IF clash THEN None ELSE IF line.physical # None THEN line.physical ELSE device
      who      == IF clash THEN ConflictOf(device, line.physical)
                  ELSE IF physical = None THEN UnknownSource(path) ELSE physical
      booting  == line.boot # None
  IN  IF line.shape # "plog" \/ line.time = None THEN {}
      ELSE {[Record(path, n, line) EXCEPT
               !.loc = "device", !.dom = IF booting THEN BootClock(who) ELSE WallClock(who),
               !.time = IF booting THEN line.boot ELSE line.time, !.mono = line.boot,
               !.logical = line.logical, !.physical = physical,
               !.reported = IF clash THEN line.physical ELSE None, !.clash = clash,
               !.parser = "device-common-slog"]}

---------------------------------------------------------------------------
(* Which format a file has *)

(* _source_role *)
SourceRole(c) ==
  IF \/ c.base = "device.log" \/ c.parts \cap {"device", "device-os", "dev-os-"} # {}
     \/ "device-" \in c.parts /\ "host" \notin c.parts
  THEN "device"
  ELSE IF \/ c.parts \cap {"host", "plog", "host-plog"} # {} \/ c.alone
          \/ c.base \in {"fault.log", "host.log", "host_kernel.log"}
       THEN "host" ELSE "unknown"

(* _select_adapter: the first line any adapter of the role matches decides *)
(* for the whole file; the pattern, not the date, is what must match       *)
Adapters(c) ==
  CASE SourceRole(c) = "device" -> {"plog"}
    [] SourceRole(c) = "host"   -> {"plog"} \cup {a \in {"kernel"} : c.base = "host_kernel.log"}
    [] OTHER                    -> {}

SelectAdapter(c) ==
  LET matched == SelectSeq(c.lines, LAMBDA l : l.shape \in Adapters(c))
  IN  IF matched = <<>> THEN "none"
      ELSE IF SourceRole(c) = "device" THEN "device" ELSE matched[1].shape

Parse(adapter, m, n) ==
  LET line == m.content.lines[n]
  IN  CASE adapter = "plog"   -> HostRecord(m.name, n, line)
        [] adapter = "kernel" -> KernelRecord(m.name, n, line)
        [] adapter = "device" -> DeviceRecord(m.name, n, line, m.content.device)
        [] OTHER              -> {}

---------------------------------------------------------------------------
(* The application's execute_log *)

ApplicationRecord(m, n, time, pid) ==
  LET line == m.content.lines[n]
  IN  [Record(m.name, n, line) EXCEPT
         !.level = "ERROR", !.module = "APP", !.comp = "Application", !.time = time, !.pid = pid,
         !.tid = None, !.rule = "level-error", !.align = <<>>,
         !.text.says = @ \cup {IF line.shape = "traceback" THEN "call failed" ELSE "ERR"},
         !.corr = {<<"error_code", line.text.ret>>},
         !.inter = IF line.shape = "traceback" THEN "error-propagation" ELSE "none",
         !.parser = "application-execute-log"]

(* A terminal error record carries the time, tracebacks borrow the first   *)
(* one's.  A "custom op execution failed" line has no operator name, and   *)
(* without one the parser gives the line up.                               *)
ExecutionRecords(m) ==
  LET lines  == m.content.lines
      dated  == {n \in DOMAIN lines : lines[n].shape = "execute" /\ lines[n].time # None}
  IN  IF dated = {} THEN {}
      ELSE {ApplicationRecord(m, n, lines[n].time, lines[n].pid) : n \in dated}
           \cup {ApplicationRecord(m, n, lines[Min(dated)].time, None) :
                   n \in {k \in DOMAIN lines : lines[k].shape = "traceback"}}

---------------------------------------------------------------------------
(* parse_stackcore_trace: one record, of an abort only, from the header    *)
(* before the stack; the other three header lines are its further evidence *)

HeaderKeys == {"crash task", "crash pid", "crash tid", "crash reason"}

HeaderLines(c) ==
  {n \in DOMAIN c.lines : c.lines[n].shape \in HeaderKeys /\
                          \A k \in 1..(n - 1) : c.lines[k].shape # "[stack]"}

HeaderLine(c, key) == Max({n \in HeaderLines(c) : c.lines[n].shape = key})

StackcoreRecord(m) ==
  LET c    == m.content
      of(key) == c.lines[HeaderLine(c, key)].msg
      whole == {c.lines[n].shape : n \in HeaderLines(c)} = HeaderKeys
  IN  IF \/ "stackcore_tracer" \notin c.parts \/ SourceRole(c) = "device" \/ c.stamp = None
         \/ ~whole
      THEN {}
      ELSE IF of("crash reason") # "signal 6" THEN {}
      ELSE {[Record(m.name, HeaderLine(c, "crash reason"), c.lines[HeaderLine(c, "crash reason")]) EXCEPT
               !.level = "FATAL", !.module = "stackcore", !.comp = "Trace", !.time = c.stamp,
               !.pid = of("crash pid"), !.tid = of("crash tid"), !.proc = of("crash task"),
               !.rule = "trace-signal-6", !.corr = {}, !.inter = "none", !.align = <<>>,
               !.extra = <<HeaderLine(c, "crash task"), HeaderLine(c, "crash pid"),
                           HeaderLine(c, "crash tid")>>,
               !.parser = "cann-stackcore-trace"]}

---------------------------------------------------------------------------
(* scan_input: what one entry gives.  orphans are lines left unparsed in a *)
(* file that is otherwise understood; an execute_log gives them anyway.    *)

Scanned(m, records, modelled, structural, always) ==
  LET rest == (DOMAIN m.content.lines \ modelled) \ structural
  IN  [records |-> records,
       orphans |-> IF records # {} \/ always THEN {<<m.name, n>> : n \in rest} ELSE {},
       item    |-> [path |-> m.name, status |-> IF records # {} THEN "parsed" ELSE "unsupported",
                    reason |-> IF records # {} THEN "none" ELSE "no_parser_match",
                    parsed |-> Cardinality(modelled), unparsed |-> Cardinality(rest)]]

ScanEntry(m) ==
  LET c     == m.content
      stack == StackcoreRecord(m)
      lines == {r.line : r \in stack} \cup UNION {Range(r.extra) : r \in stack}
      plain == UNION {Parse(SelectAdapter(c), m, n) : n \in DOMAIN c.lines}
  IN  IF "execute_log" \in c.parts
      THEN Scanned(m, ExecutionRecords(m), {r.line : r \in ExecutionRecords(m)}, {}, TRUE)
      ELSE IF stack # {}
      THEN Scanned(m, stack, lines, {n \in DOMAIN c.lines : c.lines[n].shape \in {"[process]", "[stack]"}},
                   FALSE)
      ELSE Scanned(m, plain, {r.line : r \in plain}, {}, FALSE)

---------------------------------------------------------------------------
(* normalization.py *)

(* semantic_event_fingerprint: the exact time and every field but those    *)
(* that say where the observation was made                                 *)
Fingerprint(e) == [e EXCEPT !.id = 0, !.evidence = <<>>, !.path = 0, !.line = 0, !.time = 0,
                            !.extra = <<>>, !.loc = "any"]

(* merge_exact_duplicate_events: the first is kept with all the evidence *)
MergeDuplicates(events) ==
  FoldLeft(LAMBDA kept, e :
             LET same == {i \in DOMAIN kept : Fingerprint(kept[i]) = Fingerprint(e)}
             IN  IF same = {} THEN Append(kept, e)
                 ELSE [kept EXCEPT ![Max(same)].evidence = @ \o e.evidence],
           <<>>, events)
=============================================================================
