------------------------------- MODULE MCAsys -------------------------------
(* The runs of asys that TLC explores: one scenario for every command, mode *)
(* and kind of outcome.                                                     *)
EXTENDS Asys, TLC

CONSTANTS NoPidC, a1, a2

MCFirmware == {"device-0"}
MCApp == "device-app-7" :> "7" @@ "device-app-8" :> "8"
MCEvent == {"event-1"}
MCJson == {"k.json"}
MCObject == {"k.o"}
MCObjectOf == "k.json" :> "k.o"
MCGe == {"ge_onnx_1.pbtxt"}
MCTf == {"TF_GeOp_1.pbtxt"}
MCBin == {"a.bin", "b.bin"}
MCTxtOf == "a.bin" :> "a.txt" @@ "b.bin" :> "b.txt"
MCMagic == 2 :> "old" @@ 3 :> "new"
MCStack == {"stackcore_1.txt", "stackcore_2.txt"}
MCCore == {"coretrace_1"}
MCTxt == MCStack \cup {"a.txt", "b.txt", "screen.txt"}
MCChips == {"910B", "91093", "950", "310"}
MCHandler == "910B" :> "base" @@ "91093" :> "91093" @@ "950" :> "950"
MCConfig == "aic_voltage" :> [get |-> {"all"}, restore |-> {"950"}]
            @@ "bus_voltage" :> [get |-> {"950"}, restore |-> {"none"}]
            @@ "power" :> [get |-> {"none"}, restore |-> {"none"}]
MCTid == [p \in Target |-> {"tid"}]
Ask(r, al, qu, t, o) == [remote |-> r, all |-> al, quiet |-> qu, timeout |-> t, other |-> o]
MCRequest == {Ask(p, TRUE, qu, NoArg, FALSE) : p \in Target, qu \in BOOLEAN}
             \cup {Ask(NoPidC, TRUE, TRUE, 1, FALSE)}

MCNames == <<"var", "log", "home", "ascend", "cwd", "in", "npu", "opp", "cache", "work",
  "slog", "host", "dev-os-0", "dev-os-1", "message", "stackcore", "hisi_logs", "slogd", "debug",
  "run", "security", "device-os", "device-0", "device-app-7", "device-app-8", "event-1", "d.log",
  "e.log", "klog", "plog", "plog-1", "atrace", "a.bin", "b.bin", "messages", "ascend_seclog",
  "ascend_install.log", "extra-info", "graph", "data-dump", "ops", "1", "2", "k.json", "k.o",
  "ge_onnx_1.pbtxt", "TF_GeOp_1.pbtxt", "time", "coredump", "core.7", "bbox", "kernel", "config",
  "vendors", "config.ini", "v1", "debug_kernel", "stackcore_1.txt", "stackcore_2.txt",
  "coretrace_1", "lib", "libx.so", "exe", "core", "export_tmp", "npu_collect_intermediates",
  "task_launch_host_log", "ub", "ubmem_daw.bin", "ubtpl_acl_src.bin", "sl_to_vl.bin",
  "ubnl_dfx_statistic.bin", "a.txt", "b.txt">>

Tree(files, dirs) ==
  [file |-> files,
   dir |-> UNION ({Ancestors(Front(p)) : p \in DOMAIN files} \cup {Ancestors(d) : d \in dirs}),
   locked |-> {}, frozen |-> {}, names |-> MCNames]

Log(id) == [log |-> id]
Plog(id, sk, faults) == [log |-> id, marker |-> sk # NoPath, sk |-> sk, faults |-> faults]
Home == <<"home">>
Cwd == <<"cwd">>

(* Trace files: the items of a message fill its slot. *)
Item(w, a, l) == [width |-> w, array |-> a, length |-> l]
Msg(txt, busy, type) == [txt |-> txt, busy |-> busy, type |-> type]
Trace(v, tz, msgs, bytes) ==
  [version |-> v, magic |-> MCMagic[v], type |-> 0,
   clock |-> [tz |-> tz, real |-> tz, freq |-> tz],
   structs |-> 1 :> <<Item(4, FALSE, 4), Item(1, TRUE, 4)>>, slot |-> 10,
   msgs |-> msgs, bytes |-> bytes, log |-> ToString(tz)]
TraceA == Trace(3, 1, <<Msg(4, FALSE, 1), Msg(8, TRUE, 1), Msg(8, FALSE, 1)>>, 100)
TraceB == Trace(2, 2, <<Msg(8, FALSE, 1), Msg(8, FALSE, 9)>>, 100)
TraceCut == Trace(2, 3, <<Msg(8, FALSE, 1), Msg(8, FALSE, 1)>>, 50)

(* The host: logs, and a trace of an old process. *)
HostFiles ==
  Append(VarLog, "messages") :> Log("messages")
  @@ InstallLog :> Log("install")
  @@ (Home \o <<"ascend", "log", "run", "plog", "plog-1">>)
       :> Plog("plog", NoPath, << [ext |-> "none", dyn |-> "K"] >>)
  @@ (Home \o <<"ascend", "log", "debug", "plog", "plog-1">>) :> Plog("plog-debug", NoPath, <<>>)
  @@ (Home \o <<"ascend", "atrace", "1", "a.bin">>) :> TraceA

OpsFiles ==
  <<"opp", "kernel", "k.json">> :> [kernels |-> {"K"}]
  @@ <<"opp", "kernel", "k.o">> :> Log("object")
  @@ <<"opp", "debug_kernel", "k.o">> :> Log("debug")
  @@ <<"opp", "vendors", "config.ini">> :> [vendors |-> <<"v1">>]
  @@ <<"opp", "vendors", "v1", "config", "x", "k.json">> :> [kernels |-> {}]
  @@ <<"cache", "config", "x", "k.json">> :> [kernels |-> {}]

GraphFiles ==
  <<"in", "ge_onnx_1.pbtxt">> :> Log("ge") @@ <<"in", "TF_GeOp_1.pbtxt">> :> Log("tf")

Device(d) ==
  <<"slog", d, "debug", "device-os", "d.log">> :> Log(d \o " debug")
  @@ <<"slog", d, "run", "device-os", "d.log">> :> Log(d \o " run")
  @@ <<"slog", d, "run", "event-1", "d.log">> :> Log(d \o " event")
  @@ <<"slog", d, "run", "device-0", "d.log">> :> Log(d \o " firmware")
  @@ <<"slog", d, "debug", "device-app-7", "d.log">> :> Log(d \o " app")
  @@ <<"slog", d, "slogd", "d.log">> :> Log(d \o " slogd")
  @@ <<"message", d, "d.log">> :> Log(d \o " message")
Exported ==
  Device("dev-os-0") @@ Device("dev-os-1")
  @@ <<"slog", "dev-os-1", "device-0", "d.log">> :> Log("old firmware")
  @@ <<"slog", "dev-os-1", "debug", "device-0", "d.log">> :> Log("debug firmware")
  @@ <<"stackcore", "core.7">> :> Log("stackcore")
  @@ <<"hisi_logs", "d.log">> :> Log("bbox")
  @@ <<"slog", "host", "klog">> :> Log("driver")
Src == <<"msnpureport">>
Task == <<"task">>
Under(d, files) == [p \in {d \o q : q \in DOMAIN files} |-> files[SubSeq(p, Len(d) + 1, Len(p))]]

Produced ==
  <<"task_launch_host_log", "run", "plog", "plog-1">> :> Plog("task plog", NoPath, <<>>)
  @@ <<"task_launch_host_log", "atrace", "1", "b.bin">> :> TraceB
  @@ <<"extra-info", "graph", "ge_onnx_1.pbtxt">> :> Log("task ge")
  @@ <<"extra-info", "ops", "k.json">> :> [kernels |-> {"K"}]

RcFiles ==
  Append(VarLog, "messages") :> Log("messages")
  @@ InstallLog :> Log("install")
  @@ (CoredumpDir \o <<"1", "core.7">>) :> [log |-> "core", pid |-> "7"]
  @@ (CoredumpDir \o <<"2", "core.8">>) :> [log |-> "other core", pid |-> "8"]
  @@ (VarLog \o <<"npu", "slog", "debug", "device-os", "d.log">>) :> Log("rc debug")
  @@ (VarLog \o <<"npu", "slog", "run", "device-os", "d.log">>) :> Log("rc run")
  @@ (VarLog \o <<"npu", "slog", "security", "device-app-7", "d.log">>) :> Log("rc app")
  @@ (VarLog \o <<"npu", "slog", "security", "device-app-8", "d.log">>) :> Log("other app")
  @@ (VarLog \o <<"npu", "slog", "device-0", "d.log">>) :> Log("rc firmware")
  @@ <<"var", "log", "bbox", "d.log">> :> Log("rc bbox")
  @@ <<"var", "bbox.conf">> :> [logdir |-> <<"var", "log", "bbox">>]

Env == [process_log |-> NoPath, npu_collect |-> NoPath, dump_graph |-> NoPath, work |-> NoPath,
        cache |-> NoPath, opp |-> <<"opp">>, custom_opp |-> <<(<<"cache">>)>>, cwd |-> Cwd,
        home |-> Home]

Answer_(chip, health, codes, master, fails) ==
  [fails |-> fails, chip |-> chip, ml |-> TRUE, health |-> health, codes |-> codes,
   master |-> master]
TwoOfAMaster == 0 :> Answer_("91093", 0, <<>>, 0, {}) @@ 1 :> Answer_("91093", 3, <<1>>, 0, {})
Mixed == 0 :> Answer_("91093", 0, <<>>, 0, {}) @@ 1 :> Answer_("950", 1, <<1>>, 1, {"bus"})
         @@ 2 :> Answer_("310", 0, <<>>, 2, {})
Unresolved == 0 :> Answer_("91093", 0, <<>>, 0, {"masterid"})
              @@ 1 :> Answer_("91093", 0, <<>>, 0, {"phyid"})
              @@ 2 :> Answer_("91093", 0, <<>>, 0, {})

Inv(cmd, opts) == [cmd |-> cmd, dup |-> FALSE, opts |-> opts]
NoOpts == <<>>
PathOf(p) == [text |-> "plain", path |-> p]

Usual ==
  [inv |-> Inv("collect", NoOpts), tree |-> Tree(HostFiles @@ Under(Src, Exported), {Cwd, Task}),
   env |-> Env, envtype |-> "EP", conf |-> TRUE, ini |-> {"graph", "ops"}, index |-> <<"0", "1">>,
   n |-> 1, ans |-> TwoOfAMaster,
   host |-> [virt |-> "none", root |-> TRUE, ops |-> TRUE, stl |-> TRUE],
   tools |-> {"gdb", "msaicerr", "readelf"}, export |-> {Src}, produced |-> Task, pid |-> "7",
   sigint |-> FALSE, codes |-> {0, 500001, 7}]
Run(cmd, opts) == [Usual EXCEPT !.inv = Inv(cmd, opts)]
On(s, files, dirs) == [s EXCEPT !.tree = Tree(files, dirs \cup {Cwd, Task, Src})]

Collects ==
  {Run("collect", "tar" :> "T"),
   [On(Run("collect", "task_dir" :> PathOf(<<"in">>)), HostFiles @@ OpsFiles @@ GraphFiles, {})
      EXCEPT !.export = {NoPath, <<>>}],
   \* the logs are somewhere else, and a dump with equal names in two directories
   [On(Run("collect", "task_dir" :> PathOf(<<"in">>)),
       <<"in", "extra-info", "data-dump", "1", "k.o">> :> Log("dump 1")
       @@ <<"in", "extra-info", "data-dump", "2", "k.o">> :> Log("dump 2"), {})
      EXCEPT !.export = {NoPath}],
   [On(Run("collect", "output" :> PathOf(<<"work">>)), RcFiles, {}) EXCEPT !.envtype = "RC"],
   Run("collect", "remote" :> 1)}

Launches ==
  {[On(Run("launch", "task" :> [text |-> "plain", path |-> NoPath]),
       HostFiles @@ Under(Src, Exported) @@ Under(Task, Produced), {}) EXCEPT !.sigint = TRUE],
   [On(Run("launch", "task" :> [text |-> "plain", path |-> NoPath]), RcFiles @@ Under(Task, Produced), {})
      EXCEPT !.envtype = "RC", !.ini = {}]}

(* Stack files: two processes that mapped other binaries at one address. *)
Lib(n) == <<"lib", n>>
Frame(a, b, n) == [addr |-> a, base |-> b, bin |-> Lib(n)]
Binaries == Lib("libx.so") :> [exec |-> FALSE] @@ Lib("exe") :> [exec |-> TRUE]
Stack(maps, frames) == [empty |-> FALSE, maps |-> maps, frames |-> frames]
Stacks ==
  <<"in", "stackcore_1.txt">> :>
    Stack(100 :> Lib("libx.so"), <<Frame(110, 100, "libx.so"), Frame(210, 200, "exe")>>)
  @@ <<"in", "stackcore_2.txt">> :> Stack(200 :> Lib("exe"), <<Frame(205, 200, "exe")>>)
(* a file with the maps only, and one with nothing *)
PoorStacks ==
  <<"in", "stackcore_1.txt">> :> Stack(200 :> Lib("exe"), <<>>)
  @@ <<"in", "stackcore_2.txt">> :> [Stack(<<>>, <<>>) EXCEPT !.empty = TRUE]
Map_(n, s, e) == [kind |-> "map", bin |-> Lib(n), start |-> s, end |-> e]
CoreTrace ==
  <<"in", "coretrace_1">> :>
    [core |-> <<[kind |-> "head"], Map_("exe", 0, 100), Map_("libx.so", 100, 200),
                [kind |-> "driver"], [kind |-> "frame", addr |-> 110, first |-> TRUE],
                [kind |-> "frame", addr |-> 102, first |-> FALSE],
                [kind |-> "frame", addr |-> 900, first |-> FALSE]>>]
Gdb(pid) ==
  [gdb |-> << [kind |-> "process", pid |-> pid], [kind |-> "thread", thread |-> "t1"],
              [kind |-> "frame", no |-> 0, addr |-> 50, hex |-> TRUE, named |-> FALSE],
              [kind |-> "frame", no |-> 1, addr |-> 500, hex |-> FALSE, named |-> TRUE],
              Map_("exe", 0, 40), Map_("exe", 40, 100)>>]
UbFiles ==
  <<"in", "ubmem_daw.bin">> :> [bytes |-> 4, count |-> 0]
  @@ <<"in", "ubtpl_acl_src.bin">> :> [bytes |-> 68, count |-> 1]
  @@ <<"in", "sl_to_vl.bin">> :> [bytes |-> 71, count |-> 0]
  @@ <<"in", "ubnl_dfx_statistic.bin">> :> [bytes |-> 3608, count |-> 51]

Analyze(opts, files) == On(Run("analyze", opts), files, {<<"in">>})
Traces == <<"in", "a.bin">> :> TraceA @@ <<"in", "b.bin">> :> TraceB
Analyses ==
  {Analyze("r" :> "trace" @@ "path" :> PathOf(<<"in">>), Traces),
   Analyze("r" :> "trace" @@ "file" :> PathOf(<<"in", "b.bin">>), <<"in", "b.bin">> :> TraceCut),
   Analyze("r" :> "trace" @@ "path" :> PathOf(<<"in">>) @@ "output" :> PathOf(<<"in", "work">>), Traces),
   Analyze("r" :> "stackcore" @@ "path" :> PathOf(<<"in">>), Stacks @@ Binaries),
   Analyze("r" :> "stackcore" @@ "path" :> PathOf(<<"in">>), PoorStacks @@ Binaries),
   Analyze("r" :> "stackcore" @@ "file" :> PathOf(<<"in", "stackcore_1.txt">>)
           @@ "symbol_path" :> << <<"lib">> >>, Stacks @@ Binaries),
   Analyze("r" :> "coretrace" @@ "path" :> PathOf(<<"in">>), CoreTrace),
   Analyze("r" :> "coredump" @@ "core_file" :> PathOf(<<"in", "core">>) @@ "exe_file" :> PathOf(Lib("exe")),
           <<"in", "core">> :> Gdb(7) @@ Binaries),
   Analyze("r" :> "coredump" @@ "core_file" :> PathOf(<<"in", "core">>) @@ "exe_file" :> PathOf(Lib("exe")),
           <<"in", "core">> :> Gdb(0) @@ Binaries),
   Analyze("r" :> "ub" @@ "path" :> PathOf(<<"in">>), UbFiles),
   Analyze("r" :> "aicore_error" @@ "path" :> PathOf(<<"in">>), Traces),
   [Run("analyze", "r" :> "aicore_error") EXCEPT !.export = {NoPath}],
   [Run("analyze", "r" :> "aicore_error") EXCEPT !.tools = {}]}

Diagnoses ==
  {[Run("diagnose", o) EXCEPT !.n = n, !.ans = a, !.codes = {0, 7}] :
     o \in {"r" :> "hbm_detect", "r" :> "component", "r" :> "aicore_stl_detect",
            "r" :> "stress_detect" @@ "output" :> PathOf(<<"work">>)},
     n \in {2}, a \in {TwoOfAMaster, Mixed}}
  \cup {[Run("diagnose", "r" :> "hbm_detect") EXCEPT !.n = 3, !.ans = Unresolved],
        [Run("diagnose", "r" :> "cpu_detect") EXCEPT !.n = 3, !.ans = Mixed],
        [Run("diagnose", "r" :> "cpu_detect" @@ "d" :> 0 @@ "timeout" :> 0) EXCEPT !.n = 3, !.ans = Mixed]}

Others ==
  {[Run("info", "r" :> "status") EXCEPT !.n = 1], Run("health", NoOpts), Run("health", "d" :> 0),
   [Run("config", "stress_detect" :> TRUE @@ "get" :> TRUE) EXCEPT !.ans = Mixed],
   [Run("config", "stress_detect" :> TRUE @@ "restore" :> TRUE @@ "d" :> 1) EXCEPT !.n = 2, !.ans = Mixed],
   Run("profiling", "r" :> {"aicore", "power"} @@ "p" :> 5),
   Run("collect", "r" :> "stacktrace")}

Refused ==
  {[Run("collect", NoOpts) EXCEPT !.inv.dup = TRUE],
   Run("help", NoOpts), Run("none", NoOpts), Run("launch", NoOpts),
   Run("analyze", "r" :> "coredump" @@ "core_file" :> PathOf(<<"nothing">>)
                  @@ "output" :> PathOf(<<"work">>)),
   Run("collect", "tar" :> "maybe" @@ "output" :> PathOf(<<"work">>)),
   [Run("collect", NoOpts) EXCEPT !.envtype = ""],
   [Run("collect", "r" :> "stacktrace") EXCEPT !.envtype = "RC"],
   [Run("collect", NoOpts) EXCEPT !.conf = FALSE]}

MCScenario == Collects \cup Launches \cup Analyses \cup Diagnoses \cup Others \cup Refused
=============================================================================
