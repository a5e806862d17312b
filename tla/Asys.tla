-------------------------------- MODULE Asys --------------------------------
(***************************************************************************)
(* One run of asys from its command line to its exit status (asys.py,      *)
(* collect/asys_collect.py, launch/asys_launch.py, analyze/asys_analyze.py, *)
(* diagnose/asys_diagnose.py), with what runs beside its main thread: the  *)
(* parser threads, the forked worker that asks the devices, the launched   *)
(* task, the thread that shows the progress, the detections, and the user  *)
(* who may press Ctrl-C.                                                   *)
(*                                                                         *)
(* A scenario is what a run finds: the invocation (inv), the tree, the     *)
(* environment (env, envtype, conf, ini, index), the devices (n, ans), the *)
(* host with its tools, and what the programs that asys starts leave       *)
(* behind: export (msnpureport), produced (the launched task).             *)
(***************************************************************************)
EXTENDS AsysGather, AsysArgs, AsysStackcore, AsysDevice, AsysStacktrace

CONSTANTS
  Scenario,
  OutName,      \* the name asys_output_<time> of the output directory
  Self          \* this asys among the Tracer processes

Commands == {"help", "none", "collect", "launch", "diagnose", "health", "info", "analyze",
             "config", "profiling"}
\* argparse knows the commands, and converts the device with int.
ASSUME ScenarioAssumption ==
  \A s \in Scenario :
    /\ s.inv.cmd \in Commands /\ s.n \in Nat
    /\ "d" \in DOMAIN s.inv.opts => s.inv.opts["d"] \in Int \cup {NotInt}

VARIABLES
  sc,           \* the scenario
  pc,           \* where the main thread is
  out,          \* the output directory, or NoPath
  warned,       \* the collections that the log reports as failed
  worker,       \* the forked worker: [job, state, left], left what it still writes
  task,         \* the launched task: none, running, ended or stopped
  pro,          \* execute_task has its handle
  handler,      \* interrupt_handler is installed
  view,         \* the progress thread: off, on or told to finish
  todo, detect, \* the device groups not yet detected, the results so far
  result        \* the exit status, TRUE or FALSE

runVars == <<sc, out, result>>
colVars == <<warned, worker>>
lauVars == <<task, pro, handler, view>>
diaVars == <<todo, detect>>
asysVars == <<traceVars, pc, runVars, colVars, lauVars, diaVars>>

Args == SetArgs(sc.inv)
Arg(o) == Args[o]
Is(o, v) == HasArg(Args, o) /\ Args[o] = v
PathArg(o) == IF HasArg(Args, o) THEN Args[o].path ELSE NoPath
Cmd == sc.inv.cmd
Npu == Append(out, "npu_collect_intermediates")
ExportTmp == Append(out, "export_tmp")
TaskLogs == Append(Npu, "task_launch_host_log")

\* prepare_for_launch points the environment of the task into the output.
Context ==
  [cmd |-> Cmd, out |-> out, ini |-> sc.ini, taskdir |-> PathArg("task_dir"),
   pid |-> IF task = "none" THEN NoPath ELSE sc.pid,
   env |-> IF Cmd = "launch" THEN [sc.env EXCEPT !.process_log = TaskLogs, !.work = TaskLogs,
                                                 !.npu_collect = Npu]
           ELSE sc.env]

Final == {"done", "raised", "killed"}
AsysInit ==
  /\ sc \in Scenario
  /\ tree = sc.tree /\ parser = NewParser /\ threads = <<>>
  /\ pc = "start" /\ out = NoPath /\ result = FALSE
  /\ warned = {} /\ worker = [job |-> "none", state |-> "none", left |-> <<>>]
  /\ task = "none" /\ pro = FALSE /\ handler = FALSE /\ view = "off"
  /\ todo = {} /\ detect = <<>>
  /\ StInit

Goto_(l) == pc' = l /\ UNCHANGED runVars
Return(ok) == pc' = "tar" /\ result' = ok /\ UNCHANGED <<sc, out>>
Exit(ok) == pc' = "done" /\ result' = ok /\ UNCHANGED <<sc, out>>

(***************************************************************************)
(* asys.py: main                                                           *)
(***************************************************************************)
ParseCommand ==
  LET parsed == ParseArgs(sc.inv, sc.envtype)
      checked == CheckArgs(tree, sc.inv, sc.n)
  IN /\ pc = "start"
     /\ IF sc.inv.dup \/ parsed = "exit_2" THEN Exit(FALSE) /\ UNCHANGED tree
        ELSE IF parsed = "exit_0" \/ Cmd = "none" THEN Exit(TRUE) /\ UNCHANGED tree
        ELSE tree' = checked.t /\ IF checked.ok THEN Goto_("env") ELSE Exit(FALSE)
     /\ UNCHANGED <<parser, threads, colVars, lauVars, diaVars>>

EnvSupports ==
  /\ sc.envtype \in {"EP", "RC"}
  /\ sc.envtype = "RC" => Cmd \in RcCmds /\ ~(Cmd = "collect" /\ HasArg(Args, "r"))
  /\ sc.conf

CheckEnvironment ==
  /\ pc = "env"
  /\ IF EnvSupports THEN Goto_("create") ELSE Exit(FALSE)
  /\ UNCHANGED <<traceVars, colVars, lauVars, diaVars>>

CreateOutTimestampDir ==
  LET parent == IF HasArg(Args, "output") THEN PathArg("output") ELSE sc.env.cwd
      made == CreateDir(tree, Append(parent, OutName))
  IN /\ pc = "create"
     /\ IF Cmd \notin CollectCmds THEN Goto_("run") /\ UNCHANGED tree
        ELSE IF ~Writable(tree, parent) \/ ~made.ok THEN Exit(FALSE) /\ UNCHANGED tree
        ELSE /\ tree' = made.t /\ out' = Append(parent, OutName)
             /\ pc' = "run" /\ UNCHANGED <<sc, result>>
     /\ UNCHANGED <<parser, threads, colVars, lauVars, diaVars>>

FirstStep ==
  CASE Cmd = "collect" /\ Is("r", "stacktrace") -> "stacktrace"
    [] Cmd = "diagnose" /\ Is("r", "component") -> "component"
    [] Cmd = "launch" -> "prepare"
    [] OTHER -> Cmd

Dispatch ==
  /\ pc = "run"
  /\ Goto_(FirstStep)
  /\ UNCHANGED <<traceVars, colVars, lauVars, diaVars>>

\* compress_output_dir_tar: only after a command that has an output directory.
CompressOutputDirTar ==
  LET packed == WithFile(tree, Append(Front(out), OutName \o ".tar.gz"),
                         [of |-> Inside(tree, out)])
  IN /\ pc = "tar"
     /\ pc' = "done" /\ UNCHANGED runVars
     /\ tree' = IF (Is("tar", "T") \/ Is("tar", "TRUE")) /\ CheckDir(tree, out)
                THEN Without(packed, Inside(packed, out)) ELSE tree
     /\ UNCHANGED <<parser, threads, colVars, lauVars, diaVars>>

(***************************************************************************)
(* AsysCollect.collect, which launch and the analysis of AI Core errors    *)
(* call too, and clean_work.                                               *)
(***************************************************************************)
CollectStart ==
  /\ pc = "collect"
  /\ IF HasArg(Args, "remote") \/ HasArg(Args, "all") \/ HasArg(Args, "quiet")
     THEN pc' = "clean" /\ result' = FALSE /\ UNCHANGED <<sc, out, view>>
     ELSE Goto_(IF sc.envtype = "EP" THEN "host" ELSE "rc") /\ view' = "on"
  /\ UNCHANGED <<traceVars, colVars, task, pro, handler, diaVars>>

\* A part of the collection: what fails is logged, what raises ends asys.
Part(from, to, Op(_)) ==
  LET r == Op([t |-> tree, raised |-> FALSE, warned |-> warned]) IN
  /\ pc = from
  /\ tree' = r.t /\ warned' = r.warned
  /\ Goto_(IF r.raised THEN "raised" ELSE to)
  /\ UNCHANGED <<parser, threads, worker, lauVars, diaVars>>

CollectHost == Part("host", "export", LAMBDA st : CollectHostLogs(st, Context))
CollectRc == Part("rc", "graph", LAMBDA st : CollectRcLogs(st, Context))
CollectGraphs == Part("graph", "dump", LAMBDA st : CollectGraph(st, Context))
CollectDumps == Part("dump", "ops", LAMBDA st : CollectDataDump(st, Context))
CollectOpsFiles == Part("ops", "trace", LAMBDA st : CollectOps(st, Context, sc.index))

\* _device_file_export: msnpureport fails (NoPath), or leaves nothing (<<>>) or a directory.
DeviceFileExport ==
  \E left \in sc.export :
    /\ pc = "export"
    /\ CASE left = NoPath -> tree' = tree /\ warned' = warned \cup {"export"}
         [] left = <<>> -> /\ tree' = CreateDir(tree, ExportTmp).t
                              /\ warned' = warned \cup {"export"}
         [] OTHER -> tree' = Grafted(tree, left, Append(ExportTmp, "time")) /\ UNCHANGED warned
    /\ Goto_(IF left \in {NoPath, <<>>} THEN "graph" ELSE "device")
    /\ UNCHANGED <<parser, threads, worker, lauVars, diaVars>>
CollectDeviceFiles ==
  Part("device", "graph", LAMBDA st :
         CollectDeviceLogs(st, Context, Append(ExportTmp, Head(ListDir(tree, ExportTmp)))))

CollectTrace ==
  /\ pc = "trace"
  /\ StartTrace(TraceFiles(At(Context, <<"dfx", "atrace">>)))
  /\ Goto_("tracing")
  /\ UNCHANGED <<tree, colVars, lauVars, diaVars>>

\* The threads of the trace parser; run joins them all.
ParseThread ==
  /\ pc \in {"tracing", "parsing"}
  /\ TraceStep \/ StackStep(IF HasArg(Args, "symbol_path") THEN Arg("symbol_path") ELSE <<>>,
                            "readelf" \in sc.tools)
  /\ UNCHANGED <<pc, runVars, colVars, lauVars, diaVars>>

TraceJoin ==
  /\ pc = "tracing" /\ TraceEnded
  /\ Goto_("status_info")
  /\ UNCHANGED <<traceVars, colVars, lauVars, diaVars>>

(***************************************************************************)
(* timeout_decorator: a forked worker, joined for a time, then terminated, *)
(* joined again and killed.  It writes its files one by one; the device    *)
(* driver may fail it or let it hang, and hold off a SIGTERM.              *)
(***************************************************************************)
WorkerFiles(job) ==
  CASE job = "status_info" -> (IF sc.envtype = "EP" THEN <<"hardware_info.txt">> ELSE <<>>)
                         \o <<"software_info.txt">>
                         \o (IF sc.envtype = "EP" /\ sc.n > 0 THEN <<"status_info.txt">> ELSE <<>>)
    [] job = "health_info" -> IF sc.envtype = "EP" THEN <<"health_result.txt">> ELSE <<>>
    [] job = "info" -> <<>>

\* collect_status_info, collect_health_info and, for the command info, run_info.
StartWorker ==
  /\ pc \in {"status_info", "health_info", "info"}
  /\ worker' = [job |-> pc, state |-> "running", left |-> WorkerFiles(pc)]
  /\ Goto_("join")
  /\ UNCHANGED <<traceVars, warned, lauVars, diaVars>>

WorkerStep ==
  /\ worker.state = "running"
  /\ \/ /\ worker.left # <<>>
        /\ tree' = WithFile(tree, Append(out, Head(worker.left)), [of |-> worker.job])
        /\ worker' = [worker EXCEPT !.left = Tail(@)]
     \/ /\ worker.left = <<>> /\ worker' = [worker EXCEPT !.state = "exited"] /\ UNCHANGED tree
     \/ worker' = [worker EXCEPT !.state = "failed"] /\ UNCHANGED tree
  /\ UNCHANGED <<parser, threads, pc, runVars, warned, lauVars, diaVars>>

AfterWorker(ok) ==
  CASE worker.job = "status_info" -> Goto_("health_info")
    [] worker.job = "health_info" -> Goto_("finish")
    [] worker.job = "info" -> Return(ok)

\* Only a worker with raise_on_error, that is not of info, reports a failure.
JoinWorker ==
  /\ pc = "join" /\ worker.state \in {"exited", "failed"}
  /\ AfterWorker(TRUE)
  /\ warned' = IF worker.state = "failed" /\ worker.job # "info"
               THEN warned \cup {worker.job} ELSE warned
  /\ UNCHANGED <<traceVars, worker, lauVars, diaVars>>

WorkerTimeout ==
  /\ pc = "join" /\ worker.state = "running"
  /\ Goto_("term")
  /\ UNCHANGED <<traceVars, colVars, lauVars, diaVars>>

TerminateWorker_Left ==
  /\ pc = "term"
  /\ warned' = warned \cup {worker.job}
  /\ AfterWorker(FALSE)
  /\ UNCHANGED <<traceVars, worker, lauVars, diaVars>>

\* After SIGTERM it is dead, or still there until it is killed.
TerminateWorker ==
  /\ pc = "term"
  /\ worker' = [worker EXCEPT !.state = IF @ = "running" THEN "dead" ELSE @]
  /\ warned' = warned \cup {worker.job}
  /\ AfterWorker(FALSE)
  /\ UNCHANGED <<traceVars, lauVars, diaVars>>

FinishCollect ==
  /\ pc = "finish"
  /\ view' = "finish"
  /\ Goto_("joinview")
  /\ UNCHANGED <<traceVars, colVars, task, pro, handler, diaVars>>
ViewEnds ==
  /\ view = "finish"
  /\ view' = "off"
  /\ UNCHANGED <<traceVars, pc, runVars, colVars, task, pro, handler, diaVars>>
CollectReturns ==
  /\ pc = "joinview" /\ view = "off"
  /\ pc' = "clean" /\ result' = TRUE /\ UNCHANGED <<sc, out>>
  /\ UNCHANGED <<traceVars, colVars, lauVars, diaVars>>

CleanDirs == IF Cmd = "launch" THEN <<Npu, ExportTmp>> ELSE <<ExportTmp>>
CleanWork ==
  /\ pc = "clean"
  /\ tree' = DeleteDirs(tree, CleanDirs)
  /\ IF Cmd = "analyze" /\ result THEN Goto_("msaicerr") ELSE Return(result)
  /\ UNCHANGED <<parser, threads, colVars, lauVars, diaVars>>

(***************************************************************************)
(* AsysLaunch.                                                             *)
(***************************************************************************)
PrepareForLaunch ==
  LET npu == CreateDir(tree, Npu)
      work == CreateDir(npu.t, TaskLogs)
  IN /\ pc = "prepare"
     /\ tree' = work.t
     /\ IF npu.ok /\ work.ok THEN Goto_("signal")
        ELSE pc' = "clean" /\ result' = FALSE /\ UNCHANGED <<sc, out>>
     /\ UNCHANGED <<parser, threads, colVars, lauVars, diaVars>>

InstallHandler ==
  /\ pc = "signal"
  /\ handler' = TRUE /\ Goto_("popen")
  /\ UNCHANGED <<traceVars, colVars, task, pro, view, diaVars>>
Popen ==
  /\ pc = "popen"
  /\ task' = "running" /\ Goto_("assign")
  /\ UNCHANGED <<traceVars, colVars, pro, handler, view, diaVars>>
AssignPro ==
  /\ pc = "assign"
  /\ pro' = TRUE /\ view' = "on" /\ Goto_("communicate")
  /\ UNCHANGED <<traceVars, colVars, task, handler, diaVars>>

\* The task, once, leaves what it produces where its environment points to.
TaskEnds ==
  /\ task = "running"
  /\ task' = "ended"
  /\ tree' = Grafted(tree, sc.produced, Npu)
  /\ UNCHANGED <<parser, threads, pc, runVars, colVars, pro, handler, view, diaVars>>

Communicate ==
  /\ pc = "communicate" /\ task = "ended"
  /\ handler' = FALSE /\ view' = "finish" /\ Goto_("joinlaunch")
  /\ UNCHANGED <<traceVars, colVars, task, pro, diaVars>>

\* task_out_collect: the command and its screen output, then the collection.
TaskOutCollect ==
  LET dir == At(Context, IF sc.envtype = "EP" THEN <<"dfx", "log", "host">> ELSE <<"dfx", "log">>)
      cmd == WriteFile(tree, Append(dir, "user_cmd"), [of |-> "cmd"])
  IN /\ pc = "joinlaunch" /\ view = "off"
     /\ tree' = WriteFile(cmd.t, Append(dir, "screen.txt"), [of |-> "task"]).t
     /\ Goto_("collect")
     /\ UNCHANGED <<parser, threads, colVars, lauVars, diaVars>>

(***************************************************************************)
(* Ctrl-C while the task is prepared and runs.  By default it ends asys;   *)
(* interrupt_handler stops the group of the task first, and fails on the   *)
(* name pro as long as Popen has not returned.                             *)
(***************************************************************************)
Interrupt ==
  /\ sc.sigint /\ pc \in {"signal", "popen", "assign", "communicate", "joinlaunch"}
  /\ pc' = (IF handler /\ ~pro THEN "raised" ELSE "killed")
  /\ task' = IF handler /\ pro /\ task = "running" THEN "stopped" ELSE task
  /\ UNCHANGED <<traceVars, runVars, colVars, pro, handler, view, diaVars>>

(***************************************************************************)
(* AsysAnalyze.                                                            *)
(***************************************************************************)
StackModes == {"trace", "stackcore", "coretrace"}
OutputInPath ==
  CheckExists(tree, PathArg("path")) /\ CheckExists(tree, out) /\ IsPrefix(PathArg("path"), out)

AnalyzeGuard ==
  /\ pc = "analyze"
  /\ IF OutputInPath
     THEN /\ tree' = IF PathArg("path") # out THEN RemoveDir(tree, out).t ELSE tree
          /\ Return(FALSE)
     ELSE Goto_(IF Arg("r") \in StackModes THEN "copy" ELSE Arg("r")) /\ UNCHANGED tree
  /\ UNCHANGED <<parser, threads, colVars, lauVars, diaVars>>

InputCopy == IF HasArg(Args, "file") THEN Append(out, Last(PathArg("file")))
          ELSE Append(out, Last(PathArg("path")))

\* __copy_dir: all of a trace directory, else the files named after the mode.
CopyInput ==
  LET wanted == IF Arg("r") = "stackcore" THEN StackName ELSE CoreName
      files == SelectSeq(WalkFiles(tree, PathArg("path")), LAMBDA p : Last(p) \in wanted)
  IN IF HasArg(Args, "file") THEN [CopyFileToDir(tree, PathArg("file"), out) EXCEPT !.ok = TRUE]
     ELSE IF Arg("r") = "trace" THEN CopyDir(tree, PathArg("path"), InputCopy)
     ELSE FoldLeft(LAMBDA acc, p : AndThen(acc, LAMBDA u :
                     CopyFileToDir(u, p, Rebase(Front(p), PathArg("path"), InputCopy))),
                   Done(tree), files)

AnalyzeCopy ==
  /\ pc = "copy"
  /\ tree' = CopyInput.t
  /\ IF (HasArg(Args, "file") \/ HasArg(Args, "path")) /\ CopyInput.ok
     THEN Goto_("parse") ELSE Return(FALSE)
  /\ UNCHANGED <<parser, threads, colVars, lauVars, diaVars>>

InputFiles ==
  IF HasArg(Args, "file") THEN {p \in DOMAIN tree.file \cap Path : p = InputCopy}
  ELSE CASE Arg("r") = "trace" -> TraceFiles(InputCopy)
         [] Arg("r") = "stackcore" -> {p \in FilesBelow(tree, InputCopy) : Last(p) \in TxtFile}
         [] Arg("r") = "coretrace" -> {p \in FilesBelow(tree, InputCopy) : Last(p) \in CoreName}

AnalyzeParse ==
  /\ pc = "parse"
  /\ CASE Arg("r") = "trace" -> StartTrace(InputFiles)
       [] Arg("r") = "stackcore" -> StartStack(InputFiles)
       [] Arg("r") = "coretrace" -> StartCore(InputFiles)
  /\ Goto_("parsing")
  /\ UNCHANGED <<tree, colVars, lauVars, diaVars>>

\* A directory of traces is analysed whatever becomes of its files.
AnalyzeJoin ==
  /\ pc = "parsing" /\ TraceEnded
  /\ Return((Arg("r") = "trace" /\ HasArg(Args, "path")) \/ StackResult)
  /\ UNCHANGED <<traceVars, colVars, lauVars, diaVars>>

CoreDumpAnalyze ==
  LET dump == CoreDumpText(tree.file[PathArg("core_file")].gdb, Is("symbol", 1))
      ready == "gdb" \in sc.tools /\ HasArg(Args, "exe_file") /\ HasArg(Args, "core_file")
  IN /\ pc = "coredump"
     /\ IF ~ready THEN Return(FALSE) /\ UNCHANGED tree
        ELSE /\ Return(dump.pid # 0)
             /\ tree' = IF dump.pid = 0 THEN tree
                        ELSE WithFile(tree, Append(out, "stackcore.txt"), [of |-> "core", dump |-> dump])
     /\ UNCHANGED <<parser, threads, colVars, lauVars, diaVars>>

AicoreErrorAnalyze ==
  /\ pc = "aicore_error"
  /\ IF "msaicerr" \notin sc.tools THEN Return(FALSE)
     ELSE Goto_(IF HasArg(Args, "path") THEN "msaicerr" ELSE "collect")
  /\ UNCHANGED <<traceVars, colVars, lauVars, diaVars>>

\* msaicerr reports next to the output directory, which then goes.
RunMsaicerr ==
  \E ok \in BOOLEAN :
    /\ pc = "msaicerr"
    /\ tree' = RemoveDir(WithFile(tree, Front(out) \o <<"info", "info.txt">>, [of |-> "report"]), out).t
    /\ Return(ok)
    /\ UNCHANGED <<parser, threads, colVars, lauVars, diaVars>>

(***************************************************************************)
(* The tables of the UB: a converter writes its text when the file is long *)
(* enough for what it says it holds.                                       *)
(***************************************************************************)
StatsItemNum == 50
StatsFits(c) == c.bytes >= 8 + 72 * StatsItemNum /\ c.count <= StatsItemNum
DawFits(c) == c.bytes >= 4
AclHead == 16
AclSize == 52
AclFits(c) == c.bytes >= AclHead /\ c.bytes >= AclHead + c.count * AclSize
SlToVlFits(c) == c.bytes >= 8 + 2 * 2 * 16

UbTables == <<"ubnl_dfx_statistic", "ubnl_dfx_ssu_schedule", "ubnl_dfx_config_item",
              "ubmem_daw", "ubtpl_acl_src", "sl_to_vl">>
UbFits(name, c) ==
  CASE name = "ubmem_daw" -> DawFits(c)
    [] name = "ubtpl_acl_src" -> AclFits(c)
    [] name = "sl_to_vl" -> SlToVlFits(c)
    [] OTHER -> StatsFits(c)

Convert(t, name) ==
  LET bin == Append(PathArg("path"), name \o ".bin")
  IN IF CheckFile(t, bin) /\ Readable(t, bin) /\ UbFits(name, t.file[bin])
     THEN WithFile(t, Append(out, name \o ".txt"), [of |-> bin]) ELSE t

UbAnalyze ==
  /\ pc = "ub"
  /\ tree' = IF HasArg(Args, "path") THEN FoldLeft(Convert, tree, UbTables) ELSE tree
  /\ Return(HasArg(Args, "path"))
  /\ UNCHANGED <<parser, threads, colVars, lauVars, diaVars>>

(***************************************************************************)
(* AsysDiagnose.                                                           *)
(***************************************************************************)
Asked == IF HasArg(Args, "d") THEN {Arg("d")} ELSE 0..(sc.n - 1)
Devices == DiagnoseDevices(sc.ans, Asked, Arg("r"))

HardwareDetect ==
  /\ pc = "diagnose"
  /\ IF Devices # {} /\ CheckSupport(sc.host, sc.n, Args)
        /\ LibraryLoaded(sc.host, sc.ans, Args)
     THEN Goto_("detect") /\ todo' = Groups(sc.ans, Devices) /\ view' = "on"
     ELSE Return(FALSE) /\ UNCHANGED <<todo, view>>
  /\ UNCHANGED <<traceVars, colVars, task, pro, handler, detect>>

Busy == {d \in DOMAIN detect : detect[d] = <<d, "running">>}
Group(d) == CHOOSE g \in Groups(sc.ans, Devices) : d \in g
By(d) == DetectedBy(sc.ans, Group(d), Arg("r"), d)

\* run_diagnose of a handler: a thread for every device that is detected itself.
RunDiagnose ==
  \E g \in todo :
    /\ pc = "detect" /\ Busy = {}
    /\ todo' = todo \ {g}
    /\ detect' = [d \in DOMAIN detect \cup {x \in g : By(x) = x} |->
                    IF d \in g THEN <<d, "running">> ELSE detect[d]]
    /\ UNCHANGED <<traceVars, pc, runVars, colVars, lauVars>>
DetectionEnds(d) ==
  \E code \in sc.codes :
    /\ d \in Busy
    /\ detect' = [detect EXCEPT ![d] = <<d, Verdict(Arg("r"), code)>>]
    /\ UNCHANGED <<traceVars, pc, runVars, colVars, lauVars, todo>>

SaveResult ==
  IF HasArg(Args, "output")
  THEN WriteFile(tree, Append(PathArg("output"), "diagnose_result.txt"), [of |-> "diagnose"]).t
  ELSE tree

\* The devices of one master share a result; what is not supported is a warning.
PrintSave ==
  /\ pc = "detect" /\ todo = {} /\ Busy = {} /\ view = "on"
  /\ detect' = [d \in Asked |-> IF d \in Devices THEN detect[By(d)] ELSE <<d, "WARN">>]
  /\ view' = "off"
  /\ tree' = SaveResult
  /\ Return(TRUE)
  /\ UNCHANGED <<parser, threads, colVars, task, pro, handler, todo>>

\* env_detect: msaicerr --env for one device after the other.
EnvDetect ==
  /\ pc = "component"
  /\ IF sc.n = 0 \/ "msaicerr" \notin sc.tools THEN Return(FALSE) /\ UNCHANGED <<tree, detect>>
     ELSE \E v \in [Asked -> {"PASS", "FAIL"}] :
            /\ detect' = [d \in Asked |-> <<d, v[d]>>]
            /\ tree' = SaveResult
            /\ Return(\A d \in Asked : v[d] = "PASS")
  /\ UNCHANGED <<parser, threads, colVars, lauVars, todo>>

(***************************************************************************)
(* health, config, profiling: one answer, or one program, and the end.     *)
(***************************************************************************)
Health ==
  /\ pc = "health"
  /\ detect' = [d \in Asked |-> <<d, RunHealthCheck(sc.ans, Asked)[d].status>>]
  /\ Return(TRUE)
  /\ UNCHANGED <<traceVars, colVars, lauVars, todo>>

ConfigOpts ==
  [d |-> IF HasArg(Args, "d") THEN Arg("d") ELSE 0, get |-> HasArg(Args, "get"),
   restore |-> HasArg(Args, "restore"), stress_detect |-> HasArg(Args, "stress_detect")]
Config ==
  /\ pc = "config"
  /\ Return(ConfigSupported(sc.host, sc.ans, sc.n, ConfigOpts) /\ RunConfig(sc.ans, ConfigOpts))
  /\ UNCHANGED <<traceVars, colVars, lauVars, diaVars>>

Profiling ==
  LET opts == [d |-> IF HasArg(Args, "d") THEN Arg("d") ELSE 0, p |-> Arg("p"), r |-> Arg("r")]
  IN /\ pc = "profiling"
     /\ \E ok \in BOOLEAN : Return(ProfilingSupported(sc.ans[opts.d], opts) /\ ok)
     /\ UNCHANGED <<traceVars, colVars, lauVars, diaVars>>

(***************************************************************************)
(* collect -r=stacktrace: this asys among others, see AsysStacktrace.      *)
(***************************************************************************)
StacktraceReturns ==
  /\ pc = "stacktrace" /\ at[Self] \in {"done", "failed"}
  /\ Return(at[Self] = "done")
  /\ UNCHANGED <<traceVars, colVars, lauVars, diaVars>>

MainStep ==
  \/ ParseCommand \/ CheckEnvironment \/ CreateOutTimestampDir \/ Dispatch
  \/ CompressOutputDirTar
  \/ CollectStart \/ CollectHost \/ CollectRc \/ DeviceFileExport \/ CollectDeviceFiles
  \/ CollectGraphs \/ CollectDumps \/ CollectOpsFiles \/ CollectTrace \/ TraceJoin
  \/ StartWorker \/ JoinWorker \/ WorkerTimeout \/ TerminateWorker
  \/ FinishCollect \/ CollectReturns \/ CleanWork
  \/ PrepareForLaunch \/ InstallHandler \/ Popen \/ AssignPro \/ Communicate
  \/ TaskOutCollect
  \/ AnalyzeGuard \/ AnalyzeCopy \/ AnalyzeParse \/ AnalyzeJoin \/ CoreDumpAnalyze
  \/ AicoreErrorAnalyze \/ RunMsaicerr \/ UbAnalyze
  \/ HardwareDetect \/ RunDiagnose \/ PrintSave \/ EnvDetect
  \/ Health \/ Config \/ Profiling \/ StacktraceReturns

OtherStep ==
  \/ ParseThread \/ WorkerStep \/ ViewEnds \/ TaskEnds
  \/ \E d \in DOMAIN detect : DetectionEnds(d)

\* Waiting for something that never comes is a deadlock, the end is not.
Ended == pc \in Final /\ UNCHANGED <<asysVars, stVars>>

AsysNext ==
  \/ (MainStep \/ OtherStep \/ Interrupt) /\ pc \notin Final /\ UNCHANGED stVars
  \/ pc = "stacktrace" /\ StNext /\ UNCHANGED asysVars
  \/ Ended

AsysSpec == AsysInit /\ [][AsysNext]_<<asysVars, stVars>>

-----------------------------------------------------------------------------
(***************************************************************************)
(* What a log is collected by: the warnings of which one must be there     *)
(* when the log is missing from the output.                                *)
(***************************************************************************)
IsLog(p) == "log" \in DOMAIN sc.tree.file[p]
LogsBelow(d) == {p \in DOMAIN sc.tree.file : IsPrefix(d, p) /\ IsLog(p)}
Exports == sc.export \ {NoPath, <<>>}
CannLogsBelow(d) == UNION {LogsBelow(Append(d, type)) : type \in {"debug", "run", "security"}}
\* what the launched task wrote where its environment points to
TaskWritten == CannLogsBelow(Append(sc.produced, "task_launch_host_log"))
EpSources ==
  {<<{Append(VarLog, "messages")}, {"host messages"}>>, <<LogsBelow(InstallLog), {"install"}>>,
   <<IF Cmd = "launch" THEN TaskWritten ELSE CannLogsBelow(CannLogPath(sc.tree, sc.env, "log")),
     {"cann"}>>}
  \cup UNION {{<<LogsBelow(Append(d, "message")), {"export", "device messages"}>>,
              <<LogsBelow(Append(d, "stackcore")), {"export", "device stackcore"}>>,
              <<LogsBelow(Append(d, "hisi_logs")), {"export", "device bbox"}>>,
              <<LogsBelow(d \o <<"slog", "host">>), {"export", "host driver"}>>,
              <<LogsBelow(Append(d, "slog")),
                {"export", "host driver", "slogd", "device_app", "device_os", "device_id", "event"}>>}
             : d \in Exports}
\* On the device itself a launch leaves aside what belongs to other processes.
Concerns(pid) == Cmd = "launch" => pid = sc.pid
RcSlog(p) ==
  \E n \in DOMAIN p : \/ p[n] = "device-os" \/ p[n] \in FirmwareDir
                      \/ p[n] \in DOMAIN AppDir /\ Concerns(AppDir[p[n]])
RcSources ==
  {<<{Append(VarLog, "messages")}, {"messages"}>>, <<LogsBelow(InstallLog), {"install"}>>,
   <<LogsBelow(VarLog \o <<"bbox">>), {"bbox"}>>,
   <<{p \in LogsBelow(CoredumpDir) : Concerns(sc.tree.file[p].pid)}, {"stackcore"}>>,
   <<{p \in LogsBelow(VarLog \o <<"npu", "slog">>) : RcSlog(p)}, {"device_os", "device_id"}>>}
Sources == IF sc.envtype = "EP" THEN EpSources ELSE RcSources

\* An old export has firmware logs outside of debug, run and security too:
\* they replace the ones of debug of the same name.
Replaced(p) ==
  \E n \in 1..(Len(p) - 1) :
    p[n] = "debug" /\ p[n + 1] \in FirmwareDir
      /\ \E q \in DOMAIN sc.tree.file : IsPrefix(Append(SubSeq(p, 1, n - 1), p[n + 1]), q)
Collected(p) ==
  \E q \in Inside(tree, out) \cap DOMAIN tree.file :
    "log" \in DOMAIN tree.file[q] /\ tree.file[q].log = sc.tree.file[p].log

(***************************************************************************)
(* A collection that succeeds has in the output, or names in a warning,    *)
(* every log the collectors of its environment know of: those of the host, *)
(* of the exported devices and, on a host, of the launched task; on the    *)
(* device itself its own (host_log_collect.py, device_log_collect.py,      *)
(* rc_log_collect.py), and not those of the launched task, which no        *)
(* collector takes there and clean_work removes without a warning.         *)
(* Nothing is left of the intermediate directories.  Logs move from        *)
(* directory to directory in loops that stop at the first failure, and     *)
(* clean_work removes what they did not move.                              *)
(***************************************************************************)
Collecting == pc = "tar" /\ Cmd \in {"collect", "launch"} /\ result /\ ~Is("r", "stacktrace")
NothingLost ==
  Collecting =>
    /\ Inside(tree, ExportTmp) \cup Inside(tree, Npu) = {}
    /\ \A s \in Sources : \A p \in s[1] \ Inside(tree, out) :
         p \in DOMAIN sc.tree.file /\ IsLog(p) /\ s[2] \cap warned = {} =>
           Collected(p) \/ Replaced(p)

(***************************************************************************)
(* asys changes or removes no file that was there before, except in its own *)
(* output directory: logs of the user are copied and never moved, and       *)
(* directories are removed only below the output.  A command that is        *)
(* refused makes no more than the directory --output (asys.py,             *)
(* arg_checker.py, asys_analyze.py).                                       *)
(***************************************************************************)
OutsideUntouched ==
  /\ \A p \in DOMAIN sc.tree.file :
       p \in DOMAIN tree.file /\ tree.file[p] = sc.tree.file[p]
  /\ pc \in {"env", "create"} \/ (pc = "done" /\ Cmd \in CollectCmds /\ out = NoPath)
       => Nodes(tree) \ Nodes(sc.tree)
            \subseteq (IF HasArg(Args, "output") THEN Ancestors(PathArg("output")) ELSE {})

(***************************************************************************)
(* When asys returns, what it started has ended: the forked worker was     *)
(* joined or killed, the threads were joined, the task has ended; and when *)
(* Ctrl-C ends it, the task does not run on (task_common.py, asys_launch.py, *)
(* asys_diagnose.py).                                                      *)
(***************************************************************************)
NothingRunsOn ==
  /\ worker.state = "running" => pc \in {"join", "term"}
  /\ pc = "done" => task # "running" /\ Busy = {} /\ view # "on"
                    /\ \A p \in DOMAIN threads : threads[p].pc \in {"done", "failed"}
  /\ pc = "killed" => task # "running"

(***************************************************************************)
(* A diagnosis that succeeds has a result for every device that was asked  *)
(* for, found on the device itself or on one of the same master, which the *)
(* detection of a master covers (ascend91093_handler.py).                  *)
(***************************************************************************)
EveryDeviceReported ==
  pc = "done" /\ Cmd = "diagnose" /\ result =>
    \A d \in Asked :
      /\ d \in DOMAIN detect /\ detect[d] # <<d, "running">>
      /\ d \in Devices /\ detect[d][1] # d /\ Arg("r") # "component" =>
           MasterOf(sc.ans[d], FALSE) \in {MasterOf(sc.ans[detect[d][1]], FALSE)} \ {NoMaster}

(***************************************************************************)
(* The parser removes a .bin file only when its text has a line for every  *)
(* message that is not busy and of a known type, in order, provided that   *)
(* the items of no message exceed its slot (trace_collect.py).             *)
(***************************************************************************)
SlotsHold(bin) ==
  \A i \in Wanted(bin) : MessageUse(bin.structs[bin.msgs[i].type], bin.msgs[i].txt) <= bin.slot
LinesFor(lines, msgs) ==
  /\ {lines[i].msg : i \in DOMAIN lines} = msgs
  /\ \A i, j \in DOMAIN lines : i < j => lines[i].msg < lines[j].msg
TextComplete(p) ==
  TextOf(p) \in DOMAIN tree.file /\ LinesFor(tree.file[TextOf(p)].lines, Wanted(tree.file[p]))
TraceKept ==
  [][\A p \in DOMAIN threads \cap DOMAIN tree.file :
       pc \in {"tracing", "parsing"} /\ p \notin DOMAIN tree'.file /\ Last(p) \in BinFile
         /\ IsTrace(tree.file[p]) /\ SlotsHold(tree.file[p]) => TextComplete(p)]_asysVars

(***************************************************************************)
(* A stack file is rewritten with all its frames, each resolved by its own *)
(* thread before the lines are written (stackcore_collect.py).             *)
(***************************************************************************)
FramesResolved ==
  pc = "tar" /\ Cmd = "analyze" /\ Arg("r") = "stackcore" =>
    \A p \in DOMAIN threads : threads[p].pc = "done" =>
      \A i \in DOMAIN tree.file[p].frames : tree.file[p].frames[i] # NoFrame
=============================================================================
