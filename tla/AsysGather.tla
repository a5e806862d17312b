----------------------------- MODULE AsysGather -----------------------------
(***************************************************************************)
(* What asys gathers next to the logs: graphs, exception dumps, operator   *)
(* files and operator configuration (collect/graph, data_dump, ops).       *)
(* The content of a plog says which marks grep finds in it:                *)
(*   marker  "Begin to dump callback exception" is there                   *)
(*   sk      the kernelName on such a line, or NoPath                      *)
(*   faults  of every error line the names [ext, dyn] its patterns match   *)
(* and the content of a .json file lists the kernels it describes.         *)
(***************************************************************************)
EXTENDS AsysLogs

CONSTANTS
  JsonFile, ObjectFile,   \* names *.json and *.o
  ObjectOf,               \* from a *.json name to the *.o name of its stem
  GeGraph, TfGraph,       \* ge_onnx*.pbtxt and ge_proto*.txt; TF_GeOp*.pbtxt
  None                    \* the name "none" that plog prints for no kernel

Intermediates(c) == At(c, <<"npu_collect_intermediates">>)
Given(paths) == SelectSeq(paths, LAMBDA p : p # NoPath)

(***************************************************************************)
(* collect/graph/graph_collect.py                                          *)
(***************************************************************************)
CollectGraphFiles(t, source, target) ==
  LET files == WalkFiles(t, source)
      Copy(acc, p, kind) ==
        AlsoThen(acc, LAMBDA u : CopyFileToDir(u, p,
                        Rebase(Front(p), source, Append(target, kind))))
      ge == SelectSeq(files, LAMBDA p : Last(p) \in GeGraph)
      tf == SelectSeq(files, LAMBDA p : Last(p) \in TfGraph)
  IN IF ge \o tf = <<>> THEN Failed(t)
     ELSE FoldLeft(LAMBDA acc, p : Copy(acc, p, "tf"),
            FoldLeft(LAMBDA acc, p : Copy(acc, p, "ge"), Done(t), ge), tf)

\* The first directory whose graphs were all copied ends the search.
CollectCmdGraphFiles(t, c, target) ==
  LET e == EnvVarName(t, c.env)
      task == IF CheckDir(t, c.taskdir) THEN c.taskdir ELSE NoPath
      One(acc, d) == IF acc.ok \/ acc.raised THEN acc ELSE CollectGraphFiles(acc.t, d, target)
  IN FoldLeft(One, Failed(t), Given(<<task, e.npu_collect, e.dump_graph, e.work, e.cwd>>))

CollectGraph(st, c) ==
  LET target == At(c, <<"dfx", "graph">>)
      source == Intermediates(c) \o <<"extra-info", "graph">>
  IN IF Launched(c) /\ "graph" \notin c.ini THEN st
     ELSE Warned(st, "graph", LAMBDA u :
            IF Launched(c) THEN MoveDir(u, source, target)
            ELSE CollectCmdGraphFiles(u, c, target))

(***************************************************************************)
(* collect/data_dump/data_dump_collect.py                                  *)
(***************************************************************************)
DumpPaths(t, c) ==
  LET e == EnvVarName(t, c.env) IN
  IF Launched(c) THEN <<Intermediates(c)>>
  ELSE Given(<<c.taskdir, e.npu_collect, e.work, e.cwd>>)

GetSourceDir(t, c) ==
  LET found == SelectSeq([i \in DOMAIN DumpPaths(t, c) |->
                            DumpPaths(t, c)[i] \o <<"extra-info", "data-dump">>],
                         LAMBDA d : CheckDir(t, d))
  IN IF found = <<>> THEN NoPath ELSE Head(found)

CollectDataDump(st, c) ==
  LET source == GetSourceDir(st.t, c) IN
  IF source = NoPath THEN st
  ELSE Warned(st, "data-dump", LAMBDA u :
         CollectDir(u, source, At(c, <<"dfx", "data-dump">>), IF Launched(c) THEN "m" ELSE "c"))

(***************************************************************************)
(* collect/ops/ops_collect.py: which kernel failed                         *)
(***************************************************************************)
Plogs(c) == << At(c, <<"dfx", "log", "host", "cann", "run", "plog">>),
               At(c, <<"dfx", "log", "host", "cann", "debug", "plog">>) >>
PlogTexts(t, d) ==
  [i \in DOMAIN WalkFiles(t, d) |-> t.file[WalkFiles(t, d)[i]]]

IsSkScenario(t, c) ==
  \E i \in DOMAIN Plogs(c) :
    \E j \in DOMAIN PlogTexts(t, Plogs(c)[i]) : PlogTexts(t, Plogs(c)[i])[j].marker

GetSkKernelName(texts) ==
  LET hits == SelectSeq(texts, LAMBDA x : x.marker /\ x.sk # NoPath) IN
  IF hits = <<>> THEN NoPath ELSE Head(hits).sk

\* Only the first error line of a plog is looked at; "none" is no name.
NameInPlog(texts) ==
  LET lines == FlattenSeq([i \in DOMAIN texts |-> texts[i].faults])
      names == IF lines = <<>> THEN <<>>
               ELSE SelectSeq(<<Head(lines).ext, Head(lines).dyn>>,
                              LAMBDA n : n \notin {NoPath, None})
  IN IF GetSkKernelName(texts) # NoPath THEN GetSkKernelName(texts)
     ELSE IF names = <<>> THEN NoPath ELSE Head(names)

GetFaultKernelName(t, c) ==
  LET found == Given([i \in 1..2 |-> NameInPlog(PlogTexts(t, Plogs(c)[i]))])
  IN IF found = <<>> THEN NoPath ELSE Head(found)

(***************************************************************************)
(* collect/ops/ops_collect.py: the files of that kernel                    *)
(***************************************************************************)
GetFaultKernelNameFiles(t, e, d, kernel) ==
  LET describes(p) == /\ Last(p) \in JsonFile
                      /\ d = e.opp => Contains(Front(p), "kernel")
                      /\ kernel \in t.file[p].kernels
      object(p) == Append(Front(p), ObjectOf[Last(p)])
      One(p) == IF CheckFile(t, object(p)) THEN <<p, object(p)>> ELSE <<p>>
      jsons == SelectSeq(WalkFiles(t, d), describes)
  IN IF kernel = NoPath THEN <<>>
     ELSE FlattenSeq([i \in DOMAIN jsons |-> One(jsons[i])])

CollectOpFiles(t, files, target, mode) ==
  FoldLeft(LAMBDA acc, p : AlsoThen(acc, LAMBDA u : CollectFileToDir(u, p, target, mode)),
           Done(t), files)

\* Every .o and .json below the dump moves into the one directory dfx/ops.
CollectOpsFromDump(t, c) ==
  LET files == SelectSeq(WalkFiles(t, At(c, <<"dfx", "data-dump">>)),
                         LAMBDA p : Last(p) \in JsonFile \cup ObjectFile)
  IN IF files = <<>> THEN Failed(t)
     ELSE CollectOpFiles(t, files, At(c, <<"dfx", "ops">>), "m")

CollectOpsFilesEnvVar(t, c) ==
  LET e == EnvVarName(t, c.env)
      paths == SelectSeq(Given(<<c.taskdir, e.npu_collect, e.cache, e.work,
                                 Append(e.home, "atc_data")>>
                               \o e.custom_opp \o <<e.opp, e.cwd>>),
                         LAMBDA p : CheckDir(t, p))
      kernel == GetFaultKernelName(t, c)
      found == SelectSeq([i \in DOMAIN paths |-> GetFaultKernelNameFiles(t, e, paths[i], kernel)],
                         LAMBDA fs : fs # <<>>)
  IN IF found # <<>> THEN CollectOpFiles(t, Head(found), At(c, <<"dfx", "ops">>), "c")
     ELSE IF kernel = NoPath THEN Done(t) ELSE Failed(t)

CollectOpsFile(t, c) ==
  IF Launched(c)
  THEN MoveDir(t, Intermediates(c) \o <<"extra-info", "ops">>, At(c, <<"dfx", "ops">>))
  ELSE IF IsSkScenario(t, c) THEN Done(t)
  ELSE CollectOpsFilesEnvVar(t, c)

CollectDebugKernel(t, c) ==
  LET opp == EnvVarName(t, c.env).opp
      source == Append(opp, "debug_kernel")
      target == At(c, <<"dfx", "ops", "debug_kernel">>)
  IN IF opp = NoPath THEN Done(t)
     ELSE IF ~ValidDir(t, source) \/ IsPrefix(source, target) THEN Done(t)
     ELSE CopyDir(t, source, target)

\* The .json files below a directory named config, each at its own place.
CollectCfgJson(t, c, sub, from, config) ==
  LET files == SelectSeq(WalkFiles(t, from), LAMBDA p :
                 Last(p) \in JsonFile /\ Contains(Front(Front(p)), "config"))
      target(p) == Rebase(Front(p), from, At(c, <<"dfx", "ops", config>>) \o sub)
  IN IF from \notin Nodes(t) THEN Failed(t)
     ELSE FoldLeft(LAMBDA acc, p : AlsoThen(acc, LAMBDA u :
                     CopyFileToDir([u EXCEPT !.dir = @ \cup Ancestors(target(p))], p, target(p))),
                   Done(t), files)

CollectOppConfig(t, c) ==
  LET opp == EnvVarName(t, c.env).opp
      config == opp \o <<"vendors", "config.ini">>
      One(acc, vendor) ==
        AlsoThen(acc, LAMBDA u : CollectCfgJson(u, c, <<vendor>>,
                                   opp \o <<"vendors", vendor>>, "vendor_config"))
  IN IF opp = NoPath THEN Failed(t)
     ELSE IF ~(CheckFile(t, config) /\ Readable(t, config)) THEN Failed(t)
     ELSE IF t.file[config].vendors = <<>> THEN Failed(t)
     ELSE AlsoThen(FoldLeft(One, Done(t), t.file[config].vendors), LAMBDA u :
            CopyFileToDir(u, config, At(c, <<"dfx", "ops", "vendor_config">>)))

\* One package keeps the flat layout; several are stored under their index.
CollectCustomOppConfig(t, c, index) ==
  LET packages == EnvVarName(t, c.env).custom_opp
      One(acc, i) ==
        LET sub == IF Len(packages) = 1 THEN <<>> ELSE <<index[i]>>
            r == CollectCfgJson(acc.t, c, sub, packages[i], "custom_config")
        IN [r EXCEPT !.ok = @ \/ acc.ok]
  IN FoldLeft(One, Failed(t), [i \in DOMAIN packages |-> i])

\* Only the search for the kernel files warns as a whole.
CollectOps(st, c, index) ==
  LET dumped == CollectOpsFromDump(st.t, c)
      s1 == IF dumped.ok \/ dumped.raised THEN [st EXCEPT !.t = dumped.t, !.raised = dumped.raised]
            ELSE Warned([st EXCEPT !.t = dumped.t], "ops", LAMBDA u : CollectOpsFile(u, c))
      Quiet(s, Op(_)) == IF s.raised THEN s
                         ELSE [s EXCEPT !.t = Op(s.t).t, !.raised = Op(s.t).raised]
  IN IF st.raised \/ (Launched(c) /\ "ops" \notin c.ini) THEN st
     ELSE Quiet(Quiet(Quiet(s1, LAMBDA u : CollectDebugKernel(u, c)),
                      LAMBDA u : CollectOppConfig(u, c)),
                LAMBDA u : CollectCustomOppConfig(u, c, index))
==============================================================================
