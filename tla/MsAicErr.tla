------------------------------ MODULE MsAicErr ------------------------------
(* The command msaicerr: main chooses between converting a dump, checking the  *)
(* environment and analysing an AI Core error; the analysis collects and then  *)
(* goes through the eleven steps of AicoreErrorParser.parse, each of which may *)
(* find nothing, some of which end the analysis, one of which leaves it by an  *)
(* exception that nothing catches. A step is an action; what it computes is in *)
(* the modules this one extends.                                               *)
EXTENDS AicErrReport

CONSTANT Scenario     \* the invocations: what is asked, and what the machine answers

VARIABLES
  s,        \* the invocation
  pc,       \* where the program is
  coll,     \* what was collected
  info,     \* what is known of the error
  temp,     \* the directory in which test cases compile their operators
  cases,    \* the test cases that were run, with their runners
  out,      \* what is left in the output directory
  exit      \* the exit code
vars == <<s, pc, coll, info, temp, cases, out, exit>>

NoOut == [dir |-> "none", text |-> <<>>, json |-> NoReport, summary |-> FALSE, tiling |-> FALSE,
          golden |-> NoTemp, tensors |-> {}]

Init == /\ s \in Scenario
        /\ pc = "main"
        /\ coll = Nothing
        /\ info = NoInfo
        /\ temp = NoTemp
        /\ cases = <<>>
        /\ out = NoOut
        /\ exit = None

Step(from, to) == pc = from /\ pc' = to
Finish(from, code) == Step(from, "ended") /\ exit' = code

-----------------------------------------------------------------------------
(* main                                                                      *)

(* validate_dependencies: an option that needs another one.                    *)
Requires == [o |-> {"p", "d"}, dev |-> {"p", "e"}, dtype |-> {"d"}]
UsageError(opts) == \E q \in DOMAIN Requires : q \in opts /\ Requires[q] \cap opts = {}

Refused(i) ==
  IF ~i.opp THEN "INVALID_PATH_ERROR"
  ELSE IF i.argv = 0 THEN "INVALID_PARAM_ERROR"
  ELSE IF UsageError(i.opts) THEN "usage"
  ELSE IF ~i.cwdWritable THEN "INVALID_PATH_ERROR"
  ELSE IF i.opts \cap {"p", "d", "e"} = {} THEN "INVALID_PARAM_ERROR"
  ELSE None
MainRefuses ==
  /\ Refused(s.inv) # None
  /\ Finish("main", Refused(s.inv))
  /\ UNCHANGED <<s, coll, info, temp, cases, out>>
MainDispatches ==
  /\ Refused(s.inv) = None
  /\ Step("main", IF "d" \in s.inv.opts THEN "convert"
                  ELSE IF "p" \in s.inv.opts THEN "report_path" ELSE "test_env")
  /\ UNCHANGED <<s, coll, info, temp, cases, out, exit>>

(* convert_dump_data                                                           *)
ConvertDumpData ==
  \E result \in {ConvertFile(s.data.kind, s.data.dtype, s.data.readable)} :
     /\ Finish("convert", IF ~s.data.valid \/ result = "raised" THEN "INVALID_DUMP_DATA_ERROR"
                          ELSE "NONE_ERROR")
     /\ out' = IF s.data.valid /\ result \in {"npy", "tensors"}
               THEN [out EXCEPT !.tensors = {result}] ELSE out
     /\ UNCHANGED <<s, coll, info, temp, cases>>

DeviceValid == s.device \in 0..(s.devices - 1)

(* test_env, for which a chip that does not answer is an error.                *)
TestEnv ==
  \E r \in {RunTestEnv(s.dev["golden"], s.dev["golden"].soc)} :
     /\ IF ~DeviceValid
        THEN Finish("test_env", "INVALID_PARAM_ERROR") /\ UNCHANGED <<out, cases>>
        ELSE IF s.dev["golden"].soc = None
        THEN Finish("test_env", "HARDWARE_ERR") /\ UNCHANGED <<out, cases>>
        ELSE /\ Finish("test_env", IF r.good THEN "NONE_ERROR" ELSE "HARDWARE_ERR")
             /\ cases' = <<[test |-> "golden", ret |-> "NOT_RUN", exit |-> 0, r |-> r.runner]>>
             /\ out' = [out EXCEPT !.golden = r.temp]
     /\ UNCHANGED <<s, coll, info, temp>>

-----------------------------------------------------------------------------
(* analyse_report_path, Collection.collect                                   *)

ReportPathRefused ==
  /\ pc = "report_path"
  /\ ~DeviceValid \/ s.nested \/ ~s.outValid \/ ~s.reportValid
  /\ Finish("report_path", IF DeviceValid THEN "INVALID_PATH_ERROR" ELSE "INVALID_PARAM_ERROR")
  /\ out' = IF DeviceValid /\ ~s.nested /\ s.outValid THEN [out EXCEPT !.dir = "info"] ELSE out
  /\ UNCHANGED <<s, coll, info, temp, cases>>

CollectLogs ==
  /\ Step("report_path", "choose")
  /\ DeviceValid /\ ~s.nested /\ s.outValid /\ s.reportValid
  /\ coll' = CollectPlogFile(s.w, coll)
  /\ out' = [out EXCEPT !.dir = "info"]
  /\ UNCHANGED <<s, info, temp, cases, exit>>

CollectChooses ==
  \E c \in {ChooseDump(s.w, coll)} :
     /\ Step("choose", IF c.succ THEN "collect" ELSE "parse")
     /\ coll' = c
     /\ UNCHANGED <<s, info, temp, cases, out, exit>>

CollectFiles ==
  LET d == CollectCustomDump(s.w, CollectDataDump(s.w, coll))
  IN /\ Step("collect", "parse")
     /\ coll' = CollectGraph(s.w, CollectKernelFile(s.w, CollectKernelName(d)))
     /\ UNCHANGED <<s, info, temp, cases, out, exit>>

-----------------------------------------------------------------------------
(* parse: step 1                                                             *)

(* check_plog_info looks again, at what was collected.                         *)
CheckPlogInfo(c) ==
  [c EXCEPT !.level = IF Grep(c.plog, "devfunc") = <<>> THEN 0 ELSE 1,
            !.ffts = Grep(c.plog, "ffts") # <<>>,
            !.sk = Grep(c.plog, "sk") # <<>>]

(* add_objdump_to_path raises when there is no tool to decompile with.         *)
ParseStarts ==
  /\ IF s.tools.objdump THEN Step("parse", "op_info") /\ UNCHANGED exit
     ELSE Finish("parse", "INVALID_PATH_ERROR")
  /\ coll' = IF s.tools.objdump THEN CheckPlogInfo(coll) ELSE coll
  /\ UNCHANGED <<s, info, temp, cases, out>>

GetOpInfo ==
  \E i \in {FindRecord(coll)} :
     /\ Step("op_info", "set_info")
     /\ info' = IF i.none THEN info ELSE GroupRecords(coll, i)
     /\ UNCHANGED <<s, coll, temp, cases, out, exit>>

(* set_info: the number of cores is asked for only when the kernel is known;   *)
(* without the library path that is an error nothing catches.                  *)
SetInfo ==
  /\ pc = "set_info"
  /\ \E known \in {~info.none /\ ErrorInfo(coll, info.data) # <<>>} :
        IF known /\ s.tools.runtime = "no_path"
        THEN Finish("set_info", "traceback") /\ UNCHANGED info
        ELSE IF known /\ s.tools.runtime = "fails"
        THEN Finish("set_info", "INVALID_PATH_ERROR") /\ UNCHANGED info
        ELSE /\ Step("set_info", IF info.none \/ ~coll.succ THEN "empty" ELSE "graph")
             /\ info' = IF info.none THEN info
                        ELSE CorrectAll(coll, FindKernel(coll, info, s.tools.cores),
                                        s.tools.symbols)
             /\ UNCHANGED exit
  /\ UNCHANGED <<s, coll, temp, cases, out>>

(* Nothing to analyse: the reports of an analysis that has found nothing.      *)
EmptyReport ==
  /\ Finish("empty", "INVALID_SLOG_DATA_ERROR")
  /\ out' = [out EXCEPT !.dir = "aicerror", !.text = <<InfoText(NoInfo)>>,
                        !.json = WriteJsonReport(NoInfo, FALSE, s.tools.writable)]
  /\ UNCHANGED <<s, coll, info, temp, cases>>

-----------------------------------------------------------------------------
(* Steps 2 to 8                                                              *)

GetGraph ==
  /\ Step("graph", "args")
  /\ info' = [info EXCEPT !.graph = \E g \in coll.graphs : /\ <<info.node, info.kernel>> \in g.ops
                                                           /\ \A h \in coll.graphs : h.nr <= g.nr]
  /\ out' = [out EXCEPT !.dir = "aicerror"]
  /\ UNCHANGED <<s, coll, temp, cases, exit>>

CompareArgs ==
  LET before == ArgsFromInfo(coll.plog, "before")
      after == ArgsFromInfo(coll.plog, "after")
      io == IoOf(info.json)
  IN /\ Step("args", "decompile")
     /\ info' = [info EXCEPT !.before = before, !.after = after, !.io = io,
                             !.argsOk = CheckArgs(before, after),
                             !.marks = Refined(TypeMarks(coll.plog), io)]
     /\ UNCHANGED <<s, coll, temp, cases, out, exit>>

(* _read_decompile_file: the last line of the cce file named before the line   *)
(* the error may be at.                                                        *)
ErrorLine(lines) ==
  LET hits == {i \in 1..Len(lines) : lines[i].hit}
      before == {i \in 1..Len(lines) : lines[i].cce # 0 /\ \A h \in hits : i < h}
  IN IF before = {} THEN 0 ELSE lines[Max(before)].cce

(* _decompile and _get_cce_tbe_code_number: only level one maps the error to a *)
(* line of the operator, and looks there for a barrier of all pipes.           *)
Decompile ==
  LET line == ErrorLine(s.tools.lines)
      mapped == /\ info.bin # None \/ info.json # None
                /\ s.tools.decompiles
                /\ ~coll.sk /\ coll.level = 1 /\ line # 0
      located == mapped /\ s.tools.locjson /\ info.cce # None
  IN /\ Step("decompile", "atomic")
     /\ info' = [info EXCEPT !.decompiled = (info.bin # None \/ info.json # None) /\ s.tools.decompiles,
                             !.line = IF mapped THEN line ELSE None,
                             !.flag = located /\ line \in s.tools.pipes]
     /\ UNCHANGED <<s, coll, temp, cases, out, exit>>

NeedAtomicClean(i) ==
  /\ i.kernel # None
  /\ \E k \in 1..Len(coll.compile) : coll.compile[k].kind = "json" /\ coll.compile[k].name = i.kernel
                                     /\ JsonOf[coll.compile[k].name].dynamic
                                     /\ JsonOf[coll.compile[k].name].params
CheckAtomicClean(i) ==
  NeedAtomicClean(i) => \E l \in ToSet(Grep(coll.plog, "atomic")) : l.node = i.node
CheckAtomic ==
  LET clean == CheckAtomicClean(info)
  IN /\ Step("atomic", "dump")
     /\ info' = [info EXCEPT !.cleanOk = clean,
                             !.atomicAdd = /\ info.rec.code = OverflowCode
                                           /\ ~clean
                                           /\ Grep(coll.plog, "dha") # <<>>]
     /\ UNCHANGED <<s, coll, temp, cases, out, exit>>

(* Step 7: whatever was parsed is thrown away when the dump itself had failed, *)
(* but for the tiling data and the table of the tensors.                       *)
DumpResult(p) ==
  /\ Grep(coll.plog, "dumpfailed") = <<>>
  /\ Grep(coll.plog, "d2h") = <<>>
  /\ IF coll.level = 1 THEN Grep(coll.plog, "addr") = <<>> ELSE ~p.dfx.addr
Types(json) == IF json = None THEN <<>> ELSE JsonOf[json.name].types
ParseDump ==
  \E p \in {ParseDumps(s.w, coll, info.node, info.data, Types(info.json))} :
  LET ok == DumpResult(p)
      read == [info EXCEPT !.dumpOk = ok, !.invalid = p.invalid, !.meta = p.meta,
                           !.tiling = p.tiling,
                           !.ffts = IF coll.level = 1 THEN FftsAddrs(coll.plog)
                                    ELSE IF ok THEN p.dfx.ffts ELSE 0]
  IN /\ Step("dump", "tiling")
     /\ info' = IF ok THEN [read EXCEPT !.bins = p.bins, !.spaces = p.spaces, !.dumpFiles = p.files]
                ELSE read
     /\ out' = [out EXCEPT !.tensors = p.apart \cup ToSet(p.bins)]
     /\ UNCHANGED <<s, coll, temp, cases, exit>>

(* write_tiling_data_to_file: the dump before the log.                         *)
TilingOfLog ==
  IF coll.level = 0 THEN TilingFromLog(coll.plog)
  ELSE LET ls == Grep(coll.plog, "tilingdata") IN IF ls = <<>> THEN None ELSE ls[1].vals
WriteTiling ==
  \E kept \in {IF info.kernel = None THEN None
              ELSE IF info.tiling # None THEN info.tiling ELSE TilingOfLog} :
     /\ Step("tiling", "sub_ptr")
     /\ info' = [info EXCEPT !.tiling = kept]
     /\ out' = [out EXCEPT !.tiling = kept # None]
     /\ UNCHANGED <<s, coll, temp, cases, exit>>

SubPointers ==
  /\ pc = "sub_ptr"
  /\ \E found \in {IF coll.level = 0 THEN GetSubPtr(coll.plog, Len(info.bins)) ELSE {}} :
        IF \E t \in found : t.idx = -1
        THEN Finish("sub_ptr", "traceback") /\ UNCHANGED info
        ELSE Step("sub_ptr", "host_case") /\ info' = [info EXCEPT !.sub = found] /\ UNCHANGED exit
  /\ UNCHANGED <<s, coll, temp, cases, out>>

-----------------------------------------------------------------------------
(* Steps 9 and 10: run_single_operator and run_test_env                      *)

KernelFileExists == info.bin # None /\ (coll.sk \/ info.json # None)
Case(i, test) == TestSingleOp(temp, s.dev[test], i, test)
Add(case, test) ==
  Append(cases, [test |-> test, ret |-> CaseResult(s.dev[test], case), exit |-> case.exit, r |-> case.r])

(* The object of the host, whose result is only logged.                        *)
RunHostCase ==
  LET host == HostObject(coll, info.kernel)
  IN /\ Step("host_case", IF KernelFileExists /\ ~coll.sk THEN "single_case" ELSE "clean")
     /\ IF KernelFileExists /\ host # None
        THEN \E t \in {Case([info EXCEPT !.bin = host], "host_single_op")} :
               cases' = Add(t, "host_single_op") /\ temp' = t.temp
        ELSE UNCHANGED <<cases, temp>>
     /\ UNCHANGED <<s, coll, info, out, exit>>

RunSingleCase ==
  \E t \in {Case(info, "single_op")} : \E ret \in {CaseResult(s.dev["single_op"], t)} :
     /\ Step("single_case", IF info.dumpOk /\ ret = "SUCCESS" THEN "error_case" ELSE "clean")
     /\ IF info.dumpOk
        THEN /\ info' = [info EXCEPT !.attempted = TRUE, !.single = ret]
             /\ cases' = Add(t, "single_op")
             /\ temp' = t.temp
        ELSE UNCHANGED <<info, cases, temp>>
     /\ UNCHANGED <<s, coll, out, exit>>

RunErrorCase ==
  \E t \in {Case(info, "error_single_op")} :
     /\ Step("error_case", "clean")
     /\ cases' = Add(t, "error_single_op")
     /\ temp' = t.temp
     /\ UNCHANGED <<s, coll, info, out, exit>>

RemoveTemp ==
  /\ Step("clean", "env")
  /\ temp' = NoTemp
  /\ UNCHANGED <<s, coll, info, cases, out, exit>>

(* A check that could not be made leaves the environment as good as it was.    *)
CheckEnv ==
  \E r \in {RunTestEnv(s.dev["golden"], SocVersion(s.dev["golden"], info.cce, "910B"))} :
     /\ Step("env", "report")
     /\ IF s.tools.envRaises THEN UNCHANGED <<info, out, cases>>
        ELSE /\ info' = [info EXCEPT !.env = r.good, !.envTried = TRUE]
             /\ out' = [out EXCEPT !.golden = r.temp]
             /\ cases' = Append(cases, [test |-> "golden", ret |-> "NOT_RUN", exit |-> 0,
                                        r |-> r.runner])
     /\ UNCHANGED <<s, coll, temp, exit>>

-----------------------------------------------------------------------------
(* Step 11                                                                   *)

WriteReports ==
  /\ Finish("report", ReturnCode(info))
  /\ out' = [out EXCEPT !.text = <<InfoText(info)>>,
                        !.json = WriteJsonReport(info, TRUE, s.tools.writable),
                        !.summary = TRUE]
  /\ UNCHANGED <<s, coll, info, temp, cases>>

Ended == pc = "ended" /\ UNCHANGED vars

Next ==
  \/ MainRefuses \/ MainDispatches \/ ConvertDumpData \/ TestEnv
  \/ ReportPathRefused \/ CollectLogs \/ CollectChooses \/ CollectFiles
  \/ ParseStarts \/ GetOpInfo \/ SetInfo \/ EmptyReport
  \/ GetGraph \/ CompareArgs \/ Decompile \/ CheckAtomic \/ ParseDump \/ WriteTiling \/ SubPointers
  \/ RunHostCase \/ RunSingleCase \/ RunErrorCase \/ RemoveTemp \/ CheckEnv \/ WriteReports
  \/ Ended

Spec == Init /\ [][Next]_vars

-----------------------------------------------------------------------------
(* Properties                                                                *)

(* When a runner is left, by whatever way, every tensor it has put on the      *)
(* device was given back, once: the list of the tensors names outputs twice.   *)
TensorsFreedOnce ==
  \A i \in 1..Len(cases) : \A b \in 1..Len(cases[i].r.bufs) :
    cases[i].r.bufs[b].use = "tensor" => cases[i].r.bufs[b].frees = 1

(* a case of the operator itself, with both launches, one for each layout of   *)
(* the memory, good *)
RanWell ==
  \E i \in 1..Len(cases) :
    /\ cases[i].test = "single_op" /\ cases[i].exit = 0 /\ Len(cases[i].r.ret) = 2
    /\ \A j \in 1..2 : cases[i].r.ret[j][1] = 0 /\ cases[i].r.ret[j][2] = 0

(* The comment in get_return_code: a case that did not run must not count as   *)
(* "no problem found". An analysis that has written its report and exits with  *)
(* no error has rerun the operator, in a process that came to its end.         *)
ExitZeroWasRerun == exit = "NONE_ERROR" /\ out.text # <<>> => RanWell

(* "Not reproduced" is said only of a case whose process came to its end and   *)
(* whose two launches, with both layouts of the memory, returned without error. *)
NotReproducedMeansRan == info.single = "SUCCESS" => RanWell

(* the dumps of a directory, without those of the user *)
OwnDumps(c) == [c EXCEPT !.dump = SelectSeq(@, LAMBDA f : ~NameOf[f.name].custom /\
                                                          f \notin CustomDumpFiles(s.w, c))]
ParsedAlone == ParseDumps(s.w, OwnDumps(coll), info.node, info.data, Types(info.json))

(* What the user has dumped beside the failed operator changes neither the     *)
(* tensors of the rerun nor the table of the arguments nor the verdict on the  *)
(* addresses. It does change two things, and no more than so: the tiling data  *)
(* may be that of a custom dump, which overwrites it, and a custom dump with   *)
(* a NaN makes the data invalid.                                               *)
CustomStaysApart ==
  pc = "tiling" =>
    LET p == ParsedAlone
        own == {f \in CustomDumpFiles(s.w, coll) : f.body.ok # "no"}
    IN /\ info.dumpOk = DumpResult(p)
       /\ info.meta = p.meta
       /\ info.dumpOk => info.bins = p.bins /\ info.spaces = p.spaces
       /\ info.tiling \in {p.tiling} \cup {f.body.tiling : f \in own}
       /\ p.invalid => info.invalid
       /\ info.invalid => p.invalid \/ \E f \in own : \E n \in DOMAIN f.body.items : f.body.items[n].nan

(* Every block of the report shows the counter of its own core: one adump has  *)
(* printed for that number and that type of core, or one corrected from that    *)
(* record, which begins where the record does.                                 *)
GroupsKeepTheirOwnPc ==
  \A i \in 1..Len(out.text) : \A n \in 1..Len(out.text[i].groups) :
    LET g == out.text[i].groups[n]
    IN g.pc.none \/ IF g.pc.dump
                    THEN \E l \in ToSet(Grep(coll.plog, "fixed")) :
                           l.core = g.core /\ l.ctype = g.ctype /\ l.cur = g.pc.cur
                    ELSE \E r \in ToSet(AicErrRets(coll)) :
                           /\ r.core = g.core /\ r.ctype = g.ctype
                           /\ g.pc.start \in {r.start, r.sstart} /\ ~PcBefore(g.pc.cur, r.start)

(* The JSON report says of the rerun what has happened: that it was not run if *)
(* and only if no process was started for the failed operator, else how it      *)
(* ended.                                                                      *)
ReportTellsTheRun ==
  \A i \in 1..Len(out.json) :
    LET ran == {n \in 1..Len(cases) : cases[n].test = "single_op"}
    IN /\ ran = {} => out.json[i].single = "NotRun"
       /\ \A n \in ran : out.json[i].single = ResultText(cases[n].ret)
=============================================================================
