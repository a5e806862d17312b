--------------------------- MODULE MsAicErrProofs ---------------------------
(***************************************************************************)
(* Proofs about the analysis of an AI Core error, for every invocation,    *)
(* machine and world of files: the rerun of the operator, the conclusion,  *)
(* the exit code and the JSON report say the same of what has happened.    *)
(* What the logs and the dumps hold is left open: nothing here depends on  *)
(* how the error was found. The second half is about the device memory of  *)
(* the rerun, which is filled and released by folds over the tensors.      *)
(***************************************************************************)
EXTENDS MsAicErr, SequenceTheorems, WellFoundedInduction, TLAPS

-----------------------------------------------------------------------------
(* The inductive invariant                                                 *)

Rets == {"NOT_RUN", "FAILED", "SUCCESS"}

(* the steps from the rerun of the operator on *)
Later == {"error_case", "clean", "env", "report", "ended"}

(* what is known of the error has these fields from the first step on *)
Known == /\ info = [x \in DOMAIN info |-> info[x]]
         /\ {"single", "attempted"} \subseteq DOMAIN info
         /\ info.single \in Rets /\ info.attempted \in BOOLEAN

(* the cases that were run; nothing is written before the end *)
Listed == cases \in Seq({cases[n] : n \in DOMAIN cases})
Output == /\ out = [x \in DOMAIN NoOut |-> out[x]]
          /\ pc # "ended" => out.text = <<>> /\ out.json = <<>>

(* a case that counts as a success came to its end with two good launches *)
GoodRun(c) == /\ c.exit = 0 /\ Len(c.r.ret) = 2
              /\ \A j \in 1..2 : c.r.ret[j][1] = 0 /\ c.r.ret[j][2] = 0
SingleRuns == {n \in DOMAIN cases : cases[n].test = "single_op"}

(* the operator is rerun at most once, what is known of that rerun is what *)
(* came of it, and nothing is known before                                 *)
Rerun ==
  /\ pc \notin Later => ~info.attempted
  /\ ~info.attempted => info.single = "NOT_RUN" /\ SingleRuns = {}
  /\ info.attempted => SingleRuns # {}
  /\ \A n \in SingleRuns : /\ cases[n].ret = info.single
                           /\ cases[n].ret = "SUCCESS" => GoodRun(cases[n])

(* what is written agrees *)
Agrees == ExitZeroWasRerun /\ ReportTellsTheRun

Grounds == Known /\ Listed /\ Output /\ Rerun
Inv == Grounds /\ Agrees

-----------------------------------------------------------------------------
(* The rerun of the operator                                               *)

(* A runner has these fields, whatever was filled in.                      *)
Shaped(r) == r = [x \in DOMAIN Runner |-> r[x]]

(* a result was added *)
OneMore(before, after) == \E res : after = Append(before, res)

(* The fields of a runner.                                                 *)
LEMMA RunnerFields == DOMAIN Runner = {"bufs", "params", "args", "subs", "ret", "end"}
BY DEF Runner

(* A launch that goes leaves the runner going, with one result more; one   *)
(* that does not go leaves it stopped.                                     *)
LEMMA OneLaunch ==
  ASSUME NEW r, Shaped(r), NEW d, NEW cfg, NEW mode, NEW x, x = ExecSingleCase(r, d, cfg, mode)
  PROVE  /\ Shaped(x)
         /\ Goes(x) => Goes(r) /\ OneMore(r.ret, x.ret)
<1> USE DEF OneMore
<1>1. PICK f : f = FilledCase([r EXCEPT !.args = <<>>], d, cfg, mode)
  OBVIOUS
<1>2. PICK g : g = Filled(r, f)
  OBVIOUS
<1>3. Shaped(g) /\ g.ret = r.ret /\ g.end = f.end
  BY <1>2, RunnerFields DEF Shaped, Filled
<1>4. x = IF Goes(r) THEN LaunchCase(g, d, cfg, mode) ELSE r
  BY <1>1, <1>2 DEF ExecSingleCase
<1>5. CASE ~Goes(r)
  BY <1>4, <1>5
<1>6. CASE Goes(r) /\ ~Goes(g)
  BY <1>3, <1>4, <1>6 DEF LaunchCase
<1>7. CASE Goes(r) /\ Goes(g)
  <2>1. PICK args : args = [i \in 1..cfg.ffts |-> "ffts"] \o g.args
    OBVIOUS
  <2>2. PICK res : res = <<LaunchResult(d, mode), d.sync[mode], CheckMagicMemory(g, d)>>
    OBVIOUS
  <2>3. PICK last : last = IF cfg.test = "error_single_op" THEN LastCleared(args) ELSE args
    OBVIOUS
  <2>4. PICK ran : ran = [g EXCEPT !.args = last, !.ret = Append(@, res)]
    OBVIOUS
  <2>5. x = IF cfg.test = "error_single_op" /\ args = <<>> THEN Stop(g, "crash") ELSE Free(ran, "tiling")
    BY <1>4, <1>7, <2>1, <2>2, <2>3, <2>4 DEF LaunchCase
  <2>6. Shaped(ran) /\ ran.ret = Append(r.ret, res) /\ ran.end = g.end
    <3> HIDE <1>4, <1>7
    <3>1. PICK more : more = Append(g.ret, res)
      OBVIOUS
    <3> QED
      BY <1>3, <2>4, <3>1, RunnerFields DEF Shaped
  <2>7. Shaped(Stop(g, "crash")) /\ ~Goes(Stop(g, "crash"))
    BY <1>3, RunnerFields DEF Shaped, Stop, Goes
  <2>8. PICK y : y = Free(ran, "tiling")
    OBVIOUS
  <2>9. Shaped(y) /\ y.ret = ran.ret
    BY <2>6, <2>8, RunnerFields DEF Shaped, Free
  <2> QED
    BY <1>7, <2>5, <2>6, <2>7, <2>8, <2>9
<1> QED
  BY <1>5, <1>6, <1>7

(* A runner that has come to its end has launched the kernel twice.        *)
LEMMA RanTwice ==
  ASSUME NEW d, NEW cfg, NEW x, x = RunBoth(d, cfg), x.end = "ok"
  PROVE  Len(x.ret) = 2
<1>1. PICK a : a = ExecSingleCase(Runner, d, cfg, "tail")
  OBVIOUS
<1>2. PICK b : b = ExecSingleCase(a, d, cfg, "magic")
  OBVIOUS
<1>3. Shaped(Runner) /\ Runner.ret = <<>>
  BY DEF Shaped, Runner
<1>4. Shaped(a) /\ (Goes(a) => OneMore(<<>>, a.ret))
  BY <1>1, <1>3, OneLaunch
<1>5. Shaped(b) /\ (Goes(b) => Goes(a) /\ OneMore(a.ret, b.ret))
  <2>1. Shaped(a)
    BY <1>4
  <2> QED
    BY <1>2, <2>1, OneLaunch
<1>6. x = Exit(b)
  BY <1>1, <1>2 DEF RunBoth
<1>7. x.ret = b.ret /\ x.end = b.end
  BY <1>5, <1>6, RunnerFields DEF Exit, Shaped
<1>8. PICK p, q : b.ret = Append(Append(<<>>, p), q)
  BY <1>4, <1>5, <1>7 DEF Goes, OneMore
<1> QED
  BY <1>7, <1>8

(* What the analysis concludes from a case is one of three results, and a  *)
(* success only from a case that ran to its end with good launches.        *)
LEMMA SuccessRan ==
  ASSUME NEW d, NEW cfg, NEW t, NEW c, c = RunCase(t, d, cfg)
  PROVE  /\ CaseResult(d, c) \in Rets
         /\ CaseResult(d, c) = "SUCCESS" => GoodRun(c)
<1>1. CaseResult(d, c) \in Rets
  BY DEF CaseResult, Rets
<1>2. ASSUME CaseResult(d, c) = "SUCCESS" PROVE GoodRun(c)
  <2>1. c.exit = 0 /\ c.text \notin {"exec_failed", "launch_failed"}
    BY <1>2 DEF CaseResult
  <2>2. PICK u, x : x = RunBoth(d, cfg) /\ c = CaseRan(u, x)
    BY <2>1 DEF RunCase, CaseFailed
  <2>3. c.r = x /\ c.text = Text(x)
    BY <2>2 DEF CaseRan
  <2>4. x.end = "ok" /\ ~\E i \in 1..Len(x.ret) : x.ret[i][1] # 0 \/ x.ret[i][2] # 0
    BY <2>1, <2>3 DEF Text
  <2>5. Len(x.ret) = 2
    BY <2>2, <2>4, RanTwice
  <2> QED
    BY <2>1, <2>3, <2>4, <2>5 DEF GoodRun
<1> QED
  BY <1>1, <1>2

-----------------------------------------------------------------------------
(* The exit code is that of no error only when the rerun was a success.    *)
LEMMA NoErrorIsSuccess ==
  ASSUME NEW a, ReturnCode(a) = "NONE_ERROR"
  PROVE  a.single = "SUCCESS"
BY DEF ReturnCode

(* What is known to be a success is a case that ran well.                  *)
LEMMA SuccessRanWell == ASSUME Grounds, info.single = "SUCCESS" PROVE RanWell
<1>1. PICK n \in SingleRuns : cases[n].ret = "SUCCESS" /\ GoodRun(cases[n])
  BY DEF Grounds, Rerun
<1>2. n \in 1..Len(cases) /\ cases[n].test = "single_op"
  BY <1>1, LenProperties DEF SingleRuns, Grounds, Listed
<1> QED
  BY <1>1, <1>2 DEF GoodRun, RanWell

-----------------------------------------------------------------------------
(* What steps leave alone                                                  *)

SameRun == Known' /\ info'.single = info.single /\ info'.attempted = info.attempted
SameText == out' = [x \in DOMAIN NoOut |-> out'[x]] /\ out'.text = out.text /\ out'.json = out.json
Forward == pc # "ended" /\ (pc' \notin Later => pc \notin Later)

(* The parts of the output.                                                *)
LEMMA OutParts == DOMAIN NoOut = {"dir", "text", "json", "summary", "tiling", "golden", "tensors"}
BY DEF NoOut

(* A part of the output other than the reports.                            *)
LEMMA OutPart ==
  ASSUME Output, NEW f, f \notin {"text", "json"}, NEW v, out' = [out EXCEPT ![f] = v]
  PROVE  SameText
BY OutParts DEF Output, SameText

(* A field of what is known other than what came of the rerun.             *)
LEMMA FieldKept ==
  ASSUME NEW i, i = [x \in DOMAIN i |-> i[x]], {"single", "attempted"} \subseteq DOMAIN i,
         NEW f, f \notin {"single", "attempted"}, NEW v, NEW j, j = [i EXCEPT ![f] = v]
  PROVE  /\ j = [x \in DOMAIN j |-> j[x]] /\ DOMAIN j = DOMAIN i
         /\ j["single"] = i["single"] /\ j["attempted"] = i["attempted"]
OBVIOUS

(* Nothing is written before the end, so there is nothing to agree.        *)
LEMMA NothingWritten == ASSUME out.text = <<>>, out.json = <<>> PROVE Agrees
<1>1. Len(out.text) = 0 /\ Len(out.json) = 0
  BY EmptySeq
<1>2. 1..0 = {}
  OBVIOUS
<1> QED
  BY <1>1, <1>2 DEF Agrees, ExitZeroWasRerun, ReportTellsTheRun

(* The same after a step.                                                  *)
LEMMA NothingWrittenNext == ASSUME (out.text)' = <<>>, (out.json)' = <<>> PROVE Agrees'
<1>1. Len(out.text)' = 0 /\ Len(out.json)' = 0
  BY EmptySeq
<1>2. 1..0 = {}
  OBVIOUS
<1> QED
  BY <1>1, <1>2 DEF Agrees, ExitZeroWasRerun, ReportTellsTheRun

(* A step that runs no case and says nothing of the rerun.                 *)
LEMMA QuietStep ==
  ASSUME Inv, SameRun, SameText, Forward, cases' = cases
  PROVE  Inv'
<1>1. Known' /\ Listed' /\ Output'
  BY DEF Inv, Grounds, SameRun, SameText, Forward, Listed, Output
<1>2. Rerun'
  BY DEF Inv, Grounds, Rerun, SameRun, Forward, SingleRuns, GoodRun
<1>3. Agrees'
  BY NothingWrittenNext DEF Inv, Grounds, Output, SameText, Forward
<1> QED
  BY <1>1, <1>2, <1>3 DEF Inv, Grounds

(* A case more in the list.                                                *)
LEMMA CaseAdded ==
  ASSUME Listed, NEW c, cases' = Append(cases, c)
  PROVE  /\ Listed' /\ Len(cases) \in Nat /\ DOMAIN cases = 1..Len(cases)
         /\ DOMAIN cases' = 1..(Len(cases) + 1)
         /\ \A n \in DOMAIN cases : cases'[n] = cases[n]
         /\ cases'[Len(cases) + 1] = c
<1> DEFINE S == {cases[n] : n \in DOMAIN cases}
           T == S \cup {c}
<1>1. cases \in Seq(S) /\ Len(cases) \in Nat /\ DOMAIN cases = 1..Len(cases)
  BY LenProperties DEF Listed
<1>2. cases \in Seq(T)
  <2>1. \A n \in 1..Len(cases) : cases[n] \in T
    BY <1>1
  <2> HIDE DEF S, T
  <2> QED
    BY <1>1, <2>1
<1>3. /\ cases' \in Seq(T) /\ Len(cases') = Len(cases) + 1
      /\ \A n \in 1..Len(cases) : cases'[n] = cases[n]
      /\ cases'[Len(cases) + 1] = c
  <2> HIDE DEF T
  <2>1. c \in T
    BY DEF T
  <2> QED
    BY <1>1, <1>2, <2>1, AppendProperties
<1>4. DOMAIN cases' = 1..(Len(cases) + 1)
  <2> HIDE DEF T
  <2> QED
    BY <1>3, LenProperties
<1>5. cases' \in Seq({cases'[n] : n \in DOMAIN cases'})
  <2> DEFINE V == {cases'[n] : n \in DOMAIN cases'}
  <2>1. \A n \in 1..(Len(cases) + 1) : cases'[n] \in V
    BY <1>4
  <2> HIDE DEF V, T
  <2>2. cases' \in Seq(V)
    BY <1>1, <1>3, <1>4, <2>1
  <2> QED
    BY <2>2 DEF V
<1> QED
  BY <1>1, <1>3, <1>4, <1>5 DEF Listed

(* A step that runs another case than that of the failed operator.         *)
LEMMA OtherCase ==
  ASSUME Inv, SameRun, SameText, Forward,
         NEW c, cases' = Append(cases, c), c.test # "single_op"
  PROVE  Inv'
<1>1. Known' /\ Output'
  BY DEF Inv, Grounds, SameRun, SameText, Forward, Output
<1>2. /\ Listed' /\ DOMAIN cases = 1..Len(cases) /\ Len(cases) \in Nat
      /\ DOMAIN cases' = 1..(Len(cases) + 1)
      /\ (\A n \in DOMAIN cases : cases'[n] = cases[n]) /\ cases'[Len(cases) + 1] = c
  BY CaseAdded DEF Inv, Grounds
<1>3. SingleRuns' = SingleRuns /\ \A n \in SingleRuns : cases'[n] = cases[n]
  <2>1. \A n \in DOMAIN cases' : n \in DOMAIN cases \/ n = Len(cases) + 1
    BY <1>2
  <2>2. \A n \in DOMAIN cases : n \in DOMAIN cases'
    BY <1>2
  <2> QED
    BY <1>2, <2>1, <2>2 DEF SingleRuns
<1>4. Rerun'
  <2>1. /\ pc' \notin Later => ~info.attempted
        /\ ~info.attempted => info.single = "NOT_RUN" /\ SingleRuns' = {}
        /\ info.attempted => SingleRuns' # {}
    BY <1>3 DEF Inv, Grounds, Rerun, Forward
  <2>2. ASSUME NEW n \in SingleRuns'
        PROVE  cases'[n].ret = info.single /\ (cases'[n].ret = "SUCCESS" => GoodRun(cases'[n]))
    <3>1. n \in SingleRuns /\ cases'[n] = cases[n]
      BY <1>3
    <3>2. cases[n].ret = info.single /\ (cases[n].ret = "SUCCESS" => GoodRun(cases[n]))
      BY <3>1, Zenon DEF Inv, Grounds, Rerun
    <3> QED
      BY <3>1, <3>2, Zenon
  <2> QED
    BY <2>1, <2>2 DEF Rerun, SameRun, GoodRun
<1>5. Agrees'
  BY NothingWrittenNext DEF Inv, Grounds, Output, SameText, Forward
<1> QED
  BY <1>1, <1>2, <1>4, <1>5 DEF Inv, Grounds

-----------------------------------------------------------------------------
(* What is found out about the error                                       *)

(* Before the first step nothing is known of a rerun.                      *)
LEMMA NothingKnown ==
  /\ NoInfo = [x \in DOMAIN NoInfo |-> NoInfo[x]]
  /\ {"single", "attempted"} \subseteq DOMAIN NoInfo
  /\ NoInfo["single"] = "NOT_RUN" /\ NoInfo["attempted"] = FALSE
BY DEF NoInfo

(* The record that was found leaves the rest as it was.                    *)
LEMMA OpenedKnows ==
  ASSUME NEW c, NEW i, i = FindRecord(c), NEW j, j = GroupRecords(c, i)
  PROVE  /\ j = [x \in DOMAIN j |-> j[x]] /\ {"single", "attempted"} \subseteq DOMAIN j
         /\ j.single = NoInfo.single /\ j.attempted = NoInfo.attempted
<1>1. i = NoInfo \/ \E r, d, q, p : i = [NoInfo EXCEPT !.none = FALSE, !.rec = r, !.data = d,
                                                        !.second = q, !.chip = p]
  BY DEF FindRecord, RecordOfTask, FoundRecord
<1>2. /\ i = [x \in DOMAIN i |-> i[x]] /\ {"single", "attempted"} \subseteq DOMAIN i
      /\ i.single = NoInfo.single /\ i.attempted = NoInfo.attempted
  BY <1>1, NothingKnown
<1>3. \E r, q : j = [i EXCEPT !.rec = r, !.groups = q]
  BY DEF GroupRecords
<1> QED
  BY <1>2, <1>3

(* Looking for the kernel and correcting the counters does so too.         *)
LEMMA CorrectedKnows ==
  ASSUME NEW c, NEW i, i = [x \in DOMAIN i |-> i[x]], {"single", "attempted"} \subseteq DOMAIN i,
         NEW n, NEW sym, NEW j, j = CorrectAll(c, FindKernel(c, i, n), sym)
  PROVE  /\ j = [x \in DOMAIN j |-> j[x]] /\ {"single", "attempted"} \subseteq DOMAIN j
         /\ j.single = i.single /\ j.attempted = i.attempted
<1>1. PICK k : k = FindKernel(c, i, n)
  OBVIOUS
<1>2. k = i \/ \E e, t, f : k = KnownKernel(c, i, e, t, f, n)
  BY <1>1 DEF FindKernel
<1>3. /\ k = [x \in DOMAIN k |-> k[x]] /\ {"single", "attempted"} \subseteq DOMAIN k
      /\ k.single = i.single /\ k.attempted = i.attempted
  BY <1>2 DEF KnownKernel
<1>4. PICK g, rec, pc0, ob : j = Corrected(c, [k EXCEPT !.groups = g], rec, pc0, ob, sym)
  BY <1>1 DEF CorrectAll, CorrectRecord
<1>5. \E p, q : j = [[k EXCEPT !.groups = g] EXCEPT !.pc = p, !.src = q]
  BY <1>4 DEF Corrected
<1> QED
  BY <1>3, <1>5

-----------------------------------------------------------------------------
(* The steps before the rerun                                              *)

(* Nothing is known and nothing was written.                               *)
LEMMA InitInv == Init => Inv
<1> SUFFICES ASSUME Init PROVE Inv
  OBVIOUS
<1>1. Known
  BY NothingKnown DEF Init, Known, Rets
<1>2. Listed /\ SingleRuns = {}
  BY EmptySeq DEF Init, Listed, SingleRuns
<1>3. Output /\ out.text = <<>> /\ out.json = <<>>
  BY DEF Init, Output, NoOut, NoReport
<1>4. Rerun
  BY <1>2, NothingKnown DEF Init, Rerun, Later
<1> QED
  BY <1>1, <1>2, <1>3, <1>4, NothingWritten DEF Inv, Grounds

(* A step that ends the command without a report, leaving all but the      *)
(* output as it was.                                                       *)
LEMMA Refusal ==
  ASSUME Inv, pc # "ended", pc' = "ended", UNCHANGED <<info, cases>>, SameText
  PROVE  Inv'
<1>1. SameRun /\ Forward
  BY DEF Inv, Grounds, Known, SameRun, Forward, Later
<1> QED
  BY <1>1, QuietStep

(* main refuses, dispatches or converts a dump.                            *)
LEMMA MainStep ==
  ASSUME Inv, MainRefuses \/ MainDispatches \/ ConvertDumpData PROVE Inv'
<1>0. UNCHANGED <<info, cases>> /\ pc \in {"main", "convert"}
  BY DEF MainRefuses, MainDispatches, ConvertDumpData, Finish, Step
<1>1. SameRun
  BY <1>0 DEF Inv, Grounds, Known, SameRun
<1>2. Forward
  BY <1>0 DEF Forward, Later
<1>3. SameText
  <2>1. out' = out \/ \E v : out' = [out EXCEPT !.tensors = v]
    BY DEF MainRefuses, MainDispatches, ConvertDumpData
  <2> QED
    BY <2>1, OutParts DEF Inv, Grounds, Output, SameText
<1> QED
  BY <1>0, <1>1, <1>2, <1>3, QuietStep

(* The environment alone: the operator that must run everywhere is a case, *)
(* but not one of the failed operator.                                     *)
LEMMA TestEnvStep == ASSUME Inv, TestEnv PROVE Inv'
<1>0. UNCHANGED info /\ pc = "test_env"
  BY DEF TestEnv, Finish, Step
<1>1. SameRun /\ Forward
  BY <1>0 DEF Inv, Grounds, Known, SameRun, Forward, Later
<1>2. CASE UNCHANGED <<out, cases>>
  <2>1. SameText
    BY <1>2 DEF Inv, Grounds, Output, SameText
  <2> QED
    BY <1>1, <1>2, <2>1, QuietStep
<1>3. CASE ~UNCHANGED <<out, cases>>
  <2>1. PICK r : /\ cases' = <<[test |-> "golden", ret |-> "NOT_RUN", exit |-> 0, r |-> r.runner]>>
                 /\ out' = [out EXCEPT !.golden = r.temp]
    BY <1>3 DEF TestEnv
  <2>2. SameText
    BY <2>1, OutPart DEF Inv, Grounds
  <2>3. SingleRuns' = {} /\ Listed'
    <3>1. PICK c : cases' = <<c>> /\ c.test = "golden"
      BY <2>1
    <3>2. cases' \in Seq({c}) /\ DOMAIN cases' = {1} /\ cases'[1] = c
      BY <3>1
    <3>3. {cases'[n] : n \in DOMAIN cases'} = {c}
      BY <3>2
    <3> QED
      BY <3>1, <3>2, <3>3 DEF SingleRuns, Listed
  <2>4. Known' /\ Output' /\ Rerun'
    BY <1>0, <1>1, <2>2, <2>3 DEF Inv, Grounds, Output, SameText, SameRun, Rerun, Later
  <2>5. Agrees'
    BY <1>0, <2>2, NothingWrittenNext DEF Inv, Grounds, Output, SameText
  <2> QED
    BY <2>3, <2>4, <2>5 DEF Inv, Grounds
<1> QED
  BY <1>2, <1>3

(* The collection.                                                         *)
LEMMA CollectStep ==
  ASSUME Inv, ReportPathRefused \/ CollectLogs \/ CollectChooses \/ CollectFiles PROVE Inv'
<1>0. UNCHANGED <<info, cases>> /\ pc \in {"report_path", "choose", "collect"}
  BY DEF ReportPathRefused, CollectLogs, CollectChooses, CollectFiles, Step
<1>1. SameRun /\ Forward
  BY <1>0 DEF Inv, Grounds, Known, SameRun, Forward, Later
<1>2. SameText
  <2>1. out' = out \/ \E v : out' = [out EXCEPT !.dir = v]
    BY DEF ReportPathRefused, CollectLogs, CollectChooses, CollectFiles
  <2> QED
    BY <2>1, OutParts DEF Inv, Grounds, Output, SameText
<1> QED
  BY <1>0, <1>1, <1>2, QuietStep

(* The record and the kernel of the error.                                 *)
LEMMA FindStep == ASSUME Inv, ParseStarts \/ GetOpInfo \/ SetInfo PROVE Inv'
<1>0. UNCHANGED <<out, cases>> /\ pc \in {"parse", "op_info", "set_info"}
  BY DEF ParseStarts, GetOpInfo, SetInfo, Finish, Step
<1>1. Known /\ ~info.attempted /\ info.single = "NOT_RUN"
  BY <1>0 DEF Inv, Grounds, Rerun, Later
<1>2. \/ info' = info
      \/ info' = GroupRecords(coll, FindRecord(coll))
      \/ info' = CorrectAll(coll, FindKernel(coll, info, s.tools.cores), s.tools.symbols)
  BY DEF ParseStarts, GetOpInfo, SetInfo
<1>3. Known' /\ ~(info.attempted)' /\ (info.single)' = "NOT_RUN"
  <2>1. CASE info' = info
    BY <1>1, <2>1 DEF Known
  <2>2. CASE info' = GroupRecords(coll, FindRecord(coll))
    <3>1. /\ info' = [x \in DOMAIN info' |-> info'[x]] /\ {"single", "attempted"} \subseteq DOMAIN info'
          /\ (info').single = "NOT_RUN" /\ (info').attempted = FALSE
      <4>1. PICK i, j : i = FindRecord(coll) /\ j = GroupRecords(coll, i) /\ info' = j
        BY <2>2
      <4>2. /\ j = [x \in DOMAIN j |-> j[x]] /\ {"single", "attempted"} \subseteq DOMAIN j
            /\ j.single = NoInfo.single /\ j.attempted = NoInfo.attempted
        BY <4>1, OpenedKnows
      <4> QED
        BY <4>1, <4>2, NothingKnown
    <3> QED
      BY <3>1 DEF Known, Rets
  <2>3. CASE info' = CorrectAll(coll, FindKernel(coll, info, s.tools.cores), s.tools.symbols)
    <3>1. info = [x \in DOMAIN info |-> info[x]] /\ {"single", "attempted"} \subseteq DOMAIN info
      BY <1>1 DEF Known
    <3>2. /\ info' = [x \in DOMAIN info' |-> info'[x]] /\ {"single", "attempted"} \subseteq DOMAIN info'
          /\ (info').single = info.single /\ (info').attempted = info.attempted
      BY <2>3, <3>1, CorrectedKnows
    <3> QED
      BY <1>1, <3>2 DEF Known, Rets
  <2> QED
    BY <1>2, <2>1, <2>2, <2>3
<1>4. SameRun
  BY <1>1, <1>3 DEF SameRun, Known
<1>5. Forward /\ SameText
  BY <1>0 DEF Inv, Grounds, Forward, Later, Output, SameText
<1> QED
  BY <1>0, <1>4, <1>5, QuietStep

(* Steps 2 to 8 of the analysis.                                           *)
LEMMA AnalysisStep ==
  ASSUME Inv,
         \/ GetGraph \/ CompareArgs \/ Decompile \/ CheckAtomic \/ ParseDump \/ WriteTiling
         \/ SubPointers
  PROVE  Inv'
<1>0. /\ UNCHANGED cases
      /\ pc \in {"graph", "args", "decompile", "atomic", "dump", "tiling", "sub_ptr"}
  BY DEF GetGraph, CompareArgs, Decompile, CheckAtomic, ParseDump, WriteTiling, SubPointers, Step,
     Finish
<1>1. Forward
  BY <1>0 DEF Forward, Later
<1>2. Known
  BY DEF Inv, Grounds
<1>3. SameRun /\ SameText
  <2>1. CASE GetGraph
    <3>1. PICK v : info' = [info EXCEPT !.graph = v] /\ out' = [out EXCEPT !.dir = "aicerror"]
      BY <2>1 DEF GetGraph
    <3> QED
      BY <1>2, <3>1, OutPart DEF Known, SameRun, Inv, Grounds
  <2>2. CASE CompareArgs
    <3>1. PICK p, q, io, ok, m :
            info' = [info EXCEPT !.before = p, !.after = q, !.io = io, !.argsOk = ok, !.marks = m]
      BY <2>2 DEF CompareArgs
    <3>2. out' = out
      BY <2>2 DEF CompareArgs
    <3> QED
      BY <1>2, <3>1, <3>2 DEF Known, SameRun, SameText, Output, Inv, Grounds
  <2>3. CASE Decompile
    <3>1. PICK p, q, f : info' = [info EXCEPT !.decompiled = p, !.line = q, !.flag = f]
      BY <2>3 DEF Decompile
    <3>2. out' = out
      BY <2>3 DEF Decompile
    <3> QED
      BY <1>2, <3>1, <3>2 DEF Known, SameRun, SameText, Output, Inv, Grounds
  <2>4. CASE CheckAtomic
    <3>1. PICK p, q : info' = [info EXCEPT !.cleanOk = p, !.atomicAdd = q]
      BY <2>4 DEF CheckAtomic
    <3>2. out' = out
      BY <2>4 DEF CheckAtomic
    <3> QED
      BY <1>2, <3>1, <3>2 DEF Known, SameRun, SameText, Output, Inv, Grounds
  <2>5. CASE ParseDump
    <3> DEFINE Read(p, ok, f) == [info EXCEPT !.dumpOk = ok, !.invalid = p.invalid, !.meta = p.meta,
                                              !.tiling = p.tiling, !.ffts = f]
               Kept(r, p) == [r EXCEPT !.bins = p.bins, !.spaces = p.spaces, !.dumpFiles = p.files]
               Ffts(p, ok) == IF coll.level = 1 THEN FftsAddrs(coll.plog)
                              ELSE IF ok THEN p.dfx.ffts ELSE 0
    <3>1. PICK p : /\ out' = [out EXCEPT !.tensors = p.apart \cup ToSet(p.bins)]
                   /\ info' = IF DumpResult(p)
                              THEN Kept(Read(p, DumpResult(p), Ffts(p, DumpResult(p))), p)
                              ELSE Read(p, DumpResult(p), Ffts(p, DumpResult(p)))
      BY <2>5 DEF ParseDump
    <3>2. SameRun
      <4>1. PICK r, ok, f : r = Read(p, ok, f) /\ (info' = r \/ info' = Kept(r, p))
        BY <3>1
      <4>2. /\ r = [x \in DOMAIN r |-> r[x]] /\ {"single", "attempted"} \subseteq DOMAIN r
            /\ r.single = info.single /\ r.attempted = info.attempted
        BY <1>2, <4>1 DEF Known
      <4>3. PICK j : info' = j /\ (j = r \/ j = Kept(r, p))
        BY <4>1
      <4>4. /\ j = [x \in DOMAIN j |-> j[x]] /\ {"single", "attempted"} \subseteq DOMAIN j
            /\ j.single = info.single /\ j.attempted = info.attempted
        BY <4>2, <4>3
      <4> QED
        BY <1>2, <4>3, <4>4 DEF Known, SameRun
    <3>3. PICK v : out' = [out EXCEPT !.tensors = v]
      BY <3>1
    <3> QED
      BY <3>2, <3>3, OutPart DEF Inv, Grounds
  <2>6. CASE WriteTiling
    <3>1. PICK v : info' = [info EXCEPT !.tiling = v] /\ out' = [out EXCEPT !.tiling = v # None]
      BY <2>6 DEF WriteTiling
    <3>2. PICK w : out' = [out EXCEPT !.tiling = w]
      BY <3>1
    <3> QED
      BY <1>2, <3>1, <3>2, OutPart DEF Known, SameRun, Inv, Grounds
  <2>7. CASE SubPointers
    <3>1. info' = info \/ \E v : info' = [info EXCEPT !.sub = v]
      BY <2>7 DEF SubPointers
    <3>2. out' = out
      BY <2>7 DEF SubPointers
    <3> QED
      BY <1>2, <3>1, <3>2 DEF Known, SameRun, SameText, Output, Inv, Grounds
  <2> QED
    BY <2>1, <2>2, <2>3, <2>4, <2>5, <2>6, <2>7
<1> QED
  BY <1>0, <1>1, <1>3, QuietStep

-----------------------------------------------------------------------------
(* The rerun                                                               *)

(* The object of the host, and the case with the last argument cleared:    *)
(* cases of their own, whose results are only logged.                      *)
LEMMA OtherCaseStep == ASSUME Inv, RunHostCase \/ RunErrorCase \/ RemoveTemp PROVE Inv'
<1>0. /\ UNCHANGED <<info, out>> /\ pc \in {"host_case", "error_case", "clean"}
      /\ pc' \notin Later => pc \notin Later
  BY DEF RunHostCase, RunErrorCase, RemoveTemp, Step, Later
<1>1. SameRun /\ SameText /\ Forward
  BY <1>0 DEF Inv, Grounds, Known, SameRun, Output, SameText, Forward
<1>2. \/ cases' = cases
      \/ \E t : cases' = Add(t, "host_single_op") \/ cases' = Add(t, "error_single_op")
  BY DEF RunHostCase, RunErrorCase, RemoveTemp
<1>3. CASE cases' = cases
  BY <1>1, <1>3, QuietStep
<1>4. CASE \E t : cases' = Add(t, "host_single_op") \/ cases' = Add(t, "error_single_op")
  <2>1. PICK c : cases' = Append(cases, c) /\ c.test # "single_op"
    BY <1>4 DEF Add
  <2> QED
    BY <1>1, <2>1, OtherCase
<1> QED
  BY <1>2, <1>3, <1>4

(* The check of the environment adds its own case and says whether it is   *)
(* good.                                                                   *)
LEMMA CheckEnvStep == ASSUME Inv, CheckEnv PROVE Inv'
<1>0. pc = "env" /\ pc' = "report"
  BY DEF CheckEnv, Step
<1>1. Forward
  BY <1>0 DEF Forward, Later
<1>2. CASE UNCHANGED <<info, out, cases>>
  BY <1>1, <1>2, QuietStep DEF Inv, Grounds, Known, SameRun, Output, SameText
<1>3. CASE ~UNCHANGED <<info, out, cases>>
  <2>1. PICK r : /\ info' = [info EXCEPT !.env = r.good, !.envTried = TRUE]
                 /\ out' = [out EXCEPT !.golden = r.temp]
                 /\ cases' = Append(cases, [test |-> "golden", ret |-> "NOT_RUN", exit |-> 0,
                                            r |-> r.runner])
    BY <1>3 DEF CheckEnv
  <2>2. SameRun
    BY <2>1 DEF Inv, Grounds, Known, SameRun
  <2>3. SameText
    BY <2>1, OutPart DEF Inv, Grounds
  <2>4. PICK c : cases' = Append(cases, c) /\ c.test = "golden"
    BY <2>1
  <2> QED
    BY <1>1, <2>2, <2>3, <2>4, OtherCase
<1> QED
  BY <1>2, <1>3

(* The rerun itself: the first and only case of the failed operator.       *)
LEMMA RunSingleStep == ASSUME Inv, RunSingleCase PROVE Inv'
<1>1. PICK d, t, ret : /\ t = RunCase(temp, d, GenerateConfig(info, "single_op"))
                       /\ ret = CaseResult(d, t) /\ d = s.dev["single_op"]
                       /\ IF info.dumpOk
                          THEN /\ info' = [info EXCEPT !.attempted = TRUE, !.single = ret]
                               /\ cases' = Add(t, "single_op")
                          ELSE UNCHANGED <<info, cases>>
  BY DEF RunSingleCase, Case, TestSingleOp
<1>2. pc = "single_case" /\ pc' \in Later \ {"ended"} /\ out' = out
  BY DEF RunSingleCase, Step, Later
<1>3. SameText /\ Forward
  BY <1>2 DEF Inv, Grounds, Output, SameText, Forward, Later
<1>4. CASE ~info.dumpOk
  <2>1. SameRun /\ cases' = cases
    BY <1>1, <1>4 DEF Inv, Grounds, Known, SameRun
  <2> QED
    BY <1>3, <2>1, QuietStep
<1>5. CASE info.dumpOk
  <2>1. PICK c : /\ cases' = Append(cases, c) /\ c.test = "single_op" /\ c.ret = ret
                 /\ c.exit = t.exit /\ c.r = t.r
    BY <1>1, <1>5 DEF Add
  <2>2. ret \in Rets /\ (ret = "SUCCESS" => GoodRun(c))
    <3>1. ret \in Rets /\ (ret = "SUCCESS" => GoodRun(t))
      BY <1>1, SuccessRan
    <3> QED
      BY <2>1, <3>1 DEF GoodRun
  <2>3. Known' /\ (info.single)' = ret /\ (info.attempted)' = TRUE
    <3>1. info' = [info EXCEPT !.attempted = TRUE, !.single = ret]
      BY <1>1, <1>5
    <3> QED
      BY <2>2, <3>1 DEF Inv, Grounds, Known
  <2>4. SingleRuns = {}
    BY <1>2 DEF Inv, Grounds, Rerun, Later
  <2>5. /\ Listed' /\ DOMAIN cases = 1..Len(cases) /\ Len(cases) \in Nat
        /\ DOMAIN cases' = 1..(Len(cases) + 1)
        /\ (\A n \in DOMAIN cases : cases'[n] = cases[n]) /\ cases'[Len(cases) + 1] = c
    BY <2>1, CaseAdded DEF Inv, Grounds
  <2>6. SingleRuns' = {Len(cases) + 1}
    <3>1. \A n \in DOMAIN cases' : n \in DOMAIN cases \/ n = Len(cases) + 1
      BY <2>5
    <3>2. Len(cases) + 1 \in DOMAIN cases'
      BY <2>5
    <3> QED
      BY <2>1, <2>4, <2>5, <3>1, <3>2 DEF SingleRuns
  <2>7. Rerun'
    <3>1. \A n \in SingleRuns' : cases'[n] = c
      BY <2>5, <2>6
    <3>2. (\A n \in SingleRuns : /\ cases[n].ret = info.single
                                 /\ cases[n].ret = "SUCCESS" => GoodRun(cases[n]))'
      BY <2>1, <2>2, <2>3, <3>1 DEF GoodRun
    <3> QED
      BY <1>2, <2>3, <2>6, <3>2 DEF Rerun
  <2>8. Output' /\ Agrees'
    BY <1>2, NothingWrittenNext DEF Inv, Grounds, Output
  <2> QED
    BY <2>3, <2>5, <2>7, <2>8 DEF Inv, Grounds
<1> QED
  BY <1>4, <1>5

-----------------------------------------------------------------------------
(* The reports                                                             *)

(* The run ends with reports written from a record that knows what is      *)
(* known of the rerun.                                                     *)
ToldOf(a, c) == /\ a.single = info.single /\ a.attempted = info.attempted
                /\ (out.text)' = <<InfoText(a)>>
                /\ (out.json)' \in {<<>>, <<BuildReport(a, c)>>}
                /\ exit' = "NONE_ERROR" => a.single = "SUCCESS"
Told ==
  /\ pc' = "ended" /\ UNCHANGED <<info, cases>>
  /\ out' = [x \in DOMAIN NoOut |-> out'[x]]
  /\ \E a, c : ToldOf(a, c)

(* An analysis that has found nothing, and one that was gone through.      *)
LEMMA ReportIsTold == ASSUME Inv, EmptyReport \/ WriteReports PROVE Told
<1>0. /\ pc' = "ended" /\ UNCHANGED <<info, cases>> /\ Output
  BY DEF EmptyReport, WriteReports, Finish, Step, Inv, Grounds
<1>1. CASE EmptyReport
  <2>1. PICK t, j : /\ out' = [out EXCEPT !.dir = "aicerror", !.text = t, !.json = j]
                    /\ t = <<InfoText(NoInfo)>>
                    /\ j \in {<<>>, <<BuildReport(NoInfo, FALSE)>>}
    BY <1>1 DEF EmptyReport, WriteJsonReport, NoReport
  <2>2. out' = [x \in DOMAIN NoOut |-> out'[x]] /\ (out.text)' = t /\ (out.json)' = j
    BY <1>0, <2>1, OutParts DEF Output
  <2>3. NoInfo.single = info.single /\ NoInfo.attempted = info.attempted
    <3>1. pc = "empty"
      BY <1>1 DEF EmptyReport, Finish, Step
    <3> QED
      BY <3>1, NothingKnown DEF Inv, Grounds, Known, Rerun, Later
  <2>4. exit' = "NONE_ERROR" => NoInfo.single = "SUCCESS"
    BY <1>1 DEF EmptyReport, Finish
  <2>5. /\ (out.text)' = <<InfoText(NoInfo)>>
        /\ (out.json)' \in {<<>>, <<BuildReport(NoInfo, FALSE)>>}
        /\ out' = [x \in DOMAIN NoOut |-> out'[x]]
    BY <2>1, <2>2
  <2> QED
    BY Zenon, <1>0, <2>3, <2>4, <2>5 DEF Told, ToldOf
<1>2. CASE WriteReports
  <2>1. PICK t, j : /\ out' = [out EXCEPT !.text = t, !.json = j, !.summary = TRUE]
                    /\ t = <<InfoText(info)>>
                    /\ j \in {<<>>, <<BuildReport(info, TRUE)>>}
    BY <1>2 DEF WriteReports, WriteJsonReport, NoReport
  <2>2. out' = [x \in DOMAIN NoOut |-> out'[x]] /\ (out.text)' = t /\ (out.json)' = j
    BY <1>0, <2>1, OutParts DEF Output
  <2>3. exit' = ReturnCode(info)
    BY <1>2 DEF WriteReports, Finish
  <2>4. exit' = "NONE_ERROR" => info.single = "SUCCESS"
    BY <2>3, NoErrorIsSuccess
  <2>5. /\ (out.text)' = <<InfoText(info)>>
        /\ (out.json)' \in {<<>>, <<BuildReport(info, TRUE)>>}
        /\ out' = [x \in DOMAIN NoOut |-> out'[x]]
    BY <2>1, <2>2
  <2> QED
    BY Zenon, <1>0, <2>4, <2>5 DEF Told, ToldOf
<1> QED
  BY <1>1, <1>2

(* Reports so written agree with the rerun and with the exit code.         *)
LEMMA ReportStep == ASSUME Inv, EmptyReport \/ WriteReports PROVE Inv'
<1>0. /\ pc' = "ended" /\ UNCHANGED <<info, cases>>
      /\ out' = [x \in DOMAIN NoOut |-> out'[x]]
  BY ReportIsTold DEF Told
<1>c. PICK a, c : ToldOf(a, c)
  BY ReportIsTold DEF Told
<1>a. /\ a.single = info.single /\ a.attempted = info.attempted
      /\ (out.text)' = <<InfoText(a)>>
      /\ (out.json)' \in {<<>>, <<BuildReport(a, c)>>}
      /\ exit' = "NONE_ERROR" => a.single = "SUCCESS"
  BY <1>c DEF ToldOf
<1>1. Known' /\ Listed' /\ Output' /\ Rerun'
  BY <1>0 DEF Inv, Grounds, Known, Listed, Output, Rerun, Later, SingleRuns, GoodRun
<1>2. ExitZeroWasRerun'
  <2> SUFFICES ASSUME exit' = "NONE_ERROR" PROVE RanWell'
    BY DEF ExitZeroWasRerun
  <2>1. Grounds' /\ info'.single = "SUCCESS"
    BY <1>0, <1>1, <1>a DEF Grounds
  <2>2. Grounds /\ info.single = "SUCCESS"
    BY <1>0, <2>1 DEF Inv
  <2>3. RanWell
    BY <2>2, SuccessRanWell
  <2> QED
    BY <1>0, <2>3 DEF RanWell
<1>3. ReportTellsTheRun'
  <2>1. SingleOpResult(a) = IF info.attempted THEN ResultText(info.single) ELSE "NotRun"
    BY Zenon, <1>a DEF SingleOpResult, Inv, Grounds, Rerun
  <2>2. \A n \in {m \in 1..Len(cases) : cases[m].test = "single_op"} : n \in SingleRuns
    BY LenProperties DEF Inv, Grounds, Listed, SingleRuns
  <2>3. \A n \in SingleRuns : n \in {m \in 1..Len(cases) : cases[m].test = "single_op"}
    BY LenProperties DEF Inv, Grounds, Listed, SingleRuns
  <2>4. PICK r : r = BuildReport(a, c) /\ (out.json)' \in {<<>>, <<r>>}
    BY <1>a
  <2>5. r.single = SingleOpResult(a)
    BY <2>4 DEF BuildReport
  <2>6. \A i \in 1..Len((out.json)') : (out.json)'[i] = r
    BY <2>4
  <2>7. /\ SingleRuns = {} => ~info.attempted
        /\ \A n \in SingleRuns : info.attempted /\ cases[n].ret = info.single
    BY DEF Inv, Grounds, Rerun
  <2>8. SUFFICES ASSUME NEW i \in 1..Len((out.json)')
                 PROVE  LET ran == {n \in 1..Len(cases) : cases[n].test = "single_op"}
                        IN /\ ran = {} => (out.json)'[i].single = "NotRun"
                           /\ \A n \in ran : (out.json)'[i].single = ResultText(cases[n].ret)
    BY <1>0 DEF ReportTellsTheRun
  <2>9. (out.json)'[i].single = IF info.attempted THEN ResultText(info.single) ELSE "NotRun"
    BY <2>1, <2>5, <2>6
  <2> QED
    BY <2>2, <2>3, <2>7, <2>9
<1> QED
  BY <1>1, <1>2, <1>3 DEF Inv, Grounds, Agrees

-----------------------------------------------------------------------------
(* The theorems                                                            *)

(* Nothing changes.                                                        *)
LEMMA StutterInv == ASSUME Inv, UNCHANGED vars PROVE Inv'
<1>0. /\ pc' = pc /\ info' = info /\ cases' = cases /\ out' = out /\ exit' = exit
  BY DEF vars
<1>1. Known'
  BY <1>0 DEF Inv, Grounds, Known
<1>2. Listed'
  BY <1>0 DEF Inv, Grounds, Listed
<1>3. Output'
  BY <1>0 DEF Inv, Grounds, Output
<1>4. Rerun'
  <2>1. SingleRuns' = SingleRuns
    BY <1>0 DEF SingleRuns
  <2> QED
    BY <1>0, <2>1 DEF Inv, Grounds, Rerun, GoodRun
<1>5. ExitZeroWasRerun'
  BY <1>0 DEF Inv, Agrees, ExitZeroWasRerun, RanWell
<1>6. ReportTellsTheRun'
  BY <1>0 DEF Inv, Agrees, ReportTellsTheRun
<1> QED
  BY <1>1, <1>2, <1>3, <1>4, <1>5, <1>6 DEF Inv, Grounds, Agrees

(* Every step preserves the invariant.                                     *)
LEMMA StepInv == Inv /\ [Next]_vars => Inv'
<1> SUFFICES ASSUME Inv, [Next]_vars PROVE Inv'
  OBVIOUS
<1>1. CASE Ended \/ UNCHANGED vars
  BY <1>1, StutterInv DEF Ended
<1>2. CASE MainRefuses \/ MainDispatches \/ ConvertDumpData \/ TestEnv
  BY <1>2, MainStep, TestEnvStep
<1>3. CASE ReportPathRefused \/ CollectLogs \/ CollectChooses \/ CollectFiles
  BY <1>3, CollectStep
<1>4. CASE ParseStarts \/ GetOpInfo \/ SetInfo
  BY <1>4, FindStep
<1>5. CASE GetGraph \/ CompareArgs \/ Decompile \/ CheckAtomic \/ ParseDump \/ WriteTiling
           \/ SubPointers
  BY <1>5, AnalysisStep
<1>6. CASE RunHostCase \/ RunErrorCase \/ RemoveTemp \/ RunSingleCase \/ CheckEnv
  BY <1>6, OtherCaseStep, RunSingleStep, CheckEnvStep
<1>7. CASE EmptyReport \/ WriteReports
  BY <1>7, ReportStep
<1> QED
  BY <1>1, <1>2, <1>3, <1>4, <1>5, <1>6, <1>7 DEF Next

(* The inductive invariant holds in every reachable state.                 *)
THEOREM AnalysisInvariant == Spec => []Inv
BY InitInv, StepInv, PTL DEF Spec

(* An analysis that exits without error has rerun the operator in a process *)
(* that came to its end, with both launches good: a rerun that died or was  *)
(* not started never passes for one that found nothing.                     *)
THEOREM AnalysisExitZeroWasRerun == Spec => []ExitZeroWasRerun
<1>1. Inv => ExitZeroWasRerun
  BY DEF Inv, Agrees
<1> QED
  BY <1>1, AnalysisInvariant, PTL

(* The JSON report says of the rerun what has happened: not run if and     *)
(* only if no process was started, else how it ended.                      *)
THEOREM AnalysisReportTellsTheRun == Spec => []ReportTellsTheRun
<1>1. Inv => ReportTellsTheRun
  BY DEF Inv, Agrees
<1> QED
  BY <1>1, AnalysisInvariant, PTL

(* "Not reproduced" is said only of a rerun whose process came to its end  *)
(* and whose two launches returned without error, whatever the device, the *)
(* compiler, the dump and the log of the process answer on the way.        *)
THEOREM AnalysisNotReproducedMeansRan == Spec => []NotReproducedMeansRan
<1>1. Inv => NotReproducedMeansRan
  BY SuccessRanWell DEF Inv, NotReproducedMeansRan
<1> QED
  BY <1>1, AnalysisInvariant, PTL

-----------------------------------------------------------------------------
(* Folds: what the folds of the community modules do, step by step         *)

(* What holds of zero and is handed on holds of every number up to n.      *)
LEMMA Upwards ==
  ASSUME NEW n \in Nat, NEW T, 0 \in T, \A k \in 0..(n - 1) : k \in T => k + 1 \in T
  PROVE  n \in T
<1> DEFINE R == {ss \in Nat \X Nat : ss[1] < ss[2]}
           U == 0..n \ T
<1>1. IsWellFoundedOn(R, Nat)
  BY NatLessThanWellFounded DEF OpToRel
<1>2. U \subseteq Nat
  OBVIOUS
<1>3. ASSUME U # {} PROVE FALSE
  <2>1. PICK k \in U : \A j \in U : ~(<<j, k>> \in R)
    <3> HIDE DEF R, U
    <3> QED
      BY <1>1, <1>2, <1>3, WFMin, Zenon
  <2>2. k \in 0..n /\ k \notin T /\ k # 0
    BY <2>1
  <2>3. k - 1 \in 0..(n - 1) /\ (k - 1) + 1 = k
    BY <2>2
  <2>4. k - 1 \notin T
    BY <2>2, <2>3
  <2>5. k - 1 \in U /\ <<k - 1, k>> \in R
    BY <2>2, <2>3, <2>4
  <2> QED
    BY <2>1, <2>5
<1> QED
  BY <1>3

(* The greatest number of an interval.                                     *)
LEMMA GreatestIs ==
  ASSUME NEW k \in Nat, NEW S \in SUBSET (1..(k + 1)), k + 1 \in S
  PROVE  Max(S) = k + 1
<1>1. \A y \in S : k + 1 >= y
  OBVIOUS
<1>2. \A x \in S : (\A y \in S : x >= y) => x = k + 1
  <2> SUFFICES ASSUME NEW x \in S, \A y \in S : x >= y PROVE x = k + 1
    OBVIOUS
  <2>1. x \in Nat /\ x <= k + 1 /\ x >= k + 1
    OBVIOUS
  <2> QED
    BY <2>1
<1> QED
  BY <1>1, <1>2 DEF Max

(* A set of positions that is not empty has a greatest one.                *)
LEMMA GreatestOf ==
  ASSUME NEW n \in Nat, NEW S \in SUBSET (1..n), S # {}
  PROVE  Max(S) \in S
<1> DEFINE R == {ss \in Nat \X Nat : ss[1] < ss[2]}
           U == {n - x : x \in S}
<1>1. IsWellFoundedOn(R, Nat)
  BY NatLessThanWellFounded DEF OpToRel
<1>2. U \subseteq Nat /\ U # {}
  <2>1. \A x \in S : n - x \in Nat
    OBVIOUS
  <2>2. PICK x : x \in S
    OBVIOUS
  <2> QED
    BY <2>1, <2>2
<1>3. PICK m \in U : \A j \in U : ~(<<j, m>> \in R)
  <2> HIDE DEF R, U
  <2> QED
    BY <1>1, <1>2, WFMin, Zenon
<1>4. PICK x \in S : m = n - x
  BY <1>3
<1>5. ASSUME NEW y \in S PROVE x >= y
  <2>1. n - y \in U /\ n - y \in Nat /\ m \in Nat /\ ~(n - y < m)
    <3>1. n - y \in U
      OBVIOUS
    <3>2. n - y \in Nat /\ m \in Nat
      BY <1>4
    <3> QED
      BY <1>3, <3>1, <3>2
  <2> QED
    BY <1>4, <2>1
<1> QED
  BY <1>4, <1>5 DEF Max

(* How a fold goes on from position to position.                           *)
Unfolds(h, n, base, G) ==
  h = [S \in SUBSET (1..n) |-> IF S = {} THEN base ELSE G[Max(S)][h[S \ {Max(S)}]]]

(* Over any sequence of steps within a set of values there is a fold.      *)
LEMMA FoldExists ==
  ASSUME NEW n \in Nat, NEW V, NEW base \in V, NEW G, G \in [1..n -> [V -> V]]
  PROVE  \E h \in [SUBSET (1..n) -> V] : Unfolds(h, n, base, G)
<1> DEFINE Good(k) == \E h \in [SUBSET (1..k) -> V] : Unfolds(h, k, base, G)
           T == {k \in 0..n : Good(k)}
<1>1. 0 \in T
  <2>1. PICK z : z = [S \in SUBSET (1..0) |-> base]
    OBVIOUS
  <2>2. \A S \in SUBSET (1..0) : S = {}
    OBVIOUS
  <2>3. z \in [SUBSET (1..0) -> V] /\ Unfolds(z, 0, base, G)
    BY <2>1, <2>2 DEF Unfolds
  <2>4. Good(0)
    BY <2>3
  <2>5. 0 \in 0..n
    OBVIOUS
  <2> QED
    BY <2>4, <2>5
<1>2. ASSUME NEW k \in 0..(n - 1), k \in T PROVE k + 1 \in T
  <2>1. PICK h \in [SUBSET (1..k) -> V] : Unfolds(h, k, base, G)
    BY <1>2
  <2> DEFINE g == [S \in SUBSET (1..(k + 1)) |-> IF k + 1 \in S THEN G[k + 1][h[S \ {k + 1}]] ELSE h[S]]
  <2>0. k \in Nat /\ k + 1 \in 1..n /\ k + 1 \in 0..n
    OBVIOUS
  <2>2. ASSUME NEW S \in SUBSET (1..(k + 1)), k + 1 \in S PROVE S \ {k + 1} \in SUBSET (1..k)
    OBVIOUS
  <2>3. ASSUME NEW S \in SUBSET (1..(k + 1)), k + 1 \notin S PROVE S \in SUBSET (1..k)
    BY <2>3
  <2>4. g \in [SUBSET (1..(k + 1)) -> V]
    <3>1. ASSUME NEW S \in SUBSET (1..(k + 1))
          PROVE  (IF k + 1 \in S THEN G[k + 1][h[S \ {k + 1}]] ELSE h[S]) \in V
      BY <2>0, <2>1, <2>2, <2>3
    <3> QED
      BY <3>1
  <2>5. ASSUME NEW S \in SUBSET (1..(k + 1))
        PROVE  g[S] = IF S = {} THEN base ELSE G[Max(S)][g[S \ {Max(S)}]]
    <3>1. CASE k + 1 \in S
      <4>1. Max(S) = k + 1
        BY <2>0, <3>1, GreatestIs
      <4>2. S \ {k + 1} \in SUBSET (1..(k + 1)) /\ k + 1 \notin S \ {k + 1}
        OBVIOUS
      <4>3. g[S \ {k + 1}] = h[S \ {k + 1}]
        BY <4>2
      <4> QED
        BY <3>1, <4>1, <4>3
    <3>2. CASE k + 1 \notin S
      <4>1. S \in SUBSET (1..k) /\ g[S] = h[S]
        BY <2>3, <3>2
      <4>2. h[S] = IF S = {} THEN base ELSE G[Max(S)][h[S \ {Max(S)}]]
        BY <2>1, <4>1 DEF Unfolds
      <4>3. S # {} => g[S \ {Max(S)}] = h[S \ {Max(S)}]
        <5>1. S \ {Max(S)} \in SUBSET (1..(k + 1)) /\ k + 1 \notin S \ {Max(S)}
          BY <3>2
        <5> QED
          BY <5>1
      <4> QED
        BY <4>1, <4>2, <4>3
    <3> QED
      BY <3>1, <3>2
  <2>6. Unfolds(g, k + 1, base, G)
    <3>1. g = [S \in SUBSET (1..(k + 1)) |-> g[S]]
      OBVIOUS
    <3> HIDE DEF g
    <3> QED
      BY <2>5, <3>1 DEF Unfolds
  <2> HIDE DEF g
  <2> QED
    BY <2>0, <2>4, <2>6
<1>3. n \in T
  <2> HIDE DEF T
  <2> QED
    BY <1>1, <1>2, Upwards
<1> QED
  BY <1>3

(* A fold by steps within a set of values ends in that set, if whatever     *)
(* holds of its first value and is handed on by every step holds at the end *)
LEMMA FoldEnds ==
  ASSUME NEW n \in Nat, NEW P, NEW h, 
         <<0, h[{}]>> \in P,
         \A k \in 0..(n - 1) : <<k, h[1..k]>> \in P => <<k + 1, h[1..(k + 1)]>> \in P
  PROVE  <<n, h[1..n]>> \in P
<1> DEFINE T == {k \in 0..n : <<k, h[1..k]>> \in P}
<1>1. 0 \in T
  <2>1. 1..0 = {}
    OBVIOUS
  <2> QED
    BY <2>1
<1>2. \A k \in 0..(n - 1) : k \in T => k + 1 \in T
  OBVIOUS
<1>3. n \in T
  <2> HIDE DEF T
  <2> QED
    BY <1>1, <1>2, Upwards
<1> QED
  BY <1>3

(* the positions up to the next *)
LEMMA NextPosition ==
  ASSUME NEW n \in Nat, NEW k \in 0..(n - 1)
  PROVE  /\ 1..(k + 1) \in SUBSET (1..n) /\ 1..(k + 1) # {} /\ k + 1 \in 1..n
         /\ Max(1..(k + 1)) = k + 1 /\ 1..(k + 1) \ {k + 1} = 1..k
<1>1. k \in Nat /\ k + 1 \in 1..(k + 1)
  OBVIOUS
<1>2. Max(1..(k + 1)) = k + 1
  BY <1>1, GreatestIs
<1> QED
  BY <1>2

(* What a fold does while its values stay in a set.                        *)
StepsIn(h, n, V, G) ==
  \A S \in SUBSET (1..n) :
    S # {} /\ h[S \ {Max(S)}] \in V => h[S] = G[Max(S)][h[S \ {Max(S)}]]

(* A fold whose steps stay within a set of values ends in that set.        *)
LEMMA FoldStays ==
  ASSUME NEW n \in Nat, NEW V, NEW base \in V, NEW G, G \in [1..n -> [V -> V]],
         NEW h, h[{}] = base, StepsIn(h, n, V, G)
  PROVE  h[1..n] \in V
<1>1. <<0, h[{}]>> \in (0..n) \X V
  OBVIOUS
<1>2. ASSUME NEW k \in 0..(n - 1), <<k, h[1..k]>> \in (0..n) \X V
      PROVE  <<k + 1, h[1..(k + 1)]>> \in (0..n) \X V
  <2>1. PICK S : S = 1..(k + 1)
    OBVIOUS
  <2>2. S \in SUBSET (1..n) /\ S # {} /\ Max(S) = k + 1 /\ S \ {k + 1} = 1..k /\ k + 1 \in 1..n
    BY <2>1, NextPosition, Zenon
  <2>3. h[1..k] \in V
    BY <1>2
  <2>4. h[S] = G[k + 1][h[1..k]]
    BY <2>2, <2>3 DEF StepsIn
  <2> QED
    BY <2>1, <2>2, <2>3, <2>4
<1>3. <<n, h[1..n]>> \in (0..n) \X V
  BY <1>1, <1>2, FoldEnds
<1> QED
  BY <1>3

-----------------------------------------------------------------------------
(* The tensors of a runner                                                 *)

(* The buffers of a runner while it fills in the arguments.                *)
Uses == {"tensor", "tiling", "pointers"}
Buffers == [use : Uses, origin : BOOLEAN, guarded : BOOLEAN,
            live : BOOLEAN, frees : Nat]
Fills(v) == [bufs : Seq(Buffers), params : Seq(Nat), args : Seq(Uses), subs : BOOLEAN,
             ret : {v}, end : {"ok", "raised", "crash"}]

(* every tensor on the device is still held, and is one of those to release *)
Held(r) ==
  /\ \A b \in 1..Len(r.bufs) : r.bufs[b].use = "tensor" =>
       /\ r.bufs[b].live /\ r.bufs[b].frees = 0
       /\ \E p \in 1..Len(r.params) : r.params[p] = b
  /\ \A p \in 1..Len(r.params) : r.params[p] \in 1..Len(r.bufs)
HeldFills(v) == {r \in Fills(v) : Held(r)}

(* A buffer is not released when it is new.                                *)
LEMMA NewBuffer ==
  ASSUME NEW use \in Uses, NEW o \in BOOLEAN, NEW g \in BOOLEAN,
         NEW b, b = Buffer(use, o, g)
  PROVE  b \in Buffers /\ b.use = use /\ b.frees = 0 /\ (use = "tensor" => b.live)
BY DEF Buffer, Buffers, Uses

(* A runner that is stopped holds what it held.                            *)
LEMMA StoppedHeld ==
  ASSUME NEW v, NEW r \in HeldFills(v), NEW how \in {"raised", "crash"}
  PROVE  Stop(r, how) \in HeldFills(v) /\ ~Goes(Stop(r, how))
BY DEF HeldFills, Fills, Held, Stop, Goes

(* One that gets other arguments too.                                      *)
LEMMA ArgsHeld ==
  ASSUME NEW v, NEW r \in HeldFills(v), NEW a \in Seq(Uses), NEW s0 \in BOOLEAN,
         NEW x, x = [r EXCEPT !.args = a, !.subs = s0] \/ x = [r EXCEPT !.args = a]
  PROVE  x \in HeldFills(v)
<1>1. r \in Fills(v) /\ Held(r)
  BY DEF HeldFills
<1>2. x.bufs = r.bufs /\ x.params = r.params
  BY <1>1 DEF Fills
<1>3. x \in Fills(v)
  BY <1>1 DEF Fills
<1> QED
  BY <1>1, <1>2, <1>3 DEF HeldFills, Held

(* One that gets a buffer that is no tensor too.                           *)
LEMMA OtherBuffer ==
  ASSUME NEW v, NEW r \in HeldFills(v), NEW b \in Buffers, b.use # "tensor"
  PROVE  [r EXCEPT !.bufs = Append(@, b)] \in HeldFills(v)
<1> DEFINE x == [r EXCEPT !.bufs = Append(@, b)]
<1>1. /\ r.bufs \in Seq(Buffers) /\ x.bufs \in Seq(Buffers) /\ Len(x.bufs) = Len(r.bufs) + 1
      /\ Len(r.bufs) \in Nat /\ x.params = r.params
      /\ \A i \in 1..Len(r.bufs) : x.bufs[i] = r.bufs[i]
      /\ x.bufs[Len(r.bufs) + 1] = b
  BY AppendProperties, LenProperties DEF HeldFills, Fills
<1>2. x \in Fills(v)
  BY <1>1 DEF HeldFills, Fills
<1>3. Held(x)
  <2>1. Held(r)
    BY DEF HeldFills
  <2> HIDE DEF x
  <2>2. \A i \in 1..Len(x.bufs) : i \in 1..Len(r.bufs) \/ i = Len(r.bufs) + 1
    BY <1>1
  <2>3. ASSUME NEW i \in 1..Len(x.bufs), x.bufs[i].use = "tensor"
        PROVE  /\ x.bufs[i].live /\ x.bufs[i].frees = 0
               /\ \E p \in 1..Len(x.params) : x.params[p] = i
    BY <1>1, <2>1, <2>2, <2>3 DEF Held
  <2>4. ASSUME NEW p \in 1..Len(x.params) PROVE x.params[p] \in 1..Len(x.bufs)
    BY <1>1, <2>1 DEF Held
  <2> QED
    BY <2>3, <2>4 DEF Held
<1> QED
  BY <1>2, <1>3 DEF HeldFills

(* A tensor put on the device is appended to those to release, once or     *)
(* twice; if it could not be put there, the runner is stopped.             *)
LEMMA TensorHeld ==
  ASSUME NEW v, NEW r \in HeldFills(v), NEW d, NEW size, NEW mode, NEW times \in {1, 2},
         NEW y, y = SyncToDevice(r, d, size, mode),
         NEW z, z = y \/ \E a \in Seq(Uses) : z = [y EXCEPT !.args = a]
  PROVE  KeepLast(z, times) \in HeldFills(v)
<1>1. CASE ~Goes(y)
  <2>1. y \in HeldFills(v)
    <3>1. y = r \/ y = Stop(r, "raised") \/ y = Stop(r, "crash") \/ \E b : Goes(r) /\ y = Malloc(r, b)
      BY DEF SyncToDevice
    <3>2. ASSUME Goes(r), NEW b, y = Malloc(r, b) PROVE FALSE
      BY <1>1, <3>2 DEF Malloc, Goes, HeldFills, Fills
    <3> QED
      BY <3>1, <3>2, StoppedHeld
  <2>2. z \in HeldFills(v)
    BY <2>1, ArgsHeld
  <2>3. ~Goes(z)
    BY <1>1, <2>1 DEF Goes, HeldFills, Fills
  <2> QED
    BY <2>2, <2>3 DEF KeepLast
<1>2. CASE Goes(y)
  <2>0. times \in Nat /\ 1 <= times
    OBVIOUS
  <2>1. PICK o \in BOOLEAN, g \in BOOLEAN : y = Malloc(r, Buffer("tensor", o, g)) /\ Goes(r)
    <3>1. Goes(r) /\ ~d.full
      BY <1>2, StoppedHeld DEF SyncToDevice
    <3>2. y = Malloc(r, Buffer("tensor", mode = "magic" \/ size > 0, mode = "magic"))
      BY <3>1 DEF SyncToDevice
    <3>3. (mode = "magic" \/ size > 0) \in BOOLEAN /\ (mode = "magic") \in BOOLEAN
      OBVIOUS
    <3> QED
      BY <3>1, <3>2, <3>3
  <2>2. PICK b : b = Buffer("tensor", o, g)
    OBVIOUS
  <2>3. b \in Buffers /\ b.use = "tensor" /\ b.frees = 0 /\ b.live
    BY <2>2, NewBuffer DEF Uses
  <2>4. y = [r EXCEPT !.bufs = Append(@, b), !.args = Append(@, "tensor")]
    BY <2>1, <2>2, <2>3 DEF Malloc
  <2>5. /\ r.bufs \in Seq(Buffers) /\ Append(r.bufs, b) \in Seq(Buffers)
        /\ Len(Append(r.bufs, b)) = Len(r.bufs) + 1
        /\ Len(r.bufs) \in Nat
        /\ \A i \in 1..Len(r.bufs) : Append(r.bufs, b)[i] = r.bufs[i]
        /\ Append(r.bufs, b)[Len(r.bufs) + 1] = b
    BY <2>3, AppendProperties, LenProperties DEF HeldFills, Fills
  <2>6. Append(r.args, "tensor") \in Seq(Uses)
    <3>1. r.args \in Seq(Uses) /\ "tensor" \in Uses
      BY DEF HeldFills, Fills, Uses
    <3> QED
      BY <3>1, AppendProperties
  <2>7. PICK a \in Seq(Uses) : z = [r EXCEPT !.bufs = Append(r.bufs, b), !.args = a]
    BY <2>4, <2>6 DEF HeldFills, Fills
  <2>8. /\ z \in Fills(v) /\ z.bufs = Append(r.bufs, b) /\ z.params = r.params /\ Goes(z)
    BY <2>1, <2>5, <2>7 DEF HeldFills, Fills, Goes
  <2> DEFINE m == [i \in 1..times |-> Len(z.bufs)]
  <2>9. KeepLast(z, times) = [z EXCEPT !.params = @ \o m]
    BY <2>8 DEF KeepLast
  <2>10. /\ m \in Seq(Nat) /\ Len(m) = times
         /\ \A i \in 1..times : m[i] = Len(r.bufs) + 1
    BY <2>5, <2>8
  <2> HIDE DEF m
  <2>11. /\ r.params \o m \in Seq(Nat) /\ Len(r.params \o m) = Len(r.params) + times
         /\ Len(r.params) \in Nat
         /\ \A i \in 1..Len(r.params) : (r.params \o m)[i] = r.params[i]
         /\ \A i \in 1..times : (r.params \o m)[Len(r.params) + i] = m[i]
    <3>1. r.params \in Seq(Nat)
      BY DEF HeldFills, Fills
    <3>2. /\ r.params \o m \in Seq(Nat) /\ Len(r.params \o m) = Len(r.params) + times
          /\ Len(r.params) \in Nat
          /\ \A i \in 1..(Len(r.params) + times) :
               (r.params \o m)[i] = IF i <= Len(r.params) THEN r.params[i]
                                    ELSE m[i - Len(r.params)]
      BY <2>10, <3>1, ConcatProperties, LenProperties
    <3>3. \A i \in 1..Len(r.params) : i \in 1..(Len(r.params) + times) /\ i <= Len(r.params)
      BY <3>2
    <3>4. \A i \in 1..times : /\ Len(r.params) + i \in 1..(Len(r.params) + times)
                              /\ ~(Len(r.params) + i <= Len(r.params))
                              /\ (Len(r.params) + i) - Len(r.params) = i
      <4>1. Len(r.params) \in Nat
        BY <3>2
      <4>2. PICK l \in Nat : l = Len(r.params)
        BY <4>1
      <4>3. \A i \in 1..times : l + i \in 1..(l + times) /\ ~(l + i <= l) /\ (l + i) - l = i
        BY <2>0
      <4> QED
        BY <4>2, <4>3
    <3> QED
      BY <3>2, <3>3, <3>4
  <2>12. PICK x : x = KeepLast(z, times)
    OBVIOUS
  <2>13. x \in Fills(v) /\ x.bufs = Append(r.bufs, b) /\ x.params = r.params \o m
    <3>1. x = [z EXCEPT !.params = r.params \o m]
      BY <2>8, <2>9, <2>12
    <3> QED
      BY <2>8, <2>11, <3>1 DEF Fills
  <2>17. /\ Len(x.params) = Len(r.params) + times
         /\ \A i \in 1..Len(r.params) : x.params[i] = r.params[i]
         /\ \A i \in 1..times : x.params[Len(r.params) + i] = Len(r.bufs) + 1
    <3> HIDE <2>7, <2>8, <2>9, <2>12
    <3> QED
      BY <2>10, <2>11, <2>13
  <2>18. Len(r.params) \in Nat
    BY <2>11
  <2>14. Held(r)
    BY DEF HeldFills
  <2>15. ASSUME NEW i \in 1..Len(x.bufs), x.bufs[i].use = "tensor"
         PROVE  /\ x.bufs[i].live /\ x.bufs[i].frees = 0
                /\ \E p \in 1..Len(x.params) : x.params[p] = i
    <3>1. CASE i = Len(r.bufs) + 1
      <4>1. Len(r.params) + 1 \in 1..Len(x.params) /\ x.params[Len(r.params) + 1] = i
        <5>1. 1 \in 1..times /\ Len(r.params) + 1 \in 1..(Len(r.params) + times)
          BY <2>0, <2>18
        <5> QED
          BY <2>17, <3>1, <5>1
      <4> QED
        BY <2>3, <2>5, <2>13, <3>1, <4>1
    <3>2. CASE i # Len(r.bufs) + 1
      <4>1. i \in 1..Len(r.bufs) /\ x.bufs[i] = r.bufs[i]
        BY <2>5, <2>13, <3>2
      <4>2. PICK p \in 1..Len(r.params) : r.params[p] = i
        BY <2>14, <2>15, <4>1 DEF Held
      <4>3. p \in 1..Len(x.params) /\ x.params[p] = i
        BY <2>11, <2>13, <4>2
      <4> QED
        BY <2>14, <2>15, <4>1, <4>3 DEF Held
    <3> QED
      BY <3>1, <3>2
  <2>16. ASSUME NEW p \in 1..Len(x.params) PROVE x.params[p] \in 1..Len(x.bufs)
    <3>1. CASE p \in 1..Len(r.params)
      BY <2>5, <2>13, <2>14, <2>17, <3>1 DEF Held
    <3>2. CASE p \notin 1..Len(r.params)
      <4>1. PICK i \in 1..times : p = Len(r.params) + i
        <5>1. p - Len(r.params) \in 1..times /\ p = Len(r.params) + (p - Len(r.params))
          <6>1. p \in 1..(Len(r.params) + times)
            BY <2>17
          <6>2. p \in Int /\ ~(p <= Len(r.params)) /\ p <= Len(r.params) + times
            BY <2>0, <2>18, <3>2, <6>1
          <6> QED
            BY <2>0, <2>18, <6>2
        <5> QED
          BY <5>1
      <4>2. x.params[p] = Len(r.bufs) + 1
        BY <2>17, <4>1
      <4> QED
        BY <2>5, <2>13, <4>2
    <3> QED
      BY <3>1, <3>2
  <2> QED
    BY <2>12, <2>13, <2>15, <2>16 DEF HeldFills, Held
<1> QED
  BY <1>1, <1>2

(* a sequence *)
IsList(q) == q \in Seq({q[i] : i \in DOMAIN q})

(* Its positions.                                                          *)
LEMMA ListPositions ==
  ASSUME NEW q, IsList(q) PROVE Len(q) \in Nat /\ DOMAIN q = 1..Len(q)
BY LenProperties DEF IsList

(* The inputs, the outputs and the workspaces of level one: each tensor    *)
(* that is put on the device will be released.                             *)
LEMMA TensorsHeld ==
  ASSUME NEW v, NEW r \in HeldFills(v), NEW d, NEW sizes, IsList(sizes), NEW mode,
         NEW times \in {1, 2}
  PROVE  FillTensors(r, d, sizes, mode, times) \in HeldFills(v)
<1> DEFINE V == HeldFills(v)
           n == Len(sizes)
           Op(x, t) == KeepLast(SyncToDevice(x, d, t, mode), times)
           Rec(f) == f = [S \in SUBSET DOMAIN sizes |->
                            IF S = {} THEN r ELSE Op(f[S \ {Max(S)}], sizes[Max(S)])]
           G == [i \in 1..n |-> [x \in V |-> Op(x, sizes[i])]]
           h == CHOOSE f : Rec(f)
<1>1. FillTensors(r, d, sizes, mode, times) = h[DOMAIN sizes]
  BY DEF FillTensors, FoldLeft, MapThenFoldSet
<1>2. ASSUME NEW x \in V, NEW t PROVE Op(x, t) \in V
  BY TensorHeld
<1>3. n \in Nat /\ DOMAIN sizes = 1..n /\ r \in V
  BY ListPositions
<1> HIDE DEF V, n, Op
<1>4. G \in [1..n -> [V -> V]]
  BY <1>2
<1>5. \A i \in 1..n, x \in V : G[i][x] = Op(x, sizes[i])
  OBVIOUS
<1> HIDE DEF G
<1>6. Rec(h)
  <2>1. PICK f \in [SUBSET (1..n) -> V] : Unfolds(f, n, r, G)
    BY <1>3, <1>4, FoldExists
  <2>2. ASSUME NEW S \in SUBSET (1..n), S # {}
        PROVE  G[Max(S)][f[S \ {Max(S)}]] = Op(f[S \ {Max(S)}], sizes[Max(S)])
    <3>1. Max(S) \in 1..n /\ f[S \ {Max(S)}] \in V
      BY <1>3, <2>2, GreatestOf
    <3> QED
      BY <1>5, <3>1
  <2>3. Rec(f)
    BY <1>3, <2>1, <2>2 DEF Unfolds
  <2> HIDE DEF Rec
  <2> QED
    BY <2>3
<1> HIDE DEF h
<1>7. h[{}] = r
  <2>1. {} \in SUBSET DOMAIN sizes
    OBVIOUS
  <2> QED
    BY <1>6, <2>1
<1>8. ASSUME NEW S \in SUBSET (1..n), S # {}, h[S \ {Max(S)}] \in V
      PROVE  h[S] = G[Max(S)][h[S \ {Max(S)}]]
  <2>1. Max(S) \in 1..n
    BY <1>3, <1>8, GreatestOf
  <2>2. h[S] = Op(h[S \ {Max(S)}], sizes[Max(S)])
    BY <1>3, <1>6, <1>8
  <2> QED
    BY <1>5, <1>8, <2>1, <2>2
<1>9. h[1..n] \in V
  <2>1. StepsIn(h, n, V, G)
    BY <1>8 DEF StepsIn
  <2>2. n \in Nat /\ r \in V
    BY <1>3
  <2> QED
    BY <1>4, <1>7, <2>1, <2>2, FoldStays, Zenon
<1> QED
  BY <1>1, <1>3, <1>9 DEF V

(* The tensors a pointer tensor points to, one after the other.            *)
Pointed(p, d, bins, mode, u, a) ==
  FoldLeft(LAMBDA x, t : IF ~SubTensor(u, t) THEN x
                         ELSE IF d.unreadable THEN Stop(x, "raised")
                         ELSE KeepLast([SyncToDevice(x, d, t.size, mode) EXCEPT !.args = a], 1),
           p, bins)

(* All of them that are put on the device will be released.                *)
LEMMA PointedHeld ==
  ASSUME NEW v, NEW p \in HeldFills(v), NEW d, NEW bins, IsList(bins), NEW mode,
         NEW u, NEW a \in Seq(Uses)
  PROVE  Pointed(p, d, bins, mode, u, a) \in HeldFills(v)
<1> DEFINE V == HeldFills(v)
           n == Len(bins)
           Op(x, t) == IF ~SubTensor(u, t) THEN x
                       ELSE IF d.unreadable THEN Stop(x, "raised")
                       ELSE KeepLast([SyncToDevice(x, d, t.size, mode) EXCEPT !.args = a], 1)
           Rec(f) == f = [S \in SUBSET DOMAIN bins |->
                            IF S = {} THEN p ELSE Op(f[S \ {Max(S)}], bins[Max(S)])]
           G == [i \in 1..n |-> [x \in V |-> Op(x, bins[i])]]
           h == CHOOSE f : Rec(f)
<1>1. Pointed(p, d, bins, mode, u, a) = h[DOMAIN bins]
  BY DEF Pointed, FoldLeft, MapThenFoldSet
<1>2. ASSUME NEW x \in V, NEW t PROVE Op(x, t) \in V
  <2>1. Stop(x, "raised") \in V
    BY StoppedHeld
  <2>2. KeepLast([SyncToDevice(x, d, t.size, mode) EXCEPT !.args = a], 1) \in V
    <3>1. PICK y, z : y = SyncToDevice(x, d, t.size, mode) /\ z = [y EXCEPT !.args = a]
      OBVIOUS
    <3>2. KeepLast(z, 1) \in V
      BY <3>1, TensorHeld
    <3> QED
      BY <3>1, <3>2
  <2> QED
    BY <2>1, <2>2
<1>3. n \in Nat /\ DOMAIN bins = 1..n /\ p \in V
  BY ListPositions
<1> HIDE DEF V, n, Op
<1>4. G \in [1..n -> [V -> V]]
  BY <1>2
<1>5. \A i \in 1..n, x \in V : G[i][x] = Op(x, bins[i])
  OBVIOUS
<1> HIDE DEF G
<1>6. Rec(h)
  <2>1. PICK f \in [SUBSET (1..n) -> V] : Unfolds(f, n, p, G)
    BY <1>3, <1>4, FoldExists
  <2>2. ASSUME NEW S \in SUBSET (1..n), S # {}
        PROVE  G[Max(S)][f[S \ {Max(S)}]] = Op(f[S \ {Max(S)}], bins[Max(S)])
    <3>1. Max(S) \in 1..n /\ f[S \ {Max(S)}] \in V
      BY <1>3, <2>2, GreatestOf
    <3> QED
      BY <1>5, <3>1
  <2>3. Rec(f)
    BY <1>3, <2>1, <2>2 DEF Unfolds
  <2> HIDE DEF Rec
  <2> QED
    BY <2>3
<1> HIDE DEF h
<1>7. h[{}] = p
  <2>1. {} \in SUBSET DOMAIN bins
    OBVIOUS
  <2> QED
    BY <1>6, <2>1
<1>8. StepsIn(h, n, V, G)
  <2>1. SUFFICES ASSUME NEW S \in SUBSET (1..n), S # {}, h[S \ {Max(S)}] \in V
                 PROVE  h[S] = G[Max(S)][h[S \ {Max(S)}]]
    BY DEF StepsIn
  <2>2. Max(S) \in 1..n
    BY <1>3, <2>1, GreatestOf
  <2>3. h[S] = Op(h[S \ {Max(S)}], bins[Max(S)])
    BY <1>3, <1>6, <2>1
  <2> QED
    BY <1>5, <2>1, <2>2, <2>3
<1>9. h[1..n] \in V
  BY <1>3, <1>4, <1>7, <1>8, FoldStays
<1> QED
  BY <1>1, <1>3, <1>9 DEF V

(* A pointer tensor: its own buffer will never be released, those of the   *)
(* tensors it points to will.                                              *)
LEMMA SubptrHeld ==
  ASSUME NEW v, NEW r \in HeldFills(v), NEW d, NEW cfg, IsList(cfg.bins), NEW u, NEW mode
  PROVE  FillBinarySubptr(r, d, cfg, u, mode) \in HeldFills(v)
<1>1. CASE d.full
  BY <1>1, StoppedHeld DEF FillBinarySubptr
<1>2. CASE ~d.full
  <2>1. PICK b : b = Buffer("pointers", FALSE, FALSE)
    OBVIOUS
  <2>2. b \in Buffers /\ b.use # "tensor"
    BY <2>1, NewBuffer DEF Uses
  <2>3. PICK x : x = [r EXCEPT !.bufs = Append(@, b)]
    OBVIOUS
  <2>4. x \in HeldFills(v) /\ r.args \in Seq(Uses)
    BY <2>2, <2>3, OtherBuffer DEF HeldFills, Fills
  <2>5. PICK p : p = [r EXCEPT !.bufs = Append(@, b), !.subs = TRUE]
    OBVIOUS
  <2>6. p = [x EXCEPT !.args = r.args, !.subs = TRUE]
    BY <2>3, <2>5 DEF HeldFills, Fills
  <2>7. p \in HeldFills(v)
    BY <2>4, <2>6, ArgsHeld
  <2>8. PICK q : q = Pointed(p, d, cfg.bins, mode, u, r.args)
    OBVIOUS
  <2>9. q \in HeldFills(v)
    BY <2>4, <2>7, <2>8, PointedHeld
  <2>10. Append(q.args, "pointers") \in Seq(Uses)
    <3>1. q.args \in Seq(Uses) /\ "pointers" \in Uses
      BY <2>9 DEF HeldFills, Fills, Uses
    <3> QED
      BY <3>1, AppendProperties
  <2>11. FillBinarySubptr(r, d, cfg, u, mode) = [q EXCEPT !.args = Append(q.args, "pointers")]
    BY <1>2, <2>1, <2>5, <2>8 DEF FillBinarySubptr, Pointed
  <2> QED
    BY <2>9, <2>10, <2>11, ArgsHeld
<1> QED
  BY <1>1, <1>2

(* The dumped tensors of level zero: pointers, what they point to and all  *)
(* the others.                                                             *)
LEMMA BinaryHeld ==
  ASSUME NEW v, NEW r \in HeldFills(v), NEW d, NEW cfg, IsList(cfg.bins), NEW mode
  PROVE  FillBinary(r, d, cfg, mode) \in HeldFills(v)
<1> DEFINE V == HeldFills(v)
           n == Len(cfg.bins)
           at == [i \in 1..n |-> i]
           Op(x, i) == IF ~Goes(x) \/ Covered(cfg, i) THEN x
                       ELSE IF SubAt(cfg, i) # {}
                            THEN FillBinarySubptr(x, d, cfg, CHOOSE t \in SubAt(cfg, i) : TRUE, mode)
                       ELSE IF d.unreadable THEN Stop(x, "raised")
                       ELSE KeepLast(SyncToDevice(x, d, cfg.bins[i].size, mode), 1)
           Rec(f) == f = [S \in SUBSET DOMAIN at |->
                            IF S = {} THEN r ELSE Op(f[S \ {Max(S)}], at[Max(S)])]
           G == [i \in 1..n |-> [x \in V |-> Op(x, i)]]
           h == CHOOSE f : Rec(f)
<1>1. FillBinary(r, d, cfg, mode) = h[DOMAIN at]
  BY DEF FillBinary, FoldLeft, MapThenFoldSet
<1>2. ASSUME NEW x \in V, NEW i PROVE Op(x, i) \in V
  <2>1. Stop(x, "raised") \in V
    BY StoppedHeld
  <2>2. FillBinarySubptr(x, d, cfg, CHOOSE t \in SubAt(cfg, i) : TRUE, mode) \in V
    BY SubptrHeld
  <2>3. KeepLast(SyncToDevice(x, d, cfg.bins[i].size, mode), 1) \in V
    BY TensorHeld
  <2> QED
    BY <2>1, <2>2, <2>3
<1>3. n \in Nat /\ DOMAIN at = 1..n /\ r \in V /\ \A i \in 1..n : at[i] = i
  BY ListPositions
<1> HIDE DEF V, n, Op, at
<1>4. G \in [1..n -> [V -> V]]
  BY <1>2
<1>5. \A i \in 1..n, x \in V : G[i][x] = Op(x, i)
  OBVIOUS
<1> HIDE DEF G
<1>6. Rec(h)
  <2>1. PICK f \in [SUBSET (1..n) -> V] : Unfolds(f, n, r, G)
    BY <1>3, <1>4, FoldExists
  <2>2. ASSUME NEW S \in SUBSET (1..n), S # {}
        PROVE  G[Max(S)][f[S \ {Max(S)}]] = Op(f[S \ {Max(S)}], at[Max(S)])
    <3>1. Max(S) \in 1..n /\ f[S \ {Max(S)}] \in V
      BY <1>3, <2>2, GreatestOf
    <3> QED
      BY <1>3, <1>5, <3>1
  <2>3. Rec(f)
    BY <1>3, <2>1, <2>2 DEF Unfolds
  <2> HIDE DEF Rec
  <2> QED
    BY <2>3
<1> HIDE DEF h
<1>7. h[{}] = r
  <2>1. {} \in SUBSET DOMAIN at
    OBVIOUS
  <2> QED
    BY <1>6, <2>1
<1>8. StepsIn(h, n, V, G)
  <2>1. SUFFICES ASSUME NEW S \in SUBSET (1..n), S # {}, h[S \ {Max(S)}] \in V
                 PROVE  h[S] = G[Max(S)][h[S \ {Max(S)}]]
    BY DEF StepsIn
  <2>2. Max(S) \in 1..n
    BY <1>3, <2>1, GreatestOf
  <2>3. h[S] = Op(h[S \ {Max(S)}], at[Max(S)])
    BY <1>3, <1>6, <2>1
  <2> QED
    BY <1>3, <1>5, <2>1, <2>2, <2>3
<1>9. h[1..n] \in V
  BY <1>3, <1>4, <1>7, <1>8, FoldStays
<1> QED
  BY <1>1, <1>3, <1>9 DEF V

(* what a case is given are sequences *)
ListsOf(cfg) == /\ IsList(cfg.bins) /\ IsList(cfg.inputs) /\ IsList(cfg.outputs)
                /\ IsList(JsonOf[cfg.json.name].workspaces)

(* All that is filled in before a launch.                                  *)
LEMMA FilledHeld ==
  ASSUME NEW v, NEW r \in HeldFills(v), NEW d, NEW cfg, ListsOf(cfg), NEW mode
  PROVE  FilledCase(r, d, cfg, mode) \in HeldFills(v)
<1>1. PICK x : x = IF cfg.bins # <<>> THEN FillBinary(r, d, cfg, mode) ELSE FillAll(r, d, cfg, mode)
  OBVIOUS
<1>2. FillBinary(r, d, cfg, mode) \in HeldFills(v)
  BY BinaryHeld DEF ListsOf
<1>3. FillAll(r, d, cfg, mode) \in HeldFills(v)
  <2>1. PICK a : a = FillTensors(r, d, cfg.inputs, mode, 1)
    OBVIOUS
  <2>2. PICK b : b = FillTensors(a, d, cfg.outputs, mode, 2)
    OBVIOUS
  <2>3. a \in HeldFills(v)
    BY <2>1, TensorsHeld DEF ListsOf
  <2>4. b \in HeldFills(v)
    BY <2>2, <2>3, TensorsHeld DEF ListsOf
  <2>5. FillTensors(b, d, JsonOf[cfg.json.name].workspaces, mode, 1) \in HeldFills(v)
    BY <2>4, TensorsHeld DEF ListsOf
  <2> QED
    BY <2>1, <2>2, <2>5 DEF FillAll
<1>4. x \in HeldFills(v)
  BY <1>1, <1>2, <1>3
<1>5. FilledCase(r, d, cfg, mode) = FillTiling(x, d, cfg)
  BY <1>1 DEF FilledCase
<1>6. PICK b : b = Buffer("tiling", FALSE, FALSE)
  OBVIOUS
<1>7. Malloc(x, b) \in HeldFills(v)
  <2>1. b \in Buffers /\ b.use = "tiling"
    BY <1>6, NewBuffer DEF Uses
  <2>2. PICK y : y = [x EXCEPT !.bufs = Append(@, b)]
    OBVIOUS
  <2>3. y \in HeldFills(v)
    BY <1>4, <2>1, <2>2, OtherBuffer
  <2>4. Append(x.args, "tiling") \in Seq(Uses)
    <3>1. x.args \in Seq(Uses) /\ "tiling" \in Uses
      BY <1>4 DEF HeldFills, Fills, Uses
    <3> QED
      BY <3>1, AppendProperties
  <2>5. Malloc(x, b) = [y EXCEPT !.args = Append(x.args, "tiling")]
    BY <1>4, <2>1, <2>2 DEF Malloc, HeldFills, Fills
  <2> QED
    BY <2>3, <2>4, <2>5, ArgsHeld
<1>8. Stop(x, "raised") \in HeldFills(v)
  BY <1>4, StoppedHeld
<1> QED
  BY <1>4, <1>5, <1>6, <1>7, <1>8 DEF FillTiling

(* A runner between two launches.                                          *)
Between(r) == /\ r = [x \in DOMAIN Runner |-> r[x]]
              /\ r.bufs \in Seq(Buffers) /\ r.params \in Seq(Nat) /\ r.subs \in BOOLEAN
              /\ r.end \in {"ok", "raised", "crash"} /\ Held(r)

(* What is held depends on the buffers and on what to release only.        *)
LEMMA SameHeld ==
  ASSUME NEW r, Held(r), NEW x, x.bufs = r.bufs, x.params = r.params PROVE Held(x)
BY DEF Held

(* A launch releases the tiling data and nothing else.                     *)
LEMMA LaunchHeld ==
  ASSUME NEW r, Between(r), NEW d, NEW cfg, ListsOf(cfg), NEW mode,
         NEW x, x = ExecSingleCase(r, d, cfg, mode)
  PROVE  Between(x)
<1>1. CASE ~Goes(r)
  BY <1>1 DEF ExecSingleCase
<1>2. CASE Goes(r)
  <2>1. PICK e : e = [r EXCEPT !.args = <<>>]
    OBVIOUS
  <2>2. e \in HeldFills(r.ret)
    <3>1. /\ e.bufs = r.bufs /\ e.params = r.params /\ e.args = <<>> /\ e.subs = r.subs
          /\ e.ret = r.ret /\ e.end = r.end /\ e = [z \in DOMAIN Runner |-> e[z]]
      BY <2>1, RunnerFields DEF Between
    <3>2. e \in Fills(r.ret)
      <4>1. <<>> \in Seq(Uses)
        BY EmptySeq
      <4>2. e = [bufs |-> e.bufs, params |-> e.params, args |-> e.args, subs |-> e.subs,
                 ret |-> e.ret, end |-> e.end]
        BY <3>1, RunnerFields
      <4> HIDE <2>1
      <4> QED
        BY <3>1, <4>1, <4>2 DEF Fills, Between
    <3>3. Held(e)
      <4>1. Held(r) /\ e.bufs = r.bufs /\ e.params = r.params
        BY <3>1 DEF Between
      <4> QED
        BY <4>1, SameHeld
    <3> QED
      BY <3>2, <3>3 DEF HeldFills
  <2>3. PICK f : f = FilledCase(e, d, cfg, mode)
    OBVIOUS
  <2>4. f \in HeldFills(r.ret)
    BY <2>2, <2>3, FilledHeld
  <2>5. PICK g : g = Filled(r, f)
    OBVIOUS
  <2>6. Between(g)
    <3>1. /\ g.bufs = f.bufs /\ g.params = f.params /\ g.subs = f.subs /\ g.end = f.end
          /\ g = [z \in DOMAIN Runner |-> g[z]]
      BY <2>5, RunnerFields DEF Filled, Between
    <3> QED
      BY <2>4, <3>1 DEF Between, HeldFills, Fills, Held
  <2>7. x = LaunchCase(g, d, cfg, mode)
    BY <1>2, <2>1, <2>3, <2>5 DEF ExecSingleCase
  <2>8. PICK last, ret, ran :
          /\ ran = [g EXCEPT !.args = last, !.ret = ret]
          /\ x = g \/ x = Stop(g, "crash") \/ x = Free(ran, "tiling")
    BY <2>7 DEF LaunchCase
  <2>9. Between(Stop(g, "crash"))
    <3>1. PICK y : y = Stop(g, "crash")
      OBVIOUS
    <3>2. /\ y.bufs = g.bufs /\ y.params = g.params /\ y.subs = g.subs /\ y.end = "crash"
          /\ y = [z \in DOMAIN Runner |-> y[z]]
      BY <2>6, <3>1, RunnerFields DEF Stop, Between
    <3>3. Held(y)
      <4>1. Held(g) /\ y.bufs = g.bufs /\ y.params = g.params
        BY <2>6, <3>2 DEF Between
      <4> QED
        BY <4>1, SameHeld
    <3>4. Between(y)
      BY <2>6, <3>2, <3>3 DEF Between
    <3> QED
      BY <3>1, <3>4
  <2>10. ASSUME x = Free(ran, "tiling") PROVE Between(x)
    <3>1. /\ ran.bufs = g.bufs /\ ran.params = g.params /\ ran.subs = g.subs /\ ran.end = g.end
          /\ ran = [z \in DOMAIN Runner |-> ran[z]]
      BY <2>6, <2>8, RunnerFields DEF Between
    <3> DEFINE m == [i \in DOMAIN g.bufs |->
                       IF g.bufs[i].use = "tiling" /\ g.bufs[i].frees = 0
                       THEN [g.bufs[i] EXCEPT !.frees = 1] ELSE g.bufs[i]]
    <3>2. /\ x.bufs = m /\ x.params = g.params /\ x.subs = g.subs /\ x.end = g.end
          /\ x = [z \in DOMAIN Runner |-> x[z]]
      BY <2>10, <3>1, RunnerFields DEF Free
    <3>3. g.bufs \in Seq(Buffers) /\ Len(g.bufs) \in Nat /\ DOMAIN g.bufs = 1..Len(g.bufs)
      BY <2>6, LenProperties DEF Between
    <3>4. ASSUME NEW i \in 1..Len(g.bufs)
          PROVE  /\ m[i] \in Buffers /\ m[i].use = g.bufs[i].use
                 /\ m[i].use = "tensor" => m[i] = g.bufs[i]
      <4>1. g.bufs[i] \in Buffers
        BY <3>3
      <4> QED
        BY <3>3, <4>1 DEF Buffers
    <3>5. m \in Seq(Buffers) /\ Len(m) = Len(g.bufs)
      <4>1. m \in [1..Len(g.bufs) -> Buffers]
        BY <3>3, <3>4
      <4> HIDE DEF m
      <4> QED
        BY <3>3, <4>1, SeqDef, LenProperties
    <3> HIDE DEF m
    <3>6. Held(g)
      BY <2>6 DEF Between
    <3>7. Held(x)
      BY <3>2, <3>4, <3>5, <3>6 DEF Held
    <3> QED
      BY <2>6, <3>2, <3>5, <3>7 DEF Between
  <2> QED
    BY <2>6, <2>8, <2>9, <2>10
<1> QED
  BY <1>1, <1>2

(* What a list of tensors to release has come to after its first k.        *)
Released(k, r, bs) ==
  \A b \in 1..Len(r.bufs) :
    /\ bs[b].use = r.bufs[b].use
    /\ bs[b].use = "tensor" =>
         IF \E p \in 1..k : r.params[p] = b THEN ~bs[b].live /\ bs[b].frees = 1
         ELSE bs[b].live /\ bs[b].frees = 0

(* every tensor was given back, once *)
Freed(r) == \A b \in 1..Len(r.bufs) : r.bufs[b].use = "tensor" => r.bufs[b].frees = 1

(* Releasing a buffer gives a buffer of the same use.                      *)
LEMMA ReleasedBuffer ==
  ASSUME NEW b \in Buffers, NEW c, c = ReleaseDevice(b)
  PROVE  /\ c \in Buffers /\ c.use = b.use
         /\ b.live /\ b.frees = 0 => ~c.live /\ c.frees = 1
         /\ ~b.live => c = b
<1>1. CASE b.live
  <2>1. c = [b EXCEPT !.frees = b.frees + 1, !.live = FALSE]
    BY <1>1 DEF ReleaseDevice
  <2>2. /\ b = [use |-> b.use, origin |-> b.origin, guarded |-> b.guarded, live |-> b.live,
                frees |-> b.frees]
        /\ b.use \in Uses /\ b.origin \in BOOLEAN /\ b.guarded \in BOOLEAN /\ b.frees \in Nat
    BY DEF Buffers
  <2>3. c = [use |-> b.use, origin |-> b.origin, guarded |-> b.guarded, live |-> FALSE,
             frees |-> b.frees + 1]
    BY <2>1, <2>2
  <2>4. c.live = FALSE /\ c.frees = b.frees + 1 /\ c.use = b.use
    BY <2>3
  <2>5. c \in Buffers
    BY <2>2, <2>3 DEF Buffers
  <2> QED
    BY <1>1, <2>4, <2>5
<1>2. CASE ~b.live
  BY <1>2 DEF ReleaseDevice
<1> QED
  BY <1>1, <1>2

(* The next of the list is released, unless it already was.                *)
LEMMA ReleasedNext ==
  ASSUME NEW r, Between(r), NEW k \in 0..(Len(r.params) - 1),
         NEW bs \in [1..Len(r.bufs) -> Buffers], Released(k, r, bs),
         NEW cs, cs = [bs EXCEPT ![r.params[k + 1]] = ReleaseDevice(@)]
  PROVE  cs \in [1..Len(r.bufs) -> Buffers] /\ Released(k + 1, r, cs)
<1>1. PICK q : q = r.params[k + 1]
  OBVIOUS
<1>2. Len(r.params) \in Nat /\ k \in Nat /\ k + 1 \in 1..Len(r.params)
  <2>1. Len(r.params) \in Nat
    BY LenProperties DEF Between
  <2> QED
    BY <2>1
<1>3. q \in 1..Len(r.bufs)
  BY <1>1, <1>2 DEF Between, Held
<1>4. PICK c : c = ReleaseDevice(bs[q])
  OBVIOUS
<1>5. bs[q] \in Buffers
  BY <1>3
<1>6. /\ c \in Buffers /\ c.use = bs[q].use
      /\ bs[q].live /\ bs[q].frees = 0 => ~c.live /\ c.frees = 1
      /\ ~bs[q].live => c = bs[q]
  BY <1>4, <1>5, ReleasedBuffer
<1>7. cs = [bs EXCEPT ![q] = c]
  BY <1>1, <1>4
<1>8. /\ cs \in [1..Len(r.bufs) -> Buffers] /\ cs[q] = c
      /\ \A b \in 1..Len(r.bufs) : b # q => cs[b] = bs[b]
  BY <1>3, <1>6, <1>7
<1>9. ASSUME NEW b \in 1..Len(r.bufs)
      PROVE  /\ cs[b].use = r.bufs[b].use
             /\ cs[b].use = "tensor" =>
                  IF \E p \in 1..(k + 1) : r.params[p] = b THEN ~cs[b].live /\ cs[b].frees = 1
                  ELSE cs[b].live /\ cs[b].frees = 0
  <2>1. /\ bs[b].use = r.bufs[b].use
        /\ bs[b].use = "tensor" =>
             IF \E p \in 1..k : r.params[p] = b THEN ~bs[b].live /\ bs[b].frees = 1
             ELSE bs[b].live /\ bs[b].frees = 0
    BY DEF Released
  <2>2. CASE b = q
    <3>1. \E p \in 1..(k + 1) : r.params[p] = b
      BY <1>1, <1>2, <2>2
    <3> QED
      BY <1>6, <1>8, <2>1, <2>2, <3>1
  <2>3. CASE b # q
    <3>1. (\E p \in 1..(k + 1) : r.params[p] = b) <=> (\E p \in 1..k : r.params[p] = b)
      BY <1>1, <1>2, <2>3
    <3> QED
      BY <1>8, <2>1, <2>3, <3>1
  <2> QED
    BY <2>2, <2>3
<1> QED
  BY <1>8, <1>9 DEF Released

(* Leaving a runner gives every tensor back once, whatever is named twice. *)
LEMMA ExitFrees ==
  ASSUME NEW r, Between(r), NEW x, x = Exit(r)
  PROVE  Freed(x)
<1> DEFINE m == Len(r.bufs)
           n == Len(r.params)
           V == [1..m -> Buffers]
           Op(bs, p) == [bs EXCEPT ![p] = ReleaseDevice(@)]
           Rec(f) == f = [S \in SUBSET DOMAIN r.params |->
                            IF S = {} THEN r.bufs ELSE Op(f[S \ {Max(S)}], r.params[Max(S)])]
           G == [i \in 1..n |-> [bs \in V |-> Op(bs, r.params[i])]]
           h == CHOOSE f : Rec(f)
<1>0. /\ m \in Nat /\ n \in Nat /\ DOMAIN r.params = 1..n /\ r.bufs \in V
      /\ \A i \in 1..n : r.params[i] \in 1..m
  <2>1. r.bufs \in Seq(Buffers) /\ r.params \in Seq(Nat)
    BY DEF Between
  <2>2. m \in Nat /\ n \in Nat /\ DOMAIN r.params = 1..n /\ r.bufs \in V
    BY <2>1, LenProperties
  <2> QED
    BY <2>2 DEF Between, Held
<1>1. x.bufs = h[DOMAIN r.params]
  <2>1. PICK cs : cs = FoldLeft(LAMBDA bs, p : [bs EXCEPT ![p] = ReleaseDevice(@)], r.bufs, r.params)
    OBVIOUS
  <2>2. cs = h[DOMAIN r.params]
    BY <2>1 DEF FoldLeft, MapThenFoldSet
  <2>3. x = [r EXCEPT !.bufs = cs]
    BY <2>1 DEF Exit
  <2>4. x.bufs = cs
    BY <2>3, RunnerFields DEF Between
  <2> QED
    BY <2>2, <2>4
<1>2. ASSUME NEW bs \in V, NEW i \in 1..n PROVE Op(bs, r.params[i]) \in V
  <2>1. r.params[i] \in 1..m /\ bs[r.params[i]] \in Buffers
    BY <1>0
  <2>2. ReleaseDevice(bs[r.params[i]]) \in Buffers
    BY <2>1, ReleasedBuffer
  <2> QED
    BY <2>2
<1> HIDE DEF m, n, V, Op
<1>4. G \in [1..n -> [V -> V]]
  BY <1>2
<1>5. \A i \in 1..n, bs \in V : G[i][bs] = Op(bs, r.params[i])
  OBVIOUS
<1> HIDE DEF G
<1>6. Rec(h)
  <2>1. PICK f \in [SUBSET (1..n) -> V] : Unfolds(f, n, r.bufs, G)
    BY <1>0, <1>4, FoldExists
  <2>2. ASSUME NEW S \in SUBSET (1..n), S # {}
        PROVE  G[Max(S)][f[S \ {Max(S)}]] = Op(f[S \ {Max(S)}], r.params[Max(S)])
    <3>1. Max(S) \in 1..n /\ f[S \ {Max(S)}] \in V
      BY <1>0, <2>2, GreatestOf
    <3> QED
      BY <1>5, <3>1
  <2>3. Rec(f)
    BY <1>0, <2>1, <2>2 DEF Unfolds
  <2> HIDE DEF Rec
  <2> QED
    BY <2>3
<1> HIDE DEF h
<1> DEFINE P == {kb \in (0..n) \X V : Released(kb[1], r, kb[2])}
<1>7. <<0, h[{}]>> \in P
  <2>1. h[{}] = r.bufs
    <3>1. {} \in SUBSET DOMAIN r.params
      OBVIOUS
    <3> QED
      BY <1>6, <3>1
  <2>2. Released(0, r, r.bufs)
    <3>1. 1..0 = {}
      OBVIOUS
    <3> QED
      BY <3>1 DEF Released, Between, Held
  <2> QED
    BY <1>0, <2>1, <2>2
<1>8. ASSUME NEW k \in 0..(n - 1), <<k, h[1..k]>> \in P PROVE <<k + 1, h[1..(k + 1)]>> \in P
  <2>1. PICK S : S = 1..(k + 1)
    OBVIOUS
  <2>2. S \in SUBSET (1..n) /\ S # {} /\ Max(S) = k + 1 /\ S \ {k + 1} = 1..k /\ k + 1 \in 1..n
    BY <1>0, <2>1, NextPosition, Zenon
  <2>3. h[1..k] \in V /\ Released(k, r, h[1..k])
    BY <1>8
  <2>4. h[S] = Op(h[1..k], r.params[k + 1])
    BY <1>0, <1>6, <2>2
  <2>5. h[S] \in V /\ Released(k + 1, r, h[S])
    <3>1. PICK bs : bs = h[1..k]
      OBVIOUS
    <3>2. PICK cs : cs = h[S]
      OBVIOUS
    <3>3. bs \in [1..Len(r.bufs) -> Buffers] /\ Released(k, r, bs)
      BY <2>3, <3>1 DEF V, m
    <3>4. cs = [bs EXCEPT ![r.params[k + 1]] = ReleaseDevice(@)]
      BY <2>4, <3>1, <3>2 DEF Op
    <3>5. k \in 0..(Len(r.params) - 1)
      BY DEF n
    <3>6. cs \in [1..Len(r.bufs) -> Buffers] /\ Released(k + 1, r, cs)
      BY <3>3, <3>4, <3>5, ReleasedNext
    <3> QED
      BY <3>2, <3>6 DEF V, m
  <2>6. k + 1 \in 0..n
    BY <1>0
  <2> QED
    BY <2>1, <2>5, <2>6
<1>9. <<n, h[1..n]>> \in P
  <2> HIDE DEF P
  <2> QED
    BY <1>0, <1>7, <1>8, FoldEnds
<1>10. x.bufs \in V /\ Released(n, r, x.bufs)
  BY <1>0, <1>1, <1>9
<1>11. Len(x.bufs) = m
  <2>1. x.bufs \in Seq(Buffers)
    BY <1>0, <1>10, SeqDef DEF V
  <2>2. DOMAIN x.bufs = 1..m
    BY <1>10 DEF V
  <2> QED
    BY <1>0, <2>1, <2>2, LenProperties
<1>12. ASSUME NEW b \in 1..m, x.bufs[b].use = "tensor" PROVE x.bufs[b].frees = 1
  <2>1. r.bufs[b].use = "tensor"
    BY <1>10, <1>12 DEF Released, m
  <2>2. \E p \in 1..n : r.params[p] = b
    BY <2>1 DEF Between, Held, m, n
  <2> QED
    BY <1>10, <1>12, <2>2 DEF Released, m
<1> QED
  BY <1>11, <1>12 DEF Freed

(* A runner without buffers has nothing to give back.                      *)
LEMMA NewRunner == Between(Runner) /\ Freed(Runner)
<1>1. Runner.bufs = <<>> /\ Runner.params = <<>> /\ Len(<<>>) = 0 /\ 1..0 = {}
  BY EmptySeq DEF Runner
<1>2. <<>> \in Seq(Buffers) /\ <<>> \in Seq(Nat)
  BY EmptySeq
<1>3. Held(Runner)
  BY <1>1 DEF Held
<1>4. Runner = [x \in DOMAIN Runner |-> Runner[x]] /\ Runner.subs \in BOOLEAN /\ Runner.end = "ok"
  BY DEF Runner
<1> QED
  BY <1>1, <1>2, <1>3, <1>4 DEF Between, Freed

(* Two launches, by whatever way they end, give everything back.           *)
LEMMA RunFrees ==
  ASSUME NEW d, NEW cfg, ListsOf(cfg), NEW x, x = RunBoth(d, cfg) PROVE Freed(x)
<1>1. PICK a : a = ExecSingleCase(Runner, d, cfg, "tail")
  OBVIOUS
<1>2. PICK b : b = ExecSingleCase(a, d, cfg, "magic")
  OBVIOUS
<1>3. Between(a)
  BY <1>1, NewRunner, LaunchHeld
<1>4. Between(b)
  BY <1>2, <1>3, LaunchHeld
<1> QED
  BY <1>1, <1>2, <1>4, ExitFrees DEF RunBoth

-----------------------------------------------------------------------------
(* The rerun in the analysis                                               *)

(* of what is known of the error, what a rerun is given: nothing ever sets  *)
(* the sizes of the inputs and the outputs                                 *)
Given(i) == /\ i = [x \in DOMAIN i |-> i[x]]
            /\ {"bins", "json", "inputs", "outputs"} \subseteq DOMAIN i
            /\ i.inputs = <<>> /\ i.outputs = <<>>

(* what the dump and the compiled files gave is a list of tensors, and a    *)
(* description among the described                                         *)
DumpListed == IsList(info.bins) /\ (info.json # None => info.json.name \in DOMAIN JsonOf)

(* no case is run before the rerun *)
NoCaseYet == pc \notin {"single_case"} \cup Later => cases = <<>>
FreeInv == Given(info) /\ NoCaseYet /\ (DumpListed => TensorsFreedOnce)

(* A sequence is a list.                                                   *)
LEMMA SeqIsList == ASSUME NEW S, NEW q \in Seq(S) PROVE IsList(q)
<1>1. Len(q) \in Nat /\ DOMAIN q = 1..Len(q) /\ q \in [1..Len(q) -> S]
  BY LenProperties
<1> DEFINE V == {q[i] : i \in DOMAIN q}
<1>2. q \in [1..Len(q) -> V]
  BY <1>1
<1> HIDE DEF V
<1>3. q \in Seq(V)
  BY <1>1, <1>2, SeqDef
<1> QED
  BY <1>3 DEF IsList, V

(* Another field of what is known.                                         *)
LEMMA FieldGiven ==
  ASSUME NEW i, Given(i), NEW f, f \notin {"inputs", "outputs"}, NEW v, NEW j, j = [i EXCEPT ![f] = v]
  PROVE  Given(j) /\ (f \notin {"bins", "json"} => j.bins = i.bins /\ j.json = i.json)
BY DEF Given

(* A case with what is known of the error.                                 *)
LEMMA CaseFrees ==
  ASSUME NEW i, Given(i), IsList(i.bins), i.json # None => i.json.name \in DOMAIN JsonOf,
         NEW t, NEW d, NEW test, NEW c, c = TestSingleOp(t, d, i, test)
  PROVE  Freed(c.r)
<1>1. PICK cfg : cfg = GenerateConfig(i, test)
  OBVIOUS
<1>2. /\ cfg.bins = i.bins /\ cfg.json = i.json
      /\ cfg.inputs = <<>> /\ cfg.outputs = <<>>
  BY <1>1 DEF GenerateConfig, Given
<1>3. c.r = Runner \/ (cfg.json # None /\ c.r = RunBoth(d, cfg))
  BY <1>1 DEF TestSingleOp, RunCase, CaseFailed, CaseRan
<1>4. ASSUME cfg.json # None PROVE ListsOf(cfg)
  <2>1. JsonOf[cfg.json.name].workspaces \in Seq(Nat)
    BY <1>2, <1>4, JsonAssumption
  <2>2. IsList(<<>>)
    BY EmptySeq, SeqIsList
  <2> QED
    BY <1>2, <2>1, <2>2, SeqIsList DEF ListsOf
<1> QED
  BY <1>3, <1>4, NewRunner, RunFrees

(* The operator that must run everywhere.                                  *)
LEMMA EnvFrees ==
  ASSUME NEW d, NEW chip, NEW r, r = RunTestEnv(d, chip) PROVE Freed(r.runner)
<1>1. ListsOf(GoldenConfig)
  <2>1. /\ GoldenConfig.bins = <<>> /\ GoldenConfig.inputs = <<1, 1>> /\ GoldenConfig.outputs = <<1>>
        /\ GoldenConfig.json.name = "golden"
    BY DEF GoldenConfig, GoldenFile
  <2>2. <<>> \in Seq(Nat) /\ <<1, 1>> \in Seq(Nat) /\ <<1>> \in Seq(Nat)
    OBVIOUS
  <2>3. JsonOf["golden"].workspaces \in Seq(Nat)
    BY JsonAssumption
  <2>4. IsList(<<>>) /\ IsList(<<1, 1>>) /\ IsList(<<1>>) /\ IsList(JsonOf["golden"].workspaces)
    BY <2>2, <2>3, SeqIsList
  <2> QED
    BY <2>1, <2>4 DEF ListsOf
<1>2. r.runner = RunBoth(d, GoldenConfig) \/ r.runner = Runner
  BY DEF RunTestEnv, EnvResult
<1> QED
  BY <1>1, <1>2, NewRunner, RunFrees

(* A case more that has given everything back.                             *)
LEMMA FreedAdded ==
  ASSUME Listed, TensorsFreedOnce, NEW c, cases' = Append(cases, c), Freed(c.r)
  PROVE  TensorsFreedOnce'
<1>1. /\ Listed' /\ Len(cases) \in Nat
      /\ DOMAIN cases = 1..Len(cases) /\ DOMAIN cases' = 1..(Len(cases) + 1)
      /\ \A n \in DOMAIN cases : cases'[n] = cases[n]
      /\ cases'[Len(cases) + 1] = c
  BY CaseAdded
<1>2. \A n \in 1..Len(cases) : Freed(cases[n].r)
  BY DEF TensorsFreedOnce, Freed
<1>3. 1..Len(cases') = 1..(Len(cases) + 1)
  BY <1>1, LenProperties DEF Listed
<1>4. ASSUME NEW n \in 1..Len(cases') PROVE Freed(cases'[n].r)
  <2>1. n \in 1..Len(cases) \/ n = Len(cases) + 1
    BY <1>1, <1>3
  <2> QED
    BY <1>1, <1>2, <2>1
<1> QED
  BY <1>4 DEF TensorsFreedOnce, Freed

(* A step before any case.                                                 *)
LEMMA BeforeCases ==
  ASSUME FreeInv, Given(info'), cases' = cases, pc \notin {"single_case"} \cup Later
  PROVE  FreeInv'
<1>1. cases' = <<>>
  BY DEF FreeInv, NoCaseYet
<1>2. Len(<<>>) = 0 /\ 1..0 = {}
  BY EmptySeq
<1>3. TensorsFreedOnce'
  BY <1>1, <1>2 DEF TensorsFreedOnce
<1> QED
  BY <1>1, <1>3 DEF FreeInv, NoCaseYet

(* A step that leaves alone what a rerun is given, and adds a case at most. *)
LEMMA AmongCases ==
  ASSUME Inv, FreeInv, Given(info'), (info.bins)' = info.bins, (info.json)' = info.json,
         pc' \in {"single_case"} \cup Later,
         \/ cases' = cases
         \/ \E c : cases' = Append(cases, c) /\ (DumpListed => Freed(c.r))
  PROVE  FreeInv'
<1>1. NoCaseYet'
  BY DEF NoCaseYet
<1>2. ASSUME DumpListed' PROVE TensorsFreedOnce'
  <2>1. DumpListed /\ TensorsFreedOnce
    BY <1>2 DEF DumpListed, FreeInv
  <2>2. CASE cases' = cases
    BY <2>1, <2>2 DEF TensorsFreedOnce
  <2>3. CASE \E c : cases' = Append(cases, c) /\ (DumpListed => Freed(c.r))
    BY <2>1, <2>3, FreedAdded DEF Inv, Grounds
  <2> QED
    BY <2>2, <2>3
<1> QED
  BY <1>1, <1>2 DEF FreeInv

(* Before the first step a rerun is given nothing.                         *)
LEMMA NothingGiven == Given(NoInfo)
<1>1. NoInfo = [x \in DOMAIN NoInfo |-> NoInfo[x]]
  BY DEF NoInfo
<1>2. "bins" \in DOMAIN NoInfo /\ "json" \in DOMAIN NoInfo
  BY DEF NoInfo
<1>3. "inputs" \in DOMAIN NoInfo /\ "outputs" \in DOMAIN NoInfo
  BY DEF NoInfo
<1>4. NoInfo["inputs"] = <<>> /\ NoInfo["outputs"] = <<>>
  BY DEF NoInfo
<1> QED
  BY <1>1, <1>2, <1>3, <1>4 DEF Given

(* What is found out about the error.                                      *)
LEMMA FindGiven == ASSUME FreeInv, ParseStarts \/ GetOpInfo \/ SetInfo PROVE Given(info')
<1>1. \/ info' = info
      \/ info' = GroupRecords(coll, FindRecord(coll))
      \/ info' = CorrectAll(coll, FindKernel(coll, info, s.tools.cores), s.tools.symbols)
  BY DEF ParseStarts, GetOpInfo, SetInfo
<1>2. Given(info)
  BY DEF FreeInv
<1>3. CASE info' = GroupRecords(coll, FindRecord(coll))
  <2>1. PICK i, j : i = FindRecord(coll) /\ j = GroupRecords(coll, i) /\ info' = j
    BY <1>3
  <2>2. i = NoInfo \/ \E r, d, q, p : i = [NoInfo EXCEPT !.none = FALSE, !.rec = r, !.data = d,
                                                          !.second = q, !.chip = p]
    BY <2>1 DEF FindRecord, RecordOfTask, FoundRecord
  <2>3. Given(i)
    BY <2>2, NothingGiven DEF Given
  <2>4. \E r, q : j = [i EXCEPT !.rec = r, !.groups = q]
    BY <2>1 DEF GroupRecords
  <2>5. Given(j)
    BY <2>3, <2>4 DEF Given
  <2> QED
    BY <2>1, <2>5
<1>4. CASE info' = CorrectAll(coll, FindKernel(coll, info, s.tools.cores), s.tools.symbols)
  <2>1. PICK k, j : /\ k = FindKernel(coll, info, s.tools.cores)
                    /\ j = CorrectAll(coll, k, s.tools.symbols) /\ info' = j
    BY <1>4
  <2>2. k = info \/ \E e, t, f, n : k = KnownKernel(coll, info, e, t, f, n)
    BY <2>1 DEF FindKernel
  <2>3. Given(k)
    BY <1>2, <2>2 DEF KnownKernel, Given
  <2>4. PICK g, rec, pc0, ob : j = Corrected(coll, [k EXCEPT !.groups = g], rec, pc0, ob, s.tools.symbols)
    BY <2>1 DEF CorrectAll, CorrectRecord
  <2>5. \E p, q : j = [[k EXCEPT !.groups = g] EXCEPT !.pc = p, !.src = q]
    BY <2>4 DEF Corrected
  <2>6. Given(j)
    BY <2>3, <2>5 DEF Given
  <2> QED
    BY <2>1, <2>6
<1> QED
  BY <1>1, <1>2, <1>3, <1>4

(* Steps 2 to 8 of the analysis.                                           *)
LEMMA AnalysisGiven ==
  ASSUME FreeInv,
         \/ GetGraph \/ CompareArgs \/ Decompile \/ CheckAtomic \/ ParseDump \/ WriteTiling
         \/ SubPointers
  PROVE  Given(info')
<1>0. Given(info)
  BY DEF FreeInv
<1>1. CASE GetGraph
  <2>1. \E v : info' = [info EXCEPT !.graph = v]
    BY <1>1 DEF GetGraph
  <2> QED
    BY <1>0, <2>1 DEF Given
<1>2. CASE CompareArgs
  <2>1. \E p, q, io, ok, m :
          info' = [info EXCEPT !.before = p, !.after = q, !.io = io, !.argsOk = ok, !.marks = m]
    BY <1>2 DEF CompareArgs
  <2> QED
    BY <1>0, <2>1 DEF Given
<1>3. CASE Decompile
  <2>1. \E p, q, f : info' = [info EXCEPT !.decompiled = p, !.line = q, !.flag = f]
    BY <1>3 DEF Decompile
  <2> QED
    BY <1>0, <2>1 DEF Given
<1>4. CASE CheckAtomic
  <2>1. \E p, q : info' = [info EXCEPT !.cleanOk = p, !.atomicAdd = q]
    BY <1>4 DEF CheckAtomic
  <2> QED
    BY <1>0, <2>1 DEF Given
<1>5. CASE ParseDump
  <2> DEFINE Read(p, ok, f) == [info EXCEPT !.dumpOk = ok, !.invalid = p.invalid, !.meta = p.meta,
                                            !.tiling = p.tiling, !.ffts = f]
             Kept(r, p) == [r EXCEPT !.bins = p.bins, !.spaces = p.spaces, !.dumpFiles = p.files]
             Ffts(p, ok) == IF coll.level = 1 THEN FftsAddrs(coll.plog)
                            ELSE IF ok THEN p.dfx.ffts ELSE 0
  <2>1. PICK p : info' = IF DumpResult(p)
                         THEN Kept(Read(p, DumpResult(p), Ffts(p, DumpResult(p))), p)
                         ELSE Read(p, DumpResult(p), Ffts(p, DumpResult(p)))
    BY <1>5 DEF ParseDump
  <2>2. PICK r, ok, f : r = Read(p, ok, f) /\ (info' = r \/ info' = Kept(r, p))
    BY <2>1
  <2>3. Given(r)
    BY <1>0, <2>2 DEF Given
  <2>4. PICK j : info' = j /\ (j = r \/ j = Kept(r, p))
    BY <2>2
  <2>5. Given(j)
    BY <2>3, <2>4 DEF Given
  <2> QED
    BY <2>4, <2>5
<1>6. CASE WriteTiling
  <2>1. \E v : info' = [info EXCEPT !.tiling = v]
    BY <1>6 DEF WriteTiling
  <2> QED
    BY <1>0, <2>1 DEF Given
<1>7. CASE SubPointers
  <2>1. info' = info \/ \E v : info' = [info EXCEPT !.sub = v]
    BY <1>7 DEF SubPointers
  <2> QED
    BY <1>0, <2>1 DEF Given
<1> QED
  BY <1>1, <1>2, <1>3, <1>4, <1>5, <1>6, <1>7

(* Nothing is held when nothing has begun.                                 *)
LEMMA InitFree == Init => FreeInv
<1> SUFFICES ASSUME Init PROVE FreeInv
  OBVIOUS
<1>1. Given(info)
  BY NothingGiven DEF Init
<1>2. cases = <<>> /\ Len(<<>>) = 0 /\ 1..0 = {}
  BY EmptySeq DEF Init
<1> QED
  BY <1>1, <1>2 DEF FreeInv, NoCaseYet, TensorsFreedOnce

(* The cases of the rerun give everything back.                            *)
LEMMA CasesFree ==
  ASSUME Inv, FreeInv, RunHostCase \/ RunSingleCase \/ RunErrorCase \/ RemoveTemp PROVE FreeInv'
<1>0. Given(info)
  BY DEF FreeInv
<1>1. CASE RunHostCase
  <2>1. PICK i, t, test :
          /\ i = [info EXCEPT !.bin = HostObject(coll, info.kernel)]
          /\ t = TestSingleOp(temp, s.dev[test], i, test)
          /\ cases' = cases \/ cases' = Add(t, test)
    BY <1>1 DEF RunHostCase, Case
  <2>2. Given(i) /\ i.bins = info.bins /\ i.json = info.json
    BY <1>0, <2>1 DEF Given
  <2>3. DumpListed => Freed(t.r)
    BY <2>1, <2>2, CaseFrees DEF DumpListed
  <2>4. cases' = cases \/ \E c : cases' = Append(cases, c) /\ c.r = t.r
    BY <2>1 DEF Add
  <2>5. info' = info /\ pc' \in {"single_case"} \cup Later
    BY <1>1 DEF RunHostCase, Step, Later
  <2> QED
    BY <1>0, <2>3, <2>4, <2>5, AmongCases
<1>2. CASE RunSingleCase
  <2>1. PICK t : /\ t = TestSingleOp(temp, s.dev["single_op"], info, "single_op")
                 /\ \/ info' = info /\ cases' = cases
                    \/ /\ \E v : info' = [info EXCEPT !.attempted = TRUE, !.single = v]
                       /\ cases' = Add(t, "single_op")
    BY <1>2 DEF RunSingleCase, Case
  <2>2. DumpListed => Freed(t.r)
    BY <1>0, <2>1, CaseFrees DEF DumpListed
  <2>3. cases' = cases \/ \E c : cases' = Append(cases, c) /\ c.r = t.r
    <3>1. cases' = cases \/ cases' = Add(t, "single_op")
      BY <2>1
    <3> QED
      BY <3>1 DEF Add
  <2>4. Given(info') /\ (info.bins)' = info.bins /\ (info.json)' = info.json
    BY <1>0, <2>1 DEF Given
  <2>5. pc' \in {"single_case"} \cup Later
    BY <1>2 DEF RunSingleCase, Step, Later
  <2> QED
    BY <2>2, <2>3, <2>4, <2>5, AmongCases
<1>3. CASE RunErrorCase
  <2>1. PICK t : /\ t = TestSingleOp(temp, s.dev["error_single_op"], info, "error_single_op")
                 /\ cases' = Add(t, "error_single_op")
    BY <1>3 DEF RunErrorCase, Case
  <2>2. DumpListed => Freed(t.r)
    BY <1>0, <2>1, CaseFrees DEF DumpListed
  <2>3. \E c : cases' = Append(cases, c) /\ c.r = t.r
    BY <2>1 DEF Add
  <2>4. info' = info /\ pc' \in {"single_case"} \cup Later
    BY <1>3 DEF RunErrorCase, Step, Later
  <2> QED
    BY <1>0, <2>2, <2>3, <2>4, AmongCases
<1>4. CASE RemoveTemp
  <2>1. info' = info /\ cases' = cases /\ pc' \in {"single_case"} \cup Later
    BY <1>4 DEF RemoveTemp, Step, Later
  <2> QED
    BY <1>0, <2>1, AmongCases
<1> QED
  BY <1>1, <1>2, <1>3, <1>4

(* So do the checks of the environment.                                    *)
LEMMA EnvironmentFree == ASSUME Inv, FreeInv, TestEnv \/ CheckEnv PROVE FreeInv'
<1>0. Given(info)
  BY DEF FreeInv
<1>1. CASE TestEnv
  <2>1. PICK r : /\ Freed(r.runner)
                 /\ \/ cases' = cases
                    \/ cases' = <<[test |-> "golden", ret |-> "NOT_RUN", exit |-> 0, r |-> r.runner]>>
    BY <1>1, EnvFrees DEF TestEnv
  <2>2. info' = info /\ pc = "test_env" /\ pc' = "ended"
    BY <1>1 DEF TestEnv, Finish, Step
  <2>3. CASE cases' = cases
    BY <1>0, <2>2, <2>3, BeforeCases DEF Later
  <2>4. CASE cases' # cases
    <3>1. PICK c : cases' = <<c>> /\ c.r = r.runner
      BY <2>1, <2>4
    <3>2. \A n \in 1..Len(cases') : cases'[n] = c
      BY <3>1
    <3>3. TensorsFreedOnce'
      BY <2>1, <3>1, <3>2 DEF TensorsFreedOnce, Freed
    <3> QED
      BY <1>0, <2>2, <3>3 DEF FreeInv, NoCaseYet, Later
  <2> QED
    BY <2>3, <2>4
<1>2. CASE CheckEnv
  <2>1. PICK r : /\ Freed(r.runner)
                 /\ \/ info' = info /\ cases' = cases
                    \/ /\ \E v : info' = [info EXCEPT !.env = v, !.envTried = TRUE]
                       /\ cases' = Append(cases, [test |-> "golden", ret |-> "NOT_RUN", exit |-> 0,
                                                  r |-> r.runner])
    BY <1>2, EnvFrees DEF CheckEnv
  <2>2. cases' = cases \/ \E c : cases' = Append(cases, c) /\ c.r = r.runner
    <3>1. PICK c : c = [test |-> "golden", ret |-> "NOT_RUN", exit |-> 0, r |-> r.runner]
      OBVIOUS
    <3>2. c.r = r.runner
      BY <3>1
    <3>3. cases' = cases \/ cases' = Append(cases, c)
      BY <2>1, <3>1
    <3> QED
      BY <3>2, <3>3
  <2>3. Given(info') /\ (info.bins)' = info.bins /\ (info.json)' = info.json
    BY <1>0, <2>1 DEF Given
  <2>4. pc' \in {"single_case"} \cup Later
    BY <1>2 DEF CheckEnv, Step, Later
  <2> QED
    BY <2>1, <2>2, <2>3, <2>4, AmongCases
<1> QED
  BY <1>1, <1>2

(* Every step preserves it.                                                *)
LEMMA StepFree == Inv /\ FreeInv /\ [Next]_vars => FreeInv'
<1> SUFFICES ASSUME Inv, FreeInv, [Next]_vars PROVE FreeInv'
  OBVIOUS
<1>0. Given(info)
  BY DEF FreeInv
<1>1. CASE Ended \/ UNCHANGED vars
  <2>1. info' = info /\ cases' = cases /\ pc' = pc
    BY <1>1 DEF Ended, vars
  <2> QED
    BY <1>0, <2>1 DEF FreeInv, NoCaseYet, DumpListed, TensorsFreedOnce
<1>2. CASE MainRefuses \/ MainDispatches \/ ConvertDumpData \/ ReportPathRefused \/ CollectLogs
           \/ CollectChooses \/ CollectFiles \/ EmptyReport
  <2>1. UNCHANGED <<info, cases>> /\ pc \in {"main", "convert", "report_path", "choose", "collect", "empty"}
    BY <1>2 DEF MainRefuses, MainDispatches, ConvertDumpData, ReportPathRefused, CollectLogs,
                CollectChooses, CollectFiles, EmptyReport, Finish, Step
  <2> QED
    BY <1>0, <2>1, BeforeCases DEF Later
<1>3. CASE ParseStarts \/ GetOpInfo \/ SetInfo
  <2>1. cases' = cases /\ pc \in {"parse", "op_info", "set_info"}
    BY <1>3 DEF ParseStarts, GetOpInfo, SetInfo, Finish, Step
  <2> QED
    BY <1>3, <2>1, FindGiven, BeforeCases DEF Later
<1>4. CASE GetGraph \/ CompareArgs \/ Decompile \/ CheckAtomic \/ ParseDump \/ WriteTiling
           \/ SubPointers
  <2>1. /\ cases' = cases
        /\ pc \in {"graph", "args", "decompile", "atomic", "dump", "tiling", "sub_ptr"}
    BY <1>4 DEF GetGraph, CompareArgs, Decompile, CheckAtomic, ParseDump, WriteTiling, SubPointers,
                Step, Finish
  <2> QED
    BY <1>4, <2>1, AnalysisGiven, BeforeCases DEF Later
<1>5. CASE RunHostCase \/ RunSingleCase \/ RunErrorCase \/ RemoveTemp
  BY <1>5, CasesFree
<1>6. CASE TestEnv \/ CheckEnv
  BY <1>6, EnvironmentFree
<1>7. CASE WriteReports
  <2>1. info' = info /\ cases' = cases /\ pc' \in {"single_case"} \cup Later
    BY <1>7 DEF WriteReports, Finish, Step, Later
  <2> QED
    BY <1>0, <2>1, AmongCases
<1> QED
  BY <1>1, <1>2, <1>3, <1>4, <1>5, <1>6, <1>7 DEF Next

(* Whatever the device, the dump and the logs answer on the way, every      *)
(* tensor a runner has put on the device is given back once: where a test   *)
(* case stops, which pointer tensors there are and how often an output is   *)
(* named make no difference. The hypothesis says that the tensors of the    *)
(* dump are a sequence, which they are by what SelectSeq gives, and that    *)
(* the description of the kernel is one of those there are.                 *)
THEOREM AnalysisTensorsFreedOnce == Spec => [](DumpListed => TensorsFreedOnce)
<1>1. Inv /\ FreeInv /\ [Next]_vars => FreeInv'
  BY StepFree
<1>2. FreeInv => (DumpListed => TensorsFreedOnce)
  BY DEF FreeInv
<1> QED
  BY <1>1, <1>2, InitFree, AnalysisInvariant, PTL DEF Spec
=============================================================================
