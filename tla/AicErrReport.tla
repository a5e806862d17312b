---------------------------- MODULE AicErrReport ----------------------------
(* What the analysis of msaicerr concludes: the arguments of the kernel before  *)
(* and after, the branch of the conclusion, the exit code, and the two reports, *)
(* a text for people and a JSON file for programs, built from the same record.  *)
(* The record a extends that of AicErrInfo by what the later steps have found.  *)
EXTENDS AicErrOp

CONSTANTS
  OverflowCode,   \* the error code 0x800000
  Described       \* the error codes whose bits are all in the table of descriptions

NotCollected == "not_collected"

-----------------------------------------------------------------------------
(* Step 4: the arguments                                                     *)

(* _get_args_from_info: each distinct list once, one after the other.          *)
ArgsFromInfo(logs, k) ==
  FoldLeft(LAMBDA s, v : s \o v, <<>>,
           FoldLeft(LAMBDA seen, l : IF l.vals \in ToSet(seen) THEN seen ELSE Append(seen, l.vals),
                    <<>>, Grep(logs, k)))

(* _check_args: the first argument afterwards must be among those before.      *)
CheckArgs(before, after) ==
  \/ \A i \in 1..Len(before) : before[i] = 0
  \/ after # <<>> /\ after[1] \in ToSet(before)

(* _get_args_type_marks, _refine_normal_marks: an argument is numbered from 0; *)
(* the description of the kernel tells the inputs from the outputs.            *)
TypeMarks(logs) ==
  FoldLeft(LAMBDA m, l : (l.index :> l.what) @@ m, <<>>, Grep(logs, "load"))
IoOf(json) == IF json = None THEN <<>> ELSE JsonOf[json.name].io
IoType(io, i) ==
  IF io = <<>> THEN "other"
  ELSE IF i < io[1] THEN "input"
  ELSE IF i < io[1] + io[2] THEN "output"
  ELSE "other"
Refined(marks, io) ==
  [i \in DOMAIN marks |-> IF marks[i] = "normal" THEN IoType(io, i) ELSE marks[i]]

(* get_ffts_addrs_num and check_dump_result                                    *)
FftsAddrs(logs) ==
  LET ls == SelectSeq(Grep(logs, "load"), LAMBDA l : l.what = "normal")
  IN IF ls = <<>> THEN 0 ELSE ls[1].index

-----------------------------------------------------------------------------
(* Step 11: the conclusion and the exit code, two ladders over one record    *)

ConclusionBranch(a) ==
  IF ~a.cleanOk THEN "atomic_clean_missing"
  ELSE IF a.flag THEN "flag_mismatch"
  ELSE IF a.rtsBlockDim # -1 /\ a.cores # -1 /\ a.rtsBlockDim > 2 * a.cores
       THEN "core_num_insufficient"
  ELSE IF ~a.none /\ a.rec.cur = Zero THEN "pc_zero"
  ELSE IF a.atomicAdd THEN "atomic_overflow"
  ELSE IF a.invalid THEN "data_invalid"
  ELSE IF a.single = "FAILED" THEN "single_op_reproduced"
  ELSE IF ~a.argsOk THEN "args_mismatch"
  ELSE IF ~a.dumpOk THEN "addr_invalid"
  ELSE IF ~a.env THEN "env_error"
  ELSE IF a.attempted /\ a.single = "NOT_RUN" THEN "single_op_not_run"
  ELSE IF a.single = "SUCCESS" THEN "single_op_not_reproduced"
  ELSE ""

ReturnCode_NotRunPasses(a) ==
  IF ~a.cleanOk THEN "FRAMEWORK_MEMSET_MISSING"
  ELSE IF a.atomicAdd THEN "ATOMIC_OPERATOR_OVERFLOW"
  ELSE IF a.invalid THEN "OPERATOR_INPUT_DATA_ERR"
  ELSE IF ~a.argsOk THEN "OPERATOR_ARGS_OVERWRITTEN"
  ELSE IF ~a.dumpOk THEN "MEMORY_ALLOCATION_ERR"
  ELSE IF a.single = "FAILED" THEN "SINGLE_OP_ERR"
  ELSE IF ~a.env THEN "HARDWARE_ERR"
  ELSE "NONE_ERROR"
ReturnCode(a) ==
  IF ~a.cleanOk THEN "FRAMEWORK_MEMSET_MISSING"
  ELSE IF a.atomicAdd THEN "ATOMIC_OPERATOR_OVERFLOW"
  ELSE IF a.invalid THEN "OPERATOR_INPUT_DATA_ERR"
  ELSE IF ~a.argsOk THEN "OPERATOR_ARGS_OVERWRITTEN"
  ELSE IF ~a.dumpOk THEN "MEMORY_ALLOCATION_ERR"
  ELSE IF a.single # "SUCCESS" THEN "SINGLE_OP_ERR"
  ELSE IF ~a.env THEN "HARDWARE_ERR"
  ELSE "NONE_ERROR"

-----------------------------------------------------------------------------
(* info.txt: one block per error code, written by putting the group's record   *)
(* in the place of the analysis' own and taking it out again.                  *)

GroupPc_Inherited(a) ==
  FoldLeft(LAMBDA x, g :
             LET y == [x EXCEPT !.rec = g.first, !.pc = IF g.pc.none THEN @ ELSE g.pc]
             IN [x EXCEPT !.out = Append(@, [code |-> g.code, core |-> y.rec.core,
                                             ctype |-> y.rec.ctype, aic |-> g.aic, aiv |-> g.aiv,
                                             pc |-> y.pc])],
           [rec |-> a.rec, pc |-> a.pc, out |-> <<>>], a.groups).out
GroupPc(a) ==
  FoldLeft(LAMBDA x, g :
             LET y == [x EXCEPT !.rec = g.first, !.pc = g.pc]
             IN [x EXCEPT !.out = Append(@, [code |-> g.code, core |-> y.rec.core,
                                             ctype |-> y.rec.ctype, aic |-> g.aic, aiv |-> g.aiv,
                                             pc |-> y.pc])],
           [rec |-> a.rec, pc |-> a.pc, out |-> <<>>], a.groups).out
InfoText(a) ==
  [branch |-> ConclusionBranch(a), groups |-> GroupPc(a), dumped |-> a.dumpOk, single |-> a.single]

-----------------------------------------------------------------------------
(* info.json                                                                 *)

(* _match_tensor_meta: a tensor of the dump by the number of its argument; then *)
(* an output by its number within the outputs, a workspace by its place.       *)
FirstMeta(metas, P(_)) == LET hit == SelectSeq(metas, P) IN IF hit = <<>> THEN <<>> ELSE <<hit[1]>>
OfKind(a, kind) == SelectSeq(a.meta, LAMBDA m : m.kind = kind)
SpaceArgs(a) == {i \in DOMAIN a.marks : a.marks[i] = "workspace"}
PlaceOf(i, S) == Cardinality({j \in S : j < i})
MatchTensorMeta(a, type, i) ==
  LET kind == IF type = "workspace" THEN "space" ELSE type
      exact == FirstMeta(OfKind(a, kind), LAMBDA m : m.arg = i)
      printed == {j \in SpaceArgs(a) : j < Len(a.after)}
      spaces == OfKind(a, "space")
      place == PlaceOf(i, printed)
  IN IF exact # <<>> THEN exact
     ELSE IF type = "output" /\ a.io # <<>>
     THEN FirstMeta(OfKind(a, "output"), LAMBDA m : m.arg = i - a.io[1])
     ELSE IF /\ type = "workspace"
             /\ i \in printed
             /\ place < Len(spaces)
             /\ spaces[place + 1].arg = place
     THEN <<spaces[place + 1]>>
     ELSE <<>>

ArgType(a, vals, i) ==
  IF i \in DOMAIN a.marks THEN a.marks[i]
  ELSE IF a.ffts # 0 /\ i >= Len(vals) - a.ffts THEN "shape"
  ELSE IoType(a.io, i)
ArgsList(a, vals) ==
  [n \in 1..Len(vals) |->
     LET type == ArgType(a, vals, n - 1)
     IN [index |-> n - 1, type |-> type,
         meta |-> IF type \in {"input", "output", "workspace"}
                  THEN MatchTensorMeta(a, type, n - 1) ELSE <<>>]]

(* _dump_arg_index: the number of a tensor of the dump among the arguments.    *)
DumpArgIndex(a, n) ==
  LET m == a.meta[n]
      spaces == SpaceArgs(a)
      place == Cardinality({k \in 1..(n - 1) : a.meta[k].kind = "space"})
  IN IF m.kind = "output" /\ a.io # <<>> /\ m.arg < a.io[1] THEN m.arg + a.io[1]
     ELSE IF m.kind = "space" /\ place < Cardinality(spaces)
     THEN CHOOSE i \in spaces : PlaceOf(i, spaces) = place
     ELSE m.arg

ResultText(ret) ==
  CASE ret = "FAILED" -> "AicoreError"
    [] ret = "SUCCESS" -> "ExecuteSuccess"
    [] OTHER -> "ExecuteFailed"
SingleOpResult_AlwaysTried(a) == ResultText(a.single)
SingleOpResult(a) ==
  IF a.single = "NOT_RUN" /\ ~a.attempted THEN "NotRun" ELSE ResultText(a.single)
EnvCheck(a) ==
  IF ~a.envTried THEN NotCollected ELSE IF a.env THEN "success" ELSE "failed"

(* The summary is what the table says of the error code, else the conclusion.  *)
RootCause(a) ==
  [summary |-> IF ~a.none /\ a.rec.code \in Described THEN "described" ELSE ConclusionBranch(a),
   branch |-> ConclusionBranch(a), evidence |-> ConclusionBranch(a) # ""]
JsonGroups(a) == [i \in DOMAIN a.groups |-> [code |-> a.groups[i].code, aic |-> a.groups[i].aic,
                                             aiv |-> a.groups[i].aiv]]

(* build_report: what has no value is said to be not collected.                *)
BasicInfo(a) ==
  [kernel |-> a.kernel, node |-> a.node, graph |-> a.graph,
   bin |-> IF a.bin = None THEN NotCollected ELSE "file",
   rts |-> IF a.rtsBlockDim = -1 THEN NotCollected ELSE "number",
   cores |-> IF a.cores = -1 THEN NotCollected ELSE "number"]
BuildReport(a, collected) ==
  [success |-> collected, root |-> RootCause(a), basic |-> BasicInfo(a), groups |-> JsonGroups(a),
   corrected |-> a.pc, before |-> ArgsList(a, a.before), after |-> ArgsList(a, a.after),
   files |-> [n \in DOMAIN a.meta |-> [file |-> a.meta[n].file, arg |-> DumpArgIndex(a, n)]],
   single |-> SingleOpResult(a), env |-> EnvCheck(a)]

(* write_json_report: a report that cannot be written leaves no file, and the  *)
(* analysis goes on.                                                           *)
NoReport == <<>>
WriteJsonReport(a, collected, writable) ==
  IF writable THEN <<BuildReport(a, collected)>> ELSE NoReport
=============================================================================
