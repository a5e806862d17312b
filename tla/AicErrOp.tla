------------------------------ MODULE AicErrOp ------------------------------
(* The rerun of the failed operator in msaicerr. A test case is a script of its *)
(* own process: it dirties the unified buffer of the core, then launches the   *)
(* kernel twice with the dumped tensors - with every tensor at the end of a    *)
(* page ("tail"), then between two guards ("magic") - and prints what came of  *)
(* it. The analysis reads the exit code, the output and the log of the process.*)
(*                                                                             *)
(* A runner r holds the buffers it has allocated, the tensors it will release  *)
(* (numbers of buffers, in the order they were appended), the arguments of the *)
(* launch and how it went: "ok", "raised" (an exception run() catches) or      *)
(* "crash" (one that leaves the script). A device d is what the hardware and   *)
(* the installation answer, a function of the case.                            *)
EXTENDS AicErrInfo

CONSTANTS
  JsonOf,       \* for the name of a description: the sizes of the workspaces, whether it
                \*   has a parameter with an initial value (params), tiles (tiling) and is
                \*   dynamic (dynamic), the numbers of inputs and outputs (io) and the
                \*   types of the tensors (types)
  ChipOfCce     \* for the name of a cce file, the chip it was compiled for

(* Every description lists the sizes of its workspaces, that of the operator   *)
(* that must run everywhere too.                                               *)
ASSUME JsonAssumption ==
  "golden" \in DOMAIN JsonOf /\ \A n \in DOMAIN JsonOf : JsonOf[n].workspaces \in Seq(Nat)

Runner == [bufs |-> <<>>, params |-> <<>>, args |-> <<>>, subs |-> FALSE, ret |-> <<>>, end |-> "ok"]
Stop(r, how) == [r EXCEPT !.end = how]
Goes(r) == r.end = "ok"

-----------------------------------------------------------------------------
(* Memory: the runtime reports errors by number, which parse_error only logs   *)

Buffer(use, origin, guarded) ==
  [use |-> use, origin |-> origin, guarded |-> guarded, live |-> use = "tensor", frees |-> 0]
Malloc(r, b) == [r EXCEPT !.bufs = Append(@, b), !.args = Append(@, b.use)]

(* sync_to_device, build_kernel_param: an allocation that fails gives no pointer *)
(* to add to, a TypeError; but an empty tensor at the end of a page gets 0x400 *)
(* bytes, and no addition.                                                     *)
SyncToDevice(r, d, size, mode) ==
  IF ~Goes(r) THEN r
  ELSE IF d.full THEN Stop(r, IF mode = "tail" /\ size = 0 THEN "raised" ELSE "crash")
  ELSE Malloc(r, Buffer("tensor", mode = "magic" \/ size > 0, mode = "magic"))
KeepLast(r, times) ==
  IF ~Goes(r) THEN r
  ELSE [r EXCEPT !.params = @ \o [i \in 1..times |-> Len(r.bufs)]]

(* release_device: the object forgets its device, so a second release does     *)
(* nothing.                                                                    *)
ReleaseDevice_Again(b) == [b EXCEPT !.frees = @ + 1]
ReleaseDevice(b) == IF b.live THEN [b EXCEPT !.frees = @ + 1, !.live = FALSE] ELSE b
Exit(r) == [r EXCEPT !.bufs = FoldLeft(LAMBDA bs, p : [bs EXCEPT ![p] = ReleaseDevice(@)], @, r.params)]
Free(r, use) ==
  [r EXCEPT !.bufs = [i \in DOMAIN @ |-> IF @[i].use = use /\ @[i].frees = 0
                                         THEN [@[i] EXCEPT !.frees = 1] ELSE @[i]]]

-----------------------------------------------------------------------------
(* The arguments of the launch                                               *)

(* _get_tensor_index counts within the kind of the tensor, so that the inputs  *)
(* and the outputs of the same numbers are one pointer tensor.                 *)
SubTensor(s, t) == t.index \in s.idx..(s.idx + s.count - 1)

(* _fill_binary_subptr: a buffer of pointers, which nothing will free.         *)
FillBinarySubptr(r, d, cfg, s, mode) ==
  IF d.full THEN Stop(r, "crash")
  ELSE LET p == [r EXCEPT !.bufs = Append(@, Buffer("pointers", FALSE, FALSE)), !.subs = TRUE]
           q == FoldLeft(LAMBDA x, t : IF ~SubTensor(s, t) THEN x
                                       ELSE IF d.unreadable THEN Stop(x, "raised")
                                       ELSE KeepLast([SyncToDevice(x, d, t.size, mode)
                                                        EXCEPT !.args = r.args], 1),
                         p, cfg.bins)
       IN [q EXCEPT !.args = Append(@, "pointers")]

SubAt(cfg, i) == {s \in cfg.sub : s.idx = i - 1}
Covered(cfg, i) == \E s \in cfg.sub : s.idx < i - 1 /\ i - 1 < s.idx + s.count
FillBinary(r, d, cfg, mode) ==
  FoldLeft(LAMBDA x, i :
             IF ~Goes(x) \/ Covered(cfg, i) THEN x
             ELSE IF SubAt(cfg, i) # {}
                  THEN FillBinarySubptr(x, d, cfg, CHOOSE s \in SubAt(cfg, i) : TRUE, mode)
             ELSE IF d.unreadable THEN Stop(x, "raised")
             ELSE KeepLast(SyncToDevice(x, d, cfg.bins[i].size, mode), 1),
           r, [i \in 1..Len(cfg.bins) |-> i])

(* Level one: _fill_inputs, _fill_outputs (which appends each tensor twice) and *)
(* _fill_workspace.                                                            *)
FillTensors(r, d, sizes, mode, times) ==
  FoldLeft(LAMBDA x, s : KeepLast(SyncToDevice(x, d, s, mode), times), r, sizes)
FillAll(r, d, cfg, mode) ==
  FillTensors(FillTensors(FillTensors(r, d, cfg.inputs, mode, 1), d, cfg.outputs, mode, 2),
              d, JsonOf[cfg.json.name].workspaces, mode, 1)

FillTiling(r, d, cfg) ==
  IF ~Goes(r) \/ ~JsonOf[cfg.json.name].tiling \/ cfg.tiling = None THEN r
  ELSE IF d.full THEN Stop(r, "raised")
  ELSE Malloc(r, Buffer("tiling", FALSE, FALSE))

-----------------------------------------------------------------------------
(* The launch                                                                *)

(* register_function never raises, so that the name of the kernel with its     *)
(* tiling key is never tried again without: the launch fails instead.          *)
LaunchResult(d, mode) == IF d.symbol THEN d.launch[mode] ELSE 1

(* exec_single_case of "error_single_op" clears the last argument, that of the *)
(* tiling data if there is any.                                                *)
LastCleared(args) == IF args = <<>> THEN args ELSE [args EXCEPT ![Len(args)] = "zero"]

CheckMagicMemory(r, d) ==
  IF d.overrun /\ \E i \in 1..Len(r.params) : r.bufs[r.params[i]].guarded THEN 1 ELSE 0

FilledCase(r, d, cfg, mode) ==
  FillTiling(IF cfg.bins # <<>> THEN FillBinary(r, d, cfg, mode) ELSE FillAll(r, d, cfg, mode), d, cfg)
LaunchCase(r, d, cfg, mode) ==
  LET args == [i \in 1..cfg.ffts |-> "ffts"] \o r.args
      ran == [r EXCEPT
                !.args = IF cfg.test = "error_single_op" THEN LastCleared(args) ELSE args,
                !.ret = Append(@, <<LaunchResult(d, mode), d.sync[mode], CheckMagicMemory(r, d)>>)]
  IN IF ~Goes(r) THEN r
     ELSE IF cfg.test = "error_single_op" /\ args = <<>> THEN Stop(r, "crash")
     ELSE Free(ran, "tiling")
(* Filling the arguments leaves the results of the launch before as they are.  *)
Filled(r, f) ==
  [r EXCEPT !.bufs = f.bufs, !.params = f.params, !.args = f.args, !.subs = f.subs, !.end = f.end]
ExecSingleCase(r, d, cfg, mode) ==
  IF Goes(r)
  THEN LaunchCase(Filled(r, FilledCase([r EXCEPT !.args = <<>>], d, cfg, mode)), d, cfg, mode)
  ELSE r

(* run and __exit__                                                            *)
RunBoth(d, cfg) == Exit(ExecSingleCase(ExecSingleCase(Runner, d, cfg, "tail"), d, cfg, "magic"))
Text(r) ==
  IF r.end # "ok" THEN "exec_failed"
  ELSE IF \E i \in 1..Len(r.ret) : r.ret[i][1] # 0 \/ r.ret[i][2] # 0 THEN "launch_failed"
  ELSE "success"

-----------------------------------------------------------------------------
(* Compiling the operators msaicerr brings along                             *)

(* The directory of one operator: whether it is there, its chip marker and     *)
(* whether something was built in it.                                          *)
NoTemp == [there |-> FALSE, chip |-> None, built |-> FALSE]

(* CompileOP.get_compile_file: what is there is reused if it is marked for the *)
(* chip; else all is done again, and the marker is written last but one.       *)
GetCompileFile(temp, d, chip) ==
  IF temp.there /\ temp.chip = chip /\ temp.built THEN [temp |-> temp, built |-> TRUE]
  ELSE CASE d.compile = "no_msopgen" -> [temp |-> temp, built |-> FALSE]
         [] d.compile = "locked" /\ temp.there -> [temp |-> temp, built |-> FALSE]
         [] d.compile = "fails" -> [temp |-> [NoTemp EXCEPT !.there = TRUE], built |-> FALSE]
         [] OTHER -> [temp |-> [there |-> TRUE, chip |-> chip, built |-> TRUE], built |-> TRUE]

(* get_compile_from_tik and run_dirty_ub_tik, for the chips without a handler. *)
CompileByTik(temp, d) ==
  IF ~d.tbe THEN [temp |-> temp, built |-> FALSE]
  ELSE [temp |-> [NoTemp EXCEPT !.there = TRUE, !.built = d.compile = "ok"], built |-> d.compile = "ok"]
HasHandler(chip) == chip \in {"950", "960dt", "350"}
CompileChip(chip) == IF chip = "350" THEN "950" ELSE chip
GetBuiltIn(temp, d, chip) ==
  IF HasHandler(chip) THEN GetCompileFile(temp, d, CompileChip(chip)) ELSE CompileByTik(temp, d)

(* run_dirty_ub: skipped when it cannot be built; its result is not looked at. *)
RunDirtyUb(temp, d, chip) ==
  IF HasHandler(chip) /\ ~d.tbe THEN temp ELSE GetBuiltIn(temp, d, chip).temp

-----------------------------------------------------------------------------
(* One test case                                                             *)

GenerateConfig(info, test) ==
  [json |-> info.json, bin |-> info.bin, tiling |-> info.tiling, bins |-> info.bins,
   inputs |-> info.inputs, outputs |-> info.outputs, sub |-> info.sub, ffts |-> info.ffts,
   cce |-> info.cce, test |-> test]

SocVersion(d, cce, default) ==
  IF d.soc # None THEN d.soc ELSE IF cce # None THEN ChipOfCce[cce.name] ELSE default

(* SingleOpCase.run: an object or a description that is missing is an error    *)
(* nothing catches.                                                            *)
CaseFailed(temp) == [temp |-> temp, r |-> Runner, exit |-> 1, text |-> "none"]
CaseRan(temp, r) ==
  [temp |-> temp, r |-> r, exit |-> IF r.end = "crash" THEN 1 ELSE 0, text |-> Text(r)]
Dirtied(temp, d) == RunDirtyUb(temp, d, SocVersion(d, None, "310"))
RunCase(temp, d, cfg) ==
  IF ~d.starts THEN CaseFailed(temp)
  ELSE IF cfg.bin = None \/ cfg.json = None THEN CaseFailed(Dirtied(temp, d))
  ELSE CaseRan(Dirtied(temp, d), RunBoth(d, cfg))

(* _test_single_op: an error in the log counts before anything else; without   *)
(* one, a process that failed or a case that did not run says nothing.         *)
CaseResult_AnyExit(d, case) ==
  IF d.aicore THEN "FAILED"
  ELSE IF case.text \in {"exec_failed", "launch_failed"} THEN "NOT_RUN"
  ELSE "SUCCESS"
CaseResult(d, case) ==
  IF d.aicore THEN "FAILED"
  ELSE IF case.exit # 0 \/ case.text \in {"exec_failed", "launch_failed"} THEN "NOT_RUN"
  ELSE "SUCCESS"
TestSingleOp(temp, d, info, test) == RunCase(temp, d, GenerateConfig(info, test))

(* run_golden_op and run_test_env: the operator that must run everywhere.      *)
GoldenFile == [name |-> "golden"]
GoldenConfig == [json |-> GoldenFile, bin |-> GoldenFile, tiling |-> None, bins |-> <<>>,
                 inputs |-> <<1, 1>>, outputs |-> <<1>>, sub |-> {}, ffts |-> 0, cce |-> None,
                 test |-> "golden"]
EnvResult(d, built, r) ==
  LET passed == d.starts /\ built.built /\ r.end # "crash" /\ Text(r) = "success"
  IN [good |-> passed /\ ~d.aicore, runner |-> IF d.starts /\ built.built THEN r ELSE Runner,
      temp |-> IF passed \/ ~d.starts THEN NoTemp ELSE built.temp]
RunTestEnv(d, chip) == EnvResult(d, GetBuiltIn(NoTemp, d, chip), RunBoth(d, GoldenConfig))
=============================================================================
