----------------------------- MODULE AicErrInfo -----------------------------
(* The first step of the analysis of msaicerr: what the collected logs say of  *)
(* the failed operator. Lines of several threads, devices and tasks lie in the *)
(* same logs; the record of the error, the dump, the counters, the kernel and  *)
(* its files are found one after the other, each by keys of its own.           *)
EXTENDS AicErrCollect, AicErrDump

-----------------------------------------------------------------------------
(* The correction of the program counter. The counter a core reports is late;  *)
(* the error registers hold pieces of the right one. adump prints the          *)
(* corrected counter of a core when it can; otherwise the registers adump      *)
(* prints, or those of the runtime's own line, are put into the counter. AIC   *)
(* and AIV cores share the numbers, so every search goes by number and type.   *)
(*                                                                             *)
(* A counter is <<bits 48..32, bits 31..18, bits 17..10, bits 9..2>>, and so is *)
(* what a register has to offer for each piece.                                *)

CONSTANTS
  WordsOf,      \* for an error code, read as a hexadecimal number, for each of its
                \*   32-bit words the modules whose bits are set
  DecimalOf     \* for an error code, whether it is spelt in decimal (950)

Zero == <<0, 0, 0, 0>>
PcBefore(p, q) == \E i \in 1..4 : p[i] < q[i] /\ \A j \in 1..(i - 1) : p[j] = q[j]

-----------------------------------------------------------------------------
(* The tables: per module, the registers and the pieces they replace         *)

V100Entries ==
  [CUBE |-> <<<<"CUBE_ERR_0", {4}>>, <<"CUBE_ERR_0", {3}>>>>,
   CCU  |-> <<<<"CCU_ERR_0", {4}>>, <<"CCU_ERR_0", {3}>>>>,
   MTE  |-> <<<<"MTE_ERR_0", {4}>>, <<"MTE_ERR_1", {3}>>>>,
   VEC  |-> <<<<"VEC_ERR_0", {4}>>, <<"VEC_ERR_1", {3}>>>>,
   FIXP |-> <<<<"FIXP_ERR_0", {4}>>, <<"FIXP_ERR_1", {3}>>>>]
V100ModuleOrder == <<"CUBE", "CCU", "MTE", "VEC", "FIXP">>
V100PlogModules == {"CUBE", "CCU", "MTE", "VEC", "IFU", "BIU"}

V200Entries ==
  [SU   |-> <<<<"SU_ERR_INFO_T0_0", {3, 4}>>>>,
   MTE  |-> <<<<"MTE_ERR_INFO_T0_0", {3, 4}>>>>,
   VEC  |-> <<<<"VEC_ERR_INFO_T0_1", {2, 3, 4}>>, <<"VEC_ERR_INFO_T0_2", {1}>>>>,
   CUBE |-> <<<<"CUBE_ERR_INFO_T0_1", {3, 4}>>>>,
   L1   |-> <<<<"L1_ERR_INFO_T0_1", {3, 4}>>>>]
V200Groups ==
  << <<"SU_ERROR_T0_0", "SU">>, <<"MTE_ERROR_T0_0", "MTE">>, <<"MTE_ERROR_T1_0", "MTE">>,
     <<"VEC_ERROR_T0_0", "VEC">>, <<"VEC_ERROR_T0_2", "VEC">>, <<"CUBE_ERROR_T0_0", "CUBE">>,
     <<"CUBE_ERROR_T0_1", "CUBE">>, <<"L1_ERROR_T0_0", "L1">>, <<"L1_ERROR_T0_1", "L1">> >>
V300Groups == Append(V200Groups, <<"SU_ERROR_T0_1", "SU">>)

-----------------------------------------------------------------------------
(* Putting registers into a counter                                          *)

(* A set of registers is a function from their names to what they offer; a     *)
(* trigger in it has a bit set that its mask covers.                           *)
ReplacePcBits(pc, value, pieces) == [i \in 1..4 |-> IF i \in pieces THEN value[i] ELSE pc[i]]
ApplyEntries(pc, entries, regs) ==
  FoldLeft(LAMBDA p, e : IF e[1] \in DOMAIN regs THEN ReplacePcBits(p, regs[e[1]], e[2]) ELSE p,
           pc, entries)

(* build_v100_regs: the registers on the runtime's own line. Its error code is *)
(* read as a hexadecimal number, whatever the chip.                            *)
BuildV100Regs(rec, fixp) ==
  [words |-> WordsOf[rec.code],
   regs |-> fixp @@ [r \in UNION {{m \o "_ERR_0", m \o "_ERR_1"} :
                                  m \in DOMAIN rec.extra \cap V100PlogModules} |->
                       rec.extra[CHOOSE m \in DOMAIN rec.extra :
                                   r \in {m \o "_ERR_0", m \o "_ERR_1"}]]]
ParseFixpRegs(logs) ==
  LET ls == Grep(logs, "fixp")
  IN IF ls = <<>> THEN <<>> ELSE "FIXP_ERR_0" :> ls[1].value @@ "FIXP_ERR_1" :> ls[1].value

FirstOf(order, P(_)) ==
  LET hit == {i \in 1..Len(order) : P(order[i])}
  IN IF hit = {} THEN <<>> ELSE <<order[Min(hit)]>>

(* _match_v100_modules and _match_v200_modules keep all that match, of which    *)
(* fix_pc_by_error_regs takes the first.                                       *)
MatchV100(words) ==
  FoldLeft(LAMBDA m, w : IF m # <<>> THEN m
                         ELSE FirstOf(V100ModuleOrder, LAMBDA x : x \in w), <<>>, words)
MatchV200(regs, groups) == FirstOf(groups, LAMBDA g : g[1] \in DOMAIN regs)

FixPcByErrorRegs(pc, r, chip) ==
  LET v200 == MatchV200(r.regs, IF chip = "950" THEN V300Groups ELSE V200Groups)
      v100 == MatchV100(r.words)
  IN IF v200 # <<>> THEN ApplyEntries(pc, V200Entries[v200[1][2]], r.regs)
     ELSE IF v100 # <<>> THEN ApplyEntries(pc, V100Entries[v100[1]], r.regs)
     ELSE pc

-----------------------------------------------------------------------------
(* The corrected counter of one record of the runtime                        *)

SameCore(l, rec) == l.core = rec.core /\ l.ctype = rec.ctype
NoFix == [start |-> Zero, cur |-> Zero, dump |-> FALSE, none |-> TRUE]

(* parse_corrected_pc_from_log: the first counter adump has printed for the core. *)
ParseCorrectedPc(logs, rec) ==
  LET ls == SelectSeq(Grep(logs, "fixed"), LAMBDA l : SameCore(l, rec))
  IN IF ls = <<>> THEN NoFix
     ELSE [start |-> ls[1].start, cur |-> ls[1].cur, dump |-> TRUE, none |-> FALSE]

(* parse_error_regs_from_log: the lines of one core put together, later ones win. *)
ParseErrorRegs(logs, rec) ==
  FoldLeft(LAMBDA r, l : [words |-> IF l.words = <<>> THEN r.words ELSE l.words,
                          regs |-> l.regs @@ r.regs],
           [words |-> <<>>, regs |-> <<>>],
           SelectSeq(Grep(logs, "adregs"), LAMBDA l : SameCore(l, rec)))

ChipType(rec, chip) == IF chip # None THEN chip ELSE IF DecimalOf[rec.code] THEN "950" ELSE "910B"

(* get_corrected_pc: nothing is reported when no piece changes, or when the    *)
(* result lies before the start of the kernel.                                 *)
GetCorrectedPc(logs, rec, chip) ==
  LET printed == ParseCorrectedPc(logs, rec)
      dumped == ParseErrorRegs(logs, rec)
      regs == IF dumped.regs = <<>> /\ dumped.words = <<>>
              THEN BuildV100Regs(rec, ParseFixpRegs(logs)) ELSE dumped
      fixed == FixPcByErrorRegs(rec.cur, regs, ChipType(rec, chip))
  IN IF ~printed.none THEN printed
     ELSE IF rec.badpc \/ fixed = rec.cur \/ PcBefore(fixed, rec.start) THEN NoFix
     ELSE [start |-> rec.start, cur |-> fixed, dump |-> FALSE, none |-> FALSE]

-----------------------------------------------------------------------------
(* The source line of a corrected counter                                    *)

(* parse_symbolize_src_from_log: adump prints the groups of cores and, apart   *)
(* from them, the source of each group; of two sources of a group the last.    *)
SourceFromLog(logs, rec) ==
  LET srcs == Grep(logs, "outersrc")
      cores == SelectSeq(Grep(logs, "cores"),
                 LAMBDA l : <<rec.core, rec.ctype>> \in l.cores
                            /\ \E i \in 1..Len(srcs) : srcs[i].group = l.group)
      of == SelectSeq(srcs, LAMBDA s : s.group = cores[1].group)
  IN IF cores = <<>> THEN None ELSE of[Len(of)].outer

(* get_corrected_src, symbolize: the log before the symbolizer, which needs    *)
(* the tool and an object with debug information.                              *)
GetCorrectedSrc(logs, rec, object, symbols) ==
  IF SourceFromLog(logs, rec) # None THEN SourceFromLog(logs, rec)
  ELSE IF object # None /\ symbols THEN object
  ELSE None

-----------------------------------------------------------------------------
(* What the logs say of the operator *)

CONSTANTS ScalarCode,     \* the error codes of the scalar unit when tasks overlap
          ShellCode       \* the codes "0" and "0x0" of a chip that says more elsewhere

NoPair == <<>>
(* The record of the error as AicErrorInfo.__init__ makes it, with what the    *)
(* later steps will find.                                                      *)
NoInfo ==
  [none |-> TRUE, rec |-> [k |-> None], second |-> NoPair, groups |-> <<>>,
   pc |-> NoFix, src |-> None, data |-> None, node |-> None, kernel |-> None,
   id |-> NoPair, hash |-> 0, tilingKey |-> 0, blockDim |-> -1, rtsBlockDim |-> -1,
   cores |-> -1, bin |-> None, json |-> None, cce |-> None, chip |-> None,
   graph |-> FALSE, before |-> <<>>, after |-> <<>>, argsOk |-> TRUE, marks |-> <<>>, io |-> <<>>,
   decompiled |-> FALSE, flag |-> FALSE, line |-> None, cleanOk |-> TRUE, atomicAdd |-> FALSE,
   dumpOk |-> TRUE, ffts |-> 0, dumpFiles |-> <<>>, invalid |-> FALSE, meta |-> <<>>, bins |-> <<>>,
   spaces |-> <<>>, inputs |-> <<>>, outputs |-> <<>>, tiling |-> None, sub |-> {},
   single |-> "NOT_RUN", attempted |-> FALSE, env |-> TRUE, envTried |-> FALSE]

-----------------------------------------------------------------------------
(* Which dump and which record                                               *)

(* get_dump_data_info of the parser: the first two dumps in time.              *)
FirstTwo(ls) == SubSeq(ls, 1, Min({2, Len(ls)}))
DumpInfoList(c) ==
  LET adump == DumpLines(c.plog, "adump")
      ge == DumpLines(c.plog, "ge")
  IN IF adump # <<>> \/ c.level = 0 THEN FirstTwo(adump) ELSE FirstTwo(ge)

(* The records of the runtime in time order: those of overlapping tasks are    *)
(* looked at only when there are none of the plain form.                       *)
AicErrRets(c) ==
  LET all == ByTime(Grep(c.plog, "regs"))
      plain == SelectSeq(all, LAMBDA l : ~l.ost)
  IN IF plain # <<>> THEN plain ELSE all

(* get_is_concurrentexe_value: each line of another thread replaces what the   *)
(* lines before have left; more than two tasks are given up.                   *)
ConcurrentTasks(ls) == UNION {{l.first, l.second} : l \in ToSet(ls)}
IsConcurrentExe(c) ==
  LET ls == Grep(c.plog, "conc")
  IN IF Cardinality(ConcurrentTasks(ls)) > 2 THEN <<>>
     ELSE FoldLeft(LAMBDA r, l : IF r # <<>> /\ r[1].tid = l.tid THEN r ELSE <<l>>, <<>>, ls)

IsScalarRegisterErr(tid, rets) ==
  \E i \in 1..Len(rets) : rets[i].tid = tid /\ rets[i].code \in ScalarCode

(* update_dumpinfo_for_outstanding: the task whose error it was, and of the two *)
(* dumps the one whose name spells that task.                                  *)
ErrorTask(c, rets) ==
  LET conc == IsConcurrentExe(c)
  IN IF conc = <<>> THEN [tid |-> None, id |-> NoPair, second |-> FALSE]
     ELSE IF conc[1].both /\ IsScalarRegisterErr(conc[1].tid, rets)
     THEN [tid |-> conc[1].tid, id |-> conc[1].second, second |-> TRUE]
     ELSE [tid |-> conc[1].tid, id |-> conc[1].first, second |-> FALSE]
UpdateDumpInfo(c, rets, task) ==
  FoldLeft(LAMBDA d, l : IF l.tid = task.tid /\ task.id \in NameOf[l.name].ids THEN l ELSE d,
           DumpInfoList(c)[1], DumpInfoList(c))

(* The record of the error: the first of the thread of the dump. Its start is  *)
(* that of the second task when the second task failed.                        *)
RecordOf(rets, dump, task) ==
  LET mine == SelectSeq(rets, LAMBDA r : r.tid = dump.tid)
  IN IF mine = <<>> THEN <<>>
     ELSE <<IF mine[1].ost /\ task.second THEN [mine[1] EXCEPT !.start = mine[1].sstart]
            ELSE mine[1]>>

-----------------------------------------------------------------------------
(* The records of one thread by their error code                             *)

(* _get_v300_error_code                                                        *)
ExtendedCode(c) ==
  LET ls == Grep(c.plog, "extcode") IN IF ls = <<>> THEN "0x0" ELSE ls[1].code
RealCode(c, rec) == IF rec.code \in ShellCode THEN [rec EXCEPT !.code = ExtendedCode(c)] ELSE rec

Codes(recs) == FoldLeft(LAMBDA s, r : IF r.code \in ToSet(s) THEN s ELSE Append(s, r.code), <<>>, recs)
CoresOf(recs, type) == {r.core : r \in {x \in ToSet(recs) : x.ctype = type}}
GroupOf(recs, code) ==
  LET rs == SelectSeq(recs, LAMBDA r : r.code = code)
  IN [code |-> code, first |-> rs[1], aic |-> CoresOf(rs, "aic"), aiv |-> CoresOf(rs, "aiv"),
      pc |-> NoFix, src |-> None]
GroupsOf(recs) == [i \in 1..Len(Codes(recs)) |-> GroupOf(recs, Codes(recs)[i])]

-----------------------------------------------------------------------------
(* The kernel of the error                                                   *)

(* parser_kernel_info and parser_kernel_info_with_ext_info: the line of the    *)
(* stream and the task of the dump, else the first line.                       *)
LineOfTask(ls, id, P(_)) ==
  LET mine == SelectSeq(ls, LAMBDA l : id # NoPair /\ l.id = id /\ P(l))
  IN IF mine = <<>> THEN ls[1] ELSE mine[1]
KernelInfo(ls, id) == LET l == LineOfTask(ls, id, LAMBDA x : TRUE)
                      IN [id |-> l.id, kernel |-> l.kernel, hash |-> l.hash]
KernelInfoWithExt(ls, id) == LET l == LineOfTask(ls, id, LAMBDA x : x.ext # "none")
                             IN [id |-> l.id, kernel |-> l.ext, hash |-> l.hash]

ErrorInfoL0(c, data) ==
  LET id == NameOf[data].id
      sk == SkKernel(c.plog)
      ls == Grep(c.plog, IF c.ffts THEN "ffts" ELSE "fail")
      found == IF ls = <<>> THEN [id |-> id, kernel |-> None, hash |-> 0]
               ELSE IF ~c.ffts /\ ls[1].ext # "none" THEN KernelInfoWithExt(ls, id)
               ELSE KernelInfo(ls, id)
  IN IF ls = <<>> /\ sk = None THEN <<>>
     ELSE <<[found EXCEPT !.kernel = IF sk # None THEN sk ELSE @] @@ [node |-> data]>>

ErrorInfoL1(c) ==
  LET kernels == Grep(c.plog, "devfunc")
      nodes == Grep(c.plog, "node")
      failed == Grep(c.plog, "fail")
  IN IF kernels = <<>> \/ nodes = <<>> \/ failed = <<>> THEN <<>>
     ELSE <<[id |-> nodes[1].id, kernel |-> StemOf[kernels[1].kernel], hash |-> failed[1].hash,
             node |-> nodes[1].node]>>

ErrorInfo(c, data) == IF c.level = 1 THEN ErrorInfoL1(c) ELSE ErrorInfoL0(c, data)

(* get_tiling_info: the first key in the logs; with FFTS it is part of the name *)
(* of the kernel. The number of blocks is the first the same lines give.       *)
TilingInfo(c) ==
  LET ls == Grep(c.plog, IF c.level = 0 /\ c.ffts THEN "ffts" ELSE "tiling")
  IN IF ls = <<>> THEN [key |-> 0, dim |-> IF c.level = 1 THEN -1 ELSE 0]
     ELSE [key |-> ls[1].key, dim |-> ls[1].dim]

(* rts_block_dim: the largest of all block numbers the runtime has printed.    *)
RtsBlockDim(c) ==
  LET dims == {l.dim : l \in ToSet(Grep(c.plog, "tiling"))} IN IF dims = {} THEN -1 ELSE Max(dims)

-----------------------------------------------------------------------------
(* The files of the kernel                                                   *)

(* A compiled file is [name, kind, key, of, bin]: kind is o, host, json, loc or *)
(* cce; bin is the object a description names.                                 *)
FileOrNone(fs) == IF fs = <<>> THEN None ELSE fs[1]
LastOf(fs) == IF fs = <<>> THEN None ELSE fs[Len(fs)]
Compiled(c, name, kind) == SelectSeq(c.compile, LAMBDA f : f.name = name /\ f.kind = kind)

HostObject(c, kernel) == FileOrNone(SelectSeq(c.compile, LAMBDA f : f.kind = "host" /\ f.name = kernel))

KernelFileByName(c, kernel, key) ==
  LET cces == Compiled(c, kernel, "cce")
      keyed == SelectSeq(cces, LAMBDA f : f.key = key)
  IN [bin |-> FileOrNone(Compiled(c, kernel, "o")), json |-> FileOrNone(Compiled(c, kernel, "json")),
      cce |-> IF keyed # <<>> THEN keyed[1]
              ELSE FileOrNone(SelectSeq(cces, LAMBDA f : f.key = None))]

(* _match_kernel_by_json, _fill_kernel_backup: the first description whose     *)
(* object lies beside it; failing that, the last object of the list, which may *)
(* be that of the host. Only the first source can match the tiling key.        *)
KernelFileByList(c, fs, key) ==
  LET matched == SelectSeq(fs, LAMBDA f : f.kind = "json" /\ Compiled(c, f.bin, "o") # <<>>
                                          /\ Compiled(c, f.bin, "json") # <<>>)
      cces == SelectSeq(fs, LAMBDA f : f.kind = "cce")
  IN [bin |-> IF matched # <<>> THEN Compiled(c, matched[1].bin, "o")[1]
              ELSE LastOf(SelectSeq(fs, LAMBDA f : f.kind \in {"o", "host"})),
      json |-> IF matched # <<>> THEN Compiled(c, matched[1].bin, "json")[1]
               ELSE LastOf(SelectSeq(fs, LAMBDA f : f.kind = "json")),
      cce |-> IF cces # <<>> /\ cces[1].key = key THEN cces[1] ELSE LastOf(cces)]

KernelAndJsonFile(c, kernel, key) ==
  LET stem == StemOf[kernel]
      fs == SelectSeq(c.compile, LAMBDA f : stem \in f.of)
  IN IF c.sk THEN [bin |-> HostObject(c, stem), json |-> None, cce |-> None]
     ELSE IF Compiled(c, stem, "o") # <<>> THEN KernelFileByName(c, stem, key)
     ELSE KernelFileByList(c, fs, key)

-----------------------------------------------------------------------------
(* set_info: all of it in one record                                         *)

ObjectToSymbolize(c, f, kernel) ==
  IF f.bin # None THEN f.bin ELSE HostObject(c, StemOf[kernel])

(* Every group is corrected by the first of its own records; what the record of *)
(* the error got is put back at the end.                                       *)
Corrected(c, x, rec, pc, object, symbols) ==
  [x EXCEPT !.pc = pc, !.src = IF pc.none THEN None ELSE GetCorrectedSrc(c.plog, rec, object, symbols)]
CorrectRecord(c, x, rec, chip, object, symbols) ==
  Corrected(c, x, rec, GetCorrectedPc(c.plog, rec, chip), object, symbols)

(* get_op_info up to the records: the dump, the task and the record.           *)
FoundRecord(rec, dump, task, dim) ==
  IF rec = <<>> \/ dim = -1 THEN NoInfo
  ELSE [NoInfo EXCEPT !.none = FALSE, !.rec = rec[1], !.data = dump.name, !.second = task.id,
                      !.chip = rec[1].chip]
RecordOfTask(c, rets, task) ==
  LET dump == UpdateDumpInfo(c, rets, task)
  IN FoundRecord(RecordOf(rets, dump, task), dump, task, RtsBlockDim(c))
FindRecord(c) ==
  LET rets == AicErrRets(c)
  IN IF DumpInfoList(c) = <<>> \/ rets = <<>> THEN NoInfo ELSE RecordOfTask(c, rets, ErrorTask(c, rets))

GroupRecords(c, info) ==
  LET mine == SelectSeq(AicErrRets(c), LAMBDA r : r.tid = info.rec.tid)
      same == [i \in 1..Len(mine) |-> RealCode(c, IF i = 1 THEN info.rec ELSE mine[i])]
  IN [info EXCEPT !.rec = same[1], !.groups = GroupsOf(same)]

KnownKernel(c, info, e, t, f, cores) ==
  [info EXCEPT !.id = e.id, !.node = e.node, !.kernel = e.kernel, !.hash = e.hash,
               !.rtsBlockDim = RtsBlockDim(c), !.cores = cores, !.tilingKey = t.key, !.blockDim = t.dim,
               !.bin = f.bin, !.json = f.json, !.cce = f.cce]
FindKernel(c, info, cores) ==
  LET e == ErrorInfo(c, info.data)
      t == TilingInfo(c)
  IN IF e = <<>> THEN info
     ELSE KnownKernel(c, info, e[1], t, KernelAndJsonFile(c, e[1].kernel, t.key), cores)

CorrectAll(c, info, symbols) ==
  LET object == IF info.kernel = None THEN info.bin ELSE ObjectToSymbolize(c, info, info.kernel)
      groups == [i \in DOMAIN info.groups |->
                   CorrectRecord(c, info.groups[i], info.groups[i].first, info.chip, object, symbols)]
  IN CorrectRecord(c, [info EXCEPT !.groups = groups], info.rec, info.chip, object, symbols)
=============================================================================
