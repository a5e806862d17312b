---------------------------- MODULE AicErrCollect ----------------------------
(* The collection of msaicerr: from the directory the user gives, the logs of  *)
(* the AI Core error, the dump of the failed operator, the custom dumps and the*)
(* compiled files are copied to the output directory. Every choice rests on    *)
(* lines found in the logs, which several threads and devices have written.    *)
(*                                                                             *)
(* A world is what lies under the given directory: w.logs, a sequence of logs  *)
(* in the order grep reports them, each with its lines; w.dumps, the dump files*)
(* in the order find reports them; w.maps, for a device the file mapping.csv of*)
(* its dumps (original name to name on disk); w.beside, whether the kernels    *)
(* that lie beside a dump of the device agree; w.kernels, the compiled files   *)
(* and the kernels they mention; w.graphs, the graphs. A line is a record whose*)
(* field k is the mark grep looks for.                                         *)
EXTENDS Naturals, Sequences, SequencesExt, FiniteSetsExt, TLC

CONSTANTS
  None,      \* no name, no device, an empty string
  NameOf,    \* for the name of a file: the stream and the task it spells (id), the
             \*   ids and the names whose text occurs in it (ids, has), whether it is
             \*   too long (long), has a suffix (dotted), ends like a custom dump (custom)
  StemOf     \* for the name of a kernel, the name of its compiled files

-----------------------------------------------------------------------------
(* Searching the logs                                                        *)

Grep(logs, k) ==
  SelectSeq(FoldLeft(LAMBDA ls, f : ls \o f.lines, <<>>, logs), LAMBDA l : l.k = k)
GrepFiles(logs, k) ==
  SelectSeq(logs, LAMBDA f : \E i \in 1..Len(f.lines) : f.lines[i].k = k)
ByTime(ls) == SortSeq(ls, LAMBDA a, b : a.t < b.t)

(* copy_src_to_dest never overwrites: the second file of a name gets a number. *)
CopyFile(dir, f) ==
  Append(dir, [f EXCEPT !.copy = Cardinality({i \in 1..Len(dir) : dir[i].name = f.name})])
CopyAll(dir, fs) == FoldLeft(CopyFile, dir, fs)

-----------------------------------------------------------------------------
(* Step 1: the logs                                                          *)

ExceptionLog == "adump"      \* [Dump][Exception]
Nothing == [level |-> 0, ffts |-> FALSE, sk |-> FALSE, plog |-> <<>>, dump |-> <<>>,
            csv |-> None, compile |-> <<>>, graphs |-> {}, line |-> [k |-> None],
            rename |-> None, kernel |-> None, succ |-> FALSE]

(* collect_plog_file: all logs with an exception mark; one log of the level-one *)
(* information and one of the arguments unless they are already among them.     *)
MarkOf(l) == IF l.k \in {"dump", "custom", "load", "d2h", "addr"} THEN ExceptionLog ELSE l.k
CollectPlogFile(w, c) ==
  LET marked == SelectSeq(w.logs, LAMBDA f : \E i \in 1..Len(f.lines) :
                                               MarkOf(f.lines[i]) = ExceptionLog)
      First(k) == LET fs == GrepFiles(w.logs, k)
                  IN IF fs = <<>> \/ fs[1] \in ToSet(marked) THEN <<>> ELSE <<fs[1]>>
  IN [c EXCEPT !.plog = marked \o First("devfunc") \o First("argsdata"),
               !.level = IF GrepFiles(w.logs, "devfunc") = <<>> THEN 0 ELSE 1,
               !.ffts = GrepFiles(w.logs, "ffts") # <<>>,
               !.sk = GrepFiles(w.logs, "sk") # <<>>]

-----------------------------------------------------------------------------
(* Step 2: the dump the logs speak of                                        *)

DumpLines(logs, by) == ByTime(SelectSeq(Grep(logs, "dump"), LAMBDA l : l.by = by))

(* get_dump_data_info of the collection: the earliest line; those of GE are    *)
(* looked at only when the logs hold level-one information and none of adump.  *)
GetDumpDataInfo(c) ==
  LET adump == DumpLines(c.plog, "adump")
      ge == DumpLines(c.plog, "ge")
  IN IF adump # <<>> THEN adump[1]
     ELSE IF c.level = 1 /\ ge # <<>> THEN ge[1]
     ELSE Nothing.line

MappingOf(w, dev) == IF dev \in DOMAIN w.maps THEN dev ELSE None

(* _resolve_dump_file_rename: only a name too long for a file is looked up, and *)
(* only in the table of the device of the error.                               *)
RenameOf(w, dev, name) ==
  IF NameOf[name].long /\ dev \in DOMAIN w.maps /\ name \in DOMAIN w.maps[dev]
  THEN w.maps[dev][name] ELSE None
OnDisk(rename, name) == IF rename = None THEN name ELSE rename

FindDumps(w, name) == SelectSeq(w.dumps, LAMBDA d : d.name = name)
DumpIsValid(w, c) == FindDumps(w, OnDisk(c.rename, c.line.name)) # <<>>

(* check_host_and_device_kernel_name looks beside the first dump found, of     *)
(* whatever device it is.                                                      *)
KernelsAgree(w, c) ==
  \/ c.sk
  \/ w.beside[FindDumps(w, OnDisk(c.rename, c.line.name))[1].dev] # "differ"

ChooseDump(w, c) ==
  LET l == GetDumpDataInfo(c)
      r == IF l.k = None THEN None ELSE RenameOf(w, l.dev, l.name)
      d == [c EXCEPT !.line = l, !.rename = r]
  IN [d EXCEPT !.succ = l.k # None /\ DumpIsValid(w, d) /\ KernelsAgree(w, d)]

-----------------------------------------------------------------------------
(* Step 3: the dump, and the custom dumps the user has written beside it     *)

OfDevice(fs, dev) ==
  LET mine == SelectSeq(fs, LAMBDA d : d.dev = dev)
  IN IF Len(fs) > 1 /\ mine # <<>> THEN <<mine[1]>> ELSE fs

CollectDataDump(w, c) ==
  [c EXCEPT !.dump = CopyAll(@, OfDevice(FindDumps(w, OnDisk(c.rename, c.line.name)), c.line.dev)),
            !.csv = IF c.rename = None THEN @ ELSE MappingOf(w, c.line.dev)]

GetCustomDumps(c) ==
  SelectSeq(ByTime(Grep(c.plog, "custom")), LAMBDA l : l.dev = c.line.dev)

(* collect_custom_dump: of several files of the name only one of the device of *)
(* the error is taken; a single one is taken whatever its device.              *)
CollectCustom(w, c, l) ==
  LET r == RenameOf(w, c.line.dev, l.name)
      found == FindDumps(w, OnDisk(r, l.name))
      take == OfDevice(found, c.line.dev)
  IN IF Len(take) # 1 THEN c
     ELSE [c EXCEPT !.dump = CopyAll(@, take),
                    !.csv = IF r = None \/ @ # None THEN @ ELSE MappingOf(w, c.line.dev)]
CollectCustomDump(w, c) == FoldLeft(LAMBDA d, l : CollectCustom(w, d, l), c, GetCustomDumps(c))

-----------------------------------------------------------------------------
(* Steps 4 to 6: the kernel and its compiled files                           *)

SkKernel(logs) == LET ls == Grep(logs, "sk") IN IF ls = <<>> THEN None ELSE ls[1].kernel

KernelNameL1(c) ==
  IF Grep(c.plog, "devfunc") = <<>> \/ Grep(c.plog, "node") = <<>> THEN None
  ELSE StemOf[Grep(c.plog, "devfunc")[1].kernel]

(* get_kernel_name_l0: the super kernel; then the first failed kernel, by the  *)
(* name its extended information gives unless that is "none".                  *)
KernelNameL0(c) ==
  LET failed == Grep(c.plog, IF c.ffts THEN "ffts" ELSE "fail")
  IN IF SkKernel(c.plog) # None THEN SkKernel(c.plog)
     ELSE IF failed = <<>> THEN None
     ELSE IF ~c.ffts /\ failed[1].ext # "none" THEN failed[1].ext
     ELSE failed[1].kernel

CollectKernelName(c) == [c EXCEPT !.kernel = IF c.level = 1 THEN KernelNameL1(c) ELSE KernelNameL0(c)]

(* collect_kernel_file: every compiled file whose path grep prints with the    *)
(* name, those that merely mention the kernel among them.                      *)
CollectKernelFile(w, c) ==
  IF c.kernel = None THEN c
  ELSE [c EXCEPT !.compile = SelectSeq(w.kernels, LAMBDA f : StemOf[c.kernel] \in f.of)]
CollectGraph(w, c) == [c EXCEPT !.graphs = w.graphs]
=============================================================================
