---------------------------- MODULE AsysStackcore ----------------------------
(***************************************************************************)
(* asys analyze -r=stackcore, coretrace and coredump: the stack files of a *)
(* directory, each parsed by a thread of its own                           *)
(* (collect/stackcore/stackcore_collect.py, collect/coretrace/             *)
(* coretrace_collect.py, analyze/coredump_analyze.py).                     *)
(*                                                                         *)
(* The content of a stackcore file is [empty, maps, frames]: whether it    *)
(* has no line at all, maps from the start addresses to the binaries of    *)
(* its [maps] part, frames the sequence of [addr, base, bin] of its        *)
(* [stack] part.  A coretrace file is the sequence of its lines,           *)
(* [kind, ...].                                                            *)
(***************************************************************************)
EXTENDS AsysTrace

CONSTANTS
  StackName, CoreName,   \* names stackcore* and coretrace*
  TxtFile                \* names *.txt

StackParser == [maps |-> <<>>]
NoFrame == [bin |-> NoPath, addr |-> -1]   \* not parsed yet

(***************************************************************************)
(* ParseStackCore.  parse_line: the binary of a frame is looked up in the  *)
(* symbol path; without one, in the maps that the parser has, or else it   *)
(* is the one the line names.  addr2line is given the address relative to  *)
(* the start of the binary, unless readelf says it is an executable.       *)
(***************************************************************************)
BinaryOf(frame, maps, symbols) ==
  IF symbols # <<>>
  THEN LET found == SelectSeq(symbols, LAMBDA d : Append(d, Last(frame.bin)) \in Nodes(tree))
       IN IF found = <<>> THEN NoPath ELSE Append(Head(found), Last(frame.bin))
  ELSE IF frame.base \in DOMAIN maps THEN maps[frame.base] ELSE frame.bin

ParseLine(frame, maps, symbols) ==
  LET bin == BinaryOf(frame, maps, symbols) IN
  IF ~CheckFile(tree, bin) THEN [bin |-> NoPath, addr |-> frame.addr]
  ELSE [bin |-> bin,
        addr |-> IF tree.file[bin].exec THEN frame.addr ELSE frame.addr - frame.base]

StartStack(files) ==
  /\ parser' = StackParser
  /\ threads' = [p \in files |->
       [pc |-> "stack", lines |-> [i \in DOMAIN tree.file[p].frames |-> NoFrame]]]

\* start_parse_file, up to set_maps_addr_binary_path.
StackOpen(p, symbols, tools) ==
  /\ threads[p].pc = "stack"
  /\ IF Last(p) \notin StackName \/ ~tools \/ ~Readable(tree, p) \/ tree.file[p].empty
     THEN TraceFails(p) ELSE TraceGoes(p, IF symbols = <<>> THEN "maps" ELSE "lines")
  /\ UNCHANGED <<tree, parser>>

\* set_maps_addr_binary_path adds to the one dictionary of the parser.
StackMaps(p) ==
  LET maps == tree.file[p].maps IN
  /\ threads[p].pc = "maps"
  /\ parser' = [maps |-> [a \in DOMAIN parser.maps \cup DOMAIN maps |->
                            IF a \in DOMAIN maps THEN maps[a] ELSE parser.maps[a]]]
  /\ TraceGoes(p, "lines")
  /\ UNCHANGED tree

\* A thread for each line that is a frame with two addresses.
StackLine(p, symbols) ==
  /\ threads[p].pc = "lines"
  /\ \E i \in DOMAIN threads[p].lines :
       /\ threads[p].lines[i] = NoFrame
       /\ threads' = [threads EXCEPT ![p].lines[i] =
                        ParseLine(tree.file[p].frames[i],
                                  IF symbols = <<>> THEN parser.maps ELSE <<>>, symbols)]
  /\ UNCHANGED <<tree, parser>>

StackWrite_NoJoin(p) ==
  /\ threads[p].pc = "lines"
  /\ tree' = WithFile(tree, p, [of |-> p, frames |-> threads[p].lines])
  /\ TraceGoes(p, "done")
  /\ UNCHANGED parser

\* All lines joined: file_lines_add_stack_num, and the file is rewritten.
StackWrite(p) ==
  /\ threads[p].pc = "lines"
  /\ \A i \in DOMAIN threads[p].lines : threads[p].lines[i] # NoFrame
  /\ tree' = WithFile(tree, p, [of |-> p, frames |-> threads[p].lines])
  /\ TraceGoes(p, "done")
  /\ UNCHANGED parser

(***************************************************************************)
(* ParseCoreTrace: the maps are read as the lines go by, and a frame finds *)
(* the mapping that holds its address, which is four less for every frame  *)
(* but the first.  The base of a binary is its lowest mapping so far.      *)
(***************************************************************************)
Mapping(maps, bin) == SelectSeq(maps, LAMBDA m : m.bin = bin)
Holds(m, a) == m.start <= a /\ a < m.end
BaseOf(maps, bin) ==
  LET own == Mapping(maps, bin)
  IN (CHOOSE i \in DOMAIN own : \A j \in DOMAIN own : own[i].start <= own[j].start)

CoreFrame(maps, line) ==
  LET a == line.addr - (IF line.first THEN 0 ELSE 4)
      hits == SelectSeq(maps, LAMBDA m : m.bin # NoPath /\ Holds(m, a))
  IN IF hits = <<>> THEN <<>>
     ELSE LET bin == Head(hits).bin
          IN << [bin |-> bin, delta |-> a - Mapping(maps, bin)[BaseOf(maps, bin)].start] >>

CoreLine(acc, line) ==
  CASE line.kind = "frame" -> [acc EXCEPT !.text = @ \o CoreFrame(acc.maps, line)]
    [] line.kind = "map" -> [acc EXCEPT !.maps = Append(@, line)]
    [] line.kind = "driver" -> acc          \* uburma, davinci_manager
    [] OTHER -> [acc EXCEPT !.text = Append(@, line)]

ParseCore(lines) == FoldLeft(CoreLine, [maps |-> <<>>, text |-> <<>>], lines).text

StartCore(files) ==
  /\ threads' = [p \in files |-> [pc |-> "core", lines |-> <<>>]]
  /\ UNCHANGED parser

CoreParse(p, tools) ==
  /\ threads[p].pc = "core"
  /\ IF ~tools \/ tree.file[p].core = <<>>
     THEN TraceFails(p) /\ UNCHANGED tree
     ELSE /\ tree' = WithFile(tree, p, [of |-> p, core |-> ParseCore(tree.file[p].core)])
          /\ TraceGoes(p, "done")
  /\ UNCHANGED parser

StackStep(symbols, tools) ==
  \E p \in DOMAIN threads :
    \/ StackOpen(p, symbols, tools) \/ StackMaps(p) \/ StackLine(p, symbols) \/ StackWrite(p)
    \/ CoreParse(p, tools)

\* run: the directory is a success when any of its files is.
StackResult == \E p \in DOMAIN threads : threads[p].pc = "done"

(***************************************************************************)
(* CoreDump.start_gdb: what one gdb session tells, line by line.  Its text *)
(* has the stacks only when both the mappings and the stacks were found;   *)
(* a pid of 0, for a core without a process line, fails the command.       *)
(***************************************************************************)
NoDump == [pid |-> 0, thread |-> NoPath, stacks |-> <<>>, maps |-> <<>>, last |-> NoPath,
           ended |-> FALSE]

\* collect_info: mappings of the same binary in a row widen one entry.
Widen(m, line) ==
  [m EXCEPT !.start = IF line.start < @ THEN line.start ELSE @,
            !.end = IF line.end > @ THEN line.end ELSE @]
CollectInfo(d, line) ==
  IF line.kind = "frame" /\ d.thread # NoPath
  THEN [d EXCEPT !.stacks = [t \in DOMAIN @ \cup {d.thread} |->
          IF t # d.thread THEN @[t]
          ELSE IF t \in DOMAIN @ THEN Append(@[t], line) ELSE <<line>>]]
  ELSE IF line.kind = "map"
  THEN [d EXCEPT !.maps = IF line.bin = d.last THEN Append(Front(@), Widen(Last(@), line))
                          ELSE Append(@, line),
                 !.last = line.bin]
  ELSE d

GdbLine(d, line) ==
  IF d.ended THEN d
  ELSE CASE line.kind = "missing" -> [d EXCEPT !.ended = TRUE]
         [] line.kind = "process" -> [d EXCEPT !.pid = line.pid]
         [] line.kind = "thread" -> [d EXCEPT !.thread = line.thread]
         [] OTHER -> CollectInfo(d, line)

StartGdb(lines) == FoldLeft(GdbLine, NoDump, lines)

\* view_map: strictly inside a mapping; a frame outside all of them is left
\* out unless symbols were asked for.
ViewMap(maps, frame, symbol) ==
  LET hits == SelectSeq(maps, LAMBDA m : m.start < frame.addr /\ frame.addr < m.end) IN
  IF hits # <<>> THEN << [frame |-> frame.no, bin |-> Head(hits).bin] >>
  ELSE IF symbol THEN << [frame |-> frame.no, bin |-> NoPath] >> ELSE <<>>

ParseStackcore(maps, frames, symbol) ==
  FlattenSeq([i \in DOMAIN frames |->
    IF symbol /\ frames[i].named THEN << [frame |-> frames[i].no, bin |-> "named"] >>
    ELSE IF ~frames[i].hex THEN << [frame |-> frames[i].no, bin |-> "ignored"] >>
    ELSE ViewMap(maps, frames[i], symbol)])

CoreDumpText(lines, symbol) ==
  LET d == StartGdb(lines) IN
  IF d.ended \/ d.stacks = <<>> \/ d.maps = <<>> THEN [pid |-> d.pid, stacks |-> <<>>]
  ELSE [pid |-> d.pid,
        stacks |-> [t \in DOMAIN d.stacks |-> ParseStackcore(d.maps, d.stacks[t], symbol)]]

(***************************************************************************)
(* The registers of the frames, read from a gdb session of their own: the  *)
(* loop ends only when all three were seen, and a session that ends before *)
(* that is read for ever.  A machine of another type reads none.           *)
(***************************************************************************)
RegLoopEnds(answers) == \A i \in DOMAIN answers : answers[i] = {"fp", "sp", "pc"}
RegLevels == {0, 1, 2}      \* off, of each thread, of each frame
RegSessions(level, stacks) ==
  CASE level = 1 -> {DOMAIN stacks}
    [] level = 2 -> {{t} : t \in DOMAIN stacks}
    [] OTHER -> {}
==============================================================================
