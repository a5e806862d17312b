------------------------------ MODULE AsysTrace ------------------------------
(***************************************************************************)
(* The parser of binary trace files (collect/trace/trace_collect.py): one  *)
(* thread for each .bin file below a directory, and one parser object that *)
(* all of them share, with the clock of the header it read last.           *)
(*                                                                         *)
(* The content of a .bin file is a record:                                 *)
(*   version, magic, type   of the control head                            *)
(*   clock       the clock of the head, [tz, real, freq]; freq only counts *)
(*               in version 3                                              *)
(*   structs     from a struct type to its items, sequences of             *)
(*               [width, array, length]                                    *)
(*   slot        the bytes reserved for the data of a message              *)
(*   msgs        the messages, of Message                                  *)
(*   bytes       the bytes that are in the file after the structs          *)
(***************************************************************************)
EXTENDS AsysFiles

CONSTANTS
  BinFile,      \* the names *.bin
  TxtOf,        \* from the name of a file to the name of its text, stem.txt
  MagicOf       \* from the versions that are known to their magic number

\* Two .bin files of a directory have texts of their own, and no text is a .bin file.
ASSUME TxtAssumption ==
  \A b, c \in BinFile : TxtOf[b] \notin BinFile /\ (TxtOf[b] = TxtOf[c] => b = c)

VARIABLES
  tree,         \* the files, see AsysFiles
  parser,       \* the attributes of the shared ParseTrace object
  threads       \* from the .bin files being parsed to [pc, pos, msg, text]

traceVars == <<tree, parser, threads>>

Message == [txt : Nat, busy : BOOLEAN, type : Nat]
IsTrace(bin) == bin.slot \in Nat /\ bin.msgs \in Seq(Message)
MsgHead == 16   \* cycle, txt_size, busy, struct_type and two reserved bytes
HeadFields == <<"tz", "real", "freq">>
NewParser == [tz |-> 0, real |-> 0, freq |-> 0]

\* parse_msg_data: how many bytes an item takes of the txt bytes it may take.
ItemUse(item, txt) ==
  LET limit == IF item.length < txt THEN item.length ELSE txt IN
  CASE limit <= 0 -> 0
    [] limit > 0 /\ item.array -> limit
    [] OTHER -> item.width
ItemFits(item, txt) ==
  LET limit == IF item.length < txt THEN item.length ELSE txt IN
  limit <= 0 \/ (IF item.array THEN limit % item.width = 0 ELSE limit >= item.width)

\* txt_size is not reduced from one item to the next.
MessageUse(items, txt) == FoldLeft(LAMBDA n, item : n + ItemUse(item, txt), 0, items)
MessageFits(items, txt) == \A i \in DOMAIN items : ItemFits(items[i], txt)

TraceFiles(dir) ==
  {p \in FilesBelow(tree, dir) : Last(p) \in BinFile}

\* ParseTrace(): a new object, and run starts one thread for each file.
StartTrace(files) ==
  /\ parser' = NewParser
  /\ threads' = [p \in files |-> [pc |-> "open", pos |-> 0, msg |-> 1, text |-> <<>>]]

TraceFails(p) == threads' = [threads EXCEPT ![p].pc = "failed"]
TraceGoes(p, pc) == threads' = [threads EXCEPT ![p].pc = pc]

\* parse_ctrl_head, up to the sizes.
TraceOpen(p) ==
  /\ threads[p].pc = "open"
  /\ IF \/ ~Readable(tree, p)
        \/ tree.file[p].version \notin DOMAIN MagicOf
        \/ MagicOf[tree.file[p].version] # tree.file[p].magic
        \/ tree.file[p].type # 0
     THEN TraceFails(p) ELSE TraceGoes(p, "tz")
  /\ UNCHANGED <<tree, parser>>

\* parse_ctrl_head: the three attributes, one assignment after the other.
TraceHead(p) ==
  \E i \in DOMAIN HeadFields :
    /\ threads[p].pc = HeadFields[i]
    /\ parser' = IF HeadFields[i] = "freq" /\ tree.file[p].version # 3 THEN parser
                 ELSE [parser EXCEPT ![HeadFields[i]] = tree.file[p].clock[HeadFields[i]]]
    /\ TraceGoes(p, IF i = Len(HeadFields) THEN "structs" ELSE HeadFields[i + 1])
    /\ UNCHANGED tree

\* The check of the sizes, parse_struct_segment and the data head of 16 bytes.
TraceStructs(p) ==
  /\ threads[p].pc = "structs"
  /\ IF \/ tree.file[p].structs = <<>>
        \/ tree.file[p].bytes < 16
     THEN TraceFails(p)
     ELSE threads' = [threads EXCEPT ![p].pc = "messages", ![p].pos = 16]
  /\ UNCHANGED <<tree, parser>>

(***************************************************************************)
(* One message.  Its line records the message and the clock it is stamped  *)
(* with; read out of place, the bytes are no message at all (Noise).       *)
(* Skipping past the end of the file goes unnoticed, reading does not.     *)
(***************************************************************************)
Noise == 0
Offset(bin, i) == 16 + (i - 1) * (MsgHead + bin.slot)

TraceMessage(p) ==
  LET bin == tree.file[p]
      th == threads[p]
      m == bin.msgs[th.msg]
      known == m.type \in DOMAIN bin.structs
      items == bin.structs[m.type]
      use == MessageUse(items, m.txt)
      skip == IF use <= bin.slot THEN bin.slot ELSE use
      line == [msg |-> IF th.pos = Offset(bin, th.msg) THEN th.msg ELSE Noise, clock |-> parser]
      next(n) == [th EXCEPT !.pos = @ + MsgHead + n, !.msg = @ + 1]
  IN /\ th.pc = "messages"
     /\ th.msg <= Len(bin.msgs)
     /\ IF th.pos + MsgHead > bin.bytes THEN TraceFails(p)
        ELSE IF m.busy \/ ~known THEN threads' = [threads EXCEPT ![p] = next(bin.slot)]
        ELSE IF ~MessageFits(items, m.txt) \/ th.pos + MsgHead + use > bin.bytes
             THEN TraceFails(p)
        ELSE threads' = [threads EXCEPT ![p] = [next(skip) EXCEPT !.text = Append(@, line)]]
     /\ UNCHANGED <<tree, parser>>

TextOf(p) == Append(Front(p), TxtOf[Last(p)])
TraceWrite_Early(p) ==
  /\ threads[p].pc = "messages" /\ threads[p].text # <<>>
  /\ tree' = WithFile(tree, TextOf(p), [of |-> p, lines |-> threads[p].text])
  /\ TraceGoes(p, "written")
  /\ UNCHANGED parser

\* write_res_txt; an empty text writes nothing and leaves the .bin file.
TraceWrite(p) ==
  /\ threads[p].pc = "messages"
  /\ threads[p].msg > Len(tree.file[p].msgs)
  /\ IF threads[p].text = <<>>
     THEN TraceFails(p) /\ UNCHANGED tree
     ELSE /\ tree' = WithFile(tree, TextOf(p), [of |-> p, lines |-> threads[p].text])
          /\ TraceGoes(p, "written")
  /\ UNCHANGED parser

TraceRemove(p) ==
  /\ threads[p].pc = "written"
  /\ tree' = RemoveFile(tree, p)
  /\ TraceGoes(p, "done")
  /\ UNCHANGED parser

TraceStep ==
  \E p \in DOMAIN threads :
    \/ TraceOpen(p) \/ TraceHead(p) \/ TraceStructs(p)
    \/ TraceMessage(p) \/ TraceWrite(p) \/ TraceRemove(p)

TraceEnded == \A p \in DOMAIN threads : threads[p].pc \in {"done", "failed"}

\* The messages a text should have a line for: not busy, and of a known type.
Wanted(bin) == {i \in DOMAIN bin.msgs : ~bin.msgs[i].busy /\ bin.msgs[i].type \in DOMAIN bin.structs}
==============================================================================
