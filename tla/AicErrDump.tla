----------------------------- MODULE AicErrDump -----------------------------
(* The dump parser of msaicerr, the tiling data and the second-level pointers. *)
(* The dump of the failed operator gives the tensors for the rerun, the state  *)
(* of the addresses and the tiling data; custom dumps are parsed by the same   *)
(* code, which keeps their tensors and their header apart, but neither their   *)
(* tiling data nor what it finds in their values.                              *)
(*                                                                             *)
(* A dump file is [dev, name, copy, body]; its body has items (kind, argument  *)
(* index, type, whether a value is NaN or infinite), the tiling data, what the *)
(* header says (dfx) and the user's tag. "ok" says whether the file can be     *)
(* read: "yes", "no" (header, size or parser library) or "half" (an output has *)
(* a shape that is no shape).                                                  *)
EXTENDS AicErrCollect, Integers

CONSTANTS NativeType      \* the types numpy can read

ParseTypes == <<"input", "output", "space">>
NoParse == [tiling |-> None, dfx |-> [addr |-> FALSE, ffts |-> 0], bins |-> <<>>,
            spaces |-> <<>>, meta |-> <<>>, invalid |-> FALSE, apart |-> {}, files |-> <<>>]

-----------------------------------------------------------------------------
(* Which files are parsed                                                    *)

(* _get_custom_dump_files: the names the logs give, as they lie in the dump    *)
(* directory, where a long name is looked up in mapping.csv.                   *)
CustomDumpFiles(w, c) ==
  LET OnDiskName(l) ==
        IF c.csv # None /\ ~\E i \in 1..Len(c.dump) : c.dump[i].name = l.name
        THEN IF l.name \in DOMAIN w.maps[c.csv] THEN w.maps[c.csv][l.name] ELSE None
        ELSE l.name
      names == {OnDiskName(l) : l \in ToSet(Grep(c.plog, "custom"))}
  IN {f \in ToSet(c.dump) : f.name \in names /\ f.copy = 0}

(* DumpDataParser.parse on a directory: the files whose name contains the name *)
(* of the node, unless they end like a custom dump nobody registered; then the *)
(* registered ones.                                                            *)
MatchName(w, c, node, data) ==
  IF c.csv # None /\ data \in DOMAIN w.maps[c.csv] THEN w.maps[c.csv][data] ELSE node
MatchDumpList(w, c, node, data, customs) ==
  LET match == MatchName(w, c, node, data)
      hit == SelectSeq(c.dump, LAMBDA f :
               /\ match \in NameOf[f.name].has
               /\ f.copy = 0 \/ ~NameOf[f.name].dotted
               /\ ~NameOf[f.name].custom \/ f \in customs)
  IN hit \o SelectSeq(c.dump, LAMBDA f : f \in customs /\ f \notin ToSet(hit))

-----------------------------------------------------------------------------
(* Parsing one file                                                          *)

(* _get_item_dtype: the header's type, unless it says nothing.                 *)
ItemType(item, json) ==
  IF item.kind = "space" THEN "int8"
  ELSE IF item.dtype # "undefined" THEN item.dtype
  ELSE IF <<item.kind, item.index>> \in DOMAIN json THEN json[<<item.kind, item.index>>]
  ELSE item.dtype

(* _check_tensor_data: only a type numpy knows, and no empty data.             *)
DataInvalid(item, dtype) == dtype \in NativeType /\ item.size > 0 /\ item.nan

(* _parse_one_item, _save_array: the tensor of a custom dump goes to a directory *)
(* of its own and to none of the lists.                                        *)
ParseOneItem(p, file, item, custom, json) ==
  LET dtype == ItemType(item, json)
      tensor == [name |-> file.name, kind |-> item.kind, index |-> item.index,
                 size |-> item.size, npy |-> dtype \in NativeType]
      q == [p EXCEPT !.invalid = @ \/ DataInvalid(item, dtype)]
  IN IF custom THEN [q EXCEPT !.apart = @ \cup {tensor}]
     ELSE [q EXCEPT !.spaces = IF item.kind = "space" THEN Append(@, tensor) ELSE @,
                    !.bins = IF item.kind = "space" THEN @ ELSE Append(@, tensor),
                    !.meta = Append(@, [kind |-> item.kind, arg |-> item.arg, file |-> tensor])]

ItemsOf(body, type) == SelectSeq(body.items, LAMBDA i : i.kind = type)
SaveData(p, file, type, custom, json) ==
  FoldLeft(LAMBDA q, i : ParseOneItem(q, file, i, custom, json), p, ItemsOf(file.body, type))

(* parse_dump_data: the tiling data first, then the tensors in the order of the *)
(* types, last what the header says. An unreadable file changes nothing.       *)
SaveDfx_Any(p, file, custom) == [p EXCEPT !.dfx = file.body.dfx]
SaveDfx(p, file, custom) == IF custom THEN p ELSE [p EXCEPT !.dfx = file.body.dfx]
ParseDumpData(p, file, custom, json) ==
  LET t == [p EXCEPT !.tiling = file.body.tiling]
      d == FoldLeft(LAMBDA q, y : SaveData(q, file, y, custom, json), t, ParseTypes)
  IN CASE file.body.ok = "no"   -> p
       [] file.body.ok = "half" -> SaveData(t, file, "input", custom, json)
       [] OTHER                 -> SaveDfx(d, file, custom)

ParseDumps(w, c, node, data, json) ==
  LET customs == CustomDumpFiles(w, c)
      files == MatchDumpList(w, c, node, data, customs)
  IN FoldLeft(LAMBDA p, f : ParseDumpData(p, f, f \in customs, json),
              [NoParse EXCEPT !.files = files], files)

(* convert_bin_file_to_npy and the other cases of a path that is a file.       *)
ConvertFile(kind, dtype, ok) ==
  CASE kind = "npy" -> "nothing"
    [] kind = "bin" /\ dtype = None -> "nothing"
    [] kind = "bin" /\ dtype = "bad" -> "nothing"
    [] kind = "bin" -> IF ok THEN "npy" ELSE "raised"
    [] dtype # None -> "nothing"
    [] OTHER -> IF ok THEN "tensors" ELSE "nothing"

-----------------------------------------------------------------------------
(* The tiling data in the log                                                *)

(* A list of Python: a negative index counts from the end.                     *)
PyIndex(s, i) == IF i >= 0 THEN i + 1 ELSE Len(s) + i + 1
PyInside(s, i) == PyIndex(s, i) \in 1..Len(s)
Word(v, base) == (v - base) \div 8
NoBlock == [args |-> <<>>, base |-> -1]
ArgsBlock(logs) ==
  LET a == Grep(logs, "after")
      b == Grep(logs, "base")
  IN [args |-> IF a = <<>> THEN <<>> ELSE a[1].vals, base |-> IF b = <<>> THEN -1 ELSE b[1].value]

(* The addresses adump has printed, where a pointer tensor stands for what it  *)
(* points to.                                                                  *)
IoAddresses(logs) ==
  LET ps == SelectSeq(Grep(logs, "block"), LAMBDA l : l.pointer)
      Key(v) == LET of == SelectSeq(ps, LAMBDA l : v \in ToSet(l.addrs))
                IN IF of = <<>> THEN v ELSE of[1].key
  IN {Key(v) : v \in UNION {ToSet(l.addrs) : l \in ToSet(Grep(logs, "block"))}}

(* TilingDataParser: where the pointer to the tiling data stands among the     *)
(* arguments, said by the log or guessed as the one behind the last address.   *)
ExplicitTiling(logs) ==
  LET ls == SelectSeq(Grep(logs, "load"), LAMBDA l : l.what = "tiling")
  IN IF ls = <<>> THEN -1 ELSE ls[1].index
GuessedTiling(args, io) ==
  LET hits == {i \in 1..Len(args) : args[i] \in io} IN IF hits = {} THEN -1 ELSE Max(hits)
FirstInside(args, base) ==
  LET hits == {i \in 1..Len(args) : Word(args[i], base) > 0 /\ Word(args[i], base) < Len(args)}
  IN IF hits = {} THEN -1 ELSE Min(hits) - 1
TilingIndex(logs, b) ==
  LET said == ExplicitTiling(logs)
      guess == IF said # -1 THEN said ELSE GuessedTiling(b.args, IoAddresses(logs))
  IN IF guess = -1 THEN FirstInside(b.args, b.base) ELSE guess
TilingFromLog(logs) ==
  LET b == ArgsBlock(logs)
      i == TilingIndex(logs, b)
      off == IF i \in 0..(Len(b.args) - 1) THEN Word(b.args[i + 1], b.base) ELSE -1
  IN IF b.base = -1 \/ off \notin 0..(Len(b.args) - 1) THEN None
     ELSE SubSeq(b.args, off + 1, Len(b.args))

-----------------------------------------------------------------------------
(* The second-level pointers of the rerun                                    *)

(* _get_sub_ptr: the blocks count the tensors as they go; a pointer tensor has *)
(* the number of the tensors before it, and the same address counts once.      *)
PointerTensors(logs, nbins) ==
  FoldLeft(LAMBDA s, l :
             IF s.idx > nbins - 1 THEN s
             ELSE [idx |-> s.idx + Len(l.addrs),
                   found |-> IF l.pointer /\ ~\E i \in 1..Len(s.found) : s.found[i].key = l.key
                             THEN Append(s.found, [idx |-> s.idx, key |-> l.key,
                                                   count |-> Len(l.addrs)])
                             ELSE s.found],
           [idx |-> 0, found |-> <<>>], Grep(logs, "block")).found

(* The arguments from the pointer on, as many words as the value there says.   *)
SubPtrOf(b, t) ==
  LET off == Word(t.key, b.base)
      clip == b.args[PyIndex(b.args, off)] \div 8
  IN IF off >= Len(b.args) THEN {}
     ELSE IF ~PyInside(b.args, off) THEN {[idx |-> -1, count |-> 0]}
     ELSE IF off + clip >= Len(b.args) THEN {}
     ELSE {[idx |-> t.idx, count |-> t.count]}
GetSubPtr(logs, nbins) ==
  LET b == ArgsBlock(logs)
  IN IF b.args = <<>> \/ b.base = -1 THEN {}
     ELSE UNION {SubPtrOf(b, t) : t \in ToSet(PointerTensors(logs, nbins))}
=============================================================================
