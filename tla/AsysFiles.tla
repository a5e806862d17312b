------------------------------ MODULE AsysFiles ------------------------------
(***************************************************************************)
(* The file operations of asys (common/file_operate.py) on a tree, and the *)
(* directories that the environment and the log configuration name         *)
(* (drv/env_var.py, common/path.py).                                       *)
(*                                                                         *)
(* A path is the sequence of its names, <<>> the root.  A tree is a record: *)
(*   file    the content of every file, a function on paths                *)
(*   dir     the directories, empty ones included                          *)
(*   locked  the paths the user may not read                               *)
(*   frozen  the paths the user may not write                              *)
(*   names   every name, in the order in which listdir returns them        *)
(* An operation that changes the tree returns [t, ok, raised]: raised is an *)
(* exception that no caller in asys catches, and ok the returned bool.     *)
(***************************************************************************)
EXTENDS Integers, FiniteSets, SequencesExt

CONSTANT NoPath     \* None, for a path that is not set

Path == Seq(STRING) \ {<<>>}
Nodes(t) == DOMAIN t.file \cup t.dir
Ancestors(p) == {SubSeq(p, 1, n) : n \in 1..Len(p)}
Inside(t, d) == {p \in Nodes(t) : IsPrefix(d, p)}
Readable(t, p) == p \in Nodes(t) \ t.locked
Writable(t, p) == p \in Nodes(t) \ t.frozen

CheckFile(t, p) == p # NoPath /\ p \in DOMAIN t.file
CheckDir(t, p) == p # NoPath /\ p \in t.dir
CheckExists(t, p) == CheckFile(t, p) \/ CheckDir(t, p)

(***************************************************************************)
(* list_dir: an unreadable directory gives False and an empty one [], which *)
(* every caller treats alike; both are the empty sequence here.            *)
(***************************************************************************)
ListDir(t, p) ==
  IF ~Readable(t, p) THEN <<>>
  ELSE SelectSeq(t.names, LAMBDA n : Append(p, n) \in Nodes(t))

CheckEmpty(t, p) == ~CheckDir(t, p) \/ ListDir(t, p) = <<>>
ValidDir(t, p) == CheckDir(t, p) /\ ListDir(t, p) # <<>>

\* os.walk: the files below d, and one of the orders a walk may take.
FilesBelow(t, d) ==
  {p \in DOMAIN t.file : /\ CheckDir(t, d) /\ p \in Path /\ IsPrefix(d, p)
                         /\ \A a \in Ancestors(Front(p)) : a \notin t.locked}
WalkFiles(t, d) == FoldSet(LAMBDA p, walk : Append(walk, p), <<>>, FilesBelow(t, d))

Done(t) == [t |-> t, ok |-> TRUE, raised |-> FALSE]
Failed(t) == [t |-> t, ok |-> FALSE, raised |-> FALSE]
Raised(t) == [t |-> t, ok |-> FALSE, raised |-> TRUE]

Without(t, gone) ==
  [file |-> [p \in DOMAIN t.file \ gone |-> t.file[p]], dir |-> t.dir \ gone,
   locked |-> t.locked, frozen |-> t.frozen, names |-> t.names]
WithFile(t, p, c) ==
  [file |-> [q \in DOMAIN t.file \cup {p} |-> IF q = p THEN c ELSE t.file[q]],
   dir |-> t.dir \cup Ancestors(Front(p)),
   locked |-> t.locked, frozen |-> t.frozen, names |-> t.names]

\* create_dir: makedirs with exist_ok=False, OSError is caught.
CreateDir(t, p) ==
  IF p \in Nodes(t) \/ \E a \in Ancestors(p) : a \in DOMAIN t.file \cup t.frozen
  THEN Failed(t)
  ELSE Done([t EXCEPT !.dir = @ \cup Ancestors(p)])

RemoveFile(t, p) == IF p \in Nodes(t) THEN Without(t, {p}) ELSE t
RemoveDir(t, d) ==
  IF Writable(t, d) THEN Done(Without(t, Inside(t, d))) ELSE Failed(t)

\* delete_dirs: what cannot be removed is logged and stays.
DeleteDirs(t, ds) == FoldLeft(LAMBDA u, d : RemoveDir(u, d).t, t, ds)

\* write_file: the directory is made when it is missing, OSError is caught.
WriteFile(t, p, c) ==
  LET d == Front(p)
      made == IF d \in Nodes(t) THEN Done(t) ELSE CreateDir(t, d)
  IN IF ~made.ok \/ p \in t.dir \cup t.frozen \/ d \in t.frozen
     THEN Failed(made.t)
     ELSE Done(WithFile(made.t, p, c))

\* copy_file_to_dir: an equal name in the target directory is overwritten.
CopyFileToDir(t, p, d) ==
  IF ~(CheckFile(t, p) /\ Readable(t, p)) THEN Failed(t)
  ELSE Done(WithFile(t, Append(d, Last(p)), t.file[p]))

\* move_file_to_dir: shutil.move raises when the name exists in the target.
MoveFileToDir(t, p, d) ==
  IF ~(CheckFile(t, p) /\ Readable(t, p)) THEN Failed(t)
  ELSE IF Append(d, Last(p)) \in Nodes(t) THEN Raised(t)
  ELSE Done(WithFile(Without(t, {p}), Append(d, Last(p)), t.file[p]))

Rebase(p, s, d) == d \o SubSeq(p, Len(s) + 1, Len(p))
Unbase(p, s, d) == Rebase(p, d, s)

\* The tree with a copy of directory s at d.
Grafted(t, s, d) ==
  LET files == {p \in Inside(t, s) : p \in DOMAIN t.file}
      new == {Rebase(p, s, d) : p \in files}
  IN [t EXCEPT
        !.file = [p \in DOMAIN @ \cup new |->
                    IF p \in new THEN @[Unbase(p, s, d)] ELSE @[p]],
        !.dir = @ \cup Ancestors(d)
                  \cup {Rebase(p, s, d) : p \in Inside(t, s) \ files}]

\* copy_dir: copytree raises when the target exists.
CopyDir(t, s, d) ==
  IF ~(CheckDir(t, s) /\ Readable(t, s)) \/ IsPrefix(s, d) THEN Failed(t)
  ELSE IF d \in Nodes(t) THEN Raised(t)
  ELSE Done(Grafted(t, s, d))

\* move_dir: an existing target is removed first, with all it holds.
MoveDir(t, s, d) ==
  IF ~(CheckDir(t, s) /\ Readable(t, s)) THEN Failed(t)
  ELSE LET cleared == Without(t, Inside(t, d))
       IN Done(Without(Grafted(cleared, s, d), Inside(t, s)))

CollectDir(t, s, d, mode) ==
  IF mode = "m" THEN MoveDir(t, s, d) ELSE CopyDir(t, s, d)
CollectFileToDir(t, p, d, mode) ==
  IF mode = "m" THEN MoveFileToDir(t, p, d) ELSE CopyFileToDir(t, p, d)

(***************************************************************************)
(* The loops over collections: AndThen is ret = ret and f(...), which runs *)
(* nothing after a failure; AlsoThen is cur = f(...); ret = ret and cur.   *)
(* An exception ends both.                                                 *)
(***************************************************************************)
AndThen(acc, Op(_)) == IF acc.raised \/ ~acc.ok THEN acc ELSE Op(acc.t)
AlsoThen(acc, Op(_)) ==
  IF acc.raised THEN acc
  ELSE LET r == Op(acc.t) IN [r EXCEPT !.ok = @ /\ acc.ok]

(***************************************************************************)
(* EnvVarName: a variable counts when it names a directory; the custom     *)
(* operator packages keep their order, without repeats and without those   *)
(* that cannot be read.                                                    *)
(***************************************************************************)
EnvPath(t, p) == IF CheckDir(t, p) THEN p ELSE NoPath
EnvPaths(t, raw) ==
  FoldLeft(LAMBDA seen, p : IF CheckDir(t, p) /\ Readable(t, p) /\ ~Contains(seen, p)
                            THEN Append(seen, p) ELSE seen,
           <<>>, raw)
EnvVarName(t, env) ==
  [process_log |-> EnvPath(t, env.process_log), npu_collect |-> EnvPath(t, env.npu_collect),
   dump_graph |-> EnvPath(t, env.dump_graph), work |-> EnvPath(t, env.work),
   cache |-> EnvPath(t, env.cache), opp |-> EnvPath(t, env.opp),
   custom_opp |-> EnvPaths(t, env.custom_opp), cwd |-> env.cwd, home |-> env.home]

\* get_log_conf_path: the last configuration file that names a directory wins.
LogConfPath(t, confs, default) ==
  FoldLeft(LAMBDA found, c : IF CheckFile(t, c) /\ Readable(t, c) /\ t.file[c].logdir # NoPath
                             THEN t.file[c].logdir ELSE found,
           default, confs)

\* get_cann_log_path: where the host processes write logs of a type.
CannLogPath(t, env, type) ==
  LET e == EnvVarName(t, env)
  IN IF type = "log" /\ e.process_log # NoPath THEN e.process_log
     ELSE IF e.work # NoPath THEN Append(e.work, type)
     ELSE e.home \o <<"ascend", type>>
==============================================================================
