------------------------------ MODULE AsysArgs ------------------------------
(***************************************************************************)
(* The command line of asys (cmdline/cmd_parser.py, cmdline/arg_checker.py), *)
(* the parameters it leaves (params/param_dict.py) and the configuration   *)
(* (config/config_parser.py).                                              *)
(*                                                                         *)
(* An invocation is [cmd, dup, opts]: dup says that an option is repeated, *)
(* and opts maps the options given to their values.  A path argument is    *)
(* [text, path], where text is "plain" or what is wrong with the string;   *)
(* an integer argument that does not convert is the value NotInt.          *)
(***************************************************************************)
EXTENDS AsysFiles

CONSTANTS NotInt, MaxDeviceId

CollectCmds == {"collect", "launch", "analyze"}
RcCmds == {"collect", "launch"}

\* The options of a command in the order in which they are declared and checked.
Options(cmd) ==
  CASE cmd = "collect" -> <<"task_dir", "output", "tar", "r", "remote", "all", "quiet", "timeout">>
    [] cmd = "launch" -> <<"task", "output", "tar">>
    [] cmd = "diagnose" -> <<"r", "d", "timeout", "output">>
    [] cmd = "health" -> <<"d">>
    [] cmd = "info" -> <<"r", "d">>
    [] cmd = "analyze" -> <<"r", "d", "file", "path", "exe_file", "core_file", "symbol",
                            "symbol_path", "reg", "output">>
    [] cmd = "config" -> <<"get", "d", "restore", "stress_detect">>
    [] cmd = "profiling" -> <<"d", "r", "output", "p", "aic_metrics">>

Required(cmd) ==
  CASE cmd = "launch" -> {"task"}
    [] cmd \in {"diagnose", "info", "analyze"} -> {"r"}
    [] cmd = "config" -> {"stress_detect"}
    [] cmd = "profiling" -> {"r", "p"}
    [] OTHER -> {}

RunModes(cmd) ==
  CASE cmd = "collect" -> {"stacktrace"}
    [] cmd = "diagnose" -> {"stress_detect", "hbm_detect", "cpu_detect", "component",
                            "aicore_stl_detect"}
    [] cmd = "info" -> {"hardware", "software", "status"}
    [] cmd = "analyze" -> {"trace", "coredump", "coretrace", "stackcore", "aicore_error", "ub"}
    [] OTHER -> {}

IntOptions == {"remote", "timeout", "d", "symbol", "reg", "p"}
IntChoices(opt) == CASE opt = "symbol" -> {0, 1} [] opt = "reg" -> {0, 1, 2}

(***************************************************************************)
(* What argparse itself decides: "parsed", or SystemExit with a code.  On  *)
(* an RC only the commands collect and launch exist.                       *)
(***************************************************************************)
BadValue(cmd, opt, v) ==
  \/ opt \in IntOptions /\ v = NotInt
  \/ opt \in {"symbol", "reg"} /\ v \notin IntChoices(opt)
  \/ opt = "r" /\ RunModes(cmd) # {} /\ v \notin RunModes(cmd)

GetAndRestore(inv) == inv.cmd = "config" /\ {"get", "restore"} \subseteq DOMAIN inv.opts

ParseArgs(inv, envtype) ==
  IF inv.cmd = "help" THEN "exit_0"
  ELSE IF inv.cmd = "none" THEN "parsed"
  ELSE IF \/ envtype = "RC" /\ inv.cmd \notin RcCmds
          \/ GetAndRestore(inv)
          \/ ~(DOMAIN inv.opts \subseteq ToSet(Options(inv.cmd)))
          \/ ~(Required(inv.cmd) \subseteq DOMAIN inv.opts)
          \/ inv.cmd = "analyze" /\ {"file", "path"} \subseteq DOMAIN inv.opts
          \/ \E o \in DOMAIN inv.opts : BadValue(inv.cmd, o, inv.opts[o])
       THEN "exit_2"
  ELSE "parsed"

(***************************************************************************)
(* cmdline/arg_checker.py                                                  *)
(***************************************************************************)
PathStrCheck(v) == v.text = "plain"

CheckArgExistDir(t, v) == PathStrCheck(v) /\ CheckDir(t, v.path)

\* A shell or python without a script is refused; any other command is taken.
CheckArgExecutable(v) == v.text \notin {"empty", "shell", "shell without script"}

NearestAncestor(t, p) ==
  LET up == {a \in Ancestors(p) \cup {<<>>} : a # p /\ a \in Nodes(t) \cup {<<>>}}
  IN CHOOSE a \in up : \A b \in up : Len(b) <= Len(a)

\* The directory is created when the nearest existing one above it is writable.
CheckArgCreateDir(t, v) ==
  IF ~PathStrCheck(v) THEN Failed(t)
  ELSE IF CheckExists(t, v.path)
       THEN IF CheckDir(t, v.path) /\ Writable(t, v.path) THEN Done(t) ELSE Failed(t)
  ELSE IF NearestAncestor(t, v.path) \in t.frozen THEN Failed(t)
  ELSE CreateDir(t, v.path)

CheckArgTar(v) == v \in {"F", "T", "FALSE", "TRUE"}
CheckArgDeviceId(v, devices) == v \in 0..MaxDeviceId /\ v < devices
CheckArgReadable(t, opt, v) ==
  /\ PathStrCheck(v)
  /\ CheckExists(t, v.path) /\ Readable(t, v.path)
  /\ opt = "file" => CheckFile(t, v.path)
  /\ opt = "path" => ~CheckEmpty(t, v.path)
CheckCoreFile(t, v) == CheckFile(t, v.path)
CheckSymbolPath(t, v) == \E i \in DOMAIN v : ValidDir(t, v[i])

\* One checker: only that of --output may change the tree.
CheckArg(t, opt, v, devices) ==
  IF opt = "output" THEN CheckArgCreateDir(t, v)
  ELSE IF CASE opt = "task_dir" -> CheckArgExistDir(t, v)
            [] opt = "task" -> CheckArgExecutable(v)
            [] opt = "tar" -> CheckArgTar(v)
            [] opt = "d" -> CheckArgDeviceId(v, devices)
            [] opt \in {"file", "path"} -> CheckArgReadable(t, opt, v)
            [] opt = "core_file" -> CheckCoreFile(t, v)
            [] opt = "symbol_path" -> CheckSymbolPath(t, v)
            [] OTHER -> TRUE
       THEN Done(t) ELSE Failed(t)

\* check_args: in the order of declaration, up to the first that fails.
CheckArgs(t, inv, devices) ==
  FoldLeft(LAMBDA acc, opt :
             IF opt \notin DOMAIN inv.opts THEN acc
             ELSE AndThen(acc, LAMBDA u : CheckArg(u, opt, inv.opts[opt], devices)),
           Done(t), Options(inv.cmd))

(***************************************************************************)
(* ParamDict.set_args: the options a command keeps.  health, info and      *)
(* config return before --output; launch keeps task, tar and output.       *)
(***************************************************************************)
KeptOptions(cmd) ==
  CASE cmd = "diagnose" -> {"d", "r", "timeout", "output"}
    [] cmd = "health" -> {"d"}
    [] cmd = "info" -> {"d", "r"}
    [] cmd = "analyze" -> {"d", "r", "file", "path", "core_file", "exe_file", "symbol",
                           "symbol_path", "reg", "output"}
    [] cmd = "config" -> {"d", "get", "restore", "stress_detect"}
    [] cmd = "collect" -> {"task_dir", "r", "remote", "all", "quiet", "timeout", "tar", "output"}
    [] cmd = "launch" -> {"task", "tar", "output"}
    [] cmd = "profiling" -> {"d", "r", "p", "aic_metrics", "output"}

SetArgs(inv) == [o \in DOMAIN inv.opts \cap KeptOptions(inv.cmd) |-> inv.opts[o]]

\* get_arg gives False for an option that was not kept.
HasArg(args, opt) == opt \in DOMAIN args

(***************************************************************************)
(* config/config_parser.py: a row of the dependency file is used when it   *)
(* has a name and a command; an ini item maps to the value of an           *)
(* environment variable, a value out of its range to the default.          *)
(***************************************************************************)
IniItems == {"graph", "ops", "dump_ge_graph", "dump_graph_level", "log_level",
             "log_event_enable", "log_print_to_stdout"}
IniDefault(item) == IF item = "log_print_to_stdout" THEN "0"
                    ELSE IF item \in {"dump_ge_graph", "dump_graph_level"} THEN "2" ELSE "1"
IniRange(item) ==
  CASE item \in {"dump_ge_graph", "dump_graph_level"} -> {"1", "2", "3"}
    [] item = "log_level" -> {"0", "1", "2", "3", "4"}
    [] OTHER -> {"0", "1"}

SetDeps(rows) ==
  FoldLeft(LAMBDA deps, row : IF Len(row) < 2 \/ row[1] \in {"", "#"} \cup DOMAIN deps THEN deps
                              ELSE [n \in DOMAIN deps \cup {row[1]} |->
                                      IF n = row[1] THEN row[2] ELSE deps[n]],
           <<>>, rows)

ParseIni(section) ==
  [item \in DOMAIN section \cap IniItems |->
     IF section[item] \in IniRange(item) THEN section[item] ELSE IniDefault(item)]
==============================================================================
