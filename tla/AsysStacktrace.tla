--------------------------- MODULE AsysStacktrace ---------------------------
(***************************************************************************)
(* "asys collect -r=stacktrace" (collect/stacktrace): asys processes that  *)
(* ask a process for its stacks by signal 35, the asked processes, which   *)
(* write one .bin file per signal, and the user who answers the question.  *)
(* Every asys process is visible to the others in ps from its start to its *)
(* end, and ps and ls are read at different moments.                       *)
(*                                                                         *)
(* req[a] is what a was started with: remote is a pid or NoPid, all, quiet *)
(* and timeout; NoArg is an option that is not given.                      *)
(***************************************************************************)
EXTENDS Integers, FiniteSets, Sequences

CONSTANTS
  Tracer,        \* the asys processes
  Target,        \* the processes that can be asked
  TidOf,         \* the thread ids of a target, its pid included
  NoPid, NoArg,
  CheckBinMaxTimeout, CheckBinDefaultTimeout,
  Request,       \* the argument records with which asys is started
  MaxRequest     \* bound: how often one asys process is started

ASSUME MaxRequestAssumption == MaxRequest \in Nat

VARIABLES
  at,        \* at[a]: where the asys process a is; "idle" is not started
  req,       \* its arguments
  timeout,   \* its waiting time, in rounds of half a second
  before,    \* the number of .bin files it saw before the signal
  mine,      \* the .bin file it waits for, or 0
  copied,    \* the .bin files it has parsed and copied, with their state then
  alive,     \* the targets that exist
  signals,   \* signals[p]: pending, by the start of asys that sent each
  bins,      \* bins[p]: the .bin files of p, [by, open] in order of creation
  started,   \* how often each asys process was started
  gaveup     \* the starts of asys that stopped waiting

stVars == <<at, req, timeout, before, mine, copied, alive, signals, bins, started, gaveup>>

StartId == Tracer \X (1..MaxRequest)
Bin == [by : StartId, open : BOOLEAN]

NoRequest == [remote |-> NoPid, all |-> FALSE, quiet |-> FALSE, timeout |-> NoArg, other |-> FALSE]

StInit ==
  /\ at = [a \in Tracer |-> "idle"]
  /\ req = [a \in Tracer |-> NoRequest]
  /\ timeout = [a \in Tracer |-> 0]
  /\ before = [a \in Tracer |-> 0]
  /\ mine = [a \in Tracer |-> 0]
  /\ copied = [a \in Tracer |-> <<>>]
  /\ alive = Target
  /\ signals = [p \in Target |-> <<>>]
  /\ bins = [p \in Target |-> <<>>]
  /\ started = [a \in Tracer |-> 0]
  /\ gaveup = {}

Running(a) == at[a] \notin {"idle", "done", "failed"}
Goto(a, l) == at' = [at EXCEPT ![a] = l]
OnlyAt == UNCHANGED <<req, timeout, before, mine, copied, alive, signals, bins, started, gaveup>>

(***************************************************************************)
(* run: the options first; --task_dir and --tar (other) are refused, and   *)
(* the waiting time is 1 to 60 seconds.                                    *)
(***************************************************************************)
CheckOtherParam(r) ==
  ~r.other /\ (r.timeout # NoArg => r.timeout > 0 /\ r.timeout <= CheckBinMaxTimeout)
WaitRounds(r) == 2 * (IF r.timeout = NoArg THEN CheckBinDefaultTimeout ELSE r.timeout)

Start(a) ==
  /\ ~Running(a) /\ started[a] < MaxRequest
  /\ \E r \in Request :
       /\ req' = [req EXCEPT ![a] = r]
       /\ timeout' = [timeout EXCEPT ![a] = WaitRounds(r)]
       /\ Goto(a, IF CheckOtherParam(r) /\ r.remote # NoPid /\ r.all
                  THEN "validity" ELSE "failed")
  /\ started' = [started EXCEPT ![a] = @ + 1]
  /\ mine' = [mine EXCEPT ![a] = 0]
  /\ UNCHANGED <<before, copied, alive, signals, bins, gaveup>>

\* kill(pid, 0) and ps -p; then the warning, and the user's answer.
CheckRemoteIdValidity(a) ==
  /\ at[a] = "validity"
  /\ IF req[a].remote \notin alive THEN Goto(a, "failed")
     ELSE IF req[a].quiet THEN Goto(a, "parallel")
     ELSE Goto(a, "ask")
  /\ OnlyAt

Answer(a) ==
  /\ at[a] = "ask"
  /\ Goto(a, "parallel") \/ Goto(a, "done")
  /\ OnlyAt

(***************************************************************************)
(* _check_collect_stacktrace_parallel: another asys process that traces    *)
(* this process, or names one of its threads, or two that trace the same,  *)
(* stop this one; so does a target that is gone.                           *)
(***************************************************************************)
OtherRemotes(a) == [b \in {x \in Tracer \ {a} : Running(x) /\ req[x].remote # NoPid}
                      |-> req[b].remote]
ParallelFree_OthersOnly(a) ==
  \A b, x \in DOMAIN OtherRemotes(a) : OtherRemotes(a)[x] = OtherRemotes(a)[b] => x = b

ParallelFree(a) ==
  LET others == OtherRemotes(a) IN
  \/ DOMAIN others = {}
  \/ /\ req[a].remote \in alive
     /\ \A b \in DOMAIN others :
          /\ others[b] \notin TidOf[req[a].remote] \cup {req[a].remote}
          /\ \A x \in DOMAIN others : others[x] = others[b] => x = b

CheckCollectStacktraceParallel(a) ==
  /\ at[a] = "parallel"
  /\ Goto(a, IF ParallelFree(a) THEN "count" ELSE "failed")
  /\ OnlyAt

GetExistsBinFileNum(a) ==
  /\ at[a] = "count"
  /\ before' = [before EXCEPT ![a] = Len(bins[req[a].remote])]
  /\ Goto(a, "signal")
  /\ UNCHANGED <<req, timeout, mine, copied, alive, signals, bins, started, gaveup>>

SendSignalToPid(a) ==
  /\ at[a] = "signal"
  /\ IF req[a].remote \in alive
     THEN /\ signals' = [signals EXCEPT ![req[a].remote] = Append(@, <<a, started[a]>>)]
          /\ Goto(a, "wait")
     ELSE Goto(a, "failed") /\ UNCHANGED signals
  /\ UNCHANGED <<req, timeout, before, mine, copied, alive, bins, started, gaveup>>

(***************************************************************************)
(* _wait_bin_file_generate: each round looks for a new file, or asks lsof  *)
(* whether the file is still open; the newest file is taken.               *)
(***************************************************************************)
WaitBinFileGenerate(a) ==
  LET files == bins[req[a].remote] IN
  /\ at[a] = "wait"
  /\ timeout' = [timeout EXCEPT ![a] = @ - 1]
  /\ gaveup' = IF timeout[a] = 0 THEN gaveup \cup {<<a, started[a]>>} ELSE gaveup
  /\ IF timeout[a] = 0 THEN Goto(a, "failed") /\ UNCHANGED mine
     ELSE IF mine[a] = 0
          THEN /\ mine' = [mine EXCEPT ![a] = IF Len(files) > before[a] THEN Len(files) ELSE 0]
               /\ UNCHANGED at
     ELSE /\ IF files[mine[a]].open THEN UNCHANGED at ELSE Goto(a, "parse")
          /\ UNCHANGED mine
  /\ UNCHANGED <<req, before, copied, alive, signals, bins, started>>

\* The bin is parsed, the .log files go, the directory is copied.
ParseAndCopy(a) ==
  /\ at[a] = "parse"
  /\ \/ /\ copied' = [copied EXCEPT ![a] = Append(@, [bin |-> bins[req[a].remote][mine[a]], to |-> <<a, started[a]>>])]
        /\ Goto(a, "done")
     \/ Goto(a, "failed") /\ UNCHANGED copied
  /\ UNCHANGED <<req, timeout, before, mine, alive, signals, bins, started, gaveup>>

\* The asked process: its handler writes one file per signal, slowly.
HandleSignal(p) ==
  /\ p \in alive /\ signals[p] # <<>>
  /\ \A i \in DOMAIN bins[p] : ~bins[p][i].open
  /\ bins' = [bins EXCEPT ![p] = Append(@, [by |-> Head(signals[p]), open |-> TRUE])]
  /\ signals' = [signals EXCEPT ![p] = Tail(@)]
  /\ UNCHANGED <<at, req, timeout, before, mine, copied, alive, started, gaveup>>
CloseBin(p) ==
  /\ \E i \in DOMAIN bins[p] :
       bins[p][i].open /\ bins' = [bins EXCEPT ![p][i].open = FALSE]
  /\ UNCHANGED <<at, req, timeout, before, mine, copied, alive, signals, started, gaveup>>
Die(p) ==
  /\ p \in alive
  /\ alive' = alive \ {p}
  /\ UNCHANGED <<at, req, timeout, before, mine, copied, signals, bins, started, gaveup>>

StStep(a) ==
  \/ CheckRemoteIdValidity(a) \/ Answer(a) \/ CheckCollectStacktraceParallel(a)
  \/ GetExistsBinFileNum(a) \/ SendSignalToPid(a) \/ WaitBinFileGenerate(a) \/ ParseAndCopy(a)
StNext ==
  \/ \E a \in Tracer : Start(a) \/ StStep(a)
  \/ \E p \in Target : HandleSignal(p) \/ CloseBin(p) \/ Die(p)

StSpec == StInit /\ [][StNext]_stVars

-----------------------------------------------------------------------------
\* Two asys processes never wait for stacks of the same process.
OneTracerPerTarget ==
  \A a, b \in Tracer :
    a # b /\ {at[a], at[b]} \subseteq {"count", "signal", "wait", "parse"}
      => req[a].remote # req[b].remote

\* What is parsed is a file that is complete; and it is the answer to this start
\* of asys, until some start has given up: a late answer is taken for the next.
ParsesOwnCompleteFile ==
  \A a \in Tracer : \A i \in DOMAIN copied[a] :
    LET c == copied[a][i] IN ~c.bin.open /\ (c.bin.by # c.to => gaveup # {})

StTypeOK ==
  /\ at \in [Tracer -> {"idle", "validity", "ask", "parallel", "count", "signal", "wait",
                        "parse", "done", "failed"}]
  /\ \A p \in Target : bins[p] \in Seq(Bin) /\ signals[p] \in Seq(StartId)

(***************************************************************************)
(* Of the asys processes that ask for stacks no two ask the same process,  *)
(* and what one parses is complete and the answer to its own signal, as    *)
(* long as none has given up waiting (stacktrace_collect.py).              *)
(***************************************************************************)
StackTraces == StTypeOK /\ OneTracerPerTarget /\ ParsesOwnCompleteFile
=============================================================================
