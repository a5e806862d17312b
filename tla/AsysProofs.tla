----------------------------- MODULE AsysProofs -----------------------------
(***************************************************************************)
(* Proofs about a run of asys, for any scenarios, tracers and targets.     *)
(*                                                                         *)
(* The stack traces: two tracers never wait for the same process, and      *)
(* without one that gives up, what each parses is its own answer, complete *)
(* (StInv).  The run: when asys returns nothing it started runs on, a      *)
(* successful diagnosis reports every device by its own master, a trace is *)
(* removed only for a complete text, and a stack file is rewritten with    *)
(* all its frames (RunInv, of the main thread and what runs beside it).    *)
(***************************************************************************)
EXTENDS Asys, SequenceTheorems, FiniteSetTheorems, WellFoundedInduction, TLAPS

(* past the look at the other tracers *)
Asking(a) == at[a] \in {"count", "signal", "wait", "parse"}
Me(a) == <<a, started[a]>>
Copy == [bin : Bin, to : StartId]

Places ==
  /\ at \in [Tracer -> {"idle", "validity", "ask", "parallel", "count", "signal", "wait",
                        "parse", "done", "failed"}]
  /\ req \in [Tracer -> Request \cup {NoRequest}]
  /\ mine \in [Tracer -> Nat] /\ started \in [Tracer -> Nat]
  /\ alive \subseteq Target

Files ==
  /\ before \in [Tracer -> Nat]
  /\ copied \in [Tracer -> Seq(Copy)]
  /\ signals \in [Target -> Seq(StartId)]
  /\ bins \in [Target -> Seq(Bin)]

(* a tracer that runs is a start of its own and asks a process that exists *)
(* or existed                                                              *)
Requested ==
  \A a \in Tracer :
    /\ Running(a) => req[a].remote # NoPid /\ Me(a) \in StartId
    /\ Asking(a) \/ at[a] \in {"ask", "parallel"} => req[a].remote \in Target

(* the file a tracer waits for is there, and stays closed once it is *)
MineExists ==
  \A a \in Tracer : at[a] \in {"wait", "parse"} /\ mine[a] # 0 =>
    /\ mine[a] \in DOMAIN bins[req[a].remote]
    /\ at[a] = "parse" => ~bins[req[a].remote][mine[a]].open

MineKnown == \A a \in Tracer :
  /\ at[a] \in {"validity", "ask", "parallel", "count", "signal"} => mine[a] = 0
  /\ at[a] = "parse" => mine[a] # 0

(* a has sent its signal to p, which has not answered yet *)
Unanswered(a, p) == signals[p] = <<Me(a)>> /\ Len(bins[p]) = before[a] /\ mine[a] = 0
(* p has answered the signal of a, by its newest file *)
Answered(a, p) ==
  /\ signals[p] = <<>> /\ Len(bins[p]) = before[a] + 1
  /\ bins[p][before[a] + 1].by = Me(a)
  /\ mine[a] \in {0, before[a] + 1}

(* as long as nobody has given up, a signal is pending only for the one    *)
(* tracer that waits for it                                                *)
Quiet(p) == (\A a \in Tracer : at[a] = "wait" => req[a].remote # p) => signals[p] = <<>>
Counted(a) ==
  /\ at[a] = "signal" => Len(bins[req[a].remote]) = before[a]
  /\ at[a] = "wait" => Unanswered(a, req[a].remote) \/ Answered(a, req[a].remote)
  /\ at[a] = "parse" => Answered(a, req[a].remote)

Answers == gaveup = {} => (\A p \in Target : Quiet(p)) /\ (\A a \in Tracer : Counted(a))

StInv ==
  /\ Places /\ Files /\ Requested /\ OneTracerPerTarget /\ MineExists /\ MineKnown /\ Answers
  /\ ParsesOwnCompleteFile

-----------------------------------------------------------------------------
(* The invariant holds before anybody asks.                                *)
LEMMA StInitially == StInit => StInv
<1> SUFFICES ASSUME StInit PROVE StInv
  OBVIOUS
<1>1. Places /\ Files
  BY DEF StInit, Places, Files
<1>2. Requested /\ OneTracerPerTarget /\ MineExists /\ MineKnown
  BY DEF StInit, Requested, OneTracerPerTarget, MineExists, MineKnown, Running, Asking
<1>3. Answers
  BY DEF StInit, Answers, Quiet, Counted
<1>4. ParsesOwnCompleteFile
  BY DEF StInit, ParsesOwnCompleteFile
<1> QED
  BY <1>1, <1>2, <1>3, <1>4 DEF StInv

(* what the look at the other tracers excludes *)
LEMMA FreeTarget ==
  ASSUME NEW a \in Tracer, NEW b \in Tracer, a # b, ParallelFree(a), Running(b),
         req[b].remote # NoPid
  PROVE  req[b].remote # req[a].remote
<1>1. b \in DOMAIN OtherRemotes(a) /\ OtherRemotes(a)[b] = req[b].remote
  BY DEF OtherRemotes
<1> QED
  BY <1>1 DEF ParallelFree

(* the tracers, their arguments and the targets keep their types *)
LEMMA PlacesStep ==
  ASSUME StInv, [StNext]_stVars
  PROVE  Places'
<1> USE DEF StInv, Places
<1>1. ASSUME NEW a \in Tracer, Start(a) PROVE Places'
  BY <1>1 DEF Start, WaitRounds, Goto
<1>2. ASSUME NEW a \in Tracer, CheckRemoteIdValidity(a) PROVE Places'
  BY <1>2 DEF CheckRemoteIdValidity, Goto, OnlyAt
<1>3. ASSUME NEW a \in Tracer, Answer(a) PROVE Places'
  BY <1>3 DEF Answer, Goto, OnlyAt
<1>4. ASSUME NEW a \in Tracer, CheckCollectStacktraceParallel(a) PROVE Places'
  BY <1>4 DEF CheckCollectStacktraceParallel, ParallelFree, OtherRemotes, Goto, OnlyAt
<1>5. ASSUME NEW a \in Tracer, GetExistsBinFileNum(a) PROVE Places'
  BY <1>5 DEF GetExistsBinFileNum, Goto
<1>6. ASSUME NEW a \in Tracer, SendSignalToPid(a) PROVE Places'
  BY <1>6 DEF SendSignalToPid, Goto
<1>7. ASSUME NEW a \in Tracer, WaitBinFileGenerate(a) PROVE Places'
  <2>1. Len(bins[req[a].remote]) \in Nat
    BY <1>7 DEF WaitBinFileGenerate, Files, Requested, Asking
  <2> QED
    BY <1>7, <2>1 DEF WaitBinFileGenerate, Goto
<1>8. ASSUME NEW a \in Tracer, ParseAndCopy(a) PROVE Places'
  BY <1>8 DEF ParseAndCopy, Goto
<1>9. ASSUME NEW p \in Target, HandleSignal(p) PROVE Places'
  BY <1>9 DEF HandleSignal
<1>10. ASSUME NEW p \in Target, CloseBin(p) PROVE Places'
  BY <1>10 DEF CloseBin
<1>11. ASSUME NEW p \in Target, Die(p) PROVE Places'
  BY <1>11 DEF Die
<1>12. CASE UNCHANGED stVars
  BY <1>12 DEF stVars
<1> QED
  BY <1>1, <1>2, <1>3, <1>4, <1>5, <1>6, <1>7, <1>8, <1>9, <1>10, <1>11, <1>12 DEF StNext, StStep

(* signals and files do *)
LEMMA FilesStep ==
  ASSUME StInv, [StNext]_stVars
  PROVE  Files'
<1> USE DEF StInv, Files
<1>1. ASSUME NEW a \in Tracer, Start(a) PROVE Files'
  BY <1>1 DEF Start, WaitRounds, Goto
<1>2. ASSUME NEW a \in Tracer, CheckRemoteIdValidity(a) PROVE Files'
  BY <1>2 DEF CheckRemoteIdValidity, Goto, OnlyAt
<1>3. ASSUME NEW a \in Tracer, Answer(a) PROVE Files'
  BY <1>3 DEF Answer, Goto, OnlyAt
<1>4. ASSUME NEW a \in Tracer, CheckCollectStacktraceParallel(a) PROVE Files'
  BY <1>4 DEF CheckCollectStacktraceParallel, ParallelFree, OtherRemotes, Goto, OnlyAt
<1>5. ASSUME NEW a \in Tracer, GetExistsBinFileNum(a) PROVE Files'
  BY <1>5 DEF GetExistsBinFileNum, Goto
<1>6. ASSUME NEW a \in Tracer, SendSignalToPid(a) PROVE Files'
  <2>1. Me(a) \in StartId
    BY <1>6 DEF SendSignalToPid, Requested, Running
  <2> DEFINE p == req[a].remote
  <2>2. p \in Target
    BY <1>6 DEF SendSignalToPid, Requested, Asking
  <2>3. UNCHANGED signals \/ signals' = [signals EXCEPT ![p] = Append(@, Me(a))]
    BY <1>6 DEF SendSignalToPid, Me
  <2>4. UNCHANGED <<before, copied, bins>>
    BY <1>6 DEF SendSignalToPid
  <2>5. Append(signals[p], Me(a)) \in Seq(StartId)
    BY <2>1, <2>2, AppendProperties
  <2> HIDE DEF p
  <2> QED
    BY <2>2, <2>3, <2>4, <2>5
<1>7. ASSUME NEW a \in Tracer, WaitBinFileGenerate(a) PROVE Files'
  BY <1>7 DEF WaitBinFileGenerate, Goto
<1>8. ASSUME NEW a \in Tracer, ParseAndCopy(a) PROVE Files'
  <2> DEFINE c == [bin |-> bins[req[a].remote][mine[a]], to |-> Me(a)]
  <2>1. Me(a) \in StartId /\ req[a].remote \in Target
    BY <1>8 DEF ParseAndCopy, Requested, Running, Asking
  <2>2. bins[req[a].remote][mine[a]] \in Bin
    BY <1>8, <2>1 DEF ParseAndCopy, MineExists, MineKnown
  <2>3. c \in Copy
    BY <2>1, <2>2 DEF Copy
  <2>4. UNCHANGED copied \/ copied' = [copied EXCEPT ![a] = Append(@, c)]
    BY <1>8 DEF ParseAndCopy, Me
  <2>5. UNCHANGED <<before, signals, bins>>
    BY <1>8 DEF ParseAndCopy
  <2>6. Append(copied[a], c) \in Seq(Copy)
    BY <2>3, AppendProperties
  <2> HIDE DEF c
  <2> QED
    BY <2>4, <2>5, <2>6
<1>9. ASSUME NEW p \in Target, HandleSignal(p) PROVE Files'
  <2> DEFINE f == [by |-> Head(signals[p]), open |-> TRUE]
  <2>1. Head(signals[p]) \in StartId /\ Tail(signals[p]) \in Seq(StartId)
    BY <1>9 DEF HandleSignal
  <2>2. f \in Bin
    BY <2>1 DEF Bin
  <2>3. bins' = [bins EXCEPT ![p] = Append(@, f)] /\ signals' = [signals EXCEPT ![p] = Tail(@)]
    BY <1>9 DEF HandleSignal
  <2> HIDE DEF f
  <2> QED
    BY <1>9, <2>1, <2>2, <2>3 DEF HandleSignal
<1>10. ASSUME NEW p \in Target, CloseBin(p) PROVE Files'
  <2>1. PICK i \in DOMAIN bins[p] : bins' = [bins EXCEPT ![p][i].open = FALSE]
    BY <1>10 DEF CloseBin
  <2>2. [bins[p][i] EXCEPT !.open = FALSE] \in Bin
    <3>1. bins[p][i] \in Bin
      BY <2>1
    <3> QED
      BY <3>1 DEF Bin
  <2>3. bins'[p] \in Seq(Bin)
    <3>1. bins'[p] = [bins[p] EXCEPT ![i] = [bins[p][i] EXCEPT !.open = FALSE]]
      BY <2>1
    <3> QED
      BY <2>2, <3>1, ExceptSeq
  <2> QED
    BY <1>10, <2>1, <2>3 DEF CloseBin
<1>11. ASSUME NEW p \in Target, Die(p) PROVE Files'
  BY <1>11 DEF Die
<1>12. CASE UNCHANGED stVars
  BY <1>12 DEF stVars
<1> QED
  BY <1>1, <1>2, <1>3, <1>4, <1>5, <1>6, <1>7, <1>8, <1>9, <1>10, <1>11, <1>12 DEF StNext, StStep

(* only a tracer that was started runs, and only a target is asked *)
LEMMA RequestedStep ==
  ASSUME StInv, [StNext]_stVars
  PROVE  Requested'
<1> USE DEF StInv, Places, Requested, Asking, Running, Me, NoRequest, StartId
<1>1. ASSUME NEW a \in Tracer, Start(a) PROVE Requested'
  <2>1. started[a] + 1 \in 1 .. MaxRequest /\ started' = [started EXCEPT ![a] = @ + 1]
    BY <1>1, MaxRequestAssumption DEF Start
  <2>2. PICK r \in Request :
          /\ req' = [req EXCEPT ![a] = r]
          /\ at' = [at EXCEPT ![a] = IF CheckOtherParam(r) /\ r.remote # NoPid /\ r.all
                                     THEN "validity" ELSE "failed"]
    BY <1>1 DEF Start, Goto
  <2> QED
    BY <2>1, <2>2
<1>2. ASSUME NEW a \in Tracer, CheckRemoteIdValidity(a) PROVE Requested'
  BY <1>2 DEF CheckRemoteIdValidity, Goto, OnlyAt
<1>3. ASSUME NEW a \in Tracer, Answer(a) PROVE Requested'
  BY <1>3 DEF Answer, Goto, OnlyAt
<1>4. ASSUME NEW a \in Tracer, CheckCollectStacktraceParallel(a) PROVE Requested'
  BY <1>4 DEF CheckCollectStacktraceParallel, ParallelFree, OtherRemotes, Goto, OnlyAt
<1>5. ASSUME NEW a \in Tracer, GetExistsBinFileNum(a) PROVE Requested'
  BY <1>5 DEF GetExistsBinFileNum, Goto
<1>6. ASSUME NEW a \in Tracer, SendSignalToPid(a) PROVE Requested'
  BY <1>6 DEF SendSignalToPid, Goto
<1>7. ASSUME NEW a \in Tracer, WaitBinFileGenerate(a) PROVE Requested'
  BY <1>7 DEF WaitBinFileGenerate, Goto
<1>8. ASSUME NEW a \in Tracer, ParseAndCopy(a) PROVE Requested'
  BY <1>8 DEF ParseAndCopy, Goto
<1>9. ASSUME NEW p \in Target, HandleSignal(p) PROVE Requested'
  BY <1>9 DEF HandleSignal
<1>10. ASSUME NEW p \in Target, CloseBin(p) PROVE Requested'
  BY <1>10 DEF CloseBin
<1>11. ASSUME NEW p \in Target, Die(p) PROVE Requested'
  BY <1>11 DEF Die
<1>12. CASE UNCHANGED stVars
  BY <1>12 DEF stVars
<1> QED
  BY <1>1, <1>2, <1>3, <1>4, <1>5, <1>6, <1>7, <1>8, <1>9, <1>10, <1>11, <1>12 DEF StNext, StStep

(* who comes second finds the first among the running ones *)
LEMMA ExclusiveStep ==
  ASSUME StInv, [StNext]_stVars
  PROVE  OneTracerPerTarget'
<1> USE DEF StInv, Places, OneTracerPerTarget
<1>1. ASSUME NEW a \in Tracer, Start(a) PROVE OneTracerPerTarget'
  BY <1>1 DEF Start, WaitRounds, Goto
<1>2. ASSUME NEW a \in Tracer, CheckRemoteIdValidity(a) PROVE OneTracerPerTarget'
  BY <1>2 DEF CheckRemoteIdValidity, Goto, OnlyAt
<1>3. ASSUME NEW a \in Tracer, Answer(a) PROVE OneTracerPerTarget'
  BY <1>3 DEF Answer, Goto, OnlyAt
<1>4. ASSUME NEW a \in Tracer, CheckCollectStacktraceParallel(a) PROVE OneTracerPerTarget'
  <2>1. ASSUME ParallelFree(a), NEW b \in Tracer, b # a,
               at[b] \in {"count", "signal", "wait", "parse"}
        PROVE  req[b].remote # req[a].remote
    BY <2>1, FreeTarget DEF Requested, Running
  <2> QED
    BY <1>4, <2>1 DEF CheckCollectStacktraceParallel, Goto, OnlyAt
<1>5. ASSUME NEW a \in Tracer, GetExistsBinFileNum(a) PROVE OneTracerPerTarget'
  BY <1>5 DEF GetExistsBinFileNum, Goto
<1>6. ASSUME NEW a \in Tracer, SendSignalToPid(a) PROVE OneTracerPerTarget'
  <2>1. UNCHANGED req /\ at[a] = "signal" /\ \E l \in {"wait", "failed"} : Goto(a, l)
    BY <1>6 DEF SendSignalToPid
  <2> QED
    BY <2>1 DEF Goto
<1>7. ASSUME NEW a \in Tracer, WaitBinFileGenerate(a) PROVE OneTracerPerTarget'
  BY <1>7 DEF WaitBinFileGenerate, Goto
<1>8. ASSUME NEW a \in Tracer, ParseAndCopy(a) PROVE OneTracerPerTarget'
  BY <1>8 DEF ParseAndCopy, Goto
<1>9. ASSUME NEW p \in Target, HandleSignal(p) PROVE OneTracerPerTarget'
  BY <1>9 DEF HandleSignal
<1>10. ASSUME NEW p \in Target, CloseBin(p) PROVE OneTracerPerTarget'
  BY <1>10 DEF CloseBin
<1>11. ASSUME NEW p \in Target, Die(p) PROVE OneTracerPerTarget'
  BY <1>11 DEF Die
<1>12. CASE UNCHANGED stVars
  BY <1>12 DEF stVars
<1> QED
  BY <1>1, <1>2, <1>3, <1>4, <1>5, <1>6, <1>7, <1>8, <1>9, <1>10, <1>11, <1>12 DEF StNext, StStep

(* files are only added, and never opened again *)
LEMMA MineStep ==
  ASSUME StInv, [StNext]_stVars
  PROVE  (MineExists /\ MineKnown)'
<1> USE DEF StInv, Places, Requested, MineExists, MineKnown, Asking
<1>1. ASSUME NEW a \in Tracer, Start(a) PROVE (MineExists /\ MineKnown)'
  BY <1>1 DEF Start, WaitRounds, Goto
<1>2. ASSUME NEW a \in Tracer, CheckRemoteIdValidity(a) PROVE (MineExists /\ MineKnown)'
  BY <1>2 DEF CheckRemoteIdValidity, Goto, OnlyAt
<1>3. ASSUME NEW a \in Tracer, Answer(a) PROVE (MineExists /\ MineKnown)'
  BY <1>3 DEF Answer, Goto, OnlyAt
<1>4. ASSUME NEW a \in Tracer, CheckCollectStacktraceParallel(a) PROVE (MineExists /\ MineKnown)'
  BY <1>4 DEF CheckCollectStacktraceParallel, ParallelFree, OtherRemotes, Goto, OnlyAt
<1>5. ASSUME NEW a \in Tracer, GetExistsBinFileNum(a) PROVE (MineExists /\ MineKnown)'
  BY <1>5 DEF GetExistsBinFileNum, Goto
<1>6. ASSUME NEW a \in Tracer, SendSignalToPid(a) PROVE (MineExists /\ MineKnown)'
  BY <1>6 DEF SendSignalToPid, Goto
<1>7. ASSUME NEW a \in Tracer, WaitBinFileGenerate(a) PROVE (MineExists /\ MineKnown)'
  <2>1. req[a].remote \in Target
    BY <1>7 DEF WaitBinFileGenerate
  <2>2. Len(bins[req[a].remote]) \in Nat /\ DOMAIN bins[req[a].remote] = 1 .. Len(bins[req[a].remote])
    BY <2>1 DEF Files
  <2>3. before[a] \in Nat
    BY DEF Files
  <2>4. UNCHANGED <<req, bins>> /\ at[a] = "wait"
    BY <1>7 DEF WaitBinFileGenerate
  <2>5. \/ Goto(a, "failed") /\ UNCHANGED mine
        \/ UNCHANGED at /\ \E n \in {0} \cup DOMAIN bins[req[a].remote] : mine' = [mine EXCEPT ![a] = n]
        \/ UNCHANGED <<at, mine>>
        \/ /\ Goto(a, "parse") /\ UNCHANGED mine
           /\ mine[a] # 0 /\ ~bins[req[a].remote][mine[a]].open
    BY <1>7, <2>1, <2>2, <2>3 DEF WaitBinFileGenerate
  <2> QED
    BY <2>1, <2>4, <2>5 DEF Goto
<1>8. ASSUME NEW a \in Tracer, ParseAndCopy(a) PROVE (MineExists /\ MineKnown)'
  BY <1>8 DEF ParseAndCopy, Goto
<1>9. ASSUME NEW p \in Target, HandleSignal(p) PROVE (MineExists /\ MineKnown)'
  <2>1. /\ DOMAIN bins'[p] = DOMAIN bins[p] \cup {Len(bins[p]) + 1}
        /\ \A i \in DOMAIN bins[p] : bins'[p][i] = bins[p][i]
        /\ \A q \in Target : q # p => bins'[q] = bins[q]
    BY <1>9 DEF HandleSignal, Files
  <2> QED
    BY <1>9, <2>1 DEF HandleSignal
<1>10. ASSUME NEW p \in Target, CloseBin(p) PROVE (MineExists /\ MineKnown)'
  <2>1. /\ DOMAIN bins'[p] = DOMAIN bins[p]
        /\ \A i \in DOMAIN bins[p] : ~bins[p][i].open => ~bins'[p][i].open
        /\ \A q \in Target : q # p => bins'[q] = bins[q]
    BY <1>10 DEF CloseBin, Files, Bin
  <2> QED
    BY <1>10, <2>1 DEF CloseBin
<1>11. ASSUME NEW p \in Target, Die(p) PROVE (MineExists /\ MineKnown)'
  BY <1>11 DEF Die
<1>12. CASE UNCHANGED stVars
  BY <1>12 DEF stVars
<1> QED
  BY <1>1, <1>2, <1>3, <1>4, <1>5, <1>6, <1>7, <1>8, <1>9, <1>10, <1>11, <1>12 DEF StNext, StStep

(* the file that is parsed is the one that was waited for *)
LEMMA ParsesStep ==
  ASSUME StInv, [StNext]_stVars
  PROVE  ParsesOwnCompleteFile'
<1> USE DEF StInv, ParsesOwnCompleteFile
<1>1. ASSUME NEW a \in Tracer, Start(a) PROVE ParsesOwnCompleteFile'
  BY <1>1 DEF Start, WaitRounds, Goto
<1>2. ASSUME NEW a \in Tracer, CheckRemoteIdValidity(a) PROVE ParsesOwnCompleteFile'
  BY <1>2 DEF CheckRemoteIdValidity, Goto, OnlyAt
<1>3. ASSUME NEW a \in Tracer, Answer(a) PROVE ParsesOwnCompleteFile'
  BY <1>3 DEF Answer, Goto, OnlyAt
<1>4. ASSUME NEW a \in Tracer, CheckCollectStacktraceParallel(a) PROVE ParsesOwnCompleteFile'
  BY <1>4 DEF CheckCollectStacktraceParallel, ParallelFree, OtherRemotes, Goto, OnlyAt
<1>5. ASSUME NEW a \in Tracer, GetExistsBinFileNum(a) PROVE ParsesOwnCompleteFile'
  BY <1>5 DEF GetExistsBinFileNum, Goto
<1>6. ASSUME NEW a \in Tracer, SendSignalToPid(a) PROVE ParsesOwnCompleteFile'
  BY <1>6 DEF SendSignalToPid, Goto
<1>7. ASSUME NEW a \in Tracer, WaitBinFileGenerate(a) PROVE ParsesOwnCompleteFile'
  BY <1>7 DEF WaitBinFileGenerate, Goto
<1>8. ASSUME NEW a \in Tracer, ParseAndCopy(a) PROVE ParsesOwnCompleteFile'
  <2> DEFINE c == [bin |-> bins[req[a].remote][mine[a]], to |-> Me(a)]
  <2>1. req[a].remote \in Target /\ at[a] = "parse"
    BY <1>8 DEF ParseAndCopy, Requested, Asking
  <2>2. mine[a] # 0 /\ ~c.bin.open
    BY <2>1 DEF MineExists, MineKnown
  <2>3. c.bin.by # c.to => gaveup # {}
    BY <2>1, <2>2 DEF Answers, Counted, Answered
  <2>4. UNCHANGED copied \/ copied' = [copied EXCEPT ![a] = Append(@, c)]
    BY <1>8 DEF ParseAndCopy, Me
  <2>5. UNCHANGED gaveup
    BY <1>8 DEF ParseAndCopy
  <2> HIDE DEF c
  <2> DEFINE t == Append(copied[a], c)
  <2>6. /\ copied[a] \in Seq(Copy)
        /\ DOMAIN t = DOMAIN copied[a] \cup {Len(copied[a]) + 1}
        /\ t[Len(copied[a]) + 1] = c
        /\ \A i \in DOMAIN copied[a] : t[i] = copied[a][i]
    BY DEF Files
  <2>7. ASSUME NEW b \in Tracer, NEW i \in DOMAIN copied'[b]
        PROVE  copied'[b][i] = c \/ (i \in DOMAIN copied[b] /\ copied'[b][i] = copied[b][i])
    <3>1. CASE b = a
      <4>1. copied'[a] = copied[a] \/ copied'[a] = t
        BY <2>4 DEF Files
      <4> HIDE DEF t
      <4> QED
        BY <2>6, <3>1, <4>1
    <3>2. CASE b # a
      BY <2>4, <3>2 DEF Files
    <3> QED
      BY <3>1, <3>2
  <2> QED
    BY <2>2, <2>3, <2>5, <2>7
<1>9. ASSUME NEW p \in Target, HandleSignal(p) PROVE ParsesOwnCompleteFile'
  BY <1>9 DEF HandleSignal
<1>10. ASSUME NEW p \in Target, CloseBin(p) PROVE ParsesOwnCompleteFile'
  BY <1>10 DEF CloseBin
<1>11. ASSUME NEW p \in Target, Die(p) PROVE ParsesOwnCompleteFile'
  BY <1>11 DEF Die
<1>12. CASE UNCHANGED stVars
  BY <1>12 DEF stVars
<1> QED
  BY <1>1, <1>2, <1>3, <1>4, <1>5, <1>6, <1>7, <1>8, <1>9, <1>10, <1>11, <1>12 DEF StNext, StStep

(* a step that leaves signals and files alone disturbs only the tracer that *)
(* takes it, unless that one was waiting                                    *)
LEMMA AnswersOfOthers ==
  ASSUME Answers, gaveup = {}, NEW a \in Tracer, UNCHANGED <<signals, bins>>,
         \A b \in Tracer \ {a} :
           at'[b] = at[b] /\ req'[b] = req[b] /\ before'[b] = before[b] /\ mine'[b] = mine[b]
           /\ started'[b] = started[b],
         at[a] # "wait" \/ (at'[a] = "wait" /\ req'[a] = req[a]) \/ signals[req[a].remote] = <<>>,
         Counted(a)'
  PROVE  Answers'
<1>1. ASSUME NEW p \in Target PROVE Quiet(p)'
  BY DEF Answers, Quiet
<1>2. ASSUME NEW b \in Tracer \ {a} PROVE Counted(b)'
  BY DEF Answers, Counted, Unanswered, Answered, Me
<1> QED
  BY <1>1, <1>2 DEF Answers

(* a signal is answered once, by the newest file, before its tracer goes on *)
LEMMA AnswersStep ==
  ASSUME StInv, [StNext]_stVars
  PROVE  Answers'
<1> USE DEF StInv
<1>1. ASSUME NEW a \in Tracer, Start(a) PROVE Answers'
  <2> SUFFICES ASSUME gaveup' = {} PROVE Answers'
    BY DEF Answers
  <2>1. at[a] # "wait" /\ Counted(a)'
    BY <1>1 DEF Start, Goto, Running, Places, Counted
  <2>2. \A b \in Tracer \ {a} :
          at'[b] = at[b] /\ req'[b] = req[b] /\ before'[b] = before[b] /\ mine'[b] = mine[b]
          /\ started'[b] = started[b]
    BY <1>1 DEF Start, Goto, Places
  <2>3. UNCHANGED <<signals, bins>> /\ gaveup = {}
    BY <1>1 DEF Start
  <2> QED
    BY <2>1, <2>2, <2>3, AnswersOfOthers
<1>2. ASSUME NEW a \in Tracer, CheckRemoteIdValidity(a) PROVE Answers'
  <2> SUFFICES ASSUME gaveup' = {} PROVE Answers'
    BY DEF Answers
  <2>1. at[a] # "wait" /\ Counted(a)'
    BY <1>2 DEF CheckRemoteIdValidity, Goto, OnlyAt, Places, Counted
  <2> QED
    BY <1>2, <2>1, AnswersOfOthers DEF CheckRemoteIdValidity, Goto, OnlyAt, Places
<1>3. ASSUME NEW a \in Tracer, Answer(a) PROVE Answers'
  <2> SUFFICES ASSUME gaveup' = {} PROVE Answers'
    BY DEF Answers
  <2>1. at[a] # "wait" /\ Counted(a)'
    BY <1>3 DEF Answer, Goto, OnlyAt, Places, Counted
  <2> QED
    BY <1>3, <2>1, AnswersOfOthers DEF Answer, Goto, OnlyAt, Places
<1>4. ASSUME NEW a \in Tracer, CheckCollectStacktraceParallel(a) PROVE Answers'
  <2> SUFFICES ASSUME gaveup' = {} PROVE Answers'
    BY DEF Answers
  <2>1. at[a] # "wait" /\ Counted(a)'
    BY <1>4 DEF CheckCollectStacktraceParallel, Goto, OnlyAt, Places, Counted
  <2> QED
    BY <1>4, <2>1, AnswersOfOthers DEF CheckCollectStacktraceParallel, Goto, OnlyAt, Places
<1>5. ASSUME NEW a \in Tracer, GetExistsBinFileNum(a) PROVE Answers'
  <2> SUFFICES ASSUME gaveup' = {} PROVE Answers'
    BY DEF Answers
  <2>1. at[a] # "wait" /\ Counted(a)'
    BY <1>5 DEF GetExistsBinFileNum, Goto, Files, Places, Counted
  <2> QED
    BY <1>5, <2>1, AnswersOfOthers DEF GetExistsBinFileNum, Goto, Files, Places
<1>6. ASSUME NEW a \in Tracer, SendSignalToPid(a) PROVE Answers'
  <2> SUFFICES ASSUME gaveup' = {} PROVE Answers'
    BY DEF Answers
  <2> DEFINE p == req[a].remote
  <2>1. p \in Target /\ at[a] = "signal" /\ gaveup = {} /\ UNCHANGED <<req, before, mine, bins, started>>
    BY <1>6 DEF SendSignalToPid, Requested, Asking
  <2>2. CASE Goto(a, "failed") /\ UNCHANGED signals
    <3>1. Counted(a)'
      BY <2>2 DEF Goto, Places, Counted
    <3> QED
      BY <2>1, <2>2, <3>1, AnswersOfOthers DEF Goto, Places
  <2>3. CASE Goto(a, "wait") /\ signals' = [signals EXCEPT ![p] = Append(@, Me(a))]
    <3>1. \A b \in Tracer \ {a} : Asking(b) => req[b].remote # p
      BY <2>1 DEF OneTracerPerTarget, Asking
    <3>2. signals[p] = <<>>
      BY <2>1, <3>1 DEF Answers, Quiet, Asking
    <3>3. signals'[p] = <<Me(a)>> /\ \A q \in Target \ {p} : signals'[q] = signals[q]
      BY <2>1, <2>3, <3>2 DEF Files
    <3>4. at'[a] = "wait" /\ \A b \in Tracer \ {a} : at'[b] = at[b]
      BY <2>3 DEF Goto, Places
    <3>5. Counted(a)'
      <4>1. Len(bins[p]) = before[a] /\ mine[a] = 0
        BY <2>1 DEF Answers, Counted, MineKnown
      <4> QED
        BY <2>1, <3>3, <3>4, <4>1 DEF Counted, Unanswered, Me
    <3>6. ASSUME NEW b \in Tracer \ {a} PROVE Counted(b)'
      <4>1. Asking(b) => req[b].remote \in Target \ {p}
        BY <3>1 DEF Requested
      <4> QED
        BY <2>1, <3>3, <3>4, <4>1 DEF Answers, Counted, Unanswered, Answered, Me, Asking
    <3>7. ASSUME NEW q \in Target PROVE Quiet(q)'
      BY <2>1, <3>3, <3>4 DEF Answers, Quiet
    <3> QED
      BY <3>5, <3>6, <3>7 DEF Answers
  <2> QED
    BY <1>6, <2>2, <2>3 DEF SendSignalToPid, Me
<1>7. ASSUME NEW a \in Tracer, WaitBinFileGenerate(a) PROVE Answers'
  <2> SUFFICES ASSUME gaveup' = {} PROVE Answers'
    BY DEF Answers
  <2> DEFINE p == req[a].remote
  <2>1. /\ p \in Target /\ at[a] = "wait" /\ gaveup = {}
        /\ UNCHANGED <<req, before, bins, signals, started>>
    BY <1>7 DEF WaitBinFileGenerate, Requested, Asking
  <2>2. Len(bins[p]) \in Nat /\ before[a] \in Nat
    BY <2>1 DEF Files
  <2>3. Unanswered(a, p) \/ Answered(a, p)
    BY <2>1 DEF Answers, Counted
  <2>4. CASE mine[a] = 0 /\ UNCHANGED at
             /\ mine' = [mine EXCEPT ![a] = IF Len(bins[p]) > before[a] THEN Len(bins[p]) ELSE 0]
    <3>1. Counted(a)'
      <4>1. at'[a] = "wait" /\ mine'[a] = IF Len(bins[p]) > before[a] THEN Len(bins[p]) ELSE 0
        BY <2>1, <2>4 DEF Places
      <4>2. CASE Unanswered(a, p)
        BY <2>1, <2>2, <4>1, <4>2 DEF Counted, Unanswered, Me
      <4>3. CASE Answered(a, p)
        BY <2>1, <2>2, <4>1, <4>3 DEF Counted, Answered, Me
      <4> QED
        BY <2>3, <4>2, <4>3
    <3> QED
      BY <2>1, <2>4, <3>1, AnswersOfOthers DEF Places
  <2>5. CASE mine[a] # 0 /\ UNCHANGED mine /\ (UNCHANGED at \/ Goto(a, "parse"))
    <3>1. Answered(a, p)
      BY <2>3, <2>5 DEF Unanswered
    <3>2. Counted(a)' /\ signals[p] = <<>>
      BY <2>1, <2>5, <3>1 DEF Goto, Places, Counted, Answered, Me
    <3> QED
      BY <2>1, <2>5, <3>2, AnswersOfOthers DEF Goto, Places
  <2> QED
    BY <1>7, <2>4, <2>5 DEF WaitBinFileGenerate
<1>8. ASSUME NEW a \in Tracer, ParseAndCopy(a) PROVE Answers'
  <2> SUFFICES ASSUME gaveup' = {} PROVE Answers'
    BY DEF Answers
  <2>1. at[a] # "wait" /\ Counted(a)'
    BY <1>8 DEF ParseAndCopy, Goto, Places, Counted
  <2> QED
    BY <1>8, <2>1, AnswersOfOthers DEF ParseAndCopy, Goto, Places
<1>9. ASSUME NEW p \in Target, HandleSignal(p) PROVE Answers'
  <2> SUFFICES ASSUME gaveup' = {} PROVE Answers'
    BY DEF Answers
  <2> DEFINE f == [by |-> Head(signals[p]), open |-> TRUE]
  <2>1. /\ signals[p] # <<>> /\ gaveup = {} /\ UNCHANGED <<at, req, before, mine, started>>
        /\ bins' = [bins EXCEPT ![p] = Append(@, f)] /\ signals' = [signals EXCEPT ![p] = Tail(@)]
    BY <1>9 DEF HandleSignal
  <2>2. PICK a \in Tracer : at[a] = "wait" /\ req[a].remote = p
    BY <2>1 DEF Answers, Quiet
  <2>3. Unanswered(a, p)
    BY <2>1, <2>2 DEF Answers, Counted, Answered
  <2>4. \A b \in Tracer \ {a} : Asking(b) => req[b].remote \in Target \ {p}
    BY <2>2 DEF OneTracerPerTarget, Asking, Requested
  <2>5. signals'[p] = <<>> /\ f.by = Me(a)
    BY <2>1, <2>3 DEF Unanswered, Files
  <2> HIDE DEF f
  <2>6. Len(bins'[p]) = Len(bins[p]) + 1 /\ bins'[p][Len(bins[p]) + 1] = f
    BY <2>1 DEF Files
  <2>7. \A q \in Target \ {p} : bins'[q] = bins[q] /\ signals'[q] = signals[q]
    BY <2>1 DEF Files
  <2>8. Counted(a)'
    BY <2>1, <2>2, <2>3, <2>5, <2>6 DEF Counted, Unanswered, Answered, Me
  <2>9. ASSUME NEW b \in Tracer \ {a} PROVE Counted(b)'
    <3> DEFINE r == req[b].remote
    <3>1. Asking(b) => bins'[r] = bins[r] /\ signals'[r] = signals[r]
      BY <2>4, <2>7
    <3>2. Counted(b)
      BY <2>1 DEF Answers
    <3>3. UNCHANGED <<at[b], req[b], before[b], mine[b], Me(b)>>
      BY <2>1 DEF Me
    <3> HIDE DEF r
    <3>4. at[b] = "wait" => Asking(b)
      BY DEF Asking
    <3>5. at[b] = "signal" \/ at[b] = "parse" => Asking(b)
      BY DEF Asking
    <3> QED
      BY <3>1, <3>2, <3>3, <3>4, <3>5 DEF Counted, Unanswered, Answered, r
  <2>10. ASSUME NEW q \in Target PROVE Quiet(q)'
    BY <2>1, <2>5, <2>7 DEF Answers, Quiet
  <2> QED
    BY <2>8, <2>9, <2>10 DEF Answers
<1>10. ASSUME NEW p \in Target, CloseBin(p) PROVE Answers'
  <2>1. PICK i \in DOMAIN bins[p] : bins' = [bins EXCEPT ![p][i].open = FALSE]
    BY <1>10 DEF CloseBin
  <2>2. UNCHANGED <<at, req, before, mine, started, signals, gaveup>>
    BY <1>10 DEF CloseBin
  <2>3. ASSUME NEW q \in Target
        PROVE  Len(bins'[q]) = Len(bins[q]) /\ \A k \in DOMAIN bins[q] : bins'[q][k].by = bins[q][k].by
    BY <2>1 DEF Files, Bin
  <2>4. ASSUME NEW a \in Tracer, gaveup = {} PROVE Counted(a)'
    <3>1. Asking(a) => req[a].remote \in Target
      BY DEF Requested
    <3>2. Answered(a, req[a].remote) /\ Asking(a) => Answered(a, req[a].remote)'
      <4> SUFFICES ASSUME Answered(a, req[a].remote), Asking(a) PROVE Answered(a, req[a].remote)'
        OBVIOUS
      <4>1. before[a] + 1 \in DOMAIN bins[req[a].remote]
        BY <3>1 DEF Answered, Files
      <4> QED
        BY <2>2, <2>3, <3>1, <4>1 DEF Answered, Me
    <3> QED
      BY <2>2, <2>3, <2>4, <3>1, <3>2 DEF Answers, Counted, Unanswered, Me, Asking
  <2> QED
    BY <2>2, <2>4 DEF Answers, Quiet
<1>11. ASSUME NEW p \in Target, Die(p) PROVE Answers'
  <2>1. UNCHANGED <<at, req, before, mine, started, signals, bins, gaveup>>
    BY <1>11 DEF Die
  <2> QED
    BY <2>1 DEF Answers, Quiet, Counted, Unanswered, Answered, Me
<1>12. CASE UNCHANGED stVars
  BY <1>12 DEF stVars, Answers, Quiet, Counted, Unanswered, Answered, Me
<1> QED
  BY <1>1, <1>2, <1>3, <1>4, <1>5, <1>6, <1>7, <1>8, <1>9, <1>10, <1>11, <1>12 DEF StNext, StStep

-----------------------------------------------------------------------------
(* Every state any asys processes and any targets can be in satisfies it.  *)
THEOREM StInvariant == StSpec => []StInv
<1>1. StInv /\ [StNext]_stVars => StInv'
  BY PlacesStep, FilesStep, RequestedStep, ExclusiveStep, MineStep, ParsesStep, AnswersStep
  DEF StInv
<1> QED
  BY StInitially, <1>1, PTL DEF StSpec

(* Among any asys processes that ask any processes for their stacks, no two *)
(* ask the same one, and each parses a complete file, its own as long as    *)
(* nobody has given up waiting (stacktrace_collect.py).                     *)
THEOREM StackTracesAreSound == StSpec => []StackTraces
<1>1. StInv => StackTraces
  BY DEF StInv, StackTraces, StTypeOK, Places, Files
<1> QED
  BY StInvariant, <1>1, PTL

(* A run of asys takes no other step with the tracers and their targets     *)
(* than the protocol allows (asys.py, stacktrace_collect.py).               *)
THEOREM AsysRunsStacktrace == AsysSpec => StSpec
<1>1. AsysInit => StInit
  BY DEF AsysInit
<1>2. [AsysNext]_<<asysVars, stVars>> => [StNext]_stVars
  BY DEF AsysNext, Ended
<1> QED
  BY <1>1, <1>2, PTL DEF AsysSpec, StSpec

(* Hence a run of asys has sound stack traces, whatever else it does.       *)
THEOREM AsysHasSoundStackTraces == AsysSpec => []StackTraces
BY AsysRunsStacktrace, StackTracesAreSound, PTL
-----------------------------------------------------------------------------
(* What runs beside the main thread of asys, and where the main thread is  *)
(* while it does.  Showing: the progress of the command may be on.         *)
Waiting == {"join", "term"}
Showing == {"host", "rc", "export", "device", "graph", "dump", "ops", "trace", "tracing",
            "status_info", "health_info", "join", "term", "finish", "communicate", "detect",
            "raised", "killed"}
Beside ==
  /\ DOMAIN worker = {"job", "state", "left"}
  /\ worker.state = "running" => pc \in Waiting
  /\ pc \in Waiting => worker.job \in {"status_info", "health_info", "info"}
  /\ task = "running" => pc \in {"assign", "communicate", "raised"}
  /\ pc \in {"popen", "assign", "communicate"} => handler
  /\ view = "on" => pc \in Showing /\ (pc \in Waiting => worker.job # "info")
  /\ ~TraceEnded => pc \in {"tracing", "parsing"}

(* The command line was parsed, and the command takes its own way.         *)
Parsed == ParseArgs(sc.inv, sc.envtype) = "parsed" /\ Cmd \notin {"none", "help"}
Ways ==
  /\ sc \in Scenario
  /\ pc \notin {"start"} \cup Final => Parsed
  /\ pc = "analyze" => Cmd = "analyze"
  /\ pc \in {"copy", "parse"} => Arg("r") \in StackModes
  /\ Cmd = "diagnose" =>
       pc \in {"start", "env", "create", "run", "diagnose", "component", "detect", "tar", "done"}

(* What a device has is the result of the device that it is detected by.   *)
Reported(d) ==
  /\ d \in DOMAIN detect /\ detect[d] # <<d, "running">>
  /\ d \in Devices /\ detect[d][1] # d /\ Arg("r") # "component" =>
       MasterOf(sc.ans[d], FALSE) \in {MasterOf(sc.ans[detect[d][1]], FALSE)} \ {NoMaster}
Detected ==
  /\ pc \notin {"detect", "tar", "done"} => DOMAIN detect = {}
  /\ pc = "detect" =>
       /\ \A d \in DOMAIN detect : \E v : detect[d] = <<d, v>>
       /\ \A d \in Devices : Group(d) \in todo \/ By(d) \in DOMAIN detect
  /\ pc # "detect" => Busy = {}
  /\ pc \in {"tar", "done"} /\ Cmd = "diagnose" /\ result => \A d \in Asked : Reported(d)

(* The threads that parse stack files: each has its file, and rewrites it  *)
(* once, with all frames.                                                  *)
StackPcs == {"stack", "maps", "lines", "core", "done", "failed"}
StackMode == Cmd = "analyze" /\ Arg("r") = "stackcore"
Framed(p) == \A i \in DOMAIN tree.file[p].frames : tree.file[p].frames[i] # NoFrame
Stacks == \A p \in DOMAIN threads :
  /\ p \in DOMAIN tree.file /\ "pc" \in DOMAIN threads[p]
  /\ threads[p].pc \in StackPcs \ {"core"}
  /\ threads[p].pc = "done" => Framed(p)
Stacked ==
  StackMode =>
    /\ pc \in {"start", "env", "create", "run", "analyze", "copy", "parse", "parsing", "tar", "done"}
    /\ pc \notin {"parsing", "tar", "done"} => DOMAIN threads = {}
    /\ pc \in {"parsing", "tar"} => Stacks

(* The threads that parse traces: the text has a line for every message    *)
(* that was read, and the next message is read in its place.               *)
IsSeq(s) == \E X : s \in Seq(X)
Parsable(bin) == IsTrace(bin) /\ SlotsHold(bin)
TracePcs == {"open", "tz", "real", "freq", "structs", "messages", "written", "done", "failed"}
TraceThreads ==
  \A p \in DOMAIN threads :
    p \in Path /\ threads[p].pc \in TracePcs /\ DOMAIN threads[p] = {"pc", "pos", "msg", "text"}
Read(bin, n) == {i \in Wanted(bin) : i < n}
Traced(p) ==
  /\ threads[p].pc \in {"open", "tz", "real", "freq", "structs"} =>
       threads[p].msg = 1 /\ threads[p].text = <<>>
  /\ threads[p].pc = "messages" =>
       /\ threads[p].msg \in Nat \ {0} /\ threads[p].pos = Offset(tree.file[p], threads[p].msg)
       /\ IsSeq(threads[p].text) /\ LinesFor(threads[p].text, Read(tree.file[p], threads[p].msg))
  /\ threads[p].pc = "written" => TextComplete(p)
TracesOnly ==
  (\E p \in DOMAIN threads : Last(p) \in BinFile) => \A p \in DOMAIN threads : Last(p) \in BinFile
Tracing ==
  /\ TraceThreads /\ TracesOnly
  /\ \A p \in DOMAIN threads \cap DOMAIN tree.file :
       Last(p) \in BinFile /\ Parsable(tree.file[p]) => Traced(p)
Stacking == \A p \in DOMAIN threads : "pc" \in DOMAIN threads[p] /\ threads[p].pc \in StackPcs
Texts == pc \in {"tracing", "parsing"} => Stacking \/ Tracing

RunInv == Beside /\ Ways /\ Detected /\ Stacked /\ Texts

-----------------------------------------------------------------------------
(* What argparse has accepted for an analysis names one of its modes.      *)
LEMMA AnalysisMode == Parsed /\ Cmd = "analyze" => Arg("r") \in RunModes("analyze")
<1> SUFFICES ASSUME Parsed, Cmd = "analyze" PROVE Arg("r") \in RunModes("analyze")
  OBVIOUS
<1>1. "r" \in DOMAIN sc.inv.opts /\ ~BadValue("analyze", "r", sc.inv.opts["r"])
  BY DEF Parsed, ParseArgs, Required, Cmd
<1>2. "r" \in KeptOptions("analyze") /\ RunModes("analyze") # {}
  BY DEF KeptOptions, RunModes
<1> QED
  BY <1>1, <1>2 DEF Arg, Args, SetArgs, BadValue, Cmd

(* Nothing is running or shown in a state that is not named below.         *)
LEMMA BesideStep == Beside /\ Ways /\ AsysNext => Beside'
<1> SUFFICES ASSUME Beside, Ways, AsysNext PROVE Beside'
  OBVIOUS
<1> USE DEF Beside, Waiting, Showing, Goto_, Return, Exit, runVars, colVars, lauVars, diaVars
<1>1. UNCHANGED threads => (TraceEnded' <=> TraceEnded)
  BY DEF TraceEnded
<1>2. CASE ParseCommand \/ CheckEnvironment \/ CreateOutTimestampDir \/ CompressOutputDirTar
  <2>1. CASE ParseCommand
    <3>1. pc = "start" /\ pc' \in {"done", "env"}
      BY <2>1, Zenon DEF ParseCommand
    <3>2. UNCHANGED <<threads, worker, task, handler, view>>
      BY <2>1, Zenon DEF ParseCommand
    <3> QED
      BY <1>1, <3>1, <3>2
  <2>2. CASE CheckEnvironment
    BY <1>1, <2>2 DEF CheckEnvironment, traceVars
  <2>3. CASE CreateOutTimestampDir
    BY <1>1, <2>3 DEF CreateOutTimestampDir
  <2>4. CASE CompressOutputDirTar
    BY <1>1, <2>4 DEF CompressOutputDirTar
  <2> QED
    BY <1>2, <2>1, <2>2, <2>3, <2>4
<1>3. CASE Dispatch
  <2>1. FirstStep \notin Waiting \cup {"popen", "assign", "communicate"}
    BY <1>3, ScenarioAssumption DEF FirstStep, Ways, Cmd, Commands, Final, Dispatch
  <2> QED
    BY <1>1, <1>3, <2>1 DEF Dispatch, traceVars
<1>4. CASE CollectStart \/ CollectHost \/ CollectRc \/ DeviceFileExport \/ CollectDeviceFiles
           \/ CollectGraphs \/ CollectDumps \/ CollectOpsFiles
  BY <1>1, <1>4 DEF CollectStart, Part, CollectHost, CollectRc, DeviceFileExport,
     CollectDeviceFiles, CollectGraphs, CollectDumps, CollectOpsFiles, traceVars
<1>5. CASE CollectTrace
  BY <1>5 DEF CollectTrace, StartTrace
<1>6. CASE TraceJoin \/ AnalyzeJoin
  BY <1>1, <1>6 DEF TraceJoin, AnalyzeJoin, traceVars
<1>7. CASE StartWorker
  BY <1>1, <1>7 DEF StartWorker, traceVars
<1>8. CASE JoinWorker
  BY <1>1, <1>8 DEF JoinWorker, AfterWorker, traceVars
<1>9. CASE WorkerTimeout
  BY <1>1, <1>9 DEF WorkerTimeout, traceVars
<1>10. CASE TerminateWorker
  <2>1. DOMAIN worker' = DOMAIN worker /\ worker'.state # "running" /\ worker'.job = worker.job
    BY <1>10 DEF TerminateWorker
  <2> QED
    BY <1>1, <1>10, <2>1 DEF TerminateWorker, AfterWorker, traceVars
<1>11. CASE FinishCollect \/ CollectReturns \/ CleanWork
  BY <1>1, <1>11 DEF FinishCollect, CollectReturns, CleanWork, traceVars
<1>12. CASE PrepareForLaunch \/ InstallHandler \/ Popen \/ AssignPro \/ Communicate \/ TaskOutCollect
  BY <1>1, <1>12 DEF PrepareForLaunch, InstallHandler, Popen, AssignPro, Communicate, TaskOutCollect, traceVars
<1>13. CASE AnalyzeGuard
  <2>1. Arg("r") \in {"trace", "coredump", "coretrace", "stackcore", "aicore_error", "ub"}
    BY <1>13, AnalysisMode DEF AnalyzeGuard, Ways, Final, RunModes
  <2> QED
    BY <1>1, <1>13, <2>1 DEF AnalyzeGuard
<1>14. CASE AnalyzeCopy \/ CoreDumpAnalyze \/ AicoreErrorAnalyze \/ RunMsaicerr \/ UbAnalyze
  BY <1>1, <1>14 DEF AnalyzeCopy, CoreDumpAnalyze, AicoreErrorAnalyze, RunMsaicerr, UbAnalyze, traceVars
<1>15. CASE AnalyzeParse
  BY <1>15 DEF AnalyzeParse
<1>16. CASE HardwareDetect \/ RunDiagnose \/ PrintSave \/ EnvDetect
  <2>1. CASE HardwareDetect
    BY <1>1, <2>1 DEF HardwareDetect, traceVars
  <2>2. CASE RunDiagnose
    BY <1>1, <2>2 DEF RunDiagnose, traceVars
  <2>3. CASE PrintSave
    BY <1>1, <2>3 DEF PrintSave
  <2>4. CASE EnvDetect
    BY <1>1, <2>4 DEF EnvDetect
  <2> QED
    BY <1>16, <2>1, <2>2, <2>3, <2>4
<1>17. CASE Health \/ Config \/ Profiling \/ StacktraceReturns
  BY <1>1, <1>17 DEF Health, Config, Profiling, StacktraceReturns, traceVars
<1>18. CASE ParseThread
  BY <1>18 DEF ParseThread
<1>19. CASE WorkerStep
  <2>1. DOMAIN worker' = DOMAIN worker /\ worker'.job = worker.job
    BY <1>19 DEF WorkerStep
  <2> QED
    BY <1>1, <1>19, <2>1 DEF WorkerStep
<1>20. CASE ViewEnds \/ TaskEnds \/ \E d \in DOMAIN detect : DetectionEnds(d)
  BY <1>1, <1>20 DEF ViewEnds, TaskEnds, DetectionEnds, traceVars
<1>21. CASE Interrupt
  BY <1>1, <1>21 DEF Interrupt, traceVars
<1>22. CASE UNCHANGED asysVars
  BY <1>1, <1>22 DEF asysVars, traceVars
<1> QED
  BY <1>2, <1>3, <1>4, <1>5, <1>6, <1>7, <1>8, <1>9, <1>10, <1>11, <1>12, <1>13, <1>14, <1>15,
     <1>16, <1>17, <1>18, <1>19, <1>20, <1>21, <1>22 DEF AsysNext, MainStep, OtherStep, Ended

(* The scenario of a run does not change, nor what is computed of it.      *)
LEMMA ScenarioStays == Beside /\ AsysNext => UNCHANGED sc
<1> SUFFICES ASSUME Beside, AsysNext PROVE UNCHANGED sc
  OBVIOUS
<1> USE DEF Goto_, Return, Exit, runVars
<1>1. CASE ParseCommand \/ CheckEnvironment \/ CreateOutTimestampDir \/ Dispatch
           \/ CompressOutputDirTar
  BY <1>1, Zenon DEF ParseCommand, CheckEnvironment, CreateOutTimestampDir, Dispatch, CompressOutputDirTar
<1>2. CASE CollectStart \/ CollectHost \/ CollectRc \/ DeviceFileExport \/ CollectDeviceFiles
           \/ CollectGraphs \/ CollectDumps \/ CollectOpsFiles \/ CollectTrace \/ TraceJoin
  BY <1>2 DEF CollectStart, Part, CollectHost, CollectRc, DeviceFileExport,
     CollectDeviceFiles, CollectGraphs, CollectDumps, CollectOpsFiles, CollectTrace, TraceJoin
<1>3. CASE StartWorker \/ WorkerTimeout \/ FinishCollect \/ CollectReturns \/ CleanWork
  BY <1>3 DEF StartWorker, WorkerTimeout, FinishCollect, CollectReturns, CleanWork
<1>4. CASE JoinWorker \/ TerminateWorker
  <2>1. pc \in Waiting /\ (AfterWorker(TRUE) \/ AfterWorker(FALSE))
    BY <1>4 DEF JoinWorker, TerminateWorker, Waiting
  <2> QED
    BY <2>1 DEF AfterWorker, Beside
<1>5. CASE PrepareForLaunch \/ InstallHandler \/ Popen \/ AssignPro \/ Communicate \/ TaskOutCollect
  BY <1>5, Zenon DEF PrepareForLaunch, InstallHandler, Popen, AssignPro, Communicate, TaskOutCollect
<1>6. CASE AnalyzeGuard \/ AnalyzeCopy \/ AnalyzeParse \/ AnalyzeJoin \/ CoreDumpAnalyze
           \/ AicoreErrorAnalyze \/ RunMsaicerr \/ UbAnalyze
  BY <1>6, Zenon DEF AnalyzeGuard, AnalyzeCopy, AnalyzeParse, AnalyzeJoin, CoreDumpAnalyze,
     AicoreErrorAnalyze, RunMsaicerr, UbAnalyze
<1>7. CASE HardwareDetect \/ RunDiagnose \/ PrintSave \/ EnvDetect \/ Health \/ Config
           \/ Profiling \/ StacktraceReturns
  BY <1>7, Zenon DEF HardwareDetect, RunDiagnose, PrintSave, EnvDetect, Health, Config, Profiling,
     StacktraceReturns
<1>8. CASE OtherStep \/ Interrupt \/ UNCHANGED asysVars
  BY <1>8, Zenon DEF OtherStep, ParseThread, WorkerStep, ViewEnds, TaskEnds, DetectionEnds, Interrupt, asysVars
<1> QED
  BY <1>1, <1>2, <1>3, <1>4, <1>5, <1>6, <1>7, <1>8 DEF AsysNext, MainStep, Ended

(* Each command takes its own way, and only once its line was parsed.      *)
LEMMA WaysStep == Beside /\ Ways /\ AsysNext => Ways'
<1> SUFFICES ASSUME Beside, Ways, AsysNext PROVE Ways'
  OBVIOUS
<1>1. UNCHANGED sc
  BY ScenarioStays
<1>2. Cmd' = Cmd /\ (Parsed' <=> Parsed) /\ Arg("r")' = Arg("r")
  BY <1>1 DEF Cmd, Parsed, Arg, Args
<1> DEFINE Way == {"start", "env", "create", "run", "diagnose", "component", "detect", "tar", "done"}
<1> SUFFICES /\ pc' \notin {"start"} \cup Final => Parsed
             /\ pc' = "analyze" => Cmd = "analyze"
             /\ pc' \in {"copy", "parse"} => Arg("r") \in StackModes
             /\ Cmd = "diagnose" => pc' \in Way
  BY <1>1, <1>2 DEF Ways, StackModes
<1>3. /\ pc \notin {"start"} \cup Final => Parsed
      /\ pc = "analyze" => Cmd = "analyze"
      /\ pc \in {"copy", "parse"} => Arg("r") \in StackModes
      /\ Cmd = "diagnose" => pc \in Way
  BY DEF Ways
<1> USE DEF Goto_, Return, Exit, runVars, Final
<1>4. CASE ParseCommand
  <2> DEFINE parsed == ParseArgs(sc.inv, sc.envtype)
  <2>1. pc' = "done" \/ (pc' = "env" /\ parsed \notin {"exit_2", "exit_0"} /\ Cmd # "none")
    BY <1>4 DEF ParseCommand
  <2>2. /\ parsed \in {"exit_2", "exit_0", "parsed"}
        /\ Cmd = "help" => parsed = "exit_0"
    BY DEF ParseArgs, Cmd
  <2> QED
    BY <2>1, <2>2 DEF Parsed
<1>5. CASE CheckEnvironment \/ CreateOutTimestampDir \/ CompressOutputDirTar
  <2>1. pc \in {"env", "create", "tar"} /\ pc' \in {"create", "run", "done"}
    BY <1>5 DEF CheckEnvironment, CreateOutTimestampDir, CompressOutputDirTar
  <2> QED
    BY <1>3, <2>1
<1>6. CASE Dispatch
  <2>1. pc = "run" /\ pc' = FirstStep /\ Cmd \in Commands \ {"none", "help"}
    BY <1>3, <1>6, ScenarioAssumption DEF Dispatch, Parsed, Ways, Cmd
  <2> QED
    BY <1>3, <2>1 DEF FirstStep, Commands
<1>7. CASE AnalyzeGuard
  <2>1. Arg("r") \in {"trace", "coredump", "coretrace", "stackcore", "aicore_error", "ub"}
    BY <1>3, <1>7, AnalysisMode DEF AnalyzeGuard, RunModes
  <2> QED
    BY <1>3, <1>7, <2>1 DEF AnalyzeGuard
<1>8. CASE CollectStart \/ CollectHost \/ CollectRc \/ DeviceFileExport \/ CollectDeviceFiles
           \/ CollectGraphs \/ CollectDumps \/ CollectOpsFiles \/ CollectTrace \/ TraceJoin
  BY <1>3, <1>8 DEF CollectStart, Part, CollectHost, CollectRc, DeviceFileExport,
     CollectDeviceFiles, CollectGraphs, CollectDumps, CollectOpsFiles, CollectTrace, TraceJoin
<1>9. CASE StartWorker \/ WorkerTimeout \/ FinishCollect \/ CollectReturns \/ CleanWork
  BY <1>3, <1>9 DEF StartWorker, WorkerTimeout, FinishCollect, CollectReturns, CleanWork
<1>10. CASE JoinWorker \/ TerminateWorker
  <2>1. pc \in Waiting /\ (AfterWorker(TRUE) \/ AfterWorker(FALSE))
    BY <1>10 DEF JoinWorker, TerminateWorker, Waiting
  <2>2. pc' \in {"health_info", "finish", "tar"}
    BY <2>1 DEF AfterWorker, Beside
  <2> QED
    BY <1>3, <2>1, <2>2 DEF Waiting
<1>11. CASE PrepareForLaunch \/ InstallHandler \/ Popen \/ AssignPro \/ Communicate \/ TaskOutCollect
  BY <1>3, <1>11 DEF PrepareForLaunch, InstallHandler, Popen, AssignPro, Communicate, TaskOutCollect
<1>12. CASE AnalyzeCopy \/ AnalyzeParse \/ AnalyzeJoin \/ CoreDumpAnalyze
            \/ AicoreErrorAnalyze \/ RunMsaicerr \/ UbAnalyze
  BY <1>3, <1>12 DEF AnalyzeCopy, AnalyzeParse, AnalyzeJoin, CoreDumpAnalyze,
     AicoreErrorAnalyze, RunMsaicerr, UbAnalyze
<1>13. CASE HardwareDetect \/ RunDiagnose \/ PrintSave \/ EnvDetect
  BY <1>3, <1>13, Zenon DEF HardwareDetect, RunDiagnose, PrintSave, EnvDetect
<1>14. CASE Health \/ Config \/ Profiling \/ StacktraceReturns
  BY <1>3, <1>14 DEF Health, Config, Profiling, StacktraceReturns
<1>15. CASE OtherStep \/ UNCHANGED asysVars
  <2>1. UNCHANGED pc
    BY <1>15, Zenon DEF OtherStep, ParseThread, WorkerStep, ViewEnds, TaskEnds, DetectionEnds, asysVars
  <2> QED
    BY <1>3, <2>1
<1>16. CASE Interrupt
  BY <1>3, <1>16 DEF Interrupt
<1> QED
  BY <1>4, <1>5, <1>6, <1>7, <1>8, <1>9, <1>10, <1>11, <1>12, <1>13, <1>14, <1>15, <1>16
  DEF AsysNext, MainStep, Ended

-----------------------------------------------------------------------------
(* A set of integers with a lower bound has a least element.               *)
LEMMA LeastElement ==
  ASSUME NEW S \in SUBSET Int, S # {}, NEW b \in Int, \A x \in S : b <= x
  PROVE  \E m \in S : \A x \in S : m <= x
<1> DEFINE R == {ss \in Nat \X Nat : ss[1] < ss[2]}
           T == {n \in Nat : b + n \in S}
<1>1. IsWellFoundedOn(R, Nat)
  BY NatLessThanWellFounded DEF OpToRel
<1>2. T \subseteq Nat /\ T # {}
  <2>1. PICK x \in S : TRUE
    OBVIOUS
  <2>2. x - b \in Nat /\ b + (x - b) = x
    BY <2>1
  <2> QED
    BY <2>2
<1>3. PICK n \in T : \A k \in T : ~(<<k, n>> \in R)
  <2> HIDE DEF R, T
  <2> QED
    BY <1>1, <1>2, WFMin, Zenon
<1>4. ASSUME NEW x \in S PROVE b + n <= x
  <2>1. x - b \in T
    <3>1. x - b \in Nat /\ b + (x - b) = x
      OBVIOUS
    <3> QED
      BY <3>1
  <2>2. n \in Nat /\ x - b \in Nat /\ ~(x - b < n)
    BY <1>3, <2>1
  <2> QED
    BY <2>2
<1>5. b + n \in S
  OBVIOUS
<1> QED
  BY <1>4, <1>5

(* The devices of one handler form a group, and a device of the group is   *)
(* detected by one of the group that is detected itself, of its master     *)
(* when it is another one (ascend91093_handler.py).                        *)
HandlerIs(ans, d) == HandlerOf[GetChipInfo(ans[d])]
GroupOf(ans, devices, d) == {e \in devices : HandlerIs(ans, e) = HandlerIs(ans, d)}
IsGroup(ans, G) ==
  /\ G \in SUBSET Int /\ IsFiniteSet(G) /\ \E b \in Int : \A x \in G : b <= x
  /\ \E h : \A x \in G : HandlerIs(ans, x) = h
IsFirst(ans, G, mode, d, e) ==
  /\ e \in G /\ DetectedBy(ans, G, mode, e) = e
  /\ e # d => MasterOf(ans[d], FALSE) \in {MasterOf(ans[e], FALSE)} \ {NoMaster}

LEMMA FirstOfAMaster ==
  ASSUME NEW ans, NEW G, IsGroup(ans, G), NEW mode, NEW d \in G
  PROVE  IsFirst(ans, G, mode, d, DetectedBy(ans, G, mode, d))
<1>a. G \in SUBSET Int /\ IsFiniteSet(G)
  BY DEF IsGroup
<1>b. PICK b \in Int : \A x \in G : b <= x
  BY DEF IsGroup
<1>c. PICK h : \A x \in G : HandlerIs(ans, x) = h
  BY DEF IsGroup
<1> DEFINE e == DetectedBy(ans, G, mode, d)
<1> SUFFICES /\ e \in G /\ DetectedBy(ans, G, mode, e) = e
             /\ e # d => MasterOf(ans[d], FALSE) \in {MasterOf(ans[e], FALSE)} \ {NoMaster}
  BY DEF IsFirst
<1> DEFINE alone == Cardinality(G) = 1
           M(x) == MasterOf(ans[x], alone)
           Peers(x) == {y \in G : M(y) = M(x)}
           Itself(x) == h # "91093" \/ mode \notin {"hbm_detect", "cpu_detect"} \/ M(x) = NoMaster
           First(x) == CHOOSE y \in Peers(x) : \A z \in Peers(x) : y <= z
<1>1. ASSUME NEW x \in G
      PROVE  DetectedBy(ans, G, mode, x) = IF Itself(x) THEN x ELSE First(x)
  BY <1>c DEF DetectedBy, HandlerIs
<1>2. alone => G = {d}
  BY <1>a, FS_Singleton
<1>3. ~alone => M(d) = MasterOf(ans[d], FALSE) /\ M(e) = MasterOf(ans[e], FALSE)
  OBVIOUS
<1> HIDE DEF M, alone, e
<1>4. CASE Itself(d)
  BY <1>1, <1>4 DEF e
<1>5. CASE ~Itself(d)
  <2>1. e = First(d)
    BY <1>1, <1>5 DEF e
  <2>2. \E y \in Peers(d) : \A z \in Peers(d) : y <= z
    <3>1. Peers(d) \in SUBSET Int /\ d \in Peers(d) /\ \A x \in Peers(d) : b <= x
      BY <1>a, <1>b
    <3> HIDE DEF Peers
    <3> QED
      BY <1>b, <3>1, LeastElement
  <2>3. e \in Peers(d)
    BY <2>1, <2>2
  <2>4. e \in G /\ M(e) = M(d)
    BY <2>3
  <2>5. ~Itself(e) /\ Peers(e) = Peers(d)
    BY <1>5, <2>4
  <2>6. First(e) = First(d)
    BY <2>5, Zenon
  <2>7. DetectedBy(ans, G, mode, e) = e
    BY <1>1, <2>1, <2>4, <2>5, <2>6
  <2>8. e # d => ~alone
    BY <1>2, <2>4
  <2> QED
    BY <1>3, <1>5, <2>4, <2>7, <2>8 DEF e
<1> QED
  BY <1>4, <1>5 DEF e

(* The devices that a diagnosis asks are finitely many numbers.            *)
LEMMA AskedDevices ==
  Ways /\ Parsed =>
    Asked \in SUBSET Int /\ IsFiniteSet(Asked) /\ \E b \in Int : \A x \in Asked : b <= x
<1> SUFFICES ASSUME Ways, Parsed
             PROVE  Asked \in SUBSET Int /\ IsFiniteSet(Asked) /\ \E b \in Int : \A x \in Asked : b <= x
  OBVIOUS
<1>1. CASE HasArg(Args, "d")
  <2>1. "d" \in DOMAIN sc.inv.opts /\ Arg("d") = sc.inv.opts["d"]
    BY <1>1 DEF HasArg, Args, SetArgs, Arg
  <2>2. ~BadValue(sc.inv.cmd, "d", sc.inv.opts["d"])
    BY <2>1 DEF Parsed, ParseArgs, Cmd
  <2>3. Arg("d") \in Int
    BY <2>1, <2>2, ScenarioAssumption DEF BadValue, IntOptions, Ways
  <2>4. Asked = {Arg("d")}
    BY <1>1 DEF Asked
  <2>5. IsFiniteSet({Arg("d")})
    BY FS_Singleton
  <2> QED
    BY <2>3, <2>4, <2>5
<1>2. CASE ~HasArg(Args, "d")
  <2>1. sc.n \in Nat
    BY ScenarioAssumption DEF Ways
  <2>2. 0 \in Int /\ sc.n - 1 \in Int
    BY <2>1
  <2>3. IsFiniteSet(0..(sc.n - 1))
    BY <2>2, FS_Interval
  <2> QED
    BY <1>2, <2>1, <2>3 DEF Asked
<1> QED
  BY <1>1, <1>2

(* Which device a device is detected by: itself, or another of its master. *)
LEMMA DetectedByPeer ==
  ASSUME Ways, Parsed, NEW d \in Devices
  PROVE  /\ d \in Group(d) /\ Group(d) \in Groups(sc.ans, Devices)
         /\ \A g \in Groups(sc.ans, Devices) : d \in g => g = Group(d)
         /\ By(d) \in Group(d) /\ By(d) \in Devices /\ By(By(d)) = By(d)
         /\ By(d) # d => MasterOf(sc.ans[d], FALSE) \in {MasterOf(sc.ans[By(d)], FALSE)} \ {NoMaster}
<1>1. Devices \subseteq Asked
  BY DEF Devices, DiagnoseDevices, Supported
<1> DEFINE G(x) == GroupOf(sc.ans, Devices, x)
<1>2. Groups(sc.ans, Devices) = {G(x) : x \in Devices}
  BY DEF Groups, GroupOf, HandlerIs
<1>3. ASSUME NEW x \in Devices PROVE Group(x) = G(x) /\ x \in G(x)
  <2>1. x \in G(x) /\ G(x) \in Groups(sc.ans, Devices)
    BY <1>2 DEF GroupOf
  <2>2. ASSUME NEW g \in Groups(sc.ans, Devices), x \in g PROVE g = G(x)
    BY <1>2, <2>2 DEF GroupOf
  <2> QED
    BY <2>1, <2>2 DEF Group
<1>4. ASSUME NEW g \in Groups(sc.ans, Devices), d \in g PROVE g = Group(d)
  <2>1. PICK x \in Devices : g = G(x)
    BY <1>2
  <2>2. G(x) = G(d)
    BY <1>4, <2>1 DEF GroupOf
  <2> QED
    BY <1>3, <2>1, <2>2
<1>5. IsGroup(sc.ans, G(d))
  <2>1. G(d) \subseteq Asked
    BY <1>1 DEF GroupOf
  <2>2. IsFiniteSet(G(d))
    BY <2>1, AskedDevices, FS_Subset
  <2>3. G(d) \in SUBSET Int /\ \E b \in Int : \A x \in G(d) : b <= x
    BY <2>1, AskedDevices
  <2>4. \A x \in G(d) : HandlerIs(sc.ans, x) = HandlerIs(sc.ans, d)
    BY DEF GroupOf
  <2> QED
    BY <2>2, <2>3, <2>4 DEF IsGroup
<1>6. By(d) = DetectedBy(sc.ans, G(d), Arg("r"), d)
  BY <1>3 DEF By
<1>9. IsFirst(sc.ans, G(d), Arg("r"), d, By(d))
  <2>1. d \in G(d)
    BY <1>3
  <2> HIDE DEF G
  <2> QED
    BY <1>5, <1>6, <2>1, FirstOfAMaster
<1>10. By(d) \in Devices /\ G(By(d)) = G(d)
  BY <1>9 DEF GroupOf, IsFirst
<1>11. By(By(d)) = DetectedBy(sc.ans, G(d), Arg("r"), By(d))
  BY <1>3, <1>10 DEF By
<1> QED
  BY <1>2, <1>3, <1>4, <1>9, <1>10, <1>11 DEF IsFirst

(* What is computed of the scenario stays.                                 *)
LEMMA SameDevices ==
  ASSUME UNCHANGED sc
  PROVE  /\ UNCHANGED <<Cmd, Asked, Devices, Groups(sc.ans, Devices)>>
         /\ \A o : Arg(o)' = Arg(o)
         /\ \A d : Group(d)' = Group(d) /\ By(d)' = By(d)
BY DEF Cmd, Asked, Devices, Group, By, Arg, Args

LEMMA SameReports ==
  ASSUME UNCHANGED <<sc, detect>>
  PROVE  (Busy' = Busy) /\ \A d : Reported(d)' <=> Reported(d)
BY SameDevices DEF Busy, Reported

(* Every device that is asked for has a result in the end.                 *)
LEMMA DetectedStep == Beside /\ Ways /\ Detected /\ AsysNext => Detected'
<1> SUFFICES ASSUME Beside, Ways, Detected, AsysNext PROVE Detected'
  OBVIOUS
<1>1. UNCHANGED sc
  BY ScenarioStays
<1>2. /\ UNCHANGED <<Cmd, Asked, Devices, Groups(sc.ans, Devices)>>
      /\ \A o : Arg(o)' = Arg(o)
      /\ \A d : Group(d)' = Group(d) /\ By(d)' = By(d)
  BY <1>1, SameDevices
<1>3. pc \notin {"detect", "tar", "done"} => DOMAIN detect = {} /\ Busy = {}
  BY DEF Detected, Busy
<1> USE DEF Goto_, Return, Exit, runVars, diaVars
\* a step that leaves the results alone, before or after the detection
<1>4. ASSUME UNCHANGED detect, pc # "detect", pc' # "detect",
             \/ pc \in {"tar", "done"} /\ pc' \in {"tar", "done"} /\ UNCHANGED result
             \/ pc \notin {"tar", "done"} /\ (pc' \in {"tar", "done"} /\ result' => Cmd # "diagnose")
      PROVE  Detected'
  BY <1>1, <1>2, <1>3, <1>4, SameReports DEF Detected
<1>5. CASE ParseCommand
  <2>1. UNCHANGED detect /\ pc = "start" /\ pc' \in {"done", "env"}
    BY <1>5, Zenon DEF ParseCommand
  <2>2. result' /\ pc' = "done" => Cmd = "none" \/ ParseArgs(sc.inv, sc.envtype) = "exit_0"
    BY <1>5 DEF ParseCommand
  <2>3. ParseArgs(sc.inv, sc.envtype) = "exit_0" => Cmd = "help"
    BY DEF ParseArgs, Cmd
  <2> QED
    BY <1>4, <2>1, <2>2, <2>3
<1>6. CASE CheckEnvironment \/ CreateOutTimestampDir
  <2>1. UNCHANGED detect /\ pc \in {"env", "create"} /\ pc' \in {"create", "run", "done"}
        /\ (pc' = "done" => ~result')
    BY <1>6 DEF CheckEnvironment, CreateOutTimestampDir
  <2> QED
    BY <1>4, <2>1
<1>7. CASE Dispatch
  <2>1. FirstStep \notin {"detect", "tar", "done"} /\ pc = "run"
    BY <1>7, ScenarioAssumption DEF FirstStep, Ways, Cmd, Commands, Dispatch
  <2>2. UNCHANGED detect /\ pc' = FirstStep
    BY <1>7 DEF Dispatch
  <2> QED
    BY <1>4, <2>1, <2>2
<1>8. CASE CompressOutputDirTar
  <2>1. UNCHANGED <<detect, result>> /\ pc = "tar" /\ pc' = "done"
    BY <1>8 DEF CompressOutputDirTar
  <2> QED
    BY <1>4, <2>1
\* what the other commands do
<1>9. ASSUME UNCHANGED detect, Cmd # "diagnose", pc \notin {"detect", "tar", "done"}, pc' # "detect"
      PROVE  Detected'
  BY <1>4, <1>9
<1> DEFINE Way == {"start", "env", "create", "run", "diagnose", "component", "detect", "tar", "done"}
<1>10. pc \notin Way => Cmd # "diagnose"
  BY DEF Ways
<1>11. CASE CollectStart \/ CollectHost \/ CollectRc \/ DeviceFileExport \/ CollectDeviceFiles
            \/ CollectGraphs \/ CollectDumps \/ CollectOpsFiles \/ CollectTrace \/ TraceJoin
  <2>1. UNCHANGED detect /\ pc \notin Way /\ pc' # "detect"
    BY <1>11 DEF CollectStart, Part, CollectHost, CollectRc, DeviceFileExport,
       CollectDeviceFiles, CollectGraphs, CollectDumps, CollectOpsFiles, CollectTrace, TraceJoin
  <2> QED
    BY <1>9, <1>10, <2>1
<1>12. CASE StartWorker \/ WorkerTimeout \/ FinishCollect \/ CollectReturns \/ CleanWork
  <2>1. UNCHANGED detect /\ pc \notin Way /\ pc' # "detect"
    BY <1>12 DEF StartWorker, WorkerTimeout, FinishCollect, CollectReturns, CleanWork
  <2> QED
    BY <1>9, <1>10, <2>1
<1>13. CASE JoinWorker \/ TerminateWorker
  <2>1. pc \in Waiting /\ (AfterWorker(TRUE) \/ AfterWorker(FALSE)) /\ UNCHANGED detect
    BY <1>13 DEF JoinWorker, TerminateWorker, Waiting
  <2>2. pc' \in {"health_info", "finish", "tar"}
    BY <2>1 DEF AfterWorker, Beside
  <2> QED
    BY <1>9, <1>10, <2>1, <2>2 DEF Waiting
<1>14. CASE PrepareForLaunch \/ InstallHandler \/ Popen \/ AssignPro \/ Communicate \/ TaskOutCollect
  <2>1. UNCHANGED detect /\ pc \notin Way /\ pc' # "detect"
    BY <1>14 DEF PrepareForLaunch, InstallHandler, Popen, AssignPro, Communicate, TaskOutCollect
  <2> QED
    BY <1>9, <1>10, <2>1
<1>15. CASE AnalyzeGuard
  <2>1. Arg("r") \in {"trace", "coredump", "coretrace", "stackcore", "aicore_error", "ub"}
    BY <1>15, AnalysisMode DEF AnalyzeGuard, Ways, RunModes, Final
  <2>2. UNCHANGED detect /\ pc \notin Way /\ pc' # "detect"
    BY <1>15, <2>1 DEF AnalyzeGuard
  <2> QED
    BY <1>9, <1>10, <2>2
<1>16. CASE AnalyzeCopy \/ AnalyzeParse \/ AnalyzeJoin \/ CoreDumpAnalyze
            \/ AicoreErrorAnalyze \/ RunMsaicerr \/ UbAnalyze
  <2>1. UNCHANGED detect /\ pc \notin Way /\ pc' # "detect"
    BY <1>16 DEF AnalyzeCopy, AnalyzeParse, AnalyzeJoin, CoreDumpAnalyze,
       AicoreErrorAnalyze, RunMsaicerr, UbAnalyze
  <2> QED
    BY <1>9, <1>10, <2>1
<1>17. CASE Config \/ Profiling \/ StacktraceReturns
  <2>1. UNCHANGED detect /\ pc \notin Way /\ pc' # "detect"
    BY <1>17 DEF Config, Profiling, StacktraceReturns
  <2> QED
    BY <1>9, <1>10, <2>1
<1>18. CASE Health
  <2>1. pc = "health" /\ pc' = "tar" /\ Cmd # "diagnose"
    BY <1>10, <1>18 DEF Health
  <2>2. ASSUME NEW d \in Asked PROVE RunHealthCheck(sc.ans, Asked)[d].status # "running"
    BY <2>2 DEF RunHealthCheck, GetDeviceHealth, Unknown
  <2>3. detect' = [d \in Asked |-> <<d, RunHealthCheck(sc.ans, Asked)[d].status>>]
    BY <1>18 DEF Health
  <2>4. Busy' = {}
    BY <2>2, <2>3 DEF Busy
  <2> QED
    BY <1>2, <2>1, <2>4 DEF Detected
<1>19. CASE HardwareDetect
  <2>1. CASE pc' = "tar" /\ ~result' /\ UNCHANGED detect
    BY <1>4, <1>19, <2>1 DEF HardwareDetect
  <2>2. CASE pc' = "detect" /\ todo' = Groups(sc.ans, Devices) /\ UNCHANGED detect
    <3>1. Parsed /\ DOMAIN detect = {}
      BY <1>3, <1>19 DEF HardwareDetect, Ways, Final
    <3>2. \A d \in Devices : Group(d) \in Groups(sc.ans, Devices)
      BY <3>1, DetectedByPeer
    <3> QED
      BY <1>2, <2>2, <3>1, <3>2 DEF Detected
  <2> QED
    BY <1>19, <2>1, <2>2 DEF HardwareDetect
<1>20. ASSUME pc = "detect"
       PROVE  /\ Parsed
              /\ \A d \in DOMAIN detect : \E v : detect[d] = <<d, v>>
              /\ \A d \in Devices : Group(d) \in todo \/ By(d) \in DOMAIN detect
  BY <1>20 DEF Detected, Ways, Final
<1>21. CASE RunDiagnose
  <2>1. PICK g \in todo :
          /\ pc = "detect" /\ pc' = "detect"
          /\ todo' = todo \ {g}
          /\ detect' = [d \in DOMAIN detect \cup {x \in g : By(x) = x} |->
                          IF d \in g THEN <<d, "running">> ELSE detect[d]]
    BY <1>21 DEF RunDiagnose
  <2>2. ASSUME NEW d \in Devices PROVE Group(d) \in todo' \/ By(d) \in DOMAIN detect'
    <3>1. CASE Group(d) = g
      <4>1. By(d) \in g /\ By(By(d)) = By(d)
        BY <1>20, <2>1, <3>1, DetectedByPeer
      <4> QED
        BY <2>1, <4>1
    <3>2. CASE Group(d) # g
      BY <1>20, <2>1, <3>2
    <3> QED
      BY <3>1, <3>2
  <2>3. ASSUME NEW d \in DOMAIN detect' PROVE \E v : detect'[d] = <<d, v>>
    BY <1>20, <2>1
  <2> QED
    BY <1>2, <2>1, <2>2, <2>3 DEF Detected
<1>22. CASE \E d \in DOMAIN detect : DetectionEnds(d)
  <2>1. PICK d \in DOMAIN detect, code \in sc.codes :
          /\ d \in Busy /\ UNCHANGED <<pc, todo>>
          /\ detect' = [detect EXCEPT ![d] = <<d, Verdict(Arg("r"), code)>>]
    BY <1>22 DEF DetectionEnds
  <2>2. pc = "detect"
    BY <2>1 DEF Detected
  <2>3. DOMAIN detect' = DOMAIN detect
    BY <2>1
  <2>4. ASSUME NEW x \in DOMAIN detect PROVE \E v : detect'[x] = <<x, v>>
    BY <1>20, <2>1, <2>2
  <2> QED
    BY <1>2, <1>20, <2>1, <2>2, <2>3, <2>4 DEF Detected
<1>23. CASE PrintSave
  <2>1. /\ pc = "detect" /\ todo = {} /\ Busy = {} /\ pc' = "tar"
        /\ detect' = [d \in Asked |-> IF d \in Devices THEN detect[By(d)] ELSE <<d, "WARN">>]
    BY <1>23 DEF PrintSave
  <2>2. ASSUME NEW d \in Asked
        PROVE  /\ detect'[d] # <<d, "running">>
               /\ d \in Devices => detect'[d][1] = By(d)
    <3>1. CASE d \notin Devices
      BY <2>1, <3>1
    <3>2. CASE d \in Devices
      <4>1. By(d) \in DOMAIN detect
        BY <1>20, <2>1, <3>2
      <4>2. PICK v : detect[By(d)] = <<By(d), v>>
        BY <1>20, <2>1, <4>1
      <4>3. v # "running"
        BY <2>1, <4>1, <4>2 DEF Busy
      <4>4. detect'[d] = <<By(d), v>>
        BY <2>1, <3>2, <4>2
      <4> QED
        BY <4>3, <4>4
    <3> QED
      BY <3>1, <3>2
  <2>3. Busy' = {}
    BY <2>1, <2>2 DEF Busy
  <2>4. ASSUME NEW d \in Asked PROVE Reported(d)'
    <3>1. d \in DOMAIN detect' /\ detect'[d] # <<d, "running">>
      BY <2>1, <2>2
    <3>2. ASSUME d \in Devices, detect'[d][1] # d
          PROVE  MasterOf(sc.ans[d], FALSE) \in {MasterOf(sc.ans[detect'[d][1]], FALSE)} \ {NoMaster}
      BY <1>20, <2>1, <2>2, <3>2, DetectedByPeer
    <3> QED
      BY <1>1, <1>2, <3>1, <3>2 DEF Reported
  <2> QED
    BY <1>2, <2>1, <2>3, <2>4 DEF Detected
<1>24. CASE EnvDetect
  <2>1. CASE pc' = "tar" /\ ~result' /\ UNCHANGED detect
    BY <1>4, <1>24, <2>1 DEF EnvDetect
  <2>2. ASSUME NEW v \in [Asked -> {"PASS", "FAIL"}], detect' = [d \in Asked |-> <<d, v[d]>>],
               pc' = "tar"
        PROVE  Detected'
    <3>1. Busy' = {}
      BY <2>2 DEF Busy
    <3>2. ASSUME NEW d \in Asked PROVE Reported(d)'
      <4>1. d \in DOMAIN detect' /\ detect'[d] = <<d, v[d]>> /\ v[d] # "running"
        BY <2>2
      <4> QED
        BY <4>1 DEF Reported
    <3> QED
      BY <1>2, <2>2, <3>1, <3>2 DEF Detected
  <2> QED
    BY <1>24, <2>1, <2>2 DEF EnvDetect
<1>25. CASE ParseThread \/ WorkerStep \/ ViewEnds \/ TaskEnds \/ UNCHANGED asysVars
  <2>1. UNCHANGED <<pc, result, todo, detect>>
    BY <1>25, Zenon DEF ParseThread, WorkerStep, ViewEnds, TaskEnds, asysVars
  <2> QED
    BY <1>1, <1>2, <2>1, SameReports DEF Detected
<1>26. CASE Interrupt
  <2>1. UNCHANGED detect /\ pc \notin Way /\ pc' \notin {"detect", "tar", "done"}
    BY <1>26 DEF Interrupt
  <2> QED
    BY <1>9, <1>10, <2>1
<1> QED
  BY <1>5, <1>6, <1>7, <1>8, <1>11, <1>12, <1>13, <1>14, <1>15, <1>16, <1>17, <1>18, <1>19,
     <1>21, <1>22, <1>23, <1>24, <1>25, <1>26 DEF AsysNext, MainStep, OtherStep, Ended

-----------------------------------------------------------------------------
(* A written file has its content, and the others keep theirs.             *)
LEMMA FileWritten ==
  ASSUME NEW t, NEW p, NEW c
  PROVE  /\ DOMAIN WithFile(t, p, c).file = DOMAIN t.file \cup {p}
         /\ WithFile(t, p, c).file[p] = c
         /\ \A q \in DOMAIN t.file \ {p} : WithFile(t, p, c).file[q] = t.file[q]
BY DEF WithFile

(* A step of one thread changes no other.                                  *)
LEMMA ThreadGoes ==
  ASSUME NEW p \in DOMAIN threads, "pc" \in DOMAIN threads[p], NEW l,
         threads' = [threads EXCEPT ![p].pc = l]
  PROVE  /\ DOMAIN threads' = DOMAIN threads /\ DOMAIN threads'[p] = DOMAIN threads[p]
         /\ threads'[p].pc = l /\ \A f \in DOMAIN threads[p] \ {"pc"} : threads'[p][f] = threads[p][f]
         /\ \A q \in DOMAIN threads \ {p} : threads'[q] = threads[q]
OBVIOUS

(* Where a thread is that takes a step of the parser of traces.            *)
LEMMA TraceStepPc ==
  ASSUME NEW p, \/ TraceOpen(p) \/ TraceHead(p) \/ TraceStructs(p)
                \/ TraceMessage(p) \/ TraceWrite(p) \/ TraceRemove(p)
  PROVE  threads[p].pc \in {"open", "tz", "real", "freq", "structs", "messages", "written"}
<1>1. \A i \in DOMAIN HeadFields : HeadFields[i] \in {"tz", "real", "freq"}
  BY DEF HeadFields
<1>2. TraceMessage(p) => threads[p].pc = "messages"
  BY Zenon DEF TraceMessage
<1> QED
  BY <1>1, <1>2 DEF TraceOpen, TraceHead, TraceStructs, TraceWrite, TraceRemove

(* The threads that rewrite the stack files, one step of one of them.      *)
LEMMA StackThreadStep ==
  ASSUME Stacks, NEW symbols, NEW tools \in BOOLEAN,
         TraceStep \/ StackStep(symbols, tools)
  PROVE  Stacks'
<1>1. ASSUME NEW p \in DOMAIN threads PROVE threads[p].pc \in StackPcs \ {"core"}
  BY DEF Stacks
<1>2. ~TraceStep
  BY <1>1, TraceStepPc DEF TraceStep, StackPcs
<1>3. PICK p \in DOMAIN threads :
        \/ StackOpen(p, symbols, tools) \/ StackMaps(p) \/ StackLine(p, symbols) \/ StackWrite(p)
        \/ CoreParse(p, tools)
  BY <1>2 DEF StackStep
<1>4. p \in DOMAIN tree.file /\ "pc" \in DOMAIN threads[p] /\ threads[p].pc \in StackPcs \ {"core"}
  BY DEF Stacks
\* a thread that does not write
<1>5. ASSUME UNCHANGED tree, DOMAIN threads' = DOMAIN threads, "pc" \in DOMAIN threads'[p],
             threads'[p].pc \in {"maps", "lines", "failed"},
             \A q \in DOMAIN threads \ {p} : threads'[q] = threads[q]
      PROVE  Stacks'
  BY <1>5 DEF Stacks, Framed, StackPcs
<1>6. CASE StackOpen(p, symbols, tools)
  <2>1. PICK l \in {"maps", "lines", "failed"} : threads' = [threads EXCEPT ![p].pc = l]
    BY <1>6 DEF StackOpen, TraceFails, TraceGoes
  <2>2. UNCHANGED tree
    BY <1>6 DEF StackOpen
  <2> QED
    BY <1>4, <1>5, <2>1, <2>2, ThreadGoes
<1>7. CASE StackMaps(p)
  <2>1. threads' = [threads EXCEPT ![p].pc = "lines"] /\ UNCHANGED tree
    BY <1>7 DEF StackMaps, TraceGoes
  <2> QED
    BY <1>4, <1>5, <2>1, ThreadGoes
<1>8. CASE StackLine(p, symbols)
  <2>1. PICK i, v : threads' = [threads EXCEPT ![p].lines[i] = v]
    BY <1>8 DEF StackLine
  <2>2. UNCHANGED tree /\ threads[p].pc = "lines"
    BY <1>8 DEF StackLine
  <2>3. /\ DOMAIN threads' = DOMAIN threads /\ "pc" \in DOMAIN threads'[p]
        /\ threads'[p].pc = threads[p].pc
        /\ \A q \in DOMAIN threads \ {p} : threads'[q] = threads[q]
    BY <1>4, <2>1
  <2> QED
    BY <1>5, <2>2, <2>3
<1>9. CASE StackWrite(p)
  <2> DEFINE c == [of |-> p, frames |-> threads[p].lines]
  <2>1. threads' = [threads EXCEPT ![p].pc = "done"] /\ tree' = WithFile(tree, p, c)
    BY <1>9 DEF StackWrite, TraceGoes
  <2>2. \A i \in DOMAIN c.frames : c.frames[i] # NoFrame
    BY <1>9 DEF StackWrite
  <2> HIDE DEF c
  <2>3. /\ DOMAIN tree'.file = DOMAIN tree.file \cup {p} /\ tree'.file[p] = c
        /\ \A q \in DOMAIN tree.file \ {p} : tree'.file[q] = tree.file[q]
    BY <2>1, FileWritten
  <2>4. /\ DOMAIN threads' = DOMAIN threads /\ "pc" \in DOMAIN threads'[p]
        /\ threads'[p].pc = "done" /\ \A q \in DOMAIN threads \ {p} : threads'[q] = threads[q]
    BY <1>4, <2>1, ThreadGoes
  <2> QED
    BY <2>2, <2>3, <2>4 DEF Stacks, Framed, StackPcs
<1> QED
  BY <1>3, <1>4, <1>6, <1>7, <1>8, <1>9 DEF CoreParse, StackPcs

(* A stack file that is done has all its frames until the command ends.    *)
LEMMA StackedStep == Beside /\ Ways /\ Stacked /\ AsysNext => Stacked'
<1> SUFFICES ASSUME Beside, Ways, Stacked, AsysNext PROVE Stacked'
  OBVIOUS
<1>1. UNCHANGED sc
  BY ScenarioStays
<1>2. StackMode' <=> StackMode
  BY <1>1, SameDevices DEF StackMode
<1> SUFFICES ASSUME StackMode PROVE Stacked'
  BY <1>2 DEF Stacked
<1>3. /\ Cmd = "analyze" /\ Arg("r") = "stackcore"
      /\ pc \in {"start", "env", "create", "run", "analyze", "copy", "parse", "parsing", "tar", "done"}
      /\ pc \notin {"parsing", "tar", "done"} => DOMAIN threads = {}
      /\ pc \in {"parsing", "tar"} => Stacks
      /\ worker.state # "running" /\ task # "running"
  BY DEF Stacked, StackMode, Beside, Waiting
<1> USE DEF Goto_, Return, Exit, runVars
\* a step without threads
<1>4. ASSUME UNCHANGED threads, pc \in {"start", "env", "create", "run", "analyze", "copy"},
             pc' \in {"env", "create", "run", "analyze", "copy", "parse", "tar", "done"}
      PROVE  Stacked'
  <2>1. DOMAIN threads' = {}
    BY <1>3, <1>4
  <2>2. Stacks'
    BY <2>1 DEF Stacks
  <2> QED
    BY <1>4, <2>1, <2>2 DEF Stacked
\* a step that leaves the threads and their files alone
<1>5. ASSUME UNCHANGED <<threads, tree>>, pc \in {"parsing", "tar", "done"} \/ pc' = pc,
             pc' \in {"tar", "done"} \/ pc' = pc, pc = "done" => pc' = pc
      PROVE  Stacked'
  <2>1. Stacks' <=> Stacks
    BY <1>5 DEF Stacks, Framed
  <2> QED
    BY <1>3, <1>5, <2>1 DEF Stacked
<1>6. CASE ParseCommand
  <2>1. UNCHANGED threads /\ pc = "start" /\ pc' \in {"done", "env"}
    BY <1>6, Zenon DEF ParseCommand
  <2> QED
    BY <1>4, <2>1
<1>7. CASE CheckEnvironment \/ CreateOutTimestampDir
  <2>1. UNCHANGED threads /\ pc \in {"env", "create"} /\ pc' \in {"create", "run", "done"}
    BY <1>7 DEF CheckEnvironment, CreateOutTimestampDir, traceVars
  <2> QED
    BY <1>4, <2>1
<1>8. CASE Dispatch
  <2>1. UNCHANGED threads /\ pc = "run" /\ pc' = "analyze"
    BY <1>3, <1>8 DEF Dispatch, FirstStep, traceVars
  <2> QED
    BY <1>4, <2>1
<1>9. CASE CompressOutputDirTar
  <2>1. UNCHANGED threads /\ pc' = "done"
    BY <1>9 DEF CompressOutputDirTar
  <2> QED
    BY <2>1 DEF Stacked
<1>10. CASE AnalyzeGuard
  <2>1. UNCHANGED threads /\ pc = "analyze" /\ pc' \in {"copy", "tar"}
    BY <1>3, <1>10 DEF AnalyzeGuard, StackModes
  <2> QED
    BY <1>4, <2>1
<1>11. CASE AnalyzeCopy
  <2>1. UNCHANGED threads /\ pc = "copy" /\ pc' \in {"parse", "tar"}
    BY <1>11 DEF AnalyzeCopy
  <2> QED
    BY <1>4, <2>1
<1>12. CASE AnalyzeParse
  <2>1. pc' = "parsing" /\ UNCHANGED tree /\ StartStack(InputFiles)
    BY <1>3, <1>12 DEF AnalyzeParse
  <2>2. InputFiles \subseteq DOMAIN tree.file
    BY <1>3 DEF InputFiles, FilesBelow
  <2>3. Stacks'
    <3> DEFINE lines(p) == [i \in DOMAIN tree.file[p].frames |-> NoFrame]
    <3>1. threads' = [p \in InputFiles |-> [pc |-> "stack", lines |-> lines(p)]]
      BY <2>1 DEF StartStack
    <3> HIDE DEF lines
    <3> QED
      BY <2>1, <2>2, <3>1 DEF Stacks, StackPcs
  <2> QED
    BY <2>1, <2>3 DEF Stacked
<1>13. CASE ParseThread
  <2> DEFINE symbols == IF HasArg(Args, "symbol_path") THEN Arg("symbol_path") ELSE <<>>
             tools == "readelf" \in sc.tools
  <2>1. pc \in {"tracing", "parsing"} /\ pc' = pc /\ (TraceStep \/ StackStep(symbols, tools))
    BY <1>13 DEF ParseThread
  <2>2. tools \in BOOLEAN
    OBVIOUS
  <2> HIDE DEF symbols, tools
  <2>3. Stacks'
    BY <1>3, <2>1, <2>2, StackThreadStep
  <2> QED
    BY <1>3, <2>1, <2>3 DEF Stacked
<1>14. CASE AnalyzeJoin
  <2>1. UNCHANGED <<threads, tree>> /\ pc = "parsing" /\ pc' = "tar"
    BY <1>14 DEF AnalyzeJoin, traceVars
  <2> QED
    BY <1>5, <2>1
<1>15. CASE ViewEnds \/ (\E d \in DOMAIN detect : DetectionEnds(d)) \/ UNCHANGED asysVars
  <2>1. UNCHANGED <<threads, tree, pc>>
    BY <1>15 DEF ViewEnds, DetectionEnds, asysVars, traceVars
  <2> QED
    BY <1>5, <2>1
<1>16. ~WorkerStep /\ ~TaskEnds
  BY <1>3 DEF WorkerStep, TaskEnds
<1> DEFINE Here == {"start", "env", "create", "run", "analyze", "copy", "parse", "parsing", "tar", "done"}
<1>17. /\ ~CollectStart /\ ~CollectHost /\ ~CollectRc /\ ~DeviceFileExport /\ ~CollectDeviceFiles
       /\ ~CollectGraphs /\ ~CollectDumps /\ ~CollectOpsFiles /\ ~CollectTrace /\ ~TraceJoin
  BY <1>3 DEF CollectStart, Part, CollectHost, CollectRc, DeviceFileExport,
     CollectDeviceFiles, CollectGraphs, CollectDumps, CollectOpsFiles, CollectTrace, TraceJoin
<1>18. /\ ~StartWorker /\ ~JoinWorker /\ ~WorkerTimeout /\ ~TerminateWorker
       /\ ~FinishCollect /\ ~CollectReturns /\ ~CleanWork
       /\ ~PrepareForLaunch /\ ~InstallHandler /\ ~Popen /\ ~AssignPro /\ ~Communicate /\ ~TaskOutCollect
  BY <1>3 DEF StartWorker, JoinWorker, WorkerTimeout, TerminateWorker, FinishCollect, CollectReturns,
     CleanWork, PrepareForLaunch, InstallHandler, Popen, AssignPro, Communicate, TaskOutCollect
<1>19. /\ ~CoreDumpAnalyze /\ ~AicoreErrorAnalyze /\ ~RunMsaicerr /\ ~UbAnalyze
       /\ ~HardwareDetect /\ ~RunDiagnose /\ ~PrintSave /\ ~EnvDetect
       /\ ~Health /\ ~Config /\ ~Profiling /\ ~StacktraceReturns /\ ~Interrupt
  BY <1>3 DEF CoreDumpAnalyze, AicoreErrorAnalyze, RunMsaicerr, UbAnalyze, HardwareDetect, RunDiagnose,
     PrintSave, EnvDetect, Health, Config, Profiling, StacktraceReturns, Interrupt
<1> QED
  BY <1>6, <1>7, <1>8, <1>9, <1>10, <1>11, <1>12, <1>13, <1>14, <1>15, <1>16, <1>17, <1>18, <1>19
  DEF AsysNext, MainStep, OtherStep, Ended

-----------------------------------------------------------------------------
(* A path is its directory and its name, and the text of a trace is in the *)
(* same directory, under a name that no trace and no other text has.       *)
LEMMA SequenceSplits ==
  ASSUME NEW S, NEW p \in Seq(S), p # <<>>
  PROVE  Front(p) \in Seq(S) /\ Last(p) \in S /\ p = Append(Front(p), Last(p))
<1>2. PICK s \in Seq(S), e \in S : p = Append(s, e)
  BY SequenceEmptyOrAppend
<1>3. Len(p) = Len(s) + 1 /\ p[Len(s) + 1] = e /\ Len(s) \in Nat /\ \A i \in 1..Len(s) : p[i] = s[i]
  BY <1>2, AppendProperties
<1>4. Last(p) = e
  BY <1>3 DEF Last
<1>5. Front(p) = s
  BY <1>2, <1>3 DEF Front
<1> QED
  BY <1>2, <1>4, <1>5

(* Both parts are names or sequences of names.                             *)
LEMMA PathSplits ==
  ASSUME NEW p \in Path
  PROVE  Front(p) \in Seq(STRING) /\ Last(p) \in STRING /\ p = Append(Front(p), Last(p))
BY SequenceSplits, Zenon DEF Path

(* Two appended names: the last one tells them apart.                      *)
LEMMA TextsApart ==
  ASSUME NEW p \in Path, NEW q \in Path, Last(p) \in BinFile, Last(q) \in BinFile
  PROVE  /\ TextOf(p) # q
         /\ TextOf(p) = TextOf(q) => p = q
<1> DEFINE S == STRING \cup {TxtOf[Last(p)], TxtOf[Last(q)]}
<1>1. /\ Front(p) \in Seq(STRING) /\ p = Append(Front(p), Last(p))
      /\ Front(q) \in Seq(STRING) /\ q = Append(Front(q), Last(q))
      /\ Last(p) \in STRING /\ Last(q) \in STRING
  BY PathSplits
<1>2. Front(p) \in Seq(S) /\ Front(q) \in Seq(S) /\ Last(q) \in S
  BY <1>1
<1>3. TxtOf[Last(p)] \in S /\ TxtOf[Last(q)] \in S
  OBVIOUS
<1> HIDE DEF S
<1>4. TextOf(p) = q => TxtOf[Last(p)] = Last(q)
  BY <1>1, <1>2, <1>3, AppendInjective DEF TextOf
<1>5. TextOf(p) = TextOf(q) => Front(p) = Front(q) /\ TxtOf[Last(p)] = TxtOf[Last(q)]
  BY <1>2, <1>3, AppendInjective DEF TextOf
<1> QED
  BY <1>1, <1>4, <1>5, TxtAssumption

(* The place of the next message, and the messages read by then.           *)
LEMMA NextMessage ==
  ASSUME NEW bin, IsTrace(bin), NEW n \in Nat \ {0}
  PROVE  /\ Offset(bin, n + 1) = Offset(bin, n) + MsgHead + bin.slot
         /\ Offset(bin, 1) = 16
         /\ Offset(bin, n) \in Int
         /\ Read(bin, 1) = {}
         /\ n > Len(bin.msgs) => Read(bin, n) = Wanted(bin)
         /\ n \in Wanted(bin) => Read(bin, n + 1) = Read(bin, n) \cup {n}
         /\ n \notin Wanted(bin) => Read(bin, n + 1) = Read(bin, n)
         /\ \A i \in Read(bin, n) : i \in Int /\ i < n
<1>1. bin.slot \in Nat /\ Len(bin.msgs) \in Nat /\ DOMAIN bin.msgs = 1..Len(bin.msgs)
  BY DEF IsTrace
<1>2. Wanted(bin) \subseteq 1..Len(bin.msgs)
  BY <1>1 DEF Wanted
<1>3. PICK k : k = MsgHead + bin.slot
  OBVIOUS
<1>4. k \in Nat
  BY <1>1, <1>3 DEF MsgHead
<1>5. ASSUME NEW i \in Int PROVE Offset(bin, i) = 16 + (i - 1) * k
  BY <1>3 DEF Offset
<1>6. (n + 1 - 1) * k = (n - 1) * k + k /\ (1 - 1) * k = 0 /\ (n - 1) * k \in Int
  BY <1>4
<1>7. Offset(bin, n) = 16 + (n - 1) * k /\ Offset(bin, n + 1) = 16 + (n + 1 - 1) * k
      /\ Offset(bin, 1) = 16 + (1 - 1) * k
  BY <1>5
<1>8. /\ Offset(bin, n + 1) = Offset(bin, n) + MsgHead + bin.slot
      /\ Offset(bin, 1) = 16 /\ Offset(bin, n) \in Int
  <2> DEFINE a == (n - 1) * k
  <2>1. a \in Int /\ Offset(bin, n) = 16 + a /\ Offset(bin, n + 1) = 16 + (a + k)
    BY <1>6, <1>7
  <2> HIDE DEF a
  <2>2. Offset(bin, n) + MsgHead + bin.slot = 16 + a + k
    <3> DEFINE o == Offset(bin, n)
               slot == bin.slot
    <3>1. o \in Int /\ o = 16 + a /\ slot \in Nat /\ k = 16 + slot
      BY <1>1, <1>3, <2>1 DEF MsgHead
    <3> HIDE DEF o, slot
    <3>2. o + 16 + slot = 16 + a + k
      BY <2>1, <3>1
    <3> QED
      BY <3>2 DEF o, slot, MsgHead
  <2>3. Offset(bin, 1) = 16
    BY <1>6, <1>7
  <2> QED
    BY <1>3, <1>4, <2>1, <2>2, <2>3
<1>9. /\ Read(bin, 1) = {}
      /\ n > Len(bin.msgs) => Read(bin, n) = Wanted(bin)
      /\ \A i \in Read(bin, n) : i \in Int /\ i < n
  BY <1>1, <1>2 DEF Read
<1>10. \A i \in Wanted(bin) : i < n + 1 <=> i < n \/ i = n
  BY <1>1, <1>2
<1>11. /\ n \in Wanted(bin) => Read(bin, n + 1) = Read(bin, n) \cup {n}
       /\ n \notin Wanted(bin) => Read(bin, n + 1) = Read(bin, n)
  <2>1. ASSUME NEW i PROVE i \in Read(bin, n + 1) <=> i \in Wanted(bin) /\ (i < n \/ i = n)
    BY <1>10 DEF Read
  <2>2. ASSUME NEW i PROVE i \in Read(bin, n) <=> i \in Wanted(bin) /\ i < n
    BY DEF Read
  <2> QED
    BY <2>1, <2>2
<1> QED
  BY <1>8, <1>9, <1>11

(* A line for a later message keeps the lines in order.                    *)
LEMMA LineAppended ==
  ASSUME NEW text, IsSeq(text), NEW msgs, LinesFor(text, msgs), NEW n \in Int,
         \A m \in msgs : m \in Int /\ m < n, NEW line, line.msg = n
  PROVE  IsSeq(Append(text, line)) /\ LinesFor(Append(text, line), msgs \cup {n})
<1>1. PICK X : text \in Seq(X)
  BY DEF IsSeq
<1> DEFINE S == X \cup {line}
           add == Append(text, line)
<1>2. text \in Seq(S) /\ line \in S
  BY <1>1
<1> HIDE DEF S
<1>3. /\ add \in Seq(S) /\ Len(add) = Len(text) + 1 /\ Len(text) \in Nat
      /\ \A i \in 1..Len(text) : add[i] = text[i]
      /\ add[Len(text) + 1] = line
  BY <1>2, AppendProperties
<1>4. DOMAIN text = 1..Len(text) /\ DOMAIN add = 1..(Len(text) + 1)
  BY <1>2, <1>3
<1> HIDE DEF add
<1> DEFINE k == Len(text)
<1>5. k \in Nat /\ DOMAIN text = 1..k /\ DOMAIN add = 1..k \cup {k + 1} /\ k + 1 \notin 1..k
  BY <1>3, <1>4
<1> HIDE DEF k
<1>6. (\A i \in 1..k : add[i] = text[i]) /\ add[k + 1].msg = n
  BY <1>3 DEF k
<1>7. {text[i].msg : i \in 1..k} = msgs
      /\ \A i, j \in 1..k : i < j => text[i].msg < text[j].msg
  BY <1>5 DEF LinesFor
<1>8. {add[i].msg : i \in DOMAIN add} = msgs \cup {n}
  BY <1>5, <1>6, <1>7
<1>9. ASSUME NEW i \in DOMAIN add, NEW j \in DOMAIN add, i < j PROVE add[i].msg < add[j].msg
  <2>1. i \in 1..k
    BY <1>5, <1>9
  <2>2. CASE j \in 1..k
    BY <1>6, <1>7, <1>9, <2>1, <2>2
  <2>3. CASE j = k + 1
    BY <1>6, <1>7, <2>1, <2>3
  <2> QED
    BY <1>5, <2>2, <2>3
<1> QED
  BY <1>3, <1>8, <1>9 DEF LinesFor, IsSeq, add

(* A thread record after a message.                                        *)
LEMMA MessageSkipped ==
  ASSUME NEW r, DOMAIN r = {"pc", "pos", "msg", "text"}, r.pc = "messages", NEW n
  PROVE  [r EXCEPT !.pos = @ + MsgHead + n, !.msg = @ + 1]
              = [pc |-> "messages", pos |-> r.pos + MsgHead + n, msg |-> r.msg + 1, text |-> r.text]
<1> DEFINE a == r.pos + MsgHead + n
           b == r.msg + 1
<1>1. [r EXCEPT !.pos = @ + MsgHead + n, !.msg = @ + 1] = [[r EXCEPT !.pos = a] EXCEPT !.msg = b]
  OBVIOUS
<1> HIDE DEF a, b
<1>2. [r EXCEPT !.pos = a] = [pc |-> "messages", pos |-> a, msg |-> r.msg, text |-> r.text]
  OBVIOUS
<1>3. [[pc |-> "messages", pos |-> a, msg |-> r.msg, text |-> r.text] EXCEPT !.msg = b]
        = [pc |-> "messages", pos |-> a, msg |-> b, text |-> r.text]
  OBVIOUS
<1>4. [r EXCEPT !.pos = @ + MsgHead + n, !.msg = @ + 1]
        = [pc |-> "messages", pos |-> a, msg |-> b, text |-> r.text]
  BY <1>1, <1>2, <1>3, Zenon
<1> QED
  BY <1>4, Zenon DEF a, b

(* The same with a new line in the text.                                   *)
InMessages(pos, msg, text) == [pc |-> "messages", pos |-> pos, msg |-> msg, text |-> text]
WithLine(u, line) == [u EXCEPT !.text = Append(@, line)]
LEMMA TextGrows ==
  ASSUME NEW pos, NEW msg, NEW old, NEW line, NEW u, u = InMessages(pos, msg, old)
  PROVE  WithLine(u, line) = InMessages(pos, msg, Append(old, line))
<1> DEFINE add == Append(u.text, line)
<1>1. add = Append(old, line)
  BY SMT DEF InMessages
<1> HIDE DEF add
<1>2. [u EXCEPT !.text = add] = InMessages(pos, msg, add)
  BY SMT DEF InMessages
<1>3. WithLine(u, line) = [u EXCEPT !.text = add]
  BY Zenon DEF add, WithLine
<1> QED
  BY <1>1, <1>2, <1>3, Zenon

(* A thread reads the next message, or gives its file up.                  *)
LEMMA MessageRead ==
  ASSUME TraceThreads, NEW p \in DOMAIN threads, TraceMessage(p)
  PROVE  /\ UNCHANGED tree /\ DOMAIN threads' = DOMAIN threads
         /\ DOMAIN threads'[p] = DOMAIN threads[p]
         /\ \A q \in DOMAIN threads \ {p} : threads'[q] = threads[q]
         /\ threads'[p].pc \in {"messages", "failed"}
         /\ p \in DOMAIN tree.file /\ Parsable(tree.file[p]) /\ Traced(p) => Traced(p)'
<1> DEFINE bin == tree.file[p]
           th == threads[p]
           m == bin.msgs[th.msg]
           known == m.type \in DOMAIN bin.structs
           items == bin.structs[m.type]
           use == MessageUse(items, m.txt)
           skip == IF use <= bin.slot THEN bin.slot ELSE use
           line == [msg |-> IF th.pos = Offset(bin, th.msg) THEN th.msg ELSE Noise, clock |-> parser]
           next(n) == [th EXCEPT !.pos = @ + MsgHead + n, !.msg = @ + 1]
<1>1. th.pc = "messages" /\ th.msg <= Len(bin.msgs) /\ UNCHANGED <<tree, parser>>
  BY Zenon DEF TraceMessage
<1>2. \/ TraceFails(p)
      \/ (m.busy \/ ~known) /\ threads' = [threads EXCEPT ![p] = next(bin.slot)]
      \/ ~m.busy /\ known
         /\ threads' = [threads EXCEPT ![p] = [next(skip) EXCEPT !.text = Append(@, line)]]
  BY Zenon DEF TraceMessage
<1>3. DOMAIN th = {"pc", "pos", "msg", "text"}
  BY DEF TraceThreads
<1>4. CASE TraceFails(p)
  <2>1. threads' = [threads EXCEPT ![p].pc = "failed"]
    BY <1>4 DEF TraceFails
  <2>2. /\ DOMAIN threads' = DOMAIN threads /\ DOMAIN threads'[p] = DOMAIN threads[p]
        /\ threads'[p].pc = "failed" /\ \A q \in DOMAIN threads \ {p} : threads'[q] = threads[q]
    BY <1>3, <2>1, ThreadGoes
  <2>3. Traced(p)'
    BY <2>2 DEF Traced
  <2> QED
    BY <1>1, <2>2, <2>3
\* the messages of a file that can be parsed
<1>5. ASSUME p \in DOMAIN tree.file, Parsable(bin), Traced(p)
      PROVE  /\ IsTrace(bin) /\ th.msg \in Nat \ {0} /\ th.pos = Offset(bin, th.msg) /\ IsSeq(th.text)
             /\ LinesFor(th.text, Read(bin, th.msg))
             /\ th.msg \in Wanted(bin) <=> ~m.busy /\ known
             /\ th.msg \in Wanted(bin) => use <= bin.slot
  <2>1. /\ IsTrace(bin) /\ th.msg \in Nat \ {0} /\ th.pos = Offset(bin, th.msg) /\ IsSeq(th.text)
        /\ LinesFor(th.text, Read(bin, th.msg))
    BY <1>1, <1>5 DEF Traced, Parsable
  <2>2. th.msg \in DOMAIN bin.msgs
    BY <1>1, <2>1 DEF IsTrace
  <2>3. th.msg \in Wanted(bin) <=> ~m.busy /\ known
    BY <2>2 DEF Wanted
  <2>4. th.msg \in Wanted(bin) => use <= bin.slot
    BY <1>5 DEF Parsable, SlotsHold
  <2> QED
    BY <2>1, <2>3, <2>4
\* what the next place is, if the skipped bytes are those of the slot
<1>6. ASSUME NEW text, NEW t,
             t = [pc |-> "messages", pos |-> th.pos + MsgHead + bin.slot, msg |-> th.msg + 1, text |-> text],
             threads' = [threads EXCEPT ![p] = t], IsSeq(text),
             IsTrace(bin), th.msg \in Nat \ {0}, th.pos = Offset(bin, th.msg),
             LinesFor(text, Read(bin, th.msg + 1))
      PROVE  Traced(p)'
  <2>1. threads'[p] = t /\ tree' = tree
    BY <1>1, <1>6
  <2>2. t.pos = Offset(bin, th.msg + 1) /\ t.msg = th.msg + 1 /\ t.text = text /\ t.pc = "messages"
    BY <1>6, NextMessage
  <2>3. t.msg \in Nat \ {0}
    BY <1>6, <2>2
  <2>4. /\ threads'[p].pc = "messages" /\ threads'[p].msg \in Nat \ {0}
        /\ threads'[p].pos = Offset(tree'.file[p], threads'[p].msg)
        /\ IsSeq(threads'[p].text) /\ LinesFor(threads'[p].text, Read(tree'.file[p], threads'[p].msg))
    BY <1>6, <2>1, <2>2, <2>3
  <2> QED
    BY <2>4 DEF Traced
<1>7. CASE (m.busy \/ ~known) /\ threads' = [threads EXCEPT ![p] = next(bin.slot)]
  <2>1. next(bin.slot) = [pc |-> "messages", pos |-> th.pos + MsgHead + bin.slot,
                          msg |-> th.msg + 1, text |-> th.text]
    <3>1. th.pc = "messages" /\ DOMAIN th = {"pc", "pos", "msg", "text"}
      BY <1>1, <1>3
    <3> HIDE DEF th
    <3> QED
      BY <3>1, MessageSkipped, Zenon
  <2> DEFINE t == next(bin.slot)
  <2>2. threads' = [threads EXCEPT ![p] = t]
    BY <1>7
  <2>3. DOMAIN t = DOMAIN th /\ t.pc = "messages"
    BY <1>3, <2>1
  <2>4. ASSUME p \in DOMAIN tree.file, Parsable(bin), Traced(p) PROVE Traced(p)'
    <3>1. Read(bin, th.msg + 1) = Read(bin, th.msg)
      BY <1>5, <1>7, <2>4, NextMessage
    <3> QED
      BY <1>5, <1>6, <2>1, <2>2, <2>4, <3>1
  <2> HIDE DEF t
  <2> QED
    BY <1>1, <2>2, <2>3, <2>4
<1>8. CASE ~m.busy /\ known
           /\ threads' = [threads EXCEPT ![p] = [next(skip) EXCEPT !.text = Append(@, line)]]
  <2> DEFINE t == [next(skip) EXCEPT !.text = Append(@, line)]
             text == Append(th.text, line)
  <2>1. t = [pc |-> "messages", pos |-> th.pos + MsgHead + skip, msg |-> th.msg + 1, text |-> text]
    <3>1. th.pc = "messages" /\ DOMAIN th = {"pc", "pos", "msg", "text"}
      BY <1>1, <1>3
    <3> HIDE DEF th, skip, line
    <3> DEFINE u == [th EXCEPT !.pos = @ + MsgHead + skip, !.msg = @ + 1]
    <3>2. u = [pc |-> "messages", pos |-> th.pos + MsgHead + skip, msg |-> th.msg + 1, text |-> th.text]
      BY <3>1, MessageSkipped, Zenon
    <3> HIDE DEF u
    <3>3. WithLine(u, line) = InMessages(th.pos + MsgHead + skip, th.msg + 1, text)
      <4>1. u = InMessages(th.pos + MsgHead + skip, th.msg + 1, th.text)
        BY <3>2 DEF InMessages
      <4> QED
        BY <4>1, TextGrows
    <3> QED
      BY <3>3, Zenon DEF u, WithLine, InMessages
  <2>2. threads' = [threads EXCEPT ![p] = t]
    BY <1>8, Zenon
  <2>3. DOMAIN t = DOMAIN th /\ t.pc = "messages"
    BY <1>3, <2>1
  <2>4. ASSUME p \in DOMAIN tree.file, Parsable(bin), Traced(p) PROVE Traced(p)'
    <3>1. th.msg \in Wanted(bin) /\ skip = bin.slot
      BY <1>5, <1>8, <2>4
    <3>2. line.msg = th.msg
      BY <1>5, <2>4
    <3>3. Read(bin, th.msg + 1) = Read(bin, th.msg) \cup {th.msg}
          /\ \A i \in Read(bin, th.msg) : i \in Int /\ i < th.msg
      BY <1>5, <2>4, <3>1, NextMessage
    <3>4. /\ th.msg \in Nat \ {0} /\ IsTrace(bin) /\ th.pos = Offset(bin, th.msg)
          /\ IsSeq(th.text) /\ LinesFor(th.text, Read(bin, th.msg))
      BY <1>5, <2>4
    <3>5. IsSeq(text) /\ LinesFor(text, Read(bin, th.msg + 1))
      <4> HIDE DEF line
      <4> DEFINE n == th.msg
                 msgs == Read(bin, n)
                 old == th.text
      <4>1. n \in Int /\ IsSeq(old) /\ LinesFor(old, msgs) /\ line.msg = n
            /\ \A i \in msgs : i \in Int /\ i < n
        BY <3>2, <3>3, <3>4
      <4>2. Read(bin, th.msg + 1) = msgs \cup {n}
        BY <3>3
      <4> HIDE DEF n, msgs, old
      <4>3. IsSeq(Append(old, line)) /\ LinesFor(Append(old, line), msgs \cup {n})
        BY <4>1, LineAppended, Zenon
      <4> QED
        BY <4>2, <4>3, Zenon DEF old
    <3> HIDE DEF line, skip, text, t
    <3> QED
      BY <1>6, <2>1, <2>2, <3>1, <3>4, <3>5
  <2> HIDE DEF t
  <2> QED
    BY <1>1, <2>2, <2>3, <2>4
<1> QED
  BY <1>2, <1>4, <1>7, <1>8

-----------------------------------------------------------------------------
(* The threads that parse stack files rewrite them and remove none.        *)
LEMMA StackingStep ==
  ASSUME Stacking, NEW symbols, NEW tools, TraceStep \/ StackStep(symbols, tools)
  PROVE  Stacking' /\ DOMAIN threads' = DOMAIN threads /\ DOMAIN tree.file \subseteq DOMAIN tree'.file
<1>1. ASSUME NEW p \in DOMAIN threads PROVE threads[p].pc \in StackPcs /\ "pc" \in DOMAIN threads[p]
  BY DEF Stacking
<1>2. ~TraceStep
  BY <1>1, TraceStepPc DEF TraceStep, StackPcs
<1>3. PICK p \in DOMAIN threads :
        \/ StackOpen(p, symbols, tools) \/ StackMaps(p) \/ StackLine(p, symbols) \/ StackWrite(p)
        \/ CoreParse(p, tools)
  BY <1>2 DEF StackStep
\* a thread that goes on or ends
<1>4. ASSUME NEW l \in StackPcs, threads' = [threads EXCEPT ![p].pc = l]
      PROVE  Stacking' /\ DOMAIN threads' = DOMAIN threads
  BY <1>1, <1>4, ThreadGoes DEF Stacking
<1>5. CASE StackOpen(p, symbols, tools) \/ StackMaps(p)
  <2>1. PICK l \in StackPcs : threads' = [threads EXCEPT ![p].pc = l]
    BY <1>5 DEF StackOpen, StackMaps, TraceFails, TraceGoes, StackPcs
  <2>2. UNCHANGED tree
    BY <1>5 DEF StackOpen, StackMaps
  <2> QED
    BY <1>4, <2>1, <2>2
<1>6. CASE StackLine(p, symbols)
  <2>1. PICK i, v : threads' = [threads EXCEPT ![p].lines[i] = v]
    BY <1>6 DEF StackLine
  <2>2. UNCHANGED tree
    BY <1>6 DEF StackLine
  <2>3. /\ DOMAIN threads' = DOMAIN threads /\ "pc" \in DOMAIN threads'[p]
        /\ threads'[p].pc = threads[p].pc
        /\ \A q \in DOMAIN threads \ {p} : threads'[q] = threads[q]
    BY <1>1, <2>1
  <2> QED
    BY <1>1, <2>2, <2>3 DEF Stacking
<1>7. CASE StackWrite(p)
  <2>1. PICK c : tree' = WithFile(tree, p, c)
    BY <1>7 DEF StackWrite
  <2>2. threads' = [threads EXCEPT ![p].pc = "done"]
    BY <1>7 DEF StackWrite, TraceGoes
  <2> QED
    BY <1>4, <2>1, <2>2, FileWritten DEF StackPcs
<1>8. CASE CoreParse(p, tools)
  <2>1. tree' = tree \/ \E c : tree' = WithFile(tree, p, c)
    BY <1>8, Zenon DEF CoreParse
  <2>2. PICK l \in {"done", "failed"} : threads' = [threads EXCEPT ![p].pc = l]
    BY <1>8 DEF CoreParse, TraceGoes, TraceFails
  <2>3. Stacking' /\ DOMAIN threads' = DOMAIN threads
    BY <1>4, <2>2 DEF StackPcs
  <2> QED
    BY <2>1, <2>3, FileWritten
<1> QED
  BY <1>3, <1>5, <1>6, <1>7, <1>8

(* A thread of the parser of traces that neither writes nor removes.       *)
LEMMA HeadRead ==
  ASSUME TraceThreads, NEW p \in DOMAIN threads, TraceOpen(p) \/ TraceHead(p) \/ TraceStructs(p)
  PROVE  /\ UNCHANGED tree /\ DOMAIN threads' = DOMAIN threads
         /\ DOMAIN threads'[p] = DOMAIN threads[p]
         /\ \A q \in DOMAIN threads \ {p} : threads'[q] = threads[q]
         /\ threads'[p].pc \in TracePcs
         /\ p \in DOMAIN tree.file /\ Parsable(tree.file[p]) /\ Traced(p) => Traced(p)'
<1>1. DOMAIN threads[p] = {"pc", "pos", "msg", "text"}
  BY DEF TraceThreads
\* only the place changes, and it is one before the messages
<1>2. ASSUME NEW l \in {"tz", "real", "freq", "structs", "failed"},
             threads' = [threads EXCEPT ![p].pc = l], UNCHANGED tree,
             threads[p].pc \in {"open", "tz", "real", "freq", "structs"}
      PROVE  /\ DOMAIN threads' = DOMAIN threads
             /\ DOMAIN threads'[p] = DOMAIN threads[p]
             /\ \A q \in DOMAIN threads \ {p} : threads'[q] = threads[q]
             /\ threads'[p].pc \in TracePcs
             /\ Traced(p) => Traced(p)'
  <2>1. /\ DOMAIN threads' = DOMAIN threads /\ DOMAIN threads'[p] = DOMAIN threads[p]
        /\ threads'[p].pc = l /\ threads'[p].msg = threads[p].msg /\ threads'[p].text = threads[p].text
        /\ \A q \in DOMAIN threads \ {p} : threads'[q] = threads[q]
    BY <1>1, <1>2, ThreadGoes
  <2> QED
    BY <1>2, <2>1 DEF Traced, TracePcs
<1>3. CASE TraceOpen(p)
  <2>1. PICK l \in {"tz", "failed"} : threads' = [threads EXCEPT ![p].pc = l]
    BY <1>3 DEF TraceOpen, TraceFails, TraceGoes
  <2>2. UNCHANGED tree /\ threads[p].pc = "open"
    BY <1>3 DEF TraceOpen
  <2> QED
    BY <1>2, <2>1, <2>2
<1>4. CASE TraceHead(p)
  <2>1. PICK i \in DOMAIN HeadFields :
          /\ threads[p].pc = HeadFields[i] /\ UNCHANGED tree
          /\ threads' = [threads EXCEPT ![p].pc = IF i = Len(HeadFields) THEN "structs" ELSE HeadFields[i + 1]]
    BY <1>4, Zenon DEF TraceHead, TraceGoes
  <2> DEFINE l == IF i = Len(HeadFields) THEN "structs" ELSE HeadFields[i + 1]
  <2>2. l \in {"tz", "real", "freq", "structs"} /\ HeadFields[i] \in {"tz", "real", "freq"}
    BY DEF HeadFields
  <2>3. threads' = [threads EXCEPT ![p].pc = l]
    BY <2>1
  <2> HIDE DEF l
  <2> QED
    BY <1>2, <2>1, <2>2, <2>3
<1>5. CASE TraceStructs(p)
  <2>1. UNCHANGED tree /\ threads[p].pc = "structs"
    BY <1>5 DEF TraceStructs
  <2>2. CASE TraceFails(p)
    BY <1>2, <2>1, <2>2 DEF TraceFails
  <2>3. CASE threads' = [threads EXCEPT ![p].pc = "messages", ![p].pos = 16]
    <3> DEFINE mid == [threads EXCEPT ![p].pc = "messages"]
    <3>1. /\ DOMAIN mid = DOMAIN threads /\ DOMAIN mid[p] = DOMAIN threads[p]
          /\ mid[p].pc = "messages" /\ mid[p].msg = threads[p].msg /\ mid[p].text = threads[p].text
          /\ \A q \in DOMAIN threads \ {p} : mid[q] = threads[q]
      BY <1>1
    <3>2. threads' = [mid EXCEPT ![p].pos = 16]
      BY <2>3
    <3> HIDE DEF mid
    <3>3. /\ DOMAIN threads' = DOMAIN mid /\ DOMAIN threads'[p] = DOMAIN mid[p]
          /\ threads'[p].pc = mid[p].pc /\ threads'[p].msg = mid[p].msg
          /\ threads'[p].text = mid[p].text /\ threads'[p].pos = 16
          /\ \A q \in DOMAIN threads \ {p} : threads'[q] = mid[q]
      BY <1>1, <3>1, <3>2
    <3>4. ASSUME Parsable(tree.file[p]), Traced(p) PROVE Traced(p)'
      <4>1. /\ threads'[p].msg = 1 /\ threads'[p].text = <<>> /\ threads'[p].pc = "messages"
            /\ threads'[p].pos = 16
        BY <2>1, <3>1, <3>3, <3>4 DEF Traced
      <4>2. Offset(tree.file[p], 1) = 16 /\ Read(tree.file[p], 1) = {}
        BY <3>4, NextMessage DEF Parsable
      <4>3. IsSeq(<<>>) /\ LinesFor(<<>>, {})
        BY DEF IsSeq, LinesFor
      <4> DEFINE bin == tree'.file[p]
                 th == threads'[p]
      <4>4. bin = tree.file[p]
        BY <2>1
      <4>5. /\ th.msg \in Nat \ {0} /\ th.pos = Offset(bin, th.msg)
            /\ IsSeq(th.text) /\ LinesFor(th.text, Read(bin, th.msg)) /\ th.pc = "messages"
        <5> HIDE DEF bin, th
        <5>1. th.msg = 1 /\ th.text = <<>> /\ th.pc = "messages" /\ th.pos = 16
              /\ Offset(bin, 1) = 16 /\ Read(bin, 1) = {}
          BY <4>1, <4>2, <4>4 DEF th
        <5>2. th.msg \in Nat \ {0}
          BY <5>1
        <5>3. th.pos = Offset(bin, th.msg) /\ IsSeq(th.text) /\ LinesFor(th.text, Read(bin, th.msg))
          BY <4>3, <5>1, Zenon
        <5> QED
          BY <5>1, <5>2, <5>3, Zenon
      <4> QED
        BY <4>5 DEF Traced
    <3> QED
      BY <2>1, <3>1, <3>3, <3>4 DEF TracePcs
  <2> QED
    BY <1>5, <2>2, <2>3 DEF TraceStructs
<1> QED
  BY <1>3, <1>4, <1>5

(* What a trace has been read to is told by its own file and its text.     *)
LEMMA TracedStays ==
  ASSUME NEW p \in DOMAIN threads, Traced(p), threads'[p] = threads[p],
         p \in DOMAIN tree.file, tree'.file[p] = tree.file[p],
         TextOf(p) \in DOMAIN tree.file =>
           TextOf(p) \in DOMAIN tree'.file /\ tree'.file[TextOf(p)] = tree.file[TextOf(p)]
  PROVE  Traced(p)'
BY DEF Traced, TextComplete, TextOf

(* A trace is removed when its text is complete, and the threads do not    *)
(* touch the texts and the traces of each other.                           *)
LEMMA TracingStep ==
  ASSUME Tracing, NEW symbols, NEW tools, TraceStep \/ StackStep(symbols, tools)
  PROVE  /\ Tracing' /\ DOMAIN threads' = DOMAIN threads
         /\ \A p \in DOMAIN threads \cap DOMAIN tree.file :
              Last(p) \in BinFile /\ Parsable(tree.file[p]) /\ p \notin DOMAIN tree'.file => TextComplete(p)
<1>1. /\ TraceThreads /\ TracesOnly
      /\ \A p \in DOMAIN threads \cap DOMAIN tree.file :
           Last(p) \in BinFile /\ Parsable(tree.file[p]) => Traced(p)
  BY DEF Tracing
<1>2. ASSUME NEW p \in DOMAIN threads
      PROVE  p \in Path /\ threads[p].pc \in TracePcs /\ DOMAIN threads[p] = {"pc", "pos", "msg", "text"}
  BY <1>1 DEF TraceThreads
<1>3. ~StackStep(symbols, tools)
  BY <1>2 DEF StackStep, StackOpen, StackMaps, StackLine, StackWrite, CoreParse, TracePcs
<1>4. PICK p \in DOMAIN threads :
        \/ TraceOpen(p) \/ TraceHead(p) \/ TraceStructs(p)
        \/ TraceMessage(p) \/ TraceWrite(p) \/ TraceRemove(p)
  BY <1>3 DEF TraceStep
\* what a step of p must do
<1>5. ASSUME DOMAIN threads' = DOMAIN threads, DOMAIN threads'[p] = DOMAIN threads[p],
             \A q \in DOMAIN threads \ {p} : threads'[q] = threads[q],
             threads'[p].pc \in TracePcs,
             \A q \in DOMAIN threads : Last(q) \in BinFile /\ q \in DOMAIN tree'.file =>
               q \in DOMAIN tree.file /\ tree'.file[q] = tree.file[q]
                 /\ (Parsable(tree.file[q]) /\ Traced(q) => Traced(q)')
      PROVE  Tracing' /\ DOMAIN threads' = DOMAIN threads
  <2>1. TraceThreads'
    BY <1>2, <1>5 DEF TraceThreads
  <2>2. TracesOnly'
    BY <1>1, <1>5 DEF TracesOnly
  <2>3. ASSUME NEW q \in DOMAIN threads' \cap DOMAIN tree'.file, Last(q) \in BinFile, Parsable(tree'.file[q])
        PROVE  Traced(q)'
    BY <1>1, <1>5, <2>3
  <2> QED
    BY <1>5, <2>1, <2>2, <2>3 DEF Tracing
\* the threads that leave the files alone
<1>6. ASSUME UNCHANGED tree, \A q \in DOMAIN threads \ {p} : threads'[q] = threads[q],
             NEW q \in DOMAIN threads \ {p}, q \in DOMAIN tree.file, Traced(q)
      PROVE  Traced(q)'
  BY <1>6, TracedStays
<1>7. CASE TraceOpen(p) \/ TraceHead(p) \/ TraceStructs(p)
  BY <1>1, <1>5, <1>6, <1>7, HeadRead
<1>8. CASE TraceMessage(p)
  BY <1>1, <1>5, <1>6, <1>8, MessageRead DEF TracePcs
<1>9. CASE TraceWrite(p)
  <2>1. threads[p].pc = "messages" /\ threads[p].msg > Len(tree.file[p].msgs)
    BY <1>9 DEF TraceWrite
  <2>2. CASE UNCHANGED tree /\ TraceFails(p)
    <3>1. /\ DOMAIN threads' = DOMAIN threads /\ DOMAIN threads'[p] = DOMAIN threads[p]
          /\ threads'[p].pc = "failed" /\ \A q \in DOMAIN threads \ {p} : threads'[q] = threads[q]
      BY <1>2, <2>2, ThreadGoes DEF TraceFails
    <3>2. Traced(p)'
      BY <3>1 DEF Traced
    <3> QED
      BY <1>5, <1>6, <2>2, <3>1, <3>2 DEF TracePcs
  <2>3. CASE /\ tree' = WithFile(tree, TextOf(p), [of |-> p, lines |-> threads[p].text])
             /\ TraceGoes(p, "written")
    <3>1. /\ DOMAIN threads' = DOMAIN threads /\ DOMAIN threads'[p] = DOMAIN threads[p]
          /\ threads'[p].pc = "written" /\ \A q \in DOMAIN threads \ {p} : threads'[q] = threads[q]
      BY <1>2, <2>3, ThreadGoes DEF TraceGoes
    <3> DEFINE c == [of |-> p, lines |-> threads[p].text]
    <3>2. c.lines = threads[p].text /\ tree' = WithFile(tree, TextOf(p), c)
      BY <2>3
    <3> HIDE DEF c
    <3>3. /\ DOMAIN tree'.file = DOMAIN tree.file \cup {TextOf(p)} /\ tree'.file[TextOf(p)] = c
          /\ \A q \in DOMAIN tree.file \ {TextOf(p)} : tree'.file[q] = tree.file[q]
      BY <3>2, FileWritten
    <3>4. ASSUME NEW q \in DOMAIN threads, Last(q) \in BinFile, q \in DOMAIN tree'.file
          PROVE  q \in DOMAIN tree.file /\ tree'.file[q] = tree.file[q]
                   /\ (Parsable(tree.file[q]) /\ Traced(q) => Traced(q)')
      <4>1. Last(p) \in BinFile /\ q \in Path /\ p \in Path
        BY <1>1, <1>2, <3>4 DEF TracesOnly
      <4>2. TextOf(p) # q /\ (TextOf(q) = TextOf(p) => q = p)
        BY <3>4, <4>1, TextsApart
      <4>3. q \in DOMAIN tree.file /\ tree'.file[q] = tree.file[q]
        BY <3>3, <3>4, <4>2
      <4>4. ASSUME q # p, Traced(q) PROVE Traced(q)'
        BY <3>1, <3>3, <4>2, <4>3, <4>4, TracedStays
      <4>5. ASSUME q = p, Parsable(tree.file[q]), Traced(q) PROVE Traced(q)'
        <5>1. /\ threads[p].msg \in Nat \ {0} /\ LinesFor(threads[p].text, Read(tree.file[p], threads[p].msg))
          BY <2>1, <4>5 DEF Traced
        <5>2. Read(tree.file[p], threads[p].msg) = Wanted(tree.file[p])
          BY <2>1, <4>5, <5>1, NextMessage DEF Parsable
        <5>3. LinesFor(tree'.file[TextOf(p)].lines, Wanted(tree'.file[p])) /\ TextOf(p) \in DOMAIN tree'.file
          BY <3>2, <3>3, <4>3, <4>5, <5>1, <5>2
        <5> QED
          BY <3>1, <4>5, <5>3 DEF Traced, TextComplete, TextOf
      <4> QED
        BY <4>3, <4>4, <4>5
    <3>5. DOMAIN tree.file \subseteq DOMAIN tree'.file
      BY <3>3
    <3> QED
      BY <1>5, <3>1, <3>4, <3>5 DEF TracePcs
  <2> QED
    BY <1>9, <2>2, <2>3 DEF TraceWrite
<1>10. CASE TraceRemove(p)
  <2>1. threads[p].pc = "written" /\ threads' = [threads EXCEPT ![p].pc = "done"]
    BY <1>10 DEF TraceRemove, TraceGoes
  <2>2. /\ DOMAIN threads' = DOMAIN threads /\ DOMAIN threads'[p] = DOMAIN threads[p]
        /\ threads'[p].pc = "done" /\ \A q \in DOMAIN threads \ {p} : threads'[q] = threads[q]
    BY <1>2, <2>1, ThreadGoes
  <2>3. tree' = RemoveFile(tree, p)
    BY <1>10 DEF TraceRemove
  <2>4. /\ DOMAIN tree'.file \subseteq DOMAIN tree.file
        /\ \A q \in DOMAIN tree.file \ {p} : q \in DOMAIN tree'.file /\ tree'.file[q] = tree.file[q]
        /\ p \notin DOMAIN tree'.file
    BY <2>3 DEF RemoveFile, Without, Nodes
  <2>5. ASSUME NEW q \in DOMAIN threads, Last(q) \in BinFile, q \in DOMAIN tree'.file
        PROVE  q \in DOMAIN tree.file /\ tree'.file[q] = tree.file[q] /\ (Traced(q) => Traced(q)')
    <3>1. q # p /\ q \in DOMAIN tree.file /\ tree'.file[q] = tree.file[q]
      BY <2>4, <2>5
    <3>2. Last(p) \in BinFile /\ q \in Path /\ p \in Path
      BY <1>1, <1>2, <2>5 DEF TracesOnly
    <3>3. TextOf(q) # p
      BY <2>5, <3>2, TextsApart
    <3> QED
      BY <2>2, <2>4, <3>1, <3>3, TracedStays
  <2>6. Tracing' /\ DOMAIN threads' = DOMAIN threads
    BY <1>5, <2>2, <2>5 DEF TracePcs
  <2>7. ASSUME NEW q \in DOMAIN threads \cap DOMAIN tree.file, Last(q) \in BinFile,
               Parsable(tree.file[q]), q \notin DOMAIN tree'.file
        PROVE  TextComplete(q)
    <3>1. q = p /\ Traced(q)
      BY <1>1, <2>4, <2>7
    <3> QED
      BY <2>1, <3>1 DEF Traced
  <2> QED
    BY <2>6, <2>7
<1> QED
  BY <1>4, <1>7, <1>8, <1>9, <1>10

-----------------------------------------------------------------------------
(* While files are parsed, nothing but the threads that parse them changes *)
(* files: the forked worker and the task are not there.                    *)
LEMMA ParsingSteps ==
  Beside /\ AsysNext /\ pc \in {"tracing", "parsing"} => ParseThread \/ UNCHANGED <<threads, tree>>
<1> SUFFICES ASSUME Beside, AsysNext, pc \in {"tracing", "parsing"}, ~ParseThread
             PROVE  UNCHANGED <<threads, tree>>
  OBVIOUS
<1>1. ~WorkerStep /\ ~TaskEnds
  BY DEF Beside, Waiting, WorkerStep, TaskEnds
<1>2. CASE TraceJoin \/ AnalyzeJoin \/ ViewEnds \/ (\E d \in DOMAIN detect : DetectionEnds(d))
           \/ UNCHANGED asysVars
  BY <1>2 DEF TraceJoin, AnalyzeJoin, ViewEnds, DetectionEnds, traceVars, asysVars
<1>3. /\ ~CheckEnvironment /\ ~CreateOutTimestampDir /\ ~Dispatch /\ ~CompressOutputDirTar
      /\ ~CollectStart /\ ~CollectHost /\ ~CollectRc /\ ~DeviceFileExport /\ ~CollectDeviceFiles
      /\ ~CollectGraphs /\ ~CollectDumps /\ ~CollectOpsFiles /\ ~CollectTrace
  BY DEF CheckEnvironment, CreateOutTimestampDir, Dispatch, CompressOutputDirTar, CollectStart, Part,
     CollectHost, CollectRc, DeviceFileExport, CollectDeviceFiles, CollectGraphs, CollectDumps,
     CollectOpsFiles, CollectTrace
<1>4. ~ParseCommand
  <2>1. ParseCommand => pc = "start"
    BY Zenon DEF ParseCommand
  <2> QED
    BY <2>1
<1>5. /\ ~StartWorker /\ ~JoinWorker /\ ~WorkerTimeout /\ ~TerminateWorker
      /\ ~FinishCollect /\ ~CollectReturns /\ ~CleanWork
      /\ ~PrepareForLaunch /\ ~InstallHandler /\ ~Popen /\ ~AssignPro /\ ~Communicate /\ ~TaskOutCollect
      /\ ~AnalyzeGuard /\ ~AnalyzeCopy /\ ~AnalyzeParse
  BY DEF StartWorker, JoinWorker, WorkerTimeout, TerminateWorker, FinishCollect, CollectReturns,
     CleanWork, PrepareForLaunch, InstallHandler, Popen, AssignPro, Communicate, TaskOutCollect,
     AnalyzeGuard, AnalyzeCopy, AnalyzeParse
<1>6. /\ ~CoreDumpAnalyze /\ ~AicoreErrorAnalyze /\ ~RunMsaicerr /\ ~UbAnalyze
      /\ ~HardwareDetect /\ ~RunDiagnose /\ ~PrintSave /\ ~EnvDetect
      /\ ~Health /\ ~Config /\ ~Profiling /\ ~StacktraceReturns /\ ~Interrupt
  BY DEF CoreDumpAnalyze, AicoreErrorAnalyze, RunMsaicerr, UbAnalyze, HardwareDetect, RunDiagnose,
     PrintSave, EnvDetect, Health, Config, Profiling, StacktraceReturns, Interrupt
<1> QED
  BY <1>1, <1>2, <1>3, <1>4, <1>5, <1>6 DEF AsysNext, MainStep, OtherStep, Ended

(* Files are parsed after the steps that start the threads, and those only. *)
LEMMA ParsingStarts ==
  Beside /\ Ways /\ AsysNext /\ pc \notin {"tracing", "parsing"} /\ pc' \in {"tracing", "parsing"} =>
    CollectTrace \/ AnalyzeParse
<1> SUFFICES ASSUME Beside, Ways, AsysNext, pc \notin {"tracing", "parsing"},
                    ~CollectTrace, ~AnalyzeParse, pc' # pc
             PROVE  pc' \notin {"tracing", "parsing"}
  OBVIOUS
<1> USE DEF Goto_, Return, Exit, runVars
<1>1. CASE \/ CheckEnvironment \/ CreateOutTimestampDir \/ CompressOutputDirTar
           \/ CollectStart \/ CollectHost \/ CollectRc \/ DeviceFileExport \/ CollectDeviceFiles
           \/ CollectGraphs \/ CollectDumps \/ CollectOpsFiles
  BY <1>1 DEF CheckEnvironment, CreateOutTimestampDir, CompressOutputDirTar, CollectStart, Part,
     CollectHost, CollectRc, DeviceFileExport, CollectDeviceFiles, CollectGraphs, CollectDumps,
     CollectOpsFiles
<1>2. CASE ParseCommand
  <2>1. pc' \in {"done", "env"}
    BY <1>2, Zenon DEF ParseCommand
  <2> QED
    BY <2>1
<1>3. CASE Dispatch
  BY <1>3, ScenarioAssumption DEF Dispatch, FirstStep, Ways, Cmd, Commands
<1>4. CASE ParseThread \/ WorkerStep \/ ViewEnds \/ TaskEnds
           \/ (\E d \in DOMAIN detect : DetectionEnds(d)) \/ RunDiagnose \/ UNCHANGED asysVars
  BY <1>4 DEF ParseThread, WorkerStep, ViewEnds, TaskEnds, DetectionEnds, RunDiagnose, asysVars
<1>5. CASE StartWorker \/ WorkerTimeout \/ TraceJoin \/ AnalyzeJoin
  BY <1>5 DEF StartWorker, WorkerTimeout, TraceJoin, AnalyzeJoin
<1>6. CASE JoinWorker \/ TerminateWorker
  <2>1. AfterWorker(TRUE) \/ AfterWorker(FALSE)
    BY <1>6 DEF JoinWorker, TerminateWorker
  <2>2. worker.job \in {"status_info", "health_info", "info"}
    BY <1>6 DEF JoinWorker, TerminateWorker, Beside, Waiting
  <2> QED
    BY <2>1, <2>2 DEF AfterWorker
<1>7. CASE \/ FinishCollect \/ CollectReturns \/ CleanWork
           \/ PrepareForLaunch \/ InstallHandler \/ Popen \/ AssignPro \/ Communicate \/ TaskOutCollect
  BY <1>7 DEF FinishCollect, CollectReturns, CleanWork, PrepareForLaunch, InstallHandler, Popen,
     AssignPro, Communicate, TaskOutCollect
<1>8. CASE AnalyzeGuard
  <2>1. Arg("r") \in RunModes("analyze") /\ Cmd = "analyze"
    BY <1>8, AnalysisMode DEF AnalyzeGuard, Ways, Final
  <2> QED
    BY <1>8, <2>1 DEF AnalyzeGuard, RunModes, StackModes
<1>9. CASE AnalyzeCopy
  BY <1>9 DEF AnalyzeCopy
<1>10. CASE \/ CoreDumpAnalyze \/ AicoreErrorAnalyze \/ RunMsaicerr \/ UbAnalyze
            \/ HardwareDetect \/ PrintSave \/ EnvDetect \/ Health \/ Config \/ Profiling
            \/ StacktraceReturns \/ Interrupt
  BY <1>10 DEF CoreDumpAnalyze, AicoreErrorAnalyze, RunMsaicerr, UbAnalyze, HardwareDetect,
     PrintSave, EnvDetect, Health, Config, Profiling, StacktraceReturns, Interrupt
<1> QED
  BY <1>1, <1>2, <1>3, <1>4, <1>5, <1>6, <1>7, <1>8, <1>9, <1>10 DEF AsysNext, MainStep, OtherStep, Ended

(* Every thread of the parser of traces starts with an empty text.         *)
LEMMA TracesStart ==
  ASSUME NEW files \in SUBSET Path, StartTrace(files), UNCHANGED tree,
         (\E p \in files : Last(p) \in BinFile) => \A p \in files : Last(p) \in BinFile
  PROVE  Tracing'
<1>1. threads' = [p \in files |-> [pc |-> "open", pos |-> 0, msg |-> 1, text |-> <<>>]]
  BY DEF StartTrace
<1>2. TraceThreads' /\ TracesOnly'
  BY <1>1 DEF TraceThreads, TracesOnly, TracePcs
<1>3. ASSUME NEW p \in files PROVE Traced(p)'
  BY <1>1 DEF Traced
<1> QED
  BY <1>1, <1>2, <1>3 DEF Tracing

(* The texts grow with the messages that are read.                         *)
LEMMA TextsStep == Beside /\ Ways /\ Texts /\ AsysNext => Texts'
<1> SUFFICES ASSUME Beside, Ways, Texts, AsysNext, pc' \in {"tracing", "parsing"}
             PROVE  Stacking' \/ Tracing'
  BY DEF Texts
<1>1. CASE pc \in {"tracing", "parsing"}
  <2>1. Stacking \/ Tracing
    BY <1>1 DEF Texts
  <2>2. CASE ParseThread
    <3> DEFINE symbols == IF HasArg(Args, "symbol_path") THEN Arg("symbol_path") ELSE <<>>
               tools == "readelf" \in sc.tools
    <3>1. TraceStep \/ StackStep(symbols, tools)
      BY <2>2 DEF ParseThread
    <3> HIDE DEF symbols, tools
    <3> QED
      BY <2>1, <3>1, StackingStep, TracingStep
  <2>3. CASE UNCHANGED <<threads, tree>>
    <3>1. (Stacking' <=> Stacking) /\ (Tracing' <=> Tracing)
      <4>1. ASSUME NEW p PROVE Traced(p)' <=> Traced(p)
        BY <2>3 DEF Traced, TextComplete, TextOf
      <4> QED
        BY <2>3, <4>1 DEF Stacking, Tracing, TraceThreads, TracesOnly
    <3> QED
      BY <2>1, <3>1
  <2> QED
    BY <1>1, <2>2, <2>3, ParsingSteps
<1>2. CASE CollectTrace
  <2>1. PICK dir : StartTrace(TraceFiles(dir)) /\ UNCHANGED tree
    BY <1>2 DEF CollectTrace
  <2>2. TraceFiles(dir) \subseteq Path /\ \A p \in TraceFiles(dir) : Last(p) \in BinFile
    BY DEF TraceFiles, FilesBelow
  <2> QED
    BY <2>1, <2>2, TracesStart
<1>3. CASE AnalyzeParse
  <2>1. Arg("r") = "trace" => StartTrace(InputFiles)
    BY <1>3, Zenon DEF AnalyzeParse
  <2>2. UNCHANGED tree
    BY <1>3 DEF AnalyzeParse
  <2>3. CASE Arg("r") = "trace"
    <3>1. InputFiles \subseteq Path
      BY <2>3 DEF InputFiles, TraceFiles, FilesBelow
    <3>2. (\E p \in InputFiles : Last(p) \in BinFile) => \A p \in InputFiles : Last(p) \in BinFile
      BY <2>3 DEF InputFiles, TraceFiles
    <3> QED
      BY <2>1, <2>2, <2>3, <3>1, <3>2, TracesStart
  <2>4. CASE Arg("r") # "trace"
    <3>1. StartStack(InputFiles) \/ StartCore(InputFiles)
      <4>1. pc = "parse"
        BY <1>3 DEF AnalyzeParse
      <4>2. Arg("r") = "stackcore" \/ Arg("r") = "coretrace"
        BY <4>1, <2>4 DEF Ways, StackModes
      <4> QED
        BY <1>3, <4>2, Zenon DEF AnalyzeParse
    <3>2. Stacking'
      BY <3>1 DEF StartStack, StartCore, Stacking, StackPcs
    <3> QED
      BY <3>2
  <2> QED
    BY <2>3, <2>4
<1> QED
  BY <1>1, <1>2, <1>3, ParsingStarts

-----------------------------------------------------------------------------
(* A run starts in the invariant.                                          *)
LEMMA RunInitially == AsysInit => RunInv
<1> SUFFICES ASSUME AsysInit PROVE RunInv
  OBVIOUS
<1>1. /\ sc \in Scenario /\ pc = "start" /\ threads = <<>> /\ detect = <<>> /\ view = "off"
      /\ worker = [job |-> "none", state |-> "none", left |-> <<>>]
      /\ task = "none" /\ handler = FALSE
  BY DEF AsysInit
<1>2. DOMAIN threads = {} /\ DOMAIN detect = {}
  BY <1>1
<1>3. Beside
  BY <1>1, <1>2 DEF Beside, Waiting, Showing, TraceEnded
<1>4. Ways
  BY <1>1 DEF Ways, Final
<1>5. Detected
  BY <1>1, <1>2 DEF Detected, Busy
<1>6. Stacked /\ Texts
  BY <1>1, <1>2 DEF Stacked, Texts
<1> QED
  BY <1>3, <1>4, <1>5, <1>6 DEF RunInv

(* A step of other tracers leaves the run as it is.                        *)
LEMMA RunStutters == RunInv /\ UNCHANGED asysVars => RunInv'
<1> SUFFICES ASSUME RunInv, UNCHANGED asysVars PROVE RunInv'
  OBVIOUS
<1>1. UNCHANGED <<tree, parser, threads, pc, sc, out, result, warned, worker, task, pro, handler, view,
                  todo, detect>>
  BY DEF asysVars, traceVars, runVars, colVars, lauVars, diaVars
<1> HIDE DEF RunInv
<1>2. Beside' <=> Beside
  BY <1>1 DEF Beside, TraceEnded
<1>3. Ways' <=> Ways
  BY <1>1 DEF Ways, Parsed, Cmd, Arg, Args
<1>4. Detected' <=> Detected
  <2>1. (Asked = Asked') /\ (Busy = Busy') /\ (Devices = Devices') /\ (Cmd = Cmd')
        /\ \A d : (Group(d) = Group(d)') /\ (By(d) = By(d)') /\ (Reported(d) <=> Reported(d)')
    BY <1>1, SameDevices, SameReports DEF Busy
  <2> QED
    BY <1>1, <2>1 DEF Detected
<1>5. Stacked' <=> Stacked
  BY <1>1 DEF Stacked, StackMode, Stacks, Framed, Cmd, Arg, Args
<1>6. Texts' <=> Texts
  <2>1. ASSUME NEW p PROVE Traced(p)' <=> Traced(p)
    BY <1>1 DEF Traced, TextComplete, TextOf
  <2>2. (Stacking' <=> Stacking) /\ (Tracing' <=> Tracing)
    BY <1>1, <2>1 DEF Stacking, Tracing, TraceThreads, TracesOnly
  <2> QED
    BY <1>1, <2>2 DEF Texts
<1> QED
  BY <1>2, <1>3, <1>4, <1>5, <1>6 DEF RunInv

(***************************************************************************)
(* What runs beside the main thread, which way the command takes, what the *)
(* devices have been told, and how far the files are parsed: the inductive *)
(* invariant of a run of asys (asys.py, asys_collect.py, asys_launch.py,   *)
(* asys_diagnose.py, trace_collect.py, stackcore_collect.py).              *)
(***************************************************************************)
THEOREM AsysRunInvariant == AsysSpec => []RunInv
<1>1. AsysInit => RunInv
  BY RunInitially
<1>2. RunInv /\ [AsysNext]_<<asysVars, stVars>> => RunInv'
  <2> SUFFICES ASSUME RunInv, [AsysNext]_<<asysVars, stVars>> PROVE RunInv'
    OBVIOUS
  <2>1. CASE AsysNext
    BY <2>1, BesideStep, WaysStep, DetectedStep, StackedStep, TextsStep DEF RunInv
  <2>2. CASE UNCHANGED <<asysVars, stVars>>
    BY <2>2, RunStutters
  <2> QED
    BY <2>1, <2>2
<1> QED
  BY <1>1, <1>2, PTL DEF AsysSpec

(* When asys returns, the forked worker, the threads and the task have     *)
(* ended, and the task does not outlive a Ctrl-C (task_common.py,          *)
(* asys_launch.py): for any scenario.                                      *)
THEOREM AsysNothingRunsOn == AsysSpec => []NothingRunsOn
<1>1. RunInv => NothingRunsOn
  BY DEF RunInv, Beside, Waiting, Showing, Detected, NothingRunsOn, TraceEnded
<1> QED
  BY <1>1, AsysRunInvariant, PTL

(* A diagnosis that succeeds reports every device that was asked for, by a *)
(* detection of its own master (ascend91093_handler.py): for any devices.  *)
THEOREM AsysEveryDeviceReported == AsysSpec => []EveryDeviceReported
<1>1. RunInv => EveryDeviceReported
  BY DEF RunInv, Detected, Reported, EveryDeviceReported
<1> QED
  BY <1>1, AsysRunInvariant, PTL

(* A stack file is rewritten with all its frames, whatever the threads of  *)
(* the files and lines do in between (stackcore_collect.py).               *)
THEOREM AsysFramesResolved == AsysSpec => []FramesResolved
<1>1. RunInv => FramesResolved
  BY DEF RunInv, Stacked, StackMode, Stacks, Framed, FramesResolved
<1> QED
  BY <1>1, AsysRunInvariant, PTL

(* A trace is removed only when its text has a line for every message that *)
(* is to be read, in order (trace_collect.py).                             *)
THEOREM AsysTraceKept == AsysSpec => TraceKept
<1> DEFINE Kept ==
      \A p \in DOMAIN threads \cap DOMAIN tree.file :
        pc \in {"tracing", "parsing"} /\ p \notin DOMAIN tree'.file /\ Last(p) \in BinFile
          /\ IsTrace(tree.file[p]) /\ SlotsHold(tree.file[p]) => TextComplete(p)
<1>1. RunInv /\ [AsysNext]_<<asysVars, stVars>> => [Kept]_asysVars
  <2> SUFFICES ASSUME RunInv, AsysNext, pc \in {"tracing", "parsing"}, tree' # tree,
                      NEW p \in DOMAIN threads \cap DOMAIN tree.file,
                      p \notin DOMAIN tree'.file, Last(p) \in BinFile, Parsable(tree.file[p])
               PROVE  TextComplete(p)
    BY DEF asysVars, Parsable
  <2> DEFINE symbols == IF HasArg(Args, "symbol_path") THEN Arg("symbol_path") ELSE <<>>
             tools == "readelf" \in sc.tools
  <2>1. TraceStep \/ StackStep(symbols, tools)
    BY ParsingSteps DEF RunInv, ParseThread
  <2>2. Stacking \/ Tracing
    BY DEF RunInv, Texts
  <2> HIDE DEF symbols, tools
  <2> QED
    BY <2>1, <2>2, StackingStep, TracingStep
<1> QED
  BY <1>1, AsysRunInvariant, PTL DEF AsysSpec, TraceKept
=============================================================================
