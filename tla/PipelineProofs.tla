--------------------------- MODULE PipelineProofs ---------------------------
(***************************************************************************)
(* Proofs about the pipeline, for any plans and material: however often it *)
(* is killed, restarted and resumed, its saved state never speaks of an    *)
(* artifact that is not there, no attempt is numbered twice (PInv), a run  *)
(* that ends well is current (RunInv), and what it publishes, it publishes *)
(* once, reviewed, and without losing a case of anybody else (LibInv), and *)
(* never outdates its own lookup by it (LookInv).                          *)
(***************************************************************************)
EXTENDS FaultPipeline, SequenceTheorems, FiniteSetTheorems, WellFoundedInduction, TLAPS

-----------------------------------------------------------------------------
(* The inductive invariant *)

(* an entry of state.json, and a whole one *)
Entry(e) ==
  /\ e = [status |-> e.status, attempts |-> e.attempts, rev |-> e.rev, fp |-> e.fp,
          sha |-> e.sha, err |-> e.err]
  /\ e.attempts \in Nat
State(m) == m = [s \in StageIds |-> m[s]] /\ \A s \in StageIds : Entry(m[s])

Types ==
  /\ plan \in Plans
  /\ State(mem)
  /\ saved # <<>> => saved = <<saved[1]>> /\ State(saved[1])
  /\ art = [s \in StageIds |-> art[s]]
  /\ todo \in Seq(StageIds)
  /\ work \subseteq StageIds \X Nat
  /\ cur = [art |-> cur.art, then |-> cur.then, lib |-> cur.lib]

(* where a run is inside the execution of a stage, and inside the stage *)
Executions == {"execute", "publish", "copied", "prepared", "checked", "committed"}
Inside == {"announce", "write", "save"} \cup Executions

(* a stage saved as finished has a finished artifact, the one saved *)
Finished(m, s) ==
  m[s].status \in Done =>
    art[s] # <<>> /\ art[s][1].status \in Done /\ m[s].sha = HashOf(art[s])
Kept == saved # <<>> => \A s \in StageIds : Finished(saved[1], s)

(* an acceptance counts an attempt before it is saved; else the run's      *)
(* state is the one on disk                                                *)
OnDisk(s) ==
  /\ saved[1][s].status = mem[s].status /\ saved[1][s].sha = mem[s].sha
  /\ saved[1][s].attempts <= mem[s].attempts
InStep ==
  /\ pc \in Inside \cup {"next"} => saved # <<>> /\ \A s \in StageIds : OnDisk(s)
  /\ pc \in {"next", "announce"} \cup Executions => saved = <<mem>>

(* the stage at work is not finished, and has an artifact in hand *)
AtWork ==
  /\ pc \in Inside =>
       todo # <<>> /\ cur.art = <<cur.art[1]>> /\ mem[Stage].status \notin Done
  /\ pc = "save" => art[Stage] = cur.art

(* a work directory carries the number of an attempt that was saved before *)
Numbered ==
  /\ \A w \in work : saved # <<>> /\ w[2] <= saved[1][w[1]].attempts
  /\ pc = "announce" =>
       /\ cur.art[1].attempt = mem[Stage].attempts
       /\ \A w \in work : w[1] = Stage => w[2] < mem[Stage].attempts

PInv == Types /\ Kept /\ InStep /\ AtWork /\ Numbered

-----------------------------------------------------------------------------
(* The invariant holds of every initial state.                             *)
LEMMA PipelineInitially == PipelineInit => PInv
<1> SUFFICES ASSUME PipelineInit PROVE PInv
  OBVIOUS
<1>1. State(NewState)
  BY DEF State, Entry, NewState, BlankStage
<1>2. Types
  BY <1>1 DEF PipelineInit, Types, NoWork
<1> QED
  BY <1>2 DEF PipelineInit, PInv, Kept, InStep, AtWork, Numbered, Inside, Executions

(* Steps that touch neither the artifacts nor the saved state, between     *)
(* places where nothing is at work.                                        *)
LEMMA Resting ==
  ASSUME PInv, UNCHANGED <<plan, saved, art, work>>, pc' \in {"idle", "locked"},
         \/ mem' = NewState /\ todo' = <<>> /\ cur' = NoWork
         \/ UNCHANGED <<mem, todo, cur>>
  PROVE  PInv'
<1>1. State(NewState) /\ <<>> \in Seq(StageIds)
  BY DEF State, Entry, NewState, BlankStage
<1>2. Types'
  BY <1>1 DEF PInv, Types, NoWork, State, Entry
<1>3. Kept' /\ Numbered'
  BY DEF PInv, Kept, Finished, Numbered
<1> QED
  BY <1>2, <1>3 DEF PInv, InStep, AtWork, Inside, Executions

(* Steps of an execution: only the artifact in hand changes, if anything. *)
LEMMA Executing_Step ==
  ASSUME PInv, UNCHANGED <<plan, saved, art, work, mem, todo>>,
         pc \in Executions, pc' \in Executions \cup {"write"},
         cur' = [art |-> cur'.art, then |-> cur'.then, lib |-> cur'.lib],
         cur'.art = <<cur'.art[1]>>
  PROVE  PInv'
<1>1. Types' /\ Kept'
  BY DEF PInv, Types, Kept, Finished, State, Entry
<1>2. InStep'
  BY DEF PInv, InStep, OnDisk, Inside, Executions
<1>3. AtWork' /\ Numbered'
  BY DEF PInv, AtWork, Numbered, Inside, Executions, Stage
<1> QED
  BY <1>1, <1>2, <1>3 DEF PInv

(* What others do while no run is at work on an artifact. *)
LEMMA Bystander ==
  ASSUME PInv, UNCHANGED <<plan, saved, art, work, mem, todo, cur, pc>>
  PROVE  PInv'
BY DEF PInv, Types, Kept, InStep, AtWork, Numbered, Finished, OnDisk, State, Entry, Stage
(* main(), up to its first save: what it takes over or starts afresh is     *)
(* saved before anything is executed                                        *)
LEMMA StagesAreIds == Stages \in Seq(StageIds) /\ \A s \in StageIds : From(s) \in Seq(StageIds)
<1>1. Stages \in Seq(StageIds) /\ Len(Stages) = 7
  BY DEF Stages, StageIds, Range
<1>2. ASSUME NEW s \in StageIds PROVE At(s) \in 1 .. 7
  BY <1>1 DEF At, StageIds, Range
<1>3. ASSUME NEW s \in StageIds PROVE From(s) \in Seq(StageIds)
  <2>1. At(s) \in Int /\ 7 \in Int /\ At(s) .. 7 \subseteq 1 .. 7
    BY <1>2
  <2>2. \A i \in At(s) .. 7 : Stages[i] \in StageIds
    BY <1>1, <2>1, ElementOfSeq
  <2> QED
    BY <1>1, <2>1, <2>2, SubSeqProperties DEF From
<1> QED
  BY <1>1, <1>3

(* Invalidating stages forgets no attempt.                                 *)
LEMMA InvalidateKeepsAttempts ==
  ASSUME NEW m, State(m), NEW s
  PROVE  /\ State(Invalidate(m, s))
         /\ \A t \in StageIds :
              /\ Invalidate(m, s)[t].attempts = m[t].attempts
              /\ Invalidate(m, s)[t] = m[t] \/ Invalidate(m, s)[t].status = "pending"
<1> DEFINE blank(t) == [BlankStage EXCEPT !.rev = m[t].rev + 1, !.attempts = m[t].attempts]
<1>1. Invalidate(m, s) = [t \in StageIds |-> IF t \in Before(s) THEN m[t] ELSE blank(t)]
  BY DEF Invalidate
<1>2. ASSUME NEW t \in StageIds
      PROVE  blank(t).attempts = m[t].attempts /\ blank(t).status = "pending" /\ Entry(blank(t))
  <2> DEFINE rev == m[t].rev + 1
  <2>1. blank(t) = [BlankStage EXCEPT !.rev = rev, !.attempts = m[t].attempts]
    OBVIOUS
  <2>2. m[t].attempts \in Nat
    BY DEF State, Entry
  <2> HIDE DEF rev, blank
  <2>3. blank(t) = [status |-> "pending", attempts |-> m[t].attempts, rev |-> rev, fp |-> <<>>,
                    sha |-> <<>>, err |-> "none"]
    BY <2>1 DEF BlankStage
  <2> QED
    BY <2>2, <2>3 DEF Entry
<1> HIDE DEF blank
<1> QED
  BY <1>1, <1>2 DEF State

(* The start of a run preserves the invariant.                             *)
LEMMA BeginStep ==
  ASSUME PInv, NEW mode \in Modes, Begin(mode[1], mode[2])
  PROVE  PInv'
<1> DEFINE state == Loaded
<1>1. CASE Refused(mode[1], mode[2], state)
  <2>1. UNCHANGED <<plan, saved, art, work, mem, todo, cur>> /\ pc' = "idle"
    BY <1>1 DEF Begin
  <2> QED
    BY <2>1, Resting
<1>2. CASE ~Refused(mode[1], mode[2], state)
  <2>1. /\ mem' \in {state, Invalidate(state, mode[2]), Invalidate(state, Earliest(Outdated(state)))}
        /\ saved' = <<mem'>> /\ pc' = "next" /\ UNCHANGED <<plan, art, work, cur>>
        /\ todo' \in {<<mode[2]>>, From(mode[2]), Stages}
    BY <1>2 DEF Begin
  <2>2. mode[2] \in StageIds
    BY PlansAssumption DEF Modes, PInv, Types, StageIds, Range, Stages
  <2>3. State(state) /\ \A s \in StageIds : Finished(state, s)
    BY DEF Loaded, PInv, Types, Kept, State, Entry, NewState, BlankStage, Finished, Done
  <2>4. /\ State(mem')
        /\ \A t \in StageIds : /\ mem'[t].attempts = state[t].attempts
                               /\ mem'[t] = state[t] \/ mem'[t].status = "pending"
    BY <2>1, <2>3, InvalidateKeepsAttempts
  <2>5. Types'
    <3>1. <<mode[2]>> \in Seq(StageIds)
      BY <2>2
    <3>2. From(mode[2]) \in Seq(StageIds) /\ Stages \in Seq(StageIds)
      BY <2>2, StagesAreIds
    <3>3. todo' \in Seq(StageIds)
      BY <2>1, <3>1, <3>2
    <3>4. State(mem)' /\ State(saved[1])' /\ saved' = <<saved'[1]>>
      BY <2>1, <2>4 DEF State, Entry
    <3> QED
      BY <2>1, <3>3, <3>4 DEF PInv, Types
  <2>6. Kept'
    BY <2>1, <2>3, <2>4 DEF Kept, Finished, Done
  <2>7. InStep' /\ AtWork'
    BY <2>1, <2>4 DEF InStep, OnDisk, AtWork, Inside, Executions, State, Entry
  <2>8. Numbered'
    <3>1. ASSUME NEW w \in work PROVE w[2] <= mem'[w[1]].attempts
      BY <2>4 DEF PInv, Numbered, Loaded, Types
    <3> QED
      BY <2>1, <3>1 DEF Numbered
  <2> QED
    BY <2>5, <2>6, <2>7, <2>8 DEF PInv
<1> QED
  BY <1>1, <1>2

-----------------------------------------------------------------------------
(* run_stage() *)

(* The stage a process is at is one of the seven.                          *)
LEMMA AtStage ==
  ASSUME PInv, todo # <<>>
  PROVE  Stage \in StageIds /\ Tail(todo) \in Seq(StageIds)
BY HeadTailProperties DEF PInv, Types, Stage

(* Skip preserves the invariant.                                           *)
LEMMA SkipStep == ASSUME PInv, Skip PROVE PInv'
<1>1. /\ todo # <<>> /\ todo' = Tail(todo) /\ pc = "next"
      /\ UNCHANGED <<plan, saved, art, work, pc, mem, cur>>
  BY DEF Skip, disk
<1>2. Types'
  BY <1>1, AtStage DEF PInv, Types, State, Entry
<1>3. Kept' /\ InStep'
  BY <1>1 DEF PInv, Kept, InStep, Finished, OnDisk
<1>4. AtWork' /\ Numbered'
  BY <1>1 DEF PInv, AtWork, Numbered, Inside, Executions
<1> QED
  BY <1>2, <1>3, <1>4 DEF PInv

(* an artifact is taken in hand, to be written: no other entry is changed *)
LEMMA TakenInHand ==
  ASSUME PInv, pc = "next", todo # <<>>, pc' = "write",
         UNCHANGED <<plan, saved, art, work, todo>>,
         State(mem'), mem'[Stage].status \notin Done,
         \A s \in StageIds : /\ mem'[s].status = mem[s].status /\ mem'[s].sha = mem[s].sha
                             /\ mem[s].attempts <= mem'[s].attempts,
         cur' = [art |-> cur'.art, then |-> cur'.then, lib |-> cur'.lib],
         cur'.art = <<cur'.art[1]>>
  PROVE  PInv'
<1>1. Types'
  BY DEF PInv, Types, State, Entry
<1>2. Kept' /\ Numbered'
  BY DEF PInv, Kept, Finished, Numbered
<1>3. InStep'
  <2>1. ASSUME NEW s \in StageIds PROVE OnDisk(s)'
    BY DEF PInv, Types, State, Entry, InStep, OnDisk
  <2> QED
    BY <2>1 DEF PInv, InStep, Inside, Executions
<1>4. AtWork'
  BY DEF PInv, AtWork, Inside, Executions, Stage
<1> QED
  BY <1>1, <1>2, <1>3, <1>4 DEF PInv

(* Accept preserves the invariant.                                         *)
LEMMA AcceptStep == ASSUME PInv, Accept PROVE PInv'
<1>1. /\ pc = "next" /\ todo # <<>> /\ pc' = "write" /\ mem[Stage].status \notin Done
      /\ UNCHANGED <<plan, saved, art, work, todo>>
      /\ mem' = [mem EXCEPT ![Stage].attempts = @ + 1]
  BY DEF Accept, Due, Acceptable, Previous, Done, disk
<1>2. /\ cur' = [art |-> cur'.art, then |-> cur'.then, lib |-> cur'.lib]
      /\ cur'.art = <<cur'.art[1]>>
  BY DEF Accept, PInv, Types
<1>3. /\ State(mem')
      /\ \A s \in StageIds : /\ mem'[s].status = mem[s].status /\ mem'[s].sha = mem[s].sha
                             /\ mem[s].attempts <= mem'[s].attempts
  <2>1. Stage \in StageIds /\ State(mem)
    BY <1>1, AtStage DEF PInv, Types
  <2>2. /\ mem' = [s \in StageIds |-> mem'[s]]
        /\ mem'[Stage] = [mem[Stage] EXCEPT !.attempts = @ + 1]
        /\ \A s \in StageIds \ {Stage} : mem'[s] = mem[s]
    BY <1>1, <2>1 DEF State
  <2>3. Entry(mem'[Stage]) /\ mem'[Stage].attempts = mem[Stage].attempts + 1
    BY <2>1, <2>2 DEF State, Entry
  <2>4. mem'[Stage].status = mem[Stage].status /\ mem'[Stage].sha = mem[Stage].sha
    BY <2>1, <2>2 DEF State, Entry
  <2> QED
    BY <2>1, <2>2, <2>3, <2>4 DEF State, Entry
<1> QED
  BY <1>1, <1>2, <1>3, AtStage, TakenInHand

(* NoteInterrupted preserves the invariant.                                *)
LEMMA NoteInterruptedStep == ASSUME PInv, NoteInterrupted PROVE PInv'
<1>1. /\ pc = "next" /\ todo # <<>> /\ pc' = "write" /\ mem[Stage].status \notin Done
      /\ UNCHANGED <<plan, saved, art, work, mem, todo>>
  BY DEF NoteInterrupted, Due, Interrupted, Previous, Done, disk
<1>2. /\ cur' = [art |-> cur'.art, then |-> cur'.then, lib |-> cur'.lib]
      /\ cur'.art = <<cur'.art[1]>>
  BY DEF NoteInterrupted, PInv, Types
<1>3. /\ State(mem')
      /\ \A s \in StageIds : /\ mem'[s].status = mem[s].status /\ mem'[s].sha = mem[s].sha
                             /\ mem[s].attempts <= mem'[s].attempts
  BY <1>1 DEF PInv, Types, State, Entry
<1> QED
  BY <1>1, <1>2, <1>3, TakenInHand

(* StayBlocked preserves the invariant.                                    *)
LEMMA StayBlockedStep == ASSUME PInv, StayBlocked PROVE PInv'
<1>1. /\ UNCHANGED <<plan, saved, art, work>> /\ pc' = "idle"
      /\ mem' = NewState /\ todo' = <<>> /\ cur' = NoWork
  BY DEF StayBlocked, Stop
<1> QED
  BY <1>1, Resting

(* a new attempt has a number above all that were used for its stage *)
LEMMA BeginAttemptStep == ASSUME PInv, BeginAttempt PROVE PInv'
<1>1. /\ pc = "next" /\ todo # <<>> /\ pc' = "announce"
      /\ UNCHANGED <<plan, art, work, todo>> /\ saved' = <<mem'>>
  BY DEF BeginAttempt, Due
<1>2. /\ cur' = [art |-> cur'.art, then |-> cur'.then, lib |-> cur'.lib]
      /\ cur'.art = <<cur'.art[1]>> /\ cur'.art[1].attempt = mem[Stage].attempts + 1
  BY DEF BeginAttempt, PInv, Types, NewArtifact, Previous
<1>3. Stage \in StageIds /\ saved = <<mem>> /\ State(mem)
  BY <1>1, AtStage DEF PInv, Types, InStep
<1>4. /\ State(mem') /\ mem'[Stage].status = "running"
      /\ mem'[Stage].attempts = mem[Stage].attempts + 1
      /\ \A s \in StageIds \ {Stage} : mem'[s] = mem[s]
  <2> DEFINE fp == Inputs(Stage)
  <2>1. mem' = [mem EXCEPT ![Stage].attempts = @ + 1, ![Stage].status = "running", ![Stage].fp = fp]
    BY DEF BeginAttempt
  <2> HIDE DEF fp
  <2>2. /\ mem' = [s \in StageIds |-> mem'[s]]
        /\ mem'[Stage] = [mem[Stage] EXCEPT !.attempts = @ + 1, !.status = "running", !.fp = fp]
        /\ \A s \in StageIds \ {Stage} : mem'[s] = mem[s]
    BY <1>3, <2>1 DEF State, Entry
  <2>3. /\ Entry(mem'[Stage]) /\ mem'[Stage].status = "running"
        /\ mem'[Stage].attempts = mem[Stage].attempts + 1
    <3> DEFINE e == mem[Stage]
    <3>1. Entry(e) /\ mem'[Stage] = [e EXCEPT !.attempts = @ + 1, !.status = "running", !.fp = fp]
      BY <1>3, <2>2 DEF State
    <3> HIDE DEF e
    <3>2. mem'[Stage] = [status |-> "running", attempts |-> e.attempts + 1, rev |-> e.rev,
                         fp |-> fp, sha |-> e.sha, err |-> e.err]
      BY <3>1 DEF Entry
    <3>3. e.attempts + 1 \in Nat
      BY <3>1 DEF Entry
    <3> QED
      BY <3>2, <3>3 DEF Entry, e
  <2> QED
    BY <1>3, <2>2, <2>3 DEF State
<1>5. Types'
  BY <1>1, <1>2, <1>4 DEF PInv, Types, State, Entry
<1>6. Kept'
  BY <1>1, <1>3, <1>4 DEF PInv, Kept, Finished, Done
<1>7. InStep'
  BY <1>1, <1>4 DEF InStep, OnDisk, State, Entry
<1>8. AtWork'
  BY <1>1, <1>2, <1>4 DEF AtWork, Stage, Done
<1>9. Numbered'
  <2>1. ASSUME NEW w \in work
        PROVE  /\ w[1] \in StageIds /\ w[2] \in Nat /\ w[2] <= mem'[w[1]].attempts
               /\ w[1] = Stage => w[2] < mem'[Stage].attempts
    BY <1>3, <1>4 DEF PInv, Types, Numbered, State, Entry
  <2> QED
    BY <1>1, <1>2, <1>4, <2>1 DEF Numbered, Stage
<1> QED
  BY <1>5, <1>6, <1>7, <1>8, <1>9 DEF PInv

(* Announce preserves the invariant.                                       *)
LEMMA AnnounceStep == ASSUME PInv, Announce PROVE PInv'
<1>1. /\ pc = "announce" /\ pc' = "execute" /\ todo # <<>> /\ cur.art = <<cur.art[1]>>
      /\ art' = [art EXCEPT ![Stage] = cur.art]
      /\ work' = work \cup {<<Stage, cur.art[1].attempt>>}
      /\ UNCHANGED <<plan, saved, mem, todo, cur>>
      /\ mem[Stage].status \notin Done
  BY DEF Announce, PInv, AtWork, Inside
<1>2. /\ Stage \in StageIds /\ saved = <<mem>> /\ State(mem)
      /\ cur.art[1].attempt = mem[Stage].attempts
  BY <1>1, AtStage DEF PInv, Types, InStep, Inside, Numbered
<1>3. Types'
  <2>1. <<Stage, cur.art[1].attempt>> \in StageIds \X Nat
    BY <1>2 DEF State, Entry
  <2>2. work' \subseteq StageIds \X Nat
    BY <1>1, <2>1 DEF PInv, Types
  <2>3. art' = [s \in StageIds |-> art'[s]]
    BY <1>1 DEF PInv, Types
  <2> QED
    BY <1>1, <2>2, <2>3 DEF PInv, Types, State, Entry
<1>4. Kept'
  BY <1>1, <1>2 DEF PInv, Types, Kept, Finished
<1>5. InStep' /\ AtWork'
  BY <1>1, <1>2 DEF PInv, InStep, OnDisk, AtWork, Inside, Executions, Stage
<1>6. Numbered'
  <2>1. mem[Stage].attempts <= mem[Stage].attempts
    BY <1>2 DEF State, Entry
  <2> QED
    BY <1>1, <1>2, <2>1 DEF PInv, Numbered
<1> QED
  BY <1>3, <1>4, <1>5, <1>6 DEF PInv

-----------------------------------------------------------------------------
(* finalize() *)

(* WriteArtifact preserves the invariant.                                  *)
LEMMA WriteArtifactStep == ASSUME PInv, WriteArtifact PROVE PInv'
<1>1. /\ pc = "write" /\ pc' = "save" /\ todo # <<>> /\ cur.art = <<cur.art[1]>>
      /\ art' = [art EXCEPT ![Stage] = cur.art]
      /\ UNCHANGED <<plan, saved, work, mem, todo, cur>>
      /\ mem[Stage].status \notin Done
  BY DEF WriteArtifact, PInv, AtWork, Inside
<1>2. /\ Stage \in StageIds /\ saved # <<>> /\ \A s \in StageIds : OnDisk(s)
  BY <1>1, AtStage DEF PInv, InStep, Inside
<1>3. Types'
  BY <1>1 DEF PInv, Types, State, Entry
<1>4. Kept'
  BY <1>1, <1>2 DEF PInv, Types, Kept, Finished, OnDisk
<1>5. InStep' /\ AtWork'
  BY <1>1, <1>2 DEF PInv, Types, InStep, OnDisk, AtWork, Inside, Executions, Stage
<1>6. Numbered'
  BY <1>1 DEF PInv, Numbered
<1> QED
  BY <1>3, <1>4, <1>5, <1>6 DEF PInv

(* what is recorded of the stage is the artifact that was just written *)
LEMMA RecordedIsFinished ==
  ASSUME PInv, pc = "save"
  PROVE  LET after == Recorded(cur.art[1], ErrorOf)
         IN  /\ State(after)
             /\ \A s \in StageIds : Finished(after, s) /\ saved[1][s].attempts <= after[s].attempts
<1> DEFINE a == cur.art[1]  e == mem[Stage]  after == Recorded(a, ErrorOf)
<1>1. /\ todo # <<>> /\ saved # <<>> /\ art[Stage] = <<a>>
      /\ \A s \in StageIds : OnDisk(s) /\ Finished(saved[1], s)
  BY DEF PInv, AtWork, InStep, Kept, Inside
<1>2. Stage \in StageIds /\ State(mem) /\ Entry(e)
  BY <1>1, AtStage DEF PInv, Types, State
<1>3. /\ after = [s \in StageIds |-> after[s]]
      /\ after[Stage] = [e EXCEPT !.status = a.status, !.fp = a.fp, !.err = ErrorOf,
                                  !.sha = HashOf(<<a>>)]
      /\ \A s \in StageIds \ {Stage} : after[s] = mem[s]
  BY <1>2 DEF Recorded, State, Entry
<1> HIDE DEF after, e, a
<1>4. after[Stage] = [status |-> a.status, attempts |-> e.attempts, rev |-> e.rev, fp |-> a.fp,
                      sha |-> HashOf(<<a>>), err |-> ErrorOf]
  BY <1>2, <1>3 DEF Entry
<1>5. Entry(after[Stage]) /\ after[Stage].attempts = e.attempts
  BY <1>2, <1>4 DEF Entry
<1>6. State(after)
  BY <1>2, <1>3, <1>5 DEF State
<1>7. Finished(after, Stage) /\ saved[1][Stage].attempts <= after[Stage].attempts
  BY <1>1, <1>2, <1>4 DEF Finished, OnDisk, e
<1>8. ASSUME NEW s \in StageIds \ {Stage}
      PROVE  Finished(after, s) /\ saved[1][s].attempts <= after[s].attempts
  BY <1>1, <1>3 DEF Finished, OnDisk
<1>9. /\ State(after)
      /\ \A s \in StageIds : Finished(after, s) /\ saved[1][s].attempts <= after[s].attempts
  BY <1>6, <1>7, <1>8
<1> QED
  BY <1>9 DEF after, a

(* SaveState preserves the invariant.                                      *)
LEMMA SaveStateStep == ASSUME PInv, SaveState PROVE PInv'
<1> DEFINE after == Recorded(cur.art[1], ErrorOf)
<1>1. /\ pc = "save" /\ todo # <<>> /\ saved' = <<after>> /\ UNCHANGED <<plan, art, work>>
      /\ \/ mem' = after /\ todo' \in {todo, Tail(todo)} /\ cur' = NoWork /\ pc' = "next"
         \/ mem' = NewState /\ todo' = <<>> /\ cur' = NoWork /\ pc' = "idle"
  BY DEF SaveState, Stop, PInv, AtWork, Inside
<1>2. /\ State(after)
      /\ \A s \in StageIds : Finished(after, s) /\ saved[1][s].attempts <= after[s].attempts
  BY <1>1, RecordedIsFinished
<1> HIDE DEF after
<1>3. Types'
  <2>1. State(NewState) /\ <<>> \in Seq(StageIds) /\ Tail(todo) \in Seq(StageIds)
    BY <1>1, AtStage DEF State, Entry, NewState, BlankStage
  <2>2. State(mem') /\ State(saved'[1]) /\ saved' = <<saved'[1]>>
    BY <1>1, <1>2, <2>1
  <2>3. todo' \in Seq(StageIds)
    BY <1>1, <2>1 DEF PInv, Types
  <2> QED
    BY <1>1, <2>2, <2>3 DEF PInv, Types, State, Entry, NoWork
<1>4. Kept'
  BY <1>1, <1>2 DEF Kept, Finished
<1>5. InStep' /\ AtWork'
  BY <1>1, <1>2 DEF InStep, OnDisk, AtWork, Inside, Executions, State, Entry
<1>6. Numbered'
  <2>1. saved # <<>> /\ State(saved[1])
    BY <1>1 DEF PInv, Types, InStep, Inside
  <2>2. ASSUME NEW w \in work PROVE w[2] <= after[w[1]].attempts
    <3>1. /\ w[1] \in StageIds /\ w[2] \in Nat /\ w[2] <= saved[1][w[1]].attempts
      BY DEF PInv, Types, Numbered
    <3>2. saved[1][w[1]].attempts \in Nat /\ after[w[1]].attempts \in Nat
      BY <1>2, <2>1, <3>1 DEF State, Entry
    <3>3. saved[1][w[1]].attempts <= after[w[1]].attempts
      BY <1>2, <3>1
    <3> QED
      BY <3>1, <3>2, <3>3
  <2> QED
    BY <1>1, <2>2 DEF Numbered
<1> QED
  BY <1>3, <1>4, <1>5, <1>6 DEF PInv

-----------------------------------------------------------------------------
(* execute(), and what others do *)

(* The end of an attempt preserves the invariant, whatever it was.         *)
LEMMA OutcomeStep ==
  ASSUME PInv, pc \in Executions, UNCHANGED <<plan, saved, art, work, mem, todo>>,
         NEW status, NEW result, NEW sides, NEW then, Outcome(status, result, sides, then)
  PROVE  PInv'
<1>1. /\ cur' = [art |-> cur'.art, then |-> cur'.then, lib |-> cur'.lib]
      /\ cur'.art = <<cur'.art[1]>> /\ pc' = "write"
  BY DEF Outcome, PInv, Types
<1> QED
  BY <1>1, Executing_Step

(* a step inside the execution: nothing of the artifact in hand changes *)
LEMMA InsideStep ==
  ASSUME PInv, pc \in Executions, pc' \in Executions, cur'.art = cur.art,
         cur' = [art |-> cur'.art, then |-> cur'.then, lib |-> cur'.lib],
         UNCHANGED <<plan, saved, art, work, mem, todo>>
  PROVE  PInv'
<1>1. cur'.art = <<cur'.art[1]>>
  BY DEF PInv, AtWork, Inside
<1> QED
  BY <1>1, Executing_Step

(* Executing a stage preserves it.                                         *)
LEMMA ExecuteStep ==
  ASSUME PInv,
         \/ ExecuteManual \/ \E class \in {"transient", "permanent", "interrupted"} : ExecuteFails(class)
         \/ ExecuteLookup \/ ExecuteDetect \/ ExecuteClean \/ ExecuteDiagnose \/ ExecuteConfidence
         \/ ExecuteReport
  PROVE  PInv'
<1> SUFFICES ASSUME TRUE PROVE /\ pc \in Executions /\ UNCHANGED <<plan, saved, art, work, mem, todo>>
                               /\ \E status, result, sides, then : Outcome(status, result, sides, then)
  BY OutcomeStep
<1>1. CASE ExecuteManual
  BY <1>1 DEF ExecuteManual, Wait, Untouched, disk, Executions
<1>2. CASE \E class \in {"transient", "permanent", "interrupted"} : ExecuteFails(class)
  BY <1>2 DEF ExecuteFails, Fail, Untouched, disk, Executions
<1>3. CASE ExecuteLookup
  BY <1>3 DEF ExecuteLookup, Executing, Deliver, Untouched, disk, Executions
<1>4. CASE ExecuteDetect
  BY <1>4 DEF ExecuteDetect, Executing, Deliver, Fail, Untouched, disk, Executions
<1>5. CASE ExecuteClean
  BY <1>5 DEF ExecuteClean, Executing, Untouched, disk, Executions
<1>6. CASE ExecuteDiagnose
  BY <1>6 DEF ExecuteDiagnose, Executing, Untouched, disk, Executions
<1>7. CASE ExecuteConfidence
  BY <1>7 DEF ExecuteConfidence, Executing, Deliver, Untouched, disk, Executions
<1>8. CASE ExecuteReport
  BY <1>8 DEF ExecuteReport, Executing, Deliver, Fail, Untouched, disk, Executions
<1> QED
  BY <1>1, <1>2, <1>3, <1>4, <1>5, <1>6, <1>7, <1>8

(* The steps of a publication preserve it.                                 *)
LEMMA PromoteStep ==
  ASSUME PInv,
         \/ PromoteNothing \/ PromoteNowhere \/ PromoteLock \/ PromoteAgain \/ PromoteCopy
         \/ PromotePrepare \/ PromoteCheck \/ PromoteCommit \/ PromoteMark
  PROVE  PInv'
<1> USE DEF Executions
<1>0. cur = [art |-> cur.art, then |-> cur.then, lib |-> cur.lib]
  BY DEF PInv, Types
<1>1. CASE PromoteNothing
  <2>1. /\ pc = "execute" /\ UNCHANGED <<plan, saved, art, work, mem, todo>>
        /\ \E status, result, sides, then : Outcome(status, result, sides, then)
    BY <1>1 DEF PromoteNothing, Executing, Untouched, disk
  <2> QED
    BY <2>1, OutcomeStep
<1>2. CASE PromoteNowhere
  <2>1. /\ pc = "execute" /\ UNCHANGED <<plan, saved, art, work, mem, todo>>
        /\ \E status, result, sides, then : Outcome(status, result, sides, then)
    BY <1>2 DEF PromoteNowhere, Publishes, Executing, Wait, Untouched, disk
  <2> QED
    BY <2>1, OutcomeStep
<1>3. CASE PromoteLock
  <2>1. /\ pc = "execute" /\ UNCHANGED <<plan, saved, art, work, mem, todo>>
        /\ \/ pc' = "publish" /\ cur' = cur
           \/ \E status, result, sides, then : Outcome(status, result, sides, then)
    BY <1>3 DEF PromoteLock, Publishes, Executing, Fail
  <2> QED
    BY <1>0, <2>1, OutcomeStep, InsideStep
<1>4. CASE PromoteAgain
  <2>1. /\ pc = "publish" /\ UNCHANGED <<plan, saved, art, work, mem, todo>>
        /\ \E status, result, sides, then : Outcome(status, result, sides, then)
    BY <1>4 DEF PromoteAgain, Wait
  <2> QED
    BY <2>1, OutcomeStep
<1>9. CASE PromoteCopy
  <2>1. /\ pc = "publish" /\ pc' = "copied" /\ UNCHANGED <<plan, saved, art, work, mem, todo>>
        /\ cur' = [cur EXCEPT !.lib = lib]
    BY <1>9 DEF PromoteCopy
  <2>2. cur'.art = cur.art /\ cur' = [art |-> cur'.art, then |-> cur'.then, lib |-> cur'.lib]
    BY <1>0, <2>1
  <2> QED
    BY <2>1, <2>2, InsideStep
<1>5. CASE PromotePrepare
  <2>1. /\ pc = "copied" /\ UNCHANGED <<plan, saved, art, work, mem, todo>>
        /\ \/ pc' = "prepared" /\ \E library : cur' = [cur EXCEPT !.lib = library]
           \/ \E status, result, sides, then : Outcome(status, result, sides, then)
    BY <1>5 DEF PromotePrepare, Wait
  <2>2. CASE pc' = "prepared" /\ \E library : cur' = [cur EXCEPT !.lib = library]
    <3>1. cur'.art = cur.art /\ cur' = [art |-> cur'.art, then |-> cur'.then, lib |-> cur'.lib]
      BY <1>0, <2>2
    <3> QED
      BY <2>1, <2>2, <3>1, InsideStep
  <2>3. CASE \E status, result, sides, then : Outcome(status, result, sides, then)
    BY <2>1, <2>3, OutcomeStep
  <2> QED
    BY <2>1, <2>2, <2>3
<1>6. CASE PromoteCheck
  <2>1. /\ pc = "prepared" /\ UNCHANGED <<plan, saved, art, work, mem, todo>>
        /\ \/ pc' = "checked" /\ cur' = cur
           \/ \E status, result, sides, then : Outcome(status, result, sides, then)
    BY <1>6 DEF PromoteCheck, Wait
  <2> QED
    BY <1>0, <2>1, OutcomeStep, InsideStep
<1>7. CASE PromoteCommit
  <2>1. /\ pc = "checked" /\ pc' = "committed" /\ cur' = cur
        /\ UNCHANGED <<plan, saved, art, work, mem, todo>>
    BY <1>7 DEF PromoteCommit
  <2> QED
    BY <1>0, <2>1, InsideStep
<1>8. CASE PromoteMark
  <2>1. /\ pc = "committed" /\ UNCHANGED <<plan, saved, art, work, mem, todo>>
        /\ \E status, result, sides, then : Outcome(status, result, sides, then)
    BY <1>8 DEF PromoteMark
  <2> QED
    BY <2>1, OutcomeStep
<1> QED
  BY <1>1, <1>2, <1>3, <1>4, <1>5, <1>6, <1>7, <1>8, <1>9

(* an agent only touches an artifact that waits for it, which no state     *)
(* has recorded as finished                                                *)
LEMMA AgentStep ==
  ASSUME PInv, pc = "idle", UNCHANGED <<plan, saved, work, mem, todo, cur, pc>>,
         NEW s \in StageIds, art[s] # <<>>, art[s][1].status = "blocked",
         art' = [t \in StageIds |-> art'[t]], \A t \in StageIds \ {s} : art'[t] = art[t]
  PROVE  PInv'
<1>1. saved # <<>> => saved[1][s].status \notin Done
  BY DEF PInv, Kept, Finished, Done
<1>2. Kept'
  BY <1>1 DEF PInv, Kept, Finished
<1> QED
  BY <1>2 DEF PInv, Types, InStep, AtWork, Numbered, Inside, Executions, State, Entry

(* So do the agent, the curators and whoever changes the material.         *)
LEMMA OthersStep ==
  ASSUME PInv,
         \/ \E careless \in BOOLEAN : AgentReviews(careless)
         \/ AgentCleans \/ MaterialChanges \/ OutputChanges \/ CuratorAdds \/ CuratorConfirms
         \/ ClearLibraryLock
  PROVE  PInv'
<1>0. {"diagnose", "clean"} \subseteq StageIds /\ art = [s \in StageIds |-> art[s]]
  BY DEF StageIds, Stages, Range, PInv, Types
<1>1. ASSUME NEW careless \in BOOLEAN, AgentReviews(careless) PROVE PInv'
  <2>1. /\ pc = "idle" /\ UNCHANGED <<plan, saved, work, mem, todo, cur, pc>>
        /\ art["diagnose"] # <<>> /\ art["diagnose"][1].status = "blocked"
    BY <1>1 DEF AgentReviews, Outside, Change, Idle
  <2>2. \E draft : art' = [art EXCEPT !["diagnose"] = draft]
    BY <1>1 DEF AgentReviews
  <2>3. /\ art' = [t \in StageIds |-> art'[t]]
        /\ \A t \in StageIds \ {"diagnose"} : art'[t] = art[t]
    BY <1>0, <2>2
  <2> QED
    BY <1>0, <2>1, <2>3, AgentStep
<1>2. CASE AgentCleans
  <2>1. /\ pc = "idle" /\ UNCHANGED <<plan, saved, work, mem, todo, cur, pc>>
        /\ art["clean"] # <<>> /\ art["clean"][1].status = "blocked"
        /\ art' = [t \in StageIds |-> art'[t]]
        /\ \A t \in StageIds \ {"clean"} : art'[t] = art[t]
    BY <1>0, <1>2 DEF AgentCleans, Outside, Change, Idle
  <2> QED
    BY <1>0, <2>1, AgentStep
<1>3. CASE MaterialChanges \/ OutputChanges \/ CuratorAdds \/ CuratorConfirms \/ ClearLibraryLock
  <2>1. UNCHANGED <<plan, saved, art, work, mem, todo, cur, pc>>
    BY <1>3 DEF MaterialChanges, OutputChanges, CuratorAdds, CuratorConfirms, ClearLibraryLock,
               LibraryChanges, Outside, Change
  <2> QED
    BY <2>1, Bystander
<1> QED
  BY <1>1, <1>2, <1>3

-----------------------------------------------------------------------------
(* Every step preserves the invariant.                                     *)
LEMMA PipelineStep == PInv /\ [PipelineNext]_pipelineVars => PInv'
<1> SUFFICES ASSUME PInv, [PipelineNext]_pipelineVars PROVE PInv'
  OBVIOUS
<1>1. ASSUME NEW force \in BOOLEAN, Launch(force) PROVE PInv'
  <2>1. UNCHANGED <<plan, saved, art, work, mem, todo, cur>> /\ pc' \in {"idle", "locked"}
    BY <1>1 DEF Launch
  <2> QED
    BY <2>1, Resting
<1>2. ASSUME NEW mode \in Modes, Begin(mode[1], mode[2]) PROVE PInv'
  BY <1>2, BeginStep
<1>3. CASE Finish \/ Crash
  <2>1. /\ UNCHANGED <<plan, saved, art, work>> /\ pc' = "idle"
        /\ mem' = NewState /\ todo' = <<>> /\ cur' = NoWork
    BY <1>3 DEF Finish, Crash, Stop
  <2> QED
    BY <2>1, Resting
<1>4. CASE Skip \/ Accept \/ NoteInterrupted \/ StayBlocked \/ BeginAttempt \/ Announce
           \/ WriteArtifact \/ SaveState
  BY <1>4, SkipStep, AcceptStep, NoteInterruptedStep, StayBlockedStep, BeginAttemptStep,
     AnnounceStep, WriteArtifactStep, SaveStateStep
<1>5. CASE UNCHANGED pipelineVars
  <2>1. UNCHANGED <<plan, saved, art, work, mem, todo, cur, pc>>
    BY <1>5 DEF pipelineVars, disk, process
  <2> QED
    BY <2>1, Bystander
<1> QED
  BY <1>1, <1>2, <1>3, <1>4, <1>5, ExecuteStep, PromoteStep, OthersStep DEF PipelineNext

(* Every state of the disk and of the process satisfies it, crashes included. *)
THEOREM PipelineInvariant == PipelineSpec => []PInv
BY PipelineInitially, PipelineStep, PTL DEF PipelineSpec

(* Whatever is killed when, state.json never records a stage as finished   *)
(* with an artifact other than the one on disk (finalize, run_stage).      *)
THEOREM PipelineStateIsNeverAhead == PipelineSpec => []StateNeverAhead
<1>1. PInv => StateNeverAhead
  BY DEF PInv, Kept, Finished, StateNeverAhead
<1> QED
  BY <1>1, PipelineInvariant, PTL

(* No two executions of a stage share a work directory, over any number of *)
(* crashes, restarts and accepted artifacts (execute, invalidate_from).    *)
THEOREM PipelineWorkIsFresh == PipelineSpec => WorkIsFresh
<1>1. PInv => (pc = "announce" /\ pc' = "execute" => <<Stage, cur.art[1].attempt>> \notin work)
  <2> SUFFICES ASSUME PInv, pc = "announce", <<Stage, cur.art[1].attempt>> \in work PROVE FALSE
    OBVIOUS
  <2>1. cur.art[1].attempt < cur.art[1].attempt /\ cur.art[1].attempt \in Nat
    BY DEF PInv, Types, Numbered
  <2> QED
    BY <2>1
<1>2. WorkIsFresh <=>
        [][pc = "announce" /\ pc' = "execute" => <<Stage, cur.art[1].attempt>> \notin work]_pipelineVars
  BY DEF WorkIsFresh
<1> QED
  BY <1>1, <1>2, PipelineInvariant, PTL
-----------------------------------------------------------------------------
(* What a run has passed, and what it published                            *)

(* an artifact file *)
Artifact(a) ==
  a = [status |-> a.status, attempt |-> a.attempt, fp |-> a.fp, result |-> a.result,
       sides |-> a.sides]

Ended(a, status, result, sides) ==
  [a EXCEPT !.status = status, !.result = result, !.sides = sides]

(* the result of a diagnosis *)
Diagnosis(d) ==
  d = [analysis |-> d.analysis, first |-> d.first, met |-> d.met, material |-> d.material,
       timeline |-> d.timeline, trace |-> d.trace, advice |-> d.advice, gaps |-> d.gaps]

(* The input versions the stages of this run may have been given, and the  *)
(* outputs they must not have found altered: under a run that has not been *)
(* steady any version up to now, and no output.                            *)
Versions == IF steady THEN {material} ELSE 1 .. material
Altered == IF steady THEN tampered ELSE {}

(* a fingerprint names the inputs of stage s as they are, of one of these  *)
(* versions and under revision rev; the library is left out, others may    *)
(* have changed it meanwhile                                               *)
Fits(fp, s, rev, files, mats) ==
  /\ fp = <<[mat |-> fp[1].mat, up |-> [i \in 1..(At(s) - 1) |-> HashOf(files[Stages[i]])],
             rev |-> rev, lib |-> fp[1].lib]>>
  /\ fp[1].mat \in mats

(* the score of the diagnosis a fingerprint names, and the report of the   *)
(* diagnosis and the score                                                 *)
ScoreFrom(fp) == Score(fp[1].up[4][1].result[1].met)
ReportFrom(fp) == ReportResult(fp[1].up[4][1].result[1], fp[1].up[5][1].result[1])

(* Something begun on input version m is of that version; of a later one   *)
(* only where version m is no longer the one there is (now).               *)
Dated(n, m, now) == n = m \/ m \in 1 .. (now - 1)

(* what an artifact says was computed from what its fingerprint names *)
FromInputs(s, a, now) ==
  a.result # <<>> =>
    /\ s = "diagnose" => Diagnosis(a.result[1]) /\ Dated(a.result[1].material, a.fp[1].mat, now)
    /\ s = "confidence" => a.result = <<ScoreFrom(a.fp)>>
    /\ s = "report" => a.result = <<ReportFrom(a.fp)>>

Files == \A s \in StageIds : art[s] # <<>> =>
           art[s] = <<art[s][1]>> /\ Artifact(art[s][1]) /\ FromInputs(s, art[s][1], material)

(* stage s with entry e in the state is finished, its artifact still good *)
GoodIn(e, s, files, mats, changed) ==
  /\ e.status \in Done /\ files[s] # <<>> /\ e.sha = HashOf(files[s])
  /\ Fits(files[s][1].fp, s, e.rev, files, mats)
  /\ ValidateBusiness(s, files[s][1], files, changed)
Good(m, s) == GoodIn(m[s], s, art, Versions, Altered)

(* the stages from place i on *)
Rest(i) == SubSeq(Stages, i, 7)

Running == Inside \cup {"next"}

(* the stages before the one at work are good, at the end all of them *)
Passed ==
  /\ pc \in Running => /\ only => todo = <<>> \/ \E s \in StageIds : todo = <<s>>
                       /\ ~only => \E i \in 1..8 : todo = Rest(i)
                       /\ todo # <<>> => \A t \in Before(Stage) : Good(mem, t)
                       /\ todo = <<>> /\ ~only => \A t \in StageIds : Good(mem, t)
  /\ pc # "idle" => exit = "none"
  /\ exit = "done" /\ ~only => saved # <<>> /\ \A t \in StageIds : Good(saved[1], t)

(* the artifact in hand was made from the inputs of its stage; complete,   *)
(* it is valid                                                             *)
InHand ==
  /\ pc \in Inside => /\ Artifact(cur.art[1]) /\ FromInputs(Stage, cur.art[1], material)
                      /\ Fits(cur.art[1].fp, Stage, mem[Stage].rev, art, Versions)
  /\ pc \in {"write", "save"} /\ cur.art[1].status \in Done =>
       ValidateBusiness(Stage, cur.art[1], art, Altered)
  /\ pc \in {"announce"} \cup Executions => cur.art[1].sides = {}
  /\ pc = "execute" => <<Stage, cur.art[1].attempt>> \notin tampered
  /\ tampered \subseteq work
  /\ material \in DOMAIN Material

(* a case of the library, and a receipt *)
IsBlock(b) ==
  b = [no |-> b.no, from |-> b.from, code |-> b.code, title |-> b.title, body |-> b.body,
       op |-> b.op, private |-> b.private]
IsReceipt(r) ==
  /\ r = [op |-> r.op, target |-> r.target, before |-> r.before, after |-> r.after,
          status |-> r.status, no |-> r.no]
  /\ r.op = <<r.op[1], r.op[2]>>

(* every case of an operation has its receipt; what a run publishes among  *)
(* the accepted cases deserves it                                          *)
Blocks == lib.cases \cup lib.pend
Genuine(b) == IsBlock(b) /\ (b.op = <<>> \/ \E r \in receipts : r.op = b.op)
Deserved(b) == b.op # <<>> /\ b.from = <<>> =>
                 b.op[1].analysis \in Analysed /\ Score(b.op[1].met).gate = "accept"
Receipted ==
  /\ lib = [cases |-> lib.cases, pend |-> lib.pend]
  /\ \A r \in receipts : IsReceipt(r)
  /\ \A b \in Blocks : Genuine(b)
  /\ \A b \in lib.cases : Deserved(b)

(* the library holds at most one case of an operation, in either file,     *)
(* unless a publication has not noticed one                                *)
Once(library, op) ==
  /\ \A b, c \in library.cases : b.op = op /\ c.op = op => b = c
  /\ \A b, c \in library.pend : b.op = op /\ c.op = op => b = c
  /\ \A b \in library.cases, c \in library.pend : b.op = op => c.op # op
Noticed(op) == \A b \in unseen : b.op # op
OnceEach == \A r \in receipts : Noticed(r.op) => Once(lib, r.op)

(* a publication has taken a copy of the library and has reserved its      *)
(* operation before it changes the library; blocks is what the target is   *)
(* to hold beside the new case                                             *)
Publication == {"publish", "copied", "prepared", "checked", "committed"}
Accepts == ThisScore.gate = "accept"
Swapped(blocks) == [lib EXCEPT ![TargetName(ThisScore.gate)] = blocks]
Staged(blocks) ==
  \A b \in blocks : Genuine(b) /\ b.op # ThisOperation /\ (Accepts => Deserved(b))
AtCopy(blocks) ==
  /\ blocks = Target(cur.lib) /\ Receipt = {}
  /\ cur.lib = [cases |-> cur.lib.cases, pend |-> cur.lib.pend]
  /\ Target(lib) \ unseen \subseteq blocks
  /\ Accepts => blocks \subseteq lib.cases
  /\ \A q \in receipts : Noticed(q.op) => Once(Swapped(blocks), q.op)
Prepared(r, blocks) ==
  /\ Receipt = {r} /\ \E no : r.after = blocks \cup {Block(no, Body)}
  /\ r.before \ unseen \subseteq blocks
  /\ Accepts => blocks \subseteq r.before
AtPrepare(r, blocks) ==
  \A q \in receipts : Noticed(q.op) =>
    /\ Accepts => Once(Swapped(blocks), q.op)
    /\ ~Accepts => /\ Once(Swapped(blocks), q.op) \/ \E b \in r.before \ lib.pend : b.op = q.op
                   /\ \A b \in lib.pend : b.op = q.op => b \in r.before
AtCheck(blocks) ==
  /\ Target(lib) \ unseen \subseteq blocks
  /\ \A q \in receipts : Noticed(q.op) => Once(Swapped(blocks), q.op)
Reserved ==
  /\ pc \in Publication => todo # <<>> /\ Stage = "promote" /\ ThisScore.gate # "reject"
  /\ pc \in {"copied", "prepared", "checked"} => \A b \in Blocks : b.op # ThisOperation
  /\ pc = "copied" => \E blocks : Staged(blocks) /\ AtCopy(blocks)
  /\ pc \in {"prepared", "checked", "committed"} =>
       \E r, blocks :
         /\ r \in receipts /\ Staged(blocks) /\ Prepared(r, blocks)
         /\ pc = "prepared" => AtPrepare(r, blocks)
         /\ pc = "checked" => AtCheck(blocks)

RunInv == Files /\ Passed /\ InHand
LibInv == Receipted /\ Reserved /\ OnceEach

-----------------------------------------------------------------------------
(* The stages in order                                                     *)

(* The seven stages and their places.                                      *)
LEMMA StageFacts ==
  /\ Stages \in Seq(StageIds) /\ Len(Stages) = 7
  /\ StageIds = {"case_lookup", "detect", "clean", "diagnose", "confidence", "promote", "report"}
  /\ \A s \in StageIds : At(s) \in 1 .. 7 /\ Stages[At(s)] = s
  /\ \A i \in 1 .. 7 : Stages[i] \in StageIds /\ At(Stages[i]) = i
  /\ At("case_lookup") = 1 /\ At("diagnose") = 4 /\ At("confidence") = 5 /\ At("report") = 7
  /\ Stages[1] = "case_lookup" /\ Stages[4] = "diagnose" /\ Stages[5] = "confidence"
<1>1. /\ Stages \in Seq(StageIds) /\ Len(Stages) = 7 /\ DOMAIN Stages = 1 .. 7
      /\ StageIds = {"case_lookup", "detect", "clean", "diagnose", "confidence", "promote", "report"}
  BY DEF Stages, StageIds, Range
<1>2. \A i, j \in 1 .. 7 : Stages[i] = Stages[j] => i = j
  BY DEF Stages
<1>3. ASSUME NEW s \in StageIds PROVE At(s) \in 1 .. 7 /\ Stages[At(s)] = s
  BY <1>1 DEF At, StageIds, Range
<1>4. ASSUME NEW i \in 1 .. 7 PROVE Stages[i] \in StageIds /\ At(Stages[i]) = i
  <2>1. Stages[i] \in StageIds
    BY <1>1, ElementOfSeq
  <2> QED
    BY <2>1, <1>2, <1>3
<1>5. /\ Stages[1] = "case_lookup" /\ Stages[4] = "diagnose" /\ Stages[5] = "confidence"
      /\ Stages[7] = "report"
  BY DEF Stages
<1> QED
  BY <1>1, <1>3, <1>4, <1>5

(* The stages before one are those with a smaller place.                   *)
LEMMA BeforeIs ==
  ASSUME NEW s \in StageIds
  PROVE  /\ Before(s) \subseteq StageIds
         /\ \A t \in StageIds : t \in Before(s) <=> At(t) < At(s)
<1>1. At(s) \in 1 .. 7
  BY StageFacts
<1>2. ASSUME NEW t \in Before(s) PROVE t \in StageIds /\ At(t) < At(s)
  BY <1>1, StageFacts DEF Before
<1>3. ASSUME NEW t \in StageIds, At(t) < At(s) PROVE t \in Before(s)
  BY <1>1, <1>3, StageFacts DEF Before
<1> QED
  BY <1>2, <1>3

(* What is left of the stages from place i on.                             *)
LEMMA SuffixFacts ==
  /\ Rest(8) = <<>> /\ Rest(1) = Stages
  /\ \A i \in 1 .. 7 : /\ Rest(i) # <<>> /\ Head(Rest(i)) = Stages[i]
                       /\ Tail(Rest(i)) = Rest(i + 1)
  /\ \A s \in StageIds : From(s) = Rest(At(s))
<1>1. Stages \in Seq(StageIds) /\ Len(Stages) = 7
  BY StageFacts
<1>2. Rest(8) = <<>> /\ Rest(1) = Stages
  BY <1>1, SubSeqFull, SubSeqEmpty DEF Rest
<1>3. ASSUME NEW i \in 1 .. 7
      PROVE  /\ Rest(i) # <<>> /\ Head(Rest(i)) = Stages[i]
             /\ Tail(Rest(i)) = Rest(i + 1)
  <2>1. \A j \in i .. 7 : Stages[j] \in StageIds
    BY StageFacts
  <2>2. Len(Rest(i)) = 7 - i + 1
    BY <2>1, SubSeqProperties DEF Rest
  <2>3. Rest(i) # <<>>
    <3>1. Len(<<>>) = 0 /\ 7 - i + 1 # 0
      OBVIOUS
    <3> QED
      BY <2>2, <3>1, Zenon
  <2>4. i \in 1 .. Len(Stages) /\ 7 \in i .. Len(Stages)
    BY <1>1
  <2>5. Head(Rest(i)) = Stages[i]
    BY <1>1, <2>4, HeadTailOfSubSeq, ZenonT(20) DEF Rest
  <2>6. Tail(Rest(i)) = Rest(i + 1)
    BY <1>1, <2>4, HeadTailOfSubSeq DEF Rest
  <2> QED
    BY <2>3, <2>5, <2>6
<1>4. \A s \in StageIds : From(s) = Rest(At(s))
  BY <1>1 DEF From, Rest
<1> QED
  BY <1>2, <1>3, <1>4

(* A stage stays good when nothing of it or before it changes.             *)
LEMMA GoodStays ==
  ASSUME NEW s \in StageIds, NEW e, NEW f, NEW files, NEW after, NEW mats, NEW changed,
         GoodIn(e, s, files, mats, changed),
         f.status = e.status /\ f.sha = e.sha /\ f.rev = e.rev,
         \A u \in StageIds : At(u) <= At(s) => after[u] = files[u]
  PROVE  GoodIn(f, s, after, mats, changed)
<1>1. after[s] = files[s] /\ \A i \in 1 .. (At(s) - 1) : after[Stages[i]] = files[Stages[i]]
  BY StageFacts
<1>2. s = "report" => after["confidence"] = files["confidence"]
  BY StageFacts
<1>3. Fits(files[s][1].fp, s, e.rev, files, mats) => Fits(after[s][1].fp, s, f.rev, after, mats)
  BY <1>1 DEF Fits
<1>4. ValidateBusiness(s, files[s][1], files, changed) => ValidateBusiness(s, after[s][1], after, changed)
  BY <1>1, <1>2 DEF ValidateBusiness
<1> QED
  BY <1>1, <1>3, <1>4 DEF GoodIn

(* More versions and fewer altered outputs rule out less.                  *)
LEMMA FitsMore ==
  ASSUME NEW fp, NEW s, NEW rev, NEW files, NEW few, NEW many, few \subseteq many,
         Fits(fp, s, rev, files, few)
  PROVE  Fits(fp, s, rev, files, many)
BY DEF Fits

LEMMA ValidWithFewer ==
  ASSUME NEW s, NEW a, NEW files, NEW many, NEW few, few \subseteq many,
         ValidateBusiness(s, a, files, many)
  PROVE  ValidateBusiness(s, a, files, few)
<1>1. a.sides \cap few = {}
  BY DEF ValidateBusiness
<1> QED
  BY <1>1 DEF ValidateBusiness

(* The version there is, is one of them; what counts as altered is.        *)
LEMMA VersionNow ==
  ASSUME material \in DOMAIN Material
  PROVE  material \in Nat /\ material \in Versions /\ Altered \subseteq tampered
<1>1. material \in Nat /\ material >= 1
  BY MaterialAssumption
<1> QED
  BY <1>1 DEF Versions, Altered

LEMMA Unaltered ==
  ASSUME UNCHANGED <<material, tampered, steady>>
  PROVE  Versions' = Versions /\ Altered' = Altered
BY DEF Versions, Altered

(* The fingerprint the program computes names the inputs there are.        *)
LEMMA InputsAre ==
  ASSUME NEW s, NEW m, NEW own, NEW cases
  PROVE  Fits(InputsFor(s, m, art, material, own, cases), s, m[s].rev, art, {material})
<1> DEFINE fp == InputsFor(s, m, art, material, own, cases)
<1> DEFINE up == [i \in 1..(At(s) - 1) |-> HashOf(art[Stages[i]])]
<1> DEFINE known == IF s \in {"case_lookup", "detect"}
                    THEN LookupLibraryHash(m, art, own, cases) ELSE <<>>
<1>1. fp = <<[mat |-> material, up |-> up, rev |-> m[s].rev, lib |-> known]>>
  BY DEF InputsFor
<1> HIDE DEF known, fp
<1>2. /\ fp = <<[mat |-> fp[1].mat, up |-> up, rev |-> m[s].rev, lib |-> fp[1].lib]>>
      /\ fp[1].mat = material
  <2> HIDE DEF up
  <2> QED
    BY <1>1
<1>3. Fits(fp, s, m[s].rev, art, {material})
  BY <1>2 DEF Fits
<1> QED
  BY <1>3 DEF fp

LEMMA InputsAreNow ==
  ASSUME NEW s, NEW m, NEW own, NEW cases, material \in DOMAIN Material
  PROVE  Fits(InputsFor(s, m, art, material, own, cases), s, m[s].rev, art, Versions)
<1>1. {material} \subseteq Versions
  BY VersionNow
<1> QED
  BY <1>1, InputsAre, FitsMore

(* A stage that the program may reuse is good, whatever has changed.       *)
LEMMA ReusableIsCurrent ==
  ASSUME NEW s \in StageIds, NEW m, NEW own, NEW cases,
         Reusable(s, m, art, InputsFor(s, m, art, material, own, cases), tampered)
  PROVE  GoodIn(m[s], s, art, {material}, tampered)
<1>1. art[s] # <<>> /\ art[s][1].fp = InputsFor(s, m, art, material, own, cases)
  BY DEF Reusable, ReadCurrent
<1>2. Fits(art[s][1].fp, s, m[s].rev, art, {material})
  BY <1>1, InputsAre
<1> QED
  BY <1>1, <1>2 DEF Reusable, ReadCurrent, GoodIn

LEMMA GoodWithMore ==
  ASSUME NEW e, NEW s, NEW files, NEW few, NEW many, NEW changed, NEW less,
         few \subseteq many, less \subseteq changed, GoodIn(e, s, files, few, changed)
  PROVE  GoodIn(e, s, files, many, less)
BY FitsMore, ValidWithFewer DEF GoodIn

LEMMA ReusableIsGood ==
  ASSUME NEW s \in StageIds, NEW m, NEW own, NEW cases, material \in DOMAIN Material,
         Reusable(s, m, art, InputsFor(s, m, art, material, own, cases), tampered)
  PROVE  Good(m, s)
<1>1. {material} \subseteq Versions /\ Altered \subseteq tampered
  BY VersionNow
<1> QED
  BY <1>1, ReusableIsCurrent, GoodWithMore DEF Good

-----------------------------------------------------------------------------
(* RunInv: the stages a run has passed                                     *)

(* Places: what is before the next one is before this one, or is it.       *)
LEMMA NotBeyond ==
  ASSUME NEW i \in 1 .. 7, NEW j \in 1 .. 7, j < i + 1
  PROVE  j < i \/ j = i
OBVIOUS

(* What is left of the stages once one is passed.                          *)
LEMMA NextStage ==
  ASSUME NEW i \in 1 .. 8, Rest(i) # <<>>
  PROVE  /\ i \in 1 .. 7 /\ Head(Rest(i)) = Stages[i] /\ Tail(Rest(i)) = Rest(i + 1)
         /\ Tail(Rest(i)) # <<>> =>
              /\ Head(Tail(Rest(i))) \in StageIds
              /\ \A t \in Before(Head(Tail(Rest(i)))) : t \in Before(Head(Rest(i))) \cup {Head(Rest(i))}
         /\ Tail(Rest(i)) = <<>> => \A t \in StageIds : t \in Before(Head(Rest(i))) \cup {Head(Rest(i))}
<1>1. i \in 1 .. 7
  BY SuffixFacts
<1>2. Head(Rest(i)) = Stages[i] /\ Tail(Rest(i)) = Rest(i + 1)
  BY <1>1, SuffixFacts
<1>3. ASSUME Tail(Rest(i)) # <<>>
      PROVE  /\ Head(Tail(Rest(i))) \in StageIds
             /\ \A t \in Before(Head(Tail(Rest(i)))) : t \in Before(Head(Rest(i))) \cup {Head(Rest(i))}
  <2>1. i + 1 \in 1 .. 7
    <3>1. i = 7 => Rest(i + 1) = <<>>
      BY SuffixFacts
    <3>2. i # 7
      BY <1>2, <1>3, <3>1
    <3> QED
      BY <1>1, <3>2
  <2>2. Head(Tail(Rest(i))) = Stages[i + 1]
    BY <1>2, <2>1, SuffixFacts
  <2>3. /\ Stages[i] \in StageIds /\ At(Stages[i]) = i
        /\ Stages[i + 1] \in StageIds /\ At(Stages[i + 1]) = i + 1
    BY <1>1, <2>1, StageFacts
  <2>4. ASSUME NEW t \in Before(Stages[i + 1]) PROVE t \in Before(Stages[i]) \cup {Stages[i]}
    <3>1. t \in StageIds /\ At(t) < i + 1
      BY <2>3, <2>4, BeforeIs
    <3>2. At(t) \in 1 .. 7 /\ Stages[At(t)] = t
      BY <3>1, StageFacts
    <3>3. At(t) < i \/ At(t) = i
      BY <1>1, <3>1, <3>2, NotBeyond
    <3>4. At(t) < i => t \in Before(Stages[i])
      BY <2>3, <3>1, BeforeIs
    <3> QED
      BY <3>2, <3>3, <3>4
  <2> QED
    BY <1>2, <2>2, <2>3, <2>4
<1>4. ASSUME Tail(Rest(i)) = <<>>, NEW t \in StageIds PROVE t \in Before(Head(Rest(i))) \cup {Head(Rest(i))}
  <2>1. i = 7
    <3>1. i + 1 \in 1 .. 7 => Rest(i + 1) # <<>>
      BY SuffixFacts
    <3>2. i + 1 \notin 1 .. 7
      BY <1>2, <1>4, <3>1
    <3> QED
      BY <1>1, <3>2
  <2>2. At(t) \in 1 .. 7 /\ Stages[At(t)] = t
    BY StageFacts
  <2>3. At(t) < 7 \/ At(t) = 7
    BY <2>2
  <2>4. Stages[7] \in StageIds /\ At(Stages[7]) = 7
    BY StageFacts
  <2> QED
    BY <1>2, <2>1, <2>2, <2>3, <2>4, BeforeIs
<1> QED
  BY <1>1, <1>2, <1>3, <1>4

(* A run passes the stage it is at: that stage is good, those before it    *)
(* have stayed so.                                                         *)
LEMMA PassStage ==
  ASSUME PInv, Passed, pc \in Running, todo # <<>>, todo' = Tail(todo), UNCHANGED only,
         pc' = "next", exit' = exit,
         \A t \in Before(Stage) \cup {Stage} : Good(mem, t)'
  PROVE  Passed'
<1>1. Stage \in StageIds
  BY AtStage
<1>2. CASE only
  <2>1. PICK s \in StageIds : todo = <<s>>
    BY <1>2 DEF Passed
  <2>2. todo' = <<>>
    BY <2>1
  <2> QED
    BY <1>2, <2>2 DEF Passed, Running, Inside, Executions
<1>3. CASE ~only
  <2>1. PICK i \in 1 .. 8 : todo = Rest(i)
    BY <1>3 DEF Passed
  <2> DEFINE s == Head(todo)
  <2>2. /\ i \in 1 .. 7 /\ Tail(todo) = Rest(i + 1)
        /\ Tail(todo) # <<>> =>
             \A t \in Before(Head(Tail(todo))) : t \in Before(s) \cup {s}
        /\ Tail(todo) = <<>> => \A t \in StageIds : t \in Before(s) \cup {s}
    BY <2>1, NextStage
  <2>3. i + 1 \in 1 .. 8 /\ todo' = Rest(i + 1)
    BY <2>2
  <2>4. todo' # <<>> => \A t \in Before(Stage') : Good(mem, t)'
    BY <2>2 DEF Stage
  <2>5. todo' = <<>> => \A t \in StageIds : Good(mem, t)'
    BY <2>2 DEF Stage
  <2>6. exit = "none"
    BY DEF Passed, Running, Inside, Executions
  <2> QED
    BY <1>3, <2>3, <2>4, <2>5, <2>6 DEF Passed
<1> QED
  BY <1>2, <1>3

(* A run stays at its stage: those before it have stayed good.             *)
LEMMA StayAtStage ==
  ASSUME PInv, Passed, pc \in Running, todo # <<>>, UNCHANGED <<todo, only>>,
         pc' \in Running, exit' = "none",
         \A t \in Before(Stage) : Good(mem, t)'
  PROVE  Passed'
BY DEF Passed, Stage

(* What a step does not touch stays good: here the artifacts of the stages *)
(* up to s, their entries, the material and the outputs.                   *)
LEMMA GoodUntouched ==
  ASSUME NEW s \in StageIds, Good(mem, s), UNCHANGED <<material, tampered, steady>>,
         mem'[s].status = mem[s].status, mem'[s].sha = mem[s].sha, mem'[s].rev = mem[s].rev,
         \A u \in StageIds : At(u) <= At(s) => art'[u] = art[u]
  PROVE  Good(mem, s)'
<1>1. GoodIn(mem[s], s, art, Versions, Altered)
  BY DEF Good
<1>2. GoodIn(mem'[s], s, art', Versions, Altered)
  BY <1>1, GoodStays
<1>3. Versions' = Versions /\ Altered' = Altered
  BY Unaltered
<1> QED
  BY <1>2, <1>3 DEF Good

(* Those before the stage at work stay good when only its own artifact and *)
(* entry change.                                                           *)
LEMMA EarlierUntouched ==
  ASSUME PInv, todo # <<>>, \A t \in Before(Stage) : Good(mem, t),
         UNCHANGED <<material, tampered, steady>>,
         \A t \in StageIds \ {Stage} : mem'[t] = mem[t] /\ art'[t] = art[t]
  PROVE  \A t \in Before(Stage) : Good(mem, t)'
<1>1. Stage \in StageIds
  BY AtStage
<1>2. ASSUME NEW t \in Before(Stage) PROVE Good(mem, t)'
  <2>1. t \in StageIds /\ At(t) < At(Stage) /\ At(t) \in Int /\ At(Stage) \in Int
    BY <1>1, <1>2, BeforeIs, StageFacts
  <2>2. t # Stage /\ \A u \in StageIds : At(u) <= At(t) => u # Stage
    BY <2>1
  <2> QED
    BY <1>2, <2>1, <2>2, GoodUntouched
<1> QED
  BY <1>2

-----------------------------------------------------------------------------
(* RunInv: where no run is, and what a run does                            *)

(* Between runs only the files, the outputs and the material matter.       *)
LEMMA RunResting ==
  ASSUME Files', tampered' \subseteq work', material' \in DOMAIN Material,
         pc' \in {"idle", "locked"}, exit' # "done", pc' = "locked" => exit' = "none"
  PROVE  RunInv'
BY DEF RunInv, Passed, InHand, Running, Inside, Executions

(* The files are what they were when none is written.                      *)
LEMMA FilesKept == ASSUME Files, UNCHANGED <<art, material>> PROVE Files'
BY DEF Files

(* What an artifact says of its inputs is in its result and fingerprint.   *)
LEMMA SameResult ==
  ASSUME NEW s, NEW a, NEW b, NEW now, FromInputs(s, a, now), b.result = a.result, b.fp = a.fp
  PROVE  FromInputs(s, b, now)
BY DEF FromInputs

(* A run that is killed, stopped, refused or not yet begun.                *)
LEMMA RunAtRest ==
  ASSUME RunInv, UNCHANGED <<art, work, tampered, material>>,
         pc' \in {"idle", "locked"}, exit' # "done", pc' = "locked" => exit' = "none"
  PROVE  RunInv'
<1>1. Files' /\ tampered' \subseteq work' /\ material' \in DOMAIN Material
  BY FilesKept DEF RunInv, InHand
<1> QED
  BY <1>1, RunResting

(* A run that has passed all its stages ends well.                         *)
LEMMA RunFinish == ASSUME PInv, RunInv, Finish PROVE RunInv'
<1>1. /\ pc = "next" /\ todo = <<>> /\ pc' = "idle" /\ exit' = "done"
      /\ UNCHANGED <<material, steady, saved, art, work, tampered, only>>
  BY DEF Finish, Stop, history
<1>2. saved = <<mem>>
  BY <1>1 DEF PInv, InStep
<1>3. ~only => \A t \in StageIds : Good(mem, t)
  BY <1>1 DEF RunInv, Passed, Running
<1>4. ~only' => \A t \in StageIds : Good(saved[1], t)'
  BY <1>1, <1>2, <1>3, Unaltered DEF Good
<1>5. Passed'
  BY <1>1, <1>2, <1>4 DEF Passed, Running, Inside, Executions
<1>6. Files' /\ InHand'
  BY <1>1, FilesKept DEF RunInv, InHand, Inside, Executions
<1> QED
  BY <1>5, <1>6 DEF RunInv

(* Invalidating a stage leaves those before it alone.                      *)
LEMMA InvalidateKeepsEarlier ==
  ASSUME NEW m, NEW s, NEW t \in StageIds, t \in Before(s)
  PROVE  Invalidate(m, s)[t] = m[t]
BY Zenon DEF Invalidate

(* A run begins at its first stage, or where the stages before are good.   *)
LEMMA RunBegin ==
  ASSUME PInv, RunInv, NEW mode \in Modes, Begin(mode[1], mode[2])
  PROVE  RunInv'
<1> DEFINE state == Loaded
<1>1. CASE Refused(mode[1], mode[2], state)
  <2>1. UNCHANGED <<art, work, tampered, material>> /\ pc' = "idle" /\ exit' = "conflict"
    BY <1>1 DEF Begin
  <2> QED
    BY <2>1, RunAtRest
<1>2. CASE ~Refused(mode[1], mode[2], state)
  <2> DEFINE s == mode[2]
  <2>1. /\ pc = "locked" /\ pc' = "next"
        /\ UNCHANGED <<plan, material, art, receipts, lib, work, tampered, cur, exit>>
    BY <1>2 DEF Begin
  <2>2. /\ mode[1] \in {"restart", "only"} => mem' = Invalidate(state, s)
        /\ mode[1] = "only" => todo' = <<s>>
        /\ mode[1] = "restart" => todo' = From(s)
        /\ mode[1] \notin {"restart", "only"} => todo' = Stages
    BY <1>2 DEF Begin
  <2>3. (mode[1] = "only" => only') /\ (mode[1] # "only" => ~only')
    BY <1>2 DEF Begin
  <2>4. s \in StageIds
    BY PlansAssumption DEF Modes, PInv, Types, StageIds, Range, Stages
  <2>5. mode[1] \in {"restart", "only"} => \A t \in Before(s) : Good(mem, t)'
    <3> SUFFICES ASSUME mode[1] \in {"restart", "only"}, NEW t \in Before(s) PROVE Good(mem, t)'
      OBVIOUS
    <3>1. t \in StageIds
      BY <2>4, BeforeIs
    <3>2. Reusable(t, state, art, InputsFor(t, state, art, material, receipts, lib.cases), tampered)
      BY <1>2 DEF Refused
    <3>3. GoodIn(state[t], t, art, {material}, tampered)
      BY <3>1, <3>2, ReusableIsCurrent
    <3>4. mem' = Invalidate(state, s)
      BY <2>2
    <3>5. mem'[t] = state[t]
      BY <3>1, <3>4, InvalidateKeepsEarlier
    <3>6. steady' = TRUE
      BY <1>2 DEF Begin
    <3>7. Versions' = {material} /\ Altered' = tampered
      BY <2>1, <3>6 DEF Versions, Altered
    <3> QED
      BY <2>1, <3>3, <3>5, <3>7 DEF Good
  <2> HIDE DEF s, state
  <2>6. exit' = "none"
    BY <2>1 DEF RunInv, Passed
  <2>7. /\ mode[1] = "only" => todo' # <<>> /\ Head(todo') = s
        /\ mode[1] = "restart" => todo' = Rest(At(s)) /\ At(s) \in 1 .. 8 /\ todo' # <<>> /\ Head(todo') = s
        /\ mode[1] \notin {"restart", "only"} =>
             todo' = Rest(1) /\ todo' # <<>> /\ Head(todo') = Stages[1]
    <3>1. Rest(1) # <<>> /\ Head(Rest(1)) = Stages[1] /\ Rest(1) = Stages
      BY SuffixFacts
    <3>2. At(s) \in 1 .. 7 /\ Stages[At(s)] = s
      BY <2>4, StageFacts
    <3>3. Rest(At(s)) # <<>> /\ Head(Rest(At(s))) = s
      BY <3>2, SuffixFacts
    <3>5. From(s) = Rest(At(s))
      BY <2>4, SuffixFacts, Zenon
    <3>6. At(s) \in 1 .. 8
      BY <3>2
    <3>4. <<s>> # <<>> /\ Head(<<s>>) = s
      OBVIOUS
    <3> QED
      BY <2>2, <3>1, <3>3, <3>4, <3>5, <3>6
  <2>8. \A t \in Before(Stage') : Good(mem, t)'
    <3>1. Before(Stages[1]) = {}
      BY StageFacts, BeforeIs
    <3> QED
      BY <2>5, <2>7, <3>1 DEF Stage
  <2>9. Passed'
    <3>1. only' => \E t \in StageIds : todo' = <<t>>
      BY <2>2, <2>3, <2>4
    <3>2. ~only' => \E i \in 1 .. 8 : todo' = Rest(i)
      BY <2>2, <2>3, <2>7
    <3>3. todo' # <<>>
      BY <2>7
    <3> QED
      BY <2>6, <2>8, <3>1, <3>2, <3>3 DEF Passed
  <2>10. Files' /\ InHand'
    BY <2>1, FilesKept DEF RunInv, InHand, Inside, Executions
  <2> QED
    BY <2>9, <2>10 DEF RunInv
<1> QED
  BY <1>1, <1>2

(* A stage that is passed over is good.                                    *)
LEMMA RunSkip == ASSUME PInv, RunInv, Skip PROVE RunInv'
<1>1. /\ pc = "next" /\ todo # <<>> /\ todo' = Tail(todo) /\ Current(Stage)
      /\ UNCHANGED <<material, steady, art, work, tampered, pc, mem, cur, only, exit>>
  BY DEF Skip, disk, history
<1>2. Good(mem, Stage)
  BY <1>1, AtStage, ReusableIsGood DEF Current, Inputs, RunInv, InHand
<1>3. \A t \in Before(Stage) \cup {Stage} : Good(mem, t)'
  BY <1>1, <1>2, Unaltered DEF RunInv, Passed, Running, Good
<1>4. Passed'
  BY <1>1, <1>3, PassStage DEF RunInv, Running
<1>5. Files' /\ InHand'
  BY <1>1, FilesKept DEF RunInv, InHand, Inside, Executions
<1> QED
  BY <1>4, <1>5 DEF RunInv

-----------------------------------------------------------------------------
(* RunInv: run_stage() and finalize()                                      *)

(* What is found for a stage is its file, made from the inputs there are.  *)
LEMMA FoundIs ==
  ASSUME PInv, RunInv, todo # <<>>, Found # <<>>
  PROVE  /\ Artifact(Found[1]) /\ FromInputs(Stage, Found[1], material)
         /\ Fits(Found[1].fp, Stage, mem[Stage].rev, art, Versions)
<1>1. Found = art[Stage] /\ art[Stage][1].fp = Inputs(Stage) /\ art[Stage] # <<>>
  BY DEF Found, ReadCurrent
<1>2. Stage \in StageIds
  BY AtStage
<1>3. Artifact(Found[1]) /\ FromInputs(Stage, Found[1], material)
  BY <1>1, <1>2 DEF RunInv, Files
<1>4. Fits(Inputs(Stage), Stage, mem[Stage].rev, art, Versions)
  BY InputsAreNow DEF Inputs, RunInv, InHand
<1> QED
  BY <1>1, <1>3, <1>4

(* What is written by nobody stays good, and the run where it was.         *)
LEMMA RunStays ==
  ASSUME PInv, RunInv, pc \in Running, todo # <<>>, pc' \in Running,
         UNCHANGED <<material, steady, tampered, todo, only, exit>>,
         \A t \in StageIds \ {Stage} : mem'[t] = mem[t] /\ art'[t] = art[t]
  PROVE  Passed'
<1>1. \A t \in Before(Stage) : Good(mem, t)
  BY DEF RunInv, Passed
<1>2. \A t \in Before(Stage) : Good(mem, t)'
  BY <1>1, EarlierUntouched
<1>3. exit' = "none"
  BY DEF RunInv, Passed, Running, Inside, Executions
<1> QED
  BY <1>2, <1>3, StayAtStage DEF RunInv

(* An artifact is taken in hand that was made from the inputs there are.   *)
LEMMA RunTakes ==
  ASSUME PInv, RunInv, pc = "next", todo # <<>>, pc' \in {"announce", "write"},
         UNCHANGED <<material, steady, art, work, tampered, todo, only, exit>>,
         \A t \in StageIds \ {Stage} : mem'[t] = mem[t], mem'[Stage].rev = mem[Stage].rev,
         Artifact(cur'.art[1]), FromInputs(Stage, cur'.art[1], material),
         Fits(cur'.art[1].fp, Stage, mem[Stage].rev, art, Versions),
         pc' = "write" /\ cur'.art[1].status \in Done =>
           ValidateBusiness(Stage, cur'.art[1], art, Altered),
         pc' = "announce" => cur'.art[1].sides = {}
  PROVE  RunInv'
<1>1. Passed'
  BY RunStays DEF Running, Inside
<1>2. Stage' = Stage /\ Versions' = Versions /\ Altered' = Altered
  BY Unaltered DEF Stage
<1>3. InHand'
  BY <1>2 DEF RunInv, InHand, Inside, Executions
<1> QED
  BY <1>1, <1>3, FilesKept DEF RunInv

(* An artifact somebody completed is taken in hand.                        *)
LEMMA RunAccept == ASSUME PInv, RunInv, Accept PROVE RunInv'
<1>1. /\ pc = "next" /\ todo # <<>> /\ pc' = "write" /\ Found # <<>>
      /\ ValidateBusiness(Stage, Found[1], art, tampered)
      /\ UNCHANGED <<material, steady, art, work, tampered, todo, only, exit>>
      /\ mem' = [mem EXCEPT ![Stage].attempts = @ + 1]
  BY DEF Accept, Due, Acceptable, disk, history
<1>2. Stage \in StageIds /\ State(mem)
  BY <1>1, AtStage DEF PInv, Types
<1>3. /\ \A t \in StageIds \ {Stage} : mem'[t] = mem[t]
      /\ mem'[Stage].rev = mem[Stage].rev
  BY <1>1, <1>2 DEF State, Entry
<1> DEFINE a == Found[1]
<1>4. /\ Artifact(a) /\ FromInputs(Stage, a, material)
      /\ Fits(a.fp, Stage, mem[Stage].rev, art, Versions)
  BY <1>1, FoundIs
<1>5. PICK n : cur'.art = <<[a EXCEPT !.attempt = n]>>
  <2>1. cur' = [cur EXCEPT !.art = <<[Found[1] EXCEPT !.attempt = Previous.attempts + 1]>>,
                           !.then = "go"]
    BY DEF Accept
  <2>2. cur'.art = <<[Found[1] EXCEPT !.attempt = Previous.attempts + 1]>>
    BY <2>1 DEF PInv, Types
  <2> QED
    BY <2>2
<1> HIDE DEF a
<1>6. /\ Artifact(cur'.art[1])
      /\ cur'.art[1].result = a.result /\ cur'.art[1].fp = a.fp
      /\ cur'.art[1].status = a.status /\ cur'.art[1].sides = a.sides
  BY <1>4, <1>5 DEF Artifact
<1>7. FromInputs(Stage, cur'.art[1], material)
  BY <1>4, <1>6, SameResult
<1>8. ValidateBusiness(Stage, cur'.art[1], art, Altered)
  <2>1. ValidateBusiness(Stage, a, art, Altered)
    BY <1>1, VersionNow, ValidWithFewer DEF RunInv, InHand, a
  <2> QED
    BY <1>6, <2>1 DEF ValidateBusiness
<1> QED
  BY <1>1, <1>3, <1>4, <1>6, <1>7, <1>8, RunTakes

(* An attempt that was cut short is taken in hand to be recorded.          *)
LEMMA RunNotes == ASSUME PInv, RunInv, NoteInterrupted PROVE RunInv'
<1>1. /\ pc = "next" /\ todo # <<>> /\ pc' = "write" /\ Found # <<>>
      /\ UNCHANGED <<material, steady, art, work, tampered, todo, only, exit, mem>>
      /\ cur' = [cur EXCEPT !.art = <<[Found[1] EXCEPT !.status = "failed"]>>, !.then = "again"]
  BY DEF NoteInterrupted, Due, Interrupted, disk, history
<1> DEFINE a == Found[1]
<1>4. /\ Artifact(a) /\ FromInputs(Stage, a, material)
      /\ Fits(a.fp, Stage, mem[Stage].rev, art, Versions)
  BY <1>1, FoundIs
<1>5. cur'.art = <<[a EXCEPT !.status = "failed"]>>
  BY <1>1 DEF PInv, Types
<1> HIDE DEF a
<1>6. /\ Artifact(cur'.art[1]) /\ cur'.art[1].status = "failed"
      /\ cur'.art[1].result = a.result /\ cur'.art[1].fp = a.fp
  BY <1>4, <1>5 DEF Artifact
<1>7. FromInputs(Stage, cur'.art[1], material)
  BY <1>4, <1>6, SameResult
<1> QED
  BY <1>1, <1>4, <1>6, <1>7, RunTakes DEF Done

(* A new attempt starts from what was found, or from nothing.              *)
LEMMA RunAttempts == ASSUME PInv, RunInv, BeginAttempt PROVE RunInv'
<1>1. /\ pc = "next" /\ todo # <<>> /\ pc' = "announce"
      /\ UNCHANGED <<material, steady, art, work, tampered, todo, only, exit>>
      /\ mem' = [mem EXCEPT ![Stage].attempts = @ + 1, ![Stage].status = "running",
                            ![Stage].fp = Inputs(Stage)]
  BY DEF BeginAttempt, Due, history
<1> DEFINE fp == Inputs(Stage)
<1> DEFINE result == IF Found = <<>> THEN <<>> ELSE Found[1].result
<1>2. PICK n : cur'.art = <<NewArtifact(n, fp, result)>>
  BY DEF BeginAttempt, PInv, Types
<1>3. Stage \in StageIds /\ State(mem)
  BY <1>1, AtStage DEF PInv, Types
<1>4. Fits(fp, Stage, mem[Stage].rev, art, Versions)
  BY InputsAreNow DEF Inputs, RunInv, InHand
<1>5. Found # <<>> => FromInputs(Stage, Found[1], material) /\ Found[1].fp = fp
  BY <1>1, FoundIs DEF Found, ReadCurrent
<1> HIDE DEF fp, result
<1>6. /\ Artifact(cur'.art[1]) /\ cur'.art[1].status = "running" /\ cur'.art[1].sides = {}
      /\ cur'.art[1].fp = fp /\ cur'.art[1].result = result
  BY <1>2 DEF Artifact, NewArtifact
<1>7. FromInputs(Stage, cur'.art[1], material)
  <2>1. CASE Found = <<>>
    BY <1>6, <2>1 DEF FromInputs, result
  <2>2. CASE Found # <<>>
    BY <1>5, <1>6, <2>2, SameResult DEF result
  <2> QED
    BY <2>1, <2>2
<1>8. /\ \A t \in StageIds \ {Stage} : mem'[t] = mem[t]
      /\ mem'[Stage].rev = mem[Stage].rev
  <2>1. mem' = [mem EXCEPT ![Stage].attempts = @ + 1, ![Stage].status = "running", ![Stage].fp = fp]
    BY <1>1 DEF fp
  <2> QED
    BY <1>3, <2>1 DEF State, Entry
<1> QED
  BY <1>1, <1>4, <1>6, <1>7, <1>8, RunTakes

(* The file of the stage at work is written: from what was in hand.        *)
LEMMA FilesWritten ==
  ASSUME PInv, RunInv, pc \in Inside, art' = [art EXCEPT ![Stage] = cur.art], material' = material
  PROVE  /\ Files' /\ Stage \in StageIds /\ art'[Stage] = cur.art
         /\ \A t \in StageIds \ {Stage} : art'[t] = art[t]
<1>1. Stage \in StageIds /\ cur.art = <<cur.art[1]>>
  BY AtStage DEF PInv, AtWork
<1>2. art'[Stage] = cur.art /\ \A t \in StageIds \ {Stage} : art'[t] = art[t]
  BY <1>1 DEF PInv, Types
<1>3. ASSUME NEW t \in StageIds, art'[t] # <<>>
      PROVE  art'[t] = <<art'[t][1]>> /\ Artifact(art'[t][1]) /\ FromInputs(t, art'[t][1], material)
  BY <1>1, <1>2, <1>3 DEF RunInv, InHand, Files
<1> QED
  BY <1>1, <1>2, <1>3 DEF Files

(* Its inputs are the files of other stages.                               *)
LEMMA InHandFits ==
  ASSUME PInv, RunInv, pc \in Inside, UNCHANGED <<todo, cur, mem, material, tampered, steady>>,
         Stage \in StageIds, \A t \in StageIds \ {Stage} : art'[t] = art[t]
  PROVE  /\ Fits(cur'.art[1].fp, Stage', mem'[Stage'].rev, art', Versions')
         /\ ValidateBusiness(Stage, cur.art[1], art, Altered) =>
              ValidateBusiness(Stage', cur'.art[1], art', Altered')
<1>1. \A i \in 1 .. (At(Stage) - 1) : art'[Stages[i]] = art[Stages[i]]
  <2> SUFFICES ASSUME NEW i \in 1 .. (At(Stage) - 1) PROVE art'[Stages[i]] = art[Stages[i]]
    OBVIOUS
  <2>1. At(Stage) \in 1 .. 7
    BY StageFacts
  <2>2. i \in 1 .. 7 /\ i # At(Stage)
    BY <2>1
  <2>3. Stages[i] \in StageIds /\ Stages[i] # Stage
    BY <2>2, StageFacts
  <2> QED
    BY <2>3
<1>2. Fits(cur.art[1].fp, Stage, mem[Stage].rev, art, Versions)
  BY DEF RunInv, InHand
<1>3. Fits(cur.art[1].fp, Stage, mem[Stage].rev, art', Versions)
  BY <1>1, <1>2 DEF Fits
<1>4. Stage' = Stage /\ Versions' = Versions /\ Altered' = Altered
  BY Unaltered DEF Stage
<1>5. Stage = "report" => art'["confidence"] = art["confidence"]
  BY StageFacts
<1>6. ValidateBusiness(Stage, cur.art[1], art, Altered) =>
        ValidateBusiness(Stage, cur.art[1], art', Altered)
  BY <1>5 DEF ValidateBusiness
<1> QED
  BY <1>3, <1>4, <1>6

(* The announcement is written: an output of this attempt is not changed.  *)
LEMMA RunAnnounces == ASSUME PInv, RunInv, Announce PROVE RunInv'
<1>1. /\ pc = "announce" /\ pc' = "execute" /\ todo # <<>>
      /\ art' = [art EXCEPT ![Stage] = cur.art]
      /\ work' = work \cup {<<Stage, cur.art[1].attempt>>}
      /\ UNCHANGED <<material, steady, tampered, mem, todo, cur, only, exit>>
  BY DEF Announce, history, PInv, AtWork, Inside
<1>2. /\ Files' /\ Stage \in StageIds /\ \A t \in StageIds \ {Stage} : art'[t] = art[t]
  BY <1>1, FilesWritten DEF Inside
<1>3. Passed'
  BY <1>1, <1>2, RunStays DEF Running, Inside, Executions
<1>4. Fits(cur'.art[1].fp, Stage', mem'[Stage'].rev, art', Versions')
  BY <1>1, <1>2, InHandFits DEF Inside
<1>5. <<Stage, cur.art[1].attempt>> \notin tampered
  <2>1. <<Stage, cur.art[1].attempt>> \notin work
    <3> SUFFICES ASSUME <<Stage, cur.art[1].attempt>> \in work PROVE FALSE
      OBVIOUS
    <3>1. cur.art[1].attempt < cur.art[1].attempt /\ cur.art[1].attempt \in Nat
      BY <1>1 DEF PInv, Types, Numbered
    <3> QED
      BY <3>1
  <2> QED
    BY <2>1 DEF RunInv, InHand
<1>6. Stage' = Stage
  BY <1>1 DEF Stage
<1>7. Artifact(cur'.art[1]) /\ FromInputs(Stage', cur'.art[1], material) /\ cur'.art[1].sides = {}
  BY <1>1, <1>6 DEF RunInv, InHand, Inside
<1>8. InHand'
  BY <1>1, <1>4, <1>5, <1>6, <1>7 DEF RunInv, InHand, Inside, Executions
<1> QED
  BY <1>2, <1>3, <1>8 DEF RunInv

(* The artifact is written.                                                *)
LEMMA RunWrites == ASSUME PInv, RunInv, WriteArtifact PROVE RunInv'
<1>1. /\ pc = "write" /\ pc' = "save" /\ todo # <<>>
      /\ art' = [art EXCEPT ![Stage] = cur.art]
      /\ UNCHANGED <<material, steady, work, tampered, mem, todo, cur, only, exit>>
  BY DEF WriteArtifact, history, PInv, AtWork, Inside
<1>2. /\ Files' /\ Stage \in StageIds /\ \A t \in StageIds \ {Stage} : art'[t] = art[t]
  BY <1>1, FilesWritten DEF Inside
<1>3. Passed'
  BY <1>1, <1>2, RunStays DEF Running, Inside, Executions
<1>4. /\ Fits(cur'.art[1].fp, Stage', mem'[Stage'].rev, art', Versions')
      /\ ValidateBusiness(Stage, cur.art[1], art, Altered) =>
           ValidateBusiness(Stage', cur'.art[1], art', Altered')
  BY <1>1, <1>2, InHandFits DEF Inside
<1>5. Stage' = Stage
  BY <1>1 DEF Stage
<1>6. /\ Artifact(cur'.art[1]) /\ FromInputs(Stage', cur'.art[1], material)
      /\ cur'.art[1].status \in Done => ValidateBusiness(Stage', cur'.art[1], art', Altered')
  BY <1>1, <1>4, <1>5 DEF RunInv, InHand, Inside
<1>7. InHand'
  BY <1>1, <1>4, <1>6 DEF RunInv, InHand, Inside, Executions
<1> QED
  BY <1>2, <1>3, <1>7 DEF RunInv

(* The state records it: the stage is good if it is complete.              *)
LEMMA RunSaves == ASSUME PInv, RunInv, SaveState PROVE RunInv'
<1> DEFINE after == Recorded(cur.art[1], ErrorOf)
<1>1. /\ pc = "save" /\ todo # <<>> /\ art[Stage] = cur.art /\ cur.art = <<cur.art[1]>>
      /\ UNCHANGED <<material, steady, art, work, tampered, only>>
      /\ Stage \in StageIds /\ State(mem)
  <2>1. /\ pc = "save" /\ todo # <<>> /\ art[Stage] = cur.art /\ cur.art = <<cur.art[1]>>
        /\ UNCHANGED <<material, steady, art, work, tampered, only>>
    BY DEF SaveState, history, PInv, AtWork, Inside
  <2> QED
    BY <2>1, AtStage DEF PInv, Types
<1>2. /\ after[Stage].status = cur.art[1].status /\ after[Stage].sha = HashOf(cur.art)
      /\ after[Stage].rev = mem[Stage].rev
      /\ \A t \in StageIds \ {Stage} : after[t] = mem[t]
  <2> DEFINE a == cur.art[1]
  <2> DEFINE err == ErrorOf
  <2> DEFINE sha == HashOf(<<a>>)
  <2>1. after = [mem EXCEPT ![Stage].status = a.status, ![Stage].fp = a.fp, ![Stage].err = err,
                            ![Stage].sha = sha]
    BY DEF Recorded
  <2>2. sha = HashOf(cur.art)
    BY <1>1
  <2> HIDE DEF err, sha, a, after
  <2>3. /\ after[Stage].status = a.status /\ after[Stage].sha = sha
        /\ after[Stage].rev = mem[Stage].rev
        /\ \A t \in StageIds \ {Stage} : after[t] = mem[t]
    BY <1>1, <2>1 DEF State, Entry
  <2> QED
    BY <2>2, <2>3 DEF a
<1>3. \/ /\ cur.art[1].status \in Done
         /\ mem' = after /\ todo' = Tail(todo) /\ pc' = "next" /\ UNCHANGED exit
      \/ mem' = after /\ todo' = todo /\ pc' = "next" /\ UNCHANGED exit
      \/ pc' = "idle" /\ exit' \in {"failed", "blocked"}
  BY DEF SaveState, Stop
<1> HIDE DEF after
<1>4. CASE pc' = "idle" /\ exit' \in {"failed", "blocked"}
  BY <1>1, <1>4, RunAtRest
<1>8. Versions' = Versions /\ Altered' = Altered
  BY <1>1, Unaltered
<1>5. Files' /\ (pc' = "next" => InHand')
  BY <1>1, FilesKept DEF RunInv, InHand, Inside, Executions
<1>6. CASE mem' = after /\ todo' = todo /\ pc' = "next" /\ UNCHANGED exit
  <2>1. Passed'
    BY <1>1, <1>2, <1>6, RunStays DEF Running, Inside
  <2> QED
    BY <1>5, <1>6, <2>1 DEF RunInv
<1>7. CASE /\ cur.art[1].status \in Done
           /\ mem' = after /\ todo' = Tail(todo) /\ pc' = "next" /\ UNCHANGED exit
  <2>1. \A t \in Before(Stage) : Good(mem, t)
    BY <1>1 DEF RunInv, Passed, Running, Inside
  <2>2. \A t \in Before(Stage) : Good(mem, t)'
    BY <1>1, <1>2, <1>7, <2>1, EarlierUntouched
  <2>3. /\ Fits(cur.art[1].fp, Stage, mem[Stage].rev, art, Versions)
        /\ ValidateBusiness(Stage, cur.art[1], art, Altered)
    BY <1>1, <1>7 DEF RunInv, InHand, Inside
  <2>4. GoodIn(after[Stage], Stage, art, Versions, Altered)
    <3>1. art[Stage] # <<>> /\ art[Stage][1] = cur.art[1]
      BY <1>1
    <3> QED
      BY <1>1, <1>2, <1>7, <2>3, <3>1 DEF GoodIn
  <2>5. \A t \in {Stage} : Good(mem, t)'
    BY <1>1, <1>7, <1>8, <2>4 DEF Good
  <2>6. Passed'
    BY <1>1, <1>7, <2>2, <2>5, PassStage DEF RunInv, Running, Inside
  <2> QED
    BY <1>5, <1>7, <2>6 DEF RunInv
<1> QED
  BY <1>3, <1>4, <1>6, <1>7

-----------------------------------------------------------------------------
(* RunInv: execute() and promote()                                         *)

(* An artifact at the end of its attempt.                                  *)
LEMMA EndedIs ==
  ASSUME NEW b, Artifact(b), NEW status, NEW result, NEW sides
  PROVE  LET a == Ended(b, status, result, sides)
         IN  /\ Artifact(a) /\ a.status = status /\ a.result = result /\ a.sides = sides
             /\ a.fp = b.fp /\ a.attempt = b.attempt
<1> DEFINE a == Ended(b, status, result, sides)
<1>0. a = [b EXCEPT !.status = status, !.result = result, !.sides = sides]
  BY DEF Ended
<1> HIDE DEF a
<1>1. a = [status |-> status, attempt |-> b.attempt, fp |-> b.fp, result |-> result, sides |-> sides]
  BY <1>0 DEF Artifact
<1>2. /\ Artifact(a) /\ a.status = status /\ a.result = result /\ a.sides = sides
      /\ a.fp = b.fp /\ a.attempt = b.attempt
  BY <1>1 DEF Artifact
<1> QED
  BY <1>2 DEF a

(* The end of an attempt leaves what its inputs give, valid if complete.   *)
LEMMA RunEnds ==
  ASSUME PInv, RunInv, pc \in Executions, NEW status, NEW result, NEW sides, NEW then,
         UNCHANGED <<material, steady, art, work, tampered, mem, todo, only, exit>>,
         Outcome(status, result, sides, then),
         FromInputs(Stage, Ended(cur.art[1], status, result, sides), material),
         status \in Done =>
           ValidateBusiness(Stage, Ended(cur.art[1], status, result, sides), art, Altered)
  PROVE  RunInv'
<1> DEFINE b == cur.art[1]
<1> DEFINE a == Ended(b, status, result, sides)
<1>1. pc' = "write" /\ cur'.art = <<a>>
  BY DEF Outcome, PInv, Types, Ended
<1>2. todo # <<>> /\ Artifact(b) /\ Fits(b.fp, Stage, mem[Stage].rev, art, Versions)
  BY DEF PInv, AtWork, RunInv, InHand, Inside
<1>3. FromInputs(Stage, a, material) /\ (status \in Done => ValidateBusiness(Stage, a, art, Altered))
  OBVIOUS
<1> HIDE DEF b
<1>4. Artifact(a) /\ a.status = status /\ a.fp = b.fp
  BY <1>2, EndedIs
<1> HIDE DEF a
<1>5. Passed'
  BY <1>1, <1>2, RunStays DEF Running, Inside
<1>6. Stage' = Stage /\ Versions' = Versions /\ Altered' = Altered
  BY Unaltered DEF Stage
<1>7. InHand'
  <2>1. cur'.art[1] = a
    BY <1>1
  <2>2. Fits(a.fp, Stage, mem[Stage].rev, art, Versions)
    BY <1>2, <1>4
  <2>3. pc' \notin {"announce", "save"} \cup Executions /\ pc' \in Inside
    BY <1>1 DEF Inside, Executions
  <2> QED
    BY <1>1, <1>3, <1>4, <1>6, <2>1, <2>2, <2>3 DEF RunInv, InHand
<1> QED
  BY <1>5, <1>7, FilesKept DEF RunInv

(* An attempt that waits or fails leaves the result it found.              *)
LEMMA RunStops ==
  ASSUME PInv, RunInv, pc \in Executions, NEW status \in {"blocked", "failed"}, NEW then,
         UNCHANGED <<material, steady, art, work, tampered, mem, todo, only, exit>>,
         Outcome(status, cur.art[1].result, {}, then)
  PROVE  RunInv'
<1> DEFINE a == cur.art[1]
<1> DEFINE r == a.result
<1> DEFINE b == Ended(a, status, r, {})
<1>1. Artifact(a) /\ FromInputs(Stage, a, material)
  BY DEF RunInv, InHand, Inside
<1>2. FromInputs(Stage, b, material)
  <2> HIDE DEF a
  <2>1. b.result = a.result /\ b.fp = a.fp
    BY <1>1, EndedIs
  <2> HIDE DEF b
  <2> QED
    BY <1>1, <2>1, SameResult
<1>3. Outcome(status, r, {}, then) /\ status \notin Done
  BY DEF Done
<1> HIDE DEF r
<1> QED
  BY <1>2, <1>3, RunEnds

(* A publication in progress touches nothing of the run.                   *)
LEMMA RunInside ==
  ASSUME PInv, RunInv, pc \in Executions, pc' \in Executions \ {"execute"}, cur'.art = cur.art,
         UNCHANGED <<material, steady, art, work, tampered, mem, todo, only, exit>>
  PROVE  RunInv'
<1>1. todo # <<>> /\ Stage' = Stage /\ Versions' = Versions /\ Altered' = Altered
  BY Unaltered DEF PInv, AtWork, Inside, Stage
<1>2. Passed'
  BY <1>1, RunStays DEF Running, Inside
<1>3. InHand'
  BY <1>1 DEF RunInv, InHand, Inside, Executions
<1> QED
  BY <1>2, <1>3, FilesKept DEF RunInv

(* The hash of an artifact tells its result.                               *)
LEMMA HashKeepsResult ==
  ASSUME NEW file, file # <<>>, Artifact(file[1])
  PROVE  HashOf(file)[1].result = file[1].result
<1> DEFINE a == file[1]
<1> DEFINE v == IF a.fp = <<>> THEN 0 ELSE a.fp[1].rev
<1> DEFINE h == [a EXCEPT !.fp = v]
<1>1. HashOf(file) = <<h>>
  BY DEF HashOf
<1> HIDE DEF a, v
<1>2. h.result = a.result
  BY DEF Artifact, a
<1> HIDE DEF h
<1> QED
  BY <1>1, <1>2 DEF a

(* What the attempt in hand was given: the material and the files of the   *)
(* stages before, which are complete.                                      *)
LEMMA HandInputs ==
  ASSUME PInv, RunInv, pc \in Executions
  PROVE  /\ Stage \in StageIds /\ Artifact(cur.art[1])
         /\ cur.art[1].fp[1].mat \in Versions
         /\ cur.art[1].fp[1].up = [i \in 1..(At(Stage) - 1) |-> HashOf(art[Stages[i]])]
         /\ \A s \in Before(Stage) : /\ art[s] # <<>> /\ art[s][1].result # <<>>
                                     /\ HashOf(art[s])[1].result = art[s][1].result
                                     /\ FromInputs(s, art[s][1], material)
                                     /\ ValidateBusiness(s, art[s][1], art, Altered)
                                     /\ Fits(art[s][1].fp, s, mem[s].rev, art, Versions)
<1>1. todo # <<>> /\ Stage \in StageIds
  BY AtStage DEF PInv, AtWork, Inside
<1>2. Artifact(cur.art[1]) /\ Fits(cur.art[1].fp, Stage, mem[Stage].rev, art, Versions)
  BY DEF RunInv, InHand, Inside
<1> DEFINE fp == cur.art[1].fp
<1> DEFINE up == [i \in 1..(At(Stage) - 1) |-> HashOf(art[Stages[i]])]
<1>3. fp[1].mat \in Versions /\ fp[1].up = up
  <2>1. /\ fp = <<[mat |-> fp[1].mat, up |-> up, rev |-> mem[Stage].rev, lib |-> fp[1].lib]>>
        /\ fp[1].mat \in Versions
    BY <1>2 DEF Fits
  <2> HIDE DEF fp, up
  <2> QED
    BY <2>1
<1>4. ASSUME NEW s \in Before(Stage)
      PROVE  /\ art[s] # <<>> /\ art[s][1].result # <<>>
             /\ HashOf(art[s])[1].result = art[s][1].result
             /\ FromInputs(s, art[s][1], material)
             /\ ValidateBusiness(s, art[s][1], art, Altered)
             /\ Fits(art[s][1].fp, s, mem[s].rev, art, Versions)
  <2>1. s \in StageIds
    BY <1>1, BeforeIs
  <2>2. GoodIn(mem[s], s, art, Versions, Altered)
    BY <1>1 DEF RunInv, Passed, Good, Running, Inside
  <2>3. /\ art[s] # <<>> /\ ValidateBusiness(s, art[s][1], art, Altered)
        /\ Fits(art[s][1].fp, s, mem[s].rev, art, Versions)
    BY <2>2 DEF GoodIn
  <2>4. Artifact(art[s][1]) /\ FromInputs(s, art[s][1], material)
    BY <2>1, <2>3 DEF RunInv, Files
  <2>5. art[s][1].result # <<>>
    BY <2>3 DEF ValidateBusiness
  <2>6. HashOf(art[s])[1].result = art[s][1].result
    BY <2>3, <2>4, HashKeepsResult
  <2> QED
    BY <2>3, <2>4, <2>5, <2>6
<1> QED
  BY <1>1, <1>2, <1>3, <1>4

(* The places of the stages that read a diagnosis or a score.              *)
LEMMA Readers ==
  /\ "diagnose" \in Before("confidence")
  /\ {"diagnose", "confidence"} \subseteq Before("report")
  /\ {"diagnose", "confidence"} \subseteq Before("promote")
  /\ At("confidence") - 1 = 4 /\ At("report") - 1 = 6
  /\ Stages[4] = "diagnose" /\ Stages[5] = "confidence"
<1>1. {"diagnose", "confidence", "promote", "report"} \subseteq StageIds
  BY StageFacts
<1>2. At("diagnose") = 4 /\ At("confidence") = 5 /\ At("report") = 7
  BY StageFacts
<1>3. At("promote") = 6
  <2>1. Stages[6] = "promote"
    BY DEF Stages
  <2> QED
    BY <2>1, StageFacts
<1>4. ASSUME NEW s \in StageIds, NEW t \in StageIds, At(s) < At(t) PROVE s \in Before(t)
  BY <1>4, BeforeIs
<1>5. /\ At("diagnose") < At("confidence")
      /\ At("diagnose") < At("report") /\ At("confidence") < At("report")
      /\ At("diagnose") < At("promote") /\ At("confidence") < At("promote")
  BY <1>2, <1>3
<1> QED
  BY <1>1, <1>2, <1>4, <1>5, StageFacts

(* The lines that are read are those kept and those folded.                *)
LEMMA CleanCounts ==
  ASSUME NEW m \in DOMAIN Material
  PROVE  CleanResult(Material[m]).read = CleanResult(Material[m]).kept + CleanResult(Material[m]).folded
<1> DEFINE files == Material[m]
<1> DEFINE logs == {f \in DOMAIN files : files[f].suffix = "text"}
<1> DEFINE ofFile == {{f} \X DOMAIN files[f].lines : f \in logs}
<1> DEFINE lines == UNION ofFile
<1> DEFINE folded == {l \in lines : l[2] \in Folded(files[l[1]])}
<1>1. IsFiniteSet(DOMAIN files) /\ \A f \in DOMAIN files : IsFiniteSet(DOMAIN files[f].lines)
  BY MaterialAssumption
<1>2. IsFiniteSet(logs)
  BY <1>1, FS_Subset
<1>3. IsFiniteSet(ofFile)
  <2> DEFINE g == [f \in logs |-> {f} \X DOMAIN files[f].lines]
  <2>1. g \in Surjection(logs, ofFile)
    BY DEF Surjection
  <2> HIDE DEF g, logs, ofFile
  <2> QED
    BY <1>2, <2>1, FS_Surjection
<1>4. \A t \in ofFile : IsFiniteSet(t)
  <2> SUFFICES ASSUME NEW f \in logs PROVE IsFiniteSet({f} \X DOMAIN files[f].lines)
    OBVIOUS
  <2>1. IsFiniteSet({f}) /\ IsFiniteSet(DOMAIN files[f].lines)
    BY <1>1, FS_Singleton
  <2> QED
    BY <2>1, FS_Product
<1>5. IsFiniteSet(lines)
  <2> HIDE DEF ofFile
  <2> QED
    BY <1>3, <1>4, FS_UNION
<1>6. /\ CleanResult(files).read = Cardinality(lines)
      /\ CleanResult(files).folded = Cardinality(folded)
      /\ CleanResult(files).kept = Cardinality(lines \ folded)
  BY DEF CleanResult
<1>7. folded \subseteq lines
  OBVIOUS
<1> HIDE DEF lines, folded
<1>8. lines \cap folded = folded
  BY <1>7
<1>9. Cardinality(lines \ folded) = Cardinality(lines) - Cardinality(folded)
  BY <1>5, <1>8, FS_Difference
<1>10. Cardinality(lines) \in Nat /\ Cardinality(folded) \in Nat
  BY <1>5, <1>7, FS_Subset, FS_CardinalityType
<1> QED
  BY <1>6, <1>9, <1>10

(* A complete artifact of a stage with no contract but to be there.        *)
LEMMA PlainIsValid ==
  ASSUME NEW s, NEW a, s \notin {"clean", "diagnose", "report"},
         a.status \in Done, a.status = "skipped" => s = "promote",
         a.result # <<>>, a.sides = {}
  PROVE  ValidateBusiness(s, a, art, Altered)
BY DEF ValidateBusiness

(* The end of a stage with neither a diagnosis nor a score in it.          *)
LEMMA RunDelivers ==
  ASSUME PInv, RunInv, pc \in Executions, NEW status \in Done, NEW result,
         Stage \in {"case_lookup", "detect", "promote"},
         status = "skipped" => Stage = "promote",
         UNCHANGED <<material, steady, art, work, tampered, mem, todo, only, exit>>,
         Outcome(status, <<result>>, {}, "go")
  PROVE  RunInv'
<1> DEFINE a == Ended(cur.art[1], status, <<result>>, {})
<1>1. a.status = status /\ a.result = <<result>> /\ a.sides = {}
  BY HandInputs, EndedIs
<1> HIDE DEF a
<1>2. FromInputs(Stage, a, material)
  BY DEF FromInputs
<1>3. ValidateBusiness(Stage, a, art, Altered)
  BY <1>1, PlainIsValid
<1> QED
  BY <1>2, <1>3, RunEnds DEF a

(* The cleaning delivers consistent counts and outputs of its own.         *)
LEMMA RunCleans == ASSUME PInv, RunInv, ExecuteClean PROVE RunInv'
<1> DEFINE r == CleanResult(Material[material])
<1> DEFINE sides == IF r.applicable THEN {<<"clean", cur.art[1].attempt>>} ELSE {}
<1>1. /\ pc = "execute" /\ Stage = "clean" /\ Outcome("success", <<r>>, sides, "go")
      /\ UNCHANGED <<material, steady, art, work, tampered, mem, todo, only, exit>>
  BY DEF ExecuteClean, Executing, Untouched, disk, history
<1>2. r.read = r.kept + r.folded
  BY CleanCounts DEF RunInv, InHand
<1>3. r.applicable => sides # {}
  OBVIOUS
<1>4. sides \cap Altered = {}
  BY <1>1, VersionNow DEF RunInv, InHand, Executions
<1> DEFINE a == Ended(cur.art[1], "success", <<r>>, sides)
<1> HIDE DEF r, sides
<1>5. a.status = "success" /\ a.result = <<r>> /\ a.sides = sides
  BY <1>1, HandInputs, EndedIs DEF Executions
<1> HIDE DEF a
<1>6. FromInputs(Stage, a, material)
  BY <1>1 DEF FromInputs
<1>7. ValidateBusiness(Stage, a, art, Altered)
  BY <1>1, <1>2, <1>3, <1>4, <1>5 DEF ValidateBusiness, Done
<1> QED
  BY <1>1, <1>6, <1>7, RunEnds DEF a, Executions

(* A draft is a diagnosis of the material there is.                        *)
LEMMA DraftIs ==
  ASSUME NEW p, NEW scenario, NEW lookup, NEW trace, NEW m
  PROVE  LET d == DraftDiagnosis(p, scenario, lookup, trace, m)
         IN  /\ Diagnosis(d) /\ d.material = m
             /\ p.evidenceOnly => d.analysis = "evidence_only"
BY DEF DraftDiagnosis, Diagnosis

(* The draft: complete only where no judgement was asked for.              *)
LEMMA RunDiagnoses == ASSUME PInv, RunInv, ExecuteDiagnose PROVE RunInv'
<1>1. /\ pc = "execute" /\ Stage = "diagnose"
      /\ UNCHANGED <<material, steady, art, work, tampered, mem, todo, only, exit>>
  BY DEF ExecuteDiagnose, Executing, Untouched, disk, history
<1> DEFINE status == IF plan.evidenceOnly THEN "success" ELSE "blocked"
<1>2. PICK d : /\ Outcome(status, <<d>>, {}, "go")
               /\ Diagnosis(d) /\ d.material = material
               /\ plan.evidenceOnly => d.analysis = "evidence_only"
  BY DraftIs DEF ExecuteDiagnose
<1> DEFINE a == Ended(cur.art[1], status, <<d>>, {})
<1>3. a.status = status /\ a.result = <<d>> /\ a.sides = {} /\ a.fp[1].mat \in Versions
  BY <1>1, HandInputs, EndedIs DEF Executions
<1> HIDE DEF a
<1>6. Dated(material, a.fp[1].mat, material)
  <2>1. a.fp[1].mat = material \/ a.fp[1].mat \in 1 .. material
    BY <1>3 DEF Versions
  <2> QED
    BY <2>1, VersionNow DEF Dated, RunInv, InHand
<1>4. FromInputs(Stage, a, material)
  BY <1>1, <1>2, <1>3, <1>6 DEF FromInputs
<1>5. status \in Done => ValidateBusiness(Stage, a, art, Altered)
  BY <1>1, <1>2, <1>3 DEF ValidateBusiness, Done, Analysed
<1> HIDE DEF status
<1> QED
  BY <1>1, <1>2, <1>4, <1>5, RunEnds DEF a, Executions

(* The score is that of the diagnosis there is.                            *)
LEMMA RunScores == ASSUME PInv, RunInv, ExecuteConfidence PROVE RunInv'
<1> DEFINE r == Score(Result("diagnose").met)
<1>1. /\ pc = "execute" /\ Stage = "confidence" /\ Outcome("success", <<r>>, {}, "go")
      /\ UNCHANGED <<material, steady, art, work, tampered, mem, todo, only, exit>>
  BY DEF ExecuteConfidence, Executing, Deliver, Untouched, disk, history
<1> DEFINE a == Ended(cur.art[1], "success", <<r>>, {})
<1>2. /\ a.status = "success" /\ a.result = <<r>> /\ a.sides = {}
      /\ a.fp = cur.art[1].fp
  BY <1>1, HandInputs, EndedIs DEF Executions
<1>3. cur.art[1].fp[1].up[4] = HashOf(art["diagnose"])
  BY <1>1, HandInputs, Readers DEF Executions
<1>4. HashOf(art["diagnose"])[1].result = art["diagnose"][1].result
  BY <1>1, HandInputs, Readers DEF Executions
<1>5. ScoreFrom(cur.art[1].fp) = r
  BY <1>3, <1>4 DEF Result, ScoreFrom
<1> HIDE DEF a, r
<1>6. FromInputs(Stage, a, material)
  BY <1>1, <1>2, <1>5 DEF FromInputs
<1>7. ValidateBusiness(Stage, a, art, Altered)
  <2>1. a.status \in Done /\ a.status # "skipped" /\ a.result # <<>> /\ a.sides = {}
    BY <1>2 DEF Done
  <2>2. Stage \notin {"clean", "diagnose", "report"}
    BY <1>1
  <2> QED
    BY <2>1, <2>2, PlainIsValid
<1> QED
  BY <1>1, <1>6, <1>7, RunEnds DEF a, Executions

(* What a report repeats.                                                  *)
LEMMA ReportIs ==
  ASSUME NEW d, NEW c
  PROVE  ReportResult(d, c).conf = c /\ ReportResult(d, c).material = d.material
<1> DEFINE causes == Causes(Page(d, c))  calls == Calls(Page(d, c))
<1>1. ReportResult(d, c) = [conf |-> c, first |-> d.first, limits |-> d.gaps,
                            material |-> d.material, causes |-> causes, calls |-> calls]
  BY DEF ReportResult
<1> HIDE DEF causes, calls
<1> QED
  BY <1>1

(* The report is that of the diagnosis and the score there are.            *)
LEMMA RunReports == ASSUME PInv, RunInv, ExecuteReport PROVE RunInv'
<1> DEFINE r == ReportResult(Result("diagnose"), Result("confidence"))
<1>1. /\ pc = "execute" /\ Stage = "report"
      /\ UNCHANGED <<material, steady, art, work, tampered, mem, todo, only, exit>>
  BY DEF ExecuteReport, Executing, Untouched, disk, history
<1>2. \/ Outcome("success", <<r>>, {}, "go")
      \/ Outcome("failed", cur.art[1].result, {}, "permanent")
  BY DEF ExecuteReport, Deliver, Fail
<1> DEFINE a == Ended(cur.art[1], "success", <<r>>, {})
<1>3. /\ a.status = "success" /\ a.result = <<r>> /\ a.sides = {}
      /\ a.fp = cur.art[1].fp
  BY <1>1, HandInputs, EndedIs DEF Executions
<1>4. /\ cur.art[1].fp[1].up[4] = HashOf(art["diagnose"])
      /\ cur.art[1].fp[1].up[5] = HashOf(art["confidence"])
  BY <1>1, HandInputs, Readers DEF Executions
<1>5. /\ HashOf(art["diagnose"])[1].result = art["diagnose"][1].result
      /\ HashOf(art["confidence"])[1].result = art["confidence"][1].result
      /\ art["confidence"] # <<>> /\ art["confidence"][1].result # <<>>
      /\ FromInputs("confidence", art["confidence"][1], material)
  BY <1>1, HandInputs, Readers DEF Executions
<1>6. ReportFrom(cur.art[1].fp) = r
  BY <1>4, <1>5 DEF Result, ReportFrom
<1>7. r.conf = Result("confidence")
  BY ReportIs
<1>8. art["confidence"][1].result = <<Result("confidence")>>
  <2>1. \E x : art["confidence"][1].result = <<x>>
    BY <1>5 DEF FromInputs
  <2> QED
    BY <2>1 DEF Result
<1> HIDE DEF a, r
<1>9. FromInputs(Stage, a, material)
  BY <1>1, <1>3, <1>6 DEF FromInputs
<1>10. ValidateBusiness(Stage, a, art, Altered)
  BY <1>1, <1>3, <1>5, <1>7, <1>8 DEF ValidateBusiness, Done
<1> QED
  BY <1>1, <1>2, <1>9, <1>10, RunEnds, RunStops DEF a, Executions

(* Executing a stage leaves what its inputs give.                          *)
LEMMA RunExecutes ==
  ASSUME PInv, RunInv,
         \/ ExecuteManual \/ \E class \in {"transient", "permanent", "interrupted"} : ExecuteFails(class)
         \/ ExecuteLookup \/ ExecuteDetect \/ ExecuteClean \/ ExecuteDiagnose \/ ExecuteConfidence
         \/ ExecuteReport
  PROVE  RunInv'
<1>1. CASE ExecuteManual
  <2>1. /\ pc \in Executions /\ Outcome("blocked", cur.art[1].result, {}, "go")
        /\ UNCHANGED <<material, steady, art, work, tampered, mem, todo, only, exit>>
    BY <1>1 DEF ExecuteManual, Wait, Untouched, disk, history, Executions
  <2> QED
    BY <2>1, RunStops
<1>2. ASSUME NEW class, ExecuteFails(class) PROVE RunInv'
  <2>1. /\ pc \in Executions /\ Outcome("failed", cur.art[1].result, {}, class)
        /\ UNCHANGED <<material, steady, art, work, tampered, mem, todo, only, exit>>
    BY <1>2 DEF ExecuteFails, Fail, Untouched, disk, history, Executions
  <2> QED
    BY <2>1, RunStops
<1>3. CASE ExecuteLookup
  <2>1. /\ pc \in Executions /\ Stage = "case_lookup"
        /\ \E r : Outcome("success", <<r>>, {}, "go")
        /\ UNCHANGED <<material, steady, art, work, tampered, mem, todo, only, exit>>
    BY <1>3 DEF ExecuteLookup, Executing, Deliver, Untouched, disk, history, Executions
  <2> QED
    BY <2>1, RunDelivers DEF Done
<1>4. CASE ExecuteDetect
  <2>1. /\ pc \in Executions /\ Stage = "detect"
        /\ \/ \E r : Outcome("success", <<r>>, {}, "go")
           \/ Outcome("failed", cur.art[1].result, {}, "permanent")
        /\ UNCHANGED <<material, steady, art, work, tampered, mem, todo, only, exit>>
    BY <1>4 DEF ExecuteDetect, Executing, Deliver, Fail, Untouched, disk, history, Executions
  <2>2. ASSUME NEW r, Outcome("success", <<r>>, {}, "go") PROVE RunInv'
    BY <2>1, <2>2, RunDelivers DEF Done
  <2>3. ASSUME Outcome("failed", cur.art[1].result, {}, "permanent") PROVE RunInv'
    BY <2>1, <2>3, RunStops
  <2> QED
    BY <2>1, <2>2, <2>3
<1> QED
  BY <1>1, <1>2, <1>3, <1>4, RunCleans, RunDiagnoses, RunScores, RunReports

(* A publication ends as a delivered decision, or waits.                   *)
LEMMA RunPromotes ==
  ASSUME PInv, RunInv, LibInv,
         \/ PromoteNothing \/ PromoteNowhere \/ PromoteLock \/ PromoteAgain \/ PromoteCopy
         \/ PromotePrepare \/ PromoteCheck \/ PromoteCommit \/ PromoteMark
  PROVE  RunInv'
<1> DEFINE Same == UNCHANGED <<material, steady, art, work, tampered, mem, todo, only, exit>>
<1> DEFINE Ends == \E status \in Done : \E r : Outcome(status, <<r>>, {}, "go")
<1> DEFINE Stops == \E status \in {"blocked", "failed"} : \E then :
                      Outcome(status, cur.art[1].result, {}, then)
<1>1. ASSUME Same, pc \in Executions, Stage = "promote", Ends \/ Stops PROVE RunInv'
  <2>1. CASE Ends
    BY <1>1, <2>1, RunDelivers
  <2>2. CASE Stops
    BY <1>1, <2>2, RunStops
  <2> QED
    BY <1>1, <2>1, <2>2
<1>2. ASSUME Same, pc \in Executions, pc' \in Executions \ {"execute"}, cur'.art = cur.art PROVE RunInv'
  BY <1>2, RunInside
<1>3. pc \in Publication => Stage = "promote"
  BY DEF LibInv, Reserved
<1>4. CASE PromoteNothing \/ PromoteNowhere
  <2>1. Same /\ pc \in Executions /\ Stage = "promote"
    BY <1>4 DEF PromoteNothing, PromoteNowhere, Publishes, Executing, Untouched, disk, history, Executions
  <2>2. Ends \/ Stops
    BY <1>4 DEF PromoteNothing, PromoteNowhere, Wait, Done
  <2> QED
    BY <1>1, <2>1, <2>2
<1>5. CASE PromoteLock
  <2>1. Same /\ pc \in Executions /\ Stage = "promote"
    BY <1>5 DEF PromoteLock, Publishes, Executing, Executions, history
  <2>2. (pc' = "publish" /\ cur' = cur) \/ Stops
    BY <1>5 DEF PromoteLock, Fail
  <2> QED
    BY <1>1, <1>2, <2>1, <2>2 DEF Executions
<1>6. CASE PromoteAgain
  <2>1. Same /\ pc \in Executions /\ Stage = "promote"
    BY <1>3, <1>6 DEF PromoteAgain, Executions, Publication, history
  <2>2. Ends \/ Stops
    BY <1>6 DEF PromoteAgain, Wait, Done
  <2> QED
    BY <1>1, <2>1, <2>2
<1>7. CASE PromotePrepare
  <2>1. Same /\ pc \in Executions /\ Stage = "promote"
    BY <1>3, <1>7 DEF PromotePrepare, Executions, Publication, history
  <2>2. (pc' = "prepared" /\ cur'.art = cur.art) \/ Stops
    <3>1. \/ pc' = "prepared" /\ \E library : cur' = [cur EXCEPT !.lib = library]
          \/ Stops
      BY <1>7 DEF PromotePrepare, Wait
    <3> QED
      BY <3>1 DEF PInv, Types
  <2> QED
    BY <1>1, <1>2, <2>1, <2>2 DEF Executions
<1>8. CASE PromoteCheck
  <2>1. Same /\ pc \in Executions /\ Stage = "promote"
    BY <1>3, <1>8 DEF PromoteCheck, Executions, Publication, history
  <2>2. (pc' = "checked" /\ cur' = cur) \/ Stops
    BY <1>8 DEF PromoteCheck, Wait
  <2> QED
    BY <1>1, <1>2, <2>1, <2>2 DEF Executions
<1>9. CASE PromoteCommit
  <2>1. Same /\ pc \in Executions /\ pc' \in Executions \ {"execute"} /\ cur' = cur
    BY <1>9 DEF PromoteCommit, Executions, history
  <2> QED
    BY <1>2, <2>1
<1>10. CASE PromoteMark
  <2>1. Same /\ pc \in Executions /\ Stage = "promote"
    BY <1>3, <1>10 DEF PromoteMark, Executions, Publication, history
  <2>2. Ends
    BY <1>10 DEF PromoteMark, Done
  <2> QED
    BY <1>1, <2>1, <2>2
<1>11. CASE PromoteCopy
  <2>1. Same /\ pc \in Executions /\ pc' \in Executions \ {"execute"}
    BY <1>11 DEF PromoteCopy, history, Executions
  <2>2. cur'.art = cur.art
    BY <1>11 DEF PromoteCopy, PInv, Types
  <2> QED
    BY <1>2, <2>1, <2>2
<1> QED
  BY <1>4, <1>5, <1>6, <1>7, <1>8, <1>9, <1>10, <1>11

(* An agent's review keeps a diagnosis one of the same material.           *)
LEMMA ReviewedIs ==
  ASSUME NEW d, Diagnosis(d), NEW careless
  PROVE  Diagnosis(Reviewed(d, careless)) /\ Reviewed(d, careless).material = d.material
<1> DEFINE e == Reviewed(d, careless)
<1> DEFINE analysis == IF careless THEN "draft" ELSE "reviewed"
<1> DEFINE timeline == Judged(d.timeline, plan.role)
<1> DEFINE advice == IF plan.advice = <<>> THEN d.advice ELSE plan.advice
<1>1. e = [d EXCEPT !.analysis = analysis, !.met = plan.met, !.timeline = timeline,
                    !.advice = advice]
  BY DEF Reviewed
<1> HIDE DEF e, analysis, timeline, advice
<1>2. e = [analysis |-> analysis, first |-> d.first, met |-> plan.met, material |-> d.material,
           timeline |-> timeline, trace |-> d.trace, advice |-> advice, gaps |-> d.gaps]
  BY <1>1 DEF Diagnosis
<1>3. Diagnosis(e) /\ e.material = d.material
  BY <1>2 DEF Diagnosis
<1> QED
  BY <1>3 DEF e

(* An agent completes an artifact that waits for it.                       *)
LEMMA RunCompletes ==
  ASSUME PInv, RunInv, NEW s \in StageIds, art[s] # <<>>, NEW result, NEW sides,
         art' = [art EXCEPT ![s] = <<Completed(art[s][1], result, sides)>>],
         s \in {"clean", "diagnose"},
         s = "diagnose" => Diagnosis(result) /\ Dated(result.material, art[s][1].fp[1].mat, material),
         UNCHANGED <<work, tampered, material>>, pc' = "idle", exit' = "none"
  PROVE  RunInv'
<1> DEFINE a == art[s][1]
<1> DEFINE b == Completed(a, result, sides)
<1>1. Artifact(a) /\ art = [t \in StageIds |-> art[t]] /\ Files
  BY DEF RunInv, Files, PInv, Types
<1>2. art' = [art EXCEPT ![s] = <<b>>]
  OBVIOUS
<1>3. b = Ended(a, "success", <<result>>, sides)
  BY DEF Ended, Completed
<1>4. s = "diagnose" => Diagnosis(result) /\ Dated(result.material, a.fp[1].mat, material)
  OBVIOUS
<1> HIDE DEF a, b
<1>5. Artifact(b) /\ b.result = <<result>> /\ b.fp = a.fp
  BY <1>1, <1>3, EndedIs
<1>6. FromInputs(s, b, material)
  BY <1>4, <1>5 DEF FromInputs
<1>7. art'[s] = <<b>> /\ \A t \in StageIds \ {s} : art'[t] = art[t]
  BY <1>1, <1>2
<1>8. Files'
  BY <1>1, <1>5, <1>6, <1>7 DEF Files
<1>9. tampered' \subseteq work' /\ material' \in DOMAIN Material
  BY DEF RunInv, InHand
<1> QED
  BY <1>8, <1>9, RunResting

(* The agent reviews a diagnosis.                                          *)
LEMMA RunReviews ==
  ASSUME PInv, RunInv, NEW careless \in BOOLEAN, AgentReviews(careless)
  PROVE  RunInv'
<1> DEFINE a == art["diagnose"][1]
<1> DEFINE e == Reviewed(a.result[1], careless)
<1>1. /\ art["diagnose"] # <<>> /\ a.result # <<>>
      /\ art' = [art EXCEPT !["diagnose"] = <<Completed(a, e, a.sides)>>]
      /\ UNCHANGED <<work, tampered, material>>
  BY DEF AgentReviews
<1>2. pc' = "idle" /\ exit' = "none"
  BY DEF AgentReviews, Outside, Change, Idle
<1>3. "diagnose" \in StageIds
  BY StageFacts
<1>4. Diagnosis(e) /\ Dated(e.material, a.fp[1].mat, material)
  <2>1. FromInputs("diagnose", a, material)
    BY <1>1, <1>3 DEF RunInv, Files
  <2>2. Diagnosis(a.result[1]) /\ Dated(a.result[1].material, a.fp[1].mat, material)
    BY <1>1, <2>1 DEF FromInputs
  <2> QED
    BY <2>2, ReviewedIs
<1> HIDE DEF e
<1> QED
  BY <1>1, <1>2, <1>3, <1>4, RunCompletes

(* The agent cleans.                                                       *)
LEMMA RunAgentCleans == ASSUME PInv, RunInv, AgentCleans PROVE RunInv'
<1> DEFINE a == art["clean"][1]
<1> DEFINE r == CleanResult(Material[material])
<1>1. /\ art["clean"] # <<>>
      /\ art' = [art EXCEPT !["clean"] = <<Completed(a, r, {<<"clean", a.attempt>>})>>]
      /\ UNCHANGED <<work, tampered, material>>
  BY DEF AgentCleans
<1>2. pc' = "idle" /\ exit' = "none"
  BY DEF AgentCleans, Outside, Change, Idle
<1>3. "clean" \in StageIds
  BY StageFacts
<1> HIDE DEF r
<1> QED
  BY <1>1, <1>2, <1>3, RunCompletes

(* Steps that touch neither the run nor its files; exit may be forgotten.  *)
LEMMA RunBystander ==
  ASSUME PInv, RunInv,
         UNCHANGED <<material, steady, saved, art, work, tampered, pc, mem, todo, cur, only>>,
         exit' \in {exit, "none"}
  PROVE  RunInv'
<1>1. Versions' = Versions /\ Altered' = Altered
  BY Unaltered
<1>2. Passed'
  BY <1>1 DEF RunInv, Passed, Good, Stage
<1>3. InHand'
  BY <1>1 DEF RunInv, InHand, Stage
<1> QED
  BY <1>2, <1>3, FilesKept DEF RunInv

(* The material or an output changes, whoever is at work: what a run has   *)
(* passed was made of one of the versions up to now.                       *)
LEMMA RunDisturbed ==
  ASSUME PInv, RunInv, steady' = FALSE, exit' = "none", tampered' \subseteq work,
         material' \in DOMAIN Material, material <= material',
         UNCHANGED <<art, work, pc, mem, todo, cur, only>>,
         pc = "execute" => <<Stage, cur.art[1].attempt>> \notin tampered'
  PROVE  RunInv'
<1>1. material \in Nat /\ material' \in Nat
  BY MaterialAssumption DEF RunInv, InHand
<1>2. Versions \subseteq Versions' /\ Altered' \subseteq Altered
  <2>1. material \in 1 .. material' /\ 1 .. material \subseteq 1 .. material'
    BY <1>1, MaterialAssumption DEF RunInv, InHand
  <2> QED
    BY <2>1 DEF Versions, Altered
<1>3. ASSUME NEW s, NEW a, FromInputs(s, a, material) PROVE FromInputs(s, a, material')
  <2>1. 1 .. (material - 1) \subseteq 1 .. (material' - 1)
    BY <1>1
  <2> QED
    BY <1>3, <2>1 DEF FromInputs, Dated
<1>4. Files'
  BY <1>3 DEF RunInv, Files
<1>5. ASSUME NEW t, Good(mem, t) PROVE Good(mem, t)'
  BY <1>2, <1>5, GoodWithMore DEF Good
<1>6. Stage' = Stage
  BY DEF Stage
<1>7. Passed'
  BY <1>5, <1>6 DEF RunInv, Passed
<1>8. InHand'
  <2>1. pc \in Inside => /\ FromInputs(Stage, cur.art[1], material')
                         /\ Fits(cur.art[1].fp, Stage, mem[Stage].rev, art, Versions')
    BY <1>2, <1>3, FitsMore DEF RunInv, InHand
  <2>2. pc \in {"write", "save"} /\ cur.art[1].status \in Done =>
          ValidateBusiness(Stage, cur.art[1], art, Altered')
    BY <1>2, ValidWithFewer DEF RunInv, InHand
  <2> QED
    BY <1>6, <2>1, <2>2 DEF RunInv, InHand
<1> QED
  BY <1>4, <1>7, <1>8 DEF RunInv

(* What others do, at any time.                                            *)
LEMMA RunOthers ==
  ASSUME PInv, RunInv,
         MaterialChanges \/ OutputChanges \/ CuratorAdds \/ CuratorConfirms \/ ClearLibraryLock
  PROVE  RunInv'
<1>1. UNCHANGED <<saved, art, work, pc, mem, todo, cur, only>> /\ exit' = "none"
  BY DEF MaterialChanges, OutputChanges, CuratorAdds, CuratorConfirms, LibraryChanges,
     ClearLibraryLock, Outside, Change
<1>2. tampered \subseteq work /\ material \in DOMAIN Material
  BY DEF RunInv, InHand
<1>3. CASE MaterialChanges
  <2>1. material < Len(Material) /\ material' = material + 1 /\ tampered' = tampered /\ steady' = FALSE
    BY <1>3 DEF MaterialChanges
  <2>2. material' \in DOMAIN Material /\ material <= material'
    BY <1>2, <2>1, MaterialAssumption
  <2> QED
    BY <1>1, <1>2, <2>1, <2>2, RunDisturbed DEF RunInv, InHand
<1>4. CASE OutputChanges
  <2>1. PICK w \in work : /\ pc = "execute" => w # <<Stage, cur.art[1].attempt>>
                          /\ tampered' = tampered \cup {w}
    BY <1>4 DEF OutputChanges
  <2>2. material' = material /\ steady' = FALSE /\ material <= material'
    BY <1>2, <1>4, MaterialAssumption DEF OutputChanges
  <2>3. pc = "execute" => <<Stage, cur.art[1].attempt>> \notin tampered'
    BY <2>1 DEF RunInv, InHand
  <2> QED
    BY <1>1, <1>2, <2>1, <2>2, <2>3, RunDisturbed
<1>5. CASE CuratorAdds \/ CuratorConfirms \/ ClearLibraryLock
  <2>1. UNCHANGED <<tampered, material, steady>>
    BY <1>5 DEF CuratorAdds, CuratorConfirms, LibraryChanges, ClearLibraryLock, Outside, history
  <2> QED
    BY <1>1, <2>1, RunBystander
<1> QED
  BY <1>3, <1>4, <1>5

(* Every step keeps RunInv.                                                *)
LEMMA RunStep ==
  ASSUME PInv, RunInv, LibInv, [PipelineNext]_pipelineVars
  PROVE  RunInv'
<1>1. ASSUME NEW force \in BOOLEAN, Launch(force) PROVE RunInv'
  <2>1. /\ UNCHANGED <<art, work, tampered, material>>
        /\ pc' \in {"idle", "locked"} /\ exit' # "done" /\ (pc' = "locked" => exit' = "none")
    BY <1>1 DEF Launch
  <2> QED
    BY <2>1, RunAtRest
<1>2. CASE Crash \/ StayBlocked
  <2>1. /\ UNCHANGED <<art, work, tampered, material>>
        /\ pc' = "idle" /\ exit' # "done"
    BY <1>2 DEF Crash, StayBlocked, Stop
  <2> QED
    BY <2>1, RunAtRest
<1>3. CASE UNCHANGED pipelineVars
  <2>1. /\ UNCHANGED <<material, steady, saved, art, work, tampered, pc, mem, todo, cur, only>>
        /\ exit' \in {exit, "none"}
    BY <1>3 DEF pipelineVars, disk, history, process
  <2> QED
    BY <2>1, RunBystander
<1> QED
  BY <1>1, <1>2, <1>3, RunFinish, RunBegin, RunSkip, RunAccept, RunNotes, RunAttempts, RunAnnounces,
     RunWrites, RunSaves, RunExecutes, RunPromotes, RunReviews,
     RunAgentCleans, RunOthers DEF PipelineNext

(* RunInv holds at the start.                                              *)
LEMMA RunInitially == PipelineInit => RunInv
<1> SUFFICES ASSUME PipelineInit PROVE RunInv
  OBVIOUS
<1>1. 1 \in DOMAIN Material
  BY MaterialAssumption
<1>2. Files
  BY DEF PipelineInit, Files
<1> QED
  BY <1>1, <1>2 DEF PipelineInit, RunInv, Passed, InHand, Running, Inside, Executions

-----------------------------------------------------------------------------
(* The case library                                                        *)

(* What the parts of LibInv say of what is published.                      *)
LEMMA LibIsSound == LibInv => PublicationSound
<1> SUFFICES ASSUME LibInv PROVE PublicationSound
  OBVIOUS
<1>1. PublishedOnce
  BY DEF LibInv, OnceEach, Once, Noticed, PublishedOnce
<1>2. PublishedIsReviewed
  BY DEF LibInv, Receipted, Deserved, IsReceipt, PublishedIsReviewed
<1> QED
  BY <1>1, <1>2 DEF PublicationSound

(* No more cases of an operation than where there is one.                  *)
LEMMA OnceFewer ==
  ASSUME NEW l, NEW m, NEW op, Once(l, op),
         \A b \in m.cases : b.op = op => b \in l.cases,
         \A b \in m.pend : b.op = op => b \in l.pend
  PROVE  Once(m, op)
BY DEF Once

(* Adding a case of an operation nobody has published leaves one of each.  *)
LEMMA OnceWithOne ==
  ASSUME NEW l, NEW m, NEW b, NEW op, Once(l, op),
         \/ m.cases = l.cases \cup {b} /\ m.pend = l.pend
         \/ m.pend = l.pend \cup {b} /\ m.cases = l.cases,
         b.op = op => \A c \in l.cases \cup l.pend : c.op # op
  PROVE  Once(m, op)
BY DEF Once

(* The library with other blocks in the target.                            *)
LEMMA SwappedIs ==
  ASSUME Receipted, NEW blocks
  PROVE  /\ Accepts => Swapped(blocks) = [cases |-> blocks, pend |-> lib.pend]
         /\ ~Accepts => Swapped(blocks) = [cases |-> lib.cases, pend |-> blocks]
         /\ Accepts => Target(lib) = lib.cases
         /\ ~Accepts => Target(lib) = lib.pend
<1>1. lib = [cases |-> lib.cases, pend |-> lib.pend]
  BY DEF Receipted
<1>2. CASE Accepts
  <2>1. Swapped(blocks) = [lib EXCEPT !.cases = blocks]
    BY <1>2 DEF Swapped, Accepts, TargetName
  <2> QED
    BY <1>1, <1>2, <2>1 DEF Accepts, TargetName, Target
<1>3. CASE ~Accepts
  <2>1. Swapped(blocks) = [lib EXCEPT !.pend = blocks]
    BY <1>3 DEF Swapped, Accepts, TargetName
  <2> QED
    BY <1>1, <1>3, <2>1 DEF Accepts, TargetName, Target
<1> QED
  BY <1>2, <1>3

(* What the promotion tool adds: one case, to the file of the gate.        *)
LEMMA PromoteAdds ==
  ASSUME NEW l, NEW report, NEW gate, PromoteReport(l, report, gate).code = 0
  PROVE  \E no : /\ PromoteReport(l, report, gate).lib =
                      IF gate = "accept" THEN [l EXCEPT !.cases = l.cases \cup {Block(no, report)}]
                                         ELSE [l EXCEPT !.pend = l.pend \cup {Block(no, report)}]
<1> DEFINE target == IF gate = "accept" THEN l.cases ELSE l.pend
<1> DEFINE no == NextCaseId(target)
<1> DEFINE b == Block(no, report)
<1>1. PromoteReport(l, report, gate).lib =
        IF gate = "accept" THEN [l EXCEPT !.cases = target \cup {b}]
                           ELSE [l EXCEPT !.pend = target \cup {b}]
  <2> HIDE DEF b
  <2> QED
    BY DEF PromoteReport, b
<1> HIDE DEF no
<1> QED
  BY <1>1

(* A new case is a case.                                                   *)
LEMMA BlockIs ==
  ASSUME NEW no, NEW report
  PROVE  IsBlock(Block(no, report)) /\ Block(no, report).op = report.op /\ Block(no, report).from = <<>>
BY DEF IsBlock, Block

(* An operation is a pair, those of others are none.                       *)
LEMMA OperationIs == ThisOperation = <<Result("diagnose"), ThisScore.gate>> /\ ThisOperation # <<>>
BY DEF ThisOperation, Operation

(* A step that leaves the library and the receipts and is in no            *)
(* publication keeps LibInv.                                               *)
LEMMA LibQuiet ==
  ASSUME LibInv, UNCHANGED <<lib, receipts, unseen>>, pc' \notin Publication
  PROVE  LibInv'
<1>1. Receipted'
  BY DEF LibInv, Receipted, Genuine, Blocks
<1>2. Reserved'
  BY DEF Reserved, Publication
<1>3. OnceEach'
  BY DEF LibInv, OnceEach, Noticed
<1> QED
  BY <1>1, <1>2, <1>3 DEF LibInv

(* A publication takes the lock of the library.                            *)
LEMMA LibLocks == ASSUME PInv, LibInv, PromoteLock PROVE LibInv'
<1>1. /\ UNCHANGED <<lib, receipts, unseen, art, todo>> /\ pc' \in {"publish", "write"}
      /\ Stage = "promote" /\ ThisScore.gate # "reject" /\ todo # <<>>
  BY DEF PromoteLock, history, Publishes, Executing, Fail, Outcome, PInv, AtWork, Inside, Executions
<1>2. Receipted'
  BY <1>1 DEF LibInv, Receipted, Genuine, Blocks
<1>3. Reserved'
  BY <1>1 DEF Reserved, Publication, Stage, ThisScore, Result
<1>4. OnceEach'
  BY <1>1 DEF LibInv, OnceEach, Noticed
<1> QED
  BY <1>2, <1>3, <1>4 DEF LibInv

(* A receipt that is marked keeps its operation.                           *)
LEMMA LibMarks ==
  ASSUME LibInv, receipts' \in {receipts, Marked}, UNCHANGED <<lib, unseen>>, pc' \notin Publication
  PROVE  LibInv'
<1> DEFINE mark(r) == IF r.op = ThisOperation THEN [r EXCEPT !.status = "committed"] ELSE r
<1>2. ASSUME NEW q \in receipts' PROVE IsReceipt(q) /\ \E r \in receipts : q.op = r.op
  <2>1. \A r \in receipts : IsReceipt(r)
    BY DEF LibInv, Receipted
  <2>2. q \in receipts \/ \E r \in receipts : q = mark(r)
    BY <1>2 DEF Marked
  <2>3. ASSUME NEW r \in receipts PROVE IsReceipt(mark(r)) /\ mark(r).op = r.op
    <3>1. CASE r.op = ThisOperation
      BY <2>1, <3>1 DEF IsReceipt
    <3>2. CASE r.op # ThisOperation
      BY <2>1, <3>2
    <3> QED
      BY <3>1, <3>2
  <2> HIDE DEF mark
  <2> QED
    BY <2>1, <2>2, <2>3
<1>3. ASSUME NEW r \in receipts PROVE \E q \in receipts' : q.op = r.op
  <2>1. IsReceipt(r)
    BY DEF LibInv, Receipted
  <2>2. CASE receipts' = receipts \/ r.op # ThisOperation
    BY <2>2 DEF Marked
  <2>3. CASE receipts' = Marked /\ r.op = ThisOperation
    <3> DEFINE q == [r EXCEPT !.status = "committed"]
    <3>1. q \in receipts' /\ q.op = r.op
      BY <2>1, <2>3 DEF Marked, IsReceipt
    <3> QED
      BY <3>1
  <2> QED
    BY <2>2, <2>3
<1>4. Receipted'
  BY <1>2, <1>3 DEF LibInv, Receipted, Genuine, Blocks
<1>5. Reserved'
  BY DEF Reserved, Publication
<1>6. OnceEach'
  BY <1>2 DEF LibInv, OnceEach, Noticed
<1> QED
  BY <1>4, <1>5, <1>6 DEF LibInv

(* A publication that meets its own receipt, and one that is finished.     *)
LEMMA LibReceipts == ASSUME LibInv, PromoteAgain \/ PromoteMark PROVE LibInv'
<1>1. /\ receipts' \in {receipts, Marked} /\ UNCHANGED <<lib, unseen>>
      /\ \E status, result, sides, then : Outcome(status, result, sides, then)
  BY DEF PromoteAgain, PromoteMark, Wait, history
<1>2. pc' \notin Publication
  BY <1>1 DEF Outcome, Publication
<1> QED
  BY <1>1, <1>2, LibMarks

(* A publication reads no more of the run than its plan and artifacts.     *)
LEMMA SamePublication ==
  ASSUME UNCHANGED <<plan, art, todo>>
  PROVE  /\ Stage' = Stage /\ ThisScore' = ThisScore /\ ThisOperation' = ThisOperation
         /\ Body' = Body /\ Accepts' = Accepts
<1>1. Stage' = Stage /\ \A s \in {"diagnose", "confidence"} : Result(s)' = Result(s)
  BY DEF Stage, Result
<1>2. ThisScore' = ThisScore /\ ThisOperation' = ThisOperation
  BY <1>1 DEF ThisScore, ThisOperation
<1>3. Body' = Body
  BY <1>1, <1>2 DEF Body
<1>4. Accepts' = Accepts
  BY <1>2 DEF Accepts
<1> QED
  BY <1>1, <1>2, <1>3, <1>4

(* The copy is the library as it is: no case of this operation is in it.   *)
LEMMA LibCopies == ASSUME PInv, LibInv, PromoteCopy PROVE LibInv'
<1>1. /\ pc = "publish" /\ pc' = "copied" /\ Receipt = {}
      /\ UNCHANGED <<plan, lib, art, todo, receipts, unseen>>
      /\ cur'.lib = lib
  BY DEF PromoteCopy, history, PInv, Types
<1>2. /\ Stage' = Stage /\ ThisScore' = ThisScore /\ ThisOperation' = ThisOperation
      /\ Accepts' = Accepts
  BY <1>1, SamePublication
<1>3. Stage = "promote" /\ ThisScore.gate # "reject" /\ todo # <<>>
  BY <1>1 DEF LibInv, Reserved, Publication
<1>4. \A b \in Blocks : b.op # ThisOperation
  BY <1>1, OperationIs DEF LibInv, Receipted, Genuine, Receipt
<1>5. Receipted' /\ OnceEach'
  BY <1>1 DEF LibInv, Receipted, Genuine, Blocks, OnceEach, Noticed
<1>6. PICK blocks : /\ blocks = Target(lib)
                    /\ blocks \subseteq Blocks /\ (Accepts => blocks = lib.cases)
                    /\ Swapped(blocks) = lib
  <2>1. lib = [cases |-> lib.cases, pend |-> lib.pend]
    BY DEF LibInv, Receipted
  <2>2. PICK blocks : blocks = Target(lib)
    OBVIOUS
  <2>3. /\ Accepts => Swapped(blocks) = [cases |-> blocks, pend |-> lib.pend] /\ blocks = lib.cases
        /\ ~Accepts => Swapped(blocks) = [cases |-> lib.cases, pend |-> blocks] /\ blocks = lib.pend
    BY <2>2, SwappedIs DEF LibInv
  <2> QED
    BY <2>1, <2>2, <2>3 DEF Blocks
<1>7. Staged(blocks)'
  BY <1>1, <1>2, <1>4, <1>6 DEF LibInv, Receipted, Genuine, Staged
<1>8. AtCopy(blocks)'
  <2>1. blocks = Target(cur'.lib) /\ Target(cur.lib)' = Target(cur'.lib) /\ Target(lib)' = blocks
    BY <1>1, <1>2, <1>6 DEF Target
  <2>2. Receipt' = {}
    BY <1>1, <1>2 DEF Receipt
  <2>3. Swapped(blocks)' = lib
    BY <1>1, <1>2, <1>6 DEF Swapped
  <2>4. \A q \in receipts : Noticed(q.op) => Once(lib, q.op)
    BY DEF LibInv, OnceEach
  <2> QED
    BY <1>1, <1>2, <1>6, <2>1, <2>2, <2>3, <2>4 DEF LibInv, Receipted, AtCopy, Noticed
<1>9. Reserved'
  BY <1>1, <1>2, <1>3, <1>4, <1>7, <1>8 DEF Reserved, Blocks
<1> QED
  BY <1>5, <1>9 DEF LibInv

(* The receipt that is written before the library is touched.              *)
LEMMA LibPrepares == ASSUME PInv, LibInv, PromotePrepare PROVE LibInv'
<1> DEFINE gate == ThisScore.gate
<1> DEFINE done == PromoteReport(cur.lib, Body, gate)
<1> DEFINE new == [op |-> ThisOperation, target |-> TargetName(gate), before |-> Target(lib),
                   after |-> Target(done.lib), status |-> "prepared", no |-> done.no]
<1>1. /\ pc = "copied" /\ UNCHANGED <<plan, lib, art, todo, unseen>>
      /\ done.code # 0 => pc' = "write" /\ UNCHANGED receipts
      /\ done.code = 0 => pc' = "prepared" /\ receipts' = receipts \cup {new}
  <2> HIDE DEF gate, done
  <2> QED
    BY DEF PromotePrepare, Wait, Outcome, history, gate, done
<1>2. CASE done.code # 0
  BY <1>1, <1>2, LibQuiet DEF Publication
<1>3. CASE done.code = 0
  <2>1. /\ Stage = "promote" /\ gate # "reject" /\ todo # <<>>
        /\ \A b \in Blocks : b.op # ThisOperation
    BY <1>1 DEF LibInv, Reserved, Publication
  <2>2. PICK blocks : Staged(blocks) /\ AtCopy(blocks)
    BY <1>1 DEF LibInv, Reserved
  <2>3. /\ Stage' = Stage /\ ThisScore' = ThisScore /\ ThisOperation' = ThisOperation /\ Body' = Body
        /\ Accepts' = Accepts
    BY <1>1, SamePublication
  <2>4. IsReceipt(new) /\ new.op = ThisOperation /\ new.before = Target(lib)
    <3> HIDE DEF done, gate
    <3>1. ThisOperation = <<ThisOperation[1], ThisOperation[2]>>
      BY OperationIs
    <3> QED
      BY <3>1 DEF IsReceipt
  <2>5. \E no : new.after = blocks \cup {Block(no, Body)}
    <3>1. PICK no : done.lib = IF gate = "accept" THEN [cur.lib EXCEPT !.cases = cur.lib.cases \cup {Block(no, Body)}]
                                         ELSE [cur.lib EXCEPT !.pend = cur.lib.pend \cup {Block(no, Body)}]
      BY <1>3, PromoteAdds
    <3> DEFINE add == Block(no, Body)
    <3> HIDE DEF done, add
    <3>2. Target(done.lib) = Target(cur.lib) \cup {add}
      BY <2>2, <3>1 DEF AtCopy, Target, TargetName, add
    <3> QED
      BY <2>2, <3>2 DEF AtCopy, add
  <2> HIDE DEF new
  <2>15. PICK r : r = new
    OBVIOUS
  <2>16. IsReceipt(r) /\ r.op = ThisOperation /\ r.before = Target(lib)
         /\ \E no : r.after = blocks \cup {Block(no, Body)}
    BY <2>4, <2>5, <2>15
  <2>6. /\ receipts' = receipts \cup {r} /\ pc' = "prepared" /\ lib' = lib
        /\ \A q \in receipts : q.op # ThisOperation
    BY <1>1, <1>3, <2>2, <2>15 DEF AtCopy, Receipt
  <2>7. Receipted'
    BY <2>16, <2>6 DEF LibInv, Receipted, Genuine, Blocks
  <2>8. Receipt' = {r}
    BY <2>3, <2>16, <2>6 DEF Receipt
  <2>9. Staged(blocks)'
    BY <2>2, <2>3, <2>6 DEF Staged, Genuine
  <2>10. Prepared(r, blocks)'
    BY <1>1, <2>2, <2>3, <2>16, <2>8, SwappedIs DEF LibInv, AtCopy, Prepared
  <2>11. Once(Swapped(blocks), ThisOperation)
    BY <2>1, <2>2, SwappedIs DEF LibInv, Once, Staged, Blocks
  <2>12. AtPrepare(r, blocks)'
    <3>1. Swapped(blocks)' = Swapped(blocks) /\ \A op : Noticed(op)' <=> Noticed(op)
      BY <1>1, <2>3 DEF Swapped, Noticed
    <3>2. \A q \in receipts' : Noticed(q.op) => Once(Swapped(blocks), q.op)
      BY <2>2, <2>16, <2>6, <2>11 DEF AtCopy
    <3>3. ~Accepts => \A b \in lib'.pend : b \in r.before
      BY <2>16, <2>6, SwappedIs DEF LibInv
    <3> QED
      BY <2>3, <2>6, <3>1, <3>2, <3>3 DEF AtPrepare
  <2>13. Reserved'
    BY <1>1, <2>1, <2>3, <2>6, <2>9, <2>10, <2>12 DEF Reserved, Blocks
  <2>14. OnceEach'
    BY <1>1, <2>1, <2>16, <2>6 DEF LibInv, OnceEach, Once, Noticed, Blocks
  <2> QED
    BY <2>7, <2>13, <2>14 DEF LibInv
<1> QED
  BY <1>2, <1>3

(* The target is looked at once more.                                      *)
LEMMA LibChecks == ASSUME PInv, LibInv, PromoteCheck PROVE LibInv'
<1>1. /\ pc = "prepared" /\ UNCHANGED <<plan, lib, art, todo, receipts, unseen>>
      /\ \/ pc' = "checked" /\ Target(lib) = ThisReceipt.before
         \/ pc' = "write"
  BY DEF PromoteCheck, Wait, Outcome, history
<1>2. CASE pc' = "write"
  BY <1>1, <1>2, LibQuiet DEF Publication
<1>3. CASE pc' = "checked" /\ Target(lib) = ThisReceipt.before
  <2>1. /\ Stage' = Stage /\ ThisScore' = ThisScore /\ ThisOperation' = ThisOperation /\ Body' = Body
        /\ Accepts' = Accepts
    BY <1>1, SamePublication
  <2>2. Target(lib)' = Target(lib) /\ Receipt' = Receipt /\ Blocks' = Blocks
    BY <1>1, <2>1 DEF Receipt, Target, Blocks
  <2>3. PICK r, blocks : r \in receipts /\ Staged(blocks) /\ Prepared(r, blocks) /\ AtPrepare(r, blocks)
    BY <1>1 DEF LibInv, Reserved
  <2>4. r.before = Target(lib)
    BY <1>3, <2>3 DEF Prepared, ThisReceipt
  <2>5. r \in receipts' /\ Staged(blocks)' /\ Prepared(r, blocks)'
    BY <1>1, <2>1, <2>2, <2>3 DEF Staged, Genuine, Prepared
  <2>6. AtCheck(blocks)'
    <3>1. Swapped(blocks)' = Swapped(blocks) /\ \A op : Noticed(op)' <=> Noticed(op)
      BY <1>1, <2>1 DEF Swapped, Noticed
    <3>2. ~Accepts => Target(lib) = lib.pend
      BY SwappedIs DEF LibInv
    <3>3. \A q \in receipts : Noticed(q.op) => Once(Swapped(blocks), q.op)
      BY <2>3, <2>4, <3>2 DEF AtPrepare
    <3> QED
      BY <1>1, <2>2, <2>3, <2>4, <3>1, <3>3 DEF Prepared, AtCheck
  <2>7. Reserved'
    BY <1>1, <1>3, <2>1, <2>2, <2>5, <2>6 DEF LibInv, Reserved, Publication
  <2>8. Receipted' /\ OnceEach'
    BY <1>1 DEF LibInv, Receipted, Genuine, Blocks, OnceEach, Noticed
  <2> QED
    BY <2>7, <2>8 DEF LibInv
<1> QED
  BY <1>1, <1>2, <1>3

(* What is at hand in a publication: a diagnosis that was reviewed, and    *)
(* the score of that diagnosis.                                            *)
LEMMA PublishedDiagnosis ==
  ASSUME PInv, RunInv, LibInv, pc \in Publication
  PROVE  Result("diagnose").analysis \in Analysed /\ ThisScore = Score(Result("diagnose").met)
<1>1. pc \in Executions /\ Stage = "promote"
  BY DEF LibInv, Reserved, Publication, Executions
<1> DEFINE d == art["diagnose"]
<1> DEFINE c == art["confidence"]
<1>2. "diagnose" \in Before("promote") /\ "confidence" \in Before("promote")
  BY Readers
<1>3. /\ d # <<>> /\ d[1].result # <<>> /\ HashOf(d)[1].result = d[1].result
      /\ ValidateBusiness("diagnose", d[1], art, Altered)
  BY <1>1, <1>2, HandInputs
<1>4. /\ c # <<>> /\ c[1].result # <<>> /\ FromInputs("confidence", c[1], material)
      /\ Fits(c[1].fp, "confidence", mem["confidence"].rev, art, Versions)
  BY <1>1, <1>2, HandInputs
<1>5. d[1].result[1].analysis \in Analysed
  BY <1>3 DEF ValidateBusiness
<1>6. c[1].fp[1].up[4] = HashOf(d)
  <2> DEFINE up == [i \in 1..(At("confidence") - 1) |-> HashOf(art[Stages[i]])]
  <2> DEFINE fp == c[1].fp
  <2>1. fp = <<[mat |-> fp[1].mat, up |-> up, rev |-> mem["confidence"].rev, lib |-> fp[1].lib]>>
    BY <1>4 DEF Fits
  <2>2. up[4] = HashOf(d)
    BY Readers
  <2> HIDE DEF up, fp
  <2>3. fp[1].up = up
    BY <2>1
  <2> QED
    BY <2>2, <2>3 DEF fp
<1>7. c[1].result = <<ScoreFrom(c[1].fp)>>
  BY <1>4 DEF FromInputs
<1>8. ScoreFrom(c[1].fp) = Score(d[1].result[1].met)
  BY <1>3, <1>6 DEF ScoreFrom
<1>9. c[1].result[1] = Score(d[1].result[1].met)
  <2> DEFINE score == Score(d[1].result[1].met)
  <2> HIDE DEF score, c
  <2>1. c[1].result = <<score>>
    BY <1>7, <1>8 DEF score
  <2> QED
    BY <2>1 DEF score
<1> QED
  BY <1>5, <1>9 DEF ThisScore, Result

(* The target is replaced by the copy that has the new case.               *)
LEMMA CommitSwaps ==
  ASSUME LibInv, PromoteCommit
  PROVE  \E r, blocks, add :
           /\ r \in receipts /\ Staged(blocks) /\ Prepared(r, blocks) /\ AtCheck(blocks)
           /\ IsBlock(add) /\ add.op = ThisOperation /\ add.from = <<>>
           /\ r.after = blocks \cup {add}
           /\ lib' = [cases |-> lib'.cases, pend |-> lib'.pend]
           /\ Accepts => lib'.cases = blocks \cup {add} /\ lib'.pend = lib.pend
           /\ ~Accepts => lib'.pend = blocks \cup {add} /\ lib'.cases = lib.cases
<1>1. pc = "checked" /\ lib' = [lib EXCEPT ![TargetName(ThisScore.gate)] = ThisReceipt.after]
  BY DEF PromoteCommit
<1>2. PICK r, blocks : r \in receipts /\ Staged(blocks) /\ Prepared(r, blocks) /\ AtCheck(blocks)
  BY <1>1 DEF LibInv, Reserved
<1>3. PICK no : r.after = blocks \cup {Block(no, Body)}
  BY <1>2 DEF Prepared
<1> DEFINE add == Block(no, Body)
<1>4. ThisReceipt = r
  BY <1>2 DEF Prepared, ThisReceipt
<1>5. IsBlock(add) /\ add.op = ThisOperation /\ add.from = <<>>
  <2>1. Body.op = ThisOperation
    BY DEF Body
  <2> QED
    BY <2>1, BlockIs
<1>6. r.after = blocks \cup {add}
  BY <1>3
<1> HIDE DEF add
<1>7. lib' = Swapped(blocks \cup {add})
  BY <1>1, <1>4, <1>6 DEF Swapped
<1>8. /\ Accepts => lib' = [cases |-> blocks \cup {add}, pend |-> lib.pend]
      /\ ~Accepts => lib' = [cases |-> lib.cases, pend |-> blocks \cup {add}]
  BY <1>7, SwappedIs DEF LibInv
<1> QED
  BY <1>2, <1>5, <1>6, <1>8

(* It is the one case of its diagnosis, and no unreviewed one.             *)
LEMMA LibCommits == ASSUME PInv, RunInv, LibInv, PromoteCommit PROVE LibInv'
<1>1. pc = "checked" /\ pc' = "committed" /\ UNCHANGED <<plan, art, todo, receipts, unseen>>
  BY DEF PromoteCommit, history
<1>2. /\ Stage' = Stage /\ ThisScore' = ThisScore /\ ThisOperation' = ThisOperation /\ Body' = Body
      /\ Accepts' = Accepts /\ Receipt' = Receipt
  BY <1>1, SamePublication DEF Receipt
<1>3. PICK r, blocks, add :
           /\ r \in receipts /\ Staged(blocks) /\ Prepared(r, blocks) /\ AtCheck(blocks)
           /\ IsBlock(add) /\ add.op = ThisOperation /\ add.from = <<>>
           /\ lib' = [cases |-> lib'.cases, pend |-> lib'.pend]
           /\ Accepts => lib'.cases = blocks \cup {add} /\ lib'.pend = lib.pend
           /\ ~Accepts => lib'.pend = blocks \cup {add} /\ lib'.cases = lib.cases
  BY CommitSwaps
<1>4. r.op = ThisOperation
  BY <1>3 DEF Prepared, Receipt
<1>5. \A b \in Blocks : b.op # ThisOperation
  BY <1>1 DEF LibInv, Reserved
<1>6. Accepts => Deserved(add)
  <2>1. Result("diagnose").analysis \in Analysed /\ ThisScore = Score(Result("diagnose").met)
    BY <1>1, PublishedDiagnosis DEF Publication
  <2>2. add.op[1] = Result("diagnose")
    BY <1>3, OperationIs
  <2> QED
    BY <2>1, <2>2 DEF Deserved, Accepts
<1>7. Receipted'
  <2>1. \A b \in Blocks' : b \in Blocks \/ b \in blocks \/ b = add
    BY <1>3 DEF Blocks
  <2>2. \A b \in Blocks' : Genuine(b)
    BY <1>3, <1>4, <2>1 DEF LibInv, Receipted, Staged, Genuine
  <2>3. \A b \in lib'.cases : Deserved(b)
    BY <1>3, <1>6 DEF LibInv, Receipted, Staged
  <2> QED
    BY <1>1, <1>3, <2>2, <2>3 DEF LibInv, Receipted, Genuine
<1>8. Reserved'
  <2>1. r \in receipts' /\ Staged(blocks)' /\ Prepared(r, blocks)'
    BY <1>1, <1>2, <1>3 DEF Staged, Genuine, Prepared
  <2> QED
    BY <1>1, <1>2, <2>1 DEF LibInv, Reserved, Publication
<1>9. OnceEach'
  <2> SUFFICES ASSUME NEW q \in receipts, Noticed(q.op) PROVE Once(lib', q.op)
    BY <1>1 DEF OnceEach, Noticed
  <2> DEFINE m == Swapped(blocks)
  <2>1. Once(m, q.op)
    BY <1>3 DEF AtCheck
  <2>2. /\ Accepts => m.cases = blocks /\ m.pend = lib.pend
        /\ ~Accepts => m.cases = lib.cases /\ m.pend = blocks
    BY SwappedIs DEF LibInv
  <2>3. \A b \in m.cases \cup m.pend : b.op # ThisOperation
    BY <1>3, <1>5, <2>2 DEF Staged, Blocks
  <2> HIDE DEF m
  <2>4. \/ lib'.cases = m.cases \cup {add} /\ lib'.pend = m.pend
        \/ lib'.pend = m.pend \cup {add} /\ lib'.cases = m.cases
    BY <1>3, <2>2
  <2> QED
    BY <1>3, <2>1, <2>3, <2>4, OnceWithOne
<1> QED
  BY <1>7, <1>8, <1>9 DEF LibInv

(* Somebody adds a case, possibly in the middle of a publication.          *)
LEMMA CuratorAddsOne ==
  ASSUME PInv, LibInv, CuratorAdds
  PROVE  \E add : /\ IsBlock(add) /\ add.op = <<>> /\ add.from = <<>>
                  /\ lib' = [cases |-> lib'.cases, pend |-> lib'.pend]
                  /\ \/ lib'.cases = lib.cases \cup {add} /\ lib'.pend = lib.pend
                     \/ lib'.pend = lib.pend \cup {add} /\ lib'.cases = lib.cases
<1>1. /\ PromoteReport(lib, plan.other, plan.otherGate).code = 0
      /\ lib' = PromoteReport(lib, plan.other, plan.otherGate).lib
  <2> DEFINE done == PromoteReport(lib, plan.other, plan.otherGate)
  <2> HIDE DEF done
  <2>1. \E d \in {done} : d.code = 0 /\ lib' = d.lib
    BY DEF CuratorAdds, done
  <2> QED
    BY <2>1 DEF done
<1>2. PICK no : lib' = IF plan.otherGate = "accept"
                       THEN [lib EXCEPT !.cases = lib.cases \cup {Block(no, plan.other)}]
                       ELSE [lib EXCEPT !.pend = lib.pend \cup {Block(no, plan.other)}]
  BY <1>1, PromoteAdds
<1> DEFINE add == Block(no, plan.other)
<1>3. IsBlock(add) /\ add.op = <<>> /\ add.from = <<>>
  <2>1. plan \in Plans
    BY DEF PInv, Types
  <2>2. plan.other.op = <<>>
    BY <2>1, LibraryAssumption
  <2> QED
    BY <2>2, BlockIs
<1> HIDE DEF add
<1>4. lib' = IF plan.otherGate = "accept" THEN [lib EXCEPT !.cases = lib.cases \cup {add}]
                                          ELSE [lib EXCEPT !.pend = lib.pend \cup {add}]
  BY <1>2 DEF add
<1>5. /\ lib' = [cases |-> lib'.cases, pend |-> lib'.pend]
      /\ \/ lib'.cases = lib.cases \cup {add} /\ lib'.pend = lib.pend
         \/ lib'.pend = lib.pend \cup {add} /\ lib'.cases = lib.cases
  BY <1>4 DEF LibInv, Receipted
<1> QED
  BY <1>3, <1>5

(* Somebody has written into the library; what a publication cannot        *)
(* notice is remembered.                                                   *)
LEMMA Remembered ==
  ASSUME CuratorAdds \/ CuratorConfirms
  PROVE  /\ UNCHANGED <<plan, art, receipts, pc, todo, cur>>
         /\ \A op : Noticed(op)' => Noticed(op)
         /\ unseen \subseteq unseen'
         /\ pc \in {"copied", "checked"} =>
              /\ lib'.cases \ lib.cases \subseteq unseen'
              /\ lib'.pend \ lib.pend \subseteq unseen'
<1>1. LibraryChanges
  BY DEF CuratorAdds, CuratorConfirms
<1>2. UNCHANGED <<plan, art, receipts, pc, todo, cur>>
  BY <1>1 DEF LibraryChanges, Change
<1>3. unseen' = unseen \cup IF Unnoticed THEN Written ELSE {}
  BY <1>1 DEF LibraryChanges
<1>4. Unnoticed => Written \subseteq unseen'
  BY <1>3
<1> QED
  BY <1>2, <1>3, <1>4 DEF Unnoticed, Written, Noticed

(* What is to be in the target stays fit for it while others write.        *)
LEMMA StillStaged ==
  ASSUME LibInv, UNCHANGED <<plan, art, todo, receipts>>, unseen \subseteq unseen', NEW blocks,
         Staged(blocks)
  PROVE  /\ Staged(blocks)'
         /\ \A r : Prepared(r, blocks) => Prepared(r, blocks)'
<1>1. /\ ThisOperation' = ThisOperation /\ Body' = Body /\ Accepts' = Accepts
      /\ Receipt' = Receipt
  BY SamePublication DEF Receipt
<1>2. Staged(blocks)'
  BY <1>1 DEF Staged, Genuine
<1>3. ASSUME NEW r, Prepared(r, blocks) PROVE Prepared(r, blocks)'
  BY <1>1, <1>3 DEF Prepared
<1> QED
  BY <1>2, <1>3

(* A publication at work while others write: what they may have spoilt is  *)
(* remembered, or will be noticed.                                         *)
LEMMA StillReserved ==
  ASSUME LibInv, UNCHANGED <<plan, art, receipts, pc, todo, cur>>,
         unseen \subseteq unseen', \A op : Noticed(op)' => Noticed(op), Receipted',
         lib.cases \subseteq lib'.cases,
         \A b \in Blocks' : b.op = <<>> \/ \E c \in Blocks : c.op = b.op,
         pc \in {"copied", "checked"} => /\ lib'.cases \ lib.cases \subseteq unseen'
                                         /\ lib'.pend \ lib.pend \subseteq unseen',
         \* per operation: unless remembered, it stays or goes, and is accepted where it goes
         \A q \in receipts : Noticed(q.op)' =>
           /\ \A b \in lib'.pend : b.op = q.op => b \in lib.pend
           /\ \/ \A b \in lib'.cases : b.op = q.op => b \in lib.cases
              \/ /\ pc \notin {"copied", "checked"}
                 /\ \E b \in lib.pend \ lib'.pend : b.op = q.op
  PROVE  Reserved'
<1>1. /\ Stage' = Stage /\ ThisScore' = ThisScore /\ ThisOperation' = ThisOperation
      /\ Accepts' = Accepts /\ Receipt' = Receipt
  BY SamePublication DEF Receipt
<1>2. ASSUME NEW b \in Blocks', pc \in {"copied", "prepared", "checked"}
      PROVE  b.op # ThisOperation
  BY <1>2, OperationIs DEF LibInv, Reserved
<1>3. /\ Accepts => Target(lib) = lib.cases /\ Target(lib)' = lib'.cases
      /\ ~Accepts => Target(lib) = lib.pend /\ Target(lib)' = lib'.pend
  BY <1>1, SwappedIs DEF LibInv, Receipted, Target, Accepts, TargetName
<1>4. ASSUME NEW blocks
      PROVE  /\ Accepts => /\ Swapped(blocks) = [cases |-> blocks, pend |-> lib.pend]
                           /\ Swapped(blocks)' = [cases |-> blocks, pend |-> lib'.pend]
             /\ ~Accepts => /\ Swapped(blocks) = [cases |-> lib.cases, pend |-> blocks]
                            /\ Swapped(blocks)' = [cases |-> lib'.cases, pend |-> blocks]
  <2>1. /\ Accepts => Swapped(blocks) = [cases |-> blocks, pend |-> lib.pend]
        /\ ~Accepts => Swapped(blocks) = [cases |-> lib.cases, pend |-> blocks]
    BY SwappedIs DEF LibInv
  <2>2. lib' = [cases |-> lib'.cases, pend |-> lib'.pend]
    BY DEF Receipted
  <2>3. CASE Accepts
    <3>1. Swapped(blocks)' = [lib' EXCEPT !.cases = blocks]
      BY <1>1, <2>3 DEF Swapped, Accepts, TargetName
    <3> QED
      BY <2>1, <2>2, <2>3, <3>1
  <2>4. CASE ~Accepts
    <3>1. Swapped(blocks)' = [lib' EXCEPT !.pend = blocks]
      BY <1>1, <2>4 DEF Swapped, Accepts, TargetName
    <3> QED
      BY <2>1, <2>2, <2>4, <3>1
  <2> QED
    BY <2>3, <2>4
<1>5. ASSUME NEW blocks, NEW q \in receipts, Noticed(q.op)', Once(Swapped(blocks), q.op),
             Accepts \/ \A b \in lib'.cases : b.op = q.op => b \in lib.cases
      PROVE  Once(Swapped(blocks)', q.op)
  <2> DEFINE l == Swapped(blocks)
  <2> DEFINE m == Swapped(blocks)'
  <2>1. \A b \in m.cases : b.op = q.op => b \in l.cases
    BY <1>4, <1>5
  <2>2. \A b \in m.pend : b.op = q.op => b \in l.pend
    BY <1>4, <1>5
  <2> HIDE DEF l, m
  <2>3. Once(m, q.op)
    BY <1>5, <2>1, <2>2, OnceFewer DEF l
  <2> QED
    BY <2>3 DEF m
<1>6. CASE pc = "copied"
  <2>1. PICK blocks : Staged(blocks) /\ AtCopy(blocks)
    BY <1>6 DEF LibInv, Reserved
  <2>2. Staged(blocks)'
    BY <2>1, StillStaged
  <2>3. Target(cur.lib)' = Target(cur.lib)
    BY <1>1 DEF Target
  <2>4. Target(lib)' \ unseen' \subseteq blocks
    BY <1>3, <1>6, <2>1 DEF AtCopy
  <2>5. \A q \in receipts : Noticed(q.op)' => Once(Swapped(blocks)', q.op)
    BY <1>5, <1>6, <2>1 DEF AtCopy
  <2>6. AtCopy(blocks)'
    BY <1>1, <2>1, <2>3, <2>4, <2>5 DEF AtCopy
  <2> QED
    BY <1>1, <1>2, <1>6, <2>2, <2>6 DEF LibInv, Reserved, Publication
<1>7. CASE pc \in {"prepared", "checked", "committed"}
  <2>1. PICK r, blocks : /\ r \in receipts /\ Staged(blocks) /\ Prepared(r, blocks)
                         /\ pc = "prepared" => AtPrepare(r, blocks)
                         /\ pc = "checked" => AtCheck(blocks)
    BY <1>7 DEF LibInv, Reserved
  <2>2. Staged(blocks)' /\ Prepared(r, blocks)'
    BY <2>1, StillStaged
  <2>3. ASSUME pc = "prepared" PROVE AtPrepare(r, blocks)'
    <3> SUFFICES ASSUME NEW q \in receipts, Noticed(q.op)'
                 PROVE  /\ Accepts => Once(Swapped(blocks)', q.op)
                        /\ ~Accepts => /\ \/ Once(Swapped(blocks)', q.op)
                                          \/ \E b \in r.before \ lib'.pend : b.op = q.op
                                       /\ \A b \in lib'.pend : b.op = q.op => b \in r.before
      BY <1>1 DEF AtPrepare
    <3>1. /\ Accepts => Once(Swapped(blocks), q.op)
          /\ ~Accepts => /\ Once(Swapped(blocks), q.op) \/ \E b \in r.before \ lib.pend : b.op = q.op
                         /\ \A b \in lib.pend : b.op = q.op => b \in r.before
      BY <2>1, <2>3 DEF AtPrepare
    <3>2. \A b \in lib'.pend : b.op = q.op => b \in lib.pend
      OBVIOUS
    <3>3. CASE Accepts
      BY <1>5, <3>1, <3>3
    <3>4. CASE ~Accepts /\ \E b \in r.before \ lib.pend : b.op = q.op
      BY <3>1, <3>2, <3>4
    <3>5. CASE ~Accepts /\ Once(Swapped(blocks), q.op)
      <4>1. CASE \A b \in lib'.cases : b.op = q.op => b \in lib.cases
        BY <1>5, <3>1, <3>2, <3>5, <4>1
      <4>2. CASE \E b \in lib.pend \ lib'.pend : b.op = q.op
        BY <3>1, <3>2, <3>5, <4>2
      <4> QED
        BY <4>1, <4>2
    <3> QED
      BY <3>1, <3>3, <3>4, <3>5
  <2>4. ASSUME pc = "checked" PROVE AtCheck(blocks)'
    <3>1. Target(lib)' \ unseen' \subseteq blocks
      BY <1>3, <2>1, <2>4 DEF AtCheck
    <3>2. \A q \in receipts : Noticed(q.op)' => Once(Swapped(blocks)', q.op)
      BY <1>5, <2>1, <2>4 DEF AtCheck
    <3> QED
      BY <3>1, <3>2 DEF AtCheck
  <2> QED
    BY <1>1, <1>2, <1>7, <2>1, <2>2, <2>3, <2>4 DEF LibInv, Reserved, Publication
<1>8. CASE pc \notin {"copied", "prepared", "checked", "committed"}
  BY <1>1, <1>8 DEF LibInv, Reserved, Publication
<1> QED
  BY <1>6, <1>7, <1>8

(* What somebody adds is of no operation.                                  *)
LEMMA LibAdds == ASSUME PInv, LibInv, CuratorAdds PROVE LibInv'
<1>1. PICK add : /\ IsBlock(add) /\ add.op = <<>> /\ add.from = <<>>
                 /\ lib' = [cases |-> lib'.cases, pend |-> lib'.pend]
                 /\ \/ lib'.cases = lib.cases \cup {add} /\ lib'.pend = lib.pend
                    \/ lib'.pend = lib.pend \cup {add} /\ lib'.cases = lib.cases
  BY CuratorAddsOne
<1>2. UNCHANGED receipts /\ \A op : Noticed(op)' => Noticed(op)
  BY Remembered
<1>3. Receipted'
  BY <1>1, <1>2 DEF LibInv, Receipted, Genuine, Deserved, Blocks
<1>4. \A q \in receipts : add.op # q.op
  BY <1>1 DEF LibInv, Receipted, IsReceipt
<1>5. OnceEach'
  BY <1>1, <1>2, <1>4, OnceWithOne DEF LibInv, OnceEach
<1>6. \A b \in Blocks' : b.op = <<>> \/ \E c \in Blocks : c.op = b.op
  BY <1>1 DEF Blocks
<1>7. \A q \in receipts : /\ \A b \in lib'.pend : b.op = q.op => b \in lib.pend
                          /\ \A b \in lib'.cases : b.op = q.op => b \in lib.cases
  BY <1>1, <1>4
<1>8. lib.cases \subseteq lib'.cases
  BY <1>1
<1>9. Reserved'
  BY <1>2, <1>3, <1>6, <1>7, <1>8, Remembered, StillReserved
<1> QED
  BY <1>3, <1>5, <1>9 DEF LibInv

(* A candidate is confirmed: it moves from one file to the other.          *)
LEMMA ConfirmMoves ==
  ASSUME LibInv, CuratorConfirms
  PROVE  \E b, add :
           /\ b \in lib.pend /\ IsBlock(b) /\ IsBlock(add) /\ add.op = b.op /\ add.from # <<>>
           /\ lib' = [cases |-> lib'.cases, pend |-> lib'.pend]
           /\ lib'.cases = lib.cases \cup {add} /\ lib'.pend = {c \in lib.pend : c.no # b.no}
<1>1. PICK no : Confirmable(lib, no) /\ lib' = DropCandidate(AppendConfirmed(lib, no), no)
  BY DEF CuratorConfirms
<1> DEFINE b == CHOOSE c \in lib.pend : c.no = no
<1> DEFINE next == NextCaseId(lib.cases)
<1> DEFINE add == [b EXCEPT !.no = next, !.from = <<no>>]
<1>2. b \in lib.pend /\ b.no = no
  BY <1>1 DEF Confirmable
<1>3. /\ lib' = [cases |-> lib'.cases, pend |-> lib'.pend]
      /\ lib'.cases = lib.cases \cup {add} /\ lib'.pend = {c \in lib.pend : c.no # no}
  <2>1. AppendConfirmed(lib, no) = [lib EXCEPT !.cases = lib.cases \cup {add}]
    BY DEF AppendConfirmed
  <2>2. lib = [cases |-> lib.cases, pend |-> lib.pend]
    BY DEF LibInv, Receipted
  <2> HIDE DEF add
  <2> QED
    BY <1>1, <2>1, <2>2 DEF DropCandidate
<1> HIDE DEF b, next
<1>4. IsBlock(b)
  BY <1>2 DEF LibInv, Receipted, Genuine, Blocks
<1>5. IsBlock(add) /\ add.op = b.op /\ add.from # <<>>
  <2> DEFINE from == <<no>>
  <2>1. from # <<>>
    OBVIOUS
  <2> HIDE DEF from
  <2>2. add = [b EXCEPT !.no = next, !.from = from]
    BY DEF from
  <2> HIDE DEF add
  <2>3. add = [no |-> next, from |-> from, code |-> b.code, title |-> b.title, body |-> b.body,
               op |-> b.op, private |-> b.private]
    BY <1>4, <2>2 DEF IsBlock
  <2> QED
    BY <2>1, <2>3 DEF IsBlock
<1> HIDE DEF add
<1> QED
  BY <1>2, <1>3, <1>4, <1>5

(* The case that moves stays the only one of its operation.                *)
LEMMA LibConfirms == ASSUME LibInv, CuratorConfirms PROVE LibInv'
<1>1. PICK b, add :
           /\ b \in lib.pend /\ IsBlock(b) /\ IsBlock(add) /\ add.op = b.op /\ add.from # <<>>
           /\ lib' = [cases |-> lib'.cases, pend |-> lib'.pend]
           /\ lib'.cases = lib.cases \cup {add} /\ lib'.pend = {c \in lib.pend : c.no # b.no}
  BY ConfirmMoves
<1>2. UNCHANGED receipts /\ \A op : Noticed(op)' => Noticed(op)
  BY Remembered
<1>3. Genuine(b)
  BY <1>1 DEF LibInv, Receipted, Blocks
<1>4. Receipted'
  BY <1>1, <1>2, <1>3 DEF LibInv, Receipted, Genuine, Deserved, Blocks
<1>5. ASSUME NEW q \in receipts, Noticed(q.op), b.op = q.op
      PROVE  /\ \A c \in lib.pend : c.op = q.op => c = b
             /\ \A c \in lib.cases : c.op # q.op
             /\ b \notin lib'.pend
  <2>1. Once(lib, q.op)
    BY <1>5 DEF LibInv, OnceEach
  <2> QED
    BY <1>1, <1>5, <2>1 DEF Once
<1>6. OnceEach'
  <2> SUFFICES ASSUME NEW q \in receipts, Noticed(q.op) PROVE Once(lib', q.op)
    BY <1>2 DEF OnceEach
  <2>1. Once(lib, q.op)
    BY DEF LibInv, OnceEach
  <2>2. CASE b.op = q.op
    BY <1>1, <1>5, <2>2 DEF Once
  <2>3. CASE b.op # q.op
    BY <1>1, <2>1, <2>3 DEF Once
  <2> QED
    BY <2>2, <2>3
<1>7. ASSUME NEW c \in Blocks' PROVE c.op = <<>> \/ \E d \in Blocks : d.op = c.op
  BY <1>1 DEF Blocks
<1>8. ASSUME NEW q \in receipts, Noticed(q.op)'
      PROVE  /\ \A c \in lib'.pend : c.op = q.op => c \in lib.pend
             /\ \/ \A c \in lib'.cases : c.op = q.op => c \in lib.cases
                \/ /\ pc \notin {"copied", "checked"}
                   /\ \E c \in lib.pend \ lib'.pend : c.op = q.op
  <2>1. CASE b.op # q.op
    BY <1>1, <2>1
  <2>2. CASE b.op = q.op
    <3>1. Noticed(q.op) /\ add \notin lib.cases /\ b \notin lib'.pend
      BY <1>1, <1>2, <1>5, <1>8, <2>2
    <3>2. pc \in {"copied", "checked"} => add \in unseen'
      BY <1>1, <3>1, Remembered
    <3>3. pc \notin {"copied", "checked"}
      BY <1>1, <1>8, <2>2, <3>2 DEF Noticed
    <3> QED
      BY <1>1, <2>2, <3>1, <3>3
  <2> QED
    BY <2>1, <2>2
<1>9. lib.cases \subseteq lib'.cases
  BY <1>1
<1>10. Reserved'
  BY <1>2, <1>4, <1>7, <1>8, <1>9, Remembered, StillReserved
<1> QED
  BY <1>4, <1>6, <1>10 DEF LibInv

(* Steps that write neither library nor receipts, but those of a           *)
(* publication, nor anything unseen.                                       *)
LEMMA LibElsewhere ==
  ASSUME PInv, LibInv,
         \/ \E force \in BOOLEAN : Launch(force)
         \/ \E mode \in Modes : Begin(mode[1], mode[2])
         \/ Finish \/ Crash \/ Skip \/ Accept \/ NoteInterrupted \/ StayBlocked \/ BeginAttempt
         \/ Announce \/ WriteArtifact \/ SaveState
         \/ ExecuteManual \/ \E class \in {"transient", "permanent", "interrupted"} : ExecuteFails(class)
         \/ ExecuteLookup \/ ExecuteDetect \/ ExecuteClean \/ ExecuteDiagnose \/ ExecuteConfidence
         \/ ExecuteReport \/ PromoteNothing \/ PromoteNowhere
         \/ \E careless \in BOOLEAN : AgentReviews(careless)
         \/ AgentCleans \/ ClearLibraryLock
  PROVE  UNCHANGED <<lib, receipts, unseen>> /\ pc' \notin Publication
<1> USE DEF Publication
<1>1. ASSUME NEW force \in BOOLEAN, Launch(force) PROVE UNCHANGED <<lib, receipts, unseen>> /\ pc' \notin Publication
  BY <1>1 DEF Launch, history
<1>2. ASSUME NEW mode \in Modes, Begin(mode[1], mode[2])
      PROVE  UNCHANGED <<lib, receipts, unseen>> /\ pc' \notin Publication
  BY <1>2 DEF Begin, history
<1>3. CASE Finish \/ Crash \/ StayBlocked
  BY <1>3 DEF Finish, Crash, StayBlocked, Stop, history
<1>4. CASE Skip
  BY <1>4 DEF Skip, disk, history
<1>5. CASE Accept \/ NoteInterrupted
  BY <1>5 DEF Accept, NoteInterrupted, disk, history
<1>6. CASE BeginAttempt \/ Announce \/ WriteArtifact
  BY <1>6 DEF BeginAttempt, Announce, WriteArtifact, history
<1>7. CASE SaveState
  BY <1>7 DEF SaveState, Stop, history
<1>8. ASSUME \/ ExecuteManual \/ \E class \in {"transient", "permanent", "interrupted"} : ExecuteFails(class)
             \/ ExecuteLookup \/ ExecuteDetect \/ ExecuteClean \/ ExecuteDiagnose \/ ExecuteConfidence
             \/ ExecuteReport \/ PromoteNothing \/ PromoteNowhere
      PROVE  UNCHANGED <<lib, receipts, unseen>> /\ pc' \notin Publication
  <2>1. Untouched
    BY <1>8 DEF ExecuteManual, ExecuteFails, ExecuteLookup, ExecuteDetect, ExecuteClean,
                ExecuteDiagnose, ExecuteConfidence, ExecuteReport, PromoteNothing, PromoteNowhere
  <2>2. \E status, result, sides, then : Outcome(status, result, sides, then)
    <3>1. CASE ExecuteManual \/ PromoteNowhere
      BY <3>1 DEF ExecuteManual, PromoteNowhere, Wait
    <3>2. CASE \E class \in {"transient", "permanent", "interrupted"} : ExecuteFails(class)
      BY <3>2 DEF ExecuteFails, Fail
    <3>3. CASE ExecuteLookup \/ ExecuteConfidence
      BY <3>3 DEF ExecuteLookup, ExecuteConfidence, Deliver
    <3>4. CASE ExecuteDetect \/ ExecuteReport
      BY <3>4 DEF ExecuteDetect, ExecuteReport, Deliver, Fail
    <3>5. CASE ExecuteClean \/ ExecuteDiagnose \/ PromoteNothing
      BY <3>5 DEF ExecuteClean, ExecuteDiagnose, PromoteNothing
    <3> QED
      BY <1>8, <3>1, <3>2, <3>3, <3>4, <3>5
  <2> QED
    BY <2>1, <2>2 DEF Untouched, disk, Outcome, history
<1>9. ASSUME NEW careless \in BOOLEAN, AgentReviews(careless)
      PROVE  UNCHANGED <<lib, receipts, unseen>> /\ pc' \notin Publication
  BY <1>9 DEF AgentReviews, Outside, Change, Idle, history
<1>10. CASE AgentCleans \/ ClearLibraryLock
  BY <1>10 DEF AgentCleans, ClearLibraryLock, Outside, Change, Idle, history
<1> QED
  BY <1>1, <1>2, <1>3, <1>4, <1>5, <1>6, <1>7, <1>8, <1>9, <1>10

(* A step that leaves the library and the publication alone keeps LibInv.  *)
LEMMA LibBystander ==
  ASSUME LibInv, UNCHANGED <<plan, art, todo, lib, receipts, pc, cur, unseen>>
  PROVE  LibInv'
<1>1. /\ Stage' = Stage /\ ThisScore' = ThisScore /\ ThisOperation' = ThisOperation
      /\ Body' = Body /\ Accepts' = Accepts
  BY SamePublication
<1>2. Receipt' = Receipt /\ Target(lib)' = Target(lib) /\ Blocks' = Blocks
      /\ Target(cur.lib)' = Target(cur.lib)
  BY <1>1 DEF Receipt, Target, Blocks
<1>3. \A op : Noticed(op)' <=> Noticed(op)
  BY DEF Noticed
<1>4. Reserved'
  <2>1. CASE pc = "copied"
    <3>1. PICK blocks : Staged(blocks) /\ AtCopy(blocks)
      BY <2>1 DEF LibInv, Reserved
    <3>2. Staged(blocks)' /\ Swapped(blocks)' = Swapped(blocks)
      BY <1>1, <3>1 DEF Staged, Genuine, Swapped
    <3>3. AtCopy(blocks)'
      BY <1>1, <1>2, <1>3, <3>1, <3>2 DEF AtCopy
    <3> QED
      BY <1>1, <1>2, <2>1, <3>2, <3>3 DEF LibInv, Reserved
  <2>2. CASE pc \in {"prepared", "checked", "committed"}
    <3>1. PICK r, blocks : /\ r \in receipts /\ Staged(blocks) /\ Prepared(r, blocks)
                           /\ pc = "prepared" => AtPrepare(r, blocks)
                           /\ pc = "checked" => AtCheck(blocks)
      BY <2>2 DEF LibInv, Reserved
    <3>2. Staged(blocks)' /\ Swapped(blocks)' = Swapped(blocks)
      BY <1>1, <3>1 DEF Staged, Genuine, Swapped
    <3>3. Prepared(r, blocks)'
      BY <1>1, <1>2, <3>1 DEF Prepared
    <3>4. /\ pc = "prepared" => AtPrepare(r, blocks)'
          /\ pc = "checked" => AtCheck(blocks)'
      BY <1>1, <1>2, <1>3, <3>1, <3>2 DEF AtPrepare, AtCheck
    <3> QED
      BY <1>1, <1>2, <2>2, <3>1, <3>2, <3>3, <3>4 DEF LibInv, Reserved
  <2>3. CASE pc \notin {"copied", "prepared", "checked", "committed"}
    BY <1>1, <1>2, <2>3 DEF LibInv, Reserved
  <2> QED
    BY <2>1, <2>2, <2>3
<1>5. Receipted' /\ OnceEach'
  BY <1>2 DEF LibInv, Receipted, Genuine, OnceEach, Noticed
<1> QED
  BY <1>4, <1>5 DEF LibInv

(* Every step keeps LibInv.                                                *)
LEMMA LibStep ==
  ASSUME PInv, RunInv, LibInv, [PipelineNext]_pipelineVars
  PROVE  LibInv'
<1>1. CASE UNCHANGED pipelineVars
  <2>1. UNCHANGED <<plan, art, todo, lib, receipts, pc, cur, unseen>>
    BY <1>1 DEF pipelineVars, disk, process, history
  <2> QED
    BY <2>1, LibBystander
<1>2. CASE MaterialChanges \/ OutputChanges
  <2>1. UNCHANGED <<plan, art, todo, lib, receipts, pc, cur, unseen>>
    BY <1>2 DEF MaterialChanges, OutputChanges, Change
  <2> QED
    BY <2>1, LibBystander
<1> QED
  BY <1>1, <1>2, LibQuiet, LibElsewhere, LibLocks, LibReceipts, LibCopies, LibPrepares, LibChecks,
     LibCommits, LibAdds, LibConfirms DEF PipelineNext

(* LibInv holds at the start: what is there was not written by a run.      *)
LEMMA LibInitially == PipelineInit => LibInv
<1> SUFFICES ASSUME PipelineInit PROVE LibInv
  OBVIOUS
<1>1. /\ receipts = {} /\ pc = "idle" /\ plan \in Plans /\ lib = plan.library
  BY DEF PipelineInit
<1>2. lib = [cases |-> lib.cases, pend |-> lib.pend]
  BY <1>1, LibraryAssumption
<1>3. ASSUME NEW b \in Blocks PROVE IsBlock(b) /\ b.op = <<>>
  <2> DEFINE other == Block(b.no, b)
  <2>1. b.op = <<>> /\ b = [other EXCEPT !.from = b.from]
    BY <1>1, <1>3, LibraryAssumption DEF Blocks
  <2>2. IsBlock(other)
    BY BlockIs
  <2> HIDE DEF other
  <2>3. IsBlock([other EXCEPT !.from = b.from])
    BY <2>2 DEF IsBlock
  <2> QED
    BY <2>1, <2>3
<1> QED
  BY <1>1, <1>2, <1>3 DEF LibInv, Receipted, Genuine, Deserved, Blocks, Reserved, OnceEach, Publication

-----------------------------------------------------------------------------
(* What the pipeline promises about its results                            *)

(* The files, the run and the library keep what was found of them.         *)
THEOREM PipelineSoundInvariant == PipelineSpec => [](PInv /\ RunInv /\ LibInv)
<1>1. PipelineInit => PInv /\ RunInv /\ LibInv
  BY PipelineInitially, RunInitially, LibInitially
<1>2. (PInv /\ RunInv /\ LibInv) /\ [PipelineNext]_pipelineVars => (PInv /\ RunInv /\ LibInv)'
  BY PipelineStep, RunStep, LibStep
<1> QED
  BY <1>1, <1>2, PTL DEF PipelineSpec

(* Whatever is killed, retried, changed or added meanwhile, a diagnosis is *)
(* published at most once, and only a reviewed one that passes the gate    *)
(* gets among the accepted cases (promote, _gate).                         *)
THEOREM PipelinePublicationSound == PipelineSpec => []PublicationSound
BY LibIsSound, PipelineSoundInvariant, PTL

(* A publication takes away no case but one written where it could not     *)
(* notice it: between its copy and its hash of the library, or after its   *)
(* last look (promote, commit_candidate).                                  *)
THEOREM PipelineOthersKept == PipelineSpec => OthersKept
<1> DEFINE kept == /\ lib.cases \ lib'.cases \subseteq unseen
                   /\ pc = "checked" /\ pc' = "committed" => lib.pend \ lib'.pend \subseteq unseen
<1>1. ASSUME PInv, RunInv, LibInv, [PipelineNext]_pipelineVars PROVE kept
  <2>1. CASE UNCHANGED pipelineVars
    BY <2>1 DEF pipelineVars, disk, process
  <2>2. CASE PromoteLock \/ PromoteCopy
    BY <2>2 DEF PromoteLock, PromoteCopy, Publishes, Executing
  <2>3. CASE PromoteAgain \/ PromotePrepare \/ PromoteCheck \/ PromoteMark
    BY <2>3 DEF PromoteAgain, PromotePrepare, PromoteCheck, PromoteMark
  <2>4. CASE PromoteCommit
    <3>1. PICK r, blocks, add :
             /\ r \in receipts /\ AtCheck(blocks)
             /\ Accepts => lib'.cases = blocks \cup {add} /\ lib'.pend = lib.pend
             /\ ~Accepts => lib'.pend = blocks \cup {add} /\ lib'.cases = lib.cases
      BY <1>1, <2>4, CommitSwaps
    <3>2. /\ Accepts => Target(lib) = lib.cases
          /\ ~Accepts => Target(lib) = lib.pend
      BY <1>1, SwappedIs DEF LibInv
    <3>3. Target(lib) \ unseen \subseteq blocks
      BY <3>1 DEF AtCheck
    <3> QED
      BY <3>1, <3>2, <3>3
  <2>5. CASE CuratorAdds
    <3>1. \E add : lib'.cases = lib.cases \cup {add} \/ lib'.cases = lib.cases
      BY <1>1, <2>5, CuratorAddsOne
    <3>2. pc' = pc
      BY <2>5, Remembered
    <3> QED
      BY <3>1, <3>2
  <2>6. CASE CuratorConfirms
    <3>1. \E add : lib'.cases = lib.cases \cup {add}
      BY <1>1, <2>6, ConfirmMoves
    <3>2. pc' = pc
      BY <2>6, Remembered
    <3> QED
      BY <3>1, <3>2
  <2>7. ASSUME UNCHANGED <<lib, receipts, unseen>>, pc' \notin Publication PROVE kept
    BY <2>7 DEF Publication
  <2>8. CASE MaterialChanges \/ OutputChanges
    BY <2>8 DEF MaterialChanges, OutputChanges, Change
  <2> HIDE DEF kept
  <2> QED
    BY <1>1, <2>1, <2>2, <2>3, <2>4, <2>5, <2>6, <2>7, <2>8, LibElsewhere DEF PipelineNext
<1>2. (PInv /\ RunInv /\ LibInv) /\ [PipelineNext]_pipelineVars => [kept]_pipelineVars
  BY <1>1
<1>3. OthersKept <=> [][kept]_pipelineVars
  BY DEF OthersKept
<1> QED
  BY <1>2, <1>3, PipelineSoundInvariant, PTL DEF PipelineSpec

(* What has been reported of a good diagnosis tells of the material there  *)
(* is.                                                                     *)
LEMMA ReportedMaterial ==
  ASSUME Files, steady, \A t \in StageIds : Good(saved[1], t)
  PROVE  Result("report").material = material
<1> DEFINE d == art["diagnose"]
<1> DEFINE a == art["report"]
<1> DEFINE fp == a[1].fp
<1>1. {"diagnose", "report"} \subseteq StageIds
  BY StageFacts
<1>2. ASSUME NEW s \in {"diagnose", "report"}
      PROVE  /\ art[s] # <<>> /\ art[s][1].result # <<>> /\ Artifact(art[s][1])
             /\ FromInputs(s, art[s][1], material)
            /\ Fits(art[s][1].fp, s, saved[1][s].rev, art, {material})
  <2>1. s \in StageIds /\ GoodIn(saved[1][s], s, art, {material}, tampered)
    BY <1>1 DEF Good, Versions, Altered
  <2>2. art[s] # <<>> /\ ValidateBusiness(s, art[s][1], art, tampered)
        /\ Fits(art[s][1].fp, s, saved[1][s].rev, art, {material})
    BY <2>1 DEF GoodIn
  <2> QED
    BY <2>1, <2>2 DEF Files, ValidateBusiness
<1>3. Dated(d[1].result[1].material, d[1].fp[1].mat, material)
  BY <1>2 DEF FromInputs
<1>4. d[1].fp[1].mat = material
  BY <1>2 DEF Fits
<1>5. fp[1].up[4] = HashOf(d)
  <2> DEFINE up == [i \in 1..(At("report") - 1) |-> HashOf(art[Stages[i]])]
  <2>1. fp = <<[mat |-> fp[1].mat, up |-> up, rev |-> saved[1]["report"].rev, lib |-> fp[1].lib]>>
    BY <1>2 DEF Fits
  <2>2. up[4] = HashOf(d)
    BY Readers
  <2> HIDE DEF up, fp
  <2>3. fp[1].up = up
    BY <2>1
  <2> QED
    BY <2>2, <2>3 DEF fp
<1>6. HashOf(d)[1].result = d[1].result
  BY <1>2, HashKeepsResult
<1>7. a[1].result = <<ReportFrom(fp)>>
  BY <1>2 DEF FromInputs
<1>8. ReportFrom(fp).material = d[1].result[1].material
  <2> DEFINE diagnosis == fp[1].up[4][1].result[1]
  <2> DEFINE score == fp[1].up[5][1].result[1]
  <2>1. ReportFrom(fp) = ReportResult(diagnosis, score)
    BY DEF ReportFrom
  <2>2. diagnosis = d[1].result[1]
    BY <1>5, <1>6
  <2> HIDE DEF diagnosis, score
  <2> QED
    BY <2>1, <2>2, ReportIs
<1>10. material \notin 1 .. (material - 1)
  OBVIOUS
<1>9. a[1].result[1].material = d[1].result[1].material
  <2> DEFINE report == ReportFrom(fp)
  <2> HIDE DEF report, a
  <2>1. a[1].result = <<report>>
    BY <1>7 DEF report
  <2> QED
    BY <1>8, <2>1 DEF report
<1> QED
  BY <1>3, <1>4, <1>10, <1>9 DEF Result, Dated

(* A stage that is good may be reused, the library left aside.             *)
LEMMA GoodIsReusable ==
  ASSUME NEW s \in StageIds, steady, Good(saved[1], s)
  PROVE  Reusable(s, saved[1], art, InputsNow(s), tampered)
<1> DEFINE a == art[s][1]
<1>1. /\ saved[1][s].status \in Done /\ art[s] # <<>> /\ saved[1][s].sha = HashOf(art[s])
      /\ Fits(a.fp, s, saved[1][s].rev, art, {material}) /\ ValidateBusiness(s, a, art, tampered)
  BY DEF Good, GoodIn, Versions, Altered
<1>2. a.fp = InputsNow(s)
  <2> DEFINE up == [i \in 1..(At(s) - 1) |-> HashOf(art[Stages[i]])]
  <2> DEFINE known == IF s \in {"case_lookup", "detect"}
                      THEN LookupLibraryHash(saved[1], art, receipts, lib.cases) ELSE <<>>
  <2> DEFINE fp == InputsFor(s, saved[1], art, material, receipts, lib.cases)
  <2> DEFINE seen == a.fp[1].lib
  <2> DEFINE rev == saved[1][s].rev
  <2>1. a.fp = <<[mat |-> material, up |-> up, rev |-> rev, lib |-> seen]>>
    BY <1>1 DEF Fits
  <2>2. fp = <<[mat |-> material, up |-> up, rev |-> rev, lib |-> known]>>
    BY DEF InputsFor
  <2>3. InputsNow(s) = <<[fp[1] EXCEPT !.lib = seen]>>
    BY DEF InputsNow
  <2> HIDE DEF fp, up, known, seen, rev
  <2>4. [fp[1] EXCEPT !.lib = seen] = [mat |-> material, up |-> up, rev |-> rev, lib |-> seen]
    BY <2>2
  <2> QED
    BY <2>1, <2>3, <2>4
<1>3. ReadCurrent(s, InputsNow(s), art) = art[s]
  BY <1>1, <1>2 DEF ReadCurrent
<1> QED
  BY <1>1, <1>3 DEF Reusable

(* A run that ends well, and under which neither material nor output       *)
(* changed, leaves every stage current, up to what others have added to    *)
(* the library, and a report of the material as it is (main, reusable,     *)
(* run_stage).                                                             *)
THEOREM PipelineEndIsCurrent == PipelineSpec => []EndIsCurrent
<1>1. RunInv => EndIsCurrent
  <2> SUFFICES ASSUME RunInv, exit = "done", ~only, steady
               PROVE  /\ \A s \in StageIds : Reusable(s, saved[1], art, InputsNow(s), tampered)
                      /\ Result("report").material = material
    BY DEF EndIsCurrent
  <2>1. \A t \in StageIds : Good(saved[1], t)
    BY DEF RunInv, Passed
  <2> QED
    BY <2>1, ReportedMaterial, GoodIsReusable DEF RunInv
<1> QED
  BY <1>1, PipelineSoundInvariant, PTL

=============================================================================
