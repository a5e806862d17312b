---------------------------- MODULE FaultPipeline ---------------------------
(***************************************************************************)
(* run_pipeline.py: the resumable pipeline of the fault-diagnosis skills.  *)
(* A run takes the lock of its state directory, decides which stages are   *)
(* still current, executes the others in order and keeps state.json and    *)
(* one artifact per stage on disk.  It may be killed between any two       *)
(* writes; what it held in memory is then lost and its lock files stay.    *)
(* Between runs an agent completes the diagnosis.  At any moment, also     *)
(* under a run, the material changes, a finished output is altered and     *)
(* other people edit the case library: nothing locks them out.             *)
(*                                                                         *)
(* On disk: saved (state.json, <<>> when absent), art, receipts, lib,      *)
(* work (the work directories), tampered (work directories with a changed  *)
(* output), lock and libLock ("free", "held" by the run, "dead").          *)
(* In the process: pc, mem (its copy of the state), todo (the stages left  *)
(* to it), cur (the artifact it is working on and its copy of the          *)
(* library), only, exit.                                                   *)
(* History: steady (no material or output has changed since this run       *)
(* began), unseen (what others wrote into the library where a publication  *)
(* at work could not notice it).                                           *)
(***************************************************************************)
EXTENDS FaultStages, TLC

CONSTANTS
  Plans,         \* the plans a behaviour may start from; the budget of a plan bounds
                 \* its launches, crashes, faults of a stage and changes from outside
  Material,      \* Material[m]: the files of input version m
  TraceOf        \* TraceOf[m]: what trace-skill makes of it

ASSUME PlansAssumption ==
  \A p \in Plans : p.restarts \subseteq StageIds /\ p.onlys \subseteq StageIds

(* what others write, before and meanwhile, is no operation of a run *)
ASSUME LibraryAssumption ==
  \A p \in Plans :
    /\ p.library = [cases |-> p.library.cases, pend |-> p.library.pend]
    /\ \A b \in p.library.cases \cup p.library.pend :
         b.op = <<>> /\ b = [Block(b.no, b) EXCEPT !.from = b.from]
    /\ p.other.op = <<>>

(* the material is finite: files of finitely many lines *)
ASSUME MaterialAssumption ==
  /\ Material \in Seq(Range(Material)) /\ Material # <<>>
  /\ \A m \in DOMAIN Material :
       /\ IsFiniteSet(DOMAIN Material[m])
       /\ \A f \in DOMAIN Material[m] : IsFiniteSet(DOMAIN Material[m][f].lines)

VARIABLES plan, material, saved, art, receipts, lib, work, tampered, lock, libLock,
          pc, mem, todo, cur, only, exit, left, steady, unseen

disk == <<saved, art, receipts, lib, work, tampered, lock, libLock>>
process == <<pc, mem, todo, cur, only, exit>>
history == <<steady, unseen>>
pipelineVars == <<plan, material, disk, process, left, history>>

Idle == pc = "idle"

Inputs(s) == InputsFor(s, mem, art, material, receipts, lib.cases)
Current(s) == Reusable(s, mem, art, Inputs(s), tampered)

NoWork == [art |-> <<>>, then |-> "stop", lib |-> NoLibrary]

PipelineInit ==
  /\ plan \in Plans
  /\ material = 1
  /\ saved = <<>>
  /\ art = [s \in StageIds |-> <<>>]
  /\ receipts = {}
  /\ lib = plan.library
  /\ work = {} /\ tampered = {}
  /\ lock = "free" /\ libLock = "free"
  /\ pc = "idle" /\ mem = NewState /\ todo = <<>> /\ cur = NoWork
  /\ only = FALSE /\ exit = "none"
  /\ left = plan.budget
  /\ steady = TRUE /\ unseen = {}

Spend(what) == left[what] > 0 /\ left' = [left EXCEPT ![what] = @ - 1]

---------------------------------------------------------------------------
(* Starting *)

(* acquire_lock: an existing lock is only taken over with --force-unlock,  *)
(* and when its process is gone                                            *)
Launch(force) ==
  /\ Idle /\ Spend("launch")
  /\ IF lock = "free" \/ force
     THEN lock' = "held" /\ pc' = "locked" /\ exit' = "none"
     ELSE lock' = lock /\ pc' = "idle" /\ exit' = "conflict"
  /\ UNCHANGED <<plan, material, saved, art, receipts, lib, work, tampered, libLock,
                 mem, todo, cur, only, history>>

Loaded == IF saved = <<>> THEN NewState ELSE saved[1]

(* what the chosen mode does with the loaded state: an existing state      *)
(* needs a mode, the stages before a chosen one must all be reusable       *)
Refused(mode, s, state) ==
  \/ mode = "fresh" /\ saved # <<>>
  \/ /\ mode \in {"restart", "only"}
     /\ \E t \in Before(s) :
          ~Reusable(t, state, art, InputsFor(t, state, art, material, receipts, lib.cases), tampered)

(* --resume: the first stage that is finished but no longer reusable, or   *)
(* that was begun on other inputs, starts afresh with those after it       *)
Outdated(state) ==
  {s \in StageIds :
     LET fp == InputsFor(s, state, art, material, receipts, lib.cases)
     IN  \/ state[s].status \in Done /\ ~Reusable(s, state, art, fp, tampered)
         \/ state[s].fp # <<>> /\ state[s].fp # fp}

Earliest(stages) == CHOOSE s \in stages : Before(s) \cap stages = {}

(* main(), up to its first save of the state.  A mode is only asked for    *)
(* once there is a state.                                                  *)
Begin(mode, s) ==
  /\ pc = "locked"
  /\ mode # "fresh" => saved # <<>>
  /\ LET state == Loaded
     IN  IF Refused(mode, s, state)
         THEN /\ pc' = "idle" /\ exit' = "conflict" /\ lock' = "free"
              /\ UNCHANGED <<saved, mem, todo, only, steady>>
         ELSE /\ mem' = IF mode \in {"restart", "only"} THEN Invalidate(state, s)
                        ELSE IF mode = "resume" /\ Outdated(state) # {}
                        THEN Invalidate(state, Earliest(Outdated(state)))
                        ELSE state
              /\ saved' = <<mem'>>
              /\ todo' = IF mode = "only" THEN <<s>>
                         ELSE IF mode = "restart" THEN From(s) ELSE Stages
              /\ only' = (mode = "only")
              /\ pc' = "next" /\ steady' = TRUE /\ UNCHANGED <<exit, lock>>
  /\ UNCHANGED <<plan, material, art, receipts, lib, work, tampered, libLock, cur, left,
                 unseen>>

---------------------------------------------------------------------------
(* Ending: the index is written, the lock released, the memory gone *)

Stop(code) ==
  /\ pc' = "idle" /\ exit' = code /\ lock' = "free"
  /\ mem' = NewState /\ todo' = <<>> /\ cur' = NoWork

Finish ==
  /\ pc = "next" /\ todo = <<>>
  /\ Stop("done")
  /\ UNCHANGED <<plan, material, saved, art, receipts, lib, work, tampered, libLock, only, left,
                 history>>

(* a crash: the lock files stay *)
Crash ==
  /\ ~Idle /\ Spend("crash")
  /\ pc' = "idle" /\ exit' = "none"
  /\ mem' = NewState /\ todo' = <<>> /\ cur' = NoWork
  /\ lock' = "dead"
  /\ libLock' = IF libLock = "held" THEN "dead" ELSE libLock
  /\ UNCHANGED <<plan, material, saved, art, receipts, lib, work, tampered, only, history>>

---------------------------------------------------------------------------
(* run_stage() *)

Stage == Head(todo)
Previous == mem[Stage]
Found == ReadCurrent(Stage, Inputs(Stage), art)

(* a stage that is still current is passed over *)
Skip ==
  /\ pc = "next" /\ todo # <<>> /\ Current(Stage)
  /\ todo' = Tail(todo)
  /\ UNCHANGED <<plan, material, disk, pc, mem, cur, only, exit, left, history>>

Due == pc = "next" /\ todo # <<>> /\ ~Current(Stage)

(* the agent, or the execution a crash cut short, has delivered a complete *)
(* artifact for the same inputs                                            *)
Acceptable ==
  /\ Found # <<>> /\ Previous.status \in {"blocked", "failed", "running"}
  /\ ValidateBusiness(Stage, Found[1], art, tampered)

Interrupted ==
  Found # <<>> /\ Previous.status = "running" /\ Found[1].status = "running"

Terminal(status, err) == status = "failed" /\ err \notin {"none", "transient", "resource", "interrupted"}

Accept ==
  /\ Due /\ Acceptable
  /\ mem' = [mem EXCEPT ![Stage].attempts = @ + 1]
  /\ cur' = [cur EXCEPT !.art = <<[Found[1] EXCEPT !.attempt = Previous.attempts + 1]>>,
                        !.then = "go"]
  /\ pc' = "write"
  /\ UNCHANGED <<plan, material, disk, todo, only, exit, left,
                 history>>

(* its predecessor died in this stage: recorded, then tried again *)
NoteInterrupted ==
  /\ Due /\ ~Acceptable /\ Interrupted
  /\ cur' = [cur EXCEPT !.art = <<[Found[1] EXCEPT !.status = "failed"]>>, !.then = "again"]
  /\ pc' = "write"
  /\ UNCHANGED <<plan, material, disk, mem, todo, only, exit, left,
                 history>>

(* an artifact still waiting for its agent costs no attempt; an error that *)
(* needs a decision is not tried again                                     *)
Waits == Previous.status = "blocked" /\ Found # <<>> /\ Found[1].status = "blocked"

StayBlocked ==
  /\ Due /\ ~Acceptable /\ ~Interrupted
  /\ \/ Waits /\ Stop("blocked")
     \/ ~Waits /\ Terminal(Previous.status, Previous.err) /\ Stop("failed")
  /\ UNCHANGED <<plan, material, saved, art, receipts, lib, work, tampered, libLock, only, left,
                 history>>

(* a new attempt: the state says running before the artifact is replaced *)
BeginAttempt ==
  /\ Due /\ ~Acceptable /\ ~Interrupted /\ ~Waits
  /\ ~Terminal(Previous.status, Previous.err)
  /\ mem' = [mem EXCEPT ![Stage].attempts = @ + 1, ![Stage].status = "running",
                        ![Stage].fp = Inputs(Stage)]
  /\ saved' = <<mem'>>
  /\ cur' = [cur EXCEPT !.art = <<NewArtifact(Previous.attempts + 1, Inputs(Stage),
                                   IF Found = <<>> THEN <<>> ELSE Found[1].result)>>,
                        !.then = "go"]
  /\ pc' = "announce"
  /\ UNCHANGED <<plan, material, art, receipts, lib, work, tampered, lock, libLock,
                 todo, only, exit, left,
                 history>>

Announce ==
  /\ pc = "announce"
  /\ art' = [art EXCEPT ![Stage] = cur.art]
  /\ work' = work \cup {<<Stage, cur.art[1].attempt>>}
  /\ pc' = "execute"
  /\ UNCHANGED <<plan, material, saved, receipts, lib, tampered, lock, libLock, mem, todo, cur,
                 only, exit, left, history>>

---------------------------------------------------------------------------
(* finalize(): the artifact, then the state *)

WriteArtifact_KeepsExisting ==
  /\ pc = "write"
  /\ art' = IF art[Stage] = <<>> THEN [art EXCEPT ![Stage] = cur.art] ELSE art
  /\ pc' = "save"
  /\ UNCHANGED <<plan, material, saved, receipts, lib, work, tampered, lock, libLock, mem, todo,
                 cur, only, exit, left, history>>

WriteArtifact ==
  /\ pc = "write"
  /\ art' = [art EXCEPT ![Stage] = cur.art]
  /\ pc' = "save"
  /\ UNCHANGED <<plan, material, saved, receipts, lib, work, tampered, lock, libLock, mem, todo,
                 cur, only, exit, left, history>>

Recorded(a, err) ==
  [mem EXCEPT ![Stage].status = a.status, ![Stage].fp = a.fp, ![Stage].err = err,
              ![Stage].sha = HashOf(<<a>>)]

(* transient and resource errors are tried again without limit *)
ErrorOf == IF cur.art[1].status # "failed" THEN "none"
           ELSE IF cur.then = "again" THEN "interrupted" ELSE cur.then

SaveState ==
  /\ pc = "save"
  /\ LET a == cur.art[1]
         after == Recorded(a, ErrorOf)
     IN  /\ saved' = <<after>>
         /\ \/ /\ a.status \in Done
               /\ mem' = after /\ todo' = Tail(todo) /\ cur' = NoWork /\ pc' = "next"
               /\ UNCHANGED <<lock, exit>>
            \/ /\ a.status = "failed" /\ cur.then \in {"again", "transient"}
               /\ mem' = after /\ cur' = NoWork /\ pc' = "next"
               /\ UNCHANGED <<todo, lock, exit>>
            \/ /\ a.status = "failed" /\ cur.then \notin {"again", "transient"}
               /\ Stop("failed")
            \/ a.status = "blocked" /\ Stop("blocked")
  /\ UNCHANGED <<plan, material, art, receipts, lib, work, tampered, libLock, only, left,
                 history>>

---------------------------------------------------------------------------
(* execute() *)

Outcome(status, result, sides, then) ==
  /\ cur' = [cur EXCEPT !.art = <<[@[1] EXCEPT !.status = status, !.result = result,
                                                !.sides = sides]>>,
                        !.then = then]
  /\ pc' = "write"

Deliver(result) == Outcome("success", <<result>>, {}, "go")
Wait == Outcome("blocked", cur.art[1].result, {}, "go")
Fail(class) == Outcome("failed", cur.art[1].result, {}, class)

Executing(s) == pc = "execute" /\ Stage = s /\ s \notin plan.manual
Untouched == UNCHANGED <<plan, material, disk, mem, todo, only, exit, history>>
Result(s) == art[s][1].result[1]
Scan == ScanInput(Material[material], plan.maxFiles)
Printed == <<material, plan.asked>>

(* a stage handed to an equivalent executor waits for its artifact *)
ExecuteManual ==
  /\ pc = "execute" /\ Stage \in plan.manual
  /\ Wait /\ Untouched /\ UNCHANGED left

(* the child process, or the stage's own I/O, fails *)
ExecuteFails(class) ==
  /\ pc = "execute" /\ Stage \notin plan.manual
  /\ Spend("fault") /\ Fail(class) /\ Untouched

Signatures(cases) == {[title |-> c.title, signature |-> c.body] : c \in cases}

ExecuteLookup ==
  /\ Executing("case_lookup")
  /\ Deliver(LookupCases(Scan, Printed, lib.cases, Signatures(lib.cases), plan.readable))
  /\ Untouched /\ UNCHANGED left

(* the scenario is only named on a lookup of this material and of the      *)
(* library as it is now; else the script's exit code 2 is a permanent      *)
(* failure                                                                 *)
ExecuteDetect ==
  /\ Executing("detect")
  /\ IF LookupIsCurrent(Result("case_lookup"), Printed, lib.cases, plan.readable)
     THEN Deliver(BuildPlan(Scan, plan.asked, Result("case_lookup")))
     ELSE Fail("permanent")
  /\ Untouched /\ UNCHANGED left

ExecuteClean ==
  /\ Executing("clean")
  /\ LET result == CleanResult(Material[material])
     IN  Outcome("success", <<result>>,
                 IF result.applicable THEN {<<"clean", cur.art[1].attempt>>} ELSE {}, "go")
  /\ Untouched /\ UNCHANGED left

(* the draft waits for the agent unless only evidence was asked for; a     *)
(* trace that cannot be built is a gap in the evidence                     *)
ExecuteDiagnose ==
  /\ Executing("diagnose")
  /\ \E draft \in {DraftDiagnosis(plan, Result("detect"), Result("case_lookup"),
                                  IF plan.traced THEN TraceOf[material] ELSE <<>>, material)} :
       Outcome(IF plan.evidenceOnly THEN "success" ELSE "blocked", <<draft>>, {}, "go")
  /\ Untouched /\ UNCHANGED left

ExecuteConfidence ==
  /\ Executing("confidence")
  /\ Deliver(Score(Result("diagnose").met))
  /\ Untouched /\ UNCHANGED left

(* a diagnosis the page cannot show is a permanent failure *)
ExecuteReport ==
  /\ Executing("report")
  /\ IF Accepted(Page(Result("diagnose"), Result("confidence")))
     THEN Deliver(ReportResult(Result("diagnose"), Result("confidence")))
     ELSE Fail("permanent")
  /\ Untouched /\ UNCHANGED left

---------------------------------------------------------------------------
(* promote(): the one stage with an effect outside the state directory *)

ThisScore == Result("confidence")
ThisOperation == Operation(Result("diagnose"), ThisScore)
Decision(d, no) == [decision |-> d, gate |-> ThisScore.gate, no |-> no]
TargetName(gate) == IF gate = "accept" THEN "cases" ELSE "pend"
Target(library) == library[TargetName(ThisScore.gate)]

PromoteNothing ==
  /\ Executing("promote")
  /\ ~plan.enabled \/ ThisScore.gate = "reject"
  /\ Outcome("skipped", <<Decision("skipped", 0)>>, {}, "go")
  /\ Untouched /\ UNCHANGED left

Publishes == Executing("promote") /\ plan.enabled /\ ThisScore.gate # "reject"

(* enabled without a target directory *)
PromoteNowhere ==
  /\ Publishes /\ ~plan.target
  /\ Wait /\ Untouched /\ UNCHANGED left

(* the library has a lock file of its own, taken without --force-unlock: a *)
(* lock left there by a crash is a conflict, which no retry resolves       *)
PromoteLock ==
  /\ Publishes /\ plan.target
  /\ IF libLock = "free"
     THEN libLock' = "held" /\ pc' = "publish" /\ UNCHANGED cur
     ELSE Fail("conflict") /\ UNCHANGED libLock
  /\ UNCHANGED <<plan, material, saved, art, receipts, lib, work, tampered, lock, mem, todo, only,
                 exit, left, history>>

Receipt == {r \in receipts : r.op = ThisOperation}
Marked == {IF r.op = ThisOperation THEN [r EXCEPT !.status = "committed"] ELSE r : r \in receipts}

(* a receipt of this operation: published already, or no one can tell *)
PromoteAgain ==
  /\ pc = "publish" /\ Receipt # {}
  /\ libLock' = "free"
  /\ IF \E r \in Receipt : Target(lib) = r.after
     THEN /\ receipts' = Marked
          /\ Outcome("success", <<Decision("already_committed", (CHOOSE r \in Receipt : TRUE).no)>>,
                     {}, "go")
     ELSE Wait /\ UNCHANGED receipts
  /\ UNCHANGED <<plan, material, saved, art, lib, work, tampered, lock, mem, todo, only, exit, left,
                 history>>

Body == [code |-> plan.code, title |-> plan.title, private |-> plan.private,
         op |-> ThisOperation, body |-> [i \in DOMAIN Result("diagnose").first |->
                                           Result("diagnose").first[i].seen]]

(* the promotion tool is to work on a copy of the two files *)
PromoteCopy ==
  /\ pc = "publish" /\ Receipt = {}
  /\ cur' = [cur EXCEPT !.lib = lib]
  /\ pc' = "copied"
  /\ UNCHANGED <<plan, material, saved, art, receipts, lib, work, tampered, lock, libLock, mem, todo,
                 only, exit, left, history>>

(* The target is hashed only now, not when it was copied.  The tool's      *)
(* refusals wait for a person, and a receipt is on disk before the library *)
(* is touched.                                                             *)
PromotePrepare ==
  /\ pc = "copied"
  /\ \E done \in {PromoteReport(cur.lib, Body, ThisScore.gate)} :
       IF done.code # 0
       THEN Wait /\ libLock' = "free" /\ UNCHANGED receipts
       ELSE /\ receipts' = receipts \cup
                 {[op |-> ThisOperation, target |-> TargetName(ThisScore.gate), before |-> Target(lib),
                   after |-> Target(done.lib), status |-> "prepared", no |-> done.no]}
            /\ cur' = [cur EXCEPT !.lib = done.lib]
            /\ pc' = "prepared" /\ UNCHANGED libLock
  /\ UNCHANGED <<plan, material, saved, art, lib, work, tampered, lock, mem, todo, only, exit, left,
                 history>>

ThisReceipt == CHOOSE r \in Receipt : TRUE

PromoteCheck_Unchecked ==
  /\ pc = "prepared" /\ pc' = "checked"
  /\ UNCHANGED <<plan, material, saved, art, receipts, lib, work, tampered, lock, libLock, mem, todo,
                 cur, only, exit, left, history>>

(* the target must still be as it was when it was hashed *)
PromoteCheck ==
  /\ pc = "prepared"
  /\ IF Target(lib) = ThisReceipt.before
     THEN pc' = "checked" /\ UNCHANGED <<cur, libLock>>
     ELSE Wait /\ libLock' = "free"
  /\ UNCHANGED <<plan, material, saved, art, receipts, lib, work, tampered, lock, mem, todo, only,
                 exit, left, history>>

(* the staged file replaces the target, whatever the target is by now *)
PromoteCommit ==
  /\ pc = "checked"
  /\ lib' = [lib EXCEPT ![TargetName(ThisScore.gate)] = ThisReceipt.after]
  /\ pc' = "committed"
  /\ UNCHANGED <<plan, material, saved, art, receipts, work, tampered, lock, libLock, mem, todo, cur,
                 only, exit, left, history>>

PromoteMark ==
  /\ pc = "committed"
  /\ receipts' = Marked
  /\ libLock' = "free"
  /\ Outcome("success", <<Decision("committed", ThisReceipt.no)>>, {}, "go")
  /\ UNCHANGED <<plan, material, saved, art, lib, work, tampered, lock, mem, todo, only, exit, left,
                 history>>

---------------------------------------------------------------------------
(* The others *)

Change == Spend("change") /\ exit' = "none" /\ UNCHANGED <<plan, pc, mem, todo, cur, only, lock>>

(* what is done between two runs only: the agent that works on a waiting   *)
(* artifact is the one that starts the next run                            *)
Outside == Idle /\ Change /\ UNCHANGED history

Completed(a, result, sides) ==
  [a EXCEPT !.status = "success", !.result = <<result>>, !.sides = sides]

Judged(timeline, role) ==
  IF timeline = <<>> \/ role = "" THEN timeline ELSE [timeline EXCEPT ![1].role = role]

Reviewed(d, careless) ==
  [d EXCEPT !.analysis = IF careless THEN "draft" ELSE "reviewed",
            !.met      = plan.met,
            !.timeline = Judged(d.timeline, plan.role),
            !.advice   = IF plan.advice = <<>> THEN d.advice ELSE plan.advice]

(* the agent completes a waiting artifact: its judgement of the checks, of *)
(* the first event and of what to do; a careless one leaves it a draft     *)
AgentReviews(careless) ==
  /\ Outside
  /\ art["diagnose"] # <<>> /\ art["diagnose"][1].status = "blocked"
  /\ art["diagnose"][1].result # <<>>
  /\ art' = [art EXCEPT !["diagnose"] =
       <<Completed(@[1], Reviewed(@[1].result[1], careless), @[1].sides)>>]
  /\ UNCHANGED <<material, saved, receipts, lib, work, tampered, libLock>>

(* an equivalent executor completes the cleaning *)
AgentCleans ==
  /\ Outside
  /\ art["clean"] # <<>> /\ art["clean"][1].status = "blocked"
  /\ art' = [art EXCEPT !["clean"] =
       <<Completed(@[1], CleanResult(Material[material]), {<<"clean", @[1].attempt>>})>>]
  /\ UNCHANGED <<material, saved, receipts, lib, work, tampered, libLock>>

(* The stages read the material one after the other, with no copy and no  *)
(* lock (inputs_for); a content that was replaced does not come back.      *)
MaterialChanges ==
  /\ Change /\ material < Len(Material)
  /\ material' = material + 1
  /\ steady' = FALSE
  /\ UNCHANGED <<saved, art, receipts, lib, work, tampered, libLock, unseen>>

(* an output that has been written is altered *)
OutputChanges ==
  /\ Change
  /\ \E w \in work :
       /\ w[1] = "clean" /\ w \notin tampered
       /\ pc = "execute" => w # <<Stage, cur.art[1].attempt>>
       /\ tampered' = tampered \cup {w}
  /\ steady' = FALSE
  /\ UNCHANGED <<material, saved, art, receipts, lib, work, libLock, unseen>>

(* A publication does not see what is written into the library between its *)
(* copy and its hash of the target, nor after its last look at it.         *)
Unnoticed == pc \in {"copied", "checked"}
Written == (lib'.cases \ lib.cases) \cup (lib'.pend \ lib.pend)

LibraryChanges ==
  /\ Change
  /\ unseen' = unseen \cup IF Unnoticed THEN Written ELSE {}
  /\ UNCHANGED <<material, saved, art, receipts, work, tampered, libLock, steady>>

(* another run or person adds a case *)
CuratorAdds ==
  /\ \E done \in {PromoteReport(lib, plan.other, plan.otherGate)} :
       done.code = 0 /\ lib' = done.lib
  /\ LibraryChanges

(* a candidate is confirmed: two writes, with nothing between them here *)
CuratorConfirms ==
  /\ \E b \in lib.pend :
       Confirmable(lib, b.no) /\ lib' = DropCandidate(AppendConfirmed(lib, b.no), b.no)
  /\ LibraryChanges

(* the left-over lock of the library is reviewed and removed by hand *)
ClearLibraryLock ==
  /\ Outside /\ libLock = "dead" /\ libLock' = "free"
  /\ UNCHANGED <<material, saved, art, receipts, lib, work, tampered>>

---------------------------------------------------------------------------
Modes == {"fresh", "resume"} \X {"case_lookup"} \cup {"restart"} \X plan.restarts
         \cup {"only"} \X plan.onlys

PipelineNext ==
  \/ \E force \in BOOLEAN : Launch(force)
  \/ \E mode \in Modes : Begin(mode[1], mode[2])
  \/ Finish \/ Crash \/ Skip \/ Accept \/ NoteInterrupted \/ StayBlocked \/ BeginAttempt
  \/ Announce \/ WriteArtifact \/ SaveState
  \/ ExecuteManual \/ \E class \in {"transient", "permanent", "interrupted"} : ExecuteFails(class)
  \/ ExecuteLookup \/ ExecuteDetect \/ ExecuteClean \/ ExecuteDiagnose \/ ExecuteConfidence
  \/ ExecuteReport
  \/ PromoteNothing \/ PromoteNowhere \/ PromoteLock \/ PromoteAgain \/ PromoteCopy
  \/ PromotePrepare \/ PromoteCheck \/ PromoteCommit \/ PromoteMark
  \/ \E careless \in BOOLEAN : AgentReviews(careless)
  \/ AgentCleans \/ MaterialChanges \/ OutputChanges \/ CuratorAdds \/ CuratorConfirms
  \/ ClearLibraryLock

PipelineSpec == PipelineInit /\ [][PipelineNext]_pipelineVars

---------------------------------------------------------------------------
(* What the pipeline promises *)

(* The state never speaks of an artifact that is not there: whatever is    *)
(* killed when, a stage saved as finished has the artifact it was saved    *)
(* with (finalize writes the artifact first, a new attempt the state).     *)
StateNeverAhead ==
  saved # <<>> =>
    \A s \in StageIds : saved[1][s].status \in Done => saved[1][s].sha = HashOf(art[s])

(* the inputs of a stage as they are now, but for the case library, which  *)
(* is taken as the stage saw it                                            *)
InputsNow(s) ==
  <<[InputsFor(s, saved[1], art, material, receipts, lib.cases)[1] EXCEPT !.lib = art[s][1].fp[1].lib]>>

(* A run that ends well, and under which neither the material nor an       *)
(* output changed, has produced, or found, every stage current up to what  *)
(* others add to the library meanwhile, and its report tells of the        *)
(* material as it is now, whatever changed under earlier runs (main,       *)
(* reusable).                                                              *)
EndIsCurrent ==
  exit = "done" /\ ~only /\ steady =>
    /\ \A s \in StageIds : Reusable(s, saved[1], art, InputsNow(s), tampered)
    /\ Result("report").material = material

(* The page of a run that ends well claims no call the trace does not      *)
(* prove, and no cause without a review that leaves more than insufficient *)
(* confidence (build_html_report).                                         *)
PageIsBacked ==
  exit = "done" /\ ~only =>
    LET diagnosis == Result("diagnose")
        page      == Result("report")
    IN  /\ \A c \in page.calls :
             \E e \in Range(diagnosis.trace[1].edges) :
               e.strength = "proven" /\ <<e.from, e.to>> = c
        /\ page.causes # {} =>
             diagnosis.analysis = "reviewed" /\ page.conf.level # "INSUFFICIENT"

(* the library without what this run's receipts say it wrote there *)
ByOthers(cases) ==
  {b \in cases : b.from # <<>> \/ ~\E r \in receipts : r.op = b.op}

(* no publication has overlooked a case between its copy and its hash *)
NoneOverlooked == \A r \in receipts : r.before \subseteq r.after

(* The run's own publication, finished or cut short at any point, does not *)
(* make outdated its case lookup nor the routing made from it, unless it   *)
(* overlooked a case of others (lookup_library_hash).                      *)
OwnPublicationKeepsLookup ==
  NoneOverlooked =>
    \A s \in {"case_lookup", "detect"} :
      saved # <<>> /\ saved[1][s].status \in Done =>
        LET fp == saved[1][s].fp[1]
        IN  fp.mat = material /\ ByOthers(fp.lib) = ByOthers(lib.cases) =>
              Reusable(s, saved[1], art, InputsFor(s, saved[1], art, material, receipts, lib.cases),
                       tampered)

(* One diagnosis is published at most once, however often the stage is     *)
(* killed, tried again or restarted (the receipt of promote()), unless its *)
(* candidate was confirmed where a publication could not notice it.        *)
PublishedOnce ==
  \A r \in receipts :
    LET copies == {"cases"} \X {b \in lib.cases : b.op = r.op}
                  \cup {"pend"} \X {b \in lib.pend : b.op = r.op}
    IN  (\A b \in unseen : b.op # r.op) => \A c, d \in copies : c = d

(* What the run publishes among the accepted cases is a diagnosis that was *)
(* reviewed and whose own checks pass the gate.                            *)
PublishedIsReviewed ==
  \A b \in lib.cases :
    (\E r \in receipts : r.op = b.op) /\ b.from = <<>> =>
      b.op[1].analysis \in Analysed /\ Score(b.op[1].met).gate = "accept"

(* Whatever is killed, retried or changed, a diagnosis is published at     *)
(* most once and only when it deserves it (promote, _gate).                *)
PublicationSound == PublishedOnce /\ PublishedIsReviewed

(* A publication takes away only what others wrote between its copy and    *)
(* its hash of the library, or after its last look at it: nothing that was *)
(* there before, and nothing written between the hash and that look        *)
(* (promote, commit_candidate).                                            *)
OthersKept ==
  [][/\ lib.cases \ lib'.cases \subseteq unseen
     /\ pc = "checked" /\ pc' = "committed" => lib.pend \ lib'.pend \subseteq unseen]_pipelineVars

(* No two executions of a stage share a work directory: an attempt number  *)
(* is never used again, across crashes, restarts and accepted artifacts.   *)
WorkIsFresh ==
  [][pc = "announce" /\ pc' = "execute" => <<Stage, cur.art[1].attempt>> \notin work]_pipelineVars
=============================================================================
