----------------------------- MODULE FaultStages ----------------------------
(***************************************************************************)
(* The seven stages of the fault-diagnosis pipeline (run_pipeline.py) and  *)
(* the contract of the Markdown artifact each of them delivers             *)
(* (artifact_contract.py): what an artifact depends on, when it is         *)
(* complete, when a finished stage may be reused and what each stage       *)
(* computes.                                                               *)
(*                                                                         *)
(* state (state.json): a record of the stages,                             *)
(*   [status, attempts, rev, fp, sha, err]; fp and sha are <<>> for null.  *)
(* art: the artifact files, <<>> or <<[status, attempt, fp, result,        *)
(*   sides]>>; result is <<>> or <<r>>, sides the work directories whose   *)
(*   files the artifact declares as outputs with their hashes.             *)
(* A revision (a fresh uuid) is a counter, a hash stands for the content   *)
(* that two versions of a file differ in.                                  *)
(***************************************************************************)
EXTENDS FaultDetect, FaultCases, FaultReport

Stages == <<"case_lookup", "detect", "clean", "diagnose", "confidence", "promote", "report">>
StageIds == Range(Stages)
At(s) == CHOOSE i \in DOMAIN Stages : Stages[i] = s
Before(s) == {Stages[i] : i \in 1..(At(s) - 1)}
From(s) == SubSeq(Stages, At(s), Len(Stages))

Done == {"success", "skipped"}

---------------------------------------------------------------------------
(* state.json *)

BlankStage ==
  [status |-> "pending", attempts |-> 0, rev |-> 1, fp |-> <<>>, sha |-> <<>>, err |-> "none"]

NewState == [s \in StageIds |-> BlankStage]

(* Stage s and those after it start afresh under a new revision; the       *)
(* number of attempts goes on, it names their work directories.            *)
Invalidate_AttemptsToo(state, s) ==
  [t \in StageIds |-> IF t \in Before(s) THEN state[t]
                      ELSE [BlankStage EXCEPT !.rev = state[t].rev + 1]]
Invalidate(state, s) ==
  [t \in StageIds |-> IF t \in Before(s) THEN state[t]
                      ELSE [BlankStage EXCEPT !.rev = state[t].rev + 1,
                                              !.attempts = state[t].attempts]]

---------------------------------------------------------------------------
(* Fingerprints *)

(* what tells two contents of one artifact file apart: every execution and *)
(* every acceptance has an attempt of its own                              *)
HashOf(file) ==
  IF file = <<>> THEN <<>>
  ELSE <<[file[1] EXCEPT !.fp = IF @ = <<>> THEN 0 ELSE @[1].rev]>>

(* the library `cases` became what it is from `seen` by the publications   *)
(* `own` alone, followed back one after the other                          *)
GrownFrom(cases, seen, own) ==
  \E n \in 0..Cardinality(own) :
    \E chain \in [0..n -> {cases} \cup {r.before : r \in own}] :
      /\ chain[0] = cases /\ chain[n] = seen
      /\ \A i \in 1..n : \E r \in own : r.after = chain[i - 1] /\ r.before = chain[i]

(* lookup_library_hash: the library as the lookup saw it, when the run's   *)
(* own publications, followed back from the library's present content,     *)
(* lead there; else its present content.                                   *)
SeenOrPresent(state, art, own, cases) ==
  LET seen == art["case_lookup"]
  IN  IF /\ seen # <<>>
         /\ seen[1].fp[1].rev = state["case_lookup"].rev
         /\ GrownFrom(cases, seen[1].fp[1].lib, own)
      THEN seen[1].fp[1].lib ELSE cases
LookupLibraryHash_MarkedOnly(state, art, receipts, cases) ==
  SeenOrPresent(state, art, {r \in receipts : r.target = "cases" /\ r.status = "committed"}, cases)
LookupLibraryHash(state, art, receipts, cases) ==
  SeenOrPresent(state, art, {r \in receipts : r.target = "cases"}, cases)

InputsFor_PathsOnly(s, state, art, material, receipts, cases) ==
  <<[mat |-> 1,
     up  |-> [i \in 1..(At(s) - 1) |-> HashOf(art[Stages[i]])],
     rev |-> state[s].rev,
     lib |-> IF s \in {"case_lookup", "detect"}
             THEN LookupLibraryHash(state, art, receipts, cases) ELSE <<>>]>>

(* inputs_for: the material, every earlier artifact, the revision, and for *)
(* the two stages that read it the case library.  Parameters and scripts   *)
(* do not change.                                                          *)
InputsFor(s, state, art, material, receipts, cases) ==
  <<[mat |-> material,
     up  |-> [i \in 1..(At(s) - 1) |-> HashOf(art[Stages[i]])],
     rev |-> state[s].rev,
     lib |-> IF s \in {"case_lookup", "detect"}
             THEN LookupLibraryHash(state, art, receipts, cases) ELSE <<>>]>>

---------------------------------------------------------------------------
(* Artifacts *)

NewArtifact(attempt, fp, result) ==
  [status |-> "running", attempt |-> attempt, fp |-> fp, result |-> result, sides |-> {}]

Analysed == {"reviewed", "evidence_only"}

(* validate_business: complete, skipped only where that is allowed, with   *)
(* the fields of its stage, and its other outputs unchanged.  A report     *)
(* must repeat the confidence artifact it was made from.                   *)
ValidateBusiness_AnyAnalysis(s, a, art, tampered) ==
  /\ a.status \in Done
  /\ a.status = "skipped" => s \in {"clean", "promote"}
  /\ a.result # <<>>
  /\ s = "clean" /\ a.result[1].applicable =>
       /\ a.result[1].read = a.result[1].kept + a.result[1].folded
       /\ a.sides # {}
  /\ s = "report" => art["confidence"] # <<>> /\ art["confidence"][1].result = <<a.result[1].conf>>
  /\ a.sides \cap tampered = {}
ValidateBusiness(s, a, art, tampered) ==
  /\ a.status \in Done
  /\ a.status = "skipped" => s \in {"clean", "promote"}
  /\ a.result # <<>>
  /\ s = "diagnose" => a.result[1].analysis \in Analysed
  /\ s = "clean" /\ a.result[1].applicable =>
       /\ a.result[1].read = a.result[1].kept + a.result[1].folded
       /\ a.sides # {}
  /\ s = "report" => art["confidence"] # <<>> /\ art["confidence"][1].result = <<a.result[1].conf>>
  /\ a.sides \cap tampered = {}

(* read_current: the artifact of this run made from these inputs *)
ReadCurrent(s, fp, art) ==
  IF art[s] # <<>> /\ art[s][1].fp = fp THEN art[s] ELSE <<>>

(* reusable: finished, made from what there is now, and unchanged since *)
Reusable(s, state, art, fp, tampered) ==
  LET current == ReadCurrent(s, fp, art)
  IN  /\ state[s].status \in Done
      /\ current # <<>>
      /\ ValidateBusiness(s, current[1], art, tampered)
      /\ HashOf(art[s]) = state[s].sha

---------------------------------------------------------------------------
(* What the stages compute *)

(* conservative_clean: only a heartbeat that repeats the line before it is *)
(* folded, and only within a file; a binary file is no log                 *)
Folded(file) ==
  {i \in 2..Len(file.lines) : file.lines[i].beat /\ file.lines[i].text = file.lines[i - 1].text}

CleanResult(files) ==
  LET logs   == {f \in DOMAIN files : files[f].suffix = "text"}
      lines  == UNION {{f} \X DOMAIN files[f].lines : f \in logs}
      folded == {l \in lines : l[2] \in Folded(files[l[1]])}
  IN  [applicable |-> logs # {}, read |-> Cardinality(lines), folded |-> Cardinality(folded),
       kept |-> Cardinality(lines \ folded)]

(* _auto_diagnose: a draft from the errors of the routing stages and the   *)
(* trace; it judges what can be counted and leaves the rest to the agent.  *)
(* Its one piece of advice is to collect what is missing.                  *)
DraftDiagnosis(plan, scenario, lookup, trace, material) ==
  LET errors   == IF scenario.errors # <<>> THEN scenario.errors ELSE lookup.errors
      timeline == IF TraceTimeline(trace) # <<>> THEN TraceTimeline(trace) ELSE ErrorTimeline(errors)
      edges    == IF trace = <<>> THEN {} ELSE Range(trace[1].edges)
      complete == trace # <<>> /\ trace[1].status = "complete"
      met      == {k \in {"has_first_error_line"} : errors # <<>>}
                  \cup {k \in {"has_full_timeline"} : complete /\ Len(timeline) > 1}
                  \cup {k \in {"has_crash_artifacts"} :
                          "crash" \notin ({scenario.primary} \cup scenario.secondary)}
                  \cup {k \in {"chain_no_gap"} :
                          edges # {} /\ \A e \in edges : e.strength = "proven"}
  IN  [analysis |-> IF plan.evidenceOnly THEN "evidence_only" ELSE "draft",
       first    |-> SubSeq(errors, 1, IF errors = <<>> THEN 0 ELSE 1),
       met      |-> met, material |-> material, timeline |-> timeline, trace |-> trace,
       advice   |-> <<[layer |-> "component", component |-> <<>>, worded |-> TRUE]>>,
       gaps     |-> scenario.missing \cup {g \in {"trace"} : ~complete}
                    \cup {g \in {"first error"} : errors = <<>>}]

(* the report: the confidence as it is, the diagnosis's first error, and   *)
(* the page drawn from the diagnosis and its trace                         *)
Page(diagnosis, confidence) ==
  ReportData(diagnosis.timeline, diagnosis.advice, confidence.level, diagnosis.trace)

ReportResult(diagnosis, confidence) ==
  [conf |-> confidence, first |-> diagnosis.first, limits |-> diagnosis.gaps,
   material |-> diagnosis.material, causes |-> Causes(Page(diagnosis, confidence)),
   calls |-> Calls(Page(diagnosis, confidence))]

(* the operation a publication is known by *)
Operation(diagnosis, score) == <<diagnosis, score.gate>>
=============================================================================
