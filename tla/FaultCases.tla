----------------------------- MODULE FaultCases -----------------------------
(***************************************************************************)
(* The case library of the fault-diagnosis skills: the confidence score    *)
(* that decides whether a diagnosis becomes a case (assess_confidence.py)  *)
(* and the tool that writes it (promote_case.py).  A library is            *)
(*   [cases, pend]: the cases of cases.md and of cases-pending.md, sets of *)
(*   [no, from, code, title, body, private, op]; the order in a file is    *)
(*   that of the numbers.  from is <<n>> in a case promoted from candidate *)
(*   n, else <<>>.                                                         *)
(* A report is [code, title, private, op, body]: code and title are the    *)
(* words a duplicate is looked up by ("" when there is none), private that *)
(* the text holds something to be redacted, op names the diagnosis.        *)
(***************************************************************************)
EXTENDS Integers, Sequences, FiniteSets, FiniteSetsExt, SequencesExt

---------------------------------------------------------------------------
(* assess_confidence.py *)

(* the seventeen checks and the points each is worth *)
Points ==
  [has_first_error_line |-> 8, has_env_version |-> 4, has_full_timeline |-> 5,
   has_crash_artifacts |-> 5, has_repro_input |-> 3, multi_source_agree |-> 8,
   timeline_consistent |-> 6, no_contradiction |-> 6, root_cause_localized |-> 8,
   chain_no_gap |-> 9, alternatives_excluded |-> 8, reproducible |-> 6,
   fix_verified |-> 6, regression_checked |-> 3, errcode_documented |-> 5,
   case_matched |-> 5, source_code_confirmed |-> 5]

CheckKeys == DOMAIN Points
CriticalKeys == {"has_first_error_line", "chain_no_gap"}

Level(total) ==
  IF total >= 85 THEN "HIGH" ELSE IF total >= 70 THEN "MEDIUM"
  ELSE IF total >= 50 THEN "LOW" ELSE "INSUFFICIENT"

(* what the library does with a diagnosis of that score *)
Gate(total, met) ==
  IF ~(CriticalKeys \subseteq met) \/ total < 70 THEN "reject"
  ELSE IF Level(total) = "HIGH" /\ {"root_cause_localized", "fix_verified"} \subseteq met
       THEN "accept" ELSE "pending"

(* score(): met is the set of checks that are true *)
Score(met) ==
  LET total == MapThenSumSet(LAMBDA k : Points[k], met)
  IN  [total |-> total, level |-> Level(total), gate |-> Gate(total, met),
       missing |-> CheckKeys \ met]

---------------------------------------------------------------------------
(* promote_case.py *)

NoLibrary == [cases |-> {}, pend |-> {}]

(* next_case_id: one more than the largest number the file mentions.  The  *)
(* expression CASE-(\d+) also finds the number of a candidate a case was   *)
(* promoted from, which its block names.                                   *)
NextCaseId(blocks) ==
  Max({0} \cup UNION {{b.no} \cup Range(b.from) : b \in blocks}) + 1

(* find_duplicate: by error code, then by the words of the title *)
IsDuplicate(blocks, report) ==
  \E b \in blocks :
    \/ report.code # "" /\ b.code = report.code
    \/ report.title # "" /\ b.title = report.title

Block(no, report) ==
  [no |-> no, from |-> <<>>, code |-> report.code, title |-> report.title,
   body |-> report.body, op |-> report.op, private |-> report.private]

(* main() on a report: the answer's exit code and the library it leaves.   *)
(* A pending case is looked up in both files.                              *)
PromoteReport(lib, report, gate) ==
  LET target == IF gate = "accept" THEN lib.cases ELSE lib.pend
      known  == IF gate = "accept" THEN lib.cases ELSE lib.pend \cup lib.cases
      added  == target \cup {Block(NextCaseId(target), report)}
      stop(code) == [code |-> code, lib |-> lib, no |-> 0]
  IN  IF gate = "reject" THEN stop(2)
      ELSE IF IsDuplicate(known, report) THEN stop(4)
      ELSE IF report.private THEN stop(3)
      ELSE [code |-> 0, no |-> NextCaseId(target),
            lib |-> IF gate = "accept" THEN [lib EXCEPT !.cases = added]
                                       ELSE [lib EXCEPT !.pend = added]]

(* do_promote, first write: the candidate of that number is appended to    *)
(* cases.md with a number of its own and the one it came from              *)
Confirmable(lib, no) ==
  \E b \in lib.pend : b.no = no /\ ~b.private

AppendConfirmed(lib, no) ==
  LET b == CHOOSE c \in lib.pend : c.no = no
  IN  [lib EXCEPT !.cases = @ \cup {[b EXCEPT !.no = NextCaseId(lib.cases), !.from = <<no>>]}]

(* do_promote, second write: the candidate leaves cases-pending.md *)
DropCandidate(lib, no) ==
  [lib EXCEPT !.pend = {b \in @ : b.no # no}]
=============================================================================
