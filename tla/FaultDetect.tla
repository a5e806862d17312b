----------------------------- MODULE FaultDetect ----------------------------
(***************************************************************************)
(* detect_scenario.py: the first two stages of the fault-diagnosis         *)
(* pipeline.  It reads the raw material, looks the evidence up in the      *)
(* library of accepted cases and only then names the scenario that routes  *)
(* the diagnosis.                                                          *)
(*                                                                         *)
(* Material is a sequence of files in the order of their names,            *)
(*   [name, suffix, nul, broken, lines, fit, kinds]: suffix is "text" or   *)
(*   "binary", nul that its first bytes hold a zero, broken that it cannot *)
(*   be read, fit how many of its lines lie inside the byte limit, kinds   *)
(*   the material patterns its name matches;                               *)
(* a line is [text, codes, mods, ops, syms, signals, level, word, denies,  *)
(*   absent, device]: the features the expressions find in it, those of    *)
(*   them that stand in a statement of absence or configuration (denies),  *)
(*   whether the whole line says that there is no error (absent), and the  *)
(*   device or rank it names (<<>> or one).                                *)
(***************************************************************************)
EXTENDS Integers, Sequences, FiniteSets, FiniteSetsExt, SequencesExt

---------------------------------------------------------------------------
(* Reading *)

(* observation_text: what the line asserts, its denials masked *)
Observed(line) ==
  [line EXCEPT !.ops = @ \ line.denies, !.syms = @ \ line.denies,
               !.signals = @ \ line.denies, !.word = @ /\ line.denies = {}]

Coverage(file) ==
  IF file.suffix = "binary" \/ (~file.broken /\ file.nul) THEN "binary"
  ELSE IF file.broken THEN "unreadable"
  ELSE IF file.fit < Len(file.lines) THEN "truncated" ELSE "complete"

(* _read_prefix: the complete lines of the prefix, none of a binary file *)
LinesRead(file) ==
  IF Coverage(file) \in {"binary", "unreadable"} THEN <<>>
  ELSE [i \in 1..file.fit |-> [file |-> file.name, line |-> i, seen |-> file.lines[i]]]

(* extract_errors *)
IsError(event) ==
  /\ ~event.seen.absent
  /\ \/ event.seen.level
     \/ Observed(event.seen).word
     \/ event.seen.codes # {}

(* scan_input: files past the limit are inventory only in omitted *)
ScanInput(files, maxFiles) ==
  LET taken  == SubSeq(files, 1, Min({maxFiles, Len(files)}))
      events == FlattenSeq([i \in DOMAIN taken |-> LinesRead(taken[i])])
  IN  [events    |-> events,
       errors    |-> SelectSeq(events, IsError),
       names     |-> Range(taken),
       coverage  |-> {<<f.name, Coverage(f)>> : f \in Range(taken)},
       omitted   |-> Len(files) - Len(taken),
       limited   |-> Len(taken) < Len(files) \/ \E f \in Range(taken) : Coverage(f) # "complete"]

---------------------------------------------------------------------------
(* Looking up *)

Kinds == {"codes", "mods", "ops", "syms"}

(* lookup_cases: a signature line and a log line match on an error code of *)
(* their own, or on a module, an operation and a symptom together.  EZ9999 *)
(* wraps other failures and names none.                                    *)
LinesMatch(signature, event) ==
  LET common(kind) == Observed(signature)[kind] \cap Observed(event.seen)[kind]
  IN  \/ common("codes") \ {"EZ9999"} # {}
      \/ \A kind \in Kinds \ {"codes"} : common(kind) # {}

CaseMatches(scan, known) ==
  {c \in known : \E s \in Range(c.signature), e \in Range(scan.events) : LinesMatch(s, e)}

(* what the lookup answers; readable says that the library could be read *)
LookupCases(scan, print, library, known, readable) ==
  LET matches == IF readable THEN CaseMatches(scan, known) ELSE {}
  IN  [status  |-> IF ~readable \/ known = {} THEN "unavailable"
                   ELSE IF matches # {} THEN "hit" ELSE "miss",
       library |-> library, print |-> print,
       matches |-> {c.title : c \in matches},
       errors  |-> scan.errors]

(* validate_case_result: the lookup must be one of this material and of    *)
(* the library as it is now                                                *)
LookupIsCurrent(answer, print, library, readable) ==
  /\ answer.print = print
  /\ answer.library = library
  /\ readable \/ answer.status = "unavailable"

---------------------------------------------------------------------------
(* Classifying *)

(* CONTENT_SIGNALS: the scenario a signal speaks for and its weight *)
Signal ==
  [crash_signal |-> <<"crash", 60>>, uncaught_exception |-> <<"crash", 50>>,
   aicore_exception |-> <<"aicore_error", 60>>, aicore_fault |-> <<"aicore_error", 50>>,
   oom_allocation |-> <<"oom", 60>>, host_oom |-> <<"oom", 60>>,
   hang_no_progress |-> <<"hang", 50>>, hang_wait |-> <<"hang", 20>>,
   comm_timeout |-> <<"comm_timeout", 60>>, compile_failed |-> <<"compile_error", 60>>,
   precision_nonfinite |-> <<"precision", 60>>, precision_threshold |-> <<"precision", 60>>,
   perf_regression |-> <<"perf_degradation", 50>>,
   card_drop_device |-> <<"card_drop", 60>>, card_drop_pcie |-> <<"card_drop", 50>>,
   atc_conversion_failed |-> <<"offline_inference", 55>>,
   atc_soc_version |-> <<"offline_inference", 55>>,
   offline_inference_error |-> <<"offline_inference", 50>>,
   network_ei0013 |-> <<"network", 60>>, network_link_flap |-> <<"network", 50>>,
   generic_code |-> <<"generic_error", 35>>, generic_failure |-> <<"generic_error", 25>>]

(* the scenarios in the order of their names *)
Scenarios ==
  <<"aicore_error", "card_drop", "comm_timeout", "compile_error", "crash", "generic_error",
    "hang", "network", "offline_inference", "oom", "perf_degradation", "precision">>

(* each signal counts once, however many lines show it *)
Hits(scan) == UNION {Observed(e.seen).signals : e \in Range(scan.events)}

ContentScore(scan, s) ==
  Min({80, MapThenSumSet(LAMBDA g : Signal[g][2], {g \in Hits(scan) : Signal[g][1] = s})})

Strong(scan, s) == ContentScore(scan, s) >= 50

TotalScore(scan, asked, s) == ContentScore(scan, s) + (IF s \in asked THEN 12 ELSE 0)

(* sorted by strength, content, score and name; the generic scenario only  *)
(* counts when nothing specific was observed                               *)
Candidates(scan, asked) ==
  LET specific == \E s \in Range(Scenarios) \ {"generic_error"} : Strong(scan, s)
      kept     == SelectSeq(Scenarios, LAMBDA s :
                    TotalScore(scan, asked, s) > 0 /\ (s # "generic_error" \/ ~specific))
      key(s)   == (IF Strong(scan, s) THEN 1000000 ELSE 0)
                  + ContentScore(scan, s) * 1000 + TotalScore(scan, asked, s)
  IN  SortSeq(kept, LAMBDA a, b :
        \/ key(a) > key(b)
        \/ key(a) = key(b) /\ \E i, j \in DOMAIN Scenarios : Scenarios[i] = a /\ Scenarios[j] = b /\ i < j)

(* the lines that show a strong signal of a scenario; the tool keeps the   *)
(* first three of each signal, the earliest is among them                  *)
Evidence(scan, s) ==
  SelectSeq(scan.events, LAMBDA e :
    \E g \in Observed(e.seen).signals : Signal[g][1] = s /\ Signal[g][2] >= 50)

(* When several scenarios are strong and their first evidence lies in one  *)
(* file, the one seen first in that file routes.                           *)
Primary(scan, candidates) ==
  LET strong   == SelectSeq(candidates, LAMBDA s : Strong(scan, s))
      first(s) == Evidence(scan, s)[1]
  IN  IF /\ Len(strong) > 1
         /\ Cardinality({first(s).file : s \in Range(strong)}) = 1
      THEN strong[CHOOSE i \in DOMAIN strong :
                    \A j \in DOMAIN strong :
                       \/ first(strong[i]).line < first(strong[j]).line
                       \/ first(strong[i]).line = first(strong[j]).line /\ i <= j]
      ELSE candidates[1]

Classify(scan, asked) ==
  LET candidates == Candidates(scan, asked)
      first      == Primary(scan, candidates)
      others     == Range(candidates) \ {first}
      certain    == others = {} /\ Strong(scan, first) /\ ~scan.limited
      shown      == {g \in Hits(scan) : Signal[g][1] = first}
  IN  IF candidates = <<>>
      THEN [primary |-> "unknown", secondary |-> {}, confidence |-> "UNKNOWN"]
      ELSE [primary |-> first, secondary |-> others,
            confidence |-> IF certain /\ Cardinality(shown) >= 2 THEN "HIGH"
                           ELSE IF Strong(scan, first) THEN "MEDIUM" ELSE "LOW"]

---------------------------------------------------------------------------
(* build_plan: the lookup, the classification and the inventory together *)

MaterialKinds ==
  {"plog", "device_log", "coredump", "stackcore", "asys_output", "npu_smi", "app_log", "profiling"}

BuildPlan(scan, asked, answer) ==
  LET present == UNION {f.kinds : f \in scan.names}
      routed  == Classify(scan, asked)
  IN  [primary |-> routed.primary, secondary |-> routed.secondary,
       confidence |-> routed.confidence, errors |-> scan.errors,
       missing |-> MaterialKinds \ present, lookup |-> answer.status]
=============================================================================
