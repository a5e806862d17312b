--------------------------- MODULE MCFaultPipeline --------------------------
(***************************************************************************)
(* Small plans for TLC.  The first version of the material has an          *)
(* allocation failure, the second a communication timeout in a file that   *)
(* is no text; the trace tool makes a trace of the first only.  The time   *)
(* of the allocation failure has a zone.                                   *)
(***************************************************************************)
EXTENDS FaultPipeline

Line(codes, signals, beat) ==
  [text |-> IF beat THEN "heartbeat" ELSE "failure", codes |-> codes, mods |-> {}, ops |-> {},
   syms |-> {}, signals |-> signals, level |-> codes # {}, word |-> FALSE, denies |-> {},
   absent |-> FALSE, beat |-> beat, device |-> IF beat THEN <<>> ELSE <<"d1">>,
   stamp |-> IF beat THEN "none" ELSE IF "EL0004" \in codes THEN "zoned" ELSE "clock"]

Heartbeat == Line({}, {}, TRUE)

File(name, suffix, lines) ==
  [name |-> name, suffix |-> suffix, nul |-> FALSE, broken |-> FALSE, lines |-> lines,
   fit |-> Len(lines), kinds |-> {"app_log"}]

MCMaterial == <<
  <<File("a", "text", <<Heartbeat, Heartbeat,
                        Line({"EL0004"}, {"oom_allocation", "generic_code"}, FALSE)>>)>>,
  <<File("a", "text", <<Heartbeat>>),
    File("b", "binary", <<Line({"EI0002"}, {"comm_timeout", "generic_code"}, FALSE)>>)>> >>

Event(time, device, anchor) == [time |-> time, device |-> device, anchor |-> anchor]
Edge(from, to, strength) == [from |-> from, to |-> to, strength |-> strength, kind |-> "call"]
Part(component, role, summary) == [component |-> component, role |-> role, summary |-> summary]

MCTraceOf ==
  <<<<[status |-> "partial",
       events |-> <<Event("clock", <<"d0">>, FALSE), Event("clock", <<"d0">>, TRUE)>>,
       nodes  |-> <<Part("Runtime", "observed", "Runtime"), Part("Driver", "direct-trigger", "failed"),
                    Part("Operator", "business-error", "failed")>>,
       edges  |-> <<Edge("Operator", "Runtime", "inferred"), Edge("Runtime", "Driver", "proven")>>]>>,
    <<>>>>

Foreign(code, title) ==
  [code |-> code, title |-> title, private |-> FALSE, op |-> <<>>, body |-> <<Line({code}, {}, FALSE)>>]

OneCase == [cases |-> {Block(1, Foreign("EI0002", "other"))}, pend |-> {}]
Pending == {Block(1, Foreign("EG0001", "old"))}

Budget(l, c, f, ch) == [launch |-> l, crash |-> c, fault |-> f, change |-> ch]

Base ==
  [library |-> OneCase, maxFiles |-> 2, asked |-> {"oom"}, readable |-> TRUE, manual |-> {},
   evidenceOnly |-> FALSE, enabled |-> TRUE, target |-> TRUE, met |-> CheckKeys, code |-> "",
   title |-> "", private |-> FALSE, other |-> Foreign("EF0001", "third"), otherGate |-> "accept",
   traced |-> TRUE, role |-> "", advice |-> <<>>,
   restarts |-> {"detect", "diagnose", "promote"}, onlys |-> {"confidence"},
   budget |-> Budget(3, 0, 1, 1)]

(* crashes; a diagnosis kept pending, alone, beside a candidate, and       *)
(* confirmed while the next one is published;                              *)
(* cleaning by hand; no target; a private case for an empty library; a     *)
(* case that is there already; no trace; what the page can and cannot show *)
(* of a review                                                             *)
MCPlans ==
  {[Base EXCEPT !.budget = Budget(3, 1, 0, 2)],
   [Base EXCEPT !.met = CheckKeys \ {"fix_verified"}, !.library.pend = Pending, !.otherGate = "pending"],
   [Base EXCEPT !.met = CheckKeys \ {"fix_verified"}, !.library.pend = Pending,
                !.budget = Budget(2, 0, 0, 3)],
   [Base EXCEPT !.met = CheckKeys \ {"fix_verified"}, !.other = Foreign("EI0002", "other"),
                !.restarts = {}, !.onlys = {}, !.budget = Budget(4, 0, 0, 4)],
   [Base EXCEPT !.evidenceOnly = TRUE, !.manual = {"clean"}, !.asked = {}],
   [Base EXCEPT !.target = FALSE],
   [Base EXCEPT !.private = TRUE, !.library = NoLibrary, !.readable = FALSE],
   [Base EXCEPT !.code = "EI0002"],
   [Base EXCEPT !.traced = FALSE],
   [Base EXCEPT !.role = "candidate"],
   [Base EXCEPT !.role = "root_cause",
                !.advice = <<[layer |-> "component", component |-> <<"unknown">>, worded |-> TRUE]>>],
   [Base EXCEPT !.role = "root_cause", !.met = {}],
   [Base EXCEPT !.advice = <<[layer |-> "component", component |-> <<"HCCL">>, worded |-> TRUE]>>]}
=============================================================================
