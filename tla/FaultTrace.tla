----------------------------- MODULE FaultTrace -----------------------------
(***************************************************************************)
(* build_fault_trace.py and pipeline.py: trace-skill reads one package,    *)
(* builds the trace, checks it, bounds what the viewer embeds, and writes  *)
(* fault-trace.json, tracing-report.html and its copy fault-trace.html.    *)
(*                                                                         *)
(* A job is [input, limits, outside, configured, request, reach, old]: the *)
(* package, the reader's limits, whether the output directory lies outside *)
(* the input, whether the configuration files are good, the anchor asked   *)
(* for (<<>> or one), the context wanted [before, after, limit], and       *)
(* whether an earlier run has left its files in the output directory.      *)
(***************************************************************************)
EXTENDS FaultViews

CONSTANT Jobs

VARIABLES
  job,
  step,       \* "start", "read", "scanned", "built", "rendered", "json", "report", "ended"
  scan,       \* what the package gave: [records, orphans, inventory]
  trace,      \* <<>>, or the trace in memory
  exit,       \* the exit code, None before the end
  out         \* the output directory: "none", "old", "torn" or "new" of every file,
              \* and the trace that fault-trace.json holds

traceVars == <<job, step, scan, trace, exit, out>>

---------------------------------------------------------------------------
(* scan_input *)

(* the entries of a package, in the order they are read *)
Scan(read) ==
  FoldLeft(LAMBDA so, m :
             LET given == ScanEntry(m)
             IN  [records |-> so.records \cup given.records, orphans |-> so.orphans \cup given.orphans,
                  inventory |-> Append(so.inventory, given.item)],
           [records |-> {}, orphans |-> {}, inventory |-> read.inventory], read.entries)

---------------------------------------------------------------------------
(* build_trace *)

Incomplete(item) == item.status \in {"unsupported", "unreadable", "rejected"} \/ item.unparsed > 0

(* the gaps a trace declares *)
Gaps(events, spans, coordinates, chosen, view, found) ==
  LET places == {e.loc : e \in Range(events)}
      some(status) == \E item \in Range(found.inventory) : item.status = status
  IN  {g \in {"no_call_spans"} : spans = {}}
      \cup {g \in {"unmatched_span_endpoints"} : UnmatchedEndpoints(events, spans) # {}}
      \cup {g \in {"evidence_conflicts"} : ConflictGroups(events) # {}}
      \cup {g \in {"missing_device_logs"} : "device" \notin places}
      \cup {g \in {"unaligned_host_device_clocks"} :
              places = {"host", "device"} /\
              Cardinality({coordinates[e.dom].root : e \in Range(events)}) > 1}
      \cup {g \in {"clock_alignment_conflict"} : ClockConflicts(events) # {}}
      \cup {g \in {"scope_ambiguity"} : view.scope[3] = None}
      \cup {g \in {"ambiguous_fault_anchor"} : chosen.status = "ambiguous"}
      \cup {g \in {"incomplete_parse_coverage"} : \E item \in Range(found.inventory) : Incomplete(item)}
      \cup {g \in {"context_truncated"} : view.window.truncated}
      \cup {g \in {"uninspected_evidence"} : some("rejected")}
      \cup {g \in {"unsupported_input"} : some("unsupported")}
      \cup {g \in {"orphan_evidence"} : found.orphans # {}}

Evidence(events) == UNION {Range(e.evidence) : e \in Range(events)}

ViewOf(t, id) == CHOOSE v \in t.views : v.anchor = id

(* the context a view shows *)
Context(t, view) ==
  IF view.context # <<>> THEN view.context[1]
  ELSE view.highlighted \cup (CHOOSE p \in t.partitions : p.scope = view.scope).ids

(* with the summary and the diagnostics of the selected view *)
WithDiagnosis(t, view, found, coordinates) ==
  [chain |-> BuildComponentChain(t.events, t.relationships, view.anchor, view.highlighted,
                                 IF view.context = <<>> THEN {} ELSE view.context[1]),
   gaps  |-> Gaps(t.events, t.spans, coordinates, t.selection, view, found),
   window |-> view.window, left |-> Cardinality(view.outside[1]),
   counts |-> [events |-> Len(t.events), candidates |-> Cardinality(t.candidates)]] @@ t

WithViews_AnyRelation(t, reach) ==
  [views |-> {AnchorView(t.events, ById(t.events)[c],
                         Reachable(c, {{r.source, r.target} : r \in Range(t.relationships)}),
                         reach, c = t.selection.anchor) : c \in t.candidates}] @@ t

WithViews(t, reach) ==
  [views |-> {AnchorView(t.events, ById(t.events)[c], Reachable(c, ProvenPairs(t.relationships)),
                         reach, c = t.selection.anchor) : c \in t.candidates}] @@ t

(* the one trace of the events, whose clocks are resolved, as a set *)
Assembled(events, alignments, coordinates, asked, found) ==
  LET automatic == Candidates(events)
      core == [events |-> events, relationships |-> BuildRelationships(events),
               spans |-> BuildSpans(events), alignments |-> alignments,
               domains |-> DOMAIN coordinates, candidates |-> automatic \cup asked,
               evidence |-> Evidence(events), request |-> job.request,
               selection |-> Selection(events, automatic, job.request, Max(asked \cup {0}), coordinates),
               partitions |-> ContextPartitions(events, automatic \cup asked),
               inventory |-> found.inventory, orphans |-> found.orphans]
  IN  {WithDiagnosis(t, ViewOf(t, t.selection.anchor), found, coordinates) :
         t \in {WithViews(core, job.reach)}}

---------------------------------------------------------------------------
(* validate_trace: what the trace says is derived again from its events.   *)
(* The tests of field types and names are not modelled.                    *)

ValidEvents(t) ==
  /\ t.events # <<>> /\ t.candidates # {} /\ Cardinality(Ids(t.events)) = Len(t.events)
  /\ t.candidates \subseteq Ids(t.events) /\ t.selection.anchor \in t.candidates
  /\ \A i, j \in DOMAIN t.events : Fingerprint(t.events[i]) = Fingerprint(t.events[j]) => i = j
  /\ Evidence(t.events) \subseteq t.evidence

(* every declaration must name another clock of the trace, also one that   *)
(* contradicts another and is not used                                     *)
ValidClocks(t, coordinates) ==
  /\ \A e \in Range(t.events) : e.align # <<>> => e.align[1].to \in t.domains \ {e.dom}
  /\ t.alignments = BuildClockAlignments(t.events)
  /\ \A a \in t.alignments : {a.source, a.target} \subseteq t.domains /\ a.source # a.target
  /\ ClocksResolve(t.domains, t.alignments, coordinates)
  /\ \A e \in Range(t.events) : e.aligned = AlignedTime(e, coordinates)

ValidRelations(t) ==
  /\ \A r \in Range(t.relationships) : {r.source, r.target} \subseteq Ids(t.events)
  /\ Range(t.relationships) = Range(BuildRelationships(t.events))
  /\ t.spans = BuildSpans(t.events)
  /\ \A p \in t.partitions : p.ids # {} /\ p.ids = InScope(t.events, p.scope)

ValidView(t, view, anchor) ==
  LET again == BoundedContext(t.events, ScopeOf(t.events, anchor), anchor, view.highlighted,
                              view.window.reach)
  IN  /\ view.scope = Scope(anchor)
      /\ again.ids = Context(t, view) /\ again.window = view.window
      /\ view.excluded = Len(t.events) - Cardinality(Context(t, view))
      /\ view.outside # <<>> => view.outside[1] = Ids(t.events) \ Context(t, view)
      /\ view.highlighted = Reachable(anchor.id, ProvenPairs(t.relationships))
      /\ view.highlighted \subseteq Context(t, view)

ValidViews(t) ==
  /\ {v.anchor : v \in t.views} = t.candidates
  /\ Cardinality(t.views) = Cardinality(t.candidates)
  /\ \A v \in t.views : ValidView(t, v, ById(t.events)[v.anchor])

ValidDiagnosis(t, view, coordinates) ==
  /\ t.chain = BuildComponentChain(t.events, t.relationships, view.anchor, view.highlighted,
                                   IF view.context = <<>> THEN {} ELSE view.context[1])
  /\ t.counts.events = Len(t.events) /\ t.counts.candidates = Cardinality(t.candidates)
  /\ LET asked == IF t.request = <<>> THEN {} ELSE Requested(t.events, t.request[1])
     IN  /\ t.request # <<>> => Cardinality(asked) = 1
         /\ t.selection = Selection(t.events, t.candidates \cap Candidates(t.events), t.request,
                                    Max(asked \cup {0}), coordinates)
  /\ LET same == {"no_call_spans", "unmatched_span_endpoints", "evidence_conflicts",
                  "unaligned_host_device_clocks", "clock_alignment_conflict", "context_truncated"}
         again == Gaps(t.events, t.spans, coordinates, t.selection, view,
                       [inventory |-> t.inventory, orphans |-> t.orphans])
     IN  t.gaps \cap same = again \cap same
  /\ t.left = (IF view.outside = <<>> THEN 0 ELSE Cardinality(view.outside[1]))
  /\ t.window = view.window

Valid(t) ==
  /\ ValidEvents(t) /\ ValidRelations(t) /\ ValidViews(t)
  /\ \E coordinates \in {Coordinates(t.domains, t.alignments)} :
       /\ ValidClocks(t, coordinates)
       /\ ValidDiagnosis(t, ViewOf(t, t.selection.anchor), coordinates)

---------------------------------------------------------------------------
(* _viewer_trace_projection: the events a viewer embeds are bounded by     *)
(* cutting the trace in memory itself.  Those named first are kept: the    *)
(* anchor, the candidates, proven pairs, errors near the anchor, and the   *)
(* first, the last and some INFO events of every component of a clock.     *)

LaneKept(lane) ==
  LET infos == SelectSeq(lane, LAMBDA e : e.level = "INFO")
      every == Max({1, Len(infos) \div 3})
  IN  <<lane[1].id, lane[Len(lane)].id>>
      \o SelectSeq([i \in DOMAIN infos |-> IF (i - 1) % every = 0 THEN infos[i].id ELSE 0],
                   LAMBDA id : id # 0)

Wanted(t, anchor) ==
  LET idOf(seq) == [i \in DOMAIN seq |-> seq[i].id]
      proven == SelectSeq(t.relationships, LAMBDA r : r.strength = "proven")
      near   == SelectSeq(t.events, LAMBDA e :
                  e.dom = anchor.dom /\ Failing(e) /\ Distance(e, anchor) <= Bounds.minute)
      lanes  == Groups(t.events, LAMBDA a, b : a.dom = b.dom /\ a.comp = b.comp)
  IN  <<anchor.id>> \o idOf(SelectSeq(t.events, LAMBDA e : e.id \in t.candidates))
      \o FlattenSeq([i \in DOMAIN proven |-> <<proven[i].source, proven[i].target>>])
      \o idOf(near) \o FlattenSeq([i \in DOMAIN lanes |-> LaneKept(lanes[i])])

Embedded(t, anchor) ==
  LET unique == FoldLeft(LAMBDA so, id : IF id \in Range(so) THEN so ELSE Append(so, id), <<>>,
                         Wanted(t, anchor))
  IN  Range(SubSeq(unique, 1, Min({Len(unique), Bounds.embedded})))

(* the projection of the summary; a node that keeps no member goes *)
CutChain(chain, events, evidence) ==
  LET kept == Ids(events)
      cut(n) == [n EXCEPT !.members = @ \cap kept, !.evidence = @ \cap evidence,
                          !.shown = IF @ \in kept \/ n.members \cap kept = {} THEN @
                                    ELSE First({e \in Range(events) : e.id \in n.members}).id]
  IN  [chain EXCEPT !.members = @ \cap kept,
                    !.nodes = {n \in {cut(n) : n \in chain.nodes} : n.members # {}},
                    !.edges = {[e EXCEPT !.rels = {r \in @ : Range(r) \subseteq kept},
                                         !.evidence = @ \cap evidence] : e \in chain.edges}]

Cut(t, kept) ==
  LET events == SelectSeq(t.events, LAMBDA e : e.id \in kept)
      rels == Among(t.relationships, kept)
      evidence == Evidence(events) \cup UNION {r.evidence : r \in Range(rels)}
  IN  [t EXCEPT !.events = SelectSeq(t.events, LAMBDA e : e.id \in kept),
                !.relationships = rels, !.evidence = evidence,
                !.spans = {s \in t.spans : {s.start, s.end} \subseteq kept},
                !.views = {[v EXCEPT !.highlighted = @ \cap kept, !.context = <<@[1] \cap kept>>] :
                             v \in t.views},
                !.partitions = {[p EXCEPT !.ids = @ \cap kept] : p \in t.partitions},
                !.chain = CutChain(t.chain, events, evidence)]

Projected(t) ==
  IF Len(t.events) <= Bounds.embedded THEN t
  ELSE Cut(t, Embedded(t, ById(t.events)[t.selection.anchor]))

(* a view whose context is only in its partition cannot be cut: KeyError *)
Projectable(t) ==
  Len(t.events) > Bounds.embedded => \A v \in t.views : v.context # <<>>

---------------------------------------------------------------------------
(* main() *)

NothingScanned == [records |-> {}, orphans |-> {}, inventory |-> <<>>]
OldFiles == [json |-> "old", report |-> "old", copy |-> "old", audit |-> "none", holds |-> <<>>]
NoFiles  == [json |-> "none", report |-> "none", copy |-> "none", audit |-> "none", holds |-> <<>>]

Init ==
  /\ job \in Jobs
  /\ step = "start" /\ scan = NothingScanned /\ trace = <<>> /\ exit = None
  /\ out = IF job.old THEN OldFiles ELSE NoFiles

End(code) == step' = "ended" /\ exit' = code

(* the input is a link or missing, the configuration is bad, or the output *)
(* would lie in the input                                                  *)
Start ==
  /\ step = "start"
  /\ IF job.input.kind \in {"link", "missing"} \/ ~job.configured \/ ~job.outside \/ ~LimitsAllowed(job.limits)
     THEN End(2) ELSE step' = "read" /\ exit' = exit
  /\ UNCHANGED <<job, scan, trace, out>>

(* an exception the reader does not expect ends the run with a traceback *)
Read ==
  /\ step = "read"
  /\ \E read \in {ReadPackage(job.input, job.limits)} :
       IF Refused(job.input, read) \/ read.escaped
       THEN End(IF Refused(job.input, read) THEN 2 ELSE 1) /\ scan' = scan
       ELSE scan' = Scan(read) /\ step' = "scanned" /\ exit' = exit
  /\ UNCHANGED <<job, trace, out>>

(* without a trace the inventory is kept, if it can be written; it says    *)
(* what was read even when fault-trace.json of an earlier run is there     *)
NoTrace(writable) ==
  /\ out' \in (IF writable THEN {[out EXCEPT !.audit = "new"]} ELSE {out, [out EXCEPT !.audit = "torn"]})
  /\ End(IF writable THEN 3 ELSE 4)
  /\ trace' = trace

(* a request must name one event *)
AskedFor(events) == IF job.request = <<>> THEN {} ELSE Requested(events, job.request[1])

Answered(asked) == job.request # <<>> => Cardinality(asked) = 1

(* clocks that do not resolve, or a trace that does not pass, end it *)
Assemble(events, asked, coordinates) ==
  \E alignments \in {BuildClockAlignments(events)} :
    \E built \in {IF ClocksResolve(Domains(events), alignments, coordinates)
                  THEN Assembled(ApplyAligned(events, coordinates), alignments, coordinates, asked, scan)
                  ELSE {}} :
      IF \E t \in built : Valid(t)
      THEN trace' = <<CHOOSE t \in built : TRUE>> /\ step' = "built" /\ exit' = exit
      ELSE End(4) /\ trace' = trace

Build ==
  /\ step = "scanned"
  /\ \E events \in {EventsOf(scan.records)} : \E asked \in {AskedFor(events)} :
       IF events = <<>> THEN \E writable \in BOOLEAN : NoTrace(writable)
       ELSE IF ~Answered(asked) THEN End(3) /\ UNCHANGED <<trace, out>>
       ELSE IF Candidates(events) \cup asked = {} THEN \E writable \in BOOLEAN : NoTrace(writable)
       ELSE /\ Assemble(events, asked, Coordinates(Domains(events), BuildClockAlignments(events)))
            /\ out' = out
  /\ UNCHANGED <<job, scan>>

(* render_html validates again, then cuts; a KeyError is caught by nobody *)
Render ==
  /\ step = "built"
  /\ IF Projectable(trace[1])
     THEN trace' = <<Projected(trace[1])>> /\ step' = "rendered" /\ exit' = exit
     ELSE End(1) /\ trace' = trace
  /\ UNCHANGED <<job, scan, out>>

(* the three files in turn, each in place: one that cannot be written      *)
(* stays as it was, or is left torn                                        *)
Write(here, file, then) ==
  /\ step = here
  /\ \/ End(4) /\ out' \in {out, [out EXCEPT ![file] = "torn"]}
     \/ /\ out' = [out EXCEPT ![file] = "new", !.holds = IF file = "json" THEN trace ELSE @]
        /\ IF then = "ended" THEN End(0) ELSE step' = then /\ exit' = exit
  /\ UNCHANGED <<job, scan, trace>>

WriteTrace  == Write("rendered", "json", "json")
WriteReport == Write("json", "report", "report")
WriteCopy   == Write("report", "copy", "ended")

Next == Start \/ Read \/ Build \/ Render \/ WriteTrace \/ WriteReport \/ WriteCopy

Spec == Init /\ [][Next]_traceVars

---------------------------------------------------------------------------
(* Properties *)

(* Once the reader is through, every file it could come to is in the       *)
(* inventory, unless it lies in an archive that is itself noted as         *)
(* refused, and a file that was not read whole leaves a gap in the trace   *)
(* (_accept_or_descend, scan_input).  Two things the reader passes over    *)
(* without a word: what lies in a directory it may not list, and what lay  *)
(* behind the point where a tar ends at a header.  Other damage that is    *)
(* not noted ends the run with a traceback.                                *)
RECURSIVE Accounted(_)
Accounted(members) ==
  \A m \in {x \in Range(members) : x.type # "dir"} :
    LET items == {i \in Range(scan.inventory) : i.path = m.name}
    IN  /\ items # {}
        /\ \/ m.kind = "plain" \/ \E i \in items : i.status = "rejected"
           \/ m.damage \in {"none", "silent"} /\ Accounted(m.members)

ReadThrough == step \notin {"start", "read"} /\ (exit \in {1, 2} => trace # <<>>)

InputAccounted ==
  ReadThrough =>
    /\ job.input.damage \in {"none", "silent"}
    /\ Accounted(job.input.members)
    /\ trace # <<>> =>
         \A i \in Range(scan.inventory) :
           /\ Incomplete(i) => "incomplete_parse_coverage" \in trace[1].gaps
           /\ i.status = "rejected" => "uninspected_evidence" \in trace[1].gaps

(* an event whose evidence is in conflict is neither the end of a proven   *)
(* notification or execution step, nor of a hypothesis, nor of a span      *)
(* (correlation.py, build_relationships and build_spans)                   *)
ProofAvoidsConflicts ==
  step = "built" =>
    LET t     == trace[1]
        unsafe == UNION {{r.source, r.target} :
                           r \in {x \in Range(t.relationships) : x.strength = "conflict"}}
    IN  /\ \A r \in Range(t.relationships) :
             r.kind \in {"notification", "same-execution", "hypothesis"} =>
               {r.source, r.target} \cap unsafe = {}
        /\ \A s \in t.spans : {s.start, s.end} \cap unsafe = {}

(* what a view shows is the whole proven chain of its anchor, and around   *)
(* it at most the events asked for, of which none is passed over for one   *)
(* further away; its counts add up to the scope (_bounded_context)         *)
ContextIsNearest ==
  step = "built" =>
    \A v \in trace[1].views :
      LET t       == trace[1]
          event   == ById(t.events)
          around  == Context(t, v) \ v.highlighted
          scope   == ScopeOf(t.events, event[v.anchor])
          window(i) == /\ event[i].off >= event[v.anchor].off - job.reach.before
                       /\ event[i].off <= event[v.anchor].off + job.reach.after
          away(i) == Distance(event[i], event[v.anchor])
      IN  /\ \A p \in ProvenPairs(t.relationships) : p \cap v.highlighted # {} => p \subseteq Context(t, v)
          /\ Cardinality(around) <= job.reach.limit
          /\ around # {} => \A i \in scope \ Context(t, v) : \A j \in around : window(i) => away(j) <= away(i)
          /\ v.window.included + v.window.outside + v.window.cut
               = Cardinality(scope \ v.highlighted)

(* the anchor nobody asked for is the earliest fault of all those its      *)
(* clock can be compared with, in aligned time; when clocks stay apart the *)
(* trace says so (_select_anchor)                                          *)
AnchorIsEarliest ==
  step = "built" /\ job.request = <<>> =>
    LET t      == trace[1]
        event  == ById(t.events)
        anchor == event[t.selection.anchor]
        time(e) == IF e.aligned = <<>> THEN e.off ELSE e.aligned[1].off
        clock(e) == IF e.aligned = <<>> THEN e.dom ELSE e.aligned[1].root
    IN  \A i \in t.candidates :
          /\ clock(event[i]) = clock(anchor) => time(anchor) <= time(event[i])
          /\ clock(event[i]) # clock(anchor) => "ambiguous_fault_anchor" \in t.gaps

(* what a view shows: the earliest fault and the events nearest to it      *)
ViewsAreTrue == AnchorIsEarliest /\ ContextIsNearest

(* the validator finds nothing wrong with what the generator builds: only  *)
(* the log's own clock declarations can make it refuse, when they name     *)
(* another clock than the trace has, or turn in a circle                   *)
(* (build_trace, validate_trace)                                           *)
Declarations == {<<r.dom, r.align[1].to>> : r \in {x \in scan.records : x.align # <<>>}}

BuiltIsValid ==
  exit = 4 /\ trace = <<>> /\ out.audit # "new" /\ scan.records # {} =>
    \/ Candidates(EventsOf(scan.records)) = {}
    \/ \E d \in Declarations : d[2] \notin {r.dom : r \in scan.records}
    \/ \E D \in SUBSET Declarations : D # {} /\ \A d \in D : \E c \in D : c[1] = d[2]

(* the summary joins every two components an error went between, and calls *)
(* an edge proven only when a proven relationship of theirs is behind it   *)
(* (build_component_chain_summary)                                         *)
SummaryJoinsErrors ==
  step = "built" =>
    LET t    == trace[1]
        comp == [i \in Ids(t.events) |-> ById(t.events)[i].comp]
        path(a, b) == b \in Onwards(t.chain.edges, a)
    IN  /\ \A r \in Range(Among(t.relationships, t.chain.members)) :
             r.kind = "error-propagation" =>
               path(comp[r.source], comp[r.target]) \/ path(comp[r.target], comp[r.source])
        /\ \A e \in t.chain.edges :
             e.strength = "proven" =>
               \E r \in Range(t.relationships) :
                 /\ r.strength = "proven"
                 /\ {comp[r.source], comp[r.target]} = {e.source, e.target}
        /\ {n.component : n \in t.chain.nodes} = {comp[i] : i \in t.chain.members}

(* SKILL.md: the JSON of a run that ends with 0 is schema-valid.  What is  *)
(* written is the trace the viewer's projection has cut.                   *)
WrittenIsValid ==
  exit = 0 => Valid(out.holds[1])
=============================================================================
