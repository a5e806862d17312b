----------------------------- MODULE FaultViews -----------------------------
(***************************************************************************)
(* What a trace says of its events.  component_chain.py: the summary of    *)
(* the selected anchor, one node per component seen and edges in the       *)
(* direction of the calls; nodes and edges are sets (their numbering is    *)
(* layout), a relationship that supports an edge is named by the pair of   *)
(* events it connects.  pipeline.py: the events of a trace, the clock each *)
(* of them is on, the fault it starts from and what is shown around each   *)
(* candidate; events are listed in the order of their ids, so a list of    *)
(* ids is a set.                                                           *)
(***************************************************************************)
EXTENDS FaultRelations

---------------------------------------------------------------------------
(* The component summary *)

(* _CALL_ORDER *)
CallOrder ==
  <<"Application", "AscendCL", "GE", "TEFusion", "TUNE", "Operator", "Data Dump", "Runtime",
    "HCCL", "AICPU", "TDT", "Driver">>

Known(c) == c \in Range(CallOrder)
Place(c) == CHOOSE i \in DOMAIN CallOrder : CallOrder[i] = c

Failing(e) == e.level \in {"ERROR", "FATAL"}

(* _fault_role *)
FaultRole(component, events, anchor, related) ==
  LET some(P(_)) == \E e \in events : P(e)
  IN  IF some(LAMBDA e : e.inter = "error-source") THEN "fault-source"
      ELSE IF component = "Application" /\ some(LAMBDA e : e.id = anchor \/ Failing(e))
      THEN "business-error"
      ELSE IF some(LAMBDA e : e.id = anchor) THEN "direct-trigger"
      ELSE IF some(LAMBDA e : e.inter = "error-propagation") THEN "propagation"
      ELSE IF some(LAMBDA e : e.id \in related \/ Failing(e)) THEN "affected" ELSE "observed"

(* _event_key: by the offset, also between clock domains *)
First(events) ==
  CHOOSE e \in events : \A o \in events : e.off < o.off \/ (e.off = o.off /\ e.id <= o.id)

(* _representative_event: the first event of the first kind there is *)
Representative(events, anchor) ==
  LET kinds == <<{e \in events : e.inter = "error-source"},
                 {e \in events : e.id = anchor},
                 {e \in events : e.inter = "error-propagation"},
                 {e \in events : Failing(e) /\ e.text.informs},
                 {e \in events : Failing(e)},
                 events>>
  IN  First(SelectSeq(kinds, LAMBDA s : s # {})[1])

---------------------------------------------------------------------------
(* Edges.  A link is what one relationship says between two components. *)

RelationOf(r) == <<r.source, r.target>>

(* the normal direction of a hypothesis, which needs both places *)
CallLink(r, from, to) ==
  LET back == r.kind = "hypothesis" /\ Place(to) < Place(from)
  IN  [source |-> IF back THEN to ELSE from, target |-> IF back THEN from ELSE to,
       kind |-> IF r.kind = "notification" THEN "notification" ELSE "call", rel |-> r]

CallLinks(rels, component) ==
  {CallLink(r, component[r.source], component[r.target]) :
     r \in {x \in Range(rels) :
              /\ x.kind \in {"notification", "same-execution", "hypothesis"}
              /\ x.strength \in {"proven", "inferred"}
              /\ component[x.source] # component[x.target]
              /\ x.kind = "hypothesis" => Known(component[x.source]) /\ Known(component[x.target])}}

(* _append_edge_support: the strongest support decides *)
EdgeStrength_Any(links) == "proven"

EdgeStrength(links) == IF \E l \in links : l.rel.strength = "proven" THEN "proven" ELSE "inferred"

CallEdge(key, links) ==
  [source |-> key[1], target |-> key[2], kind |-> key[3], strength |-> EdgeStrength(links),
   rules |-> {l.rel.rule : l \in links}, rels |-> {RelationOf(l.rel) : l \in links},
   evidence |-> UNION {l.rel.evidence : l \in links}]

CallEdges(links) ==
  {CallEdge(key, {l \in links : <<l.source, l.target, l.kind>> = key}) :
     key \in {<<l.source, l.target, l.kind>> : l \in links}}

(* the components there is a path to, as many steps as there are edges *)
Onwards(edges, component) ==
  FoldSet(LAMBDA step, so : so \cup {e.target : e \in {x \in edges : x.source \in so}},
          {component}, 1..(Cardinality(edges) + 1))

(* _normal_direction_for_error_path: an error travels from the callee back *)
(* to its caller                                                           *)
NormalDirection(from, to) ==
  IF Known(from) /\ Known(to) /\ Place(from) < Place(to) THEN <<from, to>> ELSE <<to, from>>

(* an error path adds a call it implies, never a proven one, unless there  *)
(* is a way already                                                        *)
ErrorEdge(edges, r, way) ==
  IF r.kind # "error-propagation" \/ way[1] = way[2] \/ way[2] \in Onwards(edges, way[1]) THEN edges
  ELSE edges \cup {[source |-> way[1], target |-> way[2], kind |-> "call", strength |-> "inferred",
                    rules |-> {"observed-error-path-architecture-v1"}, rels |-> {RelationOf(r)},
                    evidence |-> r.evidence]}

ChainEdges(rels, component) ==
  FoldLeft(LAMBDA edges, r :
             ErrorEdge(edges, r, NormalDirection(component[r.source], component[r.target])),
           CallEdges(CallLinks(rels, component)), rels)

---------------------------------------------------------------------------
(* build_component_chain_summary.  Without a chain across components the   *)
(* context is taken in, of the known components.                           *)

Among(rels, ids) == SelectSeq(rels, LAMBDA r : {r.source, r.target} \subseteq ids)

ChainMembers(events, rels, component, anchor, highlighted, context) ==
  LET chain == highlighted \cup {anchor}
      cross == \E r \in Range(Among(rels, chain)) : component[r.source] # component[r.target]
  IN  IF cross THEN chain ELSE chain \cup {i \in context : Known(component[i])}

ChainNode(c, events, anchor, related) ==
  [component |-> c, members |-> {e.id : e \in events}, shown |-> Representative(events, anchor).id,
   role |-> FaultRole(c, events, anchor, related),
   evidence |-> UNION {Range(e.evidence) : e \in events}]

ChainGaps(nodes, edges) ==
  LET joined == UNION {{e.source, e.target} : e \in edges}
  IN  IF Cardinality(nodes) <= 1 THEN {}
      ELSE IF edges = {} THEN {"call_relationship_evidence_insufficient"}
      ELSE {g \in {"unconnected_observed_components"} : \E n \in nodes : n.component \notin joined}

ChainOf(events, rels, component, anchor, members) ==
  LET related == UNION {{r.source, r.target} :
                          r \in {x \in Range(Among(rels, members)) : x.kind = "error-propagation"}}
      nodes   == {ChainNode(c, {e \in Range(events) : e.id \in members /\ e.comp = c}, anchor, related) :
                    c \in {component[i] : i \in members}}
  IN  {[anchor |-> anchor, members |-> members, nodes |-> nodes, edges |-> edges,
        gaps |-> ChainGaps(nodes, edges)] : edges \in {ChainEdges(Among(rels, members), component)}}

BuildComponentChain(events, rels, anchor, highlighted, context) ==
  LET component == [i \in {e.id : e \in Range(events)} |->
                      (CHOOSE e \in Range(events) : e.id = i).comp]
  IN  CHOOSE chain \in UNION {ChainOf(events, rels, component, anchor, members) :
                 members \in {ChainMembers(events, rels, component, anchor, highlighted, context)}} : TRUE

---------------------------------------------------------------------------
(* Events, clocks, anchors and views *)

(* the members of S in an order without ties *)
InOrder(S, Before(_, _)) ==
  [i \in 1..Cardinality(S) |-> CHOOSE x \in S : Cardinality({y \in S : Before(y, x)}) = i - 1]

Earlier(a, b) == \E k \in DOMAIN a : a[k] < b[k] /\ \A j \in 1..(k - 1) : a[j] = b[j]

HostFirst(e) == IF e.loc = "host" THEN 0 ELSE 1

(* the records in order, numbered, on the time of their clock's first one; *)
(* the host's records are all on one clock, before any device's            *)
Numbered(records) ==
  LET ordered == InOrder(records, LAMBDA a, b :
                   \/ Earlier(<<HostFirst(a), a.dom>>, <<HostFirst(b), b.dom>>)
                   \/ a.loc = b.loc /\ a.dom = b.dom /\
                      Earlier(<<a.time, a.path, a.line>>, <<b.time, b.path, b.line>>))
      origin(d) == Min({r.time : r \in {x \in records : x.dom = d}})
      event(r, i) == r @@ [id |-> i, off |-> r.time - origin(r.dom),
                           evidence |-> <<<<r.path, r.line>>>> \o [k \in DOMAIN r.extra |-> <<r.path, r.extra[k]>>],
                           aligned |-> <<>>]
  IN  [i \in DOMAIN ordered |-> event(ordered[i], i)]

EventsOf(records) == MergeDuplicates(Numbered(records))

Ids(events) == {e.id : e \in Range(events)}
ById(events) == [i \in Ids(events) |-> CHOOSE e \in Range(events) : e.id = i]

---------------------------------------------------------------------------
(* _resolve_clock_coordinates: where the alignments lead from a domain.    *)
(* After as many steps as there are domains one is at an unaligned one,    *)
(* else they turn in a circle.                                             *)

AlignedFrom(alignments, d) == {a \in alignments : a.source = d}

Coordinate(domains, alignments, d) ==
  FoldSet(LAMBDA step, so :
            IF AlignedFrom(alignments, so.root) = {} THEN so
            ELSE LET a == CHOOSE x \in AlignedFrom(alignments, so.root) : TRUE
                 IN  [root |-> a.target, off |-> so.off + a.off, unc |-> so.unc + a.unc],
          [root |-> d, off |-> 0, unc |-> 0], 1..Cardinality(domains))

Coordinates(domains, alignments) == [d \in domains |-> Coordinate(domains, alignments, d)]

ClocksResolve(domains, alignments, coordinates) ==
  \A d \in domains : /\ coordinates[d].root \in domains
                     /\ AlignedFrom(alignments, coordinates[d].root) = {}

(* _apply_aligned_timestamps: only in a group of several clocks *)
Shared(coordinates, d) ==
  Cardinality({c \in DOMAIN coordinates : coordinates[c].root = coordinates[d].root}) > 1

AlignedTime(e, coordinates) ==
  IF ~Shared(coordinates, e.dom) THEN <<>>
  ELSE <<[root |-> coordinates[e.dom].root, off |-> e.off + coordinates[e.dom].off,
          unc |-> coordinates[e.dom].unc]>>

ApplyAligned(events, coordinates) ==
  [i \in DOMAIN events |-> [events[i] EXCEPT !.aligned = AlignedTime(events[i], coordinates)]]

---------------------------------------------------------------------------
(* _select_anchor: the first candidate of every group of comparable        *)
(* clocks, those of the host first                                         *)

OnOwnClock(e, coordinates) == e.off

OnGroupClock(e, coordinates) == e.off + coordinates[e.dom].off

GroupFirsts(events, candidates, coordinates) ==
  LET among == {e \in Range(events) : e.id \in candidates}
      key(e) == <<OnGroupClock(e, coordinates), e.id>>
  IN  {e \in among : \A o \in among :
         coordinates[o.dom].root = coordinates[e.dom].root => ~Earlier(key(o), key(e))}

(* [ids, reason], the first id is the anchor *)
SelectAnchor(events, candidates, coordinates) ==
  LET firsts == InOrder(GroupFirsts(events, candidates, coordinates), LAMBDA a, b :
                  Earlier(<<HostFirst(a), coordinates[a.dom].root>>,
                          <<HostFirst(b), coordinates[b.dom].root>>))
      clocks == {e.dom : e \in {x \in Range(events) : x.id \in candidates}}
  IN  [ids    |-> [i \in DOMAIN firsts |-> firsts[i].id],
       reason |-> IF Len(firsts) > 1 THEN "unaligned_clock_domains"
                  ELSE IF Cardinality(clocks) > 1 THEN "aligned_clock_domains" ELSE "single_clock_domain"]

(* _resolve_anchor_request: the events a request names.  It is [kind, id]  *)
(* or [kind, path, line].                                                  *)
Requested(events, request) ==
  IF request.kind = "event_id" THEN {i \in Ids(events) : i = request.id}
  ELSE {e.id : e \in {x \in Range(events) : <<request.path, request.line>> \in Range(x.evidence)}}

Candidates(events) == {e.id : e \in {x \in Range(events) : x.rule # "none"}}

(* the selection build_trace records: a request decides the anchor, the    *)
(* candidates found are still reported                                     *)
Selection(events, automatic, request, asked, coordinates) ==
  LET found == SelectAnchor(events, automatic, coordinates)
  IN  IF request = <<>>
      THEN [anchor |-> found.ids[1], ids |-> found.ids, reason |-> found.reason,
            status |-> IF Len(found.ids) > 1 THEN "ambiguous" ELSE "selected"]
      ELSE [anchor |-> asked, ids |-> IF automatic = {} THEN <<asked>> ELSE found.ids,
            reason |-> request[1].kind, status |-> "selected"]

---------------------------------------------------------------------------
(* Contexts *)

Scope(e) == <<e.loc, e.dom, e.pid>>
InScope(events, scope) == {e.id : e \in {x \in Range(events) : Scope(x) = scope}}

(* _build_context_partitions *)
ContextPartitions(events, candidates) ==
  {[scope |-> s, ids |-> InScope(events, s)] :
     s \in {Scope(e) : e \in {x \in Range(events) : x.id \in candidates /\ x.pid # None}}}

(* _proven_neighbors, _reachable_event_ids *)
ProvenPairs(rels) == {{r.source, r.target} : r \in {x \in Range(rels) : x.strength = "proven"}}

Reachable(id, pairs) ==
  FoldSet(LAMBDA step, so : so \cup UNION {p \in pairs : p \cap so # {}}, {id},
          1..Cardinality(pairs))

Distance(e, f) == IF e.off < f.off THEN f.off - e.off ELSE e.off - f.off

(* the events kept of those around the anchor, the nearest first *)
Nearest(within, anchor, limit) ==
  LET key(e) == <<Distance(e, anchor), e.off, e.id>>
  IN  {e \in within : Cardinality({o \in within : Earlier(key(o), key(e))}) < limit}

Outermost(offs, default) == IF offs = {} THEN <<default, default>> ELSE <<Min(offs), Max(offs)>>

(* _bounded_context: [ids, window] *)
BoundedContext(events, scoped, anchor, highlighted, reach) ==
  LET within  == {e \in Range(events) : /\ e.id \in scoped \ highlighted
                                        /\ e.off \in (anchor.off - reach.before)..(anchor.off + reach.after)}
      nearest == Nearest(within, anchor, reach.limit)
      outside == Cardinality(scoped \ highlighted) - Cardinality(within)
      cut     == Cardinality(within) - Cardinality(nearest)
  IN  [ids    |-> {e.id : e \in nearest} \cup highlighted,
       window |-> [dom |-> anchor.dom, reach |-> reach,
                   effective |-> Outermost({e.off : e \in nearest}, anchor.off),
                   scope |-> Cardinality(scoped), included |-> Cardinality(nearest),
                   outside |-> outside, cut |-> cut, chain |-> Cardinality(highlighted),
                   truncated |-> outside + cut > 0]]

(* _build_anchor_view: without a process the anchor is its own scope.  The *)
(* context is only written out when it is not the whole scope, or for the  *)
(* selected anchor, which also lists what it leaves out.                   *)
ScopeOf(events, anchor) == IF anchor.pid = None THEN {anchor.id} ELSE InScope(events, Scope(anchor))

AnchorView(events, anchor, highlighted, reach, selected) ==
  LET scoped == ScopeOf(events, anchor)
      bounded == BoundedContext(events, scoped, anchor, highlighted, reach)
      whole   == bounded.ids = scoped \cup highlighted
  IN  [anchor |-> anchor.id, highlighted |-> highlighted, scope |-> Scope(anchor),
       excluded |-> Len(events) - Cardinality(bounded.ids), window |-> bounded.window,
       context |-> IF anchor.pid = None \/ selected \/ ~whole THEN <<bounded.ids>> ELSE <<>>,
       outside |-> IF selected THEN <<Ids(events) \ bounded.ids>> ELSE <<>>]
=============================================================================
