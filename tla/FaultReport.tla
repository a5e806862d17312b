----------------------------- MODULE FaultReport ----------------------------
(***************************************************************************)
(* The report of the fault-diagnosis pipeline: the data run_pipeline.py    *)
(* fills in (_build_report_data) and the contract build_html_report.py     *)
(* holds them to before it draws anything.  A refusal of the builder is a  *)
(* permanent failure of the report stage.                                  *)
(*                                                                         *)
(* trace: <<>> or <<[status, events, nodes, edges]>>; an event is [time,   *)
(*   device, anchor], time "clock" when the builder knows its format; a    *)
(*   node [component, role, summary], an edge [from, to, strength, kind].  *)
(* row of the timeline: [time, role, device]; device is <<>> or <<d>>.     *)
(* advice of the agent: [layer, component, worded]; component is <<>> when *)
(*   it names none, worded says that owner and timing have the form asked. *)
(***************************************************************************)
EXTENDS Integers, Sequences, FiniteSets, SequencesExt, TLC

FirstFew(s, n) == SubSeq(s, 1, IF Len(s) < n THEN Len(s) ELSE n)

(* NODE_STATUS_STRENGTH, EDGE_KIND_STRENGTH *)
StatusStrength ==
  [s \in {"root_cause", "fault_source", "direct_trigger", "propagation", "affected",
          "first_observed", "observed"} |-> "proven"]
  @@ [s \in {"candidate", "unknown"} |-> s]

KindStrength ==
  [k \in {"root_cause", "call", "identity", "propagation"} |-> "proven"]
  @@ [k \in {"candidate", "unknown"} |-> k]

Statuses == DOMAIN StatusStrength
Causal == {"root_cause", "fault_source"}

(* the trace's component names that are also names of the catalog; the     *)
(* others, AscendCL and Driver among them, are shown as unknown            *)
Catalog == {"Runtime", "HCCL", "AICPU", "unknown"}
CatalogName(component) == IF component \in Catalog THEN component ELSE "unknown"

---------------------------------------------------------------------------
(* What the pipeline fills in *)

(* _trace_timeline *)
TraceTimeline(trace) ==
  IF trace = <<>> THEN <<>>
  ELSE [i \in DOMAIN trace[1].events |->
         LET e == trace[1].events[i]
         IN  [time |-> e.time, device |-> e.device,
              role |-> IF e.anchor THEN "direct_trigger" ELSE "observed"]]

(* without a trace the errors are the timeline, with the time their line   *)
(* begins with (one with a time zone is not in the builder's format) and   *)
(* the device or rank it names                                             *)
ErrorTimeline(errors) ==
  [i \in DOMAIN errors |->
     [time |-> errors[i].seen.stamp, device |-> errors[i].seen.device,
      role |-> IF i = 1 THEN "direct_trigger" ELSE "observed"]]

(* a row is called proven, whatever role the diagnosis gives it *)
Rows(timeline) ==
  IF timeline = <<>> THEN <<[time |-> "none", status |-> "unknown", strength |-> "unknown"]>>
  ELSE [i \in DOMAIN timeline |->
         [time |-> timeline[i].time, strength |-> "proven",
          status |-> IF timeline[i].role \in Statuses THEN timeline[i].role ELSE "observed"]]

RoleStatus(role) ==
  CASE role = "direct-trigger" -> "direct_trigger"
    [] role = "propagation" -> "propagation"
    [] role \in {"affected", "business-error", "fault-source"} -> "affected"
    [] OTHER -> "observed"

(* the first five components of the chain *)
ComponentNodes(trace) ==
  IF trace = <<>> \/ trace[1].nodes = <<>>
  THEN <<[id |-> "entry", status |-> "unknown", strength |-> "unknown", catalog |-> "unknown",
          title |-> "no component", tag |-> "component"]>>
  ELSE [i \in DOMAIN FirstFew(trace[1].nodes, 5) |->
         LET n == trace[1].nodes[i]
         IN  [id |-> n.component, status |-> RoleStatus(n.role), strength |-> "proven",
              catalog |-> CatalogName(n.component), tag |-> n.component,
              title |-> IF n.summary = CatalogName(n.component) THEN "event" ELSE n.summary]]

ModelNodes == <<[id |-> "model", status |-> "unknown", strength |-> "unknown",
                 catalog |-> "", title |-> "flow of the scenario", tag |-> "flow"]>>

(* one card for each device or rank the timeline names *)
DeviceNodes(timeline) ==
  LET named == SelectSeq(timeline, LAMBDA r : r.device # <<>>)
      first == SelectSeq([i \in DOMAIN named |-> <<i, named[i].device[1]>>],
                 LAMBDA x : \A j \in 1..(x[1] - 1) : named[j].device[1] # x[2])
  IN  [i \in DOMAIN first |->
         [id |-> first[i][2], status |-> IF i = 1 THEN "first_observed" ELSE "observed",
          strength |-> "proven", catalog |-> "", title |-> first[i][2], tag |-> "device"]]

(* only edges between components that are shown; an inferred one is a      *)
(* candidate                                                               *)
ArchEdges(trace, nodes) ==
  IF trace = <<>> THEN {}
  ELSE {[from |-> e.from, to |-> e.to,
         kind     |-> IF e.strength = "proven" THEN "call" ELSE "candidate",
         strength |-> IF e.strength = "proven" THEN "proven" ELSE "candidate"] :
          e \in {x \in Range(trace[1].edges) :
                   {x.from, x.to} \subseteq {n.id : n \in Range(nodes)} /\ x.from # x.to}}

(* four rows: the first pieces of advice, and the rest say that there is   *)
(* no other, for the first component                                       *)
Remedies(advice, nodes) ==
  [i \in 1..4 |->
     IF i > Len(advice) THEN [layer |-> "component", component |-> nodes[1].catalog, worded |-> TRUE]
     ELSE [advice[i] EXCEPT !.component = IF @ = <<>> THEN nodes[1].catalog ELSE @[1]]]

ReportData(timeline, advice, level, trace) ==
  LET nodes == ComponentNodes(trace)
  IN  [level |-> level, timeline |-> Rows(timeline), model |-> ModelNodes, component |-> nodes,
       hardware |-> DeviceNodes(timeline), edges |-> ArchEdges(trace, nodes),
       remedies |-> Remedies(advice, nodes), trace |-> trace]

---------------------------------------------------------------------------
(* What the builder accepts *)

(* reject_insufficient_causal_status *)
CauseAllowed_OfRoot(status, level) == level = "INSUFFICIENT" => status # "fault_source"
CauseAllowed(status, level) == level = "INSUFFICIENT" => status \notin Causal

(* render_timeline *)
RowAccepted(row, level) ==
  /\ row.status \in Statuses /\ row.strength = StatusStrength[row.status]
  /\ CauseAllowed(row.status, level)
  /\ row.time \in {"clock", "none"}

(* render_architecture, reject_status_tag_reuse: a node of a layer.  The   *)
(* forms of ids and of a card's title, which the pipeline always gives,    *)
(* are not modelled.                                                       *)
NodeAccepted(kind, node, level) ==
  /\ node.status \in Statuses /\ node.strength = StatusStrength[node.status]
  /\ CauseAllowed(node.status, level)
  /\ node.status = "fault_source" => kind = "hardware"
  /\ node.status \in {"root_cause", "direct_trigger"} => kind = "component"
  /\ kind = "component" => node.catalog \in Catalog /\ node.title # node.catalog
  /\ node.tag \notin Statuses

AllNodes(data) == data.model \o data.component \o data.hardware

LayersAccepted(data) ==
  /\ data.model # <<>> /\ Len(data.model) <= 3
  /\ data.component # <<>> /\ Len(data.component) <= 5
  /\ \A i, j \in DOMAIN AllNodes(data) : i # j => AllNodes(data)[i].id # AllNodes(data)[j].id
  /\ \A kind \in {"model", "component", "hardware"} :
       \A n \in Range(data[kind]) : NodeAccepted(kind, n, data.level)

(* synchronize_architecture_edges: the proven calls of the chain, between  *)
(* the first nodes that carry the components' names                        *)
Synchronized(data) ==
  LET named(c) == SelectSeq(AllNodes(data), LAMBDA n : c \in {n.catalog, n.title, n.tag})
      both == IF data.trace = <<>> THEN {}
              ELSE {e \in Range(data.trace[1].edges) :
                      e.strength = "proven" /\ named(e.from) # <<>> /\ named(e.to) # <<>>}
  IN  data.edges \cup
        {x \in {[from |-> named(e.from)[1].id, to |-> named(e.to)[1].id, kind |-> "call",
                 strength |-> "proven"] : e \in both} : x.from # x.to}

(* render_architecture: an edge *)
EdgeAccepted(edge, nodes) ==
  /\ {edge.from, edge.to} \subseteq {n.id : n \in Range(nodes)}
  /\ edge.from # edge.to
  /\ edge.kind \in DOMAIN KindStrength /\ edge.strength = KindStrength[edge.kind]
  /\ edge.kind = "root_cause" =>
       \E n \in Range(nodes) : n.id \in {edge.from, edge.to} /\ n.status \in Causal

(* of the edges only those of three kinds are drawn, between neighbours of *)
(* a layer as a connector, else as a wire                                  *)
Drawn(data) == {e \in Synchronized(data) : e.kind \in {"call", "root_cause", "propagation"}}

(* render_component_chain; its tests of members, representative and deep   *)
(* link, which the trace tool's validator has made already, are left out   *)
ChainAccepted(trace) ==
  trace # <<>> =>
    LET nodes == trace[1].nodes
    IN  /\ \A n \in Range(nodes) :
             n.role \in {"fault-source", "direct-trigger", "propagation", "affected",
                         "business-error", "observed"}
        /\ \A i, j \in DOMAIN nodes : i # j => nodes[i].component # nodes[j].component
        /\ \A e \in Range(trace[1].edges) :
             /\ e.from # e.to /\ {e.from, e.to} \subseteq {n.component : n \in Range(nodes)}
             /\ e.strength \in {"proven", "inferred"} /\ e.kind \in {"call", "notification"}

(* the names by which a remedy may call a component of a layer *)
LayerNames(data, layer) ==
  CASE layer = "component" -> {n.catalog : n \in Range(data.component)}
    [] layer = "model" -> {n.tag : n \in Range(data.model)}
    [] layer = "hardware" -> {n.title : n \in Range(data.hardware)}

RemedyAccepted(remedy, data) ==
  /\ remedy.layer \in {"component", "model", "hardware"}
  /\ remedy.component \in LayerNames(data, remedy.layer)
  /\ remedy.worded

(* render_report_data *)
Accepted(data) ==
  /\ Len(data.remedies) = 4 /\ \A r \in Range(data.remedies) : RemedyAccepted(r, data)
  /\ \A r \in Range(data.timeline) : RowAccepted(r, data.level)
  /\ LayersAccepted(data)
  /\ \A e \in Synchronized(data) : EdgeAccepted(e, AllNodes(data))
  /\ ChainAccepted(data.trace)

(* what a reader of the finished page is told: causes and calls *)
Causes(data) == {r.status : r \in Range(data.timeline) \cup Range(AllNodes(data))} \cap Causal
Calls(data) == {<<e.from, e.to>> : e \in Drawn(data)}
=============================================================================
