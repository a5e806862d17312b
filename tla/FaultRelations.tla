--------------------------- MODULE FaultRelations ---------------------------
(***************************************************************************)
(* correlation.py: what trace-skill concludes from the events.  An event   *)
(* is a record with id, off (its offset in its clock domain) and evidence; *)
(* a sequence of events is in the order of their ids, which within one     *)
(* clock domain is the order of their offsets.  A relationship is          *)
(*   [source, target, kind, strength, rule, evidence];                     *)
(* no two of them connect the same pair of events.                         *)
(***************************************************************************)
EXTENDS FaultRecords

(* _MAX_PROPAGATION_FANOUT, _CROSS_ERROR_WINDOW_US, the second within      *)
(* which a component's errors are one sequence, the minute of an           *)
(* application failure, _INFERRED_ADJACENCY_LIMIT_US, and the events a     *)
(* viewer embeds                                                           *)
CONSTANT Bounds     \* [fanout, burst, second, minute, adjacent, embedded]

---------------------------------------------------------------------------
(* Conflicts: observations of one thing at one time that do not agree *)

Role(e) == IF e.inter # "none" THEN e.inter ELSE e.rule

SameObservation(a, b) ==
  a.dom = b.dom /\ a.off = b.off /\ Role(a) = Role(b) /\ a.corr = b.corr

ConflictGroups(events) ==
  {g \in {SelectSeq(events, LAMBDA o : SameObservation(o, e)) :
            e \in {x \in Range(events) : x.corr # {} /\ Role(x) # "none"}} :
     Cardinality({Fingerprint(e) : e \in Range(g)}) > 1}

Conflicting(events) == UNION {{e.id : e \in Range(g)} : g \in ConflictGroups(events)}

Agreeing_All(events) == events

Agreeing(events) == LET bad == Conflicting(events) IN SelectSeq(events, LAMBDA e : e.id \notin bad)

---------------------------------------------------------------------------
(* _append_relationship: the first rule that connects a pair has it *)

Relate(s, t, kind, strength, rule) ==
  [source |-> s.id, target |-> t.id, kind |-> kind, strength |-> strength, rule |-> rule,
   evidence |-> Range(s.evidence) \cup Range(t.evidence)]

Link(rels, r) ==
  IF \E q \in Range(rels) : {q.source, q.target} = {r.source, r.target} THEN rels
  ELSE Append(rels, r)

LinkAll(rels, more) == FoldLeft(Link, rels, more)

(* the groups events fall into under an equivalence, in order *)
Groups(events, Same(_, _)) ==
  LET first == SelectSeq(events, LAMBDA e : \A o \in Range(events) : Same(o, e) => e.id <= o.id)
  IN  [i \in DOMAIN first |-> SelectSeq(events, LAMBDA e : Same(e, first[i]))]

Neighbours(seq) == [i \in 1..(Len(seq) - 1) |-> <<seq[i], seq[i + 1]>>]

---------------------------------------------------------------------------
(* _append_error_propagation_relationships *)

(* error_code: the timeout a trace starts from has no code of its own *)
ErrorCode(e) ==
  LET given == {p \in e.corr : p[1] = "error_code"}
  IN  IF given # {} THEN (CHOOSE p \in given : TRUE)[2]
      ELSE IF e.text.ret # "none" THEN e.text.ret
      ELSE IF e.inter = "error-source" THEN "9" ELSE "none"

(* one group of frames with a code and a process: its source to every      *)
(* frame not before it, then its last frame to the application's failures  *)
GroupPropagation(events, group) ==
  LET sources  == SelectSeq(group, LAMBDA e : e.inter = "error-source")
      source   == sources[1]
      frames   == SelectSeq(group, LAMBDA e : e.id # source.id /\ e.off >= source.off)
      failures == SelectSeq(events, LAMBDA e :
                    /\ e.comp = "Application" /\ e.rule = "level-error"
                    /\ e.dom = source.dom /\ ErrorCode(e) = ErrorCode(source))
  IN  IF sources = <<>> THEN <<>>
      ELSE [i \in DOMAIN frames |->
              Relate(source, frames[i], "error-propagation", "proven", "hccl-call-trace-v1")]
           \o [i \in DOMAIN failures |->
                 Relate(group[Len(group)], failures[i], "error-propagation", "proven",
                        "execute-traceback-operator-v1")]

ErrorPropagation(events) ==
  LET frames == SelectSeq(events, LAMBDA e :
                  /\ e.inter \in {"error-source", "error-propagation"}
                  /\ ErrorCode(e) # "none" /\ e.pid # None)
      groups == Groups(frames, LAMBDA a, b :
                  a.dom = b.dom /\ a.pid = b.pid /\ ErrorCode(a) = ErrorCode(b))
  IN  FlattenSeq([i \in DOMAIN groups |-> GroupPropagation(events, groups[i])])

---------------------------------------------------------------------------
(* _append_error_code_propagation_relationships: in a burst of one         *)
(* process, errors of two components need a common code or identifier, or  *)
(* the later one naming the earlier's component; errors of one component   *)
(* only follow each other, and then closeness in time is enough            *)

Evidenced(source, target, adjacent) ==
  LET delta    == target.off - source.off
      coded    == \/ source.text.codes \cap target.text.codes # {}
                  \/ source.comp \in target.text.names
      sharing  == coded \/ source.text.tokens \cap target.text.tokens # {}
  IN  /\ delta <= Bounds.burst
      /\ IF source.comp = target.comp
         THEN adjacent /\ (coded \/ delta <= Bounds.second)
         ELSE sharing

(* the targets of the i-th error of a burst, at most fanout of them *)
BurstTargets(burst, i) ==
  LET found == SelectSeq([j \in 1..Len(burst) |-> j],
                         LAMBDA j : j > i /\ Evidenced(burst[i], burst[j], j = i + 1))
  IN  SubSeq(found, 1, Min({Bounds.fanout, Len(found)}))

BurstPropagation(burst) ==
  FlattenSeq([i \in DOMAIN burst |->
    LET to == BurstTargets(burst, i)
    IN  [k \in DOMAIN to |->
           Relate(burst[i], burst[to[k]], "error-propagation", "proven",
                  "error-code-propagation-v1")]])

CodePropagation(events) ==
  LET errors == SelectSeq(events, LAMBDA e : e.level \in {"ERROR", "FATAL"} /\ ~e.text.fragment)
      bursts == Groups(errors, LAMBDA a, b : a.dom = b.dom /\ a.pid = b.pid)
  IN  FlattenSeq([i \in DOMAIN bursts |-> BurstPropagation(bursts[i])])

---------------------------------------------------------------------------
(* _append_application_failure_relationships *)

ApplicationFailures(events) ==
  LET failed  == SelectSeq(events, LAMBDA e : e.comp = "Application" /\ e.level = "ERROR")
      saying(w) == SelectSeq(failed, LAMBDA e : w \in e.text.says)
      last(t) == SelectSeq(saying("ERR"), LAMBDA e :
                   /\ e.id # t.id /\ e.dom = t.dom
                   /\ e.off - t.off \in 0..Bounds.minute)
      of(t)   == [i \in DOMAIN last(t) |->
                   Relate(t, last(t)[i], "error-propagation", "proven",
                          "execute-log-failure-pair-v1")]
  IN  FlattenSeq([i \in DOMAIN saying("call failed") |-> of(saying("call failed")[i])])

---------------------------------------------------------------------------
(* notifications, executions, adjacency: none of them uses an event whose  *)
(* evidence is in conflict                                                 *)

DeviceEventIdentity == {"device_id", "event_id", "node_id", "assertion", "alarm_raised_time"}

Identity(e) == {p \in e.corr : p[1] \in DeviceEventIdentity}
Identified(e) == {p[1] : p \in e.corr} \cap DeviceEventIdentity = DeviceEventIdentity

Notifications(events) ==
  LET named     == SelectSeq(Agreeing(events), Identified)
      senders   == SelectSeq(named, LAMBDA e : e.inter = "notify-host" /\ e.loc = "device")
      receivers == SelectSeq(named, LAMBDA e : e.inter = "receive-device-event" /\ e.loc = "host")
      alone(e, those) == \A o \in Range(those) : Identity(o) = Identity(e) => o = e
      sent      == SelectSeq(senders, LAMBDA s : alone(s, senders))
      got(s)    == SelectSeq(receivers, LAMBDA r : Identity(r) = Identity(s) /\ alone(r, receivers))
  IN  FlattenSeq([i \in DOMAIN sent |->
        [k \in DOMAIN got(sent[i]) |->
           Relate(sent[i], got(sent[i])[k], "notification", "proven",
                  "explicit-device-event-notification-v1")]])

(* _execution_group_key *)
HasExecution(e) == e.pid # None /\ {"stream_id", "task_id"} \subseteq {p[1] : p \in e.corr} /\ ~e.clash

SameExecution(a, b) ==
  /\ a.loc = b.loc /\ a.dom = b.dom /\ a.corr = b.corr
  /\ <<a.proc, a.pid, a.tid, a.logical, a.physical>> = <<b.proc, b.pid, b.tid, b.logical, b.physical>>

(* _execution_occurrences: each from a dispatch to the next return or      *)
(* dispatch; what lies outside belongs to none                             *)
Occurrences(group) ==
  FoldLeft(LAMBDA so, e :
             IF e.inter = "dispatch" THEN [done |-> Append(so.done, <<e>>), open |-> TRUE]
             ELSE IF ~so.open THEN so
             ELSE [done |-> [so.done EXCEPT ![Len(so.done)] = Append(@, e)],
                   open |-> e.inter # "return"],
           [done |-> <<>>, open |-> FALSE], group).done

ExecutionOccurrences(events) ==
  LET groups == Groups(SelectSeq(Agreeing(events), HasExecution), SameExecution)
  IN  FlattenSeq([i \in DOMAIN groups |-> Occurrences(groups[i])])

ExecutionSteps(events) ==
  LET pairs == FlattenSeq([i \in DOMAIN ExecutionOccurrences(events) |->
                             Neighbours(ExecutionOccurrences(events)[i])])
      timed == SelectSeq(pairs, LAMBDA p : p[1].off # p[2].off)
  IN  [i \in DOMAIN timed |->
         Relate(timed[i][1], timed[i][2], "same-execution", "proven", "stream-task-execution-v1")]

SameScope(a, b) == a.loc = b.loc /\ a.dom = b.dom /\ a.pid = b.pid

Hypotheses(events) ==
  LET scopes == Groups(SelectSeq(Agreeing(events), LAMBDA e : e.pid # None), SameScope)
      pairs  == FlattenSeq([i \in DOMAIN scopes |-> Neighbours(scopes[i])])
      near   == SelectSeq(pairs, LAMBDA p :
                  /\ p[2].off - p[1].off \in 1..Bounds.adjacent
                  /\ p[1].comp # p[2].comp /\ p[1].corr = {} /\ p[2].corr = {})
  IN  [i \in DOMAIN near |->
         Relate(near[i][1], near[i][2], "hypothesis", "inferred", "temporal-component-adjacency-v1")]

ConflictLinks(events) ==
  UNION {{Relate(g[1], g[i], "evidence-conflict", "conflict", "same-observation-field-conflict-v1") :
            i \in 2..Len(g)} : g \in ConflictGroups(events)}

(* build_relationships.  Different conflict groups have no event in common. *)
BuildRelationships(events) ==
  LET conflicts == FoldSet(LAMBDA r, so : Append(so, r), <<>>, ConflictLinks(events))
  IN  LinkAll(conflicts,
        ErrorPropagation(events) \o CodePropagation(events) \o ApplicationFailures(events)
        \o Notifications(events) \o ExecutionSteps(events) \o Hypotheses(events))

---------------------------------------------------------------------------
(* build_spans, unmatched_span_endpoint_ids *)

BuildSpans(events) ==
  LET whole == SelectSeq(ExecutionOccurrences(events), LAMBDA o :
                 Len(o) >= 2 /\ o[Len(o)].inter = "return" /\ o[Len(o)].off > o[1].off)
  IN  {[start |-> o[1].id, end |-> o[Len(o)].id, duration |-> o[Len(o)].off - o[1].off,
        evidence |-> Range(o[1].evidence) \cup Range(o[Len(o)].evidence)] : o \in Range(whole)}

UnmatchedEndpoints(events, spans) ==
  {e.id : e \in {x \in Range(events) : x.inter \in {"dispatch", "return"}}}
    \ UNION {{s.start, s.end} : s \in spans}

---------------------------------------------------------------------------
(* build_clock_alignments: a domain whose declarations differ gets none *)

Declared(events, d) == {e.align[1] : e \in {x \in Range(events) : x.dom = d /\ x.align # <<>>}}

Domains(events) == {e.dom : e \in Range(events)}

BuildClockAlignments(events) ==
  {[source |-> d, target |-> v.to, off |-> v.off, unc |-> v.unc] :
     <<d, v>> \in {p \in UNION {{d} \X Declared(events, d) : d \in Domains(events)} :
                     Declared(events, p[1]) = {p[2]}}}

ClockConflicts(events) == {d \in Domains(events) : Cardinality(Declared(events, d)) > 1}
=============================================================================
