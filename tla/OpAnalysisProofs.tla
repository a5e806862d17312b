-------------------------- MODULE OpAnalysisProofs --------------------------
(***************************************************************************)
(* Proofs about the analysis of a kernel launch, for any number of         *)
(* replays, tasks of a replay, launches and failures: the analyzer counts  *)
(* exactly the tasks the launching thread has stopped, and what it writes  *)
(* is one launch, each task in its place.                                  *)
(***************************************************************************)
EXTENDS OpAnalysis, Integers, SequenceTheorems, TLAPS

-----------------------------------------------------------------------------
(* The inductive invariant *)

Kinds == {"event", "begin", "end", "pmu"}
Chunk(task) == [kind : Kinds \cup {"end_info"}, task : {task}]
Managers == [analyzeCount : Nat, replayInfo : Seq(Detail), summaryInfo : Seq(Seq(Detail)),
             metrics : Seq(Nat)]
Results == [data : Seq(Seq(Detail)), metrics : Seq(Nat)]

Types ==
  /\ pc \in {"idle", "taskStart", "kernel", "flush", "writeDone", "delete"}
  /\ launch \in 0 .. MaxLaunch /\ replay \in 1 .. ReplayTime /\ exec \in 1 .. TaskTime
  /\ {kernelOk, uploader, inited, cut} \subseteq BOOLEAN
  /\ todo \subseteq Kinds
  /\ queue \in Seq(Chunk(ThisTask)) /\ hand \in Chunk(ThisTask) \cup {NoChunk}
  /\ logInfo \in Seq(Detail) /\ subTaskInfo \subseteq {ThisTask}
  /\ manager \in Managers /\ manager.analyzeCount < TaskTime * ReplayTime
  /\ written \in Seq(Results)
  /\ faults \in 0 .. MaxFault
  /\ pc # "idle" => launch >= 1

(* a record of this kind may still come to the analyzer *)
Waiting(k) == k \in todo \/ hand.kind = k \/ \E i \in DOMAIN queue : queue[i].kind = k

Quiet == queue = <<>> /\ hand = NoChunk
Empty == logInfo = <<>> /\ subTaskInfo = {}
Ending == pc \in {"flush", "writeDone", "delete"}

(* the chunks come in order, each kind once, the end_info last *)
Flow ==
  /\ pc \in {"idle", "taskStart"} => ~uploader /\ todo = {} /\ Quiet /\ Empty
  /\ pc = "kernel" => ~Waiting("end_info") /\ (~uploader => todo = {} /\ Quiet /\ Empty)
  /\ Ending => /\ todo = {}
               /\ queue # <<>> => queue[Len(queue)].kind = "end_info"
               /\ queue = <<>> => hand = NoChunk \/ hand.kind = "end_info"
  /\ pc \in {"writeDone", "delete"} => queue = <<>>
  /\ pc = "delete" => Empty

Once ==
  /\ \A i, j \in DOMAIN queue : queue[i].kind = queue[j].kind => i = j
  /\ \A i \in DOMAIN queue : queue[i].kind # hand.kind /\ queue[i].kind \notin todo
  /\ hand.kind \notin todo

(* the details the log records of the task at hand have made *)
Log ==
  /\ \A i \in DOMAIN logInfo : logInfo[i].task = ThisTask /\ ~logInfo[i].cycles
  /\ \A i, j \in DOMAIN logInfo : logInfo[i].event = logInfo[j].event => i = j
  /\ \A i \in DOMAIN logInfo :
       IF logInfo[i].event THEN ~Waiting("event")
       ELSE /\ logInfo[i].begin => ~Waiting("begin")
            /\ logInfo[i].end => ~Waiting("end")

(* the analyzer has counted the task at hand *)
Counted == Ending /\ Quiet

(* of a task of which nothing was lost, every record comes *)
Logged == \E i \in DOMAIN logInfo : /\ ~logInfo[i].event
                                    /\ Waiting("begin") \/ logInfo[i].begin
                                    /\ Waiting("end") \/ logInfo[i].end
Full ==
  faults = 0 /\ (pc = "kernel" \/ Ending) =>
    /\ inited /\ uploader
    /\ ~Counted => /\ (Waiting("begin") /\ Waiting("end")) \/ Logged
                   /\ Waiting("pmu") \/ subTaskInfo = {ThisTask}

(* What the manager holds before the task e of replay r of launch l: of a  *)
(* task of which no record came it holds nothing, but if it holds as many  *)
(* as were counted, each is in its place.                                  *)
Place(d, l, r, e) == d.task = <<l, r, e>> /\ ~d.event
Whole(d) == d.begin /\ d.end /\ d.cycles

Exact(m, r, e) == Len(m.summaryInfo) = r - 1 /\ Len(m.replayInfo) = e - 1
Behind(m, r, e) == \/ Len(m.summaryInfo) < r - 1
                   \/ Len(m.summaryInfo) = r - 1 /\ Len(m.replayInfo) < e - 1
InPlace(m, l, r, f) ==
  /\ \A i \in DOMAIN m.summaryInfo :
       /\ Len(m.summaryInfo[i]) = TaskTime
       /\ \A j \in 1 .. TaskTime : /\ Place(m.summaryInfo[i][j], l, i, j)
                                   /\ f = 0 => Whole(m.summaryInfo[i][j])
  /\ \A j \in DOMAIN m.replayInfo : /\ Place(m.replayInfo[j], l, r, j)
                                    /\ f = 0 => Whole(m.replayInfo[j])
Metrics(n) == [i \in 1 .. n |-> i]

Held(m, l, r, e, f) ==
  /\ m.analyzeCount = (r - 1) * TaskTime + (e - 1)
  /\ m.metrics = Metrics(IF e = 1 THEN r - 1 ELSE r)
  /\ Len(m.replayInfo) < TaskTime
  /\ \/ Exact(m, r, e) /\ InPlace(m, l, r, f)
     \/ Behind(m, r, e) /\ f # 0

(* the manager after the task *)
HeldAfter(m, l, r, e, f) ==
  IF e < TaskTime THEN Held(m, l, r, e + 1, f)
  ELSE IF r < ReplayTime THEN Held(m, l, r + 1, 1, f)
  ELSE m = EmptyManager

Counting ==
  ~cut => IF pc = "idle" THEN manager = EmptyManager
          ELSE IF Counted THEN HeldAfter(manager, launch, replay, exec, faults)
          ELSE Held(manager, launch, replay, exec, faults)

(* the launches that are through *)
Through == IF pc = "idle" \/ (Counted /\ exec = TaskTime /\ replay = ReplayTime)
           THEN launch ELSE launch - 1

Writing ==
  ~cut => /\ \A i \in DOMAIN written : \E l \in 1 .. launch : written[i] = Complete(l)
          /\ faults = 0 => written = [l \in 1 .. Through |-> Complete(l)]

Inv == Types /\ Flow /\ Once /\ Log /\ Full /\ Counting /\ Writing

-----------------------------------------------------------------------------
(* Products and remainders                                                 *)

(* A product grows with its factor.                                        *)
LEMMA Monotone ==
  ASSUME NEW a \in Int, NEW b \in Int, NEW c \in Nat, a <= b
  PROVE  a * c <= b * c
<1>1. (b - a) * c >= 0
  <2>1. b - a \in Nat
    OBVIOUS
  <2> QED
    BY <2>1
<1>2. (b - a) * c = b * c - a * c
  OBVIOUS
<1> QED
  BY <1>1, <1>2

(* The count of the tasks before a task is a multiple of TaskTime exactly  *)
(* for the first task of a replay.                                         *)
LEMMA FirstOfReplay ==
  ASSUME NEW q \in Nat, NEW s \in Nat, NEW T \in Nat \ {0}, s < T
  PROVE  (q * T + s) % T = s
<1> DEFINE a == q * T + s
           d == a \div T
           m == a % T
<1>1. q * T \in Nat /\ a \in Nat
  OBVIOUS
<1>2. d \in Int /\ m \in Int /\ 0 <= m /\ m < T /\ a = T * d + m
  <2> HIDE DEF a
  <2> QED
    BY <1>1
<1>3. d * T = T * d
  BY <1>2
<1> HIDE DEF d, m
<1>4. CASE d >= q + 1
  <2>1. (q + 1) * T <= d * T
    BY <1>2, <1>4, Monotone
  <2>2. (q + 1) * T = q * T + T
    OBVIOUS
  <2> QED
    BY <1>1, <1>2, <1>3, <2>1, <2>2
<1>5. CASE q >= d + 1
  <2>1. (d + 1) * T <= q * T
    BY <1>2, <1>5, Monotone
  <2>2. (d + 1) * T = d * T + T
    BY <1>2
  <2> QED
    BY <1>1, <1>2, <1>3, <2>1, <2>2
<1>6. CASE d = q
  BY <1>1, <1>2, <1>3, <1>6 DEF m
<1> QED
  BY <1>2, <1>4, <1>5, <1>6

(* The tasks are all counted after the last task of the last replay.       *)
LEMMA LastTask ==
  ASSUME NEW r \in 1 .. ReplayTime, NEW e \in 1 .. TaskTime
  PROVE  LET n == (r - 1) * TaskTime + e
         IN  /\ n \in Nat /\ n <= TaskTime * ReplayTime
             /\ n = TaskTime * ReplayTime <=> e = TaskTime /\ r = ReplayTime
<1>1. TaskTime \in Nat \ {0} /\ ReplayTime \in Nat \ {0}
  BY AnalysisAssumption
<1>2. r * TaskTime = (r - 1) * TaskTime + TaskTime
  BY <1>1
<1>3. (r - 1) * TaskTime \in Nat
  BY <1>1
<1>4. ReplayTime * TaskTime = TaskTime * ReplayTime /\ TaskTime * ReplayTime \in Nat
  BY <1>1
<1>5. CASE r = ReplayTime
  BY <1>1, <1>2, <1>3, <1>4, <1>5
<1>6. CASE r # ReplayTime
  <2>1. r + 1 \in Int /\ r + 1 <= ReplayTime
    BY <1>1, <1>6
  <2>2. (r + 1) * TaskTime <= ReplayTime * TaskTime
    BY <1>1, <2>1, Monotone
  <2>3. (r + 1) * TaskTime = r * TaskTime + TaskTime
    BY <1>1
  <2> QED
    BY <1>1, <1>2, <1>3, <1>4, <1>6, <2>2, <2>3
<1> QED
  BY <1>5, <1>6

-----------------------------------------------------------------------------
(* The details of a task                                                   *)

(* all details but one are events, which are not counted *)
OneKind(s) == \A i, j \in DOMAIN s : s[i].event = s[j].event => i = j
Added(m, s, x) ==
  \/ (\A i \in DOMAIN s : s[i].event) /\ x = m
  \/ \E i \in DOMAIN s : ~s[i].event /\ x = AddSummaryInfo(m, s[i])

(* Of the details of a task, of which there are at most one event and one  *)
(* other, exactly the other is added.                                      *)
LEMMA AddsOne ==
  ASSUME NEW s \in Seq(Detail), OneKind(s), NEW m
  PROVE  Added(m, s, AddAll(m, s))
<1> DEFINE n == Len(s)
           A1 == AddSummaryInfo(m, s[1])
           A2 == AddSummaryInfo(A1, s[2])
           h == [i \in 0 .. n |-> IF i = 0 THEN m ELSE IF i = 1 THEN A1 ELSE A2]
           Sums(g) == g = [i \in 0 .. n |-> IF i = 0 THEN m ELSE AddSummaryInfo(g[i - 1], s[i])]
           after == CHOOSE g : Sums(g)
<1>1. n \in Nat /\ DOMAIN s = 1 .. n /\ \A i \in 1 .. n : s[i] \in Detail
  OBVIOUS
<1>2. \A i \in 1 .. n : s[i].event \in BOOLEAN
  BY <1>1 DEF Detail
<1>3. n <= 2
  <2> SUFFICES ASSUME n >= 3 PROVE FALSE
    BY <1>1
  <2>1. 1 \in DOMAIN s /\ 2 \in DOMAIN s /\ 3 \in DOMAIN s
    BY <1>1
  <2>2. s[1].event # s[2].event /\ s[1].event # s[3].event /\ s[2].event # s[3].event
    BY <2>1 DEF OneKind
  <2>3. s[1].event \in BOOLEAN /\ s[2].event \in BOOLEAN /\ s[3].event \in BOOLEAN
    BY <1>1, <1>2, <2>1
  <2> QED
    BY <2>2, <2>3, Zenon
<1>4. AddAll(m, s) = after[n]
  BY DEF AddAll
<1>5. Sums(h)
  <2> HIDE DEF A1, A2
  <2>1. \A i \in 0 .. n : i # 0 => AddSummaryInfo(h[i - 1], s[i]) = IF i = 1 THEN A1 ELSE A2
    <3> SUFFICES ASSUME NEW i \in 0 .. n, i # 0 PROVE AddSummaryInfo(h[i - 1], s[i]) = IF i = 1 THEN A1 ELSE A2
      OBVIOUS
    <3>1. CASE i = 1
      BY <1>1, <3>1 DEF A1
    <3>2. CASE i = 2
      <4>1. h[1] = A1
        BY <1>1, <3>2
      <4> QED
        BY <3>2, <4>1 DEF A2
    <3> QED
      BY <1>1, <1>3, <3>1, <3>2
  <2> QED
    BY <2>1
<1>6. Sums(after)
  <2> HIDE DEF h, Sums
  <2> QED
    BY <1>5
<1> HIDE DEF after
<1>7. after[0] = m
  BY <1>1, <1>6
<1>8. n >= 1 => after[1] = AddSummaryInfo(m, s[1])
  BY <1>1, <1>6, <1>7
<1>9. n >= 2 => after[2] = AddSummaryInfo(after[1], s[2])
  BY <1>1, <1>6
<1>10. \A x : \A i \in DOMAIN s : s[i].event => AddSummaryInfo(x, s[i]) = x
  BY DEF AddSummaryInfo
<1>11. CASE n = 0
  BY <1>1, <1>4, <1>7, <1>11 DEF Added
<1>12. CASE n = 1
  BY <1>1, <1>2, <1>4, <1>8, <1>10, <1>12 DEF Added
<1>13. CASE n = 2
  <2>1. 1 \in DOMAIN s /\ 2 \in DOMAIN s
    BY <1>1, <1>13
  <2>2. s[1].event # s[2].event /\ s[1].event \in BOOLEAN /\ s[2].event \in BOOLEAN
    BY <1>1, <1>2, <2>1 DEF OneKind
  <2>3. AddAll(m, s) = AddSummaryInfo(AddSummaryInfo(m, s[1]), s[2])
    BY <1>4, <1>8, <1>9, <1>13
  <2>4. CASE s[1].event
    BY <1>10, <2>1, <2>2, <2>3, <2>4, Zenon DEF Added
  <2>5. CASE ~s[1].event
    BY <1>10, <2>1, <2>2, <2>3, <2>5, Zenon DEF Added
  <2> QED
    BY <2>2, <2>4, <2>5
<1> QED
  BY <1>1, <1>3, <1>11, <1>12, <1>13

(* the detail with the time of the record *)
Marked(d, kind) == IF kind = "end" THEN [d EXCEPT !.end = TRUE] ELSE [d EXCEPT !.begin = TRUE]

Handled(log, kind, t, x) ==
  /\ x \in Seq(Detail)
  /\ \/ /\ \A i \in DOMAIN log : log[i].event # (kind = "event")
        /\ Len(x) = Len(log) + 1 /\ x[Len(x)] = Marked(NewDetail(t, kind = "event"), kind)
        /\ \A i \in DOMAIN log : x[i] = log[i]
     \/ \E k \in DOMAIN log :
          /\ log[k].event = (kind = "event")
          /\ Len(x) = Len(log) /\ x[k] = Marked(log[k], kind)
          /\ \A i \in DOMAIN log : i # k => x[i] = log[i]

(* A detail with a time is a detail.                                       *)
LEMMA MarkedIsDetail ==
  ASSUME NEW d \in Detail, NEW kind
  PROVE  /\ Marked(d, kind) \in Detail
         /\ Marked(d, kind).event = d.event /\ Marked(d, kind).task = d.task
         /\ Marked(d, kind).cycles = d.cycles
         /\ Marked(d, kind).begin = (d.begin \/ kind # "end")
         /\ Marked(d, kind).end = (d.end \/ kind = "end")
BY DEF Marked, Detail

(* A log record makes a new detail when there is none of its kind, else    *)
(* the one there is has its time.                                          *)
LEMMA HandlesRecord ==
  ASSUME NEW log \in Seq(Detail), OneKind(log), NEW t \in Task, \A i \in DOMAIN log : log[i].task = t,
         NEW kind \in {"event", "begin", "end"},
         \A i \in DOMAIN log : log[i].event = (kind = "event") =>
           kind # "event" /\ ~(log[i].begin /\ log[i].end)
  PROVE  Handled(log, kind, t, HandleStarsAcsq(log, kind, t))
<1> DEFINE event == kind = "event"
           same == {i \in 1 .. Len(log) : log[i].task = t /\ log[i].event = event}
           first == CHOOSE i \in same : \A j \in same : i <= j
           found == same # {} /\ ~(log[first].begin /\ log[first].end)
           fresh == NewDetail(t, event)
           all == IF found THEN log ELSE Append(log, fresh)
           k == IF found THEN first ELSE Len(all)
           x == HandleStarsAcsq(log, kind, t)
<1>1. Len(log) \in Nat /\ DOMAIN log = 1 .. Len(log) /\ \A i \in DOMAIN log : log[i] \in Detail
  OBVIOUS
<1>2. x = IF kind = "end" THEN [all EXCEPT ![k].end = TRUE] ELSE [all EXCEPT ![k].begin = TRUE]
  BY Zenon DEF HandleStarsAcsq
<1>3. fresh \in Detail
  BY DEF NewDetail, Detail
<1> HIDE DEF fresh
<1>4. x = [all EXCEPT ![k] = Marked(all[k], kind)]
  <2> HIDE DEF all, k
  <2> QED
    BY <1>2 DEF Marked
<1>5. CASE same = {}
  <2>1. ~found
    BY <1>5
  <2>2. \A i \in DOMAIN log : log[i].event # event
    BY <1>1, <1>5
  <2>3. all = Append(log, fresh) /\ k = Len(all)
    <3> HIDE DEF found
    <3> QED
      BY <2>1
  <2> HIDE DEF all, k, found, same
  <2>4. /\ all \in Seq(Detail) /\ Len(all) = Len(log) + 1 /\ all[Len(all)] = fresh
        /\ \A i \in DOMAIN log : all[i] = log[i]
    BY <1>1, <1>3, <2>3
  <2>5. Marked(fresh, kind) \in Detail
    BY <1>3, MarkedIsDetail
  <2>6. k \in 1 .. Len(all) /\ \A i \in DOMAIN log : i # k
    BY <1>1, <2>3, <2>4
  <2> HIDE <2>3
  <2>7. k = Len(all)
    BY <2>3
  <2>8. x \in Seq(Detail) /\ Len(x) = Len(all) /\ x[k] = Marked(fresh, kind) /\ \A i \in DOMAIN log : x[i] = all[i]
    BY <1>1, <1>4, <2>4, <2>5, <2>6, <2>7
  <2> HIDE DEF x, event
  <2>9. /\ x \in Seq(Detail) /\ Len(x) = Len(log) + 1 /\ x[Len(x)] = Marked(fresh, kind)
        /\ \A i \in DOMAIN log : x[i] = log[i]
    BY <2>4, <2>7, <2>8
  <2> QED
    BY <2>2, <2>9, Zenon DEF Handled, x, event, fresh
<1>6. CASE same # {}
  <2>1. PICK i0 \in same : TRUE
    BY <1>6
  <2>2. \A i \in same : i = i0
    BY <1>1, <2>1 DEF OneKind
  <2>3. \A j \in same : i0 <= j
    BY <1>1, <2>1, <2>2
  <2>4. first = i0
    <3> HIDE DEF same
    <3>1. \E i \in same : \A j \in same : i <= j
      BY <2>1, <2>3
    <3>2. first \in same
      BY <3>1
    <3> QED
      BY <2>2, <3>2
  <2>5. i0 \in DOMAIN log /\ log[i0].event = event
    BY <1>1, <2>1
  <2>6. ~(log[i0].begin /\ log[i0].end)
    BY <2>5
  <2>7. all = log /\ k = i0
    BY <1>6, <2>4, <2>6
  <2> HIDE DEF all, k, found, same, first
  <2>8. x = [log EXCEPT ![i0] = Marked(log[i0], kind)]
    BY <1>4, <2>7
  <2>9. Marked(log[i0], kind) \in Detail
    BY <1>1, <2>5, MarkedIsDetail
  <2>10. x \in Seq(Detail) /\ Len(x) = Len(log) /\ x[i0] = Marked(log[i0], kind) /\ \A i \in DOMAIN log : i # i0 => x[i] = log[i]
    BY <1>1, <2>5, <2>8, <2>9
  <2> HIDE DEF x, event
  <2> QED
    BY <2>5, <2>10, Zenon DEF Handled, x, event
<1> QED
  BY <1>5, <1>6

Associated(log, sub, x) ==
  /\ x \in Seq(Detail) /\ Len(x) = Len(log)
  /\ \A i \in DOMAIN log :
       /\ x[i].task = log[i].task /\ x[i].event = log[i].event
       /\ x[i].begin = log[i].begin /\ x[i].end = log[i].end
       /\ ~log[i].event /\ log[i].task \in sub => x[i].cycles

(* The cycles are added to every detail of a task that has a PMU record.   *)
LEMMA AssociatesAll ==
  ASSUME NEW log \in Seq(Detail), NEW sub
  PROVE  Associated(log, sub, SubTaskAssociation(log, sub))
<1>1. Len(log) \in Nat /\ DOMAIN log = 1 .. Len(log) /\ \A i \in DOMAIN log : log[i] \in Detail
  OBVIOUS
<1> DEFINE one(i) == IF ~log[i].event /\ log[i].task \in sub THEN [log[i] EXCEPT !.cycles = TRUE] ELSE log[i]
           x == [i \in 1 .. Len(log) |-> one(i)]
<1>2. \A i \in DOMAIN log : one(i) \in Detail
  BY <1>1 DEF Detail
<1>3. x \in Seq(Detail) /\ Len(x) = Len(log)
  <2> HIDE DEF one
  <2> QED
    BY <1>1, <1>2
<1>4. \A i \in DOMAIN log :
       /\ x[i].task = log[i].task /\ x[i].event = log[i].event
       /\ x[i].begin = log[i].begin /\ x[i].end = log[i].end
       /\ ~log[i].event /\ log[i].task \in sub => x[i].cycles
  BY <1>1 DEF Detail
<1>5. SubTaskAssociation(log, sub) = x
  BY DEF SubTaskAssociation
<1> HIDE DEF x
<1> QED
  BY <1>3, <1>4, <1>5 DEF Associated

-----------------------------------------------------------------------------
(* Counting a task                                                         *)

(* What the manager holds changes by the metrics of the replay, by the     *)
(* detail of the task, if there is one, and by the count.                  *)
WithMetrics(m, n, x) ==
  /\ x \in Managers /\ x.analyzeCount = m.analyzeCount
  /\ x.replayInfo = m.replayInfo /\ x.summaryInfo = m.summaryInfo
  /\ x.metrics = IF m.analyzeCount % TaskTime = 0 THEN Append(m.metrics, n) ELSE m.metrics

(* the detail joins its replay, which is complete with it or not *)
WithDetail(m, d, x) ==
  /\ x \in Managers /\ x.analyzeCount = m.analyzeCount /\ x.metrics = m.metrics
  /\ \E info \in Seq(Detail) :
       /\ Len(info) = Len(m.replayInfo) + 1 /\ info[Len(info)] = d
       /\ \A i \in DOMAIN m.replayInfo : info[i] = m.replayInfo[i]
       /\ IF Len(info) = TaskTime
          THEN /\ x.replayInfo = <<>>
               /\ Len(x.summaryInfo) = Len(m.summaryInfo) + 1
               /\ x.summaryInfo[Len(x.summaryInfo)] = info
               /\ \A i \in DOMAIN m.summaryInfo : x.summaryInfo[i] = m.summaryInfo[i]
          ELSE x.replayInfo = info /\ x.summaryInfo = m.summaryInfo

(* The first task of a replay brings the replay's metrics.                 *)
LEMMA AddsMetrics ==
  ASSUME NEW m \in Managers, NEW n \in Nat
  PROVE  WithMetrics(m, n, AddMetrics(m, n))
<1>1. PICK more : more = Append(m.metrics, n)
  OBVIOUS
<1>2. more \in Seq(Nat)
  BY <1>1 DEF Managers
<1>3. AddMetrics(m, n) = IF m.analyzeCount % TaskTime = 0 THEN [m EXCEPT !.metrics = more] ELSE m
  BY <1>1 DEF AddMetrics
<1> QED
  BY <1>1, <1>2, <1>3 DEF WithMetrics, Managers

(* The detail of a task is the last one of its replay.                     *)
LEMMA AddsDetail ==
  ASSUME NEW m \in Managers, NEW d \in Detail, ~d.event
  PROVE  WithDetail(m, d, AddSummaryInfo(m, d))
<1>1. PICK info : info = Append(m.replayInfo, d)
  OBVIOUS
<1>2. m.replayInfo \in Seq(Detail) /\ m.summaryInfo \in Seq(Seq(Detail))
  BY DEF Managers
<1>3. /\ info \in Seq(Detail) /\ Len(info) = Len(m.replayInfo) + 1 /\ info[Len(info)] = d
      /\ \A i \in DOMAIN m.replayInfo : info[i] = m.replayInfo[i]
  BY <1>1, <1>2
<1>4. PICK sums : sums = Append(m.summaryInfo, info)
  OBVIOUS
<1>5. /\ sums \in Seq(Seq(Detail)) /\ Len(sums) = Len(m.summaryInfo) + 1 /\ sums[Len(sums)] = info
      /\ \A i \in DOMAIN m.summaryInfo : sums[i] = m.summaryInfo[i]
  <2>1. PICK D : D = Seq(Detail)
    OBVIOUS
  <2>2. m.summaryInfo \in Seq(D) /\ info \in D
    BY <1>2, <1>3, <2>1
  <2>3. /\ sums \in Seq(D) /\ Len(sums) = Len(m.summaryInfo) + 1 /\ sums[Len(sums)] = info
        /\ \A i \in DOMAIN m.summaryInfo : sums[i] = m.summaryInfo[i]
    <3> HIDE <1>1, <1>2, <1>3, <2>1
    <3> QED
      BY <1>4, <2>2
  <2> QED
    BY <2>1, <2>3
<1>6. AddSummaryInfo(m, d) = IF Len(info) = TaskTime
                             THEN [m EXCEPT !.replayInfo = <<>>, !.summaryInfo = sums]
                             ELSE [m EXCEPT !.replayInfo = info]
  BY <1>1, <1>4 DEF AddSummaryInfo
<1> HIDE <1>1, <1>4
<1>7. <<>> \in Seq(Detail)
  OBVIOUS
<1>8. CASE Len(info) = TaskTime
  <2>1. PICK x : x = AddSummaryInfo(m, d)
    OBVIOUS
  <2>2. /\ x.replayInfo = <<>> /\ x.summaryInfo = sums /\ x \in Managers
        /\ x.analyzeCount = m.analyzeCount /\ x.metrics = m.metrics
    <3>1. PICK S, T : S = Seq(Detail) /\ T = Seq(Seq(Detail))
      OBVIOUS
    <3>2. Managers = [analyzeCount : Nat, replayInfo : S, summaryInfo : T, metrics : Seq(Nat)]
      BY <3>1 DEF Managers
    <3>3. m \in Managers /\ sums \in T /\ <<>> \in S
      BY <1>5, <1>7, <3>1
    <3>4. x = [m EXCEPT !.replayInfo = <<>>, !.summaryInfo = sums]
      BY <1>6, <1>8, <2>1
    <3> HIDE <1>2, <1>3, <1>5, <1>6, <1>7, <2>1, <3>1
    <3> QED
      BY <3>2, <3>3, <3>4, Zenon
  <2> QED
    BY <1>3, <1>5, <1>8, <2>1, <2>2, Zenon DEF WithDetail
<1>9. CASE Len(info) # TaskTime
  <2>1. PICK x : x = AddSummaryInfo(m, d)
    OBVIOUS
  <2>2. /\ x.replayInfo = info /\ x.summaryInfo = m.summaryInfo /\ x \in Managers
        /\ x.analyzeCount = m.analyzeCount /\ x.metrics = m.metrics
    BY <1>3, <1>6, <1>9, <2>1 DEF Managers
  <2> QED
    BY <1>3, <1>9, <2>1, <2>2, Zenon DEF WithDetail
<1> QED
  BY <1>8, <1>9

(* the detail of the task, with the cycles if there is a PMU record *)
DetailOf(log, sub, d) ==
  /\ d \in Detail /\ ~d.event
  /\ \E i \in DOMAIN log :
       /\ ~log[i].event /\ d.task = log[i].task /\ d.begin = log[i].begin /\ d.end = log[i].end
       /\ log[i].task \in sub => d.cycles

CountedOne(m, log, sub, n, x) ==
  \E y, z : /\ WithMetrics(m, n, y)
            /\ \/ (\A i \in DOMAIN log : log[i].event) /\ z = y
               \/ \E d : DetailOf(log, sub, d) /\ WithDetail(y, d, z)
            /\ x \in Managers /\ x.analyzeCount = z.analyzeCount + 1 /\ x.metrics = z.metrics
            /\ x.replayInfo = z.replayInfo /\ x.summaryInfo = z.summaryInfo

(* The end_info of a task: OpAssociation.                                  *)
LEMMA CountsOne ==
  ASSUME NEW m \in Managers, NEW log \in Seq(Detail), OneKind(log), NEW sub, NEW t, t[2] \in Nat
  PROVE  CountedOne(m, log, sub, t[2], OpAssociation(m, log, sub, t))
<1>1. PICK y : y = AddMetrics(m, t[2])
  OBVIOUS
<1>2. PICK s : s = SubTaskAssociation(log, sub)
  OBVIOUS
<1>3. PICK z : z = AddAll(y, s)
  OBVIOUS
<1>4. PICK x : x = OpAssociation(m, log, sub, t)
  OBVIOUS
<1>5. x = [z EXCEPT !.analyzeCount = @ + 1]
  BY <1>1, <1>2, <1>3, <1>4 DEF OpAssociation
<1>6. WithMetrics(m, t[2], y)
  BY <1>1, AddsMetrics
<1>7. Associated(log, sub, s)
  BY <1>2, AssociatesAll
<1>8. OneKind(s)
  BY <1>7 DEF OneKind, Associated
<1>9. Added(y, s, z)
  <2>1. s \in Seq(Detail)
    BY <1>7 DEF Associated
  <2> QED
    BY <1>3, <1>8, <2>1, AddsOne
<1>10. y \in Managers
  BY <1>6 DEF WithMetrics
<1>11. /\ z \in Managers
       /\ \/ (\A i \in DOMAIN log : log[i].event) /\ z = y
          \/ \E d : DetailOf(log, sub, d) /\ WithDetail(y, d, z)
  <2>1. CASE (\A i \in DOMAIN s : s[i].event) /\ z = y
    <3>1. \A i \in DOMAIN log : log[i].event
      BY <1>7, <2>1 DEF Associated
    <3> QED
      BY <1>10, <2>1, <3>1
  <2>2. CASE \E i \in DOMAIN s : ~s[i].event /\ z = AddSummaryInfo(y, s[i])
    <3>1. PICK i \in DOMAIN s : ~s[i].event /\ z = AddSummaryInfo(y, s[i])
      BY <2>2
    <3>2. PICK d : d = s[i]
      OBVIOUS
    <3>3. DetailOf(log, sub, d)
      BY <1>7, <3>1, <3>2 DEF Associated, DetailOf
    <3>4. WithDetail(y, d, z)
      BY <1>10, <3>1, <3>2, <3>3, AddsDetail DEF DetailOf
    <3>5. z \in Managers
      BY <3>4 DEF WithDetail
    <3> QED
      BY <3>3, <3>4, <3>5
  <2> QED
    BY <1>9, <2>1, <2>2 DEF Added
<1>12. /\ x \in Managers /\ x.analyzeCount = z.analyzeCount + 1 /\ x.metrics = z.metrics
       /\ x.replayInfo = z.replayInfo /\ x.summaryInfo = z.summaryInfo
  <2>1. z \in Managers
    BY <1>11
  <2>2. z.analyzeCount \in Nat
    BY <2>1 DEF Managers
  <2>3. PICK n : n = z.analyzeCount + 1
    OBVIOUS
  <2>4. n \in Nat /\ x = [z EXCEPT !.analyzeCount = n]
    BY <1>5, <2>2, <2>3
  <2>5. /\ x \in Managers /\ x.analyzeCount = n /\ x.metrics = z.metrics
        /\ x.replayInfo = z.replayInfo /\ x.summaryInfo = z.summaryInfo
    <3> HIDE <1>3, <1>4, <1>11, <2>3
    <3> QED
      BY <2>1, <2>4 DEF Managers
  <2> QED
    BY <2>3, <2>5
<1> QED
  BY <1>4, <1>6, <1>11, <1>12, Zenon DEF CountedOne

(* what it should hold after one more task *)
HeldNext(m, l, r, e, f) == IF e < TaskTime THEN Held(m, l, r, e + 1, f) ELSE Held(m, l, r + 1, 1, f)

(* And it does, when the task is counted with the details of its log; if   *)
(* nothing went wrong they are one detail with both times and the cycles.  *)
LEMMA HoldsOneMore ==
  ASSUME NEW m \in Managers, NEW l, NEW r \in 1 .. ReplayTime, NEW e \in 1 .. TaskTime, NEW f,
         Held(m, l, r, e, f), NEW log, \A i \in DOMAIN log : log[i].task = <<l, r, e>>,
         NEW sub, NEW x, CountedOne(m, log, sub, r, x),
         f = 0 => /\ \E i \in DOMAIN log : ~log[i].event
                  /\ \A i \in DOMAIN log : ~log[i].event => log[i].begin /\ log[i].end
                  /\ <<l, r, e>> \in sub
  PROVE  HeldNext(x, l, r, e, f)
<1>a. TaskTime \in Nat /\ TaskTime >= 1 /\ r \in Nat /\ r >= 1 /\ e \in Nat /\ e >= 1 /\ e <= TaskTime
  <2>1. TaskTime \in Nat \ {0} /\ ReplayTime \in Nat \ {0}
    BY AnalysisAssumption
  <2> QED
    BY <2>1
<1> USE <1>a
<1>1. PICK y, z : /\ WithMetrics(m, r, y)
            /\ \/ (\A i \in DOMAIN log : log[i].event) /\ z = y
               \/ \E d : DetailOf(log, sub, d) /\ WithDetail(y, d, z)
            /\ x \in Managers /\ x.analyzeCount = z.analyzeCount + 1 /\ x.metrics = z.metrics
            /\ x.replayInfo = z.replayInfo /\ x.summaryInfo = z.summaryInfo
  BY DEF CountedOne
<1>2. m.analyzeCount % TaskTime = e - 1
  <2>1. r - 1 \in Nat /\ e - 1 \in Nat /\ e - 1 < TaskTime /\ TaskTime \in Nat \ {0}
    BY <1>a
  <2>2. ((r - 1) * TaskTime + (e - 1)) % TaskTime = e - 1
    BY <2>1, FirstOfReplay
  <2> QED
    BY <2>2 DEF Held
<1>3. y.metrics = Metrics(r)
  <2>1. CASE e = 1
    <3>1. Append(Metrics(r - 1), r) = Metrics(r)
      <4>1. PICK a, b : a = Metrics(r - 1) /\ b = Metrics(r)
        OBVIOUS
      <4>2. /\ a \in Seq(Nat) /\ Len(a) = r - 1 /\ \A i \in 1 .. (r - 1) : a[i] = i
            /\ b \in Seq(Nat) /\ Len(b) = r /\ \A i \in 1 .. r : b[i] = i
        BY <4>1 DEF Metrics
      <4>3. Append(a, r) = b
        <5> HIDE <4>1
        <5>1. PICK c : c = Append(a, r)
          OBVIOUS
        <5>2. c \in Seq(Nat) /\ Len(c) = r /\ \A i \in 1 .. r : c[i] = i
          BY <4>2, <5>1
        <5>3. c = b
          BY <4>2, <5>2, SeqEqual
        <5> QED
          BY <5>1, <5>3
      <4> QED
        BY <4>1, <4>3
    <3> QED
      BY <1>1, <1>2, <2>1, <3>1 DEF Held, WithMetrics
  <2>2. CASE e # 1
    BY <1>1, <1>2, <2>2 DEF Held, WithMetrics
  <2> QED
    BY <2>1, <2>2
<1>4. y \in Managers /\ y.analyzeCount = m.analyzeCount /\ y.replayInfo = m.replayInfo /\ y.summaryInfo = m.summaryInfo
  BY <1>1 DEF WithMetrics
<1>5. z.metrics = Metrics(r) /\ z.analyzeCount = m.analyzeCount /\ z \in Managers
  BY <1>1, <1>3, <1>4 DEF WithDetail
<1>6. x.metrics = Metrics(r) /\ x.analyzeCount = (r - 1) * TaskTime + e
  <2>1. PICK p : p = (r - 1) * TaskTime
    OBVIOUS
  <2>2. p \in Int
    BY <2>1
  <2>3. m.analyzeCount = p + (e - 1)
    BY <2>1 DEF Held
  <2>4. p + (e - 1) + 1 = p + e
    BY <2>2
  <2> QED
    BY <1>1, <1>5, <2>1, <2>3, <2>4
<1> DEFINE Shape(a, b) == /\ Len(x.replayInfo) < TaskTime
                          /\ \/ Exact(x, a, b) /\ InPlace(x, l, a, f)
                             \/ Behind(x, a, b) /\ f # 0
<1>7. e < TaskTime /\ Shape(r, e + 1) => HeldNext(x, l, r, e, f)
  <2> SUFFICES ASSUME e < TaskTime, Shape(r, e + 1) PROVE HeldNext(x, l, r, e, f)
    OBVIOUS
  <2>1. e = (e + 1) - 1 /\ r = IF e + 1 = 1 THEN r - 1 ELSE r
    OBVIOUS
  <2>2. /\ x.analyzeCount = (r - 1) * TaskTime + ((e + 1) - 1)
        /\ x.metrics = Metrics(IF e + 1 = 1 THEN r - 1 ELSE r)
    BY <1>6, <2>1, Zenon
  <2>3. Held(x, l, r, e + 1, f)
    BY <2>2, Zenon DEF Held
  <2> QED
    BY <2>3, Zenon DEF HeldNext
<1>8. e = TaskTime /\ Shape(r + 1, 1) => HeldNext(x, l, r, e, f)
  <2> SUFFICES ASSUME e = TaskTime, Shape(r + 1, 1) PROVE HeldNext(x, l, r, e, f)
    OBVIOUS
  <2>1. x.analyzeCount = ((r + 1) - 1) * TaskTime + (1 - 1)
    <3>1. (r - 1) * TaskTime + TaskTime = ((r + 1) - 1) * TaskTime + (1 - 1)
      OBVIOUS
    <3> QED
      BY <1>6, <3>1, Zenon
  <2>2. x.metrics = Metrics(IF 1 = 1 THEN (r + 1) - 1 ELSE r + 1)
    <3>1. r = (r + 1) - 1
      OBVIOUS
    <3> QED
      BY <1>6, <3>1, Zenon
  <2>3. Held(x, l, r + 1, 1, f)
    BY <2>1, <2>2, Zenon DEF Held
  <2>4. ~(e < TaskTime)
    OBVIOUS
  <2> QED
    BY <2>3, <2>4, Zenon DEF HeldNext
<1>14. PICK rep, sums : rep = m.replayInfo /\ sums = m.summaryInfo
  OBVIOUS
<1>9. rep \in Seq(Detail) /\ sums \in Seq(Seq(Detail))
  BY <1>14 DEF Managers
<1>10. Len(rep) < TaskTime /\ ((Exact(m, r, e) /\ InPlace(m, l, r, f)) \/ (Behind(m, r, e) /\ f # 0))
  BY <1>14 DEF Held
<1>11. Len(rep) \in Nat /\ Len(sums) \in Nat
  <2>1. PICK D : D = Seq(Detail)
    OBVIOUS
  <2>2. sums \in Seq(D) /\ rep \in D
    BY <1>9, <2>1
  <2>3. Len(sums) \in Nat
    BY <2>2, LenProperties
  <2>4. Len(rep) \in Nat
    BY <1>9, LenProperties
  <2> QED
    BY <2>3, <2>4
<1>12. CASE (\A i \in DOMAIN log : log[i].event) /\ z = y
  <2>1. f # 0
    BY <1>12
  <2>2. x.replayInfo = rep /\ x.summaryInfo = sums
    BY <1>1, <1>4, <1>14, <1>12
  <2>3. \/ Len(sums) < r - 1
        \/ Len(sums) = r - 1 /\ Len(rep) <= e - 1
    <3>1. CASE Exact(m, r, e)
      BY <1>14, <3>1 DEF Exact
    <3>2. CASE Behind(m, r, e)
      BY <1>14, <1>11, <3>2 DEF Behind
    <3> QED
      BY <1>10, <3>1, <3>2
  <2>4. CASE e < TaskTime
    <3>1. Behind(x, r, e + 1)
      BY <1>11, <2>2, <2>3 DEF Behind
    <3>2. Shape(r, e + 1)
      BY <1>10, <2>1, <2>2, <3>1
    <3> QED
      BY <1>7, <2>4, <3>2
  <2>5. CASE e = TaskTime
    <3>1. Behind(x, r + 1, 1)
      BY <1>11, <2>2, <2>3 DEF Behind
    <3>2. Shape(r + 1, 1)
      BY <1>10, <2>1, <2>2, <2>5, <3>1
    <3> QED
      BY <1>8, <2>5, <3>2
  <2> QED
    BY <2>4, <2>5
<1>13. ASSUME NEW d, DetailOf(log, sub, d), WithDetail(y, d, z) PROVE HeldNext(x, l, r, e, f)
  <2>1. PICK info \in Seq(Detail) :
       /\ Len(info) = Len(rep) + 1 /\ info[Len(info)] = d
       /\ \A i \in DOMAIN rep : info[i] = rep[i]
       /\ IF Len(info) = TaskTime
          THEN /\ x.replayInfo = <<>>
               /\ Len(x.summaryInfo) = Len(sums) + 1
               /\ x.summaryInfo[Len(x.summaryInfo)] = info
               /\ \A i \in DOMAIN sums : x.summaryInfo[i] = sums[i]
          ELSE x.replayInfo = info /\ x.summaryInfo = sums
    BY <1>1, <1>4, <1>14, <1>13 DEF WithDetail
  <2>2. Place(d, l, r, e) /\ (f = 0 => Whole(d))
    BY <1>13 DEF DetailOf, Place, Whole
  <2>3. x.summaryInfo \in Seq(Seq(Detail))
    BY <1>1 DEF Managers
  <2>4. Len(x.replayInfo) < TaskTime
    BY <1>10, <1>11, <2>1
  <2>5. CASE Behind(m, r, e) /\ f # 0
    <3>1. \/ Len(sums) < r - 1
          \/ Len(sums) = r - 1 /\ Len(rep) < e - 1
      BY <1>14, <2>5 DEF Behind
    <3>2. CASE e < TaskTime
      <4>1. Behind(x, r, e + 1)
        BY <1>10, <1>11, <2>1, <3>1, <3>2 DEF Behind
      <4>2. Shape(r, e + 1)
        BY <2>4, <2>5, <4>1
      <4> QED
        BY <1>7, <3>2, <4>2
    <3>3. CASE e = TaskTime
      <4>1. Behind(x, r + 1, 1)
        BY <1>10, <1>11, <2>1, <3>1, <3>3 DEF Behind
      <4>2. Shape(r + 1, 1)
        BY <2>4, <2>5, <3>3, <4>1
      <4> QED
        BY <1>8, <3>3, <4>2
    <3> QED
      BY <3>2, <3>3
  <2>6. CASE Exact(m, r, e) /\ InPlace(m, l, r, f)
    <3>1. Len(sums) = r - 1 /\ Len(rep) = e - 1 /\ Len(info) = e
      BY <1>14, <1>11, <2>1, <2>6 DEF Exact
    <3>2. \A j \in DOMAIN info : Place(info[j], l, r, j) /\ (f = 0 => Whole(info[j]))
      <4>1. \A j \in DOMAIN rep : Place(rep[j], l, r, j) /\ (f = 0 => Whole(rep[j]))
        BY <1>14, <2>6 DEF InPlace
      <4>2. DOMAIN info = 1 .. e /\ DOMAIN rep = 1 .. (e - 1) /\ info[e] = d
        BY <1>9, <2>1, <3>1
      <4>3. \A j \in 1 .. (e - 1) : info[j] = rep[j]
        BY <2>1, <4>2
      <4> QED
        BY <2>2, <4>1, <4>2, <4>3
    <3>3. \A i \in DOMAIN sums :
            /\ Len(sums[i]) = TaskTime
            /\ \A j \in 1 .. TaskTime : Place(sums[i][j], l, i, j) /\ (f = 0 => Whole(sums[i][j]))
      BY <1>14, <2>6 DEF InPlace
    <3>4. CASE e < TaskTime
      <4>1. x.replayInfo = info /\ x.summaryInfo = sums
        BY <2>1, <3>1, <3>4
      <4>2. Exact(x, r, e + 1) /\ InPlace(x, l, r, f)
        BY <3>1, <3>2, <3>3, <4>1 DEF Exact, InPlace
      <4>3. Shape(r, e + 1)
        BY <2>4, <4>2
      <4> QED
        BY <1>7, <3>4, <4>3
    <3>5. CASE e = TaskTime
      <4>1. /\ x.replayInfo = <<>> /\ Len(x.summaryInfo) = r /\ x.summaryInfo[r] = info
            /\ \A i \in DOMAIN sums : x.summaryInfo[i] = sums[i]
        BY <2>1, <3>1, <3>5
      <4>2. DOMAIN x.summaryInfo = 1 .. r /\ DOMAIN sums = 1 .. (r - 1) /\ DOMAIN info = 1 .. TaskTime
        BY <1>9, <2>1, <2>3, <3>1, <3>5, <4>1
      <4>3. \A i \in DOMAIN x.summaryInfo :
              /\ Len(x.summaryInfo[i]) = TaskTime
              /\ \A j \in 1 .. TaskTime : /\ Place(x.summaryInfo[i][j], l, i, j)
                                          /\ f = 0 => Whole(x.summaryInfo[i][j])
        <5> SUFFICES ASSUME NEW i \in 1 .. r
                     PROVE  /\ Len(x.summaryInfo[i]) = TaskTime
                            /\ \A j \in 1 .. TaskTime : /\ Place(x.summaryInfo[i][j], l, i, j)
                                                        /\ f = 0 => Whole(x.summaryInfo[i][j])
          BY <4>2
        <5>1. CASE i = r
          BY <3>1, <3>2, <3>5, <4>1, <4>2, <5>1
        <5>2. CASE i # r
          <6>1. i \in DOMAIN sums /\ x.summaryInfo[i] = sums[i]
            BY <4>1, <4>2, <5>2
          <6> QED
            BY <3>3, <6>1
        <5> QED
          BY <5>1, <5>2
      <4>4. InPlace(x, l, r + 1, f)
        <5>1. DOMAIN x.replayInfo = {}
          BY <4>1
        <5> QED
          BY <4>3, <5>1 DEF InPlace
      <4>5. Exact(x, r + 1, 1)
        BY <4>1 DEF Exact
      <4>6. Shape(r + 1, 1)
        BY <2>4, <3>5, <4>4, <4>5
      <4> QED
        BY <1>8, <3>5, <4>6
    <3> QED
      BY <3>4, <3>5
  <2> QED
    BY <1>10, <2>5, <2>6
<1> QED
  BY <1>1, <1>12, <1>13
(* When all tasks are counted, the launch is written unless something      *)
(* went wrong, and nothing is left in the manager; before, it goes on.     *)
Flushed(l, r, e, f) ==
  IF e = TaskTime /\ r = ReplayTime
  THEN /\ manager' = EmptyManager
       /\ \/ written' = Append(written, Complete(l))
          \/ written' = written /\ f # 0
  ELSE HeldNext(manager', l, r, e, f) /\ written' = written

(* A complete launch is written as it is.                                  *)
LEMMA IsComplete ==
  ASSUME NEW m \in Managers, NEW l, NEW f, Len(m.summaryInfo) = ReplayTime, InPlace(m, l, ReplayTime + 1, f),
         \A r \in 1 .. ReplayTime : \A e \in 1 .. TaskTime : Whole(m.summaryInfo[r][e]),
         m.metrics = Metrics(ReplayTime)
  PROVE  [data |-> m.summaryInfo, metrics |-> m.metrics] = Complete(l)
<1>1. TaskTime \in Nat \ {0} /\ ReplayTime \in Nat \ {0}
  BY AnalysisAssumption
<1>2. PICK sums : sums = m.summaryInfo
  OBVIOUS
<1>3. PICK D : D = Seq(Detail)
  OBVIOUS
<1>4. sums \in Seq(D)
  BY <1>2, <1>3 DEF Managers
<1>5. DOMAIN sums = 1 .. ReplayTime /\ \A r \in 1 .. ReplayTime : sums[r] \in D
  <2> HIDE <1>3
  <2> QED
    BY <1>1, <1>2, <1>4
<1>6. \A r \in 1 .. ReplayTime : \A e \in 1 .. TaskTime :
        /\ sums[r][e] \in Detail /\ Place(sums[r][e], l, r, e) /\ Whole(sums[r][e])
  <2> SUFFICES ASSUME NEW r \in 1 .. ReplayTime, NEW e \in 1 .. TaskTime
               PROVE  sums[r][e] \in Detail /\ Place(sums[r][e], l, r, e) /\ Whole(sums[r][e])
    OBVIOUS
  <2>1. sums[r] \in Seq(Detail) /\ Len(sums[r]) = TaskTime /\ Place(sums[r][e], l, r, e)
    BY <1>2, <1>3, <1>5 DEF InPlace
  <2>2. sums[r][e] \in Detail
    BY <1>1, <2>1
  <2>3. Whole(sums[r][e])
    BY <1>2
  <2> QED
    BY <2>1, <2>2, <2>3
<1> DEFINE one(r, e) == [task |-> <<l, r, e>>, event |-> FALSE, begin |-> TRUE, end |-> TRUE, cycles |-> TRUE]
<1>7. \A r \in 1 .. ReplayTime : \A e \in 1 .. TaskTime : sums[r][e] = one(r, e)
  BY <1>6 DEF Place, Whole, Detail
<1> DEFINE row(r) == [e \in 1 .. TaskTime |-> one(r, e)]
<1> HIDE DEF one, row
<1>8. \A r \in 1 .. ReplayTime : sums[r] = row(r)
  <2> TAKE r \in 1 .. ReplayTime
  <2>1. Len(sums[r]) = TaskTime /\ sums[r] \in Seq(Detail)
    BY <1>2, <1>3, <1>5 DEF InPlace
  <2>2. sums[r] = [e \in 1 .. TaskTime |-> sums[r][e]]
    BY <2>1
  <2> QED
    BY <1>7, <2>2 DEF row
<1>9. sums = [r \in 1 .. ReplayTime |-> sums[r]]
  <2>1. sums = [r \in 1 .. Len(sums) |-> sums[r]]
    <3> HIDE <1>3
    <3> QED
      BY <1>4
  <2> QED
    BY <1>2, <2>1
<1>10. sums = [r \in 1 .. ReplayTime |-> row(r)]
  BY <1>8, <1>9
<1> QED
  BY <1>2, <1>10, Zenon DEF Complete, Metrics, one, row

(* What is written when all tasks are counted is the launch.               *)
LEMMA FlushesLaunch ==
  ASSUME NEW x \in Managers, NEW l, NEW r \in 1 .. ReplayTime, NEW e \in 1 .. TaskTime, NEW f,
         HeldNext(x, l, r, e, f), x.analyzeCount = (r - 1) * TaskTime + e, FlushOpData(x)
  PROVE  Flushed(l, r, e, f)
<1>1. TaskTime \in Nat \ {0} /\ ReplayTime \in Nat \ {0}
  BY AnalysisAssumption
<1>2. x.analyzeCount = TaskTime * ReplayTime <=> e = TaskTime /\ r = ReplayTime
  BY LastTask
<1>3. CASE ~(e = TaskTime /\ r = ReplayTime)
  BY <1>2, <1>3 DEF FlushOpData, Flushed
<1>4. CASE e = TaskTime /\ r = ReplayTime
  <2>1. Held(x, l, ReplayTime + 1, 1, f)
    BY <1>1, <1>4 DEF HeldNext
  <2>2. x.metrics = Metrics(ReplayTime)
    BY <1>1, <2>1 DEF Held
  <2>3. \/ Len(x.summaryInfo) = ReplayTime /\ InPlace(x, l, ReplayTime + 1, f)
        \/ Len(x.summaryInfo) # ReplayTime /\ f # 0
    <3>1. PICK D : D = Seq(Detail)
      OBVIOUS
    <3>2. x.replayInfo \in D /\ x.summaryInfo \in Seq(D) /\ x.replayInfo \in Seq(Detail)
      BY <3>1 DEF Managers
    <3>3. Len(x.summaryInfo) \in Nat /\ Len(x.replayInfo) \in Nat
      BY <3>2, LenProperties
    <3>4. CASE Exact(x, ReplayTime + 1, 1) /\ InPlace(x, l, ReplayTime + 1, f)
      BY <1>1, <3>4 DEF Exact
    <3>5. CASE Behind(x, ReplayTime + 1, 1) /\ f # 0
      <4>1. Len(x.summaryInfo) # ReplayTime
        BY <1>1, <3>3, <3>5 DEF Behind
      <4> QED
        BY <3>5, <4>1
    <3> QED
      BY <2>1, <3>4, <3>5 DEF Held
  <2>4. manager' = EmptyManager /\ written' = IF CheckSummaryInfoData(x)
                         THEN Append(written, [data |-> x.summaryInfo, metrics |-> x.metrics])
                         ELSE written
    BY <1>2, <1>4 DEF FlushOpData
  <2>5. CheckSummaryInfoData(x) <=> Len(x.summaryInfo) = ReplayTime
           /\ \A i \in 1 .. ReplayTime : \A j \in 1 .. TaskTime : Whole(x.summaryInfo[i][j])
    BY Zenon DEF CheckSummaryInfoData, Whole
  <2>6. CheckSummaryInfoData(x) => written' = Append(written, Complete(l))
    BY <2>2, <2>3, <2>4, <2>5, IsComplete
  <2>7. ~CheckSummaryInfoData(x) => f # 0
    <3> SUFFICES ASSUME f = 0 PROVE CheckSummaryInfoData(x)
      OBVIOUS
    <3>1. Len(x.summaryInfo) = ReplayTime /\ InPlace(x, l, ReplayTime + 1, f)
      BY <2>3
    <3>2. DOMAIN x.summaryInfo = 1 .. ReplayTime
      <4>1. PICK D : D = Seq(Detail)
        OBVIOUS
      <4>2. x.summaryInfo \in Seq(D)
        BY <4>1 DEF Managers
      <4> QED
        BY <1>1, <3>1, <4>2, LenProperties
    <3>3. \A i \in 1 .. ReplayTime : \A j \in 1 .. TaskTime : Whole(x.summaryInfo[i][j])
      BY <3>1, <3>2 DEF InPlace
    <3> QED
      BY <2>5, <3>1, <3>3
  <2> QED
    BY <1>4, <2>4, <2>6, <2>7, Zenon DEF Flushed
<1> QED
  BY <1>3, <1>4
-----------------------------------------------------------------------------
(* The steps                                                               *)

(* A manager that may lack details may lack them all the more after a      *)
(* failure.                                                                *)
LEMMA HeldWorse ==
  ASSUME NEW m, NEW l, NEW r, NEW e, NEW f, NEW g, g = 0 => f = 0, Held(m, l, r, e, f)
  PROVE  Held(m, l, r, e, g)
BY DEF Held, InPlace

(* The empty manager is that before the first task of a launch.            *)
LEMMA HeldEmpty ==
  ASSUME NEW l, NEW f
  PROVE  EmptyManager \in Managers /\ Held(EmptyManager, l, 1, 1, f)
<1>1. TaskTime \in Nat /\ TaskTime >= 1
  BY AnalysisAssumption
<1>2. PICK m : m = EmptyManager
  OBVIOUS
<1>3. m.analyzeCount = 0 /\ m.replayInfo = <<>> /\ m.summaryInfo = <<>> /\ m.metrics = <<>>
  BY <1>2 DEF EmptyManager
<1>4. m.metrics = Metrics(IF 1 = 1 THEN 1 - 1 ELSE 1)
  <2>1. Metrics(0) = <<>>
    BY DEF Metrics
  <2> QED
    BY <1>3, <2>1
<1>5. m.analyzeCount = (1 - 1) * TaskTime + (1 - 1)
  BY <1>1, <1>3
<1>6. Exact(m, 1, 1) /\ InPlace(m, l, 1, f) /\ Len(m.replayInfo) < TaskTime
  BY <1>1, <1>3 DEF Exact, InPlace
<1>7. Held(m, l, 1, 1, f)
  BY <1>4, <1>5, <1>6, Zenon DEF Held
<1>8. EmptyManager \in Managers
  BY DEF EmptyManager, Managers
<1> QED
  BY <1>2, <1>7, <1>8, Zenon

(* A step that neither counts a task nor goes on to the next one keeps     *)
(* what is known of the manager and of the results.                        *)
LEMMA CountingKept ==
  ASSUME Counting, Writing, pc = "idle" <=> pc' = "idle", Counted <=> Counted', cut => cut',
         faults' = 0 => faults = 0, UNCHANGED <<launch, replay, exec, manager, written>>
  PROVE  Counting' /\ Writing'
<1>1. Through' = Through
  BY DEF Through
<1>2. Counting'
  <2> SUFFICES ASSUME ~cut' PROVE IF pc' = "idle" THEN manager' = EmptyManager
          ELSE IF Counted' THEN HeldAfter(manager', launch', replay', exec', faults')
          ELSE Held(manager', launch', replay', exec', faults')
    BY DEF Counting
  <2>1. \A r, e : Held(manager, launch, r, e, faults) => Held(manager', launch', r, e, faults')
    BY HeldWorse
  <2>2. HeldAfter(manager, launch, replay, exec, faults) => HeldAfter(manager', launch', replay', exec', faults')
    BY <2>1 DEF HeldAfter
  <2> QED
    BY <2>1, <2>2, Zenon DEF Counting
<1>3. Writing'
  BY <1>1 DEF Writing
<1> QED
  BY <1>2, <1>3

(* The numbers of tasks and replays are positive.                          *)
LEMMA Sizes == /\ TaskTime \in Nat /\ TaskTime >= 1 /\ ReplayTime \in Nat /\ ReplayTime >= 1
               /\ MaxLaunch \in Nat /\ MaxFault \in Nat
<1>1. TaskTime \in Nat \ {0} /\ ReplayTime \in Nat \ {0} /\ MaxLaunch \in Nat /\ MaxFault \in Nat
  BY AnalysisAssumption
<1> QED
  BY <1>1

(* There is a task.                                                        *)
LEMMA TaskCount == TaskTime * ReplayTime \in Nat /\ TaskTime * ReplayTime >= 1
<1>1. 1 * ReplayTime <= TaskTime * ReplayTime
  BY Sizes, Monotone
<1> QED
  BY Sizes, <1>1

(* A launch begins: the manager is empty.                                  *)
LEMMA KernelExecStep == Inv /\ KernelExec => Inv'
<1> SUFFICES ASSUME Inv, KernelExec PROVE Inv'
  OBVIOUS
<1> USE Sizes DEF KernelExec, analyzerVars
<1>1. Quiet /\ Empty /\ todo = {} /\ ~uploader
  BY DEF Inv, Flow
<1>2. Types'
  <2>1. queue' \in Seq(Chunk(ThisTask)')
    BY <1>1 DEF Quiet
  <2> QED
    BY <1>1, <2>1 DEF Inv, Types, Quiet, Empty
<1>3. Flow' /\ Once' /\ Log' /\ Full'
  BY <1>1 DEF Flow, Once, Log, Full, Quiet, Empty, Ending, NoChunk
<1>4. Counting'
  <2>1. ~cut' => manager' = EmptyManager
    BY DEF Inv, Counting
  <2>2. ~Counted' /\ pc' # "idle" /\ replay' = 1 /\ exec' = 1
    BY DEF Counted, Ending
  <2> QED
    BY <2>1, <2>2, HeldEmpty, Zenon DEF Counting
<1>5. Writing'
  <2>1. ~Counted'
    BY DEF Counted, Ending
  <2>2. Through = launch /\ Through' = launch' - 1
    BY <2>1 DEF Through
  <2>3. Through' = Through
    BY <2>2 DEF Inv, Types
  <2>4. launch \in Nat /\ launch' = launch + 1
    BY DEF Inv, Types
  <2>5. 1 .. launch \subseteq 1 .. launch'
    BY <2>4
  <2>6. Writing
    BY DEF Inv
  <2> QED
    BY <2>3, <2>5, <2>6, Zenon DEF Writing
<1> QED
  BY <1>2, <1>3, <1>4, <1>5 DEF Inv
(* A task begins: none of its records has come.                            *)
LEMMA TaskStartStep == Inv /\ TaskStart => Inv'
<1> SUFFICES ASSUME Inv, TaskStart PROVE Inv'
  OBVIOUS
<1> USE Sizes DEF TaskStart, analyzerVars, Fault
<1>1. Quiet /\ Empty /\ todo = {} /\ ~uploader
  BY DEF Inv, Flow
<1>2. Types'
  <2>1. queue' \in Seq(Chunk(ThisTask)')
    BY <1>1 DEF Quiet
  <2>2. faults' \in 0 .. MaxFault
    BY DEF Inv, Types
  <2>3. todo' \subseteq Kinds /\ uploader' \in BOOLEAN /\ inited' \in BOOLEAN
    BY <1>1 DEF Inv, Types, Kinds
  <2> HIDE DEF Fault
  <2> QED
    BY <1>1, <2>1, <2>2, <2>3 DEF Inv, Types, Quiet, Empty
<1>3. /\ ~uploader' => todo' = {}
      /\ "end_info" \notin todo'
      /\ faults' = 0 => faults = 0 /\ inited' /\ uploader' /\ {"begin", "end", "pmu"} \subseteq todo'
  BY <1>1 DEF Inv, Types
<1>4. pc' = "kernel" /\ queue' = <<>> /\ hand' = NoChunk /\ logInfo' = <<>> /\ subTaskInfo' = {}
  BY <1>1 DEF Quiet, Empty
<1>5. \A k : Waiting(k)' <=> k \in todo' \/ k = "none"
  BY <1>4 DEF Waiting, NoChunk
<1>6. Flow'
  BY <1>3, <1>4, <1>5, Zenon DEF Flow, Quiet, Empty, Ending
<1>7. Once' /\ Log'
  BY <1>2, <1>4 DEF Once, Log, NoChunk, Types, Kinds
<1>8. Full'
  BY <1>3, <1>4, <1>5 DEF Full
<1>9. Counting' /\ Writing'
  <2>1. ~Counted /\ ~Counted' /\ pc # "idle" /\ pc' # "idle"
    BY DEF Counted, Ending
  <2>2. UNCHANGED <<launch, replay, exec, manager, written, cut>> /\ (faults' = 0 => faults = 0)
    BY <1>3
  <2>3. Counting /\ Writing
    BY DEF Inv
  <2> HIDE DEF TaskStart
  <2> QED
    BY <2>1, <2>2, <2>3, CountingKept
<1> QED
  BY <1>2, <1>6, <1>7, <1>8, <1>9 DEF Inv

(* A chunk that is appended is waited for, and the others as before.       *)
LEMMA Appends ==
  ASSUME NEW S, queue \in Seq(S), NEW c \in S, queue' = Append(queue, c)
  PROVE  /\ queue' \in Seq(S) /\ queue' # <<>> /\ Len(queue') = Len(queue) + 1
         /\ DOMAIN queue = 1 .. Len(queue) /\ DOMAIN queue' = 1 .. Len(queue) + 1
         /\ Len(queue) \in Nat /\ queue'[Len(queue')] = c
         /\ \A i \in DOMAIN queue : queue'[i] = queue[i]
OBVIOUS

(* A record that is uploaded is still waited for.                          *)
LEMMA UploadStep ==
  ASSUME NEW kind \in Kinds
  PROVE  Inv /\ Upload(kind) => Inv'
<1> SUFFICES ASSUME Inv, Upload(kind) PROVE Inv'
  OBVIOUS
<1> USE Sizes DEF Upload, analyzerVars, appVars
<1>1. pc = "kernel" /\ kind \in todo /\ todo' = todo \ {kind} /\ pc' = pc
  OBVIOUS
<1>2. PICK c : c = [kind |-> kind, task |-> ThisTask]
  OBVIOUS
<1>3. c \in Chunk(ThisTask) /\ c.kind = kind /\ queue' = Append(queue, c)
  BY <1>2 DEF Chunk
<1>4. PICK S : S = Chunk(ThisTask)
  OBVIOUS
<1>5. /\ queue' \in Seq(S) /\ queue' # <<>> /\ Len(queue') = Len(queue) + 1
      /\ DOMAIN queue = 1 .. Len(queue) /\ DOMAIN queue' = 1 .. Len(queue) + 1
      /\ Len(queue) \in Nat /\ queue'[Len(queue')] = c
      /\ \A i \in DOMAIN queue : queue'[i] = queue[i]
  BY <1>3, <1>4, Appends DEF Inv, Types
<1>6. UNCHANGED <<pc, launch, replay, exec, kernelOk, uploader, hand, inited, logInfo, subTaskInfo, manager, written, faults, cut>>
  OBVIOUS
<1> HIDE DEF Upload
<1>7. Types'
  <2>1. ThisTask' = ThisTask
    BY <1>6 DEF ThisTask
  <2>2. Chunk(ThisTask)' = S
    BY <1>4, <2>1 DEF Chunk
  <2> QED
    BY <1>1, <1>4, <1>5, <1>6, <2>1, <2>2, Zenon DEF Inv, Types
<1>8. \A k : Waiting(k)' <=> Waiting(k)
  BY <1>1, <1>3, <1>5, <1>6 DEF Waiting
<1>9. Flow'
  BY <1>1, <1>6, <1>8 DEF Inv, Flow, Ending
<1>10. Once'
  BY <1>1, <1>3, <1>5, <1>6 DEF Inv, Once
<1>11. Log'
  BY <1>6, <1>8, Zenon DEF Inv, Log, ThisTask
<1>12. ~Counted /\ ~Counted'
  BY <1>1 DEF Counted, Ending
<1>13. Full'
  <2>1. Logged' <=> Logged
    BY <1>6, <1>8, Zenon DEF Logged
  <2> QED
    BY <1>1, <1>6, <1>8, <1>12, <2>1, Zenon DEF Inv, Full, ThisTask
<1>14. Counting' /\ Writing'
  BY <1>6, <1>12, CountingKept, Zenon DEF Inv
<1> QED
  BY <1>7, <1>9, <1>10, <1>11, <1>13, <1>14 DEF Inv
(* The thread goes on to the next task, or the launch is through.          *)
LEMMA GoesOn ==
  ASSUME NEW ok \in BOOLEAN, NEW done \in BOOLEAN, NextTask(ok, done), Types
  PROVE  /\ pc' \in {"idle", "taskStart"}
         /\ launch' = launch /\ replay' \in 1 .. ReplayTime /\ exec' \in 1 .. TaskTime
         /\ ok /\ done => \/ exec < TaskTime /\ pc' = "taskStart" /\ replay' = replay /\ exec' = exec + 1
                          \/ /\ exec = TaskTime /\ replay < ReplayTime
                             /\ pc' = "taskStart" /\ replay' = replay + 1 /\ exec' = 1
                          \/ exec = TaskTime /\ replay = ReplayTime /\ pc' = "idle"
<1>1. launch \in Nat /\ replay \in 1 .. ReplayTime /\ exec \in 1 .. TaskTime
  BY Sizes DEF Types
<1> QED
  BY <1>1, Sizes DEF NextTask

(* Before the next task nothing is known of the records.                   *)
LEMMA Between ==
  ASSUME Types, pc' \in {"idle", "taskStart"}, launch' = launch, replay' \in 1 .. ReplayTime,
         exec' \in 1 .. TaskTime, queue' = <<>>, hand' = NoChunk, logInfo' = <<>>, subTaskInfo' = {},
         todo' = {}, uploader' = FALSE, inited' = inited, manager' = manager, written' = written,
         kernelOk' \in BOOLEAN, cut' \in BOOLEAN, faults' \in 0 .. MaxFault, launch >= 1
  PROVE  Types' /\ Flow' /\ Once' /\ Log' /\ Full'
<1>1. Types'
  <2>1. queue' \in Seq(Chunk(ThisTask)')
    OBVIOUS
  <2>2. {kernelOk', uploader', inited', cut'} \subseteq BOOLEAN
    BY DEF Types
  <2>3. hand' \in Chunk(ThisTask)' \cup {NoChunk} /\ subTaskInfo' \subseteq {ThisTask'} /\ todo' \subseteq Kinds
    BY DEF Types
  <2>4. pc' \in {"idle", "taskStart", "kernel", "flush", "writeDone", "delete"} /\ logInfo' \in Seq(Detail)
    OBVIOUS
  <2>5. launch' \in 0 .. MaxLaunch /\ launch' >= 1
    BY DEF Types
  <2> QED
    BY <2>1, <2>2, <2>3, <2>4, <2>5, Zenon DEF Types
<1>2. Flow' /\ Full'
  BY DEF Flow, Full, Quiet, Empty, Ending
<1>3. Once' /\ Log'
  BY DEF Once, Log, NoChunk
<1> QED
  BY <1>1, <1>2, <1>3

(* A kernel ends; if nothing goes wrong no record is left on the device.   *)
LEMMA TaskStopStep == Inv /\ TaskStop => Inv'
<1> SUFFICES ASSUME Inv, TaskStop PROVE Inv'
  OBVIOUS
<1> USE Sizes
<1>1. PICK ok \in BOOLEAN :
       /\ kernelOk' = ok
       /\ Fault((IF ok THEN 0 ELSE 1) + (IF todo \ {"event"} = {} THEN 0 ELSE 1))
       /\ IF uploader
            THEN /\ queue' = Append(queue, [kind |-> "end_info", task |-> ThisTask])
                 /\ pc' = "flush"
                 /\ UNCHANGED <<launch, replay, exec, cut>>
            ELSE NextTask(ok, FALSE) /\ cut' = TRUE /\ UNCHANGED queue
  BY DEF TaskStop
<1>2. pc = "kernel" /\ todo' = {} /\ UNCHANGED <<uploader, hand, inited, logInfo, subTaskInfo, manager, written>>
  BY DEF TaskStop, analyzerVars
<1>3. /\ faults' \in 0 .. MaxFault
      /\ faults' = 0 => faults = 0 /\ todo \subseteq {"event"}
  BY <1>1 DEF Fault, Inv, Types
<1>4. launch >= 1
  BY <1>2 DEF Inv, Types
<1>5. CASE ~uploader
  <2>1. queue = <<>> /\ hand = NoChunk /\ logInfo = <<>> /\ subTaskInfo = {}
    BY <1>2, <1>5 DEF Inv, Flow, Quiet, Empty
  <2>2. pc' \in {"idle", "taskStart"} /\ launch' = launch /\ replay' \in 1 .. ReplayTime /\ exec' \in 1 .. TaskTime
    BY <1>1, <1>5, GoesOn DEF Inv
  <2>3. /\ queue' = <<>> /\ hand' = NoChunk /\ logInfo' = <<>> /\ subTaskInfo' = {} /\ cut' = TRUE
        /\ uploader' = FALSE /\ kernelOk' \in BOOLEAN
    BY <1>1, <1>2, <1>5, <2>1 DEF Inv, Types
  <2>4. Types' /\ Flow' /\ Once' /\ Log' /\ Full'
    BY <1>2, <1>3, <1>4, <2>2, <2>3, Between DEF Inv
  <2>5. Counting' /\ Writing'
    BY <2>3 DEF Counting, Writing
  <2> QED
    BY <2>4, <2>5 DEF Inv
<1>6. CASE uploader
  <2>1. PICK c : c = [kind |-> "end_info", task |-> ThisTask]
    OBVIOUS
  <2>2. c \in Chunk(ThisTask) /\ c.kind = "end_info" /\ queue' = Append(queue, c)
    BY <1>1, <1>6, <2>1 DEF Chunk
  <2>3. PICK S : S = Chunk(ThisTask)
    OBVIOUS
  <2>4. /\ queue' \in Seq(S) /\ queue' # <<>> /\ Len(queue') = Len(queue) + 1
        /\ DOMAIN queue = 1 .. Len(queue) /\ DOMAIN queue' = 1 .. Len(queue) + 1
        /\ Len(queue) \in Nat /\ queue'[Len(queue')] = c
        /\ \A i \in DOMAIN queue : queue'[i] = queue[i]
    BY <2>2, <2>3, Appends DEF Inv, Types
  <2>5. pc' = "flush" /\ UNCHANGED <<launch, replay, exec, cut>> /\ kernelOk' \in BOOLEAN
    BY <1>1, <1>6
  <2>6. Types'
    <3>1. ThisTask' = ThisTask
      BY <2>5 DEF ThisTask
    <3>2. Chunk(ThisTask)' = S
      BY <2>3, <3>1 DEF Chunk
    <3> QED
      BY <1>2, <1>3, <1>4, <2>3, <2>4, <2>5, <3>1, <3>2 DEF Inv, Types
  <2>7. ~Waiting("end_info")
    BY <1>2 DEF Inv, Flow
  <2>8. /\ \A k \in Kinds : Waiting(k)' => Waiting(k)
        /\ faults' = 0 => \A k \in Kinds \ {"event"} : Waiting(k)' <=> Waiting(k)
    BY <1>2, <1>3, <2>2, <2>4 DEF Waiting, Kinds
  <2>9. Flow'
    BY <1>2, <2>2, <2>4, <2>5 DEF Flow, Ending
  <2>10. Once'
    BY <1>2, <2>2, <2>4, <2>7 DEF Inv, Once, Waiting
  <2>11. Log'
    BY <1>2, <2>5, <2>8, Zenon DEF Inv, Log, ThisTask, Kinds
  <2>12. ~Counted /\ ~Counted'
    BY <1>2, <2>4 DEF Counted, Ending, Quiet
  <2>13. Full'
    <3> SUFFICES ASSUME faults' = 0 PROVE inited' /\ uploader' /\ ((Waiting("begin") /\ Waiting("end")) \/ Logged)' /\ (Waiting("pmu") \/ subTaskInfo = {ThisTask})'
      BY DEF Full
    <3>1. faults = 0 /\ \A k \in {"begin", "end", "pmu"} : Waiting(k)' <=> Waiting(k)
      BY <1>3, <2>8 DEF Kinds
    <3>2. Logged => Logged'
      BY <1>2, <3>1 DEF Logged
    <3> QED
      BY <1>2, <2>5, <2>12, <3>1, <3>2 DEF Inv, Full, ThisTask
  <2>14. Counting' /\ Writing'
    <3>1. pc # "idle" /\ pc' # "idle" /\ (cut => cut') /\ (faults' = 0 => faults = 0)
      BY <1>2, <1>3, <2>5
    <3> QED
      BY <1>2, <2>5, <2>12, <3>1, CountingKept DEF Inv
  <2> QED
    BY <2>6, <2>9, <2>10, <2>11, <2>13, <2>14 DEF Inv
<1> QED
  BY <1>5, <1>6
(* The thread waits, and nothing changes but where it is.                  *)
LEMMA FlushStep == Inv /\ (Flush \/ WaitOpDone) => Inv'
<1> SUFFICES ASSUME Inv, Flush \/ WaitOpDone PROVE Inv'
  OBVIOUS
<1>1. UNCHANGED <<launch, replay, exec, kernelOk, uploader, todo, queue, hand, inited,
                  logInfo, subTaskInfo, manager, written, faults, cut>>
  BY DEF Flush, WaitOpDone, analyzerVars
<1>2. \/ pc = "flush" /\ queue = <<>> /\ pc' = "writeDone"
      \/ pc = "writeDone" /\ logInfo = <<>> /\ subTaskInfo = {} /\ pc' = "delete"
  BY DEF Flush, WaitOpDone
<1>3. queue = <<>>
  BY <1>2 DEF Inv, Flow
<1>4. ThisTask' = ThisTask /\ \A k : Waiting(k)' <=> Waiting(k)
  BY <1>1, Zenon DEF ThisTask, Waiting
<1>5. pc # "idle" /\ pc' # "idle" /\ Ending /\ Ending'
  BY <1>2 DEF Ending
<1>6. Counted' <=> Counted
  BY <1>1, <1>5 DEF Counted, Quiet
<1>7. Types'
  <2>1. Chunk(ThisTask)' = Chunk(ThisTask)
    BY <1>4 DEF Chunk
  <2>2. pc' \in {"idle", "taskStart", "kernel", "flush", "writeDone", "delete"} /\ launch >= 1
    BY <1>2, <1>5 DEF Inv, Types
  <2> QED
    BY <1>1, <1>4, <2>1, <2>2, Zenon DEF Inv, Types
<1>8. Flow'
  BY <1>1, <1>2, <1>3, <1>4, <1>5 DEF Inv, Flow, Ending, Empty
<1>9. Once' /\ Log'
  BY <1>1, <1>4, Zenon DEF Inv, Once, Log
<1>10. Full'
  <2>1. Logged' <=> Logged
    BY <1>1, <1>4, Zenon DEF Logged
  <2> QED
    BY <1>1, <1>4, <1>5, <1>6, <2>1, Zenon DEF Inv, Full
<1>11. Counting' /\ Writing'
  BY <1>1, <1>5, <1>6, CountingKept DEF Inv
<1> QED
  BY <1>7, <1>8, <1>9, <1>10, <1>11 DEF Inv

(* The task is over; it has been counted, and the next one is begun.       *)
LEMMA DelAllUploaderStep == Inv /\ DelAllUploader => Inv'
<1> SUFFICES ASSUME Inv, DelAllUploader PROVE Inv'
  OBVIOUS
<1>1. /\ pc = "delete" /\ hand = NoChunk /\ uploader' = FALSE /\ NextTask(kernelOk, kernelOk)
      /\ cut' = (cut \/ ~kernelOk)
      /\ UNCHANGED <<kernelOk, todo, queue, hand, inited, logInfo, subTaskInfo, manager, written, faults>>
  BY DEF DelAllUploader, analyzerVars
<1>2. queue = <<>> /\ logInfo = <<>> /\ subTaskInfo = {} /\ todo = {}
  BY <1>1 DEF Inv, Flow, Empty, Ending
<1>3. Types /\ kernelOk \in BOOLEAN /\ cut \in BOOLEAN /\ faults \in 0 .. MaxFault /\ launch >= 1 /\ launch \in Nat
  BY <1>1 DEF Inv, Types
<1>4. Counted
  BY <1>1, <1>2 DEF Counted, Ending, Quiet
<1>5. /\ pc' \in {"idle", "taskStart"}
      /\ launch' = launch /\ replay' \in 1 .. ReplayTime /\ exec' \in 1 .. TaskTime
      /\ kernelOk => \/ exec < TaskTime /\ pc' = "taskStart" /\ replay' = replay /\ exec' = exec + 1
                     \/ /\ exec = TaskTime /\ replay < ReplayTime
                        /\ pc' = "taskStart" /\ replay' = replay + 1 /\ exec' = 1
                     \/ exec = TaskTime /\ replay = ReplayTime /\ pc' = "idle"
  BY <1>1, <1>3, GoesOn
<1>6. Types' /\ Flow' /\ Once' /\ Log' /\ Full'
  BY <1>1, <1>2, <1>3, <1>5, Between
<1>7. ~Counted'
  BY <1>5 DEF Counted, Ending
<1>8. exec \in Nat /\ TaskTime \in Nat /\ replay \in Nat /\ ReplayTime \in Nat
  BY <1>3, Sizes DEF Types
<1>9. Counting'
  <2> SUFFICES ASSUME ~cut' PROVE IF pc' = "idle" THEN manager' = EmptyManager
          ELSE Held(manager', launch', replay', exec', faults')
    BY <1>7 DEF Counting
  <2>1. kernelOk /\ ~cut
    BY <1>1, <1>3
  <2>2. HeldAfter(manager, launch, replay, exec, faults)
    BY <1>1, <1>4, <2>1 DEF Inv, Counting
  <2>3. CASE exec < TaskTime
    BY <1>1, <1>5, <1>8, <2>1, <2>2, <2>3 DEF HeldAfter
  <2>4. CASE exec = TaskTime /\ replay < ReplayTime
    BY <1>1, <1>5, <1>8, <2>1, <2>2, <2>4 DEF HeldAfter
  <2>5. CASE exec = TaskTime /\ replay = ReplayTime
    BY <1>1, <1>5, <1>8, <2>1, <2>2, <2>5 DEF HeldAfter
  <2> QED
    BY <1>5, <2>1, <2>3, <2>4, <2>5
<1>10. Writing'
  <2> SUFFICES ASSUME ~cut' PROVE Writing'
    BY DEF Writing
  <2>1. kernelOk /\ ~cut
    BY <1>1, <1>3
  <2>2. Through' = Through
    BY <1>1, <1>4, <1>5, <1>7, <1>8, <2>1 DEF Through
  <2> QED
    BY <1>1, <1>5, <2>1, <2>2 DEF Inv, Writing
<1> QED
  BY <1>6, <1>9, <1>10 DEF Inv

(* A chunk that is taken is the first, and the others move up.             *)
LEMMA Takes ==
  ASSUME NEW S, queue \in Seq(S), queue # <<>>, queue' = Tail(queue)
  PROVE  /\ queue' \in Seq(S) /\ Len(queue') = Len(queue) - 1 /\ Len(queue) \in Nat /\ Len(queue) >= 1
         /\ DOMAIN queue = 1 .. Len(queue) /\ DOMAIN queue' = 1 .. Len(queue) - 1
         /\ Head(queue) = queue[1] /\ Head(queue) \in S
         /\ \A i \in DOMAIN queue' : queue'[i] = queue[i + 1]
OBVIOUS

(* A chunk goes from the queue to the hand of the thread.                  *)
LEMMA PopStep == Inv /\ Pop => Inv'
<1> SUFFICES ASSUME Inv, Pop PROVE Inv'
  OBVIOUS
<1>1. hand = NoChunk /\ queue # <<>> /\ hand' = Head(queue) /\ queue' = Tail(queue)
  BY DEF Pop
<1>2. UNCHANGED <<pc, launch, replay, exec, kernelOk, uploader, todo, inited,
                  logInfo, subTaskInfo, manager, written, faults, cut>>
  BY DEF Pop, analyzerVars, appVars
<1>3. PICK S : S = Chunk(ThisTask)
  OBVIOUS
<1>4. /\ queue' \in Seq(S) /\ Len(queue') = Len(queue) - 1 /\ Len(queue) \in Nat /\ Len(queue) >= 1
      /\ DOMAIN queue = 1 .. Len(queue) /\ DOMAIN queue' = 1 .. Len(queue) - 1
      /\ Head(queue) = queue[1] /\ Head(queue) \in S
      /\ \A i \in DOMAIN queue' : queue'[i] = queue[i + 1]
  BY <1>1, <1>3, Takes DEF Inv, Types
<1>5. hand.kind = "none" /\ hand' = queue[1] /\ hand'.kind # "none" /\ hand' # NoChunk
  BY <1>1, <1>3, <1>4 DEF NoChunk, Chunk, Kinds
<1>6. ThisTask' = ThisTask
  BY <1>2, Zenon DEF ThisTask
<1>7. \A k : k # "none" => (Waiting(k)' <=> Waiting(k))
  <2> SUFFICES ASSUME NEW k, k # "none" PROVE Waiting(k)' <=> Waiting(k)
    OBVIOUS
  <2>1. (\E i \in DOMAIN queue : queue[i].kind = k) <=> queue[1].kind = k \/ \E i \in DOMAIN queue' : queue'[i].kind = k
    <3>1. \A i \in DOMAIN queue : i = 1 \/ (i - 1 \in DOMAIN queue' /\ queue'[i - 1] = queue[i])
      BY <1>4
    <3>2. \A i \in DOMAIN queue' : i + 1 \in DOMAIN queue /\ queue'[i] = queue[i + 1]
      BY <1>4
    <3>3. 1 \in DOMAIN queue
      BY <1>4
    <3> QED
      BY <3>1, <3>2, <3>3, Zenon
  <2> QED
    BY <1>2, <1>5, <2>1, Zenon DEF Waiting
<1>8. pc \notin {"idle", "taskStart", "writeDone", "delete"}
  BY <1>1 DEF Inv, Flow, Quiet
<1>9. Types'
  <2>1. Chunk(ThisTask)' = S
    BY <1>3, <1>6 DEF Chunk
  <2>2. hand' \in S
    BY <1>1, <1>4
  <2> QED
    BY <1>2, <1>3, <1>4, <1>6, <2>1, <2>2, Zenon DEF Inv, Types
<1>10. Flow'
  <2>1. pc = "kernel" => ~Waiting("end_info")' /\ uploader
    BY <1>1, <1>7 DEF Inv, Flow, Quiet
  <2>2. Ending => /\ queue' # <<>> => queue'[Len(queue')].kind = "end_info"
                  /\ queue' = <<>> => hand'.kind = "end_info"
    <3>1. Ending => queue[Len(queue)].kind = "end_info"
      BY <1>1 DEF Inv, Flow
    <3>2. queue' = <<>> => Len(queue) = 1
      BY <1>4
    <3>3. queue' # <<>> => Len(queue') \in DOMAIN queue'
      BY <1>4
    <3>4. queue' # <<>> => queue'[Len(queue')] = queue[Len(queue)]
      <4>1. Len(queue') + 1 = Len(queue)
        BY <1>4
      <4> QED
        BY <1>4, <3>3, <4>1
    <3> QED
      BY <1>5, <3>1, <3>2, <3>4
  <2> QED
    BY <1>2, <1>8, <2>1, <2>2 DEF Inv, Flow, Ending
<1>11. Once'
  <2>1. \A i \in DOMAIN queue' : i + 1 \in DOMAIN queue /\ queue'[i] = queue[i + 1] /\ i \in Nat /\ i + 1 # 1
    BY <1>4
  <2>2. 1 \in DOMAIN queue
    BY <1>4
  <2>3. \A i, j \in DOMAIN queue' : queue'[i].kind = queue'[j].kind => i = j
    <3> SUFFICES ASSUME NEW i \in DOMAIN queue', NEW j \in DOMAIN queue', queue'[i].kind = queue'[j].kind PROVE i = j
      OBVIOUS
    <3>1. i + 1 = j + 1
      BY <2>1 DEF Inv, Once
    <3> QED
      BY <2>1, <3>1
  <2>4. \A i \in DOMAIN queue' : queue'[i].kind # hand'.kind /\ queue'[i].kind \notin todo'
    BY <1>2, <1>5, <2>1, <2>2 DEF Inv, Once
  <2>5. hand'.kind \notin todo'
    BY <1>2, <1>5, <2>2 DEF Inv, Once
  <2> QED
    BY <2>3, <2>4, <2>5 DEF Once
<1>12. Log'
  BY <1>2, <1>6, <1>7, Zenon DEF Inv, Log
<1>13. ~Counted /\ ~Counted'
  BY <1>1, <1>5 DEF Counted, Quiet
<1>14. Full'
  <2>1. Logged' <=> Logged
    BY <1>2, <1>7 DEF Logged
  <2> QED
    BY <1>2, <1>6, <1>7, <1>13, <2>1 DEF Inv, Full, Ending
<1>15. Counting' /\ Writing'
  BY <1>2, <1>13, CountingKept DEF Inv
<1> QED
  BY <1>9, <1>10, <1>11, <1>12, <1>14, <1>15 DEF Inv
(* The analysis of a record, or of a chunk that nobody takes: the chunk is *)
(* not waited for any more, and the task is not counted by it.             *)
LEMMA HandGone ==
  ASSUME Inv, hand # NoChunk, hand' = NoChunk,
         UNCHANGED <<pc, launch, replay, exec, kernelOk, uploader, todo, queue, inited, faults>>,
         hand.kind = "end_info" /\ Empty => Empty'
  PROVE  /\ ThisTask' = ThisTask /\ hand \in Chunk(ThisTask) /\ pc \notin {"idle", "taskStart"}
         /\ hand'.kind = "none" /\ hand.kind # "none"
         /\ \A k : Waiting(k)' => Waiting(k) \/ k = "none"
         /\ \A k : k # hand.kind => (Waiting(k) => Waiting(k)')
         /\ \A k : k = hand.kind => Waiting(k) /\ ~Waiting(k)'
         /\ Flow' /\ Once' /\ ~Counted
         /\ Counted' => hand.kind = "end_info"
<1>1. ThisTask' = ThisTask /\ hand \in Chunk(ThisTask) /\ pc \notin {"idle", "taskStart"}
  BY DEF Inv, Types, Flow, Quiet, ThisTask
<1>2. hand'.kind = "none" /\ hand.kind # "none"
  BY <1>1 DEF Chunk, Kinds, NoChunk
<1>3. /\ \A k : Waiting(k)' => Waiting(k) \/ k = "none"
      /\ \A k : k # hand.kind => (Waiting(k) => Waiting(k)')
      /\ \A k : k = hand.kind => Waiting(k)
  <2>1. todo' = todo /\ queue' = queue
    OBVIOUS
  <2> QED
    BY <1>2, <2>1, Zenon DEF Waiting
<1>4. \A k : k = hand.kind => ~Waiting(k)'
  <2>1. todo' = todo /\ queue' = queue
    OBVIOUS
  <2>2. hand.kind \notin todo /\ \A i \in DOMAIN queue : queue[i].kind # hand.kind
    BY DEF Inv, Once
  <2> TAKE k
  <2> HAVE k = hand.kind
  <2>3. k \notin todo' /\ hand'.kind # k /\ \A i \in DOMAIN queue' : queue'[i].kind # k
    BY <1>2, <2>1, <2>2
  <2> QED
    BY <2>3, Zenon DEF Waiting
<1>5. pc = "delete" => Empty /\ hand.kind = "end_info"
  BY <1>1 DEF Inv, Flow, Ending
<1>6. pc = "kernel" => uploader
  BY DEF Inv, Flow, Quiet
<1>7. queue \in Seq(Chunk(ThisTask))
  BY DEF Inv, Types
<1>8. \A i \in DOMAIN queue : queue[i].kind # "none"
  <2>1. PICK S : S = Chunk(ThisTask)
    OBVIOUS
  <2>2. \A i \in DOMAIN queue : queue[i] \in S
    BY <1>7, <2>1
  <2> QED
    BY <2>1, <2>2 DEF Chunk, Kinds
<1>9. Flow'
  <2>1. ~Waiting("end_info") => ~Waiting("end_info")'
    BY <1>3
  <2> QED
    BY <1>1, <1>5, <1>6, <2>1 DEF Inv, Flow, Ending, Quiet
<1>10. Once'
  <2>1. "none" \notin todo
    BY DEF Inv, Types, Kinds
  <2> QED
    BY <1>2, <1>8, <2>1 DEF Inv, Once
<1>11. ~Counted /\ (Counted' => hand.kind = "end_info")
  BY <1>2 DEF Counted, Quiet, Inv, Flow, Ending
<1> QED
  BY <1>1, <1>2, <1>3, <1>4, <1>9, <1>10, <1>11
(* of the analysis of a chunk *)
Elsewhere == UNCHANGED <<pc, launch, replay, exec, kernelOk, uploader, todo, queue, inited, faults>>

(* Nobody takes the chunk: the analyzer was not initialised.               *)
LEMMA UntakenStep ==
  ASSUME Inv, hand # NoChunk, hand' = NoChunk, ~inited, UNCHANGED analyzerVars, Elsewhere,
         cut' = (cut \/ hand.kind = "end_info")
  PROVE  Inv'
<1> USE DEF Elsewhere, analyzerVars
<1>1. /\ ThisTask' = ThisTask /\ hand \in Chunk(ThisTask) /\ pc \notin {"idle", "taskStart"}
      /\ \A k : Waiting(k)' => Waiting(k) \/ k = "none"
      /\ Flow' /\ Once' /\ ~Counted
      /\ Counted' => hand.kind = "end_info"
  BY HandGone, Zenon DEF Empty
<1>2. UNCHANGED <<logInfo, subTaskInfo, manager, written>>
  OBVIOUS
<1>3. Types'
  <2>1. Chunk(ThisTask)' = Chunk(ThisTask) /\ cut' \in BOOLEAN
    BY <1>1 DEF Chunk, Inv, Types
  <2>2. {kernelOk', uploader', inited', cut'} \subseteq BOOLEAN
    BY <2>1 DEF Inv, Types
  <2>3. hand' \in Chunk(ThisTask)' \cup {NoChunk}
    OBVIOUS
  <2> QED
    BY <1>1, <1>2, <2>1, <2>2, <2>3 DEF Inv, Types
<1>4. Log'
  <2>1. \A k \in {"event", "begin", "end"} : Waiting(k)' => Waiting(k)
    BY <1>1
  <2> QED
    BY <1>1, <1>2, <2>1 DEF Inv, Log
<1>5. faults # 0
  BY <1>1 DEF Inv, Full, Types, Ending
<1>6. Full'
  BY <1>5 DEF Full
<1>7. Counting' /\ Writing'
  <2>1. CASE cut'
    BY <2>1 DEF Counting, Writing
  <2>2. CASE ~cut'
    <3>1. hand.kind # "end_info"
      BY <2>2
    <3>2. ~Counted' /\ ~Counted /\ (cut => cut') /\ pc' = pc
      BY <1>1, <3>1
    <3> QED
      BY <1>2, <3>2, CountingKept DEF Inv
  <2> QED
    BY <2>1, <2>2
<1> QED
  BY <1>1, <1>3, <1>4, <1>6, <1>7 DEF Inv

(* The PMU record of the task at hand is noted.                            *)
LEMMA PmuStep ==
  ASSUME Inv, hand # NoChunk, hand' = NoChunk, inited, hand.kind = "pmu", Elsewhere, cut' = cut,
         subTaskInfo' = subTaskInfo \cup {hand.task}, UNCHANGED <<logInfo, manager, written>>
  PROVE  Inv'
<1> USE DEF Elsewhere
<1>1. /\ ThisTask' = ThisTask /\ hand \in Chunk(ThisTask) /\ pc \notin {"idle", "taskStart"}
      /\ \A k : Waiting(k)' => Waiting(k) \/ k = "none"
      /\ \A k : k # hand.kind => (Waiting(k) => Waiting(k)')
      /\ Flow' /\ Once' /\ ~Counted
      /\ Counted' => hand.kind = "end_info"
  BY HandGone DEF Empty
<1>2. hand.task = ThisTask
  BY <1>1 DEF Chunk
<1>3. subTaskInfo' = {ThisTask}
  BY <1>2 DEF Inv, Types
<1>4. Types'
  <2>1. Chunk(ThisTask)' = Chunk(ThisTask)
    BY <1>1 DEF Chunk
  <2>2. hand' \in Chunk(ThisTask)' \cup {NoChunk}
    OBVIOUS
  <2>3. subTaskInfo' \subseteq {ThisTask'}
    BY <1>1, <1>3
  <2> QED
    BY <1>1, <2>1, <2>2, <2>3 DEF Inv, Types
<1>5. \A k \in {"event", "begin", "end"} : Waiting(k)' <=> Waiting(k)
  BY <1>1
<1>6. Log'
  BY <1>1, <1>5 DEF Inv, Log
<1>7. ~Counted'
  BY <1>1
<1>8. Full'
  <2>1. Logged' <=> Logged
    BY <1>5 DEF Logged
  <2> QED
    BY <1>1, <1>3, <1>5, <1>7, <2>1 DEF Inv, Full, Ending
<1>9. Counting' /\ Writing'
  BY <1>1, <1>7, CountingKept DEF Inv
<1> QED
  BY <1>1, <1>4, <1>6, <1>8, <1>9 DEF Inv

(* A log record makes or completes a detail of the task at hand.           *)
LEMMA LogStep ==
  ASSUME Inv, hand # NoChunk, hand' = NoChunk, inited, hand.kind \notin {"pmu", "end_info"}, Elsewhere, cut' = cut,
         logInfo' = HandleStarsAcsq(logInfo, hand.kind, hand.task), UNCHANGED <<subTaskInfo, manager, written>>
  PROVE  Inv'
<1> USE DEF Elsewhere
<1>1. /\ ThisTask' = ThisTask /\ hand \in Chunk(ThisTask) /\ pc \notin {"idle", "taskStart"}
      /\ \A k : Waiting(k)' => Waiting(k) \/ k = "none"
      /\ \A k : k # hand.kind => (Waiting(k) => Waiting(k)')
      /\ \A k : k = hand.kind => Waiting(k) /\ ~Waiting(k)'
      /\ Flow' /\ Once' /\ ~Counted
      /\ Counted' => hand.kind = "end_info"
  BY HandGone DEF Empty
<1>2. PICK t, kind, log, x : t = ThisTask /\ kind = hand.kind /\ log = logInfo /\ x = logInfo'
  OBVIOUS
<1>3. hand.task = t /\ kind \in {"event", "begin", "end"}
  BY <1>1, <1>2 DEF Chunk, Kinds
<1>4. t \in Task
  <2>1. launch >= 1 /\ launch \in 1 .. MaxLaunch /\ replay \in 1 .. ReplayTime /\ exec \in 1 .. TaskTime
    BY <1>1, Sizes DEF Inv, Types
  <2> QED
    BY <1>2, <2>1 DEF Task, ThisTask
<1>5. log \in Seq(Detail) /\ OneKind(log) /\ \A i \in DOMAIN log : log[i].task = t
  BY <1>2 DEF Inv, Types, Log, OneKind
<1>6. \A i \in DOMAIN log : log[i].event \in BOOLEAN /\ log[i].begin \in BOOLEAN /\ log[i].end \in BOOLEAN
  <2>1. \A i \in DOMAIN log : log[i] \in Detail
    BY <1>5
  <2> QED
    BY <2>1 DEF Detail
<1>7. Waiting(kind) /\ ~Waiting(kind)'
  BY <1>1, <1>2
<1>8. \A i \in DOMAIN log : log[i].event = (kind = "event") => kind # "event" /\ ~(log[i].begin /\ log[i].end)
  BY <1>2, <1>3, <1>6, <1>7 DEF Inv, Log
<1>9. Handled(log, kind, t, x)
  BY <1>2, <1>3, <1>4, <1>5, <1>8, HandlesRecord
<1>10. x \in Seq(Detail)
  BY <1>9 DEF Handled
<1>11. Types'
  <2>1. Chunk(ThisTask)' = Chunk(ThisTask)
    BY <1>1 DEF Chunk
  <2>2. hand' \in Chunk(ThisTask)' \cup {NoChunk}
    OBVIOUS
  <2> QED
    BY <1>1, <1>2, <1>10, <2>1, <2>2 DEF Inv, Types
<1>12. \A k \in {"event", "begin", "end", "pmu"} : k # kind => (Waiting(k)' <=> Waiting(k))
  BY <1>1, <1>2
<1>13. DOMAIN log = 1 .. Len(log) /\ DOMAIN x = 1 .. Len(x) /\ Len(log) \in Nat
  BY <1>5, <1>10
<1>14. /\ \A i \in DOMAIN log : ~log[i].cycles
       /\ \A i \in DOMAIN log : IF log[i].event THEN ~Waiting("event")
                                ELSE (log[i].begin => ~Waiting("begin")) /\ (log[i].end => ~Waiting("end"))
  BY <1>2 DEF Inv, Log
<1>15. ~Counted'
  BY <1>1
<1>16. PICK k \in DOMAIN x :
         /\ x[k].event = (kind = "event") /\ x[k].task = t /\ ~x[k].cycles
         /\ IF kind = "end" THEN x[k].end ELSE x[k].begin
         /\ x[k].begin /\ kind = "end" => k \in DOMAIN log /\ log[k].begin
         /\ x[k].end /\ kind # "end" => k \in DOMAIN log /\ log[k].end
         /\ k \in DOMAIN log => /\ log[k].event = (kind = "event")
                                /\ log[k].begin => x[k].begin
                                /\ log[k].end => x[k].end
         /\ \A i \in DOMAIN x : i # k => i \in DOMAIN log /\ x[i] = log[i] /\ log[i].event # (kind = "event")
         /\ \A i \in DOMAIN log : i \in DOMAIN x
  <2>1. CASE /\ \A i \in DOMAIN log : log[i].event # (kind = "event")
             /\ Len(x) = Len(log) + 1 /\ x[Len(x)] = Marked(NewDetail(t, kind = "event"), kind)
             /\ \A i \in DOMAIN log : x[i] = log[i]
    <3>1. PICK d : d = NewDetail(t, kind = "event")
      OBVIOUS
    <3>2. /\ d \in Detail /\ d.task = t /\ d.event = (kind = "event")
          /\ d.begin = FALSE /\ d.end = FALSE /\ d.cycles = FALSE
      BY <1>4, <3>1 DEF NewDetail, Detail
    <3>3. /\ x[Len(x)].event = d.event /\ x[Len(x)].task = d.task /\ x[Len(x)].cycles = d.cycles
          /\ x[Len(x)].begin = (kind # "end") /\ x[Len(x)].end = (kind = "end")
      BY <2>1, <3>1, <3>2, MarkedIsDetail
    <3>4. Len(x) \in DOMAIN x /\ Len(x) \notin DOMAIN log
      BY <1>13, <2>1
    <3>5. \A i \in DOMAIN x : i # Len(x) => i \in DOMAIN log
      BY <1>13, <2>1
    <3>6. \A i \in DOMAIN log : i \in DOMAIN x
      BY <1>13, <2>1
    <3> QED
      BY <2>1, <3>2, <3>3, <3>4, <3>5, <3>6
  <2>2. CASE \E k \in DOMAIN log :
               /\ log[k].event = (kind = "event")
               /\ Len(x) = Len(log) /\ x[k] = Marked(log[k], kind)
               /\ \A i \in DOMAIN log : i # k => x[i] = log[i]
    <3>1. PICK k \in DOMAIN log :
               /\ log[k].event = (kind = "event")
               /\ Len(x) = Len(log) /\ x[k] = Marked(log[k], kind)
               /\ \A i \in DOMAIN log : i # k => x[i] = log[i]
      BY <2>2
    <3>2. PICK d : d = log[k]
      OBVIOUS
    <3>3. d \in Detail
      BY <1>5, <3>2
    <3>4. /\ x[k].event = d.event /\ x[k].task = d.task /\ x[k].cycles = d.cycles
          /\ x[k].begin = (d.begin \/ kind # "end") /\ x[k].end = (d.end \/ kind = "end")
      BY <3>1, <3>2, <3>3, MarkedIsDetail
    <3>5. DOMAIN x = DOMAIN log
      BY <1>13, <3>1
    <3>6. \A i \in DOMAIN log : i # k => log[i].event # (kind = "event")
      BY <1>5, <3>1 DEF OneKind
    <3>7. ~d.cycles /\ d.task = t
      BY <1>5, <1>14, <3>2
    <3> QED
      BY <3>1, <3>2, <3>4, <3>5, <3>6, <3>7
  <2> QED
    BY <1>9, <2>1, <2>2 DEF Handled
<1>17. Log'
  <2>1. \A i \in DOMAIN x : x[i].task = t /\ ~x[i].cycles
    BY <1>5, <1>14, <1>16
  <2>2. \A i, j \in DOMAIN x : x[i].event = x[j].event => i = j
    <3>1. \A i \in DOMAIN x : i # k => i \in DOMAIN log /\ x[i].event = log[i].event /\ x[i].event # (kind = "event")
      BY <1>16
    <3> QED
      BY <1>5, <1>16, <3>1 DEF OneKind
  <2>3. \A i \in DOMAIN x : IF x[i].event THEN ~Waiting("event")'
                            ELSE (x[i].begin => ~Waiting("begin")') /\ (x[i].end => ~Waiting("end")')
    <3> SUFFICES ASSUME NEW i \in DOMAIN x
                 PROVE  IF x[i].event THEN ~Waiting("event")'
                        ELSE (x[i].begin => ~Waiting("begin")') /\ (x[i].end => ~Waiting("end")')
      OBVIOUS
    <3>1. \A n \in {"event", "begin", "end"} : Waiting(n)' => Waiting(n) /\ n # kind
      BY <1>1, <1>2
    <3>2. CASE i # k
      BY <1>14, <1>16, <3>1, <3>2
    <3>3. CASE i = k
      BY <1>3, <1>14, <1>16, <3>1, <3>3
    <3> QED
      BY <3>2, <3>3
  <2>4. t = ThisTask' /\ x = logInfo'
    BY <1>1, <1>2
  <2> QED
    BY <2>1, <2>2, <2>3, <2>4 DEF Log
<1>18. (Waiting("begin") /\ Waiting("end")) \/ Logged => Logged' \/ (Waiting("begin")' /\ Waiting("end")')
  <2>1. Logged <=> \E i \in DOMAIN log : /\ ~log[i].event
                                         /\ Waiting("begin") \/ log[i].begin
                                         /\ Waiting("end") \/ log[i].end
    BY <1>2 DEF Logged
  <2>2. Logged' <=> \E i \in DOMAIN x : /\ ~x[i].event
                                        /\ Waiting("begin")' \/ x[i].begin
                                        /\ Waiting("end")' \/ x[i].end
    BY <1>2 DEF Logged
  <2>3. CASE kind = "event"
    <3>1. (Waiting("begin") <=> Waiting("begin")') /\ (Waiting("end") <=> Waiting("end")')
      BY <1>12, <2>3
    <3>2. \A i \in DOMAIN log : ~log[i].event => i \in DOMAIN x /\ x[i] = log[i]
      BY <1>16, <2>3
    <3> QED
      BY <2>1, <2>2, <3>1, <3>2
  <2>4. CASE kind # "event"
    <3>1. ~x[k].event /\ k \in DOMAIN x
      BY <1>16, <2>4
    <3>2. CASE Waiting("begin") /\ Waiting("end")
      <4>1. CASE kind = "begin"
        BY <1>12, <1>16, <2>2, <3>1, <3>2, <4>1
      <4>2. CASE kind = "end"
        BY <1>12, <1>16, <2>2, <3>1, <3>2, <4>2
      <4> QED
        BY <1>3, <2>4, <4>1, <4>2
    <3>3. CASE Logged
      <4>1. PICK i \in DOMAIN log : ~log[i].event /\ (Waiting("begin") \/ log[i].begin) /\ (Waiting("end") \/ log[i].end)
        BY <2>1, <3>3
      <4>2. i = k
        BY <1>6, <1>16, <2>4, <4>1
      <4>3. CASE kind = "begin"
        BY <1>12, <1>16, <2>2, <3>1, <4>1, <4>2, <4>3
      <4>4. CASE kind = "end"
        BY <1>12, <1>16, <2>2, <3>1, <4>1, <4>2, <4>4
      <4> QED
        BY <1>3, <2>4, <4>3, <4>4
    <3> QED
      BY <3>2, <3>3
  <2> QED
    BY <2>3, <2>4
<1>19. Full'
  <2>1. Waiting("pmu") <=> Waiting("pmu")'
    BY <1>3, <1>12
  <2> QED
    BY <1>1, <1>15, <1>18, <2>1 DEF Inv, Full, Ending
<1>20. Counting' /\ Writing'
  BY <1>1, <1>15, CountingKept DEF Inv
<1> QED
  BY <1>1, <1>11, <1>17, <1>19, <1>20 DEF Inv
(* The count goes up by one, whatever the details.                         *)
LEMMA CountGoesUp ==
  ASSUME NEW m, NEW log, NEW sub, NEW n, NEW x, CountedOne(m, log, sub, n, x)
  PROVE  x \in Managers /\ x.analyzeCount = m.analyzeCount + 1
BY DEF CountedOne, WithMetrics, WithDetail

(* A result that is written is of its type, and so is what is left.        *)
LEMMA FlushTypes ==
  ASSUME NEW x \in Managers, x.analyzeCount <= TaskTime * ReplayTime, written \in Seq(Results), FlushOpData(x)
  PROVE  manager' \in Managers /\ manager'.analyzeCount < TaskTime * ReplayTime /\ written' \in Seq(Results)
<1>1. PICK p \in Nat : p = TaskTime * ReplayTime /\ p >= 1
  BY TaskCount
<1>2. EmptyManager \in Managers /\ EmptyManager.analyzeCount = 0
  BY HeldEmpty DEF EmptyManager
<1>3. x.analyzeCount \in Nat
  BY DEF Managers
<1>4. manager' \in Managers /\ manager'.analyzeCount < TaskTime * ReplayTime
  <2>1. CASE x.analyzeCount = p
    BY <1>1, <1>2, <2>1 DEF FlushOpData
  <2>2. CASE x.analyzeCount # p
    BY <1>1, <1>3, <2>2 DEF FlushOpData
  <2> QED
    BY <2>1, <2>2
<1>5. PICK w : w = [data |-> x.summaryInfo, metrics |-> x.metrics]
  OBVIOUS
<1>6. w \in Results
  BY <1>5 DEF Results, Managers
<1>7. written' = Append(written, w) \/ written' = written
  BY <1>5 DEF FlushOpData
<1>8. written' \in Seq(Results)
  <2>1. PICK S : S = Results
    OBVIOUS
  <2>2. written \in Seq(S) /\ w \in S
    BY <1>6, <2>1
  <2> QED
    BY <1>7, <2>1, <2>2
<1> QED
  BY <1>4, <1>8

(* A sequence is the function of its elements.                             *)
LEMMA IsFunction ==
  ASSUME NEW S, NEW v \in Seq(S)
  PROVE  v = [i \in 1 .. Len(v) |-> v[i]]
OBVIOUS

(* What a result that is appended leaves as it is.                         *)
LEMMA AppendsResult ==
  ASSUME NEW S, NEW w \in Seq(S), NEW c \in S, NEW v, v = Append(w, c)
  PROVE  /\ v \in Seq(S) /\ Len(v) = Len(w) + 1 /\ Len(w) \in Nat
         /\ DOMAIN v = 1 .. (Len(w) + 1) /\ v[Len(w) + 1] = c /\ \A i \in 1 .. Len(w) : v[i] = w[i]
OBVIOUS

(* The end_info comes last; it counts the task, and the last one of the    *)
(* launch writes it.                                                       *)
LEMMA EndInfoStep ==
  ASSUME Inv, hand # NoChunk, hand' = NoChunk, inited, hand.kind = "end_info", Elsewhere, cut' = cut,
         OnEndInfo(hand.task)
  PROVE  Inv'
<1> USE DEF Elsewhere
<1>1. logInfo' = <<>> /\ subTaskInfo' = {} /\ FlushOpData(OpAssociation(manager, logInfo, subTaskInfo, hand.task))
  BY DEF OnEndInfo
<1>2. /\ ThisTask' = ThisTask /\ hand \in Chunk(ThisTask) /\ pc \notin {"idle", "taskStart"}
      /\ Flow' /\ Once' /\ ~Counted
  BY <1>1, HandGone DEF Empty
<1>3. Ending /\ todo = {} /\ queue = <<>>
  <2>1. Waiting("end_info")
    BY DEF Waiting
  <2>2. Ending
    BY <1>2, <2>1 DEF Inv, Types, Flow, Ending
  <2>3. todo = {} /\ (queue # <<>> => queue[Len(queue)].kind = "end_info")
    BY <2>2 DEF Inv, Flow
  <2>4. queue # <<>> => Len(queue) \in DOMAIN queue
    <3>1. queue \in Seq(Chunk(ThisTask))
      BY DEF Inv, Types
    <3> QED
      BY <3>1
  <2>5. \A i \in DOMAIN queue : queue[i].kind # "end_info"
    BY DEF Inv, Once
  <2> QED
    BY <2>2, <2>3, <2>4, <2>5
<1>4. Counted' /\ Ending'
  BY <1>3 DEF Counted, Ending, Quiet
<1>5. PICK m, l, r, e, f, log, sub, t :
         /\ m = manager /\ l = launch /\ r = replay /\ e = exec /\ f = faults
         /\ log = logInfo /\ sub = subTaskInfo /\ t = ThisTask
  OBVIOUS
<1>6. PICK x : x = OpAssociation(manager, logInfo, subTaskInfo, hand.task)
  OBVIOUS
<1>7. hand.task = t /\ t = <<l, r, e>> /\ t[2] = r
  BY <1>2, <1>5 DEF Chunk, ThisTask
<1>8. /\ r \in 1 .. ReplayTime /\ e \in 1 .. TaskTime /\ m \in Managers /\ log \in Seq(Detail)
      /\ m.analyzeCount < TaskTime * ReplayTime /\ OneKind(log) /\ l \in Nat /\ l >= 1 /\ r \in Nat /\ e \in Nat
      /\ \A i \in DOMAIN log : log[i].task = <<l, r, e>>
  BY <1>2, <1>5, <1>7, Sizes DEF Inv, Types, Log, OneKind
<1>9. CountedOne(m, log, sub, r, x)
  <2>1. x = OpAssociation(m, log, sub, t)
    BY <1>5, <1>6, <1>7
  <2> QED
    BY <1>7, <1>8, <2>1, CountsOne
<1>10. x \in Managers /\ x.analyzeCount = m.analyzeCount + 1
  BY <1>9, CountGoesUp
<1>11. manager' \in Managers /\ manager'.analyzeCount < TaskTime * ReplayTime /\ written' \in Seq(Results)
  <2>1. PICK p \in Nat : p = TaskTime * ReplayTime
    BY TaskCount
  <2>2. m.analyzeCount \in Nat
    BY <1>8 DEF Managers
  <2>3. x.analyzeCount <= TaskTime * ReplayTime
    BY <1>8, <1>10, <2>1, <2>2
  <2>4. written \in Seq(Results)
    BY DEF Inv, Types
  <2> QED
    BY <1>1, <1>6, <1>10, <2>3, <2>4, FlushTypes
<1>12. Types'
  <2>1. Chunk(ThisTask)' = Chunk(ThisTask)
    BY <1>2 DEF Chunk
  <2>2. hand' \in Chunk(ThisTask)' \cup {NoChunk} /\ logInfo' \in Seq(Detail) /\ subTaskInfo' \subseteq {ThisTask'}
    BY <1>1
  <2>3. UNCHANGED <<pc, launch, replay, exec, kernelOk, uploader, todo, queue, inited, faults, cut>>
    OBVIOUS
  <2>4. Types
    BY DEF Inv
  <2> HIDE DEF Elsewhere
  <2> QED
    <3>1. /\ pc' \in {"idle", "taskStart", "kernel", "flush", "writeDone", "delete"}
          /\ launch' \in 0 .. MaxLaunch /\ replay' \in 1 .. ReplayTime /\ exec' \in 1 .. TaskTime
          /\ todo' \subseteq Kinds /\ faults' \in 0 .. MaxFault
          /\ pc' # "idle" => launch' >= 1
      BY <2>3, <2>4, Zenon DEF Types
    <3>2. {kernelOk', uploader', inited', cut'} \subseteq BOOLEAN
      BY <2>3, <2>4 DEF Types
    <3>3. queue' \in Seq(Chunk(ThisTask)')
      BY <2>1, <2>3, <2>4, Zenon DEF Types
    <3> QED
      BY <1>11, <2>2, <3>1, <3>2, <3>3, Zenon DEF Types
<1>13. Log' /\ Full'
  <2>1. DOMAIN logInfo' = {}
    BY <1>1
  <2>2. Log'
    BY <2>1, Zenon DEF Log
  <2>3. faults = 0 => inited /\ uploader
    BY <1>3 DEF Inv, Full
  <2>4. inited' = inited /\ uploader' = uploader /\ faults' = faults
    OBVIOUS
  <2>5. faults' = 0 => inited' /\ uploader'
    BY <2>3, <2>4
  <2>6. Full'
    BY <1>4, <2>5, Zenon DEF Full
  <2> QED
    BY <2>2, <2>6
<1>14. ~cut => Flushed(l, r, e, f)
  <2> SUFFICES ASSUME ~cut PROVE Flushed(l, r, e, f)
    OBVIOUS
  <2>1. Held(m, l, r, e, f)
    BY <1>2, <1>5 DEF Inv, Counting
  <2>2. f = 0 => /\ \E i \in DOMAIN log : ~log[i].event
                 /\ \A i \in DOMAIN log : ~log[i].event => log[i].begin /\ log[i].end
                 /\ <<l, r, e>> \in sub
    <3> SUFFICES ASSUME f = 0 PROVE /\ \E i \in DOMAIN log : ~log[i].event
                 /\ \A i \in DOMAIN log : ~log[i].event => log[i].begin /\ log[i].end
                 /\ <<l, r, e>> \in sub
      OBVIOUS
    <3>1. ~Waiting("begin") /\ ~Waiting("end") /\ ~Waiting("pmu")
      BY <1>3 DEF Waiting
    <3>2. Logged /\ sub = {t}
      BY <1>2, <1>3, <1>5, <3>1 DEF Inv, Full
    <3>3. PICK i \in DOMAIN log : ~log[i].event /\ log[i].begin /\ log[i].end
      BY <1>5, <3>1, <3>2 DEF Logged
    <3>4. \A j \in DOMAIN log : ~log[j].event => j = i
      <4>1. \A j \in DOMAIN log : log[j] \in Detail
        BY <1>8
      <4>2. \A j \in DOMAIN log : log[j].event \in BOOLEAN
        BY <4>1 DEF Detail
      <4> QED
        BY <1>8, <3>3, <4>2 DEF OneKind
    <3> QED
      BY <1>7, <3>2, <3>3, <3>4
  <2>3. HeldNext(x, l, r, e, f)
    BY <1>8, <1>9, <2>1, <2>2, HoldsOneMore
  <2>4. x.analyzeCount = (r - 1) * TaskTime + e
    <3>1. PICK p : p = (r - 1) * TaskTime
      OBVIOUS
    <3>2. p \in Int
      <4>1. r \in Nat /\ TaskTime \in Nat
        BY <1>8, Sizes
      <4> QED
        BY <3>1, <4>1
    <3>3. m.analyzeCount = p + (e - 1)
      BY <2>1, <3>1 DEF Held
    <3>4. p + (e - 1) + 1 = p + e
      BY <1>8, <3>2
    <3> QED
      BY <1>10, <3>1, <3>3, <3>4, Zenon
  <2>5. FlushOpData(x)
    BY <1>1, <1>6
  <2> QED
    BY <1>8, <1>10, <2>3, <2>4, <2>5, FlushesLaunch
<1>15. Counting'
  <2> SUFFICES ASSUME ~cut PROVE HeldAfter(manager', launch', replay', exec', faults')
    BY <1>2, <1>4 DEF Counting
  <2>1. Flushed(launch, replay, exec, faults)
    BY <1>5, <1>14
  <2>2. e \in Nat /\ r \in Nat /\ e <= TaskTime /\ r <= ReplayTime
    BY <1>8, Sizes
  <2>3. CASE exec < TaskTime
    BY <1>5, <2>1, <2>2, <2>3, Sizes DEF Flushed, HeldNext, HeldAfter
  <2>4. CASE exec = TaskTime /\ replay < ReplayTime
    BY <1>5, <2>1, <2>2, <2>4, Sizes DEF Flushed, HeldNext, HeldAfter
  <2>5. CASE exec = TaskTime /\ replay = ReplayTime
    BY <1>5, <2>1, <2>2, <2>5, Sizes DEF Flushed, HeldAfter
  <2> QED
    BY <1>5, <2>2, <2>3, <2>4, <2>5, Sizes
<1>16. Writing'
  <2> SUFFICES ASSUME ~cut PROVE Writing'
    BY DEF Writing
  <2>1. Flushed(l, r, e, f)
    BY <1>14
  <2>2. Through = l - 1
    BY <1>2, <1>5 DEF Through
  <2>3. Through' = IF e = TaskTime /\ r = ReplayTime THEN l ELSE l - 1
    BY <1>2, <1>4, <1>5 DEF Through
  <2>4. PICK w, v : w = written /\ v = written'
    OBVIOUS
  <2>5. /\ \A i \in DOMAIN w : \E k \in 1 .. l : w[i] = Complete(k)
        /\ f = 0 => w = [k \in 1 .. (l - 1) |-> Complete(k)]
    BY <1>5, <2>2, <2>4 DEF Inv, Writing
  <2>6. w \in Seq(Results)
    BY <2>4 DEF Inv, Types
  <2> SUFFICES /\ \A i \in DOMAIN v : \E k \in 1 .. l : v[i] = Complete(k)
               /\ f = 0 => v = [k \in 1 .. (IF e = TaskTime /\ r = ReplayTime THEN l ELSE l - 1) |-> Complete(k)]
    BY <1>5, <2>3, <2>4 DEF Writing
  <2>7. CASE ~(e = TaskTime /\ r = ReplayTime)
    BY <2>1, <2>4, <2>5, <2>7 DEF Flushed
  <2>8. CASE (e = TaskTime /\ r = ReplayTime) /\ v = w /\ f # 0
    BY <2>5, <2>8
  <2>9. CASE (e = TaskTime /\ r = ReplayTime) /\ v = Append(w, Complete(l))
    <3>1. PICK c : c = Complete(l)
      OBVIOUS
    <3>2. DOMAIN w = 1 .. Len(w) /\ Len(w) \in Nat
      BY <2>6
    <3>3. /\ DOMAIN v = 1 .. (Len(w) + 1) /\ v[Len(w) + 1] = c /\ \A i \in 1 .. Len(w) : v[i] = w[i]
          /\ v = [i \in 1 .. (Len(w) + 1) |-> v[i]]
      <4>1. v = Append(w, c)
        BY <2>9, <3>1
      <4>2. PICK S : S = Results \cup {c}
        OBVIOUS
      <4>3. w \in Seq(S) /\ c \in S
        <5>1. \A i \in 1 .. Len(w) : w[i] \in S
          BY <2>6, <4>2
        <5> QED
          BY <2>6, <3>2, <4>2, <5>1
      <4>4. /\ v \in Seq(S) /\ Len(v) = Len(w) + 1
            /\ DOMAIN v = 1 .. (Len(w) + 1) /\ v[Len(w) + 1] = c /\ \A i \in 1 .. Len(w) : v[i] = w[i]
        BY <4>1, <4>3, AppendsResult
      <4>5. v = [i \in 1 .. Len(v) |-> v[i]]
        BY <4>4, IsFunction
      <4> QED
        BY <4>4, <4>5, Zenon
    <3>4. \A i \in DOMAIN v : \E k \in 1 .. l : v[i] = Complete(k)
      <4> SUFFICES ASSUME NEW i \in DOMAIN v PROVE \E k \in 1 .. l : v[i] = Complete(k)
        OBVIOUS
      <4>1. CASE i = Len(w) + 1
        <5>1. l \in 1 .. l
          BY <1>8
        <5> QED
          BY <3>1, <3>3, <4>1, <5>1
      <4>2. CASE i # Len(w) + 1
        <5>1. i \in DOMAIN w /\ v[i] = w[i]
          <6>1. i \in 1 .. (Len(w) + 1)
            BY <3>3, Zenon
          <6>2. i \in 1 .. Len(w)
            BY <3>2, <4>2, <6>1
          <6> QED
            BY <3>2, <3>3, <6>2, Zenon
        <5> QED
          BY <2>5, <5>1
      <4> QED
        BY <4>1, <4>2
    <3>5. f = 0 => v = [k \in 1 .. l |-> Complete(k)]
      <4> SUFFICES ASSUME f = 0 PROVE v = [k \in 1 .. l |-> Complete(k)]
        OBVIOUS
      <4>1. DOMAIN w = 1 .. (l - 1) /\ \A k \in 1 .. (l - 1) : w[k] = Complete(k)
        BY <2>5
      <4>2. Len(w) = l - 1
        <5>1. w = [k \in 1 .. (l - 1) |-> Complete(k)] /\ l - 1 \in Nat
          BY <1>8, <2>5
        <5> QED
          BY <1>8, <3>2, <4>1
      <4>3. Len(w) + 1 = l /\ 1 .. Len(w) = 1 .. (l - 1)
        BY <1>8, <4>2
      <4>4. \A k \in 1 .. l : v[k] = Complete(k)
        <5> TAKE k \in 1 .. l
        <5>1. CASE k = l
          BY <3>1, <3>3, <4>3, <5>1, Zenon
        <5>2. CASE k # l
          <6>1. k \in 1 .. (l - 1)
            <7>1. l \in Nat
              BY <1>8
            <7> QED
              BY <5>2, <7>1
          <6> QED
            BY <3>3, <4>1, <4>3, <6>1, Zenon
        <5> QED
          BY <5>1, <5>2
      <4>5. v = [k \in 1 .. l |-> v[k]]
        BY <3>3, <4>3
      <4> QED
        BY <4>4, <4>5
    <3> QED
      BY <2>9, <3>4, <3>5
  <2> QED
    BY <2>1, <2>4, <2>7, <2>8, <2>9, Zenon DEF Flushed
<1> QED
  BY <1>2, <1>12, <1>13, <1>15, <1>16 DEF Inv

(* The chunk in hand is analysed, by its kind.                             *)
LEMMA OnOpDataStep == Inv /\ OnOpData => Inv'
<1> SUFFICES ASSUME Inv, OnOpData PROVE Inv'
  OBVIOUS
<1>1. hand # NoChunk /\ hand' = NoChunk /\ Elsewhere
  BY DEF OnOpData, appVars, Elsewhere
<1>2. CASE ~inited
  BY <1>1, <1>2, UntakenStep DEF OnOpData
<1>3. CASE inited
  <2>1. cut' = cut /\ IF hand.kind = "end_info" THEN OnEndInfo(hand.task)
                                                 ELSE DispatchOpData(hand.kind, hand.task)
    BY <1>3 DEF OnOpData
  <2>2. CASE hand.kind = "end_info"
    BY <1>1, <1>3, <2>1, <2>2, EndInfoStep
  <2>3. CASE hand.kind = "pmu"
    BY <1>1, <1>3, <2>1, <2>3, PmuStep DEF DispatchOpData
  <2>4. CASE hand.kind \notin {"pmu", "end_info"}
    BY <1>1, <1>3, <2>1, <2>4, LogStep DEF DispatchOpData
  <2> QED
    BY <2>2, <2>3, <2>4
<1> QED
  BY <1>2, <1>3

-----------------------------------------------------------------------------
(* Nothing is launched yet.                                                *)
LEMMA Initially == Init => Inv
<1> SUFFICES ASSUME Init PROVE Inv
  OBVIOUS
<1> USE Sizes DEF Init
<1>1. Types
  <2>1. queue \in Seq(Chunk(ThisTask)) /\ written \in Seq(Results) /\ logInfo \in Seq(Detail)
    OBVIOUS
  <2>2. manager \in Managers /\ manager.analyzeCount < TaskTime * ReplayTime
    <3>1. manager.analyzeCount = 0
      BY DEF EmptyManager
    <3>2. manager \in Managers
      BY HeldEmpty
    <3> HIDE DEF Init
    <3> QED
      BY <3>1, <3>2, TaskCount
  <2>3. hand \in Chunk(ThisTask) \cup {NoChunk}
    OBVIOUS
  <2>4. /\ pc = "idle" /\ launch \in 0 .. MaxLaunch /\ replay \in 1 .. ReplayTime /\ exec \in 1 .. TaskTime
        /\ faults \in 0 .. MaxFault
    OBVIOUS
  <2>6. {kernelOk, uploader, inited, cut} \subseteq BOOLEAN
    OBVIOUS
  <2>7. todo \subseteq Kinds /\ subTaskInfo \subseteq {ThisTask}
    OBVIOUS
  <2>5. pc \in {"idle", "taskStart", "kernel", "flush", "writeDone", "delete"}
    OBVIOUS
  <2> HIDE DEF Init
  <2> QED
    BY <2>1, <2>2, <2>3, <2>4, <2>5, <2>6, <2>7, Zenon DEF Types
<1>2. Flow /\ Once /\ Log /\ Full
  BY DEF Flow, Once, Log, Full, Quiet, Empty, Ending, NoChunk
<1>3. Counting /\ Writing
  <2>1. Through = 0
    BY DEF Through
  <2>2. written = [k \in 1 .. 0 |-> Complete(k)]
    <3>1. 1 .. 0 = {}
      OBVIOUS
    <3> QED
      OBVIOUS
  <2> QED
    BY <2>1, <2>2 DEF Counting, Writing
<1> QED
  BY <1>1, <1>2, <1>3 DEF Inv

(* Every step keeps the invariant.                                         *)
LEMMA Inductive == Inv /\ [Next]_vars => Inv'
<1> SUFFICES ASSUME Inv, [Next]_vars PROVE Inv'
  OBVIOUS
<1>1. CASE KernelExec
  BY <1>1, KernelExecStep
<1>2. CASE TaskStart
  BY <1>2, TaskStartStep
<1>3. CASE TaskStop
  BY <1>3, TaskStopStep
<1>4. CASE \E kind \in {"event", "begin", "end", "pmu"} : Upload(kind)
  BY <1>4, UploadStep DEF Kinds
<1>5. CASE Flush \/ WaitOpDone
  BY <1>5, FlushStep
<1>6. CASE DelAllUploader
  BY <1>6, DelAllUploaderStep
<1>7. CASE Pop
  BY <1>7, PopStep
<1>8. CASE OnOpData
  BY <1>8, OnOpDataStep
<1>9. CASE UNCHANGED vars
  BY <1>9 DEF vars, appVars, analyzerVars, Inv, Types, Flow, Once, Log, Full, Counting, Writing, Waiting,
              Quiet, Empty, Ending, Counted, Logged, Through, ThisTask
<1> QED
  BY <1>1, <1>2, <1>3, <1>4, <1>5, <1>6, <1>7, <1>8, <1>9 DEF Next, Stopping

(* The invariant says of every state what the analysis promises.           *)
LEMMA Promises == Inv => AnalysisSafe
<1> SUFFICES ASSUME Inv PROVE AnalysisSafe
  OBVIOUS
<1>1. TypeOK
  <2>1. queue \in Seq(Chunk(ThisTask)) /\ hand \in Chunk(ThisTask) \cup {NoChunk}
    BY DEF Inv, Types
  <2>2. /\ \A i \in 1 .. Len(queue) : queue[i].task = ThisTask
        /\ hand # NoChunk => hand.task = ThisTask
    <3>1. PICK S : S = Chunk(ThisTask)
      OBVIOUS
    <3>2. \A i \in 1 .. Len(queue) : queue[i] \in S
      BY <2>1, <3>1
    <3> QED
      BY <2>1, <3>1, <3>2 DEF Chunk
  <2>3. manager.analyzeCount \in 0 .. TaskTime * ReplayTime - 1
    <3>1. PICK p \in Nat : p = TaskTime * ReplayTime
      BY TaskCount
    <3>2. manager.analyzeCount \in Nat /\ manager.analyzeCount < p
      BY <3>1 DEF Inv, Types, Managers
    <3> QED
      BY <3>1, <3>2
  <2> QED
    BY <2>2, <2>3 DEF Inv, Types, Flow, Kinds, Quiet, Empty, TypeOK
<1>2. CountsTasks
  <2> SUFFICES ASSUME ~cut PROVE /\ pc = "taskStart" => manager.analyzeCount = (replay - 1) * TaskTime + exec - 1
                                 /\ pc = "idle" => manager = EmptyManager
    BY DEF CountsTasks
  <2>1. pc = "taskStart" => Held(manager, launch, replay, exec, faults)
    BY DEF Inv, Counting, Counted, Ending
  <2>2. (replay - 1) * TaskTime + (exec - 1) = (replay - 1) * TaskTime + exec - 1
    <3>1. PICK p : p = (replay - 1) * TaskTime
      OBVIOUS
    <3>2. p \in Int /\ exec \in Int
      BY <3>1, Sizes DEF Inv, Types
    <3> QED
      BY <3>1, <3>2
  <2>3. pc = "idle" => manager = EmptyManager
    BY DEF Inv, Counting
  <2> QED
    BY <2>1, <2>2, <2>3, Zenon DEF Held
<1>3. WrittenIsLaunch
  <2>1. written \in Seq(Results)
    BY DEF Inv, Types
  <2>2. DOMAIN written = 1 .. Len(written)
    BY <2>1
  <2>3. pc = "idle" => Through = launch
    BY DEF Through
  <2> QED
    BY <2>2, <2>3 DEF Inv, Writing, WrittenIsLaunch
<1>4. NoParsingInWaitOpDone
  BY DEF Inv, Flow, Ending, NoParsingInWaitOpDone
<1> QED
  BY <1>1, <1>2, <1>3, <1>4 DEF AnalysisSafe

(* For any number of replays, tasks, launches and failures, the analysis   *)
(* of a launch is safe: as long as no launch was cut short, the analyzer   *)
(* counts exactly the tasks that the launching thread has stopped          *)
(* (op_data_manager_tool.cpp), what it writes is the data of one launch    *)
(* with every task in its replay, a launch that lost nothing is written,   *)
(* and no record is parsed while WaitOpDone looks at the analyzer's maps.  *)
THEOREM AnalysisIsSafe == Spec => []AnalysisSafe
<1>1. Spec => []Inv
  BY Initially, Inductive, PTL DEF Spec
<1> QED
  BY <1>1, Promises, PTL
=============================================================================
