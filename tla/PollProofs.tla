----------------------------- MODULE PollProofs -----------------------------
(***************************************************************************)
(* The safety properties of ChannelPoll, for any readers, any number of    *)
(* pool threads and any limit of dispatches: dispatches are counted        *)
(* exactly, no task queue can fill, no dispatch meets a pool that is being *)
(* stopped, and nothing runs once Stop has returned.                       *)
(***************************************************************************)
EXTENDS ChannelPoll, SequenceTheorems, FiniteSetTheorems, TLAPS

(* how often reader r is in a queue of tasks *)
Count(tasks, r) == Cardinality(Places(tasks, r))

(* the readers that pool thread t executes *)
Own(t) == {r \in Reader : ThreadOf(r) = t}

-----------------------------------------------------------------------------
(* Counting in a queue *)

(* A queue has finitely many places. *)
LEMMA PlacesFinite ==
  ASSUME NEW S, NEW tasks \in Seq(S), NEW r
  PROVE  /\ IsFiniteSet(Places(tasks, r)) /\ Count(tasks, r) \in Nat
         /\ Places(tasks, r) \subseteq 1 .. Len(tasks) /\ Len(tasks) \in Nat
<1>1. Len(tasks) \in Nat /\ DOMAIN tasks = 1 .. Len(tasks)
  BY LenProperties
<1>2. IsFiniteSet(1 .. Len(tasks))
  BY <1>1, FS_Interval
<1>3. Places(tasks, r) \in SUBSET (1 .. Len(tasks))
  BY <1>1 DEF Places
<1>4. IsFiniteSet(Places(tasks, r))
  BY <1>2, <1>3, FS_Subset
<1> QED
  BY <1>1, <1>3, <1>4, FS_CardinalityType DEF Count

(* Appending a task adds one to the count of its reader. *)
LEMMA CountAppend ==
  ASSUME NEW S, NEW tasks \in Seq(S), NEW x \in S, NEW r
  PROVE  Count(Append(tasks, x), r) = Count(tasks, r) + (IF x = r THEN 1 ELSE 0)
<1> DEFINE n == Len(tasks)
           more == Append(tasks, x)
<1>1. n \in Nat /\ DOMAIN tasks = 1 .. n
  BY LenProperties
<1>2. /\ DOMAIN more = 1 .. (n + 1) /\ more[n + 1] = x
      /\ \A i \in 1 .. n : more[i] = tasks[i]
  BY <1>1, AppendProperties, LenProperties
<1>3. IsFiniteSet(Places(tasks, r)) /\ Count(tasks, r) \in Nat
  BY PlacesFinite
<1> HIDE DEF more
<1>4. CASE x = r
  <2>1. Places(more, r) = Places(tasks, r) \cup {n + 1}
    BY <1>1, <1>2, <1>4 DEF Places
  <2>2. n + 1 \notin Places(tasks, r)
    BY <1>1 DEF Places
  <2>3. Cardinality(Places(tasks, r) \cup {n + 1}) = Cardinality(Places(tasks, r)) + 1
    BY <1>3, <2>2, FS_AddElement
  <2> QED
    BY <1>4, <2>1, <2>3 DEF Count, more
<1>5. CASE x # r
  <2>1. Places(more, r) = Places(tasks, r)
    BY <1>1, <1>2, <1>5 DEF Places
  <2> QED
    BY <1>3, <1>5, <2>1 DEF Count, more
<1> QED
  BY <1>4, <1>5

(* Taking the first task off a queue takes one from the count of its       *)
(* reader.                                                                 *)
LEMMA CountTail ==
  ASSUME NEW S, NEW tasks \in Seq(S), tasks # <<>>, NEW r
  PROVE  Count(tasks, r) = Count(Tail(tasks), r) + (IF Head(tasks) = r THEN 1 ELSE 0)
<1> DEFINE n == Len(tasks)
           rest == Tail(tasks)
<1>1. n \in Nat /\ n > 0 /\ DOMAIN tasks = 1 .. n
  BY LenProperties, EmptySeq
<1>2. /\ DOMAIN rest = 1 .. (n - 1) /\ rest \in Seq(S)
      /\ \A i \in 1 .. (n - 1) : rest[i] = tasks[i + 1]
      /\ Head(tasks) = tasks[1]
  BY <1>1, HeadTailProperties, LenProperties
<1>3. IsFiniteSet(Places(rest, r)) /\ Count(rest, r) \in Nat
  BY <1>2, PlacesFinite
<1>4. IsFiniteSet(Places(tasks, r)) /\ Count(tasks, r) \in Nat
  BY PlacesFinite
<1> HIDE DEF rest
<1>5. Cardinality(Places(tasks, r) \ {1}) = Cardinality(Places(rest, r))
  <2> DEFINE later == Places(tasks, r) \ {1}
             f == [i \in Places(rest, r) |-> i + 1]
  <2>1. \A i \in Places(rest, r) : i \in Int /\ i + 1 \in later
    BY <1>1, <1>2 DEF Places
  <2>2. \A j \in later : j - 1 \in Places(rest, r) /\ (j - 1) + 1 = j
    <3> SUFFICES ASSUME NEW j \in later PROVE j - 1 \in Places(rest, r) /\ (j - 1) + 1 = j
      OBVIOUS
    <3>1. j \in 1 .. n /\ j # 1 /\ tasks[j] = r
      BY <1>1 DEF Places
    <3>2. j - 1 \in 1 .. (n - 1) /\ (j - 1) + 1 = j
      BY <1>1, <3>1
    <3>3. rest[j - 1] = r
      BY <1>2, <3>1, <3>2
    <3> QED
      BY <1>2, <3>2, <3>3 DEF Places
  <2>3. f \in Bijection(Places(rest, r), later)
    <3>1. f \in [Places(rest, r) -> later]
      BY <2>1
    <3>2. \A i, j \in Places(rest, r) : f[i] = f[j] => i = j
      BY <2>1
    <3>3. \A j \in later : \E i \in Places(rest, r) : f[i] = j
      BY <2>2
    <3> HIDE DEF f, later
    <3> QED
      BY <3>1, <3>2, <3>3, Zenon DEF Bijection, Injection, Surjection, IsInjective
  <2> HIDE DEF f, later
  <2>4. ExistsBijection(Places(rest, r), later)
    BY <2>3 DEF ExistsBijection
  <2>5. Cardinality(later) = Cardinality(Places(rest, r))
    BY <1>3, <2>4, FS_Bijection
  <2> QED
    BY <2>5 DEF later
<1>6. Cardinality(Places(tasks, r) \ {1}) =
        IF 1 \in Places(tasks, r) THEN Cardinality(Places(tasks, r)) - 1
                                  ELSE Cardinality(Places(tasks, r))
  BY <1>4, FS_RemoveElement
<1>7. 1 \in Places(tasks, r) <=> Head(tasks) = r
  BY <1>1, <1>2 DEF Places
<1> QED
  BY <1>3, <1>4, <1>5, <1>6, <1>7 DEF Count, rest

(* A queue in which no member of S is more than m times has at most m      *)
(* places for each of them: a place is known by its reader and how often   *)
(* that reader came up to it.                                              *)
LEMMA QueueBound ==
  ASSUME NEW S, IsFiniteSet(S), NEW tasks \in Seq(S), NEW m \in Nat,
         \A r \in S : Count(tasks, r) <= m
  PROVE  Len(tasks) <= Cardinality(S) * m
<1> DEFINE n == Len(tasks)
           upTo(i) == {j \in 1 .. i : tasks[j] = tasks[i]}
           f == [i \in 1 .. n |-> <<tasks[i], Cardinality(upTo(i))>>]
<1>1. n \in Nat /\ DOMAIN tasks = 1 .. n /\ \A i \in 1 .. n : tasks[i] \in S
  BY LenProperties, ElementOfSeq
<1>2. ASSUME NEW i \in 1 .. n
      PROVE  IsFiniteSet(upTo(i)) /\ Cardinality(upTo(i)) \in 1 .. m
  <2>1. upTo(i) \in SUBSET Places(tasks, tasks[i]) /\ IsFiniteSet(Places(tasks, tasks[i]))
    <3>1. upTo(i) \in SUBSET Places(tasks, tasks[i])
      BY <1>1 DEF Places
    <3> QED
      BY <3>1, PlacesFinite
  <2> DEFINE U == upTo(i)
  <2>2. i \in U
    OBVIOUS
  <2> HIDE DEF U
  <2>3. IsFiniteSet(U) /\ Cardinality(U) <= Count(tasks, tasks[i]) /\ Cardinality(U) \in Nat
    <3>1. U \in SUBSET Places(tasks, tasks[i])
      BY <2>1 DEF U
    <3>2. IsFiniteSet(U) /\ Cardinality(U) <= Cardinality(Places(tasks, tasks[i]))
      BY <2>1, <3>1, FS_Subset
    <3> QED
      BY <3>2, FS_CardinalityType DEF Count
  <2>4. Cardinality(U) # 0
    BY <2>2, <2>3, FS_EmptySet
  <2>5. Count(tasks, tasks[i]) <= m /\ Count(tasks, tasks[i]) \in Nat
    BY <1>1, PlacesFinite
  <2>6. IsFiniteSet(U) /\ Cardinality(U) \in 1 .. m
    BY <2>3, <2>4, <2>5
  <2> QED
    BY <2>6 DEF U
<1>3. ASSUME NEW i \in 1 .. n, NEW j \in 1 .. n, i < j, tasks[i] = tasks[j]
      PROVE  Cardinality(upTo(i)) # Cardinality(upTo(j))
  <2>1. upTo(i) \in SUBSET upTo(j) /\ j \in upTo(j) /\ j \notin upTo(i)
    BY <1>1, <1>3
  <2>2. IsFiniteSet(upTo(j))
    BY <1>2
  <2> HIDE DEF upTo
  <2>3. Cardinality(upTo(j)) = Cardinality(upTo(i)) => upTo(j) = upTo(i)
    BY <2>1, <2>2, FS_Subset
  <2> QED
    BY <2>1, <2>3
<1>4. f \in Injection(1 .. n, S \X (1 .. m))
  <2>1. f \in [1 .. n -> S \X (1 .. m)]
    BY <1>1, <1>2
  <2>2. ASSUME NEW i \in 1 .. n, NEW j \in 1 .. n, f[i] = f[j] PROVE i = j
    <3>1. tasks[i] = tasks[j] /\ Cardinality(upTo(i)) = Cardinality(upTo(j))
      <4> HIDE DEF upTo
      <4> QED
        BY <2>2
    <3>2. ~(i < j)
      BY <1>3, <3>1
    <3>3. ~(j < i)
      BY <1>3, <3>1
    <3> QED
      BY <1>1, <3>2, <3>3
  <2> HIDE DEF f
  <2> QED
    BY <2>1, <2>2, Zenon DEF Injection, IsInjective
<1>5. IsFiniteSet(1 .. m) /\ Cardinality(1 .. m) = m
  BY FS_Interval
<1>6. IsFiniteSet(S \X (1 .. m)) /\ Cardinality(S \X (1 .. m)) = Cardinality(S) * m
  BY <1>5, FS_Product
<1>7. Cardinality(1 .. n) <= Cardinality(S \X (1 .. m))
  <2> HIDE DEF f, n
  <2> QED
    BY <1>4, <1>6, FS_Injection
<1>8. Cardinality(1 .. n) = n
  <2> HIDE DEF n
  <2>1. Cardinality(1 .. n) = IF 1 > n THEN 0 ELSE n - 1 + 1
    BY <1>1, FS_Interval
  <2> QED
    BY <1>1, <2>1
<1> QED
  BY <1>6, <1>7, <1>8

-----------------------------------------------------------------------------
(* The inductive invariant *)

(* A pool thread has tasks of its own readers only, and one in hand        *)
(* exactly while it executes.                                              *)
Dispatched ==
  \A t \in PoolThread :
    /\ taskQueue[t] \in Seq(Own(t))
    /\ task[t] \in Own(t) \cup {NoReader}
    /\ worker[t] = "execute" <=> task[t] # NoReader

(* What is counted is in the queue of the reader's thread or in its hand. *)
Held(r) == IF task[ThreadOf(r)] = r THEN 1 ELSE 0
Counted ==
  \A r \in Reader :
    /\ schedulingTime[r] = Count(taskQueue[ThreadOf(r)], r) + Held(r)
    /\ schedulingTime[r] <= MaxScheduling

(* The pool is open until the poll thread has been joined; before Start    *)
(* and after Stop no pool thread runs.                                     *)
Open == {"running", "stopPoll", "joinPoll"}
PoolOpen ==
  /\ owner \in Open => isStarted /\ threads = PoolThread
  /\ owner \in Open \cup {"new"} => \A t \in PoolThread : ~queueQuit[t]
  /\ poller \notin {"off", "exit"} => owner \in Open
  /\ owner = "new" => \A t \in PoolThread : worker[t] = "off"
  /\ owner = "stopped" => \A t \in PoolThread : worker[t] = "exit"

Inv == TypeOK /\ Dispatched /\ Counted /\ PoolOpen

(* A reader has one thread, and Own is the readers of a thread. *)
LEMMA ThreadFacts ==
  /\ \A r \in Reader : ThreadOf(r) \in PoolThread /\ r \in Own(ThreadOf(r))
  /\ \A t \in PoolThread : \A r \in Own(t) : r \in Reader /\ ThreadOf(r) = t
  /\ \A t \in PoolThread : Own(t) \in SUBSET Reader
<1>1. ASSUME NEW r \in Reader PROVE ThreadOf(r) \in PoolThread
  <2>1. HashId[r] \in Nat /\ ThreadNum \in Nat \ {0}
    BY PollAssumption
  <2> QED
    BY <2>1 DEF ThreadOf, PoolThread
<1> QED
  BY <1>1 DEF Own

-----------------------------------------------------------------------------
(* The invariant implies what the run checks *)

(* All tasks of a reader are counted where its thread has them. *)
LEMMA ExactlyCounted == Inv => SchedulingExact
<1> SUFFICES ASSUME Inv, NEW r \in Reader
             PROVE  schedulingTime[r] = Cardinality(Queued(r)) + Cardinality(Executing(r))
  BY DEF SchedulingExact
<1>0. PICK t \in PoolThread : t = ThreadOf(r)
  BY ThreadFacts
<1> DEFINE places == Places(taskQueue[t], r)
<1>1. t \in PoolThread /\ r \in Own(t) /\ NoReader # r
  BY <1>0, ThreadFacts, PollAssumption
<1>2. Queued(r) = {t} \X places
  <2>1. ASSUME NEW u \in PoolThread, u # t PROVE Places(taskQueue[u], r) = {}
    <3>1. taskQueue[u] \in Seq(Own(u)) /\ r \notin Own(u)
      BY <1>0, <2>1 DEF Inv, Dispatched, Own
    <3>2. \A i \in DOMAIN taskQueue[u] : taskQueue[u][i] \in Own(u)
      BY <3>1, ElementOfSeq, LenProperties
    <3> QED
      BY <3>1, <3>2 DEF Places
  <2>2. \A u \in PoolThread : {u} \X Places(taskQueue[u], r) = IF u = t THEN {t} \X places ELSE {}
    BY <2>1
  <2> HIDE DEF places
  <2> QED
    BY <1>1, <2>2 DEF Queued
<1>3. IsFiniteSet(places) /\ Cardinality(places) = Count(taskQueue[t], r) /\ Cardinality(places) \in Nat
  <2>1. taskQueue[t] \in Seq(Own(t))
    BY <1>1 DEF Inv, Dispatched
  <2> QED
    BY <2>1, PlacesFinite DEF Count
<1>4. Cardinality(Queued(r)) = Cardinality(places)
  <2> HIDE DEF places
  <2>1. IsFiniteSet({t}) /\ Cardinality({t}) = 1
    BY FS_Singleton
  <2>2. Cardinality({t} \X places) = 1 * Cardinality(places)
    BY <1>3, <2>1, FS_Product
  <2> QED
    BY <1>2, <1>3, <2>2
<1>5. Cardinality(Executing(r)) = Held(r)
  <2>1. Executing(r) = IF task[t] = r THEN {t} ELSE {}
    <3>1. \A u \in PoolThread : task[u] = r => u = t
      BY <1>0, <1>1 DEF Inv, Dispatched, Own
    <3>2. \A u \in PoolThread : task[u] = r => worker[u] = "execute"
      BY <1>1 DEF Inv, Dispatched
    <3> QED
      BY <1>1, <3>1, <3>2 DEF Executing
  <2> QED
    BY <1>0, <2>1, FS_Singleton, FS_EmptySet DEF Held
<1> QED
  BY <1>0, <1>3, <1>4, <1>5 DEF Inv, Counted

(* As often as each reader may be counted it can be in the queue. *)
LEMMA QueuesFit == Inv => QueueFits
<1> SUFFICES ASSUME Inv, NEW t \in PoolThread
             PROVE  Len(taskQueue[t]) <= Cardinality(Own(t)) * MaxScheduling
  BY DEF QueueFits, Own
<1>1. IsFiniteSet(Own(t)) /\ MaxScheduling \in Nat
  BY ThreadFacts, PollAssumption, FS_Subset
<1>2. taskQueue[t] \in Seq(Own(t))
  BY DEF Inv, Dispatched
<1>3. ASSUME NEW r \in Own(t) PROVE Count(taskQueue[t], r) <= MaxScheduling
  <2>1. r \in Reader /\ ThreadOf(r) = t
    BY ThreadFacts
  <2>2. Count(taskQueue[t], r) + Held(r) <= MaxScheduling
    BY <2>1 DEF Inv, Counted
  <2>3. Count(taskQueue[t], r) \in Nat
    BY <1>2, PlacesFinite
  <2> QED
    BY <1>1, <2>2, <2>3 DEF Held
<1> QED
  BY <1>1, <1>2, <1>3, QueueBound

(* The rest follows at once. *)
LEMMA InvIsSafe == Inv => PollSafe
<1> SUFFICES ASSUME Inv PROVE PollSafe
  OBVIOUS
<1>1. DispatchFindsThreads
  BY DEF Inv, PoolOpen, DispatchFindsThreads
<1>2. StoppedIsQuiet
  BY DEF Inv, TypeOK, PoolOpen, Dispatched, Open, StoppedIsQuiet
<1> QED
  BY <1>1, <1>2, ExactlyCounted, QueuesFit DEF Inv, PollSafe

-----------------------------------------------------------------------------
(* The invariant is inductive *)

(* Initially nothing is counted and nobody runs. *)
LEMMA Initially == Init => Inv
<1> SUFFICES ASSUME Init PROVE Inv
  OBVIOUS
<1>1. TypeOK
  <2>1. <<>> \in Seq(Reader)
    BY EmptySeq
  <2>2. taskQueue \in [PoolThread -> Seq(Reader)]
    BY <2>1 DEF Init
  <2> QED
    BY <2>2 DEF Init, TypeOK
<1>2. Dispatched
  BY PollAssumption DEF Init, Dispatched
<1>3. Counted
  <2> SUFFICES ASSUME NEW r \in Reader
               PROVE  /\ schedulingTime[r] = Count(taskQueue[ThreadOf(r)], r) + Held(r)
                      /\ schedulingTime[r] <= MaxScheduling
    BY DEF Counted
  <2>1. taskQueue[ThreadOf(r)] = <<>> /\ task[ThreadOf(r)] # r /\ schedulingTime[r] = 0
    BY ThreadFacts, PollAssumption DEF Init
  <2>2. Places(<<>>, r) = {}
    BY DEF Places
  <2>3. Count(<<>>, r) = 0
    BY <2>2, FS_EmptySet DEF Count
  <2> QED
    BY <2>1, <2>3, PollAssumption DEF Held
<1>4. PoolOpen
  BY DEF Init, PoolOpen, Open
<1> QED
  BY <1>1, <1>2, <1>3, <1>4 DEF Inv

(* Whoever touches neither queues nor tasks nor counts keeps the counts. *)
LEMMA CountsStay ==
  ASSUME Counted, UNCHANGED <<schedulingTime, taskQueue, task>>
  PROVE  Counted'
<1>1. \A r \in Reader : Count(taskQueue[ThreadOf(r)], r)' = Count(taskQueue[ThreadOf(r)], r)
                        /\ Held(r)' = Held(r) /\ schedulingTime'[r] = schedulingTime[r]
  BY DEF Held, ThreadOf
<1> QED
  BY <1>1 DEF Counted

(* Pool threads that do not begin or end an execution keep what they have. *)
LEMMA TasksStay ==
  ASSUME Dispatched, UNCHANGED <<taskQueue, task>>,
         \A t \in PoolThread : worker'[t] = "execute" <=> worker[t] = "execute"
  PROVE  Dispatched'
BY DEF Dispatched, Own, ThreadOf

(* The owner's calls: they move no task. *)
LEMMA OwnerStep ==
  ASSUME Inv,
         \/ Start \/ Stop \/ Owner
         \/ \E r \in Reader : AddReader(r) \/ RemoveReader(r)
  PROVE  Inv'
<1>1. CASE Start
  <2>1. TypeOK'
    BY <1>1 DEF Inv, TypeOK, Start, PoolOpen, Open
  <2>2. \A t \in PoolThread : worker[t] # "execute"
    BY <1>1 DEF Inv, PoolOpen, Start
  <2> QED
    BY <1>1, <2>1, <2>2, CountsStay, TasksStay DEF Inv, Start, PoolOpen, Open
<1>2. CASE Stop
  <2>1. TypeOK'
    BY <1>2 DEF Inv, TypeOK, Stop, StopFrame, pollVars, workerVars
  <2> QED
    BY <1>2, <2>1, CountsStay, TasksStay
       DEF Inv, Stop, StopFrame, pollVars, workerVars, PoolOpen, Open
<1>3. CASE QuitPoll
  <2>1. TypeOK'
    BY <1>3 DEF Inv, TypeOK, QuitPoll, StopFrame, pollVars, workerVars
  <2> QED
    BY <1>3, <2>1, CountsStay, TasksStay
       DEF Inv, QuitPoll, StopFrame, pollVars, workerVars, PoolOpen, Open
<1>4. CASE JoinPoll
  <2>1. TypeOK'
    BY <1>4 DEF Inv, TypeOK, JoinPoll, StopFrame, pollVars, workerVars
  <2> QED
    BY <1>4, <2>1, CountsStay, TasksStay
       DEF Inv, JoinPoll, StopFrame, pollVars, workerVars, PoolOpen, Open
<1>5. ASSUME NEW t \in PoolThread, StopThread(t) PROVE Inv'
  <2>1. TypeOK'
    BY <1>5 DEF Inv, TypeOK, StopThread, StopFrame, pollVars, workerVars
  <2> QED
    BY <1>5, <2>1, CountsStay, TasksStay
       DEF Inv, StopThread, StopFrame, pollVars, workerVars, PoolOpen, Open
<1>6. CASE ClearThreads
  <2>1. TypeOK'
    BY <1>6 DEF Inv, TypeOK, ClearThreads, StopFrame, pollVars, workerVars
  <2> QED
    BY <1>6, <2>1, CountsStay, TasksStay
       DEF Inv, ClearThreads, StopFrame, pollVars, workerVars, PoolOpen, Open
<1>7. ASSUME NEW r \in Reader, AddReader(r) \/ RemoveReader(r) PROVE Inv'
  <2>1. TypeOK'
    BY <1>7 DEF Inv, TypeOK, AddReader, RemoveReader, pollVars, workerVars
  <2> QED
    BY <1>7, <2>1, CountsStay, TasksStay
       DEF Inv, AddReader, RemoveReader, pollVars, workerVars, PoolOpen, Open
<1> QED
  BY <1>1, <1>2, <1>3, <1>4, <1>5, <1>6, <1>7 DEF Owner

(* A dispatch counts one and queues one: the pool is open. *)
LEMMA DispatchStep == Inv /\ DispatchReader => Inv'
<1> SUFFICES ASSUME Inv, DispatchReader PROVE Inv'
  OBVIOUS
<1>1. PICK x \in Reader : x = reader
  BY DEF DispatchReader, Inv, TypeOK
<1>2. PICK u \in PoolThread : u = ThreadOf(x)
  BY ThreadFacts
<1>3. /\ UNCHANGED <<task, worker, readers, isStart, pollQuit, isStarted, threads,
                     queueQuit, threadQuit, owner, found>>
      /\ poller = "got" /\ poller' = "dispatch" /\ reader' = NoReader
  BY DEF DispatchReader, PollFrame, workerVars
<1>4. isStarted /\ ~queueQuit[u] /\ owner \in Open
  BY <1>3 DEF Inv, PoolOpen
<1>5. CASE schedulingTime[x] >= MaxScheduling
  <2>1. UNCHANGED <<schedulingTime, taskQueue>>
    BY <1>1, <1>5 DEF DispatchReader
  <2>2. TypeOK'
    BY <1>3, <2>1, PollAssumption DEF Inv, TypeOK
  <2> QED
    BY <1>3, <2>1, <2>2, CountsStay, TasksStay DEF Inv, PoolOpen
<1>6. CASE ~(schedulingTime[x] >= MaxScheduling)
  <2>1. /\ schedulingTime' = [schedulingTime EXCEPT ![x] = @ + 1]
        /\ taskQueue' = [taskQueue EXCEPT ![u] = Append(@, x)]
    BY <1>1, <1>2, <1>4, <1>6 DEF DispatchReader
  <2> DEFINE more == Append(taskQueue[u], x)
  <2>2. taskQueue'[u] = more /\ \A t \in PoolThread \ {u} : taskQueue'[t] = taskQueue[t]
    BY <2>1 DEF Inv, TypeOK
  <2>3. taskQueue[u] \in Seq(Own(u)) /\ x \in Own(u)
    BY <1>2, ThreadFacts DEF Inv, Dispatched
  <2>4. more \in Seq(Own(u))
    BY <2>3, AppendProperties
  <2>5. \A r \in Reader : Count(more, r) = Count(taskQueue[u], r) + (IF x = r THEN 1 ELSE 0)
    BY <2>3, CountAppend
  <2>6. more \in Seq(Reader)
    BY <1>1, AppendProperties DEF Inv, TypeOK
  <2> HIDE DEF more
  <2>7. schedulingTime' \in [Reader -> Nat]
    BY <2>1 DEF Inv, TypeOK
  <2>8. taskQueue' \in [PoolThread -> Seq(Reader)]
    BY <2>1, <2>2, <2>6 DEF Inv, TypeOK
  <2>9. TypeOK'
    BY <1>3, <2>7, <2>8, PollAssumption DEF Inv, TypeOK
  <2>10. Dispatched'
    BY <1>3, <2>2, <2>4 DEF Inv, Dispatched, Own, ThreadOf
  <2>11. Counted'
    <3> SUFFICES ASSUME NEW r \in Reader
                 PROVE  /\ schedulingTime'[r] = Count(taskQueue'[ThreadOf(r)], r) + Held(r)'
                        /\ schedulingTime'[r] <= MaxScheduling
      BY DEF Counted, ThreadOf, Count, Places
    <3>1. Held(r)' = Held(r) /\ Held(r) \in {0, 1}
      BY <1>3 DEF Held, ThreadOf
    <3>2. ThreadOf(r) \in PoolThread /\ Count(taskQueue[ThreadOf(r)], r) \in Nat
      BY ThreadFacts, PlacesFinite DEF Inv, TypeOK
    <3>3. schedulingTime[r] \in Nat /\ schedulingTime[x] \in Nat /\ MaxScheduling \in Nat
      BY PollAssumption DEF Inv, TypeOK
    <3>4. CASE r = x
      <4>1. schedulingTime'[r] = schedulingTime[r] + 1
        BY <2>1, <3>4 DEF Inv, TypeOK
      <4>2. Count(taskQueue'[ThreadOf(r)], r) = Count(taskQueue[ThreadOf(r)], r) + 1
        BY <1>2, <2>2, <2>5, <3>4
      <4>3. schedulingTime[r] = Count(taskQueue[ThreadOf(r)], r) + Held(r)
        BY DEF Inv, Counted
      <4> QED
        BY <1>6, <3>1, <3>2, <3>3, <3>4, <4>1, <4>2, <4>3
    <3>5. CASE r # x
      <4>1. schedulingTime'[r] = schedulingTime[r]
        BY <2>1, <3>5 DEF Inv, TypeOK
      <4>2. Count(taskQueue'[ThreadOf(r)], r) = Count(taskQueue[ThreadOf(r)], r)
        BY <2>2, <2>5, <3>2, <3>5
      <4> QED
        BY <3>1, <4>1, <4>2 DEF Inv, Counted
    <3> QED
      BY <3>4, <3>5
  <2>12. PoolOpen'
    BY <1>3 DEF Inv, PoolOpen
  <2> QED
    BY <2>9, <2>10, <2>11, <2>12 DEF Inv
<1> QED
  BY <1>5, <1>6

(* The poll thread. *)
LEMMA PollerStep == Inv /\ Poller => Inv'
<1> SUFFICES ASSUME Inv, Poller PROVE Inv'
  OBVIOUS
<1>1. CASE Poll
  <2>1. TypeOK'
    BY <1>1 DEF Inv, TypeOK, Poll, PollFrame, workerVars
  <2> QED
    BY <1>1, <2>1, CountsStay, TasksStay DEF Inv, Poll, PollFrame, workerVars, PoolOpen
<1>2. CASE GetReader
  <2>1. TypeOK'
    BY <1>2, PollAssumption DEF Inv, TypeOK, GetReader, PollFrame, workerVars
  <2> QED
    BY <1>2, <2>1, CountsStay, TasksStay DEF Inv, GetReader, PollFrame, workerVars, PoolOpen
<1> QED
  BY <1>1, <1>2, DispatchStep DEF Poller

(* Taking a task off the queue of thread t moves it into its hand. *)
LEMMA TakeStep ==
  ASSUME Inv, NEW t \in PoolThread, worker[t] \in {"tryPop", "pop"}, Take(t), WorkerFrame,
         UNCHANGED schedulingTime
  PROVE  Inv'
<1> DEFINE q == taskQueue[t]
           rest == Tail(q)
<1>1. q \in Seq(Own(t)) /\ q # <<>> /\ q \in Seq(Reader)
  BY DEF Inv, Dispatched, TypeOK, Take
<1>2. Head(q) \in Own(t) /\ rest \in Seq(Own(t)) /\ rest \in Seq(Reader)
  BY <1>1, HeadTailProperties
<1>3. PICK x \in Own(t) : x = Head(q)
  BY <1>2
<1>4. x \in Reader /\ x # NoReader /\ ThreadOf(x) = t
  BY ThreadFacts, PollAssumption
<1>5. \A r \in Reader : Count(q, r) = Count(rest, r) + (IF x = r THEN 1 ELSE 0)
  BY <1>1, <1>3, CountTail
<1>6. /\ task' = [task EXCEPT ![t] = x]
      /\ taskQueue' = [taskQueue EXCEPT ![t] = rest]
      /\ worker' = [worker EXCEPT ![t] = "execute"]
  BY <1>3 DEF Take
<1>7. task[t] = NoReader
  BY DEF Inv, Dispatched
<1>8. /\ taskQueue'[t] = rest /\ task'[t] = x /\ worker'[t] = "execute"
      /\ \A u \in PoolThread \ {t} : /\ taskQueue'[u] = taskQueue[u] /\ task'[u] = task[u]
                                     /\ worker'[u] = worker[u]
  BY <1>6 DEF Inv, TypeOK
<1>9. /\ task' \in [PoolThread -> Reader \cup {NoReader}]
      /\ worker' \in [PoolThread -> {"off", "tryPop", "isQuit", "pop", "execute", "exit"}]
  BY <1>4, <1>6 DEF Inv, TypeOK
<1>10. taskQueue' \in [PoolThread -> Seq(Reader)]
  <2> HIDE DEF rest
  <2> QED
    BY <1>2, <1>6 DEF Inv, TypeOK
<1> HIDE DEF rest
<1>11. TypeOK'
  BY <1>9, <1>10 DEF Inv, TypeOK, WorkerFrame, pollVars
<1>12. Dispatched'
  BY <1>2, <1>4, <1>8 DEF Inv, Dispatched, Own, ThreadOf
<1>13. Counted'
  <2> SUFFICES ASSUME NEW r \in Reader
               PROVE  /\ schedulingTime'[r] = Count(taskQueue'[ThreadOf(r)], r) + Held(r)'
                      /\ schedulingTime'[r] <= MaxScheduling
    BY DEF Counted, ThreadOf, Count, Places
  <2>1. /\ schedulingTime[r] = Count(taskQueue[ThreadOf(r)], r) + Held(r)
        /\ schedulingTime[r] <= MaxScheduling
    BY DEF Inv, Counted
  <2>2. Held(r)' = IF task'[ThreadOf(r)] = r THEN 1 ELSE 0
    BY DEF Held, ThreadOf
  <2>3. ThreadOf(r) \in PoolThread /\ Count(rest, r) \in Nat
    BY <1>2, ThreadFacts, PlacesFinite
  <2>4. CASE ThreadOf(r) = t
    <3>1. Held(r) = 0
      BY <1>7, <2>4, PollAssumption DEF Held
    <3>2. Held(r)' = IF x = r THEN 1 ELSE 0
      BY <1>8, <2>2, <2>4
    <3>3. Count(taskQueue[ThreadOf(r)], r) = Count(rest, r) + (IF x = r THEN 1 ELSE 0)
      BY <1>5, <2>4
    <3> QED
      BY <1>8, <2>1, <2>3, <2>4, <3>1, <3>2, <3>3
  <2>5. CASE ThreadOf(r) # t
    BY <1>8, <2>1, <2>2, <2>3, <2>5 DEF Held
  <2> QED
    BY <2>4, <2>5
<1>14. PoolOpen'
  BY <1>8 DEF Inv, PoolOpen, Open, WorkerFrame, pollVars
<1> QED
  BY <1>11, <1>12, <1>13, <1>14 DEF Inv

(* The end of an execution counts down what the thread had in hand. *)
LEMMA ExecuteStep ==
  ASSUME Inv, NEW t \in PoolThread, Execute(t)
  PROVE  Inv'
<1>1. PICK x \in Own(t) : x = task[t]
  BY DEF Execute, Inv, Dispatched
<1>2. x \in Reader /\ x # NoReader /\ ThreadOf(x) = t
  BY ThreadFacts, PollAssumption
<1>3. /\ schedulingTime' = [schedulingTime EXCEPT ![x] = IF @ > 0 THEN @ - 1 ELSE 0]
      /\ task' = [task EXCEPT ![t] = NoReader]
      /\ worker' = [worker EXCEPT ![t] = "tryPop"]
      /\ taskQueue' = taskQueue /\ worker[t] = "execute"
  BY <1>1 DEF Execute
<1>4. /\ task'[t] = NoReader /\ worker'[t] = "tryPop"
      /\ \A u \in PoolThread \ {t} : task'[u] = task[u] /\ worker'[u] = worker[u]
  BY <1>3 DEF Inv, TypeOK
<1>5. \A r \in Reader : schedulingTime[r] \in Nat
  BY DEF Inv, TypeOK
<1>6. schedulingTime' \in [Reader -> Nat]
  <2>1. (IF schedulingTime[x] > 0 THEN schedulingTime[x] - 1 ELSE 0) \in Nat
    BY <1>2, <1>5
  <2> QED
    BY <1>3, <2>1 DEF Inv, TypeOK
<1>7. /\ task' \in [PoolThread -> Reader \cup {NoReader}]
      /\ worker' \in [PoolThread -> {"off", "tryPop", "isQuit", "pop", "execute", "exit"}]
  BY <1>3 DEF Inv, TypeOK
<1>8. TypeOK'
  BY <1>3, <1>6, <1>7 DEF Inv, TypeOK, Execute, WorkerFrame, pollVars
<1>9. Dispatched'
  BY <1>3, <1>4 DEF Inv, Dispatched, Own, ThreadOf
<1>10. Counted'
  <2> SUFFICES ASSUME NEW r \in Reader
               PROVE  /\ schedulingTime'[r] = Count(taskQueue[ThreadOf(r)], r) + Held(r)'
                      /\ schedulingTime'[r] <= MaxScheduling
    BY <1>3 DEF Counted, ThreadOf, Count, Places
  <2>1. /\ schedulingTime[r] = Count(taskQueue[ThreadOf(r)], r) + Held(r)
        /\ schedulingTime[r] <= MaxScheduling
    BY DEF Inv, Counted
  <2>2. Held(r)' = IF task'[ThreadOf(r)] = r THEN 1 ELSE 0
    BY DEF Held, ThreadOf
  <2>3. ThreadOf(r) \in PoolThread /\ Count(taskQueue[ThreadOf(r)], r) \in Nat
    BY ThreadFacts, PlacesFinite DEF Inv, TypeOK
  <2>4. CASE r = x
    <3>1. Held(r) = 1 /\ Held(r)' = 0
      BY <1>1, <1>2, <1>4, <2>2, <2>4 DEF Held
    <3>2. schedulingTime'[r] = schedulingTime[r] - 1
      BY <1>3, <1>5, <2>1, <2>3, <2>4, <3>1 DEF Inv, TypeOK
    <3> QED
      BY <1>5, <2>1, <2>3, <3>1, <3>2, PollAssumption
  <2>5. CASE r # x
    <3>1. Held(r)' = Held(r)
      <4>1. CASE ThreadOf(r) = t
        BY <1>1, <1>4, <2>2, <2>5, <4>1, PollAssumption DEF Held
      <4>2. CASE ThreadOf(r) # t
        BY <1>4, <2>2, <2>3, <4>2 DEF Held
      <4> QED
        BY <4>1, <4>2
    <3>2. schedulingTime'[r] = schedulingTime[r]
      BY <1>3, <2>5 DEF Inv, TypeOK
    <3> QED
      BY <2>1, <3>1, <3>2
  <2> QED
    BY <2>4, <2>5
<1>11. PoolOpen'
  BY <1>3, <1>4 DEF Inv, PoolOpen, Open, Execute, WorkerFrame, pollVars
<1> QED
  BY <1>8, <1>9, <1>10, <1>11 DEF Inv

(* A pool thread that goes on without a task. *)
LEMMA IdleStep ==
  ASSUME Inv, NEW t \in PoolThread, NEW next \in {"isQuit", "pop", "tryPop", "exit"},
         worker[t] \in {"tryPop", "isQuit", "pop"}, worker' = [worker EXCEPT ![t] = next],
         UNCHANGED <<task, taskQueue, schedulingTime>>, WorkerFrame
  PROVE  Inv'
<1>1. TypeOK'
  BY DEF Inv, TypeOK, WorkerFrame, pollVars
<1>2. Dispatched'
  BY TasksStay DEF Inv, TypeOK
<1>3. PoolOpen'
  BY DEF Inv, PoolOpen, Open, TypeOK, WorkerFrame, pollVars
<1> QED
  BY <1>1, <1>2, <1>3, CountsStay DEF Inv

(* A pool thread. *)
LEMMA WorkerStep ==
  ASSUME Inv, NEW t \in PoolThread, Worker(t)
  PROVE  Inv'
<1>1. CASE TryPop(t)
  <2>1. CASE Take(t)
    BY <1>1, <2>1, TakeStep DEF TryPop
  <2>2. CASE ~Take(t)
    BY <1>1, <2>2, IdleStep DEF TryPop
  <2> QED
    BY <2>1, <2>2
<1>2. CASE IsQuit(t)
  BY <1>2, IdleStep DEF IsQuit
<1>3. CASE Pop(t)
  <2>1. CASE Take(t)
    BY <1>3, <2>1, TakeStep DEF Pop
  <2>2. CASE ~Take(t)
    BY <1>3, <2>2, IdleStep DEF Pop
  <2> QED
    BY <2>1, <2>2
<1>4. CASE Execute(t)
  BY <1>4, ExecuteStep
<1> QED
  BY <1>1, <1>2, <1>3, <1>4 DEF Worker

(* Every step. *)
LEMMA EveryStep == Inv /\ [Next]_vars => Inv'
<1> SUFFICES ASSUME Inv, [Next]_vars PROVE Inv'
  OBVIOUS
<1>1. CASE UNCHANGED vars
  <2>1. TypeOK'
    BY <1>1 DEF Inv, TypeOK, vars, pollVars, workerVars
  <2> QED
    BY <1>1, <2>1, CountsStay, TasksStay DEF Inv, PoolOpen, vars, pollVars, workerVars
<1> QED
  BY <1>1, OwnerStep, PollerStep, WorkerStep DEF Next

-----------------------------------------------------------------------------
(* The theorem *)

(* ChannelPoll is safe, for any readers, pool threads and limit: however   *)
(* readers come and go and whenever the poll is stopped, every dispatch is *)
(* counted as long as it is queued or executed, no task queue can fill, no *)
(* dispatch meets a pool that is being stopped, and nothing runs once Stop *)
(* has returned (prof_channel_tool.cpp, thread_pool_tool.cpp).             *)
THEOREM PollIsSafe == Spec => []PollSafe
<1>1. Inv /\ [Next]_vars => Inv'
  BY EveryStep
<1> QED
  BY <1>1, Initially, InvIsSafe, PTL DEF Spec

(* The part of it that the sizing of the task queues rests on: a queue     *)
(* never holds more tasks than MAX_SCHEDULING_TIME for each reader of its  *)
(* pool thread, so that Push never blocks the poll thread.                 *)
THEOREM PollQueuesFit == Spec => []QueueFits
<1>1. PollSafe => QueueFits
  BY DEF PollSafe
<1> QED
  BY <1>1, PollIsSafe, PTL

=============================================================================
