----------------------------- MODULE AcpProofs -----------------------------
(***************************************************************************)
(* Proofs about what the runtime interposition does to a launch.           *)
(*                                                                         *)
(* A task (AcpTask), for any devices, jobs and number of tasks: it cleans  *)
(* up after itself.  The invariant adds the one fact this needs: between   *)
(* InitAcpUploader and StartProf the device has an uploader, unless        *)
(* another thread has chosen a new one.                                    *)
(*                                                                         *)
(* The replay of kernels (KernelReplay), for any buffers, groups of        *)
(* metrics, rounds and launches, and whichever calls of the runtime fail:  *)
(* no backup is lost or freed twice, all runs of a launch see the same     *)
(* contents, and the application gets what one run would have computed.    *)
(***************************************************************************)
EXTENDS AcpTask, KernelReplay, Integers, SequenceTheorems, FiniteSetTheorems, TLAPS

-----------------------------------------------------------------------------
(* A task                                                                  *)

UploaderReady ==
  pc \in {"notifyStart", "jobStart"} /\ ~moved => device \in uploader

Inv ==
  /\ TypeOK /\ IndexCounts /\ NothingLeftBehind /\ ReadersServed
  /\ FlushedBeforeDelete /\ UploaderReady

-----------------------------------------------------------------------------
(* The invariant holds before the first task.                              *)
LEMMA InitInv == Init => Inv
<1> SUFFICES ASSUME Init PROVE Inv
  OBVIOUS
<1> USE DEF Init
<1>1. TypeOK
  <2>1. poller \in BOOLEAN /\ ok \in BOOLEAN /\ moved \in BOOLEAN
    BY Zenon
  <2> HIDE DEF Init
  <2>2. /\ device \in Device /\ adapter = NoJob /\ uploader = {} /\ pending = {}
        /\ index = 0 /\ failed = 0 /\ tasks = 0 /\ pc = "idle"
        /\ readers = {} /\ registered = {} /\ channel = {}
    BY DEF Init
  <2> QED
    BY <2>1, <2>2, TaskAssumption DEF TypeOK
<1>2. ~HoldsPoller
  BY DEF HoldsPoller, Started
<1>3. index = failed + (IF HoldsPoller THEN 1 ELSE 0)
  BY <1>2
<1>4. poller <=> index > 0
  <2>1. ~(0 > 0)
    OBVIOUS
  <2> QED
    BY <2>1, Zenon
<1>5. NothingLeftBehind /\ ReadersServed /\ FlushedBeforeDelete /\ UploaderReady
  BY DEF NothingLeftBehind, ReadersServed, FlushedBeforeDelete, UploaderReady
<1> QED
  BY <1>1, <1>3, <1>4, <1>5 DEF Inv, IndexCounts

(* A step that leaves the jobs, the job's place and the uploaders alone.   *)
LEMMA Environment ==
  ASSUME Inv, (\E d \in Device : RtSetDevice(d)) \/ Read \/ Send
  PROVE  Inv'
<1> USE DEF Inv, jobVars
<1>1. CASE \E d \in Device : RtSetDevice(d)
  <2> PICK d \in Device : RtSetDevice(d)
    BY <1>1
  <2> USE DEF RtSetDevice
  <2>1. TypeOK'
    BY DEF TypeOK
  <2>2. IndexCounts' /\ NothingLeftBehind' /\ ReadersServed'
    BY DEF IndexCounts, NothingLeftBehind, ReadersServed, HoldsPoller, Started, TypeOK
  <2>3. FlushedBeforeDelete' /\ UploaderReady'
    BY DEF FlushedBeforeDelete, UploaderReady, TypeOK
  <2> QED
    BY <2>1, <2>2, <2>3
<1>2. CASE Read
  <2> USE <1>2 DEF Read
  <2>1. TypeOK'
    BY DEF TypeOK
  <2>2. IndexCounts' /\ NothingLeftBehind' /\ ReadersServed'
    BY DEF IndexCounts, NothingLeftBehind, ReadersServed, HoldsPoller, Started
  <2>3. readers # {}
    OBVIOUS
  <2>4. pc # "delete"
    BY <2>3 DEF NothingLeftBehind, HoldsPoller
  <2>5. FlushedBeforeDelete' /\ UploaderReady'
    BY <2>4 DEF FlushedBeforeDelete, UploaderReady
  <2> QED
    BY <2>1, <2>2, <2>5
<1>3. CASE Send
  <2> USE <1>3 DEF Send
  <2>1. TypeOK'
    BY DEF TypeOK
  <2>2. IndexCounts' /\ NothingLeftBehind' /\ ReadersServed'
    BY DEF IndexCounts, NothingLeftBehind, ReadersServed, HoldsPoller, Started
  <2>3. FlushedBeforeDelete' /\ UploaderReady'
    BY DEF FlushedBeforeDelete, UploaderReady
  <2> QED
    BY <2>1, <2>2, <2>3
<1> QED
  BY <1>1, <1>2, <1>3

-----------------------------------------------------------------------------
(* StartProf preserves the invariant.                                      *)
LEMMA StartProfInv ==
  ASSUME Inv, StartProf
  PROVE  Inv'
<1> USE DEF Inv
<1>1. PICK inited \in SUBSET {j \in Job : <<device, j>> \notin registered} :
        \E reading \in SUBSET inited : \E running \in SUBSET reading :
          /\ registered' = registered \cup ({device} \X inited)
          /\ readers' = readers \cup ({device} \X reading)
          /\ channel' = channel \cup ({device} \X running)
  BY DEF StartProf
<1>2. PICK reading \in SUBSET inited : \E running \in SUBSET reading :
        /\ registered' = registered \cup ({device} \X inited)
        /\ readers' = readers \cup ({device} \X reading)
        /\ channel' = channel \cup ({device} \X running)
  BY <1>1
<1>3. PICK running \in SUBSET reading :
        /\ registered' = registered \cup ({device} \X inited)
        /\ readers' = readers \cup ({device} \X reading)
        /\ channel' = channel \cup ({device} \X running)
  BY <1>2
<1>4. ~HoldsPoller
  BY DEF StartProf, HoldsPoller, Started
<1>5. registered = {} /\ readers = {} /\ channel = {}
  BY <1>4 DEF NothingLeftBehind
<1>6. device \in Device /\ device' = device /\ moved' = moved /\ uploader' = uploader
  BY DEF TypeOK, StartProf
<1>7. /\ adapter' \in Adapter /\ adapter' # NoJob
      /\ adapter'.device = device /\ adapter'.started
  <2>1. adapter' = [device |-> device, started |-> TRUE]
    BY DEF StartProf
  <2>2. adapter' \in Adapter
    BY <1>6, <2>1 DEF Adapter
  <2>3. adapter'.device = device /\ adapter'.started
    BY <2>1
  <2> QED
    BY <2>2, <2>3, NoJobAssumption
<1>8. HoldsPoller'
  BY <1>7 DEF HoldsPoller, Started, StartProf
<1>9. index' = index + 1 /\ poller' /\ failed' = failed
  BY DEF StartProf
<1>10. TypeOK'
  <2>1. {device} \X inited \subseteq Device \X Job
    BY <1>6
  <2>2. {device} \X reading \subseteq Device \X Job
    BY <1>6, <1>2
  <2>3. {device} \X running \subseteq Device \X Job
    BY <1>6, <1>2, <1>3
  <2>4. registered' \subseteq Device \X Job /\ readers' \subseteq Device \X Job
        /\ channel' \subseteq Device \X Job
    BY <1>3, <1>5, <2>1, <2>2, <2>3
  <2>5. pc' = "kernel" /\ ok' = TRUE /\ UNCHANGED <<pending, tasks>>
    BY DEF StartProf
  <2> QED
    BY <1>6, <1>7, <1>9, <2>4, <2>5 DEF TypeOK
<1>11. IndexCounts'
  BY <1>4, <1>8, <1>9 DEF IndexCounts, TypeOK
<1>12. NothingLeftBehind'
  <2>1. {device} \X inited \subseteq {device} \X Job
        /\ {device} \X reading \subseteq {device} \X Job
        /\ {device} \X running \subseteq {device} \X Job
    BY <1>2, <1>3
  <2> QED
    BY <1>3, <1>5, <1>7, <1>8, <2>1 DEF NothingLeftBehind
<1>13. ReadersServed'
  <2>1. {device} \X running \subseteq {device} \X reading
        /\ {device} \X reading \subseteq {device} \X inited
    BY <1>2, <1>3
  <2>2. ~moved => device \in uploader
    BY DEF UploaderReady, StartProf
  <2>3. \A r \in {device} \X reading : r[1] = device
    OBVIOUS
  <2> QED
    BY <1>3, <1>5, <1>6, <1>9, <2>1, <2>2, <2>3 DEF ReadersServed
<1>14. FlushedBeforeDelete' /\ UploaderReady'
  BY DEF FlushedBeforeDelete, UploaderReady, StartProf
<1> QED
  BY <1>10, <1>11, <1>12, <1>13, <1>14

(* TaskStart preserves the invariant.                                      *)
LEMMA TaskStartInv ==
  ASSUME Inv, TaskStart
  PROVE  Inv'
<1> USE DEF Inv, jobVars
<1>1. CASE InitAcpUploader
  <2> USE <1>1 DEF InitAcpUploader
  <2>1. ok' \in BOOLEAN
    BY Zenon
  <2>2. TypeOK'
    BY <2>1, TaskAssumption DEF TypeOK
  <2>3. IndexCounts' /\ NothingLeftBehind' /\ ReadersServed'
    BY DEF IndexCounts, NothingLeftBehind, ReadersServed, HoldsPoller, Started
  <2>4. FlushedBeforeDelete' /\ UploaderReady'
    BY DEF FlushedBeforeDelete, UploaderReady
  <2> QED
    BY <2>2, <2>3, <2>4
<1>2. CASE NotifyStart
  BY <1>2
     DEF NotifyStart, TypeOK, IndexCounts, NothingLeftBehind, ReadersServed,
         FlushedBeforeDelete, UploaderReady, HoldsPoller, Started
<1>3. CASE JobStartAgain
  BY <1>3
     DEF JobStartAgain, TypeOK, IndexCounts, NothingLeftBehind, ReadersServed,
         FlushedBeforeDelete, UploaderReady, HoldsPoller, Started
<1>4. CASE StartProfRefused
  <2>1. adapter' \in Adapter /\ ~adapter'.started /\ ~Started
    BY <1>4 DEF StartProfRefused, Adapter, TypeOK, Started
  <2> QED
    BY <1>4, <2>1
       DEF StartProfRefused, TypeOK, IndexCounts, NothingLeftBehind, ReadersServed,
           FlushedBeforeDelete, UploaderReady, HoldsPoller, Started
<1>5. CASE StartProfFails
  <2>1. adapter' \in Adapter /\ ~adapter'.started /\ ~Started
    BY <1>5 DEF StartProfFails, Adapter, TypeOK, Started
  <2> QED
    BY <1>5, <2>1
       DEF StartProfFails, TypeOK, IndexCounts, NothingLeftBehind, ReadersServed,
           FlushedBeforeDelete, UploaderReady, HoldsPoller, Started
<1>6. CASE StartProf
  BY <1>6, StartProfInv
<1> QED
  BY <1>1, <1>2, <1>3, <1>4, <1>5, <1>6 DEF TaskStart

-----------------------------------------------------------------------------
(* StopProf preserves it.                                                  *)
LEMMA StopProfInv ==
  ASSUME Inv, StopProf
  PROVE  Inv'
<1> USE DEF Inv
<1> DEFINE mine == {adapter.device} \X Job
<1>1. HoldsPoller /\ ~HoldsPoller'
  BY DEF StopProf, StopProfWith, HoldsPoller, Started
<1>2. registered' = {} /\ readers' = {} /\ channel' = {}
  BY <1>1 DEF StopProf, StopProfWith, NothingLeftBehind
<1>3. index' = index - 1 /\ failed' = failed
  BY DEF StopProf, StopProfWith
<1>4. poller' = (index - 1 # 0)
  BY DEF StopProf, StopProfWith
<1>5. poller' \in BOOLEAN /\ (poller' <=> index' # 0)
  BY <1>3, <1>4, Zenon
<1>6. index \in Nat /\ index > 0
  BY <1>1 DEF IndexCounts, TypeOK
<1>7. pending' \subseteq uploader /\ uploader' = uploader /\ pc' = "flush"
  <2>1. pending' \in {pending, pending \cup (uploader \cap {r[1] : r \in readers \cap mine})}
    BY DEF StopProf, StopProfWith
  <2> HIDE DEF mine
  <2> QED
    BY <2>1 DEF StopProf, StopProfWith, TypeOK
<1>8. UNCHANGED <<device, adapter, ok, tasks, moved>>
  BY DEF StopProf, StopProfWith
<1>9. TypeOK'
  BY <1>2, <1>3, <1>5, <1>6, <1>7, <1>8 DEF TypeOK
<1>10. IndexCounts'
  BY <1>1, <1>3, <1>5, <1>6 DEF IndexCounts, TypeOK
<1>11. NothingLeftBehind' /\ ReadersServed'
  BY <1>2 DEF NothingLeftBehind, ReadersServed
<1>12. FlushedBeforeDelete' /\ UploaderReady'
  BY <1>7 DEF FlushedBeforeDelete, UploaderReady
<1> QED
  BY <1>9, <1>10, <1>11, <1>12

(* TaskStop preserves it.                                                  *)
LEMMA TaskStopInv ==
  ASSUME Inv, TaskStop
  PROVE  Inv'
<1> USE DEF Inv, jobVars
<1>1. CASE NotifyStop
  BY <1>1
     DEF NotifyStop, TypeOK, IndexCounts, NothingLeftBehind, ReadersServed,
         FlushedBeforeDelete, UploaderReady, HoldsPoller, Started
<1>2. CASE StopProfRefused
  BY <1>2
     DEF StopProfRefused, TypeOK, IndexCounts, NothingLeftBehind, ReadersServed,
         FlushedBeforeDelete, UploaderReady, HoldsPoller, Started
<1>3. CASE StopProf
  BY <1>3, StopProfInv
<1>4. CASE Flush
  BY <1>4
     DEF Flush, TypeOK, IndexCounts, NothingLeftBehind, ReadersServed,
         FlushedBeforeDelete, UploaderReady, HoldsPoller, Started
<1>5. CASE DelAllUploader
  <2>1. ~HoldsPoller /\ ~HoldsPoller'
    BY <1>5 DEF DelAllUploader, HoldsPoller, Started
  <2>2. registered = {} /\ readers = {} /\ channel = {}
    BY <2>1 DEF NothingLeftBehind
  <2> QED
    BY <1>5, <2>1, <2>2
       DEF DelAllUploader, TypeOK, IndexCounts, NothingLeftBehind, ReadersServed,
           FlushedBeforeDelete, UploaderReady
<1> QED
  BY <1>1, <1>2, <1>3, <1>4, <1>5 DEF TaskStop

(* So does a step that changes nothing.                                    *)
LEMMA StutterInv ==
  ASSUME Inv, UNCHANGED vars
  PROVE  Inv'
BY DEF Inv, vars, jobVars, TypeOK, IndexCounts, NothingLeftBehind, ReadersServed,
       FlushedBeforeDelete, UploaderReady, HoldsPoller, Started

-----------------------------------------------------------------------------
(* Every step keeps the invariant. *)
THEOREM TaskInvariant == Spec => []Inv
<1>1. Inv /\ [Next]_vars => Inv'
  BY Environment, TaskStartInv, TaskStopInv, StutterInv DEF Next
<1> QED
  BY InitInv, <1>1, PTL DEF Spec

(* Every variable of a task has its type. *)
THEOREM TaskTypes == Spec => []TypeOK
BY TaskInvariant, PTL DEF Inv

(* The reference count of the poller: see IndexCounts. *)
THEOREM TaskIndexCounts == Spec => []IndexCounts
BY TaskInvariant, PTL DEF Inv

(* No failure and no rtSetDevice leaves a job collecting that nobody will  *)
(* stop: see NothingLeftBehind.                                            *)
THEOREM TaskLeavesNothing == Spec => []NothingLeftBehind
BY TaskInvariant, PTL DEF Inv

(* Every reader is polled and can upload: see ReadersServed. *)
THEOREM TaskReadersServed == Spec => []ReadersServed
BY TaskInvariant, PTL DEF Inv

(* TaskStop drops no uploader of its own device with chunks in it: see     *)
(* FlushedBeforeDelete.                                                    *)
THEOREM TaskFlushes == Spec => []FlushedBeforeDelete
BY TaskInvariant, PTL DEF Inv

(* For any devices and jobs a task cleans up after itself: see TaskSafe.   *)
THEOREM TaskIsSafe == Spec => []TaskSafe
BY TaskInvariant, PTL DEF Inv, TaskSafe

-----------------------------------------------------------------------------
(* The replay of a kernel: the inductive invariant                         *)

(* the launch will run the kernel for this group of metrics *)
Replaying ==
  /\ stage \in {"replayReset", "kernel"} => group < ReplayTime
  /\ stage \in {"warmUp1", "reset", "warmUp2"} => group = 0

(* as long as all copies succeed, memoryVec_ is what the launch found *)
InLaunch == stage \in {"warmUp1", "reset", "warmUp2", "replayReset", "kernel", "clear"}
Faithful == intact /\ ~stale
Saved ==
  InLaunch /\ Faithful =>
    /\ Len(memoryVec) = Len(mallocVec)
    /\ \A i \in Addressed : memoryVec[i] = Original(mallocVec[i], launch)

(* when it will run no more, it has run once since the last reset *)
RanOnce ==
  stage \in {"clear", "launched"} /\ Faithful =>
    \A b \in Live : content[b] = <<b, launch, 1>>

(* the launches that came to their end cleared memoryVec_ *)
Cleared == stage \in {"launched", "exit"} => memoryVec = <<>>

Owned == allocated = BackupsHeld /\ Cleared
Alike == Saved /\ ReplaysAlike /\ RanOnce
RInv == ReplayTypeOK /\ Replaying /\ Owned /\ Alike

-----------------------------------------------------------------------------
(* Contents *)

USE DEF Contents

(* A backup is no null pointer, and a copy that failed no content. *)
LEMMA BackupsAreReal ==
  ASSUME NEW b \in Buffer, NEW l \in Nat
  PROVE  Original(b, l) \in Contents /\ Original(b, l) # Null /\ Original(b, l) # Garbage
<1>1. Original(b, l) \in Buffer \X Nat \X Nat
  BY DEF Original
<1> QED
  BY <1>1, ReplayAssumption

(* The entries with an address are those that hold a buffer. *)
LEMMA AddressedHoldBuffers ==
  ASSUME ReplayTypeOK
  PROVE  /\ Addressed \subseteq 1 .. Len(mallocVec)
         /\ \A i \in Addressed : mallocVec[i] \in Buffer
         /\ Live \subseteq Buffer
         /\ Len(mallocVec) \in Nat /\ Len(memoryVec) \in Nat
         /\ DOMAIN mallocVec = 1 .. Len(mallocVec)
BY ReplayAssumption, LenProperties, ElementOfSeq DEF ReplayTypeOK, Addressed, Live

(* A run of the kernel adds one to the runs its buffers have seen. *)
LEMMA RunsAreCounted ==
  /\ \A c \in Buffer \X Nat \X Nat : [c EXCEPT ![3] = @ + 1] \in Buffer \X Nat \X Nat
  /\ \A b \in Buffer, l \in Nat : [Original(b, l) EXCEPT ![3] = @ + 1] = <<b, l, 1>>
BY DEF Original

LEMMA KernelRuns ==
  ASSUME ReplayTypeOK, RunKernel
  PROVE  /\ content' \in [Buffer -> Contents]
         /\ OnOriginals => \A b \in Live : content'[b] = <<b, launch, 1>>
<1>1. launch \in Nat
  BY ReplayAssumption DEF ReplayTypeOK
<1>2. ASSUME NEW b \in Buffer
      PROVE  content'[b] \in Contents /\ (content[b] = Original(b, launch) /\ b \in Live =>
                                           content'[b] = <<b, launch, 1>>)
  <2>1. content[b] \in Contents
    BY DEF ReplayTypeOK
  <2>2. CASE b \in Live /\ content[b] # Garbage
    <3>1. content'[b] = [content[b] EXCEPT ![3] = @ + 1] /\ content[b] \in Buffer \X Nat \X Nat
      BY <2>1, <2>2 DEF RunKernel
    <3> QED
      BY <1>1, <3>1, RunsAreCounted
  <2>3. CASE ~(b \in Live /\ content[b] # Garbage)
    <3>1. content'[b] = content[b]
      BY <2>3 DEF RunKernel
    <3> QED
      BY <1>1, <2>1, <2>3, <3>1, BackupsAreReal
  <2> QED
    BY <2>2, <2>3
<1>3. content' = [b \in Buffer |-> content'[b]]
  BY DEF RunKernel
<1> QED
  BY <1>2, <1>3, AddressedHoldBuffers DEF OnOriginals

-----------------------------------------------------------------------------
(* Counting backups *)

HeldIn(s) == {i \in 1 .. Len(s) : s[i] # Null}

(* A part of the indices of a sequence is finite. *)
LEMMA IndicesAreFinite ==
  ASSUME NEW n \in Nat, NEW S \in SUBSET (1 .. n)
  PROVE  IsFiniteSet(S) /\ Cardinality(S) \in Nat
<1>1. 1 \in Int /\ n \in Int
  OBVIOUS
<1>2. IsFiniteSet(1 .. n)
  BY <1>1, FS_Interval
<1>3. IsFiniteSet(S)
  BY <1>2, FS_Subset
<1> QED
  BY <1>3, FS_CardinalityType

(* Moving indices by k does not change how many they are. *)
LEMMA ShiftKeepsCount ==
  ASSUME NEW n \in Nat, NEW k \in Nat, NEW S \in SUBSET (1 .. n)
  PROVE  /\ IsFiniteSet({k + i : i \in S})
         /\ Cardinality({k + i : i \in S}) = Cardinality(S)
<1> DEFINE T == {k + i : i \in S}
<1>1. IsFiniteSet(S) /\ Cardinality(S) \in Nat
  BY IndicesAreFinite
<1>2. [i \in S |-> k + i] \in Surjection(S, T)
  BY DEF Surjection
<1>3. [j \in T |-> j - k] \in Surjection(T, S)
  <2>1. \A i \in S : (k + i) - k = i /\ k + i \in T
    OBVIOUS
  <2>2. [j \in T |-> j - k] \in [T -> S]
    BY <2>1
  <2>3. \A i \in S : \E j \in T : [x \in T |-> x - k][j] = i
    <3> TAKE i \in S
    <3> WITNESS k + i \in T
    <3> QED
      BY <2>1
  <2> QED
    BY <2>2, <2>3 DEF Surjection
<1>4. IsFiniteSet(T) /\ Cardinality(T) <= Cardinality(S)
  BY <1>1, <1>2, FS_Surjection
<1>5. Cardinality(S) <= Cardinality(T)
  BY <1>3, <1>4, FS_Surjection
<1>6. Cardinality(T) \in Nat
  BY <1>4, FS_CardinalityType
<1> QED
  BY <1>1, <1>4, <1>5, <1>6

(* Two sequences one after the other hold the backups of both. *)
LEMMA HeldInConcat ==
  ASSUME NEW X, NEW s \in Seq(X), NEW t \in Seq(X)
  PROVE  Cardinality(HeldIn(s \o t)) = Cardinality(HeldIn(s)) + Cardinality(HeldIn(t))
<1> DEFINE k == Len(s)
           n == Len(t)
           T == {k + i : i \in HeldIn(t)}
<1>1. k \in Nat /\ n \in Nat
  BY LenProperties
<1>2. HeldIn(s) \in SUBSET (1 .. k) /\ HeldIn(t) \in SUBSET (1 .. n)
  BY DEF HeldIn
<1>3. HeldIn(s \o t) = HeldIn(s) \cup T
  <2>1. Len(s \o t) = k + n
    BY ConcatProperties
  <2>2. \A i \in 1 .. k : (s \o t)[i] = s[i]
    BY <1>1, ConcatProperties
  <2>3. \A i \in 1 .. n : (s \o t)[k + i] = t[i]
    <3> TAKE i \in 1 .. n
    <3>1. k + i \in 1 .. (k + n) /\ ~(k + i <= k) /\ (k + i) - k = i
      BY <1>1
    <3> QED
      BY <3>1, ConcatProperties
  <2> DEFINE st == s \o t
  <2> HIDE DEF st
  <2>4. /\ Len(st) = k + n /\ (\A i \in 1 .. k : st[i] = s[i])
        /\ (\A i \in 1 .. n : st[k + i] = t[i])
    BY <2>1, <2>2, <2>3 DEF st
  <2>5. ASSUME NEW i \in 1 .. (k + n) PROVE i \in 1 .. k \/ \E j \in 1 .. n : i = k + j
    <3>1. CASE i > k
      <4>1. i - k \in 1 .. n /\ i = k + (i - k)
        BY <1>1, <3>1
      <4> QED
        BY <4>1
    <3>2. CASE ~(i > k)
      BY <1>1, <3>2
    <3> QED
      BY <3>1, <3>2
  <2>6. ASSUME NEW i \in HeldIn(st) PROVE i \in HeldIn(s) \cup T
    <3>1. i \in 1 .. (k + n) /\ st[i] # Null
      BY <2>4 DEF HeldIn
    <3>2. CASE i \in 1 .. k
      BY <2>4, <3>1, <3>2 DEF HeldIn
    <3>3. ASSUME NEW j \in 1 .. n, i = k + j PROVE i \in T
      BY <2>4, <3>1, <3>3 DEF HeldIn
    <3> QED
      BY <2>5, <3>1, <3>2, <3>3
  <2>7. ASSUME NEW i \in HeldIn(s) \cup T PROVE i \in HeldIn(st)
    BY <1>1, <2>4 DEF HeldIn
  <2> QED
    BY <2>6, <2>7 DEF st
<1>4. HeldIn(s) \cap T = {}
  BY <1>1, <1>2
<1>5. IsFiniteSet(HeldIn(s)) /\ Cardinality(HeldIn(s)) \in Nat
  BY <1>1, <1>2, IndicesAreFinite
<1>6. IsFiniteSet(T) /\ Cardinality(T) = Cardinality(HeldIn(t)) /\ Cardinality(T) \in Nat
  BY <1>1, <1>2, ShiftKeepsCount, FS_CardinalityType
<1> HIDE DEF T
<1>7. Cardinality(HeldIn(s) \cup T) = Cardinality(HeldIn(s)) + Cardinality(T) - Cardinality({})
  BY <1>4, <1>5, <1>6, FS_Union
<1>8. Cardinality({}) = 0
  BY FS_EmptySet
<1> QED
  BY <1>3, <1>5, <1>6, <1>7, <1>8

-----------------------------------------------------------------------------
(* What the application does *)

(* Outside a launch nothing is said of the contents. *)
Elsewhere == {"idle", "launched", "clearFailed", "exit"}

LEMMA RInitially == ReplayInit => RInv
<1> SUFFICES ASSUME ReplayInit PROVE RInv
  OBVIOUS
<1>1. ReplayTypeOK
  <2>1. content \in [Buffer -> Contents]
    BY BackupsAreReal DEF ReplayInit
  <2>2. /\ mallocVec \in Seq(Buffer \cup {Null}) /\ memoryVec \in Seq(Contents \cup {Null})
    BY EmptySeq DEF ReplayInit
  <2>3. 0 \in 0 .. ReplayTime /\ 0 \in 0 .. KernelTaskTime - 1 /\ 0 \in 0 .. MaxLaunch
    BY ReplayAssumption
  <2> QED
    BY <2>1, <2>2, <2>3 DEF ReplayInit, ReplayTypeOK
<1>2. Replaying /\ Alike
  BY DEF ReplayInit, Replaying, Alike, Saved, ReplaysAlike, RanOnce, Addressed, InLaunch,
         AboutToRun
<1>3. Owned
  <2>1. {i \in DOMAIN memoryVec : memoryVec[i] # Null} = {}
    BY DEF ReplayInit
  <2> QED
    BY <2>1, FS_EmptySet DEF ReplayInit, Owned, Cleared, BackupsHeld
<1> QED
  BY <1>1, <1>2, <1>3 DEF RInv

(* The backups stay where they are as long as memoryVec_ does. *)
LEMMA BackupsStay ==
  ASSUME Owned, UNCHANGED <<memoryVec, allocated>>, stage' \in {"launched", "exit"} => memoryVec = <<>>
  PROVE  Owned'
BY DEF Owned, Cleared, BackupsHeld

(* When memoryVec_ is cleared, every backup it refers to is freed. *)
LEMMA NothingHeld ==
  ASSUME ReplayTypeOK, Owned, allocated' = allocated - BackupsHeld, memoryVec' = <<>>
  PROVE  Owned' /\ allocated' \in Nat /\ memoryVec' \in Seq(Contents \cup {Null})
<1>1. {i \in DOMAIN memoryVec' : memoryVec'[i] # Null} = {}
  OBVIOUS
<1>2. BackupsHeld' = 0
  BY <1>1, FS_EmptySet DEF BackupsHeld
<1>3. allocated' = 0
  BY DEF Owned, ReplayTypeOK
<1> QED
  BY <1>2, <1>3, EmptySeq DEF Owned, Cleared

(* A buffer that is handed out has no entry yet. *)
LEMMA RtMallocStep == ASSUME RInv, NEW b \in Buffer, RtMalloc(b) PROVE RInv'
<1>0. ReplayTypeOK /\ launch \in Nat /\ b \in Buffer \cup {Null}
  BY ReplayAssumption DEF RInv, ReplayTypeOK
<1>1. /\ stage = "idle" /\ mallocVec' = Append(mallocVec, b) /\ b \notin Live
      /\ content' = [content EXCEPT ![b] = Original(b, launch)]
      /\ UNCHANGED <<memoryVec, allocated, stage, group, time, launch, intact, stale>>
  BY DEF RtMalloc
<1>2. /\ mallocVec' \in Seq(Buffer \cup {Null}) /\ Len(mallocVec') = Len(mallocVec) + 1
      /\ mallocVec'[Len(mallocVec) + 1] = b
      /\ \A i \in 1 .. Len(mallocVec) : mallocVec'[i] = mallocVec[i]
  BY <1>0, <1>1, AppendProperties DEF ReplayTypeOK
<1>3. content' \in [Buffer -> Contents]
  BY <1>0, <1>1, BackupsAreReal DEF ReplayTypeOK
<1>4. ReplayTypeOK'
  BY <1>0, <1>1, <1>2, <1>3 DEF ReplayTypeOK
<1>6. Owned'
  BY <1>1, BackupsStay DEF RInv
<1>7. Replaying' /\ Alike'
  BY <1>1 DEF Replaying, Alike, Saved, ReplaysAlike, RanOnce, InLaunch, AboutToRun
<1> QED
  BY <1>4, <1>6, <1>7 DEF RInv

(* rtFree takes the address out of its entry. *)
LEMMA RtFreeStep == ASSUME RInv, NEW b \in Buffer, RtFree(b) PROVE RInv'
<1>0. ReplayTypeOK /\ DOMAIN mallocVec = 1 .. Len(mallocVec) /\ Len(mallocVec) \in Nat
  BY AddressedHoldBuffers DEF RInv
<1>1. /\ stage = "idle"
      /\ mallocVec' = [i \in DOMAIN mallocVec |-> IF mallocVec[i] = b THEN Null ELSE mallocVec[i]]
      /\ UNCHANGED <<memoryVec, allocated, content, stage, group, time, launch, intact, stale>>
  BY DEF RtFree
<1>2. mallocVec' \in Seq(Buffer \cup {Null})
  <2>1. \A i \in 1 .. Len(mallocVec) : mallocVec'[i] \in Buffer \cup {Null}
    BY <1>0, <1>1, ElementOfSeq DEF ReplayTypeOK
  <2>2. mallocVec' \in [1 .. Len(mallocVec) -> Buffer \cup {Null}]
    BY <1>0, <1>1, <2>1
  <2> QED
    BY <1>0, <2>2, SeqDef
<1>3. ReplayTypeOK'
  BY <1>0, <1>1, <1>2 DEF ReplayTypeOK
<1>5. Owned'
  BY <1>1, BackupsStay DEF RInv
<1>6. Replaying' /\ Alike'
  BY <1>1 DEF Replaying, Alike, Saved, ReplaysAlike, RanOnce, InLaunch, AboutToRun
<1> QED
  BY <1>3, <1>5, <1>6 DEF RInv

-----------------------------------------------------------------------------
(* The launch *)

(* What SaveMallocMemory adds: a backup for each of the first n addresses. *)
LEMMA BackupsAreSaved ==
  ASSUME ReplayTypeOK, NEW n \in 0 .. Len(mallocVec), NEW lost \in SUBSET Addressed
  PROVE  /\ Backups(n, lost) \in Seq(Contents \cup {Null})
         /\ Len(Backups(n, lost)) = n
         /\ HeldIn(Backups(n, lost)) = {i \in Addressed : i <= n}
         /\ lost = {} => \A i \in Addressed : i <= n =>
                           Backups(n, lost)[i] = Original(mallocVec[i], launch + 1)
<1>0. /\ Len(mallocVec) \in Nat /\ DOMAIN mallocVec = 1 .. Len(mallocVec) /\ n \in Nat
      /\ Addressed \subseteq 1 .. Len(mallocVec) /\ launch + 1 \in Nat
      /\ \A i \in Addressed : mallocVec[i] \in Buffer
  BY AddressedHoldBuffers, ReplayAssumption DEF ReplayTypeOK
<1> DEFINE B == Backups(n, lost)
<1>1. ASSUME NEW i \in 1 .. n
      PROVE  /\ B[i] \in Contents \cup {Null}
             /\ B[i] # Null <=> i \in Addressed
             /\ i \in Addressed /\ i \notin lost => B[i] = Original(mallocVec[i], launch + 1)
  <2>1. B[i] = CASE mallocVec[i] = Null -> Null
                 [] i \in lost -> Garbage
                 [] OTHER -> Original(mallocVec[i], launch + 1)
    BY DEF Backups
  <2>2. i \in 1 .. Len(mallocVec)
    BY <1>0
  <2>3. mallocVec[i] # Null <=> i \in Addressed
    BY <1>0, <2>2 DEF Addressed
  <2>4. CASE i \notin Addressed
    BY <2>1, <2>3, <2>4
  <2>5. CASE i \in lost
    BY <2>1, <2>3, <2>5, ReplayAssumption
  <2>6. CASE i \in Addressed /\ i \notin lost
    <3>1. B[i] = Original(mallocVec[i], launch + 1)
      BY <2>1, <2>3, <2>6
    <3> QED
      BY <1>0, <2>6, <3>1, BackupsAreReal
  <2> QED
    BY <2>4, <2>5, <2>6
<1>2. B = [i \in 1 .. n |-> B[i]]
  BY DEF Backups
<1> HIDE DEF B
<1>3. B \in [1 .. n -> Contents \cup {Null}]
  BY <1>1, <1>2
<1>4. B \in Seq(Contents \cup {Null})
  BY <1>0, <1>3, SeqDef
<1>5. Len(B) = n
  BY <1>0, <1>2, <1>4, LenProperties
<1>6. HeldIn(B) = {i \in Addressed : i <= n}
  <2>1. ASSUME NEW i \in Addressed, i <= n PROVE i \in 1 .. n
    BY <1>0, <2>1
  <2>2. \A i \in 1 .. n : B[i] # Null <=> i \in Addressed
    BY <1>1
  <2>3. HeldIn(B) = {i \in 1 .. n : i \in Addressed}
    BY <1>5, <2>2 DEF HeldIn
  <2> QED
    BY <2>1, <2>3
<1>7. lost = {} => \A i \in Addressed : i <= n => B[i] = Original(mallocVec[i], launch + 1)
  BY <1>0, <1>1
<1> QED
  BY <1>4, <1>5, <1>6, <1>7 DEF B

(* A launch begins on the contents it saves. *)
LEMMA SaveStep == ASSUME RInv, SaveMallocMemory PROVE RInv'
<1>0. ReplayTypeOK /\ launch \in Nat /\ Live \subseteq Buffer /\ Len(mallocVec) \in Nat
  BY AddressedHoldBuffers, ReplayAssumption DEF RInv, ReplayTypeOK
<1>1a. PICK n \in 0 .. Len(mallocVec) :
         /\ \E lost \in SUBSET {i \in Addressed : i <= n} :
              /\ memoryVec' = memoryVec \o Backups(n, lost)
              /\ intact' = (n = Len(mallocVec) /\ lost = {})
         /\ allocated' = allocated + BackupsMade(n)
  BY DEF SaveMallocMemory
<1>1b. PICK lost \in SUBSET Addressed :
         /\ memoryVec' = memoryVec \o Backups(n, lost)
         /\ intact' = (n = Len(mallocVec) /\ lost = {})
  BY <1>1a
<1>1. /\ memoryVec' = memoryVec \o Backups(n, lost)
      /\ intact' = (n = Len(mallocVec) /\ lost = {})
      /\ allocated' = allocated + BackupsMade(n)
  BY <1>1a, <1>1b
<1>2. /\ stage = "idle" /\ launch' = launch + 1 /\ launch < MaxLaunch
      /\ content' = [b \in Buffer |-> Original(b, launch + 1)]
      /\ stale' = (memoryVec # <<>>) /\ stage' = "warmUp1" /\ group' = 0 /\ time' = 0
      /\ mallocVec' = mallocVec
  BY DEF SaveMallocMemory, BeginLaunch
<1> DEFINE B == Backups(n, lost)
<1>3. /\ B \in Seq(Contents \cup {Null}) /\ Len(B) = n
      /\ HeldIn(B) = {i \in Addressed : i <= n}
      /\ lost = {} => \A i \in Addressed : i <= n => B[i] = Original(mallocVec[i], launch + 1)
  BY <1>0, BackupsAreSaved
<1> HIDE DEF B
<1>4. memoryVec' = memoryVec \o B
  BY <1>1 DEF B
<1>5. memoryVec \in Seq(Contents \cup {Null})
  BY <1>0 DEF ReplayTypeOK
<1>6. memoryVec' \in Seq(Contents \cup {Null})
  BY <1>3, <1>4, <1>5, ConcatProperties
<1>7. BackupsMade(n) \in Nat /\ BackupsMade(n) = Cardinality(HeldIn(B))
  <2>1. {i \in Addressed : i <= n} \in SUBSET (1 .. Len(mallocVec))
    BY <1>0, AddressedHoldBuffers
  <2> QED
    BY <1>0, <1>3, <2>1, IndicesAreFinite DEF BackupsMade
<1>8. ReplayTypeOK'
  <2>1. content' \in [Buffer -> Contents]
    BY <1>0, <1>2, BackupsAreReal
  <2>2. allocated' \in Nat
    BY <1>0, <1>1, <1>7 DEF ReplayTypeOK
  <2>3. launch' \in 0 .. MaxLaunch
    BY <1>0, <1>2, ReplayAssumption
  <2>4. group' \in 0 .. ReplayTime /\ time' \in 0 .. KernelTaskTime - 1
    BY <1>2, ReplayAssumption
  <2> QED
    BY <1>0, <1>1, <1>2, <1>6, <2>1, <2>2, <2>3, <2>4 DEF ReplayTypeOK
<1>9. Owned'
  <2>1. BackupsHeld = Cardinality(HeldIn(memoryVec))
    BY <1>5, LenProperties DEF BackupsHeld, HeldIn
  <2>2. BackupsHeld' = Cardinality(HeldIn(memoryVec'))
    BY <1>6, LenProperties DEF BackupsHeld, HeldIn
  <2>3. Cardinality(HeldIn(memoryVec')) = Cardinality(HeldIn(memoryVec)) + Cardinality(HeldIn(B))
    BY <1>3, <1>4, <1>5, HeldInConcat
  <2> QED
    BY <1>1, <1>2, <1>7, <2>1, <2>2, <2>3 DEF RInv, Owned, Cleared
<1>10. Replaying'
  BY <1>2 DEF Replaying
<1>11. Saved'
  <2> SUFFICES ASSUME intact', ~stale'
               PROVE  /\ Len(memoryVec') = Len(mallocVec)
                      /\ \A i \in Addressed : memoryVec'[i] = Original(mallocVec[i], launch + 1)
    BY <1>2 DEF Saved, Faithful, Addressed
  <2>1. n = Len(mallocVec) /\ lost = {} /\ memoryVec = <<>>
    BY <1>1, <1>2
  <2>2. memoryVec' = B
    BY <1>3, <1>4, <2>1, ConcatEmptySeq
  <2> QED
    BY <1>0, <1>3, <2>1, <2>2, AddressedHoldBuffers
<1>12. ReplaysAlike' /\ RanOnce'
  BY <1>0, <1>2 DEF ReplaysAlike, OnOriginals, RanOnce, Live, Addressed
<1> QED
  BY <1>8, <1>9, <1>10, <1>11, <1>12 DEF RInv, Alike

(* The warm-up runs on the originals, and so leaves one run behind. *)
LEMMA WarmUpStep == ASSUME RInv, KernelWarmUp PROVE RInv'
<1>0. ReplayTypeOK /\ UNCHANGED <<mallocVec, memoryVec, allocated, group, time, launch, intact, stale>>
  BY DEF RInv, KernelWarmUp
<1>1. /\ stage \in {"warmUp1", "warmUp2"}
      /\ \/ RunKernel /\ stage' = "reset"
         \/ RunKernel /\ stage' = "clear"
         \/ RunKernel /\ stage' = "replayReset" /\ stage = "warmUp2" /\ ReplayTime # 0
         \/ (RunKernel \/ UNCHANGED content) /\ stage' = "idle"
  BY DEF KernelWarmUp
<1>2. content' \in [Buffer -> Contents]
  BY <1>0, <1>1, KernelRuns DEF ReplayTypeOK
<1>3. ReplayTypeOK'
  BY <1>0, <1>1, <1>2 DEF ReplayTypeOK
<1>4. Owned'
  BY <1>0, <1>1, BackupsStay DEF RInv
<1>5. Replaying'
  <2>1. CASE stage' = "replayReset"
    <3>1. ReplayTime \in Nat /\ ReplayTime # 0
      BY <1>1, <2>1, ReplayAssumption
    <3>2. group = 0
      BY <1>1 DEF RInv, Replaying
    <3> QED
      BY <1>0, <3>1, <3>2 DEF Replaying
  <2>2. CASE stage' # "replayReset"
    BY <1>0, <1>1, <2>2 DEF RInv, Replaying
  <2> QED
    BY <2>1, <2>2
<1>6. Saved' /\ ReplaysAlike'
  BY <1>0, <1>1 DEF RInv, Alike, Saved, Faithful, InLaunch, Addressed, ReplaysAlike, AboutToRun
<1>7. RanOnce'
  <2> SUFFICES ASSUME stage' = "clear", intact, ~stale
               PROVE  \A b \in Live : content'[b] = <<b, launch, 1>>
    BY <1>0, <1>1 DEF RanOnce, Faithful, Live, Addressed
  <2>1. OnOriginals
    BY <1>1 DEF RInv, Alike, ReplaysAlike, AboutToRun
  <2> QED
    BY <1>0, <1>1, <2>1, KernelRuns
<1> QED
  BY <1>3, <1>4, <1>5, <1>6, <1>7 DEF RInv, Alike

(* When all copies succeed, a reset brings the originals back. *)
LEMMA ResetStep == ASSUME RInv, ResetMallocMemory PROVE RInv'
<1>0. ReplayTypeOK /\ UNCHANGED <<mallocVec, memoryVec, allocated, group, time, launch, stale>>
  BY DEF RInv, ResetMallocMemory
<1>1. /\ \/ stage = "reset" /\ stage' = "warmUp2"
         \/ stage = "replayReset" /\ stage' = "kernel"
      /\ \/ Len(mallocVec) # Len(memoryVec) /\ UNCHANGED <<content, intact>>
         \/ /\ Len(mallocVec) = Len(memoryVec)
            /\ \E copied \in SUBSET {i \in Addressed : memoryVec[i] # Null} :
                 /\ content' = Restored(copied)
                 /\ intact' = (intact /\ copied = Addressed)
  BY DEF ResetMallocMemory, AfterReset
<1>2. ASSUME Len(mallocVec) = Len(memoryVec),
             NEW copied \in SUBSET {i \in Addressed : memoryVec[i] # Null},
             content' = Restored(copied)
      PROVE  /\ content' \in [Buffer -> Contents]
             /\ \A b \in Live : (\E i \in copied : mallocVec[i] = b) =>
                  \E i \in copied : mallocVec[i] = b /\ content'[b] = memoryVec[i]
  <2>1. \A i \in copied : memoryVec[i] \in Contents
    BY <1>0, <1>2, AddressedHoldBuffers, ElementOfSeq DEF ReplayTypeOK
  <2>2. ASSUME NEW b \in Buffer
        PROVE  /\ content'[b] \in Contents
               /\ (\E i \in copied : mallocVec[i] = b) =>
                    \E i \in copied : mallocVec[i] = b /\ content'[b] = memoryVec[i]
    <3>1. CASE \E i \in copied : mallocVec[i] = b
      <4>1. content'[b] = memoryVec[CHOOSE i \in copied : mallocVec[i] = b]
        BY <1>2, <3>1 DEF Restored
      <4>2. PICK i \in copied : mallocVec[i] = b /\ content'[b] = memoryVec[i]
        BY <3>1, <4>1
      <4> QED
        BY <2>1, <4>2
    <3>2. CASE ~ \E i \in copied : mallocVec[i] = b
      <4>1. content'[b] = content[b]
        BY <1>2, <3>2 DEF Restored
      <4> QED
        BY <1>0, <3>2, <4>1 DEF ReplayTypeOK
    <3> QED
      BY <3>1, <3>2
  <2>3. content' = [b \in Buffer |-> content'[b]]
    BY <1>2 DEF Restored
  <2> QED
    BY <1>0, <2>2, <2>3, AddressedHoldBuffers
<1>3. content' \in [Buffer -> Contents] /\ intact' \in BOOLEAN /\ (intact' => intact)
  <2>1. CASE UNCHANGED <<content, intact>>
    BY <1>0, <2>1 DEF ReplayTypeOK
  <2>2. ASSUME Len(mallocVec) = Len(memoryVec),
               NEW copied \in SUBSET {i \in Addressed : memoryVec[i] # Null},
               content' = Restored(copied), intact' = (intact /\ copied = Addressed)
        PROVE  content' \in [Buffer -> Contents] /\ intact' \in BOOLEAN /\ (intact' => intact)
    <3>1. content' \in [Buffer -> Contents]
      BY <1>2, <2>2
    <3>2. intact' \in BOOLEAN /\ (intact' => intact)
      BY <2>2
    <3> QED
      BY <3>1, <3>2
  <2> QED
    BY <1>1, <2>1, <2>2
<1>4. ReplayTypeOK'
  BY <1>0, <1>1, <1>3 DEF ReplayTypeOK
<1>5. Owned'
  BY <1>0, <1>1, BackupsStay DEF RInv
<1>6. Replaying' /\ RanOnce'
  BY <1>0, <1>1 DEF RInv, Replaying, RanOnce
<1>7. Saved'
  BY <1>0, <1>1, <1>3 DEF RInv, Alike, Saved, Faithful, InLaunch, Addressed
<1>8. ReplaysAlike'
  <2> SUFFICES ASSUME intact', ~stale, NEW b \in Live PROVE content'[b] = Original(b, launch)
    BY <1>0 DEF ReplaysAlike, OnOriginals, Live, Addressed
  <2>1. /\ Len(memoryVec) = Len(mallocVec)
        /\ \A i \in Addressed : memoryVec[i] = Original(mallocVec[i], launch)
    BY <1>1, <1>3 DEF RInv, Alike, Saved, Faithful, InLaunch
  <2>2. content' = Restored(Addressed) /\ Addressed \in SUBSET {i \in Addressed : memoryVec[i] # Null}
    BY <1>1, <2>1
  <2>3. \E i \in Addressed : mallocVec[i] = b
    BY DEF Live
  <2>4. PICK i \in Addressed : mallocVec[i] = b /\ content'[b] = memoryVec[i]
    BY <1>2, <2>1, <2>2, <2>3
  <2> QED
    BY <2>1, <2>4
<1> QED
  BY <1>4, <1>5, <1>6, <1>7, <1>8 DEF RInv, Alike

(* A round leaves one run behind, and another follows only while there is  *)
(* a group of metrics left.                                                *)
LEMMA ReplayStep == ASSUME RInv, KernelReplay PROVE RInv'
<1>0. ReplayTypeOK /\ UNCHANGED <<mallocVec, memoryVec, allocated, launch, intact, stale>>
  BY DEF RInv, KernelReplay
<1>1. PICK kernelOk \in BOOLEAN, taskOk \in BOOLEAN :
        LET lastRound == ~kernelOk \/ ~taskOk \/ time + 1 = KernelTaskTime
            lastGroup == ~kernelOk \/ group + 1 = ReplayTime
        IN /\ RunKernel \/ (~kernelOk /\ UNCHANGED content)
           /\ time' = IF lastRound THEN 0 ELSE time + 1
           /\ group' = IF lastRound THEN group + 1 ELSE group
           /\ stage' = CASE ~lastRound \/ ~lastGroup -> "replayReset"
                      [] kernelOk -> "clear"
                      [] OTHER -> "clearFailed"
  BY DEF KernelReplay
<1>2. /\ stage = "kernel" /\ group < ReplayTime /\ group \in 0 .. ReplayTime
      /\ time \in 0 .. KernelTaskTime - 1 /\ ReplayTime \in Nat /\ KernelTaskTime \in Nat
  BY ReplayAssumption DEF RInv, ReplayTypeOK, Replaying, KernelReplay
<1>3. /\ group' \in 0 .. ReplayTime /\ time' \in 0 .. KernelTaskTime - 1
      /\ stage' \in {"replayReset", "clear", "clearFailed"}
      /\ stage' = "replayReset" => group' < ReplayTime
      /\ stage' = "clear" => RunKernel
  BY <1>1, <1>2
<1>4. content' \in [Buffer -> Contents]
  BY <1>0, <1>1, KernelRuns DEF ReplayTypeOK
<1>5. ReplayTypeOK'
  BY <1>0, <1>3, <1>4 DEF ReplayTypeOK
<1>6. Owned'
  BY <1>0, <1>3, BackupsStay DEF RInv
<1>7. Replaying'
  BY <1>3 DEF Replaying
<1>8. Saved' /\ ReplaysAlike'
  BY <1>0, <1>2, <1>3 DEF RInv, Alike, Saved, Faithful, InLaunch, Addressed, ReplaysAlike, AboutToRun
<1>9. RanOnce'
  <2> SUFFICES ASSUME stage' = "clear", intact, ~stale
               PROVE  \A b \in Live : content'[b] = <<b, launch, 1>>
    BY <1>0, <1>3 DEF RanOnce, Faithful, Live, Addressed
  <2>1. OnOriginals
    BY <1>2 DEF RInv, Alike, ReplaysAlike, AboutToRun
  <2> QED
    BY <1>0, <1>3, <2>1, KernelRuns
<1> QED
  BY <1>5, <1>6, <1>7, <1>8, <1>9 DEF RInv, Alike

(* The backups go, and the buffers keep what the kernel has computed. *)
LEMMA ClearStep == ASSUME RInv, ClearMallocMemory PROVE RInv'
<1>1. /\ allocated' = allocated - BackupsHeld /\ memoryVec' = <<>>
      /\ (stage = "clear" /\ stage' = "launched") \/ stage' = "idle"
      /\ UNCHANGED <<mallocVec, content, group, time, launch, intact, stale>>
  BY DEF ClearMallocMemory
<1>2. ReplayTypeOK' /\ Owned'
  BY <1>1, NothingHeld DEF RInv, ReplayTypeOK
<1>3. Replaying' /\ Saved' /\ ReplaysAlike' /\ RanOnce'
  BY <1>1 DEF RInv, Alike, Replaying, Saved, InLaunch, Faithful, ReplaysAlike, AboutToRun,
              RanOnce, Live, Addressed
<1> QED
  BY <1>2, <1>3 DEF RInv, Alike

(* The caller goes on. *)
LEMMA ReturnStep == ASSUME RInv, Return PROVE RInv'
<1>1. /\ stage' = "idle"
      /\ UNCHANGED <<mallocVec, memoryVec, allocated, content, group, time, launch, intact, stale>>
  BY DEF Return
<1>2. ReplayTypeOK' /\ Owned'
  BY <1>1, BackupsStay DEF RInv, ReplayTypeOK
<1>3. Replaying' /\ Alike'
  BY <1>1 DEF Replaying, Alike, Saved, InLaunch, ReplaysAlike, AboutToRun, RanOnce
<1> QED
  BY <1>2, <1>3 DEF RInv

(* The process ends, possibly after a launch that failed half way. *)
LEMMA UnInitStep == ASSUME RInv, UnInit PROVE RInv'
<1>1. /\ allocated' = allocated - BackupsHeld /\ memoryVec' = <<>> /\ mallocVec' = <<>>
      /\ stage' = "exit" /\ UNCHANGED <<content, group, time, launch, intact, stale>>
  BY DEF UnInit
<1>2. ReplayTypeOK' /\ Owned'
  BY <1>1, NothingHeld, EmptySeq DEF RInv, ReplayTypeOK
<1>3. Replaying' /\ Alike'
  BY <1>1 DEF Replaying, Alike, Saved, InLaunch, ReplaysAlike, AboutToRun, RanOnce
<1> QED
  BY <1>2, <1>3 DEF RInv

-----------------------------------------------------------------------------
(* The theorems *)

(* Every step preserves the invariant. *)
LEMMA ReplayKeepsInvariant == RInv /\ [ReplayNext]_replayVars => RInv'
<1> SUFFICES ASSUME RInv, [ReplayNext]_replayVars PROVE RInv'
  OBVIOUS
<1>1. ASSUME NEW b \in Buffer, RtMalloc(b) \/ RtFree(b) PROVE RInv'
  BY <1>1, RtMallocStep, RtFreeStep
<1>2. CASE KernelExec
  BY <1>2, SaveStep, WarmUpStep, ResetStep, ReplayStep, ClearStep, ReturnStep DEF KernelExec
<1>3. CASE UnInit
  BY <1>3, UnInitStep
<1>4. CASE UNCHANGED replayVars
  BY <1>4 DEF replayVars, RInv, ReplayTypeOK, Replaying, Owned, Cleared, BackupsHeld, Alike, Saved, InLaunch,
              Faithful, ReplaysAlike, AboutToRun, OnOriginals, RanOnce, Live, Addressed
<1> QED
  BY <1>1, <1>2, <1>3, <1>4 DEF ReplayNext

(* Every state of the replay satisfies it, whichever calls failed. *)
THEOREM ReplayInvariant == ReplaySpec => []RInv
BY RInitially, ReplayKeepsInvariant, PTL DEF ReplaySpec

(* For any buffers, groups of metrics and launches (acp_runtime_api_tool.cpp, *)
(* KernelExec): the backups that memoryVec_ refers to are those allocated;    *)
(* unless a copy fails or a failed launch left backups behind, all runs of a  *)
(* launch see the same contents, and the application gets those of one run.   *)
THEOREM ReplayIsSafe == ReplaySpec => []ReplaySafe
<1>1. RInv => ReplaySafe
  <2> SUFFICES ASSUME RInv PROVE ReplaySafe
    OBVIOUS
  <2>1. stage \in {"launched", "exit"} => allocated = 0
    <3>1. memoryVec = <<>> => BackupsHeld = 0
      <4>1. memoryVec = <<>> => {i \in DOMAIN memoryVec : memoryVec[i] # Null} = {}
        OBVIOUS
      <4> QED
        BY <4>1, FS_EmptySet DEF BackupsHeld
    <3> QED
      BY <3>1 DEF RInv, Owned, Cleared
  <2> QED
    BY <2>1 DEF RInv, Owned, Alike, RanOnce, Faithful, ReplaySafe, BackupsOwned, Transparent
<1> QED
  BY <1>1, ReplayInvariant, PTL
=============================================================================
