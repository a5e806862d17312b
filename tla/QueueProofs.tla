---------------------------- MODULE QueueProofs -----------------------------
(***************************************************************************)
(* Proofs about the bounded queue and the uploader built on it.            *)
(*                                                                         *)
(* The queue, for every capacity, set of threads and set of elements: its  *)
(* safety properties, and that it implements a lossless FIFO channel.      *)
(*                                                                         *)
(* The uploader, for any producers, capacity and number of chunks: no      *)
(* chunk is lost between UploadData and the transport, a flush saves all   *)
(* of them, the uploader is destroyed once and not used again, and it      *)
(* implements a lossless FIFO channel too.                                 *)
(***************************************************************************)
EXTENDS QueueClients, Uploader, SequenceTheorems, FiniteSetTheorems, TLAPS

-----------------------------------------------------------------------------
(* Sequences in two parts: one handed over, one still queued.              *)
(*                                                                         *)
(* The facts are stated with predicates that name each sequence: the SMT   *)
(* backend expands concatenations element by element, and a lemma whose    *)
(* sequences are all variables can still be instantiated.                  *)

IsConcat(all, out, rest) == all = out \o rest
IsAppend(t, s, x) == t = Append(s, x)

(* out2 has gained, and rest2 lost, the first n elements of rest. *)
IsTransfer(out2, rest2, out, rest, n) ==
  /\ out2 = out \o SubSeq(rest, 1, n)
  /\ rest2 = SubSeq(rest, n + 1, Len(rest))

-----------------------------------------------------------------------------
(* What was handed over, what is next and what stays, grouped either way.  *)
LEMMA Reassociate ==
  ASSUME NEW S, NEW a \in Seq(S), NEW b \in Seq(S), NEW c \in Seq(S),
         NEW ab, IsConcat(ab, a, b),
         NEW bc, IsConcat(bc, b, c),
         NEW abc, IsConcat(abc, a, bc)
  PROVE  IsConcat(abc, ab, c)
BY ConcatAssociative DEF IsConcat

(* A concatenation is a sequence, as long as its two parts together. *)
LEMMA ConcatIsSeq ==
  ASSUME NEW S, NEW a \in Seq(S), NEW b \in Seq(S),
         NEW ab, IsConcat(ab, a, b)
  PROVE  ab \in Seq(S) /\ Len(ab) = Len(a) + Len(b)
BY ConcatProperties DEF IsConcat

(* Appending to the queued part appends to the whole: what Push does.      *)
LEMMA AppendToQueued ==
  ASSUME NEW S, NEW out \in Seq(S), NEW rest \in Seq(S), NEW x \in S,
         NEW all, IsConcat(all, out, rest),
         NEW rest2, IsAppend(rest2, rest, x),
         NEW all2, IsAppend(all2, all, x)
  PROVE  /\ rest2 \in Seq(S) /\ all2 \in Seq(S)
         /\ Len(rest2) = Len(rest) + 1
         /\ IsConcat(all2, out, rest2)
<1>1. <<x>> \in Seq(S)
  OBVIOUS
<1>2. all \in Seq(S)
  BY ConcatIsSeq
<1>3. IsConcat(rest2, rest, <<x>>)
  BY AppendIsConcat DEF IsConcat, IsAppend
<1>4. IsConcat(all2, all, <<x>>)
  BY <1>2, AppendIsConcat DEF IsConcat, IsAppend
<1>5. rest2 \in Seq(S) /\ Len(rest2) = Len(rest) + 1 /\ all2 \in Seq(S)
  BY <1>2, AppendProperties DEF IsAppend
<1>6. (out \o rest) \o <<x>> = out \o (rest \o <<x>>)
  BY <1>1, ConcatAssociative
<1>7. IsConcat(all2, out, rest2)
  BY <1>3, <1>4, <1>6, Zenon DEF IsConcat
<1> QED
  BY <1>5, <1>7

(* Moving the first n queued elements to the part handed over leaves the   *)
(* whole as it is: what the pops do.                                       *)
LEMMA TakeFromQueued ==
  ASSUME NEW S, NEW out \in Seq(S), NEW rest \in Seq(S),
         NEW n \in 1 .. Len(rest),
         NEW all, IsConcat(all, out, rest),
         NEW out2, NEW rest2, IsTransfer(out2, rest2, out, rest, n)
  PROVE  /\ rest2 \in Seq(S) /\ out2 \in Seq(S)
         /\ Len(rest2) = Len(rest) - n
         /\ IsConcat(all, out2, rest2)
<1>1. Len(rest) \in Nat /\ n \in Nat /\ n <= Len(rest)
  BY LenProperties
<1>2. \A i \in 1 .. Len(rest) : rest[i] \in S
  BY ElementOfSeq
<1>3. PICK front : front = SubSeq(rest, 1, n)
  OBVIOUS
<1>4. front \in Seq(S)
  <2>1. \A i \in 1 .. n : rest[i] \in S
    BY <1>1, <1>2
  <2> QED
    BY <1>1, <1>3, <2>1, SubSeqProperties
<1>5. rest2 \in Seq(S) /\ Len(rest2) = Len(rest) - n
  <2>1. \A i \in n + 1 .. Len(rest) : rest[i] \in S
    BY <1>1, <1>2
  <2>2. n + 1 \in Int /\ Len(rest) \in Int
    BY <1>1
  <2>3. Len(rest2) = IF n + 1 <= Len(rest) THEN Len(rest) - (n + 1) + 1 ELSE 0
    BY <2>1, <2>2, SubSeqProperties DEF IsTransfer
  <2>4. rest2 \in Seq(S)
    BY <2>1, <2>2, SubSeqProperties DEF IsTransfer
  <2> QED
    BY <1>1, <2>3, <2>4
<1>6. IsConcat(rest, front, rest2)
  BY <1>1, <1>3, ConcatAdjacentSubSeq, SubSeqFull DEF IsTransfer, IsConcat
<1>7. IsConcat(out2, out, front)
  BY <1>3 DEF IsTransfer, IsConcat
<1>8. IsConcat(all, out2, rest2)
  BY <1>4, <1>5, <1>6, <1>7, Reassociate
<1>9. out2 \in Seq(S)
  BY <1>4, <1>7, ConcatIsSeq
<1> QED
  BY <1>5, <1>8, <1>9

(* The tail is what is left after taking one element. *)
LEMMA TailIsTransfer ==
  ASSUME NEW S, NEW rest \in Seq(S), rest # <<>>
  PROVE  /\ 1 \in 1 .. Len(rest)
         /\ Tail(rest) = SubSeq(rest, 1 + 1, Len(rest))
BY EmptySeq, TailIsSubSeq

(* The part handed over is a prefix of the whole. *)
LEMMA HandedOverIsPrefix ==
  ASSUME NEW S, NEW out \in Seq(S), NEW rest \in Seq(S),
         NEW all, IsConcat(all, out, rest)
  PROVE  /\ Len(all) = Len(out) + Len(rest)
         /\ SubSeq(all, 1, Len(out)) = out
<1>1. Len(out) \in Nat /\ Len(rest) \in Nat
  BY LenProperties
<1>2. Len(all) = Len(out) + Len(rest)
  BY ConcatIsSeq
<1>3. CASE Len(out) = 0
  <2>1. out = <<>>
    BY <1>3, EmptySeq
  <2>2. SubSeq(all, 1, Len(out)) = <<>>
    BY <1>3, SubSeqEmpty
  <2> QED
    BY <1>2, <2>1, <2>2
<1>4. CASE Len(out) # 0
  <2>1. 1 \in 1 .. Len(out) /\ Len(out) \in 1 .. Len(out)
    BY <1>1, <1>4
  <2>2. SubSeq(all, 1, Len(out)) = SubSeq(out, 1, Len(out))
    BY <2>1, SubSeqOfConcat1 DEF IsConcat
  <2> QED
    BY <1>2, <2>2, SubSeqFull
<1> QED
  BY <1>3, <1>4

-----------------------------------------------------------------------------
(* The queue under any clients *)

(* The conjunction is inductive: ClientsTypeOK ties the sleepers to their  *)
(* calls, which NoLostWakeup needs, and WithinCapacity makes the equality  *)
(* test of IsQueueFull as good as an inequality.                           *)
QueueInv == ClientsTypeOK /\ Fifo /\ WithinCapacity /\ NoLostWakeup

(* No element is added or removed, and nobody falls asleep. *)
LEMMA QueueUnchanged ==
  ASSUME QueueInv, UNCHANGED <<queue, quit, pushed, popped>>
  PROVE  Fifo' /\ WithinCapacity'
BY DEF QueueInv, Fifo, WithinCapacity

(* An element enters a queue that has room; all sleeping poppers wake.     *)
LEMMA EnqueueStep ==
  ASSUME QueueInv, NEW x \in Item, ~IsQueueFull, Enqueue(x), Accept(x)
  PROVE  /\ queue' \in Seq(Item) /\ pushed' \in Seq(Item)
         /\ popped' \in Seq(Item) /\ quit' \in BOOLEAN
         /\ Fifo' /\ WithinCapacity' /\ NoLostWakeup'
<1> USE CapacityAssumption
<1>1. queue \in Seq(Item) /\ popped \in Seq(Item) /\ pushed \in Seq(Item)
  BY DEF QueueInv, ClientsTypeOK
<1>2. Len(queue) \in Nat /\ Len(queue) < Capacity
  BY <1>1, LenProperties DEF QueueInv, WithinCapacity, IsQueueFull
<1>3. queue' = Append(queue, x) /\ pushed' = Append(pushed, x)
      /\ popped' = popped /\ cvPush' = {} /\ UNCHANGED <<quit, cvPop>>
  BY DEF Enqueue, Accept, NotifyPush
<1>4. queue' \in Seq(Item) /\ Len(queue') = Len(queue) + 1
      /\ pushed' = popped' \o queue'
      /\ pushed' \in Seq(Item)
  <2>1. IsConcat(pushed, popped, queue)
    BY DEF QueueInv, Fifo, IsConcat
  <2>2. IsAppend(queue', queue, x) /\ IsAppend(pushed', pushed, x)
    BY <1>3 DEF IsAppend
  <2>3. /\ queue' \in Seq(Item) /\ Len(queue') = Len(queue) + 1
        /\ pushed' \in Seq(Item) /\ IsConcat(pushed', popped, queue')
    BY <1>1, <2>1, <2>2, AppendToQueued
  <2> QED
    BY <1>3, <2>3 DEF IsConcat
<1>6. cvPop = {}
  BY DEF QueueInv, NoLostWakeup
<1> QED
  BY <1>1, <1>2, <1>3, <1>4, <1>6
  DEF QueueInv, ClientsTypeOK, Fifo, WithinCapacity, NoLostWakeup

(* The first n elements leave the queue; all sleeping pushers wake.        *)
LEMMA TakeStep ==
  ASSUME QueueInv, NEW n \in 1 .. Len(queue), ~IsQueueEmpty,
         queue' = SubSeq(queue, n + 1, Len(queue)), NotifyPop,
         UNCHANGED <<quit, cvPush>>, Deliver(n)
  PROVE  /\ queue' \in Seq(Item) /\ pushed' \in Seq(Item)
         /\ popped' \in Seq(Item) /\ quit' \in BOOLEAN
         /\ Fifo' /\ WithinCapacity' /\ NoLostWakeup'
<1> USE CapacityAssumption
<1>1. queue \in Seq(Item) /\ popped \in Seq(Item) /\ pushed \in Seq(Item)
  BY DEF QueueInv, ClientsTypeOK
<1>2. Len(queue) \in Nat /\ Len(queue) <= Capacity
  BY <1>1, LenProperties DEF QueueInv, WithinCapacity
<1>3. /\ popped' = popped \o SubSeq(queue, 1, n)
      /\ pushed' = pushed /\ cvPop' = {}
  BY DEF Deliver, NotifyPop
<1>4. /\ queue' \in Seq(Item) /\ Len(queue') = Len(queue) - n
      /\ popped' \in Seq(Item)
      /\ pushed' = popped' \o queue'
  <2>1. IsConcat(pushed, popped, queue)
    BY DEF QueueInv, Fifo, IsConcat
  <2>2. IsTransfer(popped', queue', popped, queue, n)
    BY <1>3 DEF IsTransfer
  <2>3. /\ queue' \in Seq(Item) /\ Len(queue') = Len(queue) - n
        /\ popped' \in Seq(Item) /\ IsConcat(pushed, popped', queue')
    BY <1>1, <2>1, <2>2, TakeFromQueued
  <2> QED
    BY <1>3, <2>3 DEF IsConcat
<1>6. cvPush = {}
  BY DEF QueueInv, NoLostWakeup
<1> QED
  BY <1>1, <1>2, <1>3, <1>4, <1>6
  DEF QueueInv, ClientsTypeOK, Fifo, WithinCapacity, NoLostWakeup

(* Pop and TryPop take one element. *)
LEMMA DequeueStep ==
  ASSUME QueueInv, ~IsQueueEmpty, Dequeue, Deliver(1)
  PROVE  /\ queue' \in Seq(Item) /\ pushed' \in Seq(Item)
         /\ popped' \in Seq(Item) /\ quit' \in BOOLEAN
         /\ Fifo' /\ WithinCapacity' /\ NoLostWakeup'
<1>1. queue \in Seq(Item) /\ queue # <<>>
  BY DEF QueueInv, ClientsTypeOK, IsQueueEmpty
<1>2. 1 \in 1 .. Len(queue)
  BY <1>1, TailIsTransfer
<1>3. queue' = SubSeq(queue, 1 + 1, Len(queue))
  BY <1>1, TailIsTransfer DEF Dequeue
<1> QED
  BY <1>2, <1>3, TakeStep DEF Dequeue

(* TryBatchPop takes as many as it asked for, or all. *)
LEMMA BatchStep ==
  ASSUME QueueInv, NEW n \in 1 .. MaxBatch, TryBatchPopDone(n), Deliver(BatchSize(n))
  PROVE  /\ queue' \in Seq(Item) /\ pushed' \in Seq(Item)
         /\ popped' \in Seq(Item) /\ quit' \in BOOLEAN
         /\ Fifo' /\ WithinCapacity' /\ NoLostWakeup'
<1>1. queue \in Seq(Item) /\ queue # <<>>
  BY DEF QueueInv, ClientsTypeOK, TryBatchPopDone, IsQueueEmpty
<1>2. Len(queue) \in Nat \ {0}
  BY <1>1, EmptySeq
<1>3. BatchSize(n) \in 1 .. Len(queue)
  BY <1>2, ClientAssumption DEF BatchSize
<1> QED
  BY <1>3, TakeStep DEF TryBatchPopDone

-----------------------------------------------------------------------------
(* The invariant holds of the empty queue.                                 *)
LEMMA InitInv == ClientsInit => QueueInv
<1> USE CapacityAssumption, EmptySeq
<1>1. <<>> \in Seq(Item) /\ Len(<<>>) = 0 /\ <<>> = <<>> \o <<>>
  BY ConcatEmptySeq
<1> SUFFICES ASSUME ClientsInit PROVE QueueInv
  OBVIOUS
<1>2. ClientsTypeOK
  BY <1>1 DEF ClientsInit, QueueInit, ClientsTypeOK, InPush, InPop
<1>3. Fifo
  BY <1>1, Zenon DEF ClientsInit, QueueInit, Fifo
<1>4. WithinCapacity /\ NoLostWakeup
  BY <1>1 DEF ClientsInit, QueueInit, WithinCapacity, NoLostWakeup
<1> QED
  BY <1>2, <1>3, <1>4 DEF QueueInv

(* Returning from a call wakes nobody and puts nobody to sleep. *)
LEMMA StepInv == QueueInv /\ [ClientsNext]_clientsVars => QueueInv'
<1> SUFFICES ASSUME QueueInv, [ClientsNext]_clientsVars PROVE QueueInv'
  OBVIOUS
<1> USE CapacityAssumption, ClientAssumption
<1>typ. ClientsTypeOK
  BY DEF QueueInv
<1>1. ASSUME NEW t \in Thread, CallPush(t) PROVE QueueInv'
  <2>1. UNCHANGED <<queue, quit, cvPush, cvPop, pushed, popped>>
    BY <1>1 DEF CallPush, queueVars
  <2>2. ClientsTypeOK'
    BY <1>1, <1>typ, <2>1 DEF CallPush, ClientsTypeOK, InPush, InPop
  <2> QED
    BY <2>1, <2>2, QueueUnchanged DEF QueueInv, NoLostWakeup, IsQueueFull, IsQueueEmpty
<1>2. ASSUME NEW t \in Thread, CallPop(t) PROVE QueueInv'
  <2>1. UNCHANGED <<queue, quit, cvPush, cvPop, arg, pushed, popped>>
    BY <1>2 DEF CallPop, queueVars
  <2>2. ClientsTypeOK'
    BY <1>2, <1>typ, <2>1 DEF CallPop, ClientsTypeOK, InPush, InPop
  <2> QED
    BY <2>1, <2>2, QueueUnchanged DEF QueueInv, NoLostWakeup, IsQueueFull, IsQueueEmpty
<1>3. ASSUME NEW t \in Thread, Push(t) PROVE QueueInv'
  <2>1. CASE PushWait(t) /\ UNCHANGED <<call, arg, pushed, popped>>
    <3>1. ClientsTypeOK'
      BY <1>3, <1>typ, <2>1 DEF Push, PushWait, ClientsTypeOK, InPush, InPop
    <3>2. Fifo' /\ WithinCapacity'
      BY <2>1, QueueUnchanged DEF PushWait
    <3>3. NoLostWakeup'
      BY <2>1 DEF PushWait, QueueInv, NoLostWakeup, IsQueueFull, IsQueueEmpty
    <3> QED
      BY <3>1, <3>2, <3>3 DEF QueueInv
  <2>2. CASE PushDone(t, arg[t]) /\ Return(t) /\ Accept(arg[t])
    <3>1. arg[t] \in Item /\ t \notin cvPop
      BY <1>3, <1>typ, <2>2 DEF Push, PushDone, ClientsTypeOK, InPush
    <3>2. /\ queue' \in Seq(Item) /\ pushed' \in Seq(Item)
          /\ popped' \in Seq(Item) /\ quit' \in BOOLEAN
          /\ Fifo' /\ WithinCapacity' /\ NoLostWakeup'
      BY <2>2, <3>1, EnqueueStep DEF PushDone
    <3>3. cvPush' = {} /\ cvPop' = cvPop
      BY <2>2 DEF PushDone, Enqueue, NotifyPush
    <3>4. ClientsTypeOK'
      BY <1>typ, <2>2, <3>1, <3>2, <3>3 DEF Return, ClientsTypeOK, InPush, InPop
    <3> QED
      BY <3>2, <3>4 DEF QueueInv
  <2>3. CASE PushRefused(t) /\ Return(t) /\ UNCHANGED <<pushed, popped>>
    <3>1. UNCHANGED <<queue, quit, cvPush, cvPop, pushed, popped>>
          /\ t \notin cvPop
      BY <2>3 DEF PushRefused, queueVars
    <3>2. ClientsTypeOK'
      BY <1>3, <1>typ, <2>3, <3>1 DEF Push, Return, ClientsTypeOK, InPush, InPop
    <3> QED
      BY <3>1, <3>2, QueueUnchanged DEF QueueInv, NoLostWakeup, IsQueueFull, IsQueueEmpty
  <2> QED
    BY <1>3, <2>1, <2>2, <2>3 DEF Push
<1>4. ASSUME NEW t \in Thread, Pop(t) PROVE QueueInv'
  <2>1. CASE PopWait(t) /\ UNCHANGED <<call, arg, pushed, popped>>
    <3>1. ClientsTypeOK'
      BY <1>4, <1>typ, <2>1 DEF Pop, PopWait, ClientsTypeOK, InPush, InPop
    <3>2. Fifo' /\ WithinCapacity'
      BY <2>1, QueueUnchanged DEF PopWait
    <3>3. NoLostWakeup'
      BY <2>1 DEF PopWait, QueueInv, NoLostWakeup, IsQueueFull, IsQueueEmpty
    <3> QED
      BY <3>1, <3>2, <3>3 DEF QueueInv
  <2>2. CASE PopDone(t) /\ Return(t) /\ Deliver(1)
    <3>1. /\ queue' \in Seq(Item) /\ pushed' \in Seq(Item)
          /\ popped' \in Seq(Item) /\ quit' \in BOOLEAN
          /\ Fifo' /\ WithinCapacity' /\ NoLostWakeup'
      BY <2>2, DequeueStep DEF PopDone
    <3>2. cvPop' = {} /\ cvPush' = cvPush /\ t \notin cvPush
      BY <2>2 DEF PopDone, Dequeue, NotifyPop
    <3>3. ClientsTypeOK'
      BY <1>4, <1>typ, <2>2, <3>1, <3>2 DEF Pop, Return, ClientsTypeOK, InPush, InPop
    <3> QED
      BY <3>1, <3>3 DEF QueueInv
  <2>3. CASE PopRefused(t) /\ Return(t) /\ UNCHANGED <<pushed, popped>>
    <3>1. UNCHANGED <<queue, quit, cvPush, cvPop, pushed, popped>>
          /\ t \notin cvPush
      BY <2>3 DEF PopRefused, queueVars
    <3>2. ClientsTypeOK'
      BY <1>4, <1>typ, <2>3, <3>1 DEF Pop, Return, ClientsTypeOK, InPush, InPop
    <3> QED
      BY <3>1, <3>2, QueueUnchanged DEF QueueInv, NoLostWakeup, IsQueueFull, IsQueueEmpty
  <2> QED
    BY <1>4, <2>1, <2>2, <2>3 DEF Pop
<1>5. ASSUME NEW t \in Thread, TryPush(t) PROVE QueueInv'
  <2>1. CASE \E item \in Item : TryPushDone(item) /\ Accept(item)
    <3>1. PICK item \in Item : TryPushDone(item) /\ Accept(item)
      BY <2>1
    <3>2. /\ queue' \in Seq(Item) /\ pushed' \in Seq(Item)
          /\ popped' \in Seq(Item) /\ quit' \in BOOLEAN
          /\ Fifo' /\ WithinCapacity' /\ NoLostWakeup'
      BY <3>1, EnqueueStep DEF TryPushDone
    <3>3. cvPush' = {} /\ cvPop' = cvPop /\ UNCHANGED <<call, arg>>
      BY <1>5, <3>1 DEF TryPush, TryPushDone, Enqueue, NotifyPush
    <3>4. ClientsTypeOK'
      BY <1>typ, <3>2, <3>3 DEF ClientsTypeOK, InPush, InPop
    <3> QED
      BY <3>2, <3>4 DEF QueueInv
  <2>2. CASE TryPushFull /\ UNCHANGED <<pushed, popped>>
    <3>1. UNCHANGED clientsVars
      BY <1>5, <2>2 DEF TryPush, TryPushFull, queueVars, clientsVars
    <3> QED
      BY <3>1 DEF clientsVars, QueueInv, ClientsTypeOK, Fifo, WithinCapacity, NoLostWakeup, InPush,
                  InPop, IsQueueFull, IsQueueEmpty
  <2> QED
    BY <1>5, <2>1, <2>2 DEF TryPush
<1>6. ASSUME NEW t \in Thread, TryPop(t) PROVE QueueInv'
  <2>1. CASE TryPopDone /\ Deliver(1)
    <3>1. /\ queue' \in Seq(Item) /\ pushed' \in Seq(Item)
          /\ popped' \in Seq(Item) /\ quit' \in BOOLEAN
          /\ Fifo' /\ WithinCapacity' /\ NoLostWakeup'
      BY <2>1, DequeueStep DEF TryPopDone
    <3>2. cvPop' = {} /\ cvPush' = cvPush /\ UNCHANGED <<call, arg>>
      BY <1>6, <2>1 DEF TryPop, TryPopDone, Dequeue, NotifyPop
    <3>3. ClientsTypeOK'
      BY <1>typ, <3>1, <3>2 DEF ClientsTypeOK, InPush, InPop
    <3> QED
      BY <3>1, <3>3 DEF QueueInv
  <2>2. CASE TryPopEmpty /\ UNCHANGED <<pushed, popped>>
    <3>1. UNCHANGED clientsVars
      BY <1>6, <2>2 DEF TryPop, TryPopEmpty, queueVars, clientsVars
    <3> QED
      BY <3>1 DEF clientsVars, QueueInv, ClientsTypeOK, Fifo, WithinCapacity, NoLostWakeup, InPush,
                  InPop, IsQueueFull, IsQueueEmpty
  <2> QED
    BY <1>6, <2>1, <2>2 DEF TryPop
<1>7. ASSUME NEW t \in Thread, TryBatchPop(t) PROVE QueueInv'
  <2>1. CASE \E n \in 1 .. MaxBatch : TryBatchPopDone(n) /\ Deliver(BatchSize(n))
    <3>1. PICK n \in 1 .. MaxBatch : TryBatchPopDone(n) /\ Deliver(BatchSize(n))
      BY <2>1
    <3>2. /\ queue' \in Seq(Item) /\ pushed' \in Seq(Item)
          /\ popped' \in Seq(Item) /\ quit' \in BOOLEAN
          /\ Fifo' /\ WithinCapacity' /\ NoLostWakeup'
      BY <3>1, BatchStep
    <3>3. cvPop' = {} /\ cvPush' = cvPush /\ UNCHANGED <<call, arg>>
      BY <1>7, <3>1 DEF TryBatchPop, TryBatchPopDone, NotifyPop
    <3>4. ClientsTypeOK'
      BY <1>typ, <3>2, <3>3 DEF ClientsTypeOK, InPush, InPop
    <3> QED
      BY <3>2, <3>4 DEF QueueInv
  <2>2. CASE TryPopEmpty /\ UNCHANGED <<pushed, popped>>
    <3>1. UNCHANGED clientsVars
      BY <1>7, <2>2 DEF TryBatchPop, TryPopEmpty, queueVars, clientsVars
    <3> QED
      BY <3>1 DEF clientsVars, QueueInv, ClientsTypeOK, Fifo, WithinCapacity, NoLostWakeup, InPush,
                  InPop, IsQueueFull, IsQueueEmpty
  <2> QED
    BY <1>7, <2>1, <2>2 DEF TryBatchPop
<1>8. ASSUME NEW t \in Thread, CallQuit(t) PROVE QueueInv'
  <2>1. UNCHANGED <<queue, call, arg, pushed, popped>> /\ quit' = TRUE
    BY <1>8 DEF CallQuit, Quit
  <2>2. cvPush' = {} /\ cvPop' = {}
    BY <1>8 DEF CallQuit, Quit, NotifyPush, NotifyPop, QueueInv, NoLostWakeup
  <2>3. ClientsTypeOK'
    BY <1>typ, <2>1, <2>2 DEF ClientsTypeOK, InPush, InPop
  <2> QED
    BY <2>1, <2>2, <2>3 DEF QueueInv, Fifo, WithinCapacity, NoLostWakeup
<1>9. CASE UNCHANGED clientsVars
  BY <1>9 DEF clientsVars, QueueInv, ClientsTypeOK, Fifo, WithinCapacity, NoLostWakeup, InPush,
              InPop, IsQueueFull, IsQueueEmpty
<1> QED
  BY <1>1, <1>2, <1>3, <1>4, <1>5, <1>6, <1>7, <1>8, <1>9 DEF ClientsNext

-----------------------------------------------------------------------------
(* The inductive invariant holds in every reachable state. *)
THEOREM QueueInvariant == ClientsSpec => []QueueInv
BY InitInv, StepInv, PTL DEF ClientsSpec

(* ClientsTypeOK holds: only a thread inside Push sleeps on cvPop_, and    *)
(* only one inside Pop on cvPush_.                                         *)
THEOREM QueueTypes == ClientsSpec => []ClientsTypeOK
<1>1. QueueInv => ClientsTypeOK
  BY DEF QueueInv
<1> QED
  BY <1>1, QueueInvariant, PTL

(* The queue loses, duplicates and reorders nothing, whatever the          *)
(* interleaving of Push, Pop, the Try variants and Quit.                   *)
THEOREM QueueIsFifo == ClientsSpec => []Fifo
<1>1. QueueInv => Fifo
  BY DEF QueueInv
<1> QED
  BY <1>1, QueueInvariant, PTL

(* The queue never holds more than capacity_ elements.                     *)
THEOREM QueueIsBounded == ClientsSpec => []WithinCapacity
<1>1. QueueInv => WithinCapacity
  BY DEF QueueInv
<1> QED
  BY <1>1, QueueInvariant, PTL

(* Nobody stays asleep on a condition variable whose condition holds.      *)
THEOREM QueueWakesSleepers == ClientsSpec => []NoLostWakeup
<1>1. QueueInv => NoLostWakeup
  BY DEF QueueInv
<1> QED
  BY <1>1, QueueInvariant, PTL

-----------------------------------------------------------------------------
(* An element is accepted only while fewer than Capacity are outstanding.  *)
LEMMA EnqueueAccepts ==
  ASSUME QueueInv, NEW x \in Item, ~IsQueueFull, Enqueue(x), Accept(x)
  PROVE  QueueChannel!Accept
<1> USE CapacityAssumption
<1>1. queue \in Seq(Item) /\ popped \in Seq(Item)
  BY DEF QueueInv, ClientsTypeOK
<1>2. IsConcat(pushed, popped, queue)
  BY DEF QueueInv, Fifo, IsConcat
<1>3. Len(pushed) = Len(popped) + Len(queue)
  BY <1>1, <1>2, ConcatIsSeq
<1>4. Len(queue) \in Nat /\ Len(popped) \in Nat /\ Len(queue) < Capacity
  BY <1>1, LenProperties DEF QueueInv, WithinCapacity, IsQueueFull
<1>5. Len(pushed) - Len(popped) < Capacity
  BY <1>3, <1>4
<1>6. pushed' = Append(pushed, x) /\ UNCHANGED <<popped, quit>>
  BY DEF Accept, Enqueue
<1> QED
  BY <1>5, <1>6 DEF QueueChannel!Accept

(* What a pop hands over extends what was handed over before to a longer   *)
(* prefix of what was accepted.                                            *)
LEMMA TakeDelivers ==
  ASSUME QueueInv, QueueInv', NEW n \in 1 .. Len(queue), Deliver(n), quit' = quit
  PROVE  QueueChannel!Deliver
<1>1. /\ queue \in Seq(Item) /\ popped \in Seq(Item)
      /\ queue' \in Seq(Item) /\ popped' \in Seq(Item)
  BY DEF QueueInv, ClientsTypeOK
<1>2. popped' = popped \o SubSeq(queue, 1, n) /\ pushed' = pushed
  BY DEF Deliver
<1>3. IsConcat(pushed, popped', queue')
  BY <1>2 DEF QueueInv, Fifo, IsConcat
<1>4. /\ Len(pushed) = Len(popped') + Len(queue')
      /\ SubSeq(pushed, 1, Len(popped')) = popped'
  BY <1>1, <1>3, HandedOverIsPrefix
<1>5. PICK front : front = SubSeq(queue, 1, n)
  OBVIOUS
<1>6. Len(queue) \in Nat /\ n \in Nat /\ n <= Len(queue)
  BY <1>1, LenProperties
<1>7. front \in Seq(Item) /\ Len(front) = n
  <2>1. \A i \in 1 .. n : queue[i] \in Item
    BY <1>1, <1>6, ElementOfSeq
  <2> QED
    BY <1>5, <1>6, <2>1, SubSeqProperties
<1>8. Len(popped') = Len(popped) + n
  <2>1. IsConcat(popped', popped, front)
    BY <1>2, <1>5 DEF IsConcat
  <2> QED
    BY <1>1, <1>7, <2>1, ConcatIsSeq
<1>9. Len(popped) \in Nat /\ Len(popped') \in Nat /\ Len(queue') \in Nat
  BY <1>1, LenProperties
<1>10. Len(popped') \in Len(popped) + 1 .. Len(pushed)
  BY <1>4, <1>6, <1>8, <1>9
<1> QED
  BY <1>2, <1>4, <1>10, quit' = quit DEF QueueChannel!Deliver

(* Every step of the queue is a step of the channel or a stutter.          *)
LEMMA StepChannel ==
  QueueInv /\ QueueInv' /\ [ClientsNext]_clientsVars => [QueueChannel!ChannelNext]_(QueueChannel!channelVars)
<1> SUFFICES ASSUME QueueInv, QueueInv', [ClientsNext]_clientsVars
             PROVE  [QueueChannel!ChannelNext]_(QueueChannel!channelVars)
  OBVIOUS
<1> USE DEF QueueChannel!ChannelNext, QueueChannel!channelVars
<1>1. ASSUME NEW t \in Thread, CallPush(t) \/ CallPop(t)
      PROVE  UNCHANGED QueueChannel!channelVars
  BY <1>1 DEF CallPush, CallPop, queueVars
<1>2. ASSUME NEW t \in Thread, Push(t)
      PROVE  QueueChannel!ChannelNext \/ UNCHANGED QueueChannel!channelVars
  <2>1. CASE PushWait(t) /\ UNCHANGED <<call, arg, pushed, popped>>
    BY <2>1 DEF PushWait
  <2>2. CASE PushDone(t, arg[t]) /\ Return(t) /\ Accept(arg[t])
    <3>1. arg[t] \in Item
      BY <1>2 DEF Push, QueueInv, ClientsTypeOK, InPush
    <3> QED
      BY <2>2, <3>1, EnqueueAccepts DEF PushDone
  <2>3. CASE PushRefused(t) /\ Return(t) /\ UNCHANGED <<pushed, popped>>
    BY <2>3 DEF PushRefused, queueVars
  <2> QED
    BY <1>2, <2>1, <2>2, <2>3 DEF Push
<1>3. ASSUME NEW t \in Thread, Pop(t)
      PROVE  QueueChannel!ChannelNext \/ UNCHANGED QueueChannel!channelVars
  <2>1. CASE PopWait(t) /\ UNCHANGED <<call, arg, pushed, popped>>
    BY <2>1 DEF PopWait
  <2>2. CASE PopDone(t) /\ Return(t) /\ Deliver(1)
    <3>1. 1 \in 1 .. Len(queue) /\ quit' = quit
      BY <2>2, EmptySeq DEF PopDone, Dequeue, IsQueueEmpty, QueueInv, ClientsTypeOK
    <3> QED
      BY <2>2, <3>1, TakeDelivers
  <2>3. CASE PopRefused(t) /\ Return(t) /\ UNCHANGED <<pushed, popped>>
    BY <2>3 DEF PopRefused, queueVars
  <2> QED
    BY <1>3, <2>1, <2>2, <2>3 DEF Pop
<1>4. ASSUME NEW t \in Thread, TryPush(t)
      PROVE  QueueChannel!ChannelNext \/ UNCHANGED QueueChannel!channelVars
  BY <1>4, EnqueueAccepts DEF TryPush, TryPushDone, TryPushFull, queueVars
<1>5. ASSUME NEW t \in Thread, TryPop(t)
      PROVE  QueueChannel!ChannelNext \/ UNCHANGED QueueChannel!channelVars
  <2>1. CASE TryPopDone /\ Deliver(1)
    <3>1. 1 \in 1 .. Len(queue) /\ quit' = quit
      BY <2>1, EmptySeq DEF TryPopDone, Dequeue, IsQueueEmpty, QueueInv, ClientsTypeOK
    <3> QED
      BY <2>1, <3>1, TakeDelivers
  <2>2. CASE TryPopEmpty /\ UNCHANGED <<pushed, popped>>
    BY <2>2 DEF TryPopEmpty, queueVars
  <2> QED
    BY <1>5, <2>1, <2>2 DEF TryPop
<1>6. ASSUME NEW t \in Thread, TryBatchPop(t)
      PROVE  QueueChannel!ChannelNext \/ UNCHANGED QueueChannel!channelVars
  <2>1. CASE \E n \in 1 .. MaxBatch : TryBatchPopDone(n) /\ Deliver(BatchSize(n))
    <3>1. PICK n \in 1 .. MaxBatch : TryBatchPopDone(n) /\ Deliver(BatchSize(n))
      BY <2>1
    <3>2. Len(queue) \in Nat \ {0} /\ quit' = quit
      BY <3>1, EmptySeq DEF TryBatchPopDone, IsQueueEmpty, QueueInv, ClientsTypeOK
    <3>3. BatchSize(n) \in 1 .. Len(queue)
      BY <3>2, ClientAssumption DEF BatchSize
    <3> QED
      BY <3>1, <3>2, <3>3, TakeDelivers
  <2>2. CASE TryPopEmpty /\ UNCHANGED <<pushed, popped>>
    BY <2>2 DEF TryPopEmpty, queueVars
  <2> QED
    BY <1>6, <2>1, <2>2 DEF TryBatchPop
<1>7. ASSUME NEW t \in Thread, CallQuit(t)
      PROVE  QueueChannel!ChannelNext
  BY <1>7 DEF CallQuit, Quit, QueueChannel!Close
<1>8. CASE UNCHANGED clientsVars
  BY <1>8 DEF clientsVars
<1> QED
  BY <1>1, <1>2, <1>3, <1>4, <1>5, <1>6, <1>7, <1>8 DEF ClientsNext

(* The bounded queue of the collector implements a lossless FIFO channel   *)
(* of depth capacity_ that can be closed once: what the uploader and the   *)
(* thread pool rely on.                                                    *)
THEOREM QueueImplementsChannel == ClientsSpec => QueueIsChannel
<1>1. ClientsInit => QueueChannel!ChannelInit
  BY DEF ClientsInit, QueueInit, QueueChannel!ChannelInit
<1> QED
  BY <1>1, QueueInvariant, StepChannel, PTL
  DEF ClientsSpec, QueueIsChannel, QueueChannel!ChannelSpec

(* For any threads, items and capacity the queue is safe: see QueueSafe.   *)
THEOREM QueueIsSafe == ClientsSpec => []QueueSafe
BY QueueInvariant, PTL DEF QueueInv, QueueSafe

-----------------------------------------------------------------------------
(* The inductive invariant *)

(* every accepted chunk is sent, in hand or queued, and the queue has room *)
Data ==
  /\ queue \in Seq(Chunk) /\ accepted \in Seq(Chunk) /\ delivered \in Seq(Chunk)
  /\ held \in Chunk \cup {NoChunk}
  /\ Conserved /\ Len(queue) <= Capacity

(* the types of what the threads share *)
Shared ==
  /\ quit \in BOOLEAN /\ inMap \in BOOLEAN /\ settled \in BOOLEAN
  /\ forceQuit \in BOOLEAN /\ threadQuit \in BOOLEAN /\ isStarted \in BOOLEAN
  /\ cvPush \subseteq {Sender} /\ cvPop \subseteq Producer
  /\ uploaderMutex \subseteq {Owner} /\ destroyer \subseteq Producer \cup {Owner}
  /\ tried \in [Producer -> 0 .. MaxChunk]

(* the steps of ~Uploader, and those of Flush and of what follows it *)
Stops == {"destroy", "queueQuit", "threadQuit", "join", "stopped"}
Owns == {"own", "flush", "flushed", "delete"}
Others == Producer \cup {Owner}

Places ==
  /\ pc = [t \in Producer \cup {Owner, Sender} |-> pc[t]]
  /\ pc[Sender] \in {"idle", "tryPop", "isQuit", "pop", "send", "forceQuit", "exit"}
  /\ pc[Owner] \in {"create", "end"} \cup Owns \cup Stops
  /\ \A p \in Producer : /\ pc[p] \in {"idle", "push", "release", "end"} \cup Stops
                         /\ pc[p] \in {"push", "release"} => tried[p] >= 1

(* the map refers to the uploader until the owner lets go of it; before    *)
(* there is an uploader nobody has anything to do with it                  *)
InCharge ==
  /\ inMap <=> pc[Owner] \in Owns
  /\ pc[Owner] = "create" =>
       destroyer = {} /\ ~isStarted /\ pc[Sender] = "idle" /\ \A p \in Producer : pc[p] = "idle"

(* who runs ~Uploader is the only one, and nobody has a reference left *)
OneDestroyer ==
  /\ \A t \in Others : pc[t] \in Stops => destroyer = {t}
  /\ destroyer # {} =>
       /\ \E t \in Others : destroyer = {t} /\ pc[t] \in Stops \cup {"end"}
       /\ ~inMap /\ Pinned = {}

(* the thread that was started is joined, and not left before its end *)
Joined ==
  /\ (\A t \in destroyer : pc[t] \in {"destroy", "queueQuit", "threadQuit"}) =>
       isStarted \/ pc[Sender] = "idle"
  /\ \A t \in destroyer : pc[t] \in {"stopped", "end"} => pc[Sender] \in {"idle", "exit"}

(* a flush that no producer can race leaves an empty queue *)
Settled ==
  settled =>
    /\ NoMoreChunks
    /\ pc[Owner] \in {"flush", "flushed", "delete", "end"} \cup Stops
    /\ pc[Owner] # "flush" => queue = <<>>

(* the sender has a chunk in hand exactly while it sends *)
Handed == held # NoChunk <=> pc[Sender] = "send"

Control == Shared /\ Places /\ InCharge /\ OneDestroyer /\ Joined /\ Settled /\ Handed
UInv == Data /\ Control

-----------------------------------------------------------------------------
(* The chunks *)

(* The mark of an empty hand is no chunk.                                  *)
LEMMA NoChunkIsNone == NoChunk \notin Chunk
BY DEF NoChunk, Chunk

(* what left the uploader or is about to *)
Out == delivered \o InHand

(* What was accepted is what left the queue and what is in it.             *)
LEMMA OutIsSeq == ASSUME Data PROVE Out \in Seq(Chunk) /\ IsConcat(accepted, Out, queue)
<1>1. InHand \in Seq(Chunk)
  BY DEF Data, InHand
<1>2. Out \in Seq(Chunk)
  <2>1. IsConcat(Out, delivered, InHand)
    BY DEF Out, IsConcat
  <2> QED
    BY <1>1, <2>1, ConcatIsSeq DEF Data
<1> QED
  BY <1>2 DEF Data, Conserved, Out, IsConcat

(* Nothing moves. *)
LEMMA ChunksRest ==
  ASSUME Data, UNCHANGED <<queue, accepted, delivered, held>>
  PROVE  Data'
BY DEF Data, Conserved, InHand

(* Push: the chunk enters a queue that has room. *)
Pushed(x) == Enqueue(x) /\ accepted' = Append(accepted, x)

(* A push that finds room keeps every chunk, in order.                     *)
LEMMA ChunkPushed ==
  ASSUME Data, NEW x \in Chunk, ~IsQueueFull, Pushed(x), UNCHANGED <<delivered, held>>
  PROVE  Data'
<1> USE CapacityAssumption
<1>1. queue \in Seq(Chunk) /\ Len(queue) \in Nat /\ Len(queue) < Capacity
  BY LenProperties DEF Data, IsQueueFull
<1>2. IsAppend(queue', queue, x) /\ IsAppend(accepted', accepted, x)
  BY DEF IsAppend, Pushed, Enqueue
<1>3. Out \in Seq(Chunk) /\ IsConcat(accepted, Out, queue)
  BY OutIsSeq
<1>4. /\ queue' \in Seq(Chunk) /\ accepted' \in Seq(Chunk) /\ Len(queue') = Len(queue) + 1
      /\ IsConcat(accepted', Out, queue')
  BY <1>1, <1>2, <1>3, AppendToQueued
<1>5. Out' = Out
  BY DEF Out, InHand
<1>6. Conserved'
  BY <1>4, <1>5 DEF Conserved, IsConcat, Out
<1> QED
  BY <1>1, <1>4, <1>6 DEF Data

(* Pop: the head of the queue is taken in hand. *)
Taken == Dequeue /\ held' = Head(queue)

(* A pop keeps every chunk, in order.                                      *)
LEMMA ChunkPopped ==
  ASSUME Data, held = NoChunk, ~IsQueueEmpty, Taken, UNCHANGED <<accepted, delivered>>
  PROVE  Data' /\ held' \in Chunk
<1> USE CapacityAssumption
<1>1. queue \in Seq(Chunk) /\ queue # <<>> /\ Len(queue) \in Nat /\ Len(queue) <= Capacity
  BY LenProperties DEF Data, IsQueueEmpty
<1>2. 1 \in 1 .. Len(queue) /\ queue' = SubSeq(queue, 1 + 1, Len(queue))
  BY <1>1, TailIsTransfer DEF Taken, Dequeue
<1>3. held' \in Chunk /\ held' = queue[1]
  BY <1>1, <1>2, ElementOfSeq DEF Taken
<1>4. Out = delivered
  BY ConcatEmptySeq DEF Out, InHand, Data
<1>5. Out' = Out \o SubSeq(queue, 1, 1)
  <2>1. InHand' = <<queue[1]>>
    BY <1>3, NoChunkIsNone DEF InHand
  <2>2. SubSeq(queue, 1, 1) = <<queue[1]>>
    <3>1. SubSeq(queue, 1, 1) = <<queue[1]>> \o SubSeq(queue, 1 + 1, 1)
      BY <1>1, <1>2, SubSeqRecursiveFirst
    <3>2. SubSeq(queue, 1 + 1, 1) = <<>>
      BY <1>1, SubSeqEmpty
    <3>3. <<queue[1]>> \in Seq(Chunk)
      BY <1>3
    <3> QED
      BY <3>1, <3>2, <3>3, ConcatEmptySeq
  <2> QED
    BY <1>4, <2>1, <2>2, Zenon DEF Out
<1>6. IsTransfer(Out', queue', Out, queue, 1)
  BY <1>2, <1>5 DEF IsTransfer
<1>7. queue' \in Seq(Chunk) /\ Len(queue') = Len(queue) - 1 /\ IsConcat(accepted, Out', queue')
  <2>1. Out \in Seq(Chunk) /\ IsConcat(accepted, Out, queue)
    BY OutIsSeq
  <2>2. queue \in Seq(Chunk) /\ 1 \in 1 .. Len(queue)
    BY <1>1, <1>2
  <2> QED
    BY <1>6, <2>1, <2>2, TakeFromQueued
<1>8. Conserved'
  BY <1>7 DEF Conserved, IsConcat, Out
<1> QED
  BY <1>1, <1>3, <1>7, <1>8 DEF Data

(* SendBuffer: the chunk in hand is sent. *)
LEMMA ChunkSent ==
  ASSUME Data, held # NoChunk, delivered' = Append(delivered, held), held' = NoChunk,
         UNCHANGED <<queue, accepted>>
  PROVE  Data' /\ delivered' = Out
<1>1. held \in Chunk /\ delivered \in Seq(Chunk)
  BY DEF Data
<1>2. delivered' = Out /\ delivered' \in Seq(Chunk)
  BY <1>1, AppendIsConcat, AppendProperties DEF Out, InHand
<1>3. Out' = Out
  BY <1>2, ConcatEmptySeq DEF Out, InHand
<1>4. Conserved'
  BY <1>3 DEF Conserved, Out, Data
<1> QED
  BY <1>2, <1>4 DEF Data, NoChunk

-----------------------------------------------------------------------------
(* The steps *)

(* The invariant holds before the uploader is created.                     *)
LEMMA UploaderInitially == Init => UInv
<1> SUFFICES ASSUME Init PROVE UInv
  OBVIOUS
<1>1. <<>> \in Seq(Chunk) /\ Len(<<>>) = 0 /\ (<<>> \o <<>>) \o <<>> = <<>>
  BY ConcatEmptySeq, EmptySeq
<1>2. Conserved
  BY <1>1, Zenon DEF Init, QueueInit, Conserved, InHand
<1>3. Data
  BY <1>1, <1>2, CapacityAssumption DEF Init, QueueInit, Data
<1>4. Shared
  <2>1. tried \in [Producer -> 0 .. MaxChunk]
    BY UploaderAssumption DEF Init
  <2>2. /\ quit = FALSE /\ inMap = FALSE /\ settled = FALSE /\ forceQuit = FALSE
        /\ threadQuit = FALSE /\ isStarted = FALSE /\ cvPush = {} /\ cvPop = {}
        /\ uploaderMutex = {} /\ destroyer = {}
    BY DEF Init, QueueInit, Nobody
  <2> QED
    BY <2>1, <2>2 DEF Shared
<1>5. Places
  BY UploaderAssumption DEF Init, Places, Pinned, Owns, Stops
<1>6. InCharge /\ OneDestroyer /\ Joined /\ Settled /\ Handed
  BY UploaderAssumption DEF Init, InCharge, OneDestroyer, Joined, Settled, Handed, Nobody, Others, Owns, Stops
<1> QED
  BY <1>3, <1>4, <1>5, <1>6 DEF UInv, Control

(* CreateUploader preserves the invariant.                                 *)
LEMMA CreateStep == ASSUME UInv, CreateUploader PROVE UInv'
<1> USE UploaderAssumption DEF UInv, Control
<1>1. Data'
  BY ChunksRest DEF CreateUploader, queueVars, history
<1>2. Shared'
  BY DEF CreateUploader, queueVars, threadVars, history, Goto, Shared
<1>3. Places'
  BY DEF CreateUploader, queueVars, threadVars, history, Goto, Places, Pinned, Stops, Owns, Shared
<1>4. InCharge'
  BY DEF CreateUploader, queueVars, threadVars, history, Goto, InCharge, Owns, Places, Stops
<1>5. OneDestroyer'
  BY DEF CreateUploader, queueVars, threadVars, history, Goto, OneDestroyer, InCharge, Pinned,
     Others, Stops, Owns, Places, Shared
<1>6. Joined'
  BY DEF CreateUploader, queueVars, threadVars, history, Goto, Joined, InCharge, OneDestroyer,
     Places, Others, Stops, Owns
<1>7. Settled'
  BY DEF CreateUploader, queueVars, threadVars, history, Goto, Settled, NoMoreChunks, InCharge,
     OneDestroyer, Places, Others, Stops, Owns, Shared, Pinned
<1>8. Handed'
  BY DEF CreateUploader, queueVars, threadVars, history, Goto, Handed, Places, InCharge, Owns,
     Stops
<1> QED
  BY <1>1, <1>2, <1>3, <1>4, <1>5, <1>6, <1>7, <1>8

(* GetUploader preserves the invariant.                                    *)
LEMMA GetUploaderStep == ASSUME UInv, NEW p \in Producer, GetUploader(p) PROVE UInv'
<1> USE UploaderAssumption DEF UInv, Control
<1>0. /\ pc[p] = "idle" /\ tried[p] < MaxChunk /\ tried' = [tried EXCEPT ![p] = @ + 1]
      /\ \/ inMap /\ pc' = [pc EXCEPT ![p] = "push"]
         \/ ~inMap /\ pc' = pc
      /\ UNCHANGED <<queueVars, inMap, uploaderMutex, threadVars, held, destroyer, history>>
  BY DEF GetUploader, Goto
<1>1. Data'
  BY <1>0, ChunksRest DEF queueVars, history
<1>2. Shared'
  BY <1>0 DEF Shared, queueVars, threadVars, history
<1>3. Places'
  <2>1. \A q \in Producer : tried[q] \in Nat /\ tried'[q] = IF q = p THEN tried[q] + 1 ELSE tried[q]
    BY <1>0 DEF Shared
  <2>2. \A q \in Producer : tried[q] >= 1 => tried'[q] >= 1
    BY <2>1
  <2>3. tried'[p] >= 1
    BY <2>1
  <2>4. /\ pc' = [t \in Producer \cup {Owner, Sender} |-> pc'[t]]
        /\ pc'[Sender] = pc[Sender] /\ pc'[Owner] = pc[Owner]
        /\ \A q \in Producer : pc'[q] = pc[q] \/ (q = p /\ pc'[q] = "push")
    BY <1>0 DEF Places
  <2> QED
    BY <2>2, <2>3, <2>4 DEF Places
<1>4. InCharge'
  BY <1>0 DEF InCharge, queueVars, threadVars, history, Owns, Places, Stops
<1>5. OneDestroyer'
  BY <1>0 DEF OneDestroyer, queueVars, threadVars, history, InCharge, Pinned, Others, Stops, Owns,
     Places, Shared
<1>6. Joined'
  BY <1>0 DEF Joined, queueVars, threadVars, history, InCharge, OneDestroyer, Places, Others,
     Stops, Owns
<1>7. Settled'
  BY <1>0 DEF Settled, queueVars, threadVars, history, NoMoreChunks, InCharge, OneDestroyer,
     Places, Others, Stops, Owns, Shared, Pinned
<1>8. Handed'
  BY <1>0 DEF Handed, queueVars, threadVars, history, Places, InCharge, Owns, Stops
<1> QED
  BY <1>1, <1>2, <1>3, <1>4, <1>5, <1>6, <1>7, <1>8

(* UploadData preserves the invariant.                                     *)
LEMMA UploadDataStep == ASSUME UInv, NEW p \in Producer, UploadData(p) PROVE UInv'
<1> USE UploaderAssumption DEF UInv, Control
<1>0. /\ pc[p] = "push" /\ quit' = quit /\ cvPush' \subseteq cvPush /\ cvPop' \subseteq cvPop \cup {p}
      /\ pc' = pc \/ pc' = [pc EXCEPT ![p] = "release"]
      /\ UNCHANGED <<inMap, uploaderMutex, threadVars, tried, held, destroyer, settled, delivered>>
      /\ ~settled /\ tried[p] >= 1
  <2>1. CASE PushWait(p) /\ UNCHANGED <<pc, accepted>>
    BY <2>1 DEF UploadData, PushWait, Settled, NoMoreChunks, Places
  <2>2. CASE PushDone(p, <<p, tried[p]>>) /\ Goto(p, "release")
    BY <2>2 DEF UploadData, PushDone, Enqueue, NotifyPush, Goto, Settled, NoMoreChunks, Places
  <2>3. CASE PushRefused(p) /\ Goto(p, "release")
    BY <2>3 DEF UploadData, PushRefused, queueVars, Goto, Settled, NoMoreChunks, Places
  <2> QED
    BY <2>1, <2>2, <2>3 DEF UploadData
<1>1. Data'
  <2>1. CASE PushDone(p, <<p, tried[p]>>) /\ accepted' = Append(accepted, <<p, tried[p]>>)
    <3>1. <<p, tried[p]>> \in Chunk
      BY <1>0 DEF Chunk, Shared
    <3> QED
      BY <1>0, <2>1, <3>1, ChunkPushed DEF PushDone, Pushed
  <2>2. CASE (PushWait(p) \/ PushRefused(p)) /\ UNCHANGED accepted
    BY <1>0, <2>2, ChunksRest DEF PushWait, PushRefused, queueVars
  <2> QED
    BY <2>1, <2>2 DEF UploadData
<1>2. Shared'
  BY <1>0 DEF Shared, queueVars, threadVars, history
<1>3. Places'
  BY <1>0 DEF Places, queueVars, threadVars, history, Pinned, Stops, Owns, Shared
<1>4. InCharge'
  BY <1>0 DEF InCharge, queueVars, threadVars, history, Owns, Places, Stops
<1>5. OneDestroyer'
  BY <1>0 DEF OneDestroyer, queueVars, threadVars, history, InCharge, Pinned, Others, Stops, Owns,
     Places, Shared
<1>6. Joined'
  BY <1>0 DEF Joined, queueVars, threadVars, history, InCharge, OneDestroyer, Places, Others,
     Stops, Owns
<1>7. Settled'
  BY <1>0 DEF Settled, queueVars, threadVars, history, NoMoreChunks, InCharge, OneDestroyer,
     Places, Others, Stops, Owns, Shared, Pinned
<1>8. Handed'
  BY <1>0 DEF Handed, queueVars, threadVars, history, Places, InCharge, Owns, Stops
<1> QED
  BY <1>1, <1>2, <1>3, <1>4, <1>5, <1>6, <1>7, <1>8

(* Release preserves the invariant.                                        *)
LEMMA ReleaseStep == ASSUME UInv, NEW p \in Producer, Release(p) PROVE UInv'
<1> USE UploaderAssumption DEF UInv, Control
<1>0. /\ pc[p] = "release" /\ Pinned # {} /\ destroyer = {} /\ ~settled
      /\ \/ ~inMap /\ Pinned = {p} /\ pc' = [pc EXCEPT ![p] = "destroy"] /\ destroyer' = {p}
         \/ (inMap \/ Pinned # {p}) /\ pc' = [pc EXCEPT ![p] = "idle"] /\ destroyer' = destroyer
      /\ UNCHANGED <<queueVars, inMap, uploaderMutex, threadVars, tried, held, history>>
  BY DEF Release, Goto, Pinned, OneDestroyer, Settled, NoMoreChunks
<1>1. Data'
  BY <1>0, ChunksRest DEF queueVars, history
<1>2. Shared'
  BY <1>0 DEF Shared, queueVars, threadVars, history
<1>3. Places'
  BY <1>0 DEF Places, queueVars, threadVars, history, Pinned, Stops, Owns, Shared
<1>4. InCharge'
  BY <1>0 DEF InCharge, queueVars, threadVars, history, Owns, Places, Stops
<1>5. OneDestroyer'
  BY <1>0 DEF OneDestroyer, queueVars, threadVars, history, InCharge, Pinned, Others, Stops, Owns,
     Places, Shared
<1>6. Joined'
  BY <1>0 DEF Joined, queueVars, threadVars, history, InCharge, OneDestroyer, Places, Others,
     Stops, Owns
<1>7. Settled'
  BY <1>0 DEF Settled, queueVars, threadVars, history, NoMoreChunks, InCharge, OneDestroyer,
     Places, Others, Stops, Owns, Shared, Pinned
<1>8. Handed'
  BY <1>0 DEF Handed, queueVars, threadVars, history, Places, InCharge, Owns, Stops
<1> QED
  BY <1>1, <1>2, <1>3, <1>4, <1>5, <1>6, <1>7, <1>8

(* A step of the sender, which stays at work or ends. *)
LEMMA SenderControl ==
  ASSUME UInv, pc[Sender] \in {"tryPop", "isQuit", "pop", "send", "forceQuit"},
         pc' = [pc EXCEPT ![Sender] = pc'[Sender]],
         pc'[Sender] \in {"tryPop", "isQuit", "pop", "send", "forceQuit", "exit"},
         UNCHANGED <<quit, inMap, uploaderMutex, threadVars, tried, destroyer, settled>>,
         cvPush' \subseteq {Sender}, cvPop' \subseteq cvPop, queue = <<>> => queue' = <<>>,
         held' # NoChunk <=> pc'[Sender] = "send"
  PROVE  Control'
<1> USE UploaderAssumption DEF UInv, Control
<1>1. Shared'
  BY DEF Shared, queueVars, threadVars, history
<1>2. Places'
  BY DEF Places, queueVars, threadVars, history, Pinned, Stops, Owns, Shared
<1>3. InCharge'
  BY DEF InCharge, queueVars, threadVars, history, Owns, Places, Stops
<1>4. OneDestroyer'
  <2>1. \A t \in Others : pc'[t] = pc[t]
    BY DEF Others, Places
  <2>2. Pinned' = Pinned
    BY <2>1 DEF Pinned, Others
  <2> QED
    BY <2>1, <2>2 DEF OneDestroyer
<1>5. Joined'
  BY DEF Joined, queueVars, threadVars, history, InCharge, OneDestroyer, Places, Others, Stops,
     Owns
<1>6. Settled'
  BY DEF Settled, queueVars, threadVars, history, NoMoreChunks, InCharge, OneDestroyer, Places,
     Others, Stops, Owns, Shared, Pinned
<1>7. Handed'
  BY DEF Handed, queueVars, threadVars, history, Places, InCharge, Owns, Stops
<1> QED
  BY <1>1, <1>2, <1>3, <1>4, <1>5, <1>6, <1>7

(* The sender takes a chunk in hand without touching what the others see.  *)
LEMMA PopsStep ==
  ASSUME UInv, ~IsQueueEmpty, Taken, pc[Sender] \in {"tryPop", "pop"}, Goto(Sender, "send"),
         UNCHANGED <<inMap, uploaderMutex, threadVars, tried, destroyer, settled, accepted, delivered>>
  PROVE  UInv'
<1>1. held = NoChunk
  BY DEF UInv, Control, Handed
<1>2. Data' /\ held' \in Chunk
  BY <1>1, ChunkPopped DEF UInv
<1>3. /\ cvPop' = {} /\ UNCHANGED <<quit, cvPush>> /\ queue # <<>> /\ cvPush \subseteq {Sender}
      /\ pc' = [pc EXCEPT ![Sender] = pc'[Sender]] /\ pc'[Sender] = "send"
  BY UploaderAssumption DEF Taken, Dequeue, NotifyPop, IsQueueEmpty, Goto, UInv, Control, Shared, Places
<1>4. Control'
  BY <1>2, <1>3, NoChunkIsNone, SenderControl
<1> QED
  BY <1>2, <1>4 DEF UInv

(* The steps of Run preserve the invariant.                                *)
LEMMA SenderStep == ASSUME UInv, SenderNext PROVE UInv'
<1> USE DEF SenderFrame
<1>0. /\ \A l : Goto(Sender, l) => pc' = [pc EXCEPT ![Sender] = pc'[Sender]] /\ pc'[Sender] = l
      /\ held # NoChunk <=> pc[Sender] = "send"
      /\ cvPush \subseteq {Sender}
  BY DEF Goto, UInv, Control, Places, Handed, Shared
<1>1. CASE SendTryPop
  <2>1. CASE TryPopDone /\ held' = Head(queue) /\ Goto(Sender, "send")
    BY <1>1, <2>1, PopsStep DEF SendTryPop, TryPopDone, Taken
  <2>2. CASE TryPopEmpty /\ UNCHANGED held /\ Goto(Sender, "isQuit")
    <3>1. UNCHANGED <<queue, quit, cvPush, cvPop, accepted, delivered, held>>
      BY <1>1, <2>2 DEF SendTryPop, TryPopEmpty, queueVars
    <3>2. Data'
      BY <3>1, ChunksRest DEF UInv
    <3>3. Control'
      BY <1>0, <1>1, <2>2, <3>1, SenderControl DEF SendTryPop
    <3> QED
      BY <3>2, <3>3 DEF UInv
  <2> QED
    BY <1>1, <2>1, <2>2 DEF SendTryPop
<1>2. CASE SendIsQuit \/ SendLoop
  <2>1. /\ pc[Sender] \in {"isQuit", "forceQuit"}
        /\ UNCHANGED <<queue, quit, cvPush, cvPop, accepted, delivered, held>>
        /\ UNCHANGED <<inMap, uploaderMutex, threadVars, tried, destroyer, settled>>
        /\ Goto(Sender, "exit") \/ Goto(Sender, "pop") \/ Goto(Sender, "tryPop")
    BY <1>2 DEF SendIsQuit, SendLoop, queueVars
  <2>2. Data'
    BY <2>1, ChunksRest DEF UInv
  <2>3. Control'
    BY <1>0, <2>1, SenderControl
  <2> QED
    BY <2>2, <2>3 DEF UInv
<1>3. CASE SendPop
  <2>1. CASE PopWait(Sender) /\ UNCHANGED <<held, pc>>
    <3>1. /\ cvPush' = cvPush \cup {Sender}
          /\ UNCHANGED <<queue, quit, cvPop, accepted, delivered, held, pc>>
      BY <1>3, <2>1 DEF SendPop, PopWait
    <3>2. Data'
      BY <3>1, ChunksRest DEF UInv
    <3>3. pc' = [pc EXCEPT ![Sender] = pc'[Sender]] /\ pc[Sender] = "pop"
      BY <1>3, <3>1 DEF SendPop, UInv, Control, Places
    <3>4. Control'
      BY <1>0, <1>3, <3>1, <3>3, SenderControl DEF SendPop
    <3> QED
      BY <3>2, <3>4 DEF UInv
  <2>2. CASE PopDone(Sender) /\ held' = Head(queue) /\ Goto(Sender, "send")
    BY <1>3, <2>2, PopsStep DEF SendPop, PopDone, Taken
  <2>3. CASE PopRefused(Sender) /\ UNCHANGED held /\ Goto(Sender, "forceQuit")
    <3>1. UNCHANGED <<queue, quit, cvPush, cvPop, accepted, delivered, held>>
      BY <1>3, <2>3 DEF SendPop, PopRefused, queueVars
    <3>2. Data'
      BY <3>1, ChunksRest DEF UInv
    <3>3. Control'
      BY <1>0, <1>3, <2>3, <3>1, SenderControl DEF SendPop
    <3> QED
      BY <3>2, <3>3 DEF UInv
  <2> QED
    BY <1>3, <2>1, <2>2, <2>3 DEF SendPop
<1>4. CASE SendBuffer
  <2>1. /\ pc[Sender] = "send" /\ delivered' = Append(delivered, held) /\ held' = NoChunk
        /\ UNCHANGED <<queue, quit, cvPush, cvPop, accepted>> /\ Goto(Sender, "forceQuit")
        /\ UNCHANGED <<inMap, uploaderMutex, threadVars, tried, destroyer, settled>>
    BY <1>4 DEF SendBuffer, queueVars
  <2>2. Data'
    BY <1>0, <2>1, ChunkSent DEF UInv
  <2>3. Control'
    BY <1>0, <2>1, SenderControl
  <2> QED
    BY <2>2, <2>3 DEF UInv
<1> QED
  BY <1>1, <1>2, <1>3, <1>4 DEF SenderNext

(* CallFlush preserves the invariant.                                      *)
LEMMA CallFlushStep == ASSUME UInv, CallFlush PROVE UInv'
<1> USE UploaderAssumption DEF UInv, Control
<1>0. /\ pc[Owner] \in {"own"} /\ pc' = [pc EXCEPT ![Owner] = "flush"]
      /\ settled' = NoMoreChunks
      /\ UNCHANGED <<queueVars, inMap, uploaderMutex, threadVars, tried, held, destroyer, accepted,
                     delivered>>
  BY DEF CallFlush, Goto, history
<1>1. Data'
  BY <1>0, ChunksRest DEF queueVars
<1>2. Shared'
  BY <1>0 DEF NoMoreChunks, Shared, queueVars, threadVars
<1>3. Places'
  BY <1>0 DEF Places, queueVars, threadVars, history, Pinned, Stops, Owns, Shared
<1>4. InCharge'
  BY <1>0 DEF InCharge, queueVars, threadVars, history, Owns, Places, Stops
<1>5. OneDestroyer'
  BY <1>0 DEF OneDestroyer, queueVars, threadVars, history, InCharge, Pinned, Others, Stops, Owns,
     Places, Shared
<1>6. Joined'
  BY <1>0 DEF Joined, queueVars, threadVars, history, InCharge, OneDestroyer, Places, Others,
     Stops, Owns
<1>7. Settled'
  BY <1>0 DEF Settled, queueVars, threadVars, history, NoMoreChunks, InCharge, OneDestroyer,
     Places, Others, Stops, Owns, Shared, Pinned
<1>8. Handed'
  BY <1>0 DEF Handed, queueVars, threadVars, history, Places, InCharge, Owns, Stops
<1> QED
  BY <1>1, <1>2, <1>3, <1>4, <1>5, <1>6, <1>7, <1>8

(* Flush preserves the invariant.                                          *)
LEMMA FlushStep == ASSUME UInv, Flush PROVE UInv'
<1> USE UploaderAssumption DEF UInv, Control
<1>0. /\ pc[Owner] \in {"flush"} /\ pc' = [pc EXCEPT ![Owner] = "flushed"]
      /\ settled' = settled /\ Len(queue) = 0
      /\ UNCHANGED <<queueVars, inMap, uploaderMutex, threadVars, tried, held, destroyer, accepted,
                     delivered>>
  BY DEF Flush, Goto, history
<1>1. Data'
  BY <1>0, ChunksRest DEF queueVars
<1>2. Shared'
  BY <1>0 DEF Shared, queueVars, threadVars, history
<1>3. Places'
  BY <1>0 DEF Places, queueVars, threadVars, history, Pinned, Stops, Owns, Shared
<1>4. InCharge'
  BY <1>0 DEF InCharge, queueVars, threadVars, history, Owns, Places, Stops
<1>5. OneDestroyer'
  BY <1>0 DEF OneDestroyer, queueVars, threadVars, history, InCharge, Pinned, Others, Stops, Owns,
     Places, Shared
<1>6. Joined'
  BY <1>0 DEF Joined, queueVars, threadVars, history, InCharge, OneDestroyer, Places, Others,
     Stops, Owns
<1>7. Settled'
  BY <1>0 DEF Settled, queueVars, threadVars, history, NoMoreChunks, InCharge, OneDestroyer,
     Places, Others, Stops, Owns, Shared, Pinned
<1>8. Handed'
  BY <1>0 DEF Handed, queueVars, threadVars, history, Places, InCharge, Owns, Stops
<1> QED
  BY <1>1, <1>2, <1>3, <1>4, <1>5, <1>6, <1>7, <1>8

(* WriteDone preserves the invariant.                                      *)
LEMMA WriteDoneStep == ASSUME UInv, WriteDone PROVE UInv'
<1> USE UploaderAssumption DEF UInv, Control
<1>0. /\ pc[Owner] \in {"flushed"} /\ pc' = [pc EXCEPT ![Owner] = "delete"]
      /\ settled' = settled
      /\ UNCHANGED <<queueVars, inMap, uploaderMutex, threadVars, tried, held, destroyer, accepted,
                     delivered>>
  BY DEF WriteDone, Goto, history
<1>1. Data'
  BY <1>0, ChunksRest DEF queueVars
<1>2. Shared'
  BY <1>0 DEF Shared, queueVars, threadVars, history
<1>3. Places'
  BY <1>0 DEF Places, queueVars, threadVars, history, Pinned, Stops, Owns, Shared
<1>4. InCharge'
  BY <1>0 DEF InCharge, queueVars, threadVars, history, Owns, Places, Stops
<1>5. OneDestroyer'
  BY <1>0 DEF OneDestroyer, queueVars, threadVars, history, InCharge, Pinned, Others, Stops, Owns,
     Places, Shared
<1>6. Joined'
  BY <1>0 DEF Joined, queueVars, threadVars, history, InCharge, OneDestroyer, Places, Others,
     Stops, Owns
<1>7. Settled'
  BY <1>0 DEF Settled, queueVars, threadVars, history, NoMoreChunks, InCharge, OneDestroyer,
     Places, Others, Stops, Owns, Shared, Pinned
<1>8. Handed'
  BY <1>0 DEF Handed, queueVars, threadVars, history, Places, InCharge, Owns, Stops
<1> QED
  BY <1>1, <1>2, <1>3, <1>4, <1>5, <1>6, <1>7, <1>8

(* DelUploader preserves the invariant.                                    *)
LEMMA DelUploaderStep == ASSUME UInv, DelUploader PROVE UInv'
<1> USE UploaderAssumption DEF UInv, Control
<1>0. /\ pc[Owner] \in {"own", "delete"} /\ inMap' = FALSE /\ destroyer = {}
      /\ \/ /\ Pinned = {} /\ pc' = [pc EXCEPT ![Owner] = "destroy"]
            /\ destroyer' = {Owner} /\ uploaderMutex' = {Owner}
         \/ /\ pc' = [pc EXCEPT ![Owner] = "end"]
            /\ UNCHANGED <<destroyer, uploaderMutex>>
      /\ UNCHANGED <<queueVars, threadVars, tried, held, history>>
  BY DEF DelUploader, Goto, InCharge, OneDestroyer, Owns
<1>1. Data'
  BY <1>0, ChunksRest DEF queueVars, history
<1>2. Shared'
  BY <1>0 DEF Shared, queueVars, threadVars, history
<1>3. Places'
  BY <1>0 DEF Places, queueVars, threadVars, history, Pinned, Stops, Owns, Shared
<1>4. InCharge'
  BY <1>0 DEF InCharge, queueVars, threadVars, history, Owns, Places, Stops
<1>5. OneDestroyer'
  BY <1>0 DEF OneDestroyer, queueVars, threadVars, history, InCharge, Pinned, Others, Stops, Owns,
     Places, Shared
<1>6. Joined'
  BY <1>0 DEF Joined, queueVars, threadVars, history, InCharge, OneDestroyer, Places, Others,
     Stops, Owns
<1>7. Settled'
  BY <1>0 DEF Settled, queueVars, threadVars, history, NoMoreChunks, InCharge, OneDestroyer,
     Places, Others, Stops, Owns, Shared, Pinned
<1>8. Handed'
  BY <1>0 DEF Handed, queueVars, threadVars, history, Places, InCharge, Owns, Stops
<1> QED
  BY <1>1, <1>2, <1>3, <1>4, <1>5, <1>6, <1>7, <1>8

(* A step of ~Uploader, on whichever thread. *)
LEMMA StopControl ==
  ASSUME UInv, NEW t \in Others, pc[t] \in Stops, pc'[t] \in Stops \cup {"end"},
         pc' = [pc EXCEPT ![t] = pc'[t]], Shared', Joined',
         UNCHANGED <<queue, accepted, delivered, held, inMap, tried, destroyer, settled>>
  PROVE  UInv'
<1> USE UploaderAssumption DEF UInv, Control
<1>1. Data'
  BY ChunksRest
<1>2. destroyer = {t} /\ ~inMap /\ Pinned = {}
  BY DEF OneDestroyer
<1>3. Places'
  BY DEF Places, Others, Stops, Owns
<1>4. InCharge'
  BY <1>2 DEF InCharge, Places, Others, Stops, Owns
<1>5. OneDestroyer'
  <2>1. Pinned' = {}
    BY <1>2 DEF Pinned, Places, Others, Stops
  <2>2. \A u \in Others : u # t => pc'[u] = pc[u]
    BY DEF Places, Others
  <2> QED
    BY <1>2, <2>1, <2>2 DEF OneDestroyer
<1>6. Settled'
  BY DEF Settled, NoMoreChunks, Places, Others, Stops
<1>7. Handed'
  BY DEF Handed, Places, Others
<1> QED
  BY <1>1, <1>3, <1>4, <1>5, <1>6, <1>7

(* The steps of ~Uploader preserve it.                                     *)
LEMMA StopStep == ASSUME UInv, NEW t \in Others, StopNext(t) PROVE UInv'
<1> USE UploaderAssumption
<1>0. /\ Shared /\ destroyer \subseteq Others
      /\ pc[t] \in Stops => destroyer = {t} /\ ~inMap /\ Pinned = {} /\ pc[Sender] = pc[Sender]
      /\ \A l : Goto(t, l) => /\ pc' = [pc EXCEPT ![t] = pc'[t]] /\ pc'[t] = l
                              /\ pc'[Sender] = pc[Sender]
  BY DEF Goto, UInv, Control, Places, OneDestroyer, Others, Shared
<1>1. CASE ForceQuit(t)
  <2>1. /\ pc[t] = "destroy" /\ Goto(t, "queueQuit") /\ forceQuit' = TRUE
        /\ UNCHANGED <<queueVars, threadQuit, isStarted, inMap, uploaderMutex, tried, held, destroyer,
                       history>>
    BY <1>1 DEF ForceQuit, StopFrame
  <2>2. Shared' /\ Joined'
    BY <1>0, <2>1 DEF Shared, Joined, Stops, queueVars, history, UInv, Control
  <2> QED
    BY <1>0, <2>1, <2>2, StopControl DEF Stops, queueVars, history
<1>2. CASE QueueQuit(t)
  <2>1. /\ pc[t] = "queueQuit" /\ Goto(t, "threadQuit") /\ quit' = TRUE /\ queue' = queue
        /\ cvPush' \subseteq cvPush /\ cvPop' \subseteq cvPop
        /\ UNCHANGED <<threadVars, inMap, uploaderMutex, tried, held, destroyer, history>>
    BY <1>2 DEF QueueQuit, StopFrame, Quit, NotifyPush, NotifyPop
  <2>2. Shared' /\ Joined'
    BY <1>0, <2>1 DEF Shared, Joined, Stops, threadVars, history, UInv, Control
  <2> QED
    BY <1>0, <2>1, <2>2, StopControl DEF Stops, history
<1>3. CASE ThreadQuit(t)
  <2>1. /\ pc[t] = "threadQuit" /\ Goto(t, IF isStarted THEN "join" ELSE "stopped")
        /\ threadQuit' = TRUE /\ isStarted' = FALSE
        /\ UNCHANGED <<queueVars, forceQuit, inMap, uploaderMutex, tried, held, destroyer, history>>
    BY <1>3 DEF ThreadQuit, StopFrame
  <2>2. destroyer = {t} /\ (isStarted \/ pc[Sender] = "idle")
    BY <1>0, <2>1 DEF Joined, Stops, UInv, Control
  <2>3. Shared'
    BY <1>0, <2>1 DEF Shared, queueVars, history
  <2>4. Joined'
    BY <1>0, <2>1, <2>2 DEF Joined
  <2> QED
    BY <1>0, <2>1, <2>3, <2>4, StopControl DEF Stops, queueVars, history
<1>4. CASE Join(t)
  <2>1. /\ pc[t] = "join" /\ pc[Sender] = "exit" /\ Goto(t, "stopped")
        /\ UNCHANGED <<queueVars, threadVars, inMap, uploaderMutex, tried, held, destroyer, history>>
    BY <1>4 DEF Join, StopFrame
  <2>2. Shared' /\ Joined'
    BY <1>0, <2>1 DEF Shared, Joined, Stops, queueVars, threadVars, history
  <2> QED
    BY <1>0, <2>1, <2>2, StopControl DEF Stops, queueVars, history
<1>5. CASE Stopped(t)
  <2>1. /\ pc[t] = "stopped" /\ Goto(t, "end") /\ uploaderMutex' = uploaderMutex \ {t}
        /\ UNCHANGED <<queueVars, threadVars, inMap, tried, held, destroyer, history>>
    BY <1>5 DEF Stopped
  <2>2. Shared' /\ Joined'
    BY <1>0, <2>1 DEF Shared, Joined, Stops, queueVars, threadVars, history, UInv, Control
  <2> QED
    BY <1>0, <2>1, <2>2, StopControl DEF Stops, queueVars, history
<1> QED
  BY <1>1, <1>2, <1>3, <1>4, <1>5 DEF StopNext

(* Every step preserves the invariant.                                     *)
LEMMA UploaderStep == UInv /\ [Next]_vars => UInv'
<1> SUFFICES ASSUME UInv, [Next]_vars PROVE UInv'
  OBVIOUS
<1>1. CASE UNCHANGED vars
  <2> USE <1>1 DEF vars, queueVars, threadVars, history, UInv, Control
  <2>1. Data' /\ Shared'
    BY ChunksRest DEF Shared
  <2>2. Places' /\ InCharge' /\ Joined' /\ Handed'
    BY DEF Places, InCharge, Joined, Handed
  <2>3. OneDestroyer' /\ Settled'
    BY DEF OneDestroyer, Settled, NoMoreChunks, Pinned
  <2> QED
    BY <2>1, <2>2, <2>3
<1>2. ASSUME NEW p \in Producer, ProducerNext(p) PROVE UInv'
  BY <1>2, GetUploaderStep, UploadDataStep, ReleaseStep, StopStep DEF ProducerNext, Others
<1>3. CASE OwnerNext
  BY <1>3, CreateStep, CallFlushStep, FlushStep, WriteDoneStep, DelUploaderStep, StopStep
  DEF OwnerNext, Others
<1> QED
  BY <1>1, <1>2, <1>3, SenderStep DEF Next

-----------------------------------------------------------------------------
(* The theorems *)

(* The invariant holds in every reachable state. *)
THEOREM UploaderInvariant == Spec => []UInv
BY UploaderInitially, UploaderStep, PTL DEF Spec

(* The invariant implies what is checked.                                  *)
LEMMA InvariantIsSafe == UInv => UploaderSafe
<1> SUFFICES ASSUME UInv PROVE UploaderSafe
  OBVIOUS
<1> USE UploaderAssumption DEF UInv, Control
<1>1. TypeOK
  <2>1. \A t \in Producer \cup {Owner, Sender} :
          pc[t] \in {"create", "own", "idle", "push", "release", "tryPop", "isQuit", "pop", "send",
                     "forceQuit", "exit", "flush", "flushed", "delete", "destroy", "queueQuit",
                     "threadQuit", "join", "stopped", "end"}
    BY DEF Places, Owns, Stops
  <2> QED
    BY <2>1 DEF TypeOK, Data, Shared, Places
<1>2. FlushedLosesNothing
  <2> SUFFICES ASSUME settled, Destroyed PROVE delivered = accepted
    BY DEF FlushedLosesNothing
  <2>1. PICK t \in destroyer : pc[t] = "end" /\ t \in Others
    BY DEF Destroyed, Shared, Others
  <2>2. t = Owner
    BY <2>1 DEF Settled, NoMoreChunks, Others
  <2>3. queue = <<>> /\ held = NoChunk
    BY <2>1, <2>2 DEF Settled, Joined, Handed
  <2>4. delivered \in Seq(Chunk) /\ accepted = (delivered \o <<>>) \o <<>>
    BY <2>3 DEF Data, Conserved, InHand
  <2> QED
    BY <2>4, ConcatEmptySeq
<1>3. NoUseAfterDestroy
  <2>1. destroyer = {} \/ \E t \in Others : destroyer = {t}
    BY DEF OneDestroyer
  <2>2. Cardinality(destroyer) <= 1
    BY <2>1, FS_EmptySet, FS_Singleton
  <2> QED
    BY <2>2 DEF NoUseAfterDestroy, OneDestroyer, Destroyed, Joined
<1> QED
  BY <1>1, <1>2, <1>3 DEF UploaderSafe, Data

(* For any producers, capacity and number of chunks: no accepted chunk is  *)
(* lost, overwritten or sent twice, a flush that no producer races saves   *)
(* all of them although the uploader is always stopped by force, and its   *)
(* destruction meets neither its thread nor a producer inside it.          *)
THEOREM UploaderIsSafe == Spec => []UploaderSafe
BY UploaderInvariant, InvariantIsSafe, PTL

-----------------------------------------------------------------------------
(* The uploader as a channel *)

(* A chunk is accepted while fewer than Capacity are queued, and the       *)
(* sender has at most one more in hand.                                    *)
LEMMA PushAccepts ==
  ASSUME Data, NEW x \in Chunk, ~IsQueueFull, Pushed(x), UNCHANGED <<delivered, quit>>
  PROVE  Channel!Accept
<1> USE CapacityAssumption
<1>1. Out \in Seq(Chunk) /\ IsConcat(accepted, Out, queue)
  BY OutIsSeq
<1>2. /\ queue \in Seq(Chunk) /\ delivered \in Seq(Chunk) /\ Len(queue) \in Nat
      /\ Len(delivered) \in Nat /\ Len(queue) < Capacity
  BY LenProperties DEF Data, IsQueueFull
<1>3. Len(accepted) = Len(Out) + Len(queue)
  BY <1>1, <1>2, ConcatIsSeq
<1>4. InHand \in Seq(Chunk) /\ Len(InHand) \in Nat /\ Len(InHand) <= 1
  BY DEF InHand, Data
<1>5. Len(Out) = Len(delivered) + Len(InHand)
  <2>1. IsConcat(Out, delivered, InHand)
    BY DEF Out, IsConcat
  <2> QED
    BY <1>2, <1>4, <2>1, ConcatIsSeq
<1>6. Len(accepted) - Len(delivered) < Capacity + 1
  <2>1. Len(accepted) = Len(delivered) + Len(InHand) + Len(queue)
    BY <1>3, <1>5
  <2> DEFINE d == Len(delivered)
             h == Len(InHand)
             q == Len(queue)
  <2>2. d \in Nat /\ h \in Nat /\ h <= 1 /\ q \in Nat /\ q < Capacity
    BY <1>2, <1>4
  <2>3. (d + h + q) - d < Capacity + 1
    <3> HIDE DEF d, h, q
    <3> QED
      BY <2>2
  <2> QED
    BY <2>1, <2>3
<1>7. accepted' = Append(accepted, x)
  BY DEF Pushed
<1> QED
  BY <1>6, <1>7 DEF Channel!Accept

(* The chunk in hand is the next one of those accepted. *)
LEMMA SendDelivers ==
  ASSUME Data, held # NoChunk, SendBuffer
  PROVE  Channel!Deliver
<1>1. /\ delivered' = Append(delivered, held) /\ held' = NoChunk
      /\ UNCHANGED <<queue, accepted, quit>>
  BY DEF SendBuffer, SenderFrame, queueVars
<1>2. delivered' = Out
  BY <1>1, ChunkSent
<1>3. Out \in Seq(Chunk) /\ IsConcat(accepted, Out, queue) /\ queue \in Seq(Chunk)
  BY OutIsSeq DEF Data
<1>4. Len(accepted) = Len(Out) + Len(queue) /\ SubSeq(accepted, 1, Len(Out)) = Out
  BY <1>3, HandedOverIsPrefix
<1>5. Len(Out) = Len(delivered) + 1 /\ Len(delivered) \in Nat
  BY <1>1, <1>2, LenProperties, AppendProperties DEF Data
<1>6. Len(Out) \in Len(delivered) + 1 .. Len(accepted)
  BY <1>3, <1>4, <1>5, LenProperties
<1> QED
  BY <1>1, <1>2, <1>4, <1>6 DEF Channel!Deliver

(* Every step of the uploader is a step of the channel or a stutter.       *)
LEMMA UploaderChannelStep ==
  UInv /\ [Next]_vars => [Channel!ChannelNext]_(Channel!channelVars)
<1> SUFFICES ASSUME UInv, [Next]_vars PROVE [Channel!ChannelNext]_(Channel!channelVars)
  OBVIOUS
<1> USE DEF Channel!ChannelNext, Channel!channelVars
<1>1. ASSUME NEW p \in Producer, GetUploader(p) \/ Release(p)
      PROVE  UNCHANGED <<accepted, delivered, quit>>
  BY <1>1 DEF GetUploader, Release, queueVars, history
<1>2. ASSUME NEW p \in Producer, UploadData(p)
      PROVE  Channel!ChannelNext \/ UNCHANGED <<accepted, delivered, quit>>
  <2>1. CASE PushDone(p, <<p, tried[p]>>) /\ accepted' = Append(accepted, <<p, tried[p]>>)
    <3>1. <<p, tried[p]>> \in Chunk
      BY <1>2 DEF UploadData, Chunk, UInv, Control, Shared, Places
    <3>2. ~IsQueueFull /\ Pushed(<<p, tried[p]>>) /\ UNCHANGED <<delivered, quit>>
      BY <1>2, <2>1 DEF UploadData, PushDone, Pushed, Enqueue
    <3> QED
      BY <3>1, <3>2, PushAccepts DEF UInv
  <2>2. CASE (PushWait(p) \/ PushRefused(p)) /\ UNCHANGED accepted
    BY <1>2, <2>2 DEF UploadData, PushWait, PushRefused, queueVars
  <2> QED
    BY <1>2, <2>1, <2>2 DEF UploadData
<1>3. CASE SenderNext
  <2>1. CASE SendBuffer
    BY <2>1, SendDelivers DEF SendBuffer, UInv, Control, Handed
  <2>2. CASE SendTryPop \/ SendIsQuit \/ SendPop \/ SendLoop
    BY <2>2 DEF SendTryPop, SendIsQuit, SendPop, SendLoop, SenderFrame, TryPopDone, TryPopEmpty,
       PopWait, PopDone, PopRefused, Dequeue, queueVars
  <2> QED
    BY <1>3, <2>1, <2>2 DEF SenderNext
<1>4. ASSUME NEW t \in Others, StopNext(t)
      PROVE  Channel!ChannelNext \/ UNCHANGED <<accepted, delivered, quit>>
  BY <1>4 DEF StopNext, ForceQuit, QueueQuit, ThreadQuit, Join, Stopped, StopFrame, Quit, queueVars,
     history, Channel!Close
<1>5. CASE CreateUploader \/ CallFlush \/ Flush \/ WriteDone \/ DelUploader
  BY <1>5 DEF CreateUploader, CallFlush, Flush, WriteDone, DelUploader, queueVars, history
<1>6. CASE UNCHANGED vars
  BY <1>6 DEF vars, queueVars, history
<1> QED
  BY <1>1, <1>2, <1>3, <1>4, <1>5, <1>6 DEF Next, ProducerNext, OwnerNext, Others

(* From UploadData to the transport, the uploader is a lossless FIFO       *)
(* channel one deeper than its queue, closed when it is destroyed.         *)
THEOREM UploaderImplementsChannel == Spec => ImplementsChannel
<1>1. Init => Channel!ChannelInit
  BY DEF Init, QueueInit, Channel!ChannelInit
<1> QED
  BY <1>1, UploaderInvariant, UploaderChannelStep, PTL
  DEF Spec, ImplementsChannel, Channel!ChannelSpec
=============================================================================
