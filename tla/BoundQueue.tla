----------------------------- MODULE BoundQueue -----------------------------
(***************************************************************************)
(* The bounded blocking queue of the collector                             *)
(* (common/queue/bound_queue_tool.h): a FIFO guarded by one mutex, with    *)
(* two condition variables and a quit flag.  Every method body runs under  *)
(* the mutex, so each is one atomic step, except that a wait releases the  *)
(* mutex.  A blocking method is therefore split into the step that goes to *)
(* sleep and the step that completes; a thread repeats the former as often *)
(* as it finds its predicate false after a notification.                   *)
(*                                                                         *)
(* This module holds the state of one queue and its operations, for other  *)
(* modules to compose; it says nothing about who calls them.  The counters *)
(* pushCnt_ and hisMaxCnt_ and the queue's name only feed log lines and    *)
(* are left out.                                                           *)
(*                                                                         *)
(* Throughout the project a definition Name_What, like Quit_Silent, is a   *)
(* faulty variant of the definition Name that follows it.  No              *)
(* specification uses it; put in the place of Name, it makes some property *)
(* fail.                                                                   *)
(***************************************************************************)
EXTENDS Naturals, Sequences

CONSTANT Capacity   \* capacity_, the constructor's argument

ASSUME CapacityAssumption == Capacity \in Nat \ {0}

VARIABLES
  queue,    \* queue_
  quit,     \* quit_
  cvPush,   \* threads asleep on cvPush_: poppers waiting for an element
  cvPop     \* threads asleep on cvPop_: pushers waiting for room

queueVars == <<queue, quit, cvPush, cvPop>>

QueueInit ==
  /\ queue = <<>>
  /\ quit = FALSE
  /\ cvPush = {}
  /\ cvPop = {}

IsQueueFull_OffByOne == Len(queue) > Capacity
IsQueueFull == Len(queue) = Capacity
IsQueueEmpty == queue = <<>>

(***************************************************************************)
(* cvPush_.notify_all() and cvPop_.notify_all(): no thread sleeps on that  *)
(* condition variable any more; each re-evaluates its predicate when it is *)
(* scheduled.                                                              *)
(***************************************************************************)
NotifyPush == cvPush' = {}
NotifyPop == cvPop' = {}

Enqueue(data) ==
  /\ queue' = Append(queue, data)
  /\ NotifyPush
  /\ UNCHANGED <<quit, cvPop>>

Dequeue_FromBack ==
  /\ queue' = SubSeq(queue, 1, Len(queue) - 1)
  /\ NotifyPop
  /\ UNCHANGED <<quit, cvPush>>

Dequeue ==
  /\ queue' = Tail(queue)
  /\ NotifyPop
  /\ UNCHANGED <<quit, cvPush>>

-----------------------------------------------------------------------------
(* TryPush does not look at quit_. *)
TryPushDone(data) == ~IsQueueFull /\ Enqueue(data)
TryPushFull == IsQueueFull /\ UNCHANGED queueVars

(* Push: wait on cvPop_ while full and not quit, then push unless quit. *)
PushWait(t) ==
  /\ t \notin cvPop
  /\ IsQueueFull /\ ~quit
  /\ cvPop' = cvPop \cup {t}
  /\ UNCHANGED <<queue, quit, cvPush>>

PushDone(t, data) ==
  /\ t \notin cvPop
  /\ ~IsQueueFull /\ ~quit
  /\ Enqueue(data)

PushRefused(t) ==
  /\ t \notin cvPop
  /\ quit
  /\ UNCHANGED queueVars

(* TryPop never waits. *)
TryPopDone == ~IsQueueEmpty /\ Dequeue
TryPopEmpty == IsQueueEmpty /\ UNCHANGED queueVars

(* How many elements TryBatchPop(batchCount) takes. *)
BatchSize(batchCount) ==
  IF batchCount < Len(queue) THEN batchCount ELSE Len(queue)

TryBatchPopDone_Silent(batchCount) ==
  /\ ~IsQueueEmpty
  /\ queue' = SubSeq(queue, BatchSize(batchCount) + 1, Len(queue))
  /\ UNCHANGED <<quit, cvPush, cvPop>>

TryBatchPopDone(batchCount) ==
  /\ ~IsQueueEmpty
  /\ queue' = SubSeq(queue, BatchSize(batchCount) + 1, Len(queue))
  /\ NotifyPop
  /\ UNCHANGED <<quit, cvPush>>

(* Pop: wait on cvPush_ while empty and not quit; a queue that has quit is *)
(* still emptied before Pop fails.                                         *)
PopWait(t) ==
  /\ t \notin cvPush
  /\ IsQueueEmpty /\ ~quit
  /\ cvPush' = cvPush \cup {t}
  /\ UNCHANGED <<queue, quit, cvPop>>

PopDone(t) ==
  /\ t \notin cvPush
  /\ ~IsQueueEmpty
  /\ Dequeue

PopRefused(t) ==
  /\ t \notin cvPush
  /\ IsQueueEmpty /\ quit
  /\ UNCHANGED queueVars

(* Quit and SetQuit do the same thing. *)
Quit_Silent == quit' = TRUE /\ UNCHANGED <<queue, cvPush, cvPop>>

Quit ==
  /\ quit' = TRUE
  /\ IF quit THEN UNCHANGED <<cvPush, cvPop>> ELSE NotifyPush /\ NotifyPop
  /\ UNCHANGED queue
=============================================================================
