---------------------------- MODULE QueueClients ----------------------------
(***************************************************************************)
(* One BoundQueue under every use its interface allows: any thread may     *)
(* call any method at any time.  Blocking calls are in progress over       *)
(* several steps (call[t]); the others are single steps.                   *)
(***************************************************************************)
EXTENDS BoundQueue, FiniteSets

CONSTANTS
  Thread,     \* the threads that share the queue
  Item,       \* what they push
  NoItem,     \* the argument of a call that has none
  MaxBatch,   \* bound: largest batchCount given to TryBatchPop
  MaxPush     \* bound: pushes accepted or in progress, for model checking

ASSUME ClientAssumption ==
  /\ MaxBatch \in Nat \ {0}
  /\ MaxPush \in Nat
  /\ NoItem \notin Item

VARIABLES
  call,       \* call[t]: the blocking method t is executing, or "none"
  arg,        \* arg[t]: the element t is pushing
  pushed,     \* history: every element ever put in the queue, in order
  popped      \* history: every element ever taken out, in order

clientsVars == <<queue, quit, cvPush, cvPop, call, arg, pushed, popped>>

ClientsInit ==
  /\ QueueInit
  /\ call = [t \in Thread |-> "none"]
  /\ arg = [t \in Thread |-> NoItem]
  /\ pushed = <<>>
  /\ popped = <<>>

InPush == {t \in Thread : call[t] = "Push"}
InPop == {t \in Thread : call[t] = "Pop"}

MayPush == Len(pushed) + Cardinality(InPush) < MaxPush

Return(t) ==
  /\ call' = [call EXCEPT ![t] = "none"]
  /\ arg' = [arg EXCEPT ![t] = NoItem]

Accept(item) == pushed' = Append(pushed, item) /\ UNCHANGED popped
Deliver(n) == popped' = popped \o SubSeq(queue, 1, n) /\ UNCHANGED pushed

-----------------------------------------------------------------------------
CallPush(t) ==
  /\ call[t] = "none" /\ MayPush
  /\ call' = [call EXCEPT ![t] = "Push"]
  /\ \E item \in Item : arg' = [arg EXCEPT ![t] = item]
  /\ UNCHANGED <<queueVars, pushed, popped>>

Push(t) ==
  /\ call[t] = "Push"
  /\ \/ PushWait(t) /\ UNCHANGED <<call, arg, pushed, popped>>
     \/ PushDone(t, arg[t]) /\ Return(t) /\ Accept(arg[t])
     \/ PushRefused(t) /\ Return(t) /\ UNCHANGED <<pushed, popped>>

CallPop(t) ==
  /\ call[t] = "none"
  /\ call' = [call EXCEPT ![t] = "Pop"]
  /\ UNCHANGED <<queueVars, arg, pushed, popped>>

Pop(t) ==
  /\ call[t] = "Pop"
  /\ \/ PopWait(t) /\ UNCHANGED <<call, arg, pushed, popped>>
     \/ PopDone(t) /\ Return(t) /\ Deliver(1)
     \/ PopRefused(t) /\ Return(t) /\ UNCHANGED <<pushed, popped>>

TryPush(t) ==
  /\ call[t] = "none" /\ MayPush
  /\ \/ \E item \in Item : TryPushDone(item) /\ Accept(item)
     \/ TryPushFull /\ UNCHANGED <<pushed, popped>>
  /\ UNCHANGED <<call, arg>>

TryPop(t) ==
  /\ call[t] = "none"
  /\ \/ TryPopDone /\ Deliver(1)
     \/ TryPopEmpty /\ UNCHANGED <<pushed, popped>>
  /\ UNCHANGED <<call, arg>>

TryBatchPop(t) ==
  /\ call[t] = "none"
  /\ \/ \E n \in 1 .. MaxBatch : TryBatchPopDone(n) /\ Deliver(BatchSize(n))
     \/ TryPopEmpty /\ UNCHANGED <<pushed, popped>>
  /\ UNCHANGED <<call, arg>>

CallQuit(t) ==
  /\ call[t] = "none"
  /\ Quit
  /\ UNCHANGED <<call, arg, pushed, popped>>

ClientsNext ==
  \E t \in Thread :
    \/ CallPush(t) \/ Push(t)
    \/ CallPop(t) \/ Pop(t)
    \/ TryPush(t) \/ TryPop(t) \/ TryBatchPop(t)
    \/ CallQuit(t)

(* A thread inside a blocking method runs whenever it is not asleep; that  *)
(* it calls one, or that anyone calls Quit, is never assumed.              *)
ClientsFairness == \A t \in Thread : WF_clientsVars(Push(t)) /\ WF_clientsVars(Pop(t))

ClientsSpec == ClientsInit /\ [][ClientsNext]_clientsVars /\ ClientsFairness

-----------------------------------------------------------------------------
(* Every variable has its type, and only a thread inside Push sleeps on    *)
(* cvPop_ and only one inside Pop sleeps on cvPush_.                       *)
ClientsTypeOK ==
  /\ queue \in Seq(Item)
  /\ quit \in BOOLEAN
  /\ cvPush \subseteq InPop
  /\ cvPop \subseteq InPush
  /\ call \in [Thread -> {"none", "Push", "Pop"}]
  /\ arg \in [Thread -> Item \cup {NoItem}]
  /\ \A t \in InPush : arg[t] \in Item
  /\ pushed \in Seq(Item)
  /\ popped \in Seq(Item)

(* Whatever the calls and their order, the queue holds exactly the         *)
(* accepted elements that were not yet handed over, in the order they were *)
(* accepted: nothing is lost, duplicated or overtaken, also not by a batch *)
(* that stops half-way or by a pop that races Quit.                        *)
Fifo == pushed = popped \o queue

(* The queue never holds more than its capacity.  IsQueueFull tests        *)
(* equality, so a single push past the bound would leave it unbounded.     *)
WithinCapacity == Len(queue) <= Capacity

(* No lost wake-up: a thread is asleep only while what it waits for is     *)
(* absent.  Every method that makes room, adds an element or quits must    *)
(* notify the right condition variable for this to hold.                   *)
NoLostWakeup ==
  /\ cvPop # {} => IsQueueFull /\ ~quit
  /\ cvPush # {} => IsQueueEmpty /\ ~quit

(* The queue is safe for any callers: it is first in first out, it stays   *)
(* within its capacity, and nobody sleeps on a condition variable that     *)
(* will not be notified.                                                   *)
QueueSafe ==
  /\ ClientsTypeOK /\ Fifo /\ WithinCapacity /\ NoLostWakeup

(* Once the queue has quit every blocked Push and Pop returns.             *)
QuitReleases == \A t \in Thread : quit /\ call[t] # "none" ~> call[t] = "none"

(* The queue implements the lossless FIFO channel it is used as.           *)
QueueChannel == INSTANCE FifoChannel
                  WITH in <- pushed, out <- popped, closed <- quit,
                       Depth <- Capacity
QueueIsChannel == QueueChannel!ChannelSpec
=============================================================================
