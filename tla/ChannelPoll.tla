---------------------------- MODULE ChannelPoll ----------------------------
(***************************************************************************)
(* ChannelPoll (transport/prof_channel_tool.cpp) with its ThreadPool       *)
(* (common/thread/thread_pool_tool.{h,cpp}): a thread that polls the       *)
(* driver and dispatches the readers of the channels that have data, the   *)
(* pool threads that execute them, each from a queue of its own, and the   *)
(* owner that starts the poll, adds and removes readers and stops it.      *)
(*                                                                         *)
(* What a reader does while it executes is module ChannelReader; here an   *)
(* execution only takes time.  The tasks queues are BoundQueues; QueueFits *)
(* shows that none is ever full, so Push never blocks, and Pop waits for   *)
(* an element or Quit, as module QueueClients shows.  All pool threads are *)
(* taken to have started.                                                  *)
(***************************************************************************)
EXTENDS Naturals, Sequences, FiniteSets

CONSTANTS
  Reader,         \* the readers (device and channel)
  HashId,         \* HashId[r]: hashId_, channel id plus device id
  ThreadNum,      \* threadNum_ of the pool
  MaxScheduling,  \* MAX_SCHEDULING_TIME
  NoReader

ASSUME PollAssumption ==
  /\ IsFiniteSet(Reader)
  /\ HashId \in [Reader -> Nat]
  /\ ThreadNum \in Nat \ {0} /\ MaxScheduling \in Nat \ {0}
  /\ NoReader \notin Reader

PoolThread == 0 .. ThreadNum - 1

VARIABLES
  readers,        \* readers_, behind mtx_
  schedulingTime, \* schedulingTime_ of each reader
  isStart,        \* ChannelPoll::isStart_
  poller,         \* where the poll thread is in Run
  pollQuit,       \* its Thread::quit_
  found,          \* the channels the last poll returned that are still to do
  reader,         \* the reader DispatchChannel has got
  isStarted,      \* ThreadPool::isStarted_
  threads,        \* threads_: the pool threads not yet cleared away
  taskQueue, queueQuit, threadQuit,   \* of each pool thread
  worker,         \* where each pool thread is in Run
  task,           \* what it has popped
  owner           \* where the owner is: "new", "running" or a step of Stop

pollVars == <<poller, found, reader>>
workerVars == <<worker, task>>
vars == <<readers, schedulingTime, isStart, pollVars, pollQuit, isStarted,
          threads, taskQueue, queueQuit, threadQuit, workerVars, owner>>

Init ==
  /\ readers = {} /\ schedulingTime = [r \in Reader |-> 0]
  /\ isStart = FALSE /\ poller = "off" /\ pollQuit = FALSE
  /\ found = {} /\ reader = NoReader
  /\ isStarted = FALSE /\ threads = {}
  /\ taskQueue = [t \in PoolThread |-> <<>>]
  /\ queueQuit = [t \in PoolThread |-> FALSE]
  /\ threadQuit = [t \in PoolThread |-> FALSE]
  /\ worker = [t \in PoolThread |-> "off"]
  /\ task = [t \in PoolThread |-> NoReader]
  /\ owner = "new"

-----------------------------------------------------------------------------
(* ChannelPoll::Start; that the poll thread does not start is ignored.     *)
Start ==
  /\ owner = "new"
  /\ owner' = "running"
  /\ isStart' = TRUE /\ isStarted' = TRUE
  /\ threads' = PoolThread
  /\ worker' = [t \in PoolThread |-> "tryPop"]
  /\ poller' \in {"off", "poll"}
  /\ UNCHANGED <<readers, schedulingTime, pollQuit, found, reader, taskQueue,
                 queueQuit, threadQuit, task>>

(* Adding a channel again makes a new reader; while tasks of the old one   *)
(* are still queued that is another member of Reader.                      *)
AddReader(r) ==
  /\ owner = "running"
  /\ r \notin readers /\ schedulingTime[r] = 0
  /\ readers' = readers \cup {r}
  /\ UNCHANGED <<schedulingTime, isStart, pollVars, pollQuit, isStarted, threads,
                 taskQueue, queueQuit, threadQuit, workerVars, owner>>

RemoveReader(r) ==
  /\ owner = "running"
  /\ r \in readers
  /\ readers' = readers \ {r}
  /\ UNCHANGED <<schedulingTime, isStart, pollVars, pollQuit, isStarted, threads,
                 taskQueue, queueQuit, threadQuit, workerVars, owner>>

-----------------------------------------------------------------------------
(* ChannelPoll::Run.  DrvChannelPoll returns within its timeout: channels  *)
(* with data (which may have no reader), nothing, "stopped already", or an *)
(* error, which ends the thread for good.                                  *)
PollFrame == UNCHANGED <<readers, isStart, pollQuit, isStarted, threads,
                         queueQuit, threadQuit, workerVars, owner>>

Poll ==
  /\ poller = "poll"
  /\ IF ~isStart
       THEN poller' = "exit" /\ UNCHANGED found
       ELSE \/ \E channels \in SUBSET Reader :
                 found' = channels /\ poller' = "dispatch"
            \/ poller' = (IF pollQuit THEN "exit" ELSE "poll") /\ UNCHANGED found
            \/ poller' = "exit" /\ UNCHANGED found
  /\ PollFrame /\ UNCHANGED <<schedulingTime, reader, taskQueue>>

(* DispatchChannel: GetReader under mtx_ ... *)
GetReader ==
  /\ poller = "dispatch"
  /\ IF found = {}
       THEN poller' = "poll" /\ UNCHANGED <<found, reader>>
       ELSE \E r \in found :
              /\ found' = found \ {r}
              /\ IF r \in readers
                   THEN reader' = r /\ poller' = "got"
                   ELSE UNCHANGED <<reader, poller>>
  /\ PollFrame /\ UNCHANGED <<schedulingTime, taskQueue>>

ThreadOf(r) == HashId[r] % ThreadNum

(* ... and DispatchReader, which may follow the reader's removal: check,   *)
(* count and ThreadPool::Dispatch.                                         *)
DispatchReader ==
  /\ poller = "got"
  /\ IF schedulingTime[reader] >= MaxScheduling
       THEN UNCHANGED <<schedulingTime, taskQueue>>
       ELSE /\ schedulingTime' = [schedulingTime EXCEPT ![reader] = @ + 1]
            /\ IF isStarted /\ ~queueQuit[ThreadOf(reader)]
                 THEN taskQueue' = [taskQueue EXCEPT ![ThreadOf(reader)] =
                                      Append(@, reader)]
                 ELSE UNCHANGED taskQueue
  /\ poller' = "dispatch" /\ reader' = NoReader
  /\ PollFrame /\ UNCHANGED found

Poller == Poll \/ GetReader \/ DispatchReader

-----------------------------------------------------------------------------
(* InnnerThread::Run of pool thread t. *)
WorkerFrame == UNCHANGED <<readers, isStart, pollVars, pollQuit, isStarted,
                           threads, queueQuit, threadQuit, owner>>

Take(t) ==
  /\ taskQueue[t] # <<>>
  /\ task' = [task EXCEPT ![t] = Head(taskQueue[t])]
  /\ taskQueue' = [taskQueue EXCEPT ![t] = Tail(@)]
  /\ worker' = [worker EXCEPT ![t] = "execute"]

TryPop(t) ==
  /\ worker[t] = "tryPop"
  /\ \/ Take(t)
     \/ /\ taskQueue[t] = <<>>
        /\ worker' = [worker EXCEPT ![t] = "isQuit"]
        /\ UNCHANGED <<task, taskQueue>>
  /\ WorkerFrame /\ UNCHANGED schedulingTime

IsQuit_Never(t) ==
  /\ worker[t] = "isQuit"
  /\ worker' = [worker EXCEPT ![t] = "pop"]
  /\ WorkerFrame /\ UNCHANGED <<schedulingTime, task, taskQueue>>

IsQuit(t) ==
  /\ worker[t] = "isQuit"
  /\ worker' = [worker EXCEPT ![t] = IF threadQuit[t] THEN "exit" ELSE "pop"]
  /\ WorkerFrame /\ UNCHANGED <<schedulingTime, task, taskQueue>>

Pop(t) ==
  /\ worker[t] = "pop"
  /\ \/ Take(t)
     \/ /\ taskQueue[t] = <<>> /\ queueQuit[t]
        /\ worker' = [worker EXCEPT ![t] = "tryPop"]
        /\ UNCHANGED <<task, taskQueue>>
  /\ WorkerFrame /\ UNCHANGED schedulingTime

(* task->Execute() ends with SetSchedulingStatus(false). *)
Execute(t) ==
  /\ worker[t] = "execute"
  /\ schedulingTime' = [schedulingTime EXCEPT ![task[t]] = IF @ > 0 THEN @ - 1 ELSE 0]
  /\ task' = [task EXCEPT ![t] = NoReader]
  /\ worker' = [worker EXCEPT ![t] = "tryPop"]
  /\ WorkerFrame /\ UNCHANGED taskQueue

Worker(t) == TryPop(t) \/ IsQuit(t) \/ Pop(t) \/ Execute(t)

-----------------------------------------------------------------------------
(* ChannelPoll::Stop: stop and join the poll thread, then the pool, whose  *)
(* threads are quit and joined one after the other, lowest first.          *)
StopFrame == UNCHANGED <<readers, schedulingTime, pollVars, taskQueue, workerVars>>

Stop ==
  /\ owner = "running"
  /\ isStart' = FALSE
  /\ owner' = "stopPoll"
  /\ StopFrame /\ UNCHANGED <<pollQuit, isStarted, threads, queueQuit, threadQuit>>

QuitPoll ==
  /\ owner = "stopPoll"
  /\ pollQuit' = TRUE
  /\ owner' = "joinPoll"
  /\ StopFrame
  /\ UNCHANGED <<isStart, isStarted, threads, queueQuit, threadQuit>>

JoinPoll_NoWait ==
  /\ owner = "joinPoll"
  /\ owner' = "stopPool"
  /\ StopFrame
  /\ UNCHANGED <<isStart, pollQuit, isStarted, threads, queueQuit, threadQuit>>

JoinPoll ==
  /\ owner = "joinPoll"
  /\ poller \in {"off", "exit"}
  /\ owner' = "stopPool"
  /\ StopFrame
  /\ UNCHANGED <<isStart, pollQuit, isStarted, threads, queueQuit, threadQuit>>

StopThread(t) ==
  /\ owner = "stopPool"
  /\ isStarted' = FALSE
  /\ \A u \in PoolThread : u < t => worker[u] = "exit"
  /\ ~queueQuit[t] \/ ~threadQuit[t]
  /\ queueQuit' = [queueQuit EXCEPT ![t] = TRUE]
  /\ threadQuit' = [threadQuit EXCEPT ![t] = queueQuit[t]]
  /\ StopFrame /\ UNCHANGED <<isStart, pollQuit, threads, owner>>

ClearThreads ==
  /\ owner = "stopPool"
  /\ \A t \in PoolThread : worker[t] = "exit"
  /\ threads' = {}
  /\ owner' = "stopped"
  /\ StopFrame /\ UNCHANGED <<isStart, pollQuit, isStarted, queueQuit, threadQuit>>

Owner == QuitPoll \/ JoinPoll \/ (\E t \in PoolThread : StopThread(t)) \/ ClearThreads

-----------------------------------------------------------------------------
Next ==
  \/ Start \/ (\E r \in Reader : AddReader(r) \/ RemoveReader(r))
  \/ Poller
  \/ \E t \in PoolThread : Worker(t)
  \/ Stop \/ Owner

(* Each thread goes on while it can; nobody has to call Stop. *)
Fairness ==
  /\ WF_vars(Poller) /\ WF_vars(Owner)
  /\ \A t \in PoolThread : WF_vars(Worker(t))

Spec == Init /\ [][Next]_vars /\ Fairness

-----------------------------------------------------------------------------
Executing(r) == {t \in PoolThread : worker[t] = "execute" /\ task[t] = r}
Places(tasks, r) == {i \in DOMAIN tasks : tasks[i] = r}
Queued(r) == UNION {{t} \X Places(taskQueue[t], r) : t \in PoolThread}

(* Every variable has its type. *)
TypeOK ==
  /\ readers \subseteq Reader /\ found \subseteq Reader
  /\ schedulingTime \in [Reader -> Nat]
  /\ {isStart, pollQuit, isStarted} \subseteq BOOLEAN
  /\ poller \in {"off", "poll", "dispatch", "got", "exit"}
  /\ reader \in Reader \cup {NoReader} /\ (reader = NoReader <=> poller # "got")
  /\ threads \subseteq PoolThread
  /\ taskQueue \in [PoolThread -> Seq(Reader)]
  /\ queueQuit \in [PoolThread -> BOOLEAN] /\ threadQuit \in [PoolThread -> BOOLEAN]
  /\ worker \in [PoolThread -> {"off", "tryPop", "isQuit", "pop", "execute", "exit"}]
  /\ task \in [PoolThread -> Reader \cup {NoReader}]
  /\ owner \in {"new", "running", "stopPoll", "joinPoll", "stopPool", "stopped"}

(* schedulingTime_ is exactly the number of the reader's tasks queued or   *)
(* executing, also after its removal and while the poll stops.             *)
SchedulingExact ==
  \A r \in Reader :
    schedulingTime[r] = Cardinality(Queued(r)) + Cardinality(Executing(r))

(* No task queue ever holds more than MAX_SCHEDULING_TIME tasks of each    *)
(* reader: at 8192 places it is never full and the poll thread never       *)
(* blocks in Push.                                                         *)
QueueFits ==
  \A t \in PoolThread :
    Len(taskQueue[t]) <= Cardinality({r \in Reader : ThreadOf(r) = t}) * MaxScheduling

(* The poll thread never dispatches to a pool that is being stopped or     *)
(* whose threads_ have been cleared away.                                  *)
DispatchFindsThreads == poller = "got" => isStarted /\ threads = PoolThread

(* Once Stop has returned no thread of the poll runs any more.             *)
StoppedIsQuiet ==
  owner = "stopped" =>
    /\ poller \in {"off", "exit"}
    /\ \A t \in PoolThread : worker[t] = "exit" /\ task[t] = NoReader

(* The poll and its pool are safe while readers come and go and the poll   *)
(* is stopped: dispatches are counted, queues have room, no dispatch meets *)
(* a stopped pool and nothing runs after Stop.                             *)
PollSafe ==
  /\ TypeOK
  /\ SchedulingExact
  /\ QueueFits
  /\ DispatchFindsThreads
  /\ StoppedIsQuiet

(* Stop returns, whatever the poll and the pool threads are doing.         *)
StopReturns == owner = "stopPoll" ~> owner = "stopped"
=============================================================================
