------------------------------ MODULE Uploader ------------------------------
(***************************************************************************)
(* One uploader (transport/uploader_tool.cpp) from its creation by         *)
(* UploaderMgr to its destruction (transport/uploader_mgr_tool.cpp): the   *)
(* producers that hand it chunks, its own thread that sends them, and the  *)
(* owner (AcpManager) that flushes it and drops it from the manager's map. *)
(*                                                                         *)
(* The uploader is shared: the map holds one reference and each producer   *)
(* one while it is in UploadData.  Whoever drops the last reference runs   *)
(* ~Uploader, the owner doing so with uploaderMutex_ held.  The bounded    *)
(* queue is the one of module BoundQueue; a chunk is its producer and      *)
(* number, its bytes do not matter here.                                   *)
(***************************************************************************)
EXTENDS BoundQueue, FiniteSets

CONSTANTS
  Producer,      \* threads that call UploaderMgr::UploadData
  Owner,         \* the thread that creates and drops the uploader
  Sender,        \* the uploader's own thread
  MaxChunk       \* bound: chunks a producer tries to upload

ASSUME UploaderAssumption ==
  /\ MaxChunk \in Nat
  /\ Owner \notin Producer /\ Sender \notin Producer /\ Owner # Sender

Chunk == Producer \X (1 .. MaxChunk)
NoChunk == <<>>        \* fileChunkReq == nullptr
Nobody == {}

VARIABLES
  inMap,        \* uploaderMap_ refers to the uploader
  uploaderMutex,\* the thread that holds uploaderMutex_ over several steps
  forceQuit,    \* forceQuit_
  threadQuit,   \* Thread::quit_
  isStarted,    \* Thread::isStarted_
  pc,           \* where each thread is
  tried,        \* tried[p]: UploadData calls made by p
  held,         \* the chunk in the sender's hand
  destroyer,    \* the threads (at most one) that execute ~Uploader
  settled,      \* history: no more chunks were to come when Flush was called
  accepted,     \* history: chunks whose Push succeeded, in order
  delivered     \* history: chunks passed to transport_->SendBuffer, in order

threadVars == <<forceQuit, threadQuit, isStarted>>
history == <<settled, accepted, delivered>>
vars == <<queueVars, inMap, uploaderMutex, threadVars, pc,
          tried, held, destroyer, history>>

Goto(t, l) == pc' = [pc EXCEPT ![t] = l]

Init ==
  /\ QueueInit
  /\ inMap = FALSE
  /\ uploaderMutex = Nobody
  /\ forceQuit = FALSE
  /\ threadQuit = FALSE /\ isStarted = FALSE
  /\ pc = [t \in Producer \cup {Owner, Sender} |->
             IF t = Owner THEN "create" ELSE "idle"]
  /\ tried = [p \in Producer |-> 0]
  /\ held = NoChunk
  /\ destroyer = Nobody
  /\ settled = FALSE
  /\ accepted = <<>> /\ delivered = <<>>

(* The producers that hold a reference to the uploader. *)
Pinned == {p \in Producer : pc[p] \in {"push", "release"}}

(* No chunk is in a producer's hand, and none will come. *)
NoMoreChunks == \A p \in Producer : pc[p] = "idle" /\ tried[p] = MaxChunk

-----------------------------------------------------------------------------
(* UploaderMgr::CreateUploader: Init, Start, AddUploader; the thread may   *)
(* fail to start, and the uploader is then dropped again.                  *)
CreateUploader ==
  /\ pc[Owner] = "create"
  /\ \/ /\ inMap' = TRUE /\ isStarted' = TRUE
        /\ pc' = [pc EXCEPT ![Owner] = "own", ![Sender] = "tryPop"]
        /\ UNCHANGED destroyer
     \/ /\ Goto(Owner, "destroy")
        /\ destroyer' = {Owner}
        /\ UNCHANGED <<inMap, isStarted>>
  /\ UNCHANGED <<queueVars, uploaderMutex, forceQuit, threadQuit,
                 tried, held, history>>

-----------------------------------------------------------------------------
(* UploaderMgr::UploadData: GetUploader takes a reference under the mutex, *)
(* or finds no uploader and fails.                                         *)
GetUploader(p) ==
  /\ pc[p] = "idle" /\ tried[p] < MaxChunk
  /\ uploaderMutex = Nobody
  /\ tried' = [tried EXCEPT ![p] = @ + 1]
  /\ IF inMap THEN Goto(p, "push") ELSE UNCHANGED pc
  /\ UNCHANGED <<queueVars, inMap, uploaderMutex, threadVars, held, destroyer,
                 history>>

(* Uploader::UploadData: Push blocks while the queue is full and is        *)
(* refused once it has quit.                                               *)
UploadData(p) ==
  /\ pc[p] = "push"
  /\ \/ PushWait(p) /\ UNCHANGED <<pc, accepted>>
     \/ /\ PushDone(p, <<p, tried[p]>>)
        /\ accepted' = Append(accepted, <<p, tried[p]>>)
        /\ Goto(p, "release")
     \/ /\ PushRefused(p)
        /\ Goto(p, "release")
        /\ UNCHANGED accepted
  /\ UNCHANGED <<inMap, uploaderMutex, threadVars, tried, held, destroyer, settled,
                 delivered>>

(* The reference goes out of scope; the last one destroys the uploader.    *)
Release(p) ==
  /\ pc[p] = "release"
  /\ IF ~inMap /\ Pinned = {p}
       THEN Goto(p, "destroy") /\ destroyer' = {p}
       ELSE Goto(p, "idle") /\ UNCHANGED destroyer
  /\ UNCHANGED <<queueVars, inMap, uploaderMutex, threadVars, tried, held,
                 history>>

-----------------------------------------------------------------------------
(* Uploader::Run.  A step of the sender leaves everyone else's state.      *)
SenderFrame == UNCHANGED <<inMap, uploaderMutex, threadVars, tried, destroyer,
                           settled, accepted>>

SendTryPop ==
  /\ pc[Sender] = "tryPop"
  /\ \/ TryPopDone /\ held' = Head(queue) /\ Goto(Sender, "send")
     \/ TryPopEmpty /\ UNCHANGED held /\ Goto(Sender, "isQuit")
  /\ SenderFrame /\ UNCHANGED delivered

(* Nothing to pop and Thread::IsQuit: leave the loop. *)
SendIsQuit ==
  /\ pc[Sender] = "isQuit"
  /\ Goto(Sender, IF threadQuit THEN "exit" ELSE "pop")
  /\ SenderFrame /\ UNCHANGED <<queueVars, held, delivered>>

SendPop ==
  /\ pc[Sender] = "pop"
  /\ \/ PopWait(Sender) /\ UNCHANGED <<held, pc>>
     \/ PopDone(Sender) /\ held' = Head(queue) /\ Goto(Sender, "send")
     \/ PopRefused(Sender) /\ UNCHANGED held /\ Goto(Sender, "forceQuit")
  /\ SenderFrame /\ UNCHANGED delivered

(* transport_->SendBuffer; a failed send is logged and the chunk forgotten. *)
SendBuffer ==
  /\ pc[Sender] = "send"
  /\ delivered' = Append(delivered, held)
  /\ held' = NoChunk
  /\ Goto(Sender, "forceQuit")
  /\ SenderFrame /\ UNCHANGED queueVars

(* } while (!forceQuit_) *)
SendLoop ==
  /\ pc[Sender] = "forceQuit"
  /\ Goto(Sender, IF forceQuit THEN "exit" ELSE "tryPop")
  /\ SenderFrame /\ UNCHANGED <<queueVars, held, delivered>>

SenderNext == SendTryPop \/ SendIsQuit \/ SendPop \/ SendBuffer \/ SendLoop

-----------------------------------------------------------------------------
(* Uploader::Flush: poll the queue until it is empty. *)
CallFlush ==
  /\ pc[Owner] = "own"
  /\ Goto(Owner, "flush")
  /\ settled' = NoMoreChunks
  /\ UNCHANGED <<queueVars, inMap, uploaderMutex, threadVars, tried, held,
                 destroyer, accepted, delivered>>

Flush_NearlyEmpty ==
  /\ pc[Owner] = "flush"
  /\ Len(queue) <= 1
  /\ Goto(Owner, "flushed")
  /\ UNCHANGED <<queueVars, inMap, uploaderMutex, threadVars, tried, held,
                 destroyer, history>>

Flush ==
  /\ pc[Owner] = "flush"
  /\ Len(queue) = 0
  /\ Goto(Owner, "flushed")
  /\ UNCHANGED <<queueVars, inMap, uploaderMutex, threadVars, tried, held,
                 destroyer, history>>

(* transport->WriteDone() of AcpManager::JobStop follows the Flush.        *)
WriteDone ==
  /\ pc[Owner] = "flushed"
  /\ Goto(Owner, "delete")
  /\ UNCHANGED <<queueVars, inMap, uploaderMutex, threadVars, tried, held,
                 destroyer, history>>

(* DelUploader, DelAllUploader: the map drops its reference under          *)
(* uploaderMutex_, and destroys the uploader there and then if it was the  *)
(* last one.                                                               *)
DelUploader ==
  /\ pc[Owner] \in {"own", "delete"}
  /\ uploaderMutex = Nobody
  /\ inMap' = FALSE
  /\ IF Pinned = {}
       THEN /\ Goto(Owner, "destroy")
            /\ destroyer' = {Owner} /\ uploaderMutex' = {Owner}
       ELSE Goto(Owner, "end") /\ UNCHANGED <<destroyer, uploaderMutex>>
  /\ UNCHANGED <<queueVars, threadVars, tried, held, history>>

-----------------------------------------------------------------------------
(* ~Uploader runs Stop(true) and, through it, Thread::Stop, step by step,  *)
(* on the thread t that dropped the last reference; nobody else stops an   *)
(* uploader, so isStopped_ is always false here.                           *)
StopFrame == UNCHANGED <<inMap, uploaderMutex, tried, held, destroyer, history>>

ForceQuit(t) ==
  /\ pc[t] = "destroy"
  /\ forceQuit' = TRUE
  /\ Goto(t, "queueQuit")
  /\ UNCHANGED <<queueVars, threadQuit, isStarted>> /\ StopFrame

QueueQuit_Forgotten(t) ==
  /\ pc[t] = "queueQuit"
  /\ Goto(t, "threadQuit")
  /\ UNCHANGED <<queueVars, threadVars>> /\ StopFrame

QueueQuit(t) ==
  /\ pc[t] = "queueQuit"
  /\ Quit
  /\ Goto(t, "threadQuit")
  /\ UNCHANGED threadVars /\ StopFrame

ThreadQuit(t) ==
  /\ pc[t] = "threadQuit"
  /\ threadQuit' = TRUE
  /\ isStarted' = FALSE
  /\ Goto(t, IF isStarted THEN "join" ELSE "stopped")
  /\ UNCHANGED <<queueVars, forceQuit>> /\ StopFrame

Join(t) ==
  /\ pc[t] = "join"
  /\ pc[Sender] = "exit"
  /\ Goto(t, "stopped")
  /\ UNCHANGED <<queueVars, threadVars>> /\ StopFrame

(* ~Uploader resets the transport and frees the queue. *)
Stopped(t) ==
  /\ pc[t] = "stopped"
  /\ Goto(t, "end")
  /\ uploaderMutex' = uploaderMutex \ {t}
  /\ UNCHANGED <<queueVars, inMap, threadVars, tried, held, destroyer, history>>

StopNext(t) ==
  ForceQuit(t) \/ QueueQuit(t) \/ ThreadQuit(t) \/ Join(t) \/ Stopped(t)

-----------------------------------------------------------------------------
ProducerNext(p) == GetUploader(p) \/ UploadData(p) \/ Release(p) \/ StopNext(p)

OwnerNext ==
  \/ CreateUploader
  \/ CallFlush \/ Flush \/ WriteDone
  \/ DelUploader
  \/ StopNext(Owner)

Next == (\E p \in Producer : ProducerNext(p)) \/ SenderNext \/ OwnerNext

(* Every thread runs while it can: the sender, a producer once it is in    *)
(* UploadData, and the owner once it has begun to flush, stop or drop the  *)
(* uploader.  Nobody is obliged to upload anything.                        *)
Fairness ==
  /\ WF_vars(SenderNext)
  /\ WF_vars(Flush \/ WriteDone \/ StopNext(Owner))
  /\ WF_vars(pc[Owner] = "delete" /\ DelUploader)
  /\ \A p \in Producer :
       WF_vars(UploadData(p) \/ Release(p) \/ StopNext(p))

Spec == Init /\ [][Next]_vars /\ Fairness

-----------------------------------------------------------------------------
Destroyed == \E t \in destroyer : pc[t] = "end"

(* A chunk in the sender's hand, as a sequence. *)
InHand == IF held = NoChunk THEN <<>> ELSE <<held>>

(* Every variable has its type. *)
TypeOK ==
  /\ queue \in Seq(Chunk) /\ accepted \in Seq(Chunk) /\ delivered \in Seq(Chunk)
  /\ quit \in BOOLEAN /\ inMap \in BOOLEAN
  /\ settled \in BOOLEAN
  /\ forceQuit \in BOOLEAN
  /\ threadQuit \in BOOLEAN /\ isStarted \in BOOLEAN
  /\ cvPush \subseteq {Sender} /\ cvPop \subseteq Producer
  /\ uploaderMutex \subseteq {Owner} /\ destroyer \subseteq Producer \cup {Owner}
  /\ tried \in [Producer -> 0 .. MaxChunk]
  /\ held \in Chunk \cup {NoChunk}
  /\ pc \in [Producer \cup {Owner, Sender} ->
               {"create", "own", "idle", "push", "release", "tryPop", "isQuit",
                "pop", "send", "forceQuit", "exit", "flush", "flushed", "delete",
                "destroy", "queueQuit", "threadQuit", "join", "stopped",
                "end"}]

(* At every moment, also while the uploader is being stopped or destroyed, *)
(* each accepted chunk is in exactly one place, in order: already sent, in *)
(* the sender's hand, or queued.  Run's two ways of popping must never     *)
(* overwrite a chunk or send one twice.                                    *)
Conserved == accepted = delivered \o InHand \o queue

(* ~Uploader always forces the stop and so leaves queued chunks behind.    *)
(* When the owner flushed the uploader first, with all producers done, the *)
(* destruction nevertheless loses nothing.                                 *)
FlushedLosesNothing == settled /\ Destroyed => delivered = accepted

(* When the uploader is gone its thread has ended, no producer is inside   *)
(* it or holds a reference, and it was destroyed once.                     *)
NoUseAfterDestroy ==
  /\ Cardinality(destroyer) <= 1
  /\ destroyer # {} => ~inMap /\ Pinned = {}
  /\ Destroyed => pc[Sender] \in {"idle", "exit"}

(* The uploader is safe: every accepted chunk is sent, in hand or queued,  *)
(* a flush saves all of them, and nothing is used after its destruction.   *)
UploaderSafe ==
  /\ TypeOK /\ Conserved /\ FlushedLosesNothing /\ NoUseAfterDestroy

(* Once the map lets go of it, the uploader is destroyed, even if          *)
(* producers were blocked in Push at that moment.                          *)
DroppedIsDestroyed == pc[Owner] = "delete" ~> Destroyed

(* The uploader is a lossless FIFO channel from UploadData to the          *)
(* transport, one deeper than its queue.                                   *)
Channel == INSTANCE FifoChannel
             WITH in <- accepted, out <- delivered, closed <- quit,
                  Item <- Chunk, Depth <- Capacity + 1
ImplementsChannel == Channel!ChannelSpec
=============================================================================
