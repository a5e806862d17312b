--------------------------- MODULE ChannelReader ---------------------------
(***************************************************************************)
(* One ChannelReader of the channel poll (transport/prof_channel_tool.cpp) *)
(* and the threads that meet in it: the poll thread that dispatches it to  *)
(* the thread pool, the pool thread that executes it, the thread that      *)
(* flushes the driver, and the thread that removes it.                     *)
(*                                                                         *)
(* Two mutexes guard the reader.  mtx_ guards the buffer; Execute holds it *)
(* from beginning to end, FlushBuffToUpload while it uploads.  flushMutex_ *)
(* guards the flush handshake; Execute holds it around each read, and      *)
(* FlushDrvBuff from its query to its upload, except while it sleeps on    *)
(* flushFlag_.  Work done under a mutex that no other thread can observe   *)
(* before the mutex is released is one step.                               *)
(*                                                                         *)
(* Sizes are in units of 1 MB where the source has bytes.  The driver is   *)
(* external: it makes data readable, returns at most what fits, may fail,  *)
(* and on a flush makes some more data readable and says how much.         *)
(***************************************************************************)
EXTENDS Naturals, Integers

CONSTANTS
  MaxBuffer,      \* MAX_BUFFER_SIZE
  UploadSize,     \* UPLOAD_BUFFER_SIZE
  BufSize,        \* bufSize_: MAX_BUFFER_SIZE or the channel_buffer_size of the JSON
  MaxRead,        \* MAX_READ_LEN
  MaxScheduling,  \* MAX_SCHEDULING_TIME
  Word,           \* uint32_t arithmetic is modulo Word
  MaxData,        \* bound: units the driver produces
  MaxError,       \* bound: failing reads
  MaxFlush        \* bound: calls of FlushDrvBuff

ASSUME ReaderAssumption ==
  /\ {MaxBuffer, UploadSize, BufSize, MaxRead, MaxScheduling, Word} \subseteq Nat \ {0}
  /\ {MaxData, MaxError, MaxFlush} \subseteq Nat
  /\ UploadSize <= MaxBuffer /\ BufSize <= MaxBuffer
  /\ MaxData < Word

VARIABLES
  mtx,              \* the thread that holds mtx_, or "none"
  flushMutex,       \* the thread that holds flushMutex_, or "none"
  worker,           \* where the pool thread is in Execute
  totalLen,         \* Execute's local
  flusher,          \* where the flushing thread is in FlushDrvBuff
  remover,          \* where the removing thread is in ChannelPoll::RemoveReader
  poller,           \* where the poll thread is in DispatchChannel
  isInited, isChannelStopped,
  dataSize,         \* dataSize_
  schedulingTime,   \* schedulingTime_
  tasks,            \* dispatches of the reader waiting in the pool's queue
  needWait, flushBufSize, flushCurSize,
  readable,         \* external: units the driver has ready to read
  produced, errors, flushes,   \* external: counters for the bounds
  totalSize,        \* totalSize_: units read
  uploaded          \* history: units handed to UploaderMgr::UploadData

bufferVars == <<dataSize, totalSize, uploaded>>
lifeVars == <<isInited, isChannelStopped, remover>>
taskVars == <<schedulingTime, tasks, poller>>
flushVars == <<needWait, flushBufSize, flushCurSize>>
driverVars == <<readable, produced, errors, flushes>>
vars == <<mtx, flushMutex, worker, totalLen, flusher, bufferVars, lifeVars,
          taskVars, flushVars, driverVars>>

(* A reader that Init has set up and AddReader has put in the map. *)
Init ==
  /\ mtx = "none" /\ flushMutex = "none"
  /\ worker = "idle" /\ totalLen = 0
  /\ flusher = "idle" /\ remover = "in" /\ poller = "idle"
  /\ isInited = TRUE /\ isChannelStopped = FALSE
  /\ dataSize = 0 /\ totalSize = 0 /\ uploaded = 0
  /\ schedulingTime = 0 /\ tasks = 0
  /\ needWait = FALSE /\ flushBufSize = 0 /\ flushCurSize = 0
  /\ readable = 0 /\ produced = 0 /\ errors = 0 /\ flushes = 0

-----------------------------------------------------------------------------
(* The driver collects data. *)
Produce ==
  /\ produced < MaxData
  /\ produced' = produced + 1 /\ readable' = readable + 1
  /\ UNCHANGED <<mtx, flushMutex, worker, totalLen, flusher, bufferVars,
                 lifeVars, taskVars, flushVars, errors, flushes>>

-----------------------------------------------------------------------------
(* ChannelPoll::Run on a channel that has data: GetReader under the poll's *)
(* mutex, which RemoveReader holds from beginning to end, then             *)
(* DispatchReader, which may come after the removal.                       *)
GetReader ==
  /\ poller = "idle" /\ readable > 0
  /\ remover = "in"
  /\ poller' = "dispatch"
  /\ UNCHANGED <<mtx, flushMutex, worker, totalLen, flusher, bufferVars,
                 lifeVars, schedulingTime, tasks, flushVars, driverVars>>

DispatchReader ==
  /\ poller = "dispatch"
  /\ poller' = "idle"
  /\ IF schedulingTime >= MaxScheduling
       THEN UNCHANGED <<schedulingTime, tasks>>
       ELSE schedulingTime' = schedulingTime + 1 /\ tasks' = tasks + 1
  /\ UNCHANGED <<mtx, flushMutex, worker, totalLen, flusher, bufferVars,
                 lifeVars, flushVars, driverVars>>

-----------------------------------------------------------------------------
(* UploadData: the whole buffer goes to the uploader, or is lost if there  *)
(* is none; either way the buffer is empty.                                *)
UploadData(size) == dataSize' = 0 /\ uploaded' = uploaded + size

(* CheckIfSendFlush(curLen), where a failed read passes -1 as a size_t: in *)
(* 64 bits UINT_MAX - curLen is then UINT_MAX + 1, which no flushCurSize_  *)
(* exceeds, and adding curLen takes one off in 32 bits.                    *)
CheckIfSendFlush(curLen) ==
  LET cur == (flushCurSize + curLen) % Word
      finished == flushBufSize <= cur \/ curLen = 0
  IN  /\ needWait' = (needWait /\ ~finished)
      /\ flushCurSize' = IF ~needWait THEN flushCurSize ELSE IF finished THEN 0 ELSE cur
      /\ flushBufSize' = IF needWait /\ finished THEN 0 ELSE flushBufSize

(* Execute, by the pool thread that the reader's hash selects. *)
Execute ==
  /\ worker = "idle" /\ tasks > 0
  /\ mtx = "none"
  /\ mtx' = "worker" /\ worker' = "loop"
  /\ tasks' = tasks - 1
  /\ totalLen' = 0
  /\ UNCHANGED <<flushMutex, flusher, bufferVars, lifeVars, schedulingTime,
                 poller, flushVars, driverVars>>

ExecuteCheck ==
  /\ worker = "loop"
  /\ IF ~isInited \/ isChannelStopped
       THEN worker' = "end" /\ UNCHANGED bufferVars
       ELSE /\ worker' = "read"
            /\ IF dataSize >= MaxBuffer
                 THEN UploadData(dataSize) /\ UNCHANGED totalSize
                 ELSE UNCHANGED bufferVars
  /\ UNCHANGED <<mtx, flushMutex, totalLen, flusher, lifeVars, taskVars,
                 flushVars, driverVars>>

(* A read of n units under flushMutex_, and what Execute does with them. *)
ExecuteRead(n) ==
  /\ worker = "read" /\ flushMutex = "none"
  /\ n <= readable /\ n <= BufSize - dataSize
  /\ n = 0 => readable = 0 \/ dataSize = BufSize
  /\ CheckIfSendFlush(n)
  /\ readable' = readable - n
  /\ totalLen' = totalLen + n
  /\ totalSize' = totalSize + n
  /\ IF n = 0 /\ dataSize >= UploadSize
       THEN UploadData(dataSize)
       ELSE dataSize' = dataSize + n /\ UNCHANGED uploaded
  /\ worker' = IF n > 0 /\ totalLen' < MaxRead THEN "loop" ELSE "end"
  /\ UNCHANGED <<mtx, flushMutex, flusher, lifeVars, taskVars, produced, errors,
                 flushes>>

ExecuteReadFails ==
  /\ worker = "read" /\ flushMutex = "none"
  /\ errors < MaxError
  /\ errors' = errors + 1
  /\ CheckIfSendFlush(-1)
  /\ IF dataSize >= UploadSize
       THEN UploadData(dataSize) /\ UNCHANGED totalSize
       ELSE UNCHANGED bufferVars
  /\ worker' = "end"
  /\ UNCHANGED <<mtx, flushMutex, totalLen, flusher, lifeVars, taskVars,
                 readable, produced, flushes>>

(* SetSchedulingStatus(false), and mtx_ is released. *)
ExecuteEnd_Unscheduled ==
  /\ worker = "end"
  /\ worker' = "idle" /\ mtx' = "none"
  /\ UNCHANGED <<flushMutex, totalLen, flusher, bufferVars, lifeVars, taskVars,
                 flushVars, driverVars>>

ExecuteEnd ==
  /\ worker = "end"
  /\ worker' = "idle" /\ mtx' = "none"
  /\ schedulingTime' = IF schedulingTime > 0 THEN schedulingTime - 1 ELSE 0
  /\ UNCHANGED <<flushMutex, totalLen, flusher, bufferVars, lifeVars, tasks,
                 poller, flushVars, driverVars>>

Worker ==
  \/ Execute \/ ExecuteCheck
  \/ (\E n \in 0 .. BufSize : ExecuteRead(n)) \/ ExecuteReadFails
  \/ ExecuteEnd

-----------------------------------------------------------------------------
(* FlushDrvBuff: query the driver; nothing to wait for if it fails or has  *)
(* nothing, else sleep on flushFlag_, which releases flushMutex_.          *)
FlushQuery ==
  /\ flusher = "idle" /\ flushes < MaxFlush
  /\ flushMutex = "none"
  /\ flushes' = flushes + 1
  /\ \/ UNCHANGED <<flusher, flushVars, readable, produced>>
     \/ \E size \in 1 .. MaxData - produced :
          /\ readable' = readable + size /\ produced' = produced + size
          /\ needWait' = TRUE /\ flushBufSize' = size
          /\ UNCHANGED flushCurSize
          /\ flusher' = "wait"
  /\ UNCHANGED <<mtx, flushMutex, worker, totalLen, bufferVars, lifeVars,
                 taskVars, errors>>

(* Woken up with needWait_ false, the flusher owns flushMutex_ again. *)
FlushWake ==
  /\ flusher = "wait" /\ ~needWait
  /\ flushMutex = "none"
  /\ flushMutex' = "flusher" /\ flusher' = "upload"
  /\ UNCHANGED <<mtx, worker, totalLen, bufferVars, lifeVars, taskVars,
                 flushVars, driverVars>>

(* FlushBuffToUpload takes mtx_ while flushMutex_ is held. *)
FlushUpload ==
  /\ flusher = "upload"
  /\ mtx = "none"
  /\ UploadData(dataSize) /\ UNCHANGED totalSize
  /\ flushMutex' = "none" /\ flusher' = "idle"
  /\ UNCHANGED <<mtx, worker, totalLen, lifeVars, taskVars, flushVars,
                 driverVars>>

Flusher == FlushWake \/ FlushUpload

-----------------------------------------------------------------------------
(* ChannelPoll::RemoveReader: SetChannelStopped, and Uinit.  The two flags *)
(* are only ever tested together.                                          *)
RemoveReader_Locked ==
  /\ remover = "in" /\ mtx = "none"
  /\ mtx' = "remover"
  /\ isChannelStopped' = TRUE /\ isInited' = FALSE
  /\ remover' = "upload"
  /\ UNCHANGED <<flushMutex, worker, totalLen, flusher, bufferVars,
                 taskVars, flushVars, driverVars>>

RemoveReader ==
  /\ remover = "in"
  /\ isChannelStopped' = TRUE /\ isInited' = FALSE
  /\ remover' = "upload"
  /\ UNCHANGED <<mtx, flushMutex, worker, totalLen, flusher, bufferVars,
                 taskVars, flushVars, driverVars>>

RemoveUpload_NoMutex ==
  /\ remover = "upload"
  /\ UploadData(dataSize) /\ UNCHANGED totalSize
  /\ remover' = "removed"
  /\ UNCHANGED <<mtx, flushMutex, worker, totalLen, flusher, isInited,
                 isChannelStopped, taskVars, flushVars, driverVars>>

RemoveUpload ==
  /\ remover = "upload"
  /\ mtx = "none"
  /\ UploadData(dataSize) /\ UNCHANGED totalSize
  /\ remover' = "removed"
  /\ UNCHANGED <<mtx, flushMutex, worker, totalLen, flusher, isInited,
                 isChannelStopped, taskVars, flushVars, driverVars>>

-----------------------------------------------------------------------------
Next ==
  \/ Produce
  \/ GetReader \/ DispatchReader
  \/ Worker
  \/ FlushQuery \/ Flusher
  \/ RemoveReader \/ RemoveUpload

(* The poll thread polls, the pool thread works, and the others finish     *)
(* what they began; a mutex that is free again and again goes at last to a *)
(* thread that waits for it (SF).  Nobody has to flush or remove the       *)
(* reader, and the driver need not produce or fail.                        *)
Fairness ==
  /\ WF_vars(GetReader) /\ WF_vars(DispatchReader)
  /\ WF_vars(Worker)
  /\ WF_vars(FlushWake) /\ SF_vars(FlushUpload)
  /\ SF_vars(RemoveUpload)

Spec == Init /\ [][Next]_vars /\ Fairness

-----------------------------------------------------------------------------
(* Every variable has its type, and a mutex its possible holders.          *)
TypeOK ==
  /\ mtx \in {"none", "worker"} /\ flushMutex \in {"none", "flusher"}
  /\ mtx = "none" <=> worker = "idle"
  /\ flushMutex = "none" <=> flusher # "upload"
  /\ worker \in {"idle", "loop", "read", "end"}
  /\ flusher \in {"idle", "wait", "upload"}
  /\ remover \in {"in", "upload", "removed"}
  /\ poller \in {"idle", "dispatch"}
  /\ {isInited, isChannelStopped, needWait} \subseteq BOOLEAN
  /\ schedulingTime \in 0 .. MaxScheduling /\ tasks \in 0 .. MaxScheduling
  /\ {totalLen, dataSize, totalSize, uploaded} \subseteq 0 .. MaxData
  /\ {readable, produced} \subseteq 0 .. MaxData
  /\ errors \in 0 .. MaxError /\ flushes \in 0 .. MaxFlush
  /\ {flushBufSize, flushCurSize} \subseteq 0 .. Word - 1

(* Every unit read from the driver is handed to the uploader exactly once  *)
(* or is still in the buffer, whichever of the three threads that upload   *)
(* the buffer came in between, and also after failed reads.                *)
Accounted == totalSize = uploaded + dataSize

(* No read ever runs past the end of the buffer, also not when the JSON    *)
(* gives the reader less than MAX_BUFFER_SIZE.                             *)
BufferBound == dataSize <= BufSize

(* schedulingTime_ counts the dispatches that have not finished executing, *)
(* neither more, or the reader would at last never be dispatched again,    *)
(* nor less, or its tasks would flood the pool's queue.                    *)
SchedulingExact ==
  schedulingTime = tasks + (IF worker = "idle" THEN 0 ELSE 1)

(* Nothing enters the buffer after RemoveReader has emptied it, although   *)
(* tasks of the reader may still be queued and even be dispatched later.   *)
RemovedKeepsNothing == remover = "removed" => dataSize = 0

(* A flush that has been asked for is neither forgotten nor finished       *)
(* early: the flusher sleeps for as long as less than the announced amount *)
(* has been read.                                                          *)
FlushPending ==
  needWait => flusher = "wait" /\ flushCurSize < flushBufSize

(* The reader is safe against its poller, its pool thread, a flush and its *)
(* removal: no unit is lost or written past the buffer, its dispatches are *)
(* counted exactly, it leaves nothing behind and no flush is forgotten.    *)
ReaderSafe ==
  /\ TypeOK
  /\ Accounted
  /\ BufferBound
  /\ SchedulingExact
  /\ RemovedKeepsNothing
  /\ FlushPending

(* Data in the driver is always read in the end, unless the reader is      *)
(* removed or a flush is in its way: dispatching never stops for good.     *)
DataIsRead ==
  readable > 0 ~> readable = 0 \/ remover # "in" \/ flusher = "upload"

(* RemoveReader returns, unless a flush is in its way. *)
RemoveReturns ==
  remover = "upload" ~> remover = "removed" \/ flusher = "upload"
=============================================================================
