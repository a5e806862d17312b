---------------------------- MODULE ReaderProofs ----------------------------
(***************************************************************************)
(* The safety properties of ChannelReader hold for any buffer sizes, any   *)
(* word size and any amount of data, errors and flushes.                   *)
(***************************************************************************)
EXTENDS ChannelReader, TLAPS

(* What the driver has produced is readable or has been read, Execute's    *)
(* local counts a part of it.                                              *)
Balance == produced = readable + totalSize /\ totalLen <= totalSize

(* The flags are set before the buffer of a removed reader is emptied, and *)
(* an Execute that finds them does not read.                               *)
Stopping ==
  /\ remover # "in" => ~isInited
  /\ remover = "removed" => worker \in {"idle", "loop", "end"}

(* Between two flushes nothing is counted; the announced amount is small.  *)
FlushReset ==
  /\ flushBufSize <= MaxData
  /\ ~needWait => flushCurSize = 0

BufferInv == Balance /\ Accounted /\ BufferBound /\ Stopping /\ RemovedKeepsNothing
ControlInv == SchedulingExact /\ FlushPending /\ FlushReset
Inv == TypeOK /\ BufferInv /\ ControlInv

-----------------------------------------------------------------------------
(* The invariant holds of a new reader.                                    *)
LEMMA InitInv == Init => Inv
<1> SUFFICES ASSUME Init PROVE Inv
  OBVIOUS
<1> USE ReaderAssumption
<1>1. TypeOK
  <2>1. isInited \in BOOLEAN /\ isChannelStopped \in BOOLEAN /\ needWait \in BOOLEAN
    BY Zenon DEF Init
  <2>2. 0 \in 0 .. MaxScheduling /\ 0 \in 0 .. MaxData /\ 0 \in 0 .. MaxError
        /\ 0 \in 0 .. MaxFlush /\ 0 \in 0 .. Word - 1
    OBVIOUS
  <2> QED
    BY <2>1, <2>2 DEF Init, TypeOK
<1>2. BufferInv
  BY DEF Init, BufferInv, Balance, Accounted, BufferBound, Stopping, RemovedKeepsNothing
<1>3. ControlInv
  BY DEF Init, ControlInv, SchedulingExact, FlushPending, FlushReset
<1> QED
  BY <1>1, <1>2, <1>3 DEF Inv

(* A read of n units, or -1 for a failed one, leaves the handshake sound.  *)
LEMMA HandshakeInv ==
  ASSUME TypeOK, FlushPending, FlushReset, NEW n \in Int, CheckIfSendFlush(n),
         flusher' = flusher
  PROVE  /\ FlushPending' /\ FlushReset'
         /\ needWait' \in BOOLEAN
         /\ flushBufSize' \in 0 .. Word - 1 /\ flushCurSize' \in 0 .. Word - 1
<1> DEFINE cur == (flushCurSize + n) % Word
           finished == flushBufSize <= cur \/ n = 0
<1>1. Word \in Nat /\ Word > 0 /\ MaxData \in Nat
  BY ReaderAssumption
<1>2. flushCurSize \in 0 .. Word - 1 /\ flushBufSize \in 0 .. Word - 1
  BY DEF TypeOK
<1>3. cur \in 0 .. Word - 1
  BY <1>1, <1>2
<1>4. /\ needWait' = (needWait /\ ~finished)
      /\ flushCurSize' = IF ~needWait THEN flushCurSize ELSE IF finished THEN 0 ELSE cur
      /\ flushBufSize' = IF needWait /\ finished THEN 0 ELSE flushBufSize
  BY DEF CheckIfSendFlush
<1>5. needWait' \in BOOLEAN /\ (needWait' <=> needWait /\ ~finished)
  BY <1>4, Zenon
<1> HIDE DEF cur
<1>6. CASE needWait /\ ~finished
  BY <1>1, <1>2, <1>3, <1>4, <1>5, <1>6 DEF FlushPending, FlushReset
<1>7. CASE ~(needWait /\ ~finished)
  BY <1>1, <1>2, <1>3, <1>4, <1>5, <1>7 DEF FlushPending, FlushReset
<1> QED
  BY <1>6, <1>7

-----------------------------------------------------------------------------
(* The driver, the poll thread, and the steps of Execute but its reads.    *)
LEMMA OutsideInv ==
  ASSUME Inv, Produce \/ GetReader \/ DispatchReader
  PROVE  Inv'
<1> USE ReaderAssumption
        DEF Inv, bufferVars, lifeVars, taskVars, flushVars, driverVars
<1>1. CASE Produce
  BY <1>1 DEF Produce, TypeOK, BufferInv, ControlInv, Balance, Accounted, BufferBound,
              Stopping, RemovedKeepsNothing, SchedulingExact, FlushPending, FlushReset
<1>2. CASE GetReader
  BY <1>2 DEF GetReader, TypeOK, BufferInv, ControlInv, Balance, Accounted, BufferBound,
              Stopping, RemovedKeepsNothing, SchedulingExact, FlushPending, FlushReset
<1>3. CASE DispatchReader
  BY <1>3 DEF DispatchReader, TypeOK, BufferInv, ControlInv, Balance, Accounted,
              BufferBound, Stopping, RemovedKeepsNothing, SchedulingExact,
              FlushPending, FlushReset
<1> QED
  BY <1>1, <1>2, <1>3

(* The worker preserves it outside its read,                               *)
LEMMA ExecuteInv ==
  ASSUME Inv, Execute \/ ExecuteCheck \/ ExecuteEnd
  PROVE  Inv'
<1> USE ReaderAssumption
        DEF Inv, bufferVars, lifeVars, taskVars, flushVars, driverVars, UploadData
<1>1. CASE Execute
  BY <1>1 DEF Execute, TypeOK, BufferInv, ControlInv, Balance, Accounted, BufferBound,
              Stopping, RemovedKeepsNothing, SchedulingExact, FlushPending, FlushReset
<1>2. CASE ExecuteCheck
  BY <1>2 DEF ExecuteCheck, TypeOK, BufferInv, ControlInv, Balance, Accounted,
              BufferBound, Stopping, RemovedKeepsNothing, SchedulingExact,
              FlushPending, FlushReset
<1>3. CASE ExecuteEnd
  BY <1>3 DEF ExecuteEnd, TypeOK, BufferInv, ControlInv, Balance, Accounted, BufferBound,
              Stopping, RemovedKeepsNothing, SchedulingExact, FlushPending, FlushReset
<1> QED
  BY <1>1, <1>2, <1>3

(* when the driver returns n bytes,                                        *)
LEMMA ExecuteReadInv ==
  ASSUME Inv, NEW n \in 0 .. BufSize, ExecuteRead(n)
  PROVE  Inv'
<1> USE ReaderAssumption
<1>1. /\ FlushPending' /\ FlushReset'
      /\ needWait' \in BOOLEAN
      /\ flushBufSize' \in 0 .. Word - 1 /\ flushCurSize' \in 0 .. Word - 1
  <2>1. n \in Int
    OBVIOUS
  <2> QED
    BY <2>1, HandshakeInv DEF Inv, ControlInv, ExecuteRead
<1>2. BufferInv'
  BY DEF ExecuteRead, Inv, TypeOK, BufferInv, Balance, Accounted, BufferBound, Stopping,
         RemovedKeepsNothing, UploadData, lifeVars
<1>3. SchedulingExact'
  BY DEF ExecuteRead, Inv, ControlInv, SchedulingExact, taskVars
<1>4. TypeOK'
  BY <1>1, <1>2 DEF ExecuteRead, Inv, TypeOK, BufferInv, Balance, Accounted, UploadData,
                    lifeVars, taskVars
<1> QED
  BY <1>1, <1>2, <1>3, <1>4 DEF Inv, ControlInv

(* and when the read fails.                                                *)
LEMMA ExecuteReadFailsInv ==
  ASSUME Inv, ExecuteReadFails
  PROVE  Inv'
<1> USE ReaderAssumption
<1>1. /\ FlushPending' /\ FlushReset'
      /\ needWait' \in BOOLEAN
      /\ flushBufSize' \in 0 .. Word - 1 /\ flushCurSize' \in 0 .. Word - 1
  BY HandshakeInv DEF Inv, ControlInv, ExecuteReadFails
<1>2. BufferInv'
  BY DEF ExecuteReadFails, Inv, TypeOK, BufferInv, Balance, Accounted, BufferBound,
         Stopping, RemovedKeepsNothing, UploadData, bufferVars, lifeVars
<1>3. SchedulingExact'
  BY DEF ExecuteReadFails, Inv, ControlInv, SchedulingExact, taskVars
<1>4. TypeOK'
  BY <1>1 DEF ExecuteReadFails, Inv, TypeOK, BufferInv, Balance, Accounted, UploadData,
              bufferVars, lifeVars, taskVars
<1> QED
  BY <1>1, <1>2, <1>3, <1>4 DEF Inv, ControlInv

-----------------------------------------------------------------------------
(* The threads that flush preserve it.                                     *)
LEMMA FlusherInv ==
  ASSUME Inv, FlushQuery \/ Flusher
  PROVE  Inv'
<1> USE ReaderAssumption
        DEF Inv, bufferVars, lifeVars, taskVars, flushVars, driverVars, UploadData
<1>1. CASE FlushQuery
  <2> USE <1>1 DEF FlushQuery
  <2>1. BufferInv'
    BY DEF TypeOK, BufferInv, Balance, Accounted, BufferBound, Stopping,
           RemovedKeepsNothing
  <2>2. CASE UNCHANGED <<flusher, flushVars, readable, produced>>
    BY <2>1, <2>2 DEF TypeOK, ControlInv, SchedulingExact, FlushPending, FlushReset
  <2>3. ASSUME NEW size \in 1 .. MaxData - produced,
               readable' = readable + size, produced' = produced + size,
               needWait' = TRUE, flushBufSize' = size, flushCurSize' = flushCurSize,
               flusher' = "wait"
        PROVE  Inv'
    <3>1. needWait' \in BOOLEAN
      BY <2>3, Zenon
    <3>2. ~needWait /\ flushCurSize = 0
      BY DEF ControlInv, FlushPending, FlushReset
    <3>3. TypeOK'
      BY <2>3, <3>1 DEF TypeOK, BufferInv, Balance
    <3>4. ControlInv'
      BY <2>3, <3>2 DEF TypeOK, ControlInv, SchedulingExact, FlushPending, FlushReset
    <3> QED
      BY <2>1, <3>3, <3>4
  <2> QED
    BY <2>2, <2>3
<1>2. CASE FlushWake
  BY <1>2 DEF FlushWake, TypeOK, BufferInv, ControlInv, Balance, Accounted, BufferBound,
              Stopping, RemovedKeepsNothing, SchedulingExact, FlushPending, FlushReset
<1>3. CASE FlushUpload
  BY <1>3 DEF FlushUpload, TypeOK, BufferInv, ControlInv, Balance, Accounted, BufferBound,
              Stopping, RemovedKeepsNothing, SchedulingExact, FlushPending, FlushReset
<1> QED
  BY <1>1, <1>2, <1>3 DEF Flusher

(* So does the thread that removes the reader,                             *)
LEMMA RemoverInv ==
  ASSUME Inv, RemoveReader \/ RemoveUpload
  PROVE  Inv'
<1> USE ReaderAssumption
        DEF Inv, bufferVars, lifeVars, taskVars, flushVars, driverVars, UploadData
<1>1. CASE RemoveReader
  BY <1>1 DEF RemoveReader, TypeOK, BufferInv, ControlInv, Balance, Accounted, BufferBound,
              Stopping, RemovedKeepsNothing, SchedulingExact, FlushPending, FlushReset
<1>2. CASE RemoveUpload
  BY <1>2 DEF RemoveUpload, TypeOK, BufferInv, ControlInv, Balance, Accounted, BufferBound,
              Stopping, RemovedKeepsNothing, SchedulingExact, FlushPending, FlushReset
<1> QED
  BY <1>1, <1>2

(* and a step that changes nothing.                                        *)
LEMMA StutterInv ==
  ASSUME Inv, UNCHANGED vars
  PROVE  Inv'
BY DEF Inv, vars, bufferVars, lifeVars, taskVars, flushVars, driverVars, TypeOK, BufferInv,
       ControlInv, Balance, Accounted, BufferBound, Stopping, RemovedKeepsNothing,
       SchedulingExact, FlushPending, FlushReset

-----------------------------------------------------------------------------
(* Every step of every thread keeps the invariant. *)
THEOREM ReaderInvariant == Spec => []Inv
<1>1. Inv /\ [Next]_vars => Inv'
  BY OutsideInv, ExecuteInv, ExecuteReadInv, ExecuteReadFailsInv, FlusherInv, RemoverInv,
     StutterInv
     DEF Next, Worker
<1> QED
  BY InitInv, <1>1, PTL DEF Spec

(* The types, and which thread can hold which mutex. *)
THEOREM ReaderTypes == Spec => []TypeOK
BY ReaderInvariant, PTL DEF Inv

(* All data read is uploaded or in the buffer: see Accounted. *)
THEOREM ReaderAccounts == Spec => []Accounted
BY ReaderInvariant, PTL DEF Inv, BufferInv

(* No read passes the end of the buffer: see BufferBound. *)
THEOREM ReaderStaysInBuffer == Spec => []BufferBound
BY ReaderInvariant, PTL DEF Inv, BufferInv

(* The dispatch count is exact: see SchedulingExact. *)
THEOREM ReaderCountsDispatches == Spec => []SchedulingExact
BY ReaderInvariant, PTL DEF Inv, ControlInv

(* A removed reader holds nothing back: see RemovedKeepsNothing. *)
THEOREM ReaderRemovedEmpty == Spec => []RemovedKeepsNothing
BY ReaderInvariant, PTL DEF Inv, BufferInv

(* A flush is not finished before the announced amount has been read: see  *)
(* FlushPending.                                                           *)
THEOREM ReaderFlushWaits == Spec => []FlushPending
BY ReaderInvariant, PTL DEF Inv, ControlInv

(* All of the above: for any sizes, the reader is safe: see ReaderSafe.    *)
THEOREM ReaderIsSafe == Spec => []ReaderSafe
BY ReaderInvariant, PTL DEF Inv, BufferInv, ControlInv, ReaderSafe
=============================================================================
