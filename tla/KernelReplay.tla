---------------------------- MODULE KernelReplay ----------------------------
(***************************************************************************)
(* How the operator profiler runs one kernel launch many times over        *)
(* (acp/src/acp_runtime_api_tool.cpp, KernelExec) as if it ran once: it    *)
(* saves every buffer that the application got from rtMalloc, and writes   *)
(* the saved contents back before each run (acp/src/acp_manager_tool.cpp). *)
(*                                                                         *)
(* mallocVec_ and memoryVec_ have no lock; the application calls the       *)
(* intercepted rtMalloc, rtFree and launches one after the other.  The     *)
(* runtime may fail in every call.  What TaskStart and TaskStop do is      *)
(* module AcpTask; here they succeed or fail.                              *)
(***************************************************************************)
EXTENDS Naturals, Sequences, FiniteSets

CONSTANTS
  Buffer,          \* the addresses rtMalloc hands out
  KernelTaskTime,  \* KERNEL_TASK_TIME: runs for one group of metrics
  ReplayTime,      \* GetKernelReplayTime: number of groups of metrics
  MaxMalloc,       \* bound: length of mallocVec_, which never shrinks
  MaxLaunch,       \* bound: launches
  Null,            \* nullptr
  Garbage          \* what a failed copy leaves in a buffer or a backup

ASSUME ReplayAssumption ==
  /\ KernelTaskTime \in Nat \ {0} /\ ReplayTime \in Nat
  /\ MaxMalloc \in Nat /\ MaxLaunch \in Nat
  /\ Null \notin Buffer /\ Null # Garbage
  /\ {Null, Garbage} \cap (Buffer \X Nat \X Nat) = {}

VARIABLES
  mallocVec,   \* addr of each entry of mallocVec_
  memoryVec,   \* what the backup of each entry of memoryVec_ holds, or Null
  allocated,   \* backups allocated and not freed
  content,     \* what each buffer holds
  stage,          \* where KernelExec is
  group, time, \* its two loop counters
  launch,      \* launches so far
  intact,      \* history: the runtime copied all that this launch asked for
  stale        \* history: memoryVec_ was not empty when this launch began

replayVars == <<mallocVec, memoryVec, allocated, content, stage, group, time, launch,
          intact, stale>>

(* Contents are known by the buffer and launch at whose start they were    *)
(* there and the kernel runs on them since.                                *)
Original(b, l) == <<b, l, 0>>

ReplayInit ==
  /\ mallocVec = <<>> /\ memoryVec = <<>> /\ allocated = 0
  /\ content = [b \in Buffer |-> Original(b, 0)]
  /\ stage = "idle" /\ group = 0 /\ time = 0 /\ launch = 0
  /\ intact = TRUE /\ stale = FALSE

(* The entries of mallocVec_ that still have an address, and the addresses. *)
Addressed == {i \in DOMAIN mallocVec : mallocVec[i] # Null}
Live == {mallocVec[i] : i \in Addressed}

(* The backups that memoryVec_ refers to. *)
BackupsHeld == Cardinality({i \in DOMAIN memoryVec : memoryVec[i] # Null})

-----------------------------------------------------------------------------
(* rtMalloc and SaveRtMallocAttr. *)
RtMalloc(b) ==
  /\ stage = "idle" /\ b \notin Live /\ Len(mallocVec) < MaxMalloc
  /\ mallocVec' = Append(mallocVec, b)
  /\ content' = [content EXCEPT ![b] = Original(b, launch)]
  /\ UNCHANGED <<memoryVec, allocated, stage, group, time, launch, intact, stale>>

(* rtFree: ReleaseRtMallocAddr leaves an entry without address behind. *)
RtFree(b) ==
  /\ stage = "idle" /\ b \in Live
  /\ mallocVec' = [i \in DOMAIN mallocVec |->
                     IF mallocVec[i] = b THEN Null ELSE mallocVec[i]]
  /\ UNCHANGED <<memoryVec, allocated, content, stage, group, time, launch,
                 intact, stale>>

-----------------------------------------------------------------------------
(* The first n entries get a backup; the copies to those in lost fail. *)
Backups(n, lost) ==
  [i \in 1 .. n |-> CASE mallocVec[i] = Null -> Null
                      [] i \in lost -> Garbage
                      [] OTHER -> Original(mallocVec[i], launch + 1)]

BackupsMade(n) == Cardinality({i \in Addressed : i <= n})

BeginLaunch ==
  /\ stage = "idle" /\ launch < MaxLaunch
  /\ launch' = launch + 1
  /\ content' = [b \in Buffer |-> Original(b, launch + 1)]
  /\ stale' = (memoryVec # <<>>)
  /\ stage' = "warmUp1" /\ group' = 0 /\ time' = 0

(* KernelExec begins with SaveMallocMemory, which adds the backups to the  *)
(* end of memoryVec_ and stops at the first one it cannot allocate.        *)
SaveMallocMemory ==
  /\ BeginLaunch
  /\ \E n \in 0 .. Len(mallocVec) :
       /\ n < Len(mallocVec) => mallocVec[n + 1] # Null
       /\ \E lost \in SUBSET {i \in Addressed : i <= n} :
            /\ memoryVec' = memoryVec \o Backups(n, lost)
            /\ intact' = (n = Len(mallocVec) /\ lost = {})
       /\ allocated' = allocated + BackupsMade(n)
  /\ UNCHANGED mallocVec

(* The kernel reads and writes all buffers; when it or the synchronisation *)
(* that follows fails, it may not have run.                                *)
RunKernel ==
  content' = [b \in Buffer |->
                IF b \in Live /\ content[b] # Garbage
                  THEN [content[b] EXCEPT ![3] = @ + 1] ELSE content[b]]

(* KernelWarmUp, twice, with a reset in between.  When it fails KernelExec *)
(* returns at once.                                                        *)
KernelWarmUp ==
  /\ stage \in {"warmUp1", "warmUp2"}
  /\ \/ /\ RunKernel
        /\ stage' = CASE stage = "warmUp1" -> "reset"
                   [] ReplayTime = 0 -> "clear"
                   [] OTHER -> "replayReset"
     \/ /\ RunKernel \/ UNCHANGED content
        /\ stage' = "idle"
  /\ UNCHANGED <<mallocVec, memoryVec, allocated, group, time, launch, intact, stale>>

(* What the buffers hold when the entries in copied have been written back. *)
Restored(copied) ==
  [b \in Buffer |->
     IF \E i \in copied : mallocVec[i] = b
       THEN memoryVec[CHOOSE i \in copied : mallocVec[i] = b]
       ELSE content[b]]

AfterReset == stage' = IF stage = "reset" THEN "warmUp2" ELSE "kernel"

ResetMallocMemory_SkipsLast ==
  /\ stage \in {"reset", "replayReset"}
  /\ IF Len(mallocVec) # Len(memoryVec)
       THEN UNCHANGED content
       ELSE content' = Restored(Addressed \ {Len(mallocVec)})
  /\ AfterReset
  /\ UNCHANGED <<mallocVec, memoryVec, allocated, group, time, launch, intact, stale>>

(* ResetMallocMemory refuses unless there are as many backups as entries.  *)
(* It stops at the first copy that fails, and earlier ones may fail at the *)
(* synchronisation, so any of them may be missing; one from nullptr is.    *)
ResetMallocMemory ==
  /\ stage \in {"reset", "replayReset"}
  /\ \/ /\ Len(mallocVec) # Len(memoryVec)
        /\ UNCHANGED <<content, intact>>
     \/ /\ Len(mallocVec) = Len(memoryVec)
        /\ \E copied \in SUBSET {i \in Addressed : memoryVec[i] # Null} :
             /\ content' = Restored(copied)
             /\ intact' = (intact /\ copied = Addressed)
  /\ AfterReset
  /\ UNCHANGED <<mallocVec, memoryVec, allocated, group, time, launch, stale>>

(* One round of KernelReplay after its reset: TaskStart, the kernel,       *)
(* TaskStop.  A round that fails ends the rounds of its group of metrics;  *)
(* only a failure of the kernel also ends the launch.                      *)
KernelReplay ==
  /\ stage = "kernel"
  /\ \E kernelOk \in BOOLEAN, taskOk \in BOOLEAN :
       /\ RunKernel \/ (~kernelOk /\ UNCHANGED content)
       /\ LET lastRound == ~kernelOk \/ ~taskOk \/ time + 1 = KernelTaskTime
              lastGroup == ~kernelOk \/ group + 1 = ReplayTime
          IN /\ time' = IF lastRound THEN 0 ELSE time + 1
             /\ group' = IF lastRound THEN group + 1 ELSE group
             /\ stage' = CASE ~lastRound \/ ~lastGroup -> "replayReset"
                        [] kernelOk -> "clear"
                        [] OTHER -> "clearFailed"
  /\ UNCHANGED <<mallocVec, memoryVec, allocated, launch, intact, stale>>

(* ClearMallocMemory, and KernelExec returns. *)
ClearMallocMemory ==
  /\ stage \in {"clear", "clearFailed"}
  /\ allocated' = allocated - BackupsHeld
  /\ memoryVec' = <<>>
  /\ stage' = IF stage = "clear" THEN "launched" ELSE "idle"
  /\ UNCHANGED <<mallocVec, content, group, time, launch, intact, stale>>

(* The caller goes on after a launch that succeeded. *)
Return ==
  /\ stage = "launched"
  /\ stage' = "idle"
  /\ UNCHANGED <<mallocVec, memoryVec, allocated, content, group, time, launch,
                 intact, stale>>

(* ~AcpManager: UnInit frees the backups and forgets the buffers. *)
UnInit ==
  /\ stage = "idle"
  /\ stage' = "exit"
  /\ allocated' = allocated - BackupsHeld
  /\ memoryVec' = <<>> /\ mallocVec' = <<>>
  /\ UNCHANGED <<content, group, time, launch, intact, stale>>

KernelExec ==
  \/ SaveMallocMemory \/ KernelWarmUp \/ ResetMallocMemory
  \/ KernelReplay \/ ClearMallocMemory \/ Return

ReplayNext ==
  \/ \E b \in Buffer : RtMalloc(b) \/ RtFree(b)
  \/ KernelExec
  \/ UnInit

ReplaySpec == ReplayInit /\ [][ReplayNext]_replayVars

-----------------------------------------------------------------------------
Contents == (Buffer \X Nat \X Nat) \cup {Garbage}

(* Every variable has its type. *)
ReplayTypeOK ==
  /\ mallocVec \in Seq(Buffer \cup {Null})
  /\ memoryVec \in Seq(Contents \cup {Null})
  /\ allocated \in Nat
  /\ content \in [Buffer -> Contents]
  /\ stage \in {"idle", "warmUp1", "reset", "warmUp2", "replayReset", "kernel",
             "clear", "clearFailed", "launched", "exit"}
  /\ group \in 0 .. ReplayTime /\ time \in 0 .. KernelTaskTime - 1
  /\ launch \in 0 .. MaxLaunch
  /\ intact \in BOOLEAN /\ stale \in BOOLEAN

(* Whatever fails, memoryVec_ refers to exactly the backups that are       *)
(* allocated, so that none is leaked or freed twice; a launch that reached *)
(* its end and the end of the process leave none.                          *)
BackupsOwned ==
  /\ allocated = BackupsHeld
  /\ stage \in {"launched", "exit"} => allocated = 0

(* The kernel is about to run on what the buffers held at the launch. *)
OnOriginals == \A b \in Live : content[b] = Original(b, launch)

AboutToRun == stage \in {"warmUp1", "warmUp2", "kernel"}

(* Unless a copy failed, or a failed launch left backups behind, all runs  *)
(* of a launch see the same contents, so that the metrics of the different *)
(* runs are those of one kernel.                                           *)
ReplaysAlike == AboutToRun /\ intact /\ ~stale => OnOriginals

(* In those launches the application gets what one run of the kernel would *)
(* have computed, however many groups of metrics there are and rounds of   *)
(* each were cut short.                                                    *)
Transparent ==
  stage = "launched" /\ intact /\ ~stale =>
    \A b \in Live : content[b] = <<b, launch, 1>>

(* Replaying is safe for the application: its backups are owned, all runs  *)
(* of a launch are alike, and together they have the effect of one.        *)
ReplaySafe ==
  /\ ReplayTypeOK /\ BackupsOwned /\ ReplaysAlike /\ Transparent
=============================================================================
