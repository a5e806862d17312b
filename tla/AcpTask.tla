------------------------------ MODULE AcpTask ------------------------------
(***************************************************************************)
(* One profiling task after the other (acp/src/acp_manager_tool.cpp,       *)
(* TaskStart and TaskStop): create the uploader, tell the runtime, start   *)
(* the collection jobs, run the kernel, and undo all that.  Each of these  *)
(* may fail and leaves a different part undone.                            *)
(*                                                                         *)
(* The state is spread over singletons: AcpManager (params_, jobAdapter_), *)
(* UploaderMgr, ProfChannelManager with its reference count, and           *)
(* CollectionRegisterMgr.  The poll thread goes on reading and the         *)
(* uploader's thread sending, and another thread may call rtSetDevice,     *)
(* which changes params_ without a lock that the task would hold.          *)
(***************************************************************************)
EXTENDS Integers, FiniteSets

CONSTANTS
  Device,
  Job,       \* the collection jobs in jobUsed_
  MaxTask,   \* bound: calls of TaskStart
  NoJob      \* jobAdapter_ == nullptr

ASSUME TaskAssumption == MaxTask \in Nat

Adapter == [device : Device, started : BOOLEAN]

ASSUME NoJobAssumption == NoJob \notin Adapter

VARIABLES
  device,     \* params_->devices
  adapter,    \* jobAdapter_: its device and isStarted_
  uploader,   \* devices in uploaderMap_
  pending,    \* devices whose uploader has chunks not yet sent
  index,      \* index_ of ProfChannelManager
  poller,     \* drvChannelPoll_ != nullptr
  readers,    \* readers_ of the poller
  registered, \* collectionJobs_
  channel,    \* driver channels started and not yet told to stop
  pc,         \* where the launching thread is
  ok,         \* TaskStart has returned PROFILING_SUCCESS
  tasks,      \* calls of TaskStart
  failed,     \* history: StartProfs that failed after ProfChannelManager::Init
  moved       \* history: rtSetDevice chose another device during a task,
              \* since the last DelAllUploader

jobVars == <<index, poller, readers, registered, channel, failed>>
vars == <<device, adapter, uploader, pending, jobVars, pc, ok, tasks, moved>>

Started == adapter # NoJob /\ adapter.started

Init ==
  /\ device \in Device
  /\ adapter = NoJob
  /\ uploader = {} /\ pending = {}
  /\ index = 0 /\ poller = FALSE
  /\ readers = {} /\ registered = {} /\ channel = {}
  /\ pc = "idle" /\ ok = FALSE /\ tasks = 0
  /\ failed = 0 /\ moved = FALSE

-----------------------------------------------------------------------------
(* rtSetDevice: GetAndCheckParams updates params_->devices. *)
RtSetDevice(d) ==
  /\ device' = d
  /\ moved' = (moved \/ (pc # "idle" /\ d # device))
  /\ UNCHANGED <<adapter, uploader, pending, jobVars, pc, ok, tasks>>

(* A reader hands what it reads to the uploader of its device, if any. *)
Read ==
  /\ poller
  /\ \E r \in readers \cap channel :
       /\ r[1] \in uploader
       /\ pending' = pending \cup {r[1]}
  /\ UNCHANGED <<device, adapter, uploader, jobVars, pc, ok, tasks, moved>>

Send ==
  /\ \E d \in pending : pending' = pending \ {d}
  /\ UNCHANGED <<device, adapter, uploader, jobVars, pc, ok, tasks, moved>>

-----------------------------------------------------------------------------
(* TaskStart.  KernelReplay runs the kernel whether it succeeds or not.    *)
InitAcpUploader ==
  /\ pc = "idle" /\ tasks < MaxTask
  /\ tasks' = tasks + 1
  /\ \/ /\ uploader' = uploader \cup {device}
        /\ pc' = "notifyStart"
     \/ /\ device \notin uploader
        /\ UNCHANGED uploader
        /\ pc' = "kernel"
  /\ ok' = FALSE
  /\ UNCHANGED <<device, adapter, pending, jobVars, moved>>

(* NotifyRtSwitchConfig(PROF_COMMANDHANDLE_TYPE_START) *)
NotifyStart ==
  /\ pc = "notifyStart"
  /\ pc' \in {"jobStart", "kernel"}
  /\ UNCHANGED <<device, adapter, uploader, pending, jobVars, ok, tasks, moved>>

(* JobStart finds a job still there and leaves it as it is ... *)
JobStartAgain ==
  /\ pc = "jobStart" /\ adapter # NoJob
  /\ pc' = "kernel" /\ ok' = TRUE
  /\ UNCHANGED <<device, adapter, uploader, pending, jobVars, tasks, moved>>

(* ... or calls StartProf, which fails on the parameters, ... *)
StartProfRefused ==
  /\ pc = "jobStart" /\ adapter = NoJob
  /\ adapter' = [device |-> device, started |-> FALSE]
  /\ pc' = "kernel"
  /\ UNCHANGED <<device, uploader, pending, jobVars, ok, tasks, moved>>

(* ... or once ProfChannelManager is initialised (GetAllChannels and       *)
(* ParsePmuConfig), ...                                                    *)
StartProfFails ==
  /\ pc = "jobStart" /\ adapter = NoJob
  /\ adapter' = [device |-> device, started |-> FALSE]
  /\ index' = index + 1 /\ poller' = TRUE
  /\ failed' = failed + 1
  /\ pc' = "kernel"
  /\ UNCHANGED <<device, uploader, pending, readers, registered, channel, ok,
                 tasks, moved>>

(* ... or registers and runs each job.  A job may fail in Init or be       *)
(* registered already, and is skipped; the others are registered.  One     *)
(* whose channel is not valid gets no reader, one whose channel then does  *)
(* not start keeps it (stars, ffts) or not (biu).                          *)
StartProf ==
  /\ pc = "jobStart" /\ adapter = NoJob
  /\ adapter' = [device |-> device, started |-> TRUE]
  /\ index' = index + 1 /\ poller' = TRUE
  /\ \E inited \in SUBSET {j \in Job : <<device, j>> \notin registered} :
     \E reading \in SUBSET inited : \E running \in SUBSET reading :
       /\ registered' = registered \cup ({device} \X inited)
       /\ readers' = readers \cup ({device} \X reading)
       /\ channel' = channel \cup ({device} \X running)
  /\ pc' = "kernel" /\ ok' = TRUE
  /\ UNCHANGED <<device, uploader, pending, failed, tasks, moved>>

TaskStart ==
  \/ InitAcpUploader \/ NotifyStart
  \/ JobStartAgain \/ StartProfRefused \/ StartProfFails \/ StartProf

-----------------------------------------------------------------------------
(* The kernel has run.  TaskStop tells the runtime; if that fails it       *)
(* returns and leaves everything as it is.                                 *)
NotifyStop ==
  /\ pc = "kernel"
  /\ pc' \in {"stopProf", "idle"}
  /\ UNCHANGED <<device, adapter, uploader, pending, jobVars, ok, tasks, moved>>

(* StopProf refuses a job that has not started. *)
StopProfRefused ==
  /\ pc = "stopProf" /\ ~Started
  /\ pc' = IF adapter = NoJob THEN "delete" ELSE "flush"
  /\ UNCHANGED <<device, adapter, uploader, pending, jobVars, ok, tasks, moved>>

(* UnRegisterCollectionJobs: each registered job stops its channel and     *)
(* removes its reader, which uploads what it still holds; then             *)
(* ProfChannelManager::UnInit drops the poller with the last reference.    *)
StopProfWith(mine, references) ==
  /\ pc = "stopProf" /\ Started
  /\ registered' = registered \ mine
  /\ channel' = channel \ mine
  /\ readers' = readers \ mine
  /\ pending' \in {pending, pending \cup (uploader \cap {r[1] : r \in readers \cap mine})}
  /\ index' = references
  /\ poller' = (references # 0)
  /\ pc' = "flush"
  /\ UNCHANGED <<device, adapter, uploader, failed, ok, tasks, moved>>

StopProf_CurrentDevice == StopProfWith({device} \X Job, index - 1)
StopProf == StopProfWith({adapter.device} \X Job, index - 1)

(* GetUploader finds no uploader of the device, or JobStop flushes it (the *)
(* channels first, of a poller that is still there) and writes the end.    *)
Flush ==
  /\ pc = "flush"
  /\ device \in uploader => device \notin pending
  /\ pc' = "delete"
  /\ UNCHANGED <<device, adapter, uploader, pending, jobVars, ok, tasks, moved>>

(* DelAllUploader, UploaderMgr::Uninit, jobAdapter_ = nullptr. *)
DelAllUploader ==
  /\ pc = "delete"
  /\ uploader' = {} /\ pending' = {}
  /\ adapter' = NoJob
  /\ moved' = FALSE
  /\ pc' = "idle"
  /\ UNCHANGED <<device, jobVars, ok, tasks>>

TaskStop == NotifyStop \/ StopProfRefused \/ StopProf \/ Flush \/ DelAllUploader

Next == (\E d \in Device : RtSetDevice(d)) \/ Read \/ Send \/ TaskStart \/ TaskStop

Spec == Init /\ [][Next]_vars

-----------------------------------------------------------------------------
(* Every variable has its type. *)
TypeOK ==
  /\ device \in Device
  /\ adapter \in Adapter \cup {NoJob}
  /\ uploader \subseteq Device /\ pending \subseteq uploader
  /\ index \in Nat /\ failed \in Nat
  /\ poller \in BOOLEAN /\ ok \in BOOLEAN /\ moved \in BOOLEAN
  /\ readers \subseteq Device \X Job
  /\ registered \subseteq Device \X Job
  /\ channel \subseteq Device \X Job
  /\ pc \in {"idle", "notifyStart", "jobStart", "kernel", "stopProf", "flush",
             "delete"}
  /\ tasks \in 0 .. MaxTask

(* The job counts its reference of the poller until it has been stopped. *)
HoldsPoller == Started /\ pc \notin {"flush", "delete"}

(* index_ counts the started job and every StartProf that failed half way: *)
(* those are never taken back, the others always are, exactly once, and    *)
(* the poller exists as long as the count is not zero.                     *)
IndexCounts ==
  /\ index = failed + (IF HoldsPoller THEN 1 ELSE 0)
  /\ poller <=> index > 0

(* Nothing is registered, read or collected but for the one job that is    *)
(* started: whichever step of a task fails, and whatever device is chosen  *)
(* meanwhile, a job that is given up has been stopped before.              *)
NothingLeftBehind ==
  registered \cup readers \cup channel # {} =>
    /\ HoldsPoller
    /\ registered \cup readers \cup channel \subseteq {adapter.device} \X Job

(* A channel that collects has a reader and the reader a poller; unless    *)
(* another thread chose a device meanwhile, also an uploader.              *)
ReadersServed ==
  /\ channel \subseteq readers /\ readers \subseteq registered
  /\ readers # {} => poller
  /\ ~moved => \A r \in readers : r[1] \in uploader

(* Unless the device is not that of the job, the uploader is not dropped   *)
(* with chunks in it, whatever failed before.                              *)
FlushedBeforeDelete ==
  pc = "delete" /\ ~moved /\ adapter # NoJob /\ adapter.device = device =>
    device \notin pending

(* A task cleans up after itself, whichever of its steps failed: poller,   *)
(* jobs, readers and uploader exist together and are given up in order.    *)
TaskSafe ==
  /\ TypeOK
  /\ IndexCounts
  /\ NothingLeftBehind
  /\ ReadersServed
  /\ FlushedBeforeDelete
=============================================================================
