---------------------------- MODULE OpAnalysis ----------------------------
(***************************************************************************)
(* From the tasks of a kernel launch to its op_summary file: the thread    *)
(* that launches a kernel replays it ReplayTime times, each time as        *)
(* TaskTime profiling tasks (acp_runtime_api_tool.cpp); the records of     *)
(* each task and then an end_info chunk go through the device's uploader   *)
(* to the OpAnalyzer (op_analyzer_tool.cpp), which collects the tasks'     *)
(* data in the OpDataManager (op_data_manager_tool.cpp) and writes it out  *)
(* when it has seen all tasks of the launch.                               *)
(*                                                                         *)
(* The mode is the collection of PMU events (no instr-profiling and no     *)
(* pc-sampling), where NotifyRtSwitchConfig does nothing.  The uploader is *)
(* the lossless channel that module Uploader shows it to be; its thread    *)
(* pops a chunk and then analyses it.  A chunk holds one record: several   *)
(* records in a chunk are parsed one by one and nobody looks in between.   *)
(* Block records, which only kernels of mixed type have, are left out;     *)
(* each is added to the PMU record of its task.                            *)
(***************************************************************************)
EXTENDS Naturals, Sequences

CONSTANTS
  TaskTime,     \* KERNEL_TASK_TIME of the launch, KERNEL_EXECUTE_TIME of the analysis
  ReplayTime,   \* GetKernelReplayTime()
  MaxLaunch,    \* bound: launches
  MaxFault      \* bound: failures, and tasks of which a record is lost

ASSUME AnalysisAssumption ==
  {TaskTime, ReplayTime} \subseteq Nat \ {0} /\ {MaxLaunch, MaxFault} \subseteq Nat

VARIABLES
  pc,          \* where the launching thread is
  launch, replay, exec,   \* which launch, replay and task it is at
  kernelOk,    \* ret of KernelReplay: the kernel of this task was executed
  uploader,    \* there is an uploader, and with it jobAdapter_
  todo,        \* records of the task that are still on the device
  queue, hand, \* chunks queued in the uploader; the chunk its thread has popped
  inited,      \* inited_ of the uploader's analyzer
  logInfo,     \* logInfo_: details of the tasks that have log records
  subTaskInfo, \* subTaskInfo_: tasks that have a PMU record
  manager,     \* OpDataManager, which survives the analyzers
  written,     \* what has been written to op_summary files
  faults,      \* counter for the bound
  cut          \* history: a launch did not have all of its tasks counted

appVars == <<pc, launch, replay, exec, kernelOk>>
analyzerVars == <<logInfo, subTaskInfo, manager, written>>
vars == <<appVars, uploader, todo, queue, hand, inited, analyzerVars, faults, cut>>

Task == (1 .. MaxLaunch) \X (1 .. ReplayTime) \X (1 .. TaskTime)
ThisTask == <<launch, replay, exec>>
NoChunk == [kind |-> "none"]
EmptyManager == [analyzeCount |-> 0, replayInfo |-> <<>>, summaryInfo |-> <<>>,
                 metrics |-> <<>>]

Init ==
  /\ pc = "idle" /\ launch = 0 /\ replay = 1 /\ exec = 1 /\ kernelOk = TRUE
  /\ uploader = FALSE /\ todo = {}
  /\ queue = <<>> /\ hand = NoChunk /\ inited = FALSE
  /\ logInfo = <<>> /\ subTaskInfo = {} /\ manager = EmptyManager /\ written = <<>>
  /\ faults = 0 /\ cut = FALSE

(* A step may go wrong in n ways at once, within the bound. *)
Fault(n) == faults + n <= MaxFault /\ faults' = faults + n

-----------------------------------------------------------------------------
(* KernelExec, past the warm-up, which is not profiled. *)
KernelExec ==
  /\ pc = "idle" /\ launch < MaxLaunch
  /\ launch' = launch + 1 /\ replay' = 1 /\ exec' = 1
  /\ pc' = "taskStart"
  /\ UNCHANGED <<kernelOk, uploader, todo, queue, hand, inited, analyzerVars,
                 faults, cut>>

(* TaskStart; that it fails is only logged.  The device produces the       *)
(* records of the kernel, and may produce one of an event as well.         *)
TaskStart ==
  /\ pc = "taskStart"
  /\ \/ (* InitAcpUploader fails *)
        /\ Fault(1)
        /\ UNCHANGED <<uploader, todo, inited>>
     \/ /\ uploader' = TRUE
        /\ \/ inited' = TRUE /\ todo' = {"begin", "end", "pmu"} /\ UNCHANGED faults
           \/ inited' = TRUE /\ todo' = {"event", "begin", "end", "pmu"} /\ UNCHANGED faults
           \/ (* InitAnalyzerByDeviceId fails *)
              inited' = FALSE /\ todo' = {"begin", "end", "pmu"} /\ Fault(1)
           \/ (* StartProf fails *)
              inited' = TRUE /\ todo' = {} /\ Fault(1)
  /\ pc' = "kernel"
  /\ UNCHANGED <<launch, replay, exec, kernelOk, queue, hand, analyzerVars, cut>>

(* A reader uploads a record; log records come from one channel.           *)
Upload(kind) ==
  /\ pc = "kernel"
  /\ kind \in todo
  /\ kind = "end" => "begin" \notin todo
  /\ todo' = todo \ {kind}
  /\ queue' = Append(queue, [kind |-> kind, task |-> ThisTask])
  /\ UNCHANGED <<appVars, uploader, hand, inited, analyzerVars, faults, cut>>

(* The next task: of this replay, unless the loop of KernelReplay was left *)
(* by a break, else of the next replay, unless the kernel failed.          *)
NextTask(ok, done) ==
  IF ok /\ done /\ exec < TaskTime
    THEN pc' = "taskStart" /\ exec' = exec + 1 /\ UNCHANGED <<launch, replay>>
    ELSE IF ok /\ replay < ReplayTime
      THEN pc' = "taskStart" /\ replay' = replay + 1 /\ exec' = 1 /\ UNCHANGED launch
      ELSE pc' = "idle" /\ UNCHANGED <<launch, replay, exec>>

(* The kernel ends and TaskStop begins: StopProf, after which no record is *)
(* uploaded any more, and SaveBasicOpInfo.  Without jobAdapter_ TaskStop   *)
(* fails at once.                                                          *)
TaskStop ==
  /\ pc = "kernel"
  /\ \E ok \in BOOLEAN :
       /\ kernelOk' = ok
       /\ Fault((IF ok THEN 0 ELSE 1) + (IF todo \ {"event"} = {} THEN 0 ELSE 1))
       /\ IF uploader
            THEN /\ queue' = Append(queue, [kind |-> "end_info", task |-> ThisTask])
                 /\ pc' = "flush"
                 /\ UNCHANGED <<launch, replay, exec, cut>>
            ELSE NextTask(ok, FALSE) /\ cut' = TRUE /\ UNCHANGED queue
  /\ todo' = {}
  /\ UNCHANGED <<uploader, hand, inited, analyzerVars>>

(* Uploader::Flush *)
Flush ==
  /\ pc = "flush"
  /\ queue = <<>>
  /\ pc' = "writeDone"
  /\ UNCHANGED <<launch, replay, exec, kernelOk, uploader, todo, queue, hand, inited,
                 analyzerVars, faults, cut>>

(* WriteDone, WaitOpDone: sleep while the analyzer holds data. *)
WaitOpDone ==
  /\ pc = "writeDone"
  /\ logInfo = <<>> /\ subTaskInfo = {}
  /\ pc' = "delete"
  /\ UNCHANGED <<launch, replay, exec, kernelOk, uploader, todo, queue, hand, inited,
                 analyzerVars, faults, cut>>

(* DelAllUploader joins the uploader's thread, which ends after the chunk  *)
(* it has in hand, and destroys the analyzer.                              *)
DelAllUploader_NoJoin ==
  /\ pc = "delete"
  /\ uploader' = FALSE
  /\ NextTask(kernelOk, kernelOk)
  /\ cut' = (cut \/ ~kernelOk)
  /\ UNCHANGED <<kernelOk, todo, queue, hand, inited, analyzerVars, faults>>

DelAllUploader ==
  /\ pc = "delete"
  /\ hand = NoChunk
  /\ uploader' = FALSE
  /\ NextTask(kernelOk, kernelOk)
  /\ cut' = (cut \/ ~kernelOk)
  /\ UNCHANGED <<kernelOk, todo, queue, hand, inited, analyzerVars, faults>>

-----------------------------------------------------------------------------
(* HandleStarsAcsq: the first detail of the task, or a new one when there  *)
(* is none or it is complete already.  An event is a task of its own.      *)
NewDetail(task, event) ==
  [task |-> task, event |-> event, begin |-> FALSE, end |-> FALSE, cycles |-> FALSE]

HandleStarsAcsq(log, kind, task) ==
  LET event == kind = "event"
      same == {i \in 1 .. Len(log) : log[i].task = task /\ log[i].event = event}
      first == CHOOSE i \in same : \A j \in same : i <= j
      found == same # {} /\ ~(log[first].begin /\ log[first].end)
      all == IF found THEN log ELSE Append(log, NewDetail(task, event))
      i == IF found THEN first ELSE Len(all)
  IN  IF kind = "end" THEN [all EXCEPT ![i].end = TRUE]
                      ELSE [all EXCEPT ![i].begin = TRUE]

(* SubTaskInfoMatch, for every detail. *)
SubTaskAssociation(log, sub) ==
  [i \in 1 .. Len(log) |->
     IF ~log[i].event /\ log[i].task \in sub THEN [log[i] EXCEPT !.cycles = TRUE]
                                             ELSE log[i]]

(* OpDataManager::AddSummaryInfo: without events, in groups of TaskTime. *)
AddSummaryInfo(m, detail) ==
  LET info == Append(m.replayInfo, detail)
  IN  IF detail.event THEN m
      ELSE IF Len(info) = TaskTime
        THEN [m EXCEPT !.replayInfo = <<>>, !.summaryInfo = Append(@, info)]
        ELSE [m EXCEPT !.replayInfo = info]

AddMetrics(m, metrics) ==
  IF m.analyzeCount % TaskTime = 0 THEN [m EXCEPT !.metrics = Append(@, metrics)] ELSE m

(* the details of a task, one after the other *)
AddAll(m, details) ==
  LET after[i \in 0 .. Len(details)] ==
        IF i = 0 THEN m ELSE AddSummaryInfo(after[i - 1], details[i])
  IN  after[Len(details)]

(* OpAssociation: the manager after the end_info of a task. *)
OpAssociation(m, log, sub, task) ==
  LET stored == AddAll(AddMetrics(m, task[2]), SubTaskAssociation(log, sub))
  IN  [stored EXCEPT !.analyzeCount = @ + 1]

CheckSummaryInfoData(m) ==
  /\ Len(m.summaryInfo) = ReplayTime
  /\ \A r \in 1 .. ReplayTime : \A e \in 1 .. TaskTime :
       LET d == m.summaryInfo[r][e] IN d.begin /\ d.end /\ d.cycles

(* FlushOpData, and UnInit of the manager, when all tasks are counted.     *)
FlushOpData(m) ==
  IF m.analyzeCount = TaskTime * ReplayTime
    THEN /\ manager' = EmptyManager
         /\ written' = IF CheckSummaryInfoData(m)
                         THEN Append(written, [data |-> m.summaryInfo, metrics |-> m.metrics])
                         ELSE written
    ELSE manager' = m /\ UNCHANGED written

(* OpAnalyzer::OnOpData for an end_info. *)
OnEndInfo_KeepsSubTasks(task) ==
  /\ FlushOpData(OpAssociation(manager, logInfo, subTaskInfo, task))
  /\ logInfo' = <<>> /\ UNCHANGED subTaskInfo

OnEndInfo(task) ==
  /\ FlushOpData(OpAssociation(manager, logInfo, subTaskInfo, task))
  /\ logInfo' = <<>> /\ subTaskInfo' = {}

(* DispatchOpData for a record. *)
DispatchOpData(kind, task) ==
  /\ IF kind = "pmu"
       THEN subTaskInfo' = subTaskInfo \cup {task} /\ UNCHANGED logInfo
       ELSE logInfo' = HandleStarsAcsq(logInfo, kind, task) /\ UNCHANGED subTaskInfo
  /\ UNCHANGED <<manager, written>>

-----------------------------------------------------------------------------
(* The uploader's thread. *)
Pop ==
  /\ hand = NoChunk /\ queue # <<>>
  /\ hand' = Head(queue) /\ queue' = Tail(queue)
  /\ UNCHANGED <<appVars, uploader, todo, inited, analyzerVars, faults, cut>>

OnOpData ==
  /\ hand # NoChunk
  /\ hand' = NoChunk
  /\ IF inited
       THEN /\ IF hand.kind = "end_info" THEN OnEndInfo(hand.task)
                                         ELSE DispatchOpData(hand.kind, hand.task)
            /\ UNCHANGED cut
       ELSE UNCHANGED analyzerVars /\ cut' = (cut \/ hand.kind = "end_info")
  /\ UNCHANGED <<appVars, uploader, todo, queue, inited, faults>>

-----------------------------------------------------------------------------
Stopping == Flush \/ WaitOpDone \/ DelAllUploader

Next ==
  \/ KernelExec \/ TaskStart \/ TaskStop
  \/ \E kind \in {"event", "begin", "end", "pmu"} : Upload(kind)
  \/ Stopping
  \/ Pop \/ OnOpData

(* The uploader's thread runs, and so does a thread that is in TaskStop.   *)
Fairness == WF_vars(Stopping) /\ WF_vars(Pop \/ OnOpData)

Spec == Init /\ [][Next]_vars /\ Fairness

-----------------------------------------------------------------------------
Detail == [task : Task, event : BOOLEAN, begin : BOOLEAN, end : BOOLEAN, cycles : BOOLEAN]

(* Every variable has its type, and a queue or a map of the analyzer is    *)
(* never carried over from one task to the next.                           *)
TypeOK ==
  /\ pc \in {"idle", "taskStart", "kernel", "flush", "writeDone", "delete"}
  /\ launch \in 0 .. MaxLaunch /\ replay \in 1 .. ReplayTime /\ exec \in 1 .. TaskTime
  /\ {kernelOk, uploader, inited, cut} \subseteq BOOLEAN
  /\ todo \subseteq {"event", "begin", "end", "pmu"}
  /\ \A i \in 1 .. Len(queue) : queue[i].task = ThisTask
  /\ hand # NoChunk => hand.task = ThisTask
  /\ logInfo \in Seq(Detail) /\ subTaskInfo \subseteq {ThisTask}
  /\ pc \in {"idle", "taskStart"} =>
       ~uploader /\ queue = <<>> /\ hand = NoChunk /\ logInfo = <<>> /\ subTaskInfo = {}
  /\ manager.analyzeCount \in 0 .. TaskTime * ReplayTime - 1
  /\ faults \in 0 .. MaxFault

(* While no launch was cut short, the analyzer has counted exactly the     *)
(* tasks that the launching thread has stopped, whenever that thread       *)
(* begins the next one.                                                    *)
CountsTasks ==
  ~cut =>
    /\ pc = "taskStart" => manager.analyzeCount = (replay - 1) * TaskTime + exec - 1
    /\ pc = "idle" => manager = EmptyManager

(* What a launch with nothing missing leaves in its op_summary file.       *)
Complete(l) ==
  [data |-> [r \in 1 .. ReplayTime |-> [e \in 1 .. TaskTime |->
               [task |-> <<l, r, e>>, event |-> FALSE, begin |-> TRUE, end |-> TRUE,
                cycles |-> TRUE]]],
   metrics |-> [r \in 1 .. ReplayTime |-> r]]

(* As long as no launch was cut short, what is written is the data of one  *)
(* launch, each task in its replay and under its metrics, whatever records *)
(* were lost; a launch that lost none is written.                          *)
WrittenIsLaunch ==
  ~cut =>
    /\ \A i \in 1 .. Len(written) : \E l \in 1 .. launch : written[i] = Complete(l)
    /\ pc = "idle" /\ faults = 0 => written = [l \in 1 .. launch |-> Complete(l)]

(* WaitOpDone reads the analyzer's maps under flushMtx_, but the parsers   *)
(* fill them without it: once Flush has returned, the uploader's thread    *)
(* must not parse records any more.                                        *)
NoParsingInWaitOpDone ==
  pc \in {"writeDone", "delete"} => hand = NoChunk \/ hand.kind = "end_info"

(* The analysis is safe: tasks are counted exactly, what is written is one *)
(* launch, and nothing is parsed while the analyzer's maps are looked at.  *)
AnalysisSafe ==
  /\ TypeOK /\ CountsTasks /\ WrittenIsLaunch /\ NoParsingInWaitOpDone

(* TaskStop returns. *)
TaskStopReturns == pc = "flush" ~> pc \in {"idle", "taskStart"}
=============================================================================
