# A TLA+ development of oam-tools

This directory specifies the four programs of `oam-tools` that have behaviour
worth checking:

* the **msprof collection core** (C++): a shared library interposes on the
  runtime, replays every kernel launch with profiling switched on, reads the
  device's channels with a pool of threads, carries the data through a bounded
  queue to an analyser, and writes an op_summary file;
* **asys** (Python): collects logs, runs a user's program and collects around
  it, asks running processes for their stacks, parses what crashed processes
  left, and diagnoses devices;
* **msaicerr** (Python): finds out from logs and dumps which operator failed on
  an AI Core, and runs it again on the device to see whether it fails there;
* the **fault-diagnosis skills** (Python): a resumable pipeline of seven stages
  around an agent, with a library of cases, and a tool that reconstructs a
  trace of events and causes from a package of logs.

Below, `D/` stands for `src/msprof/collector/dvvp/`, `S/` for
`skills/tool-fault-diagnosis/` in the repository.

* [1 The system](#1-the-system): inventory, interactions, what is hard
* [2 The modules](#2-the-modules): what models what
* [3 The runs](#3-the-runs): what is checked, with which bounds and fairness
* [4 The proofs](#4-the-proofs)
* [5 Where the code disagrees with its documents](#5-where-the-code-disagrees-with-its-documents)
* [6 What is not modelled](#6-what-is-not-modelled)
* [7 The plan](#7-the-plan)

## 1 The system

### 1.1 The collection core

| component | source | state | operations | must be true of it |
|---|---|---|---|---|
| bounded queue | `D/common/queue/bound_queue_tool.h` | `queue_`, `quit_`, a mutex, two condition variables | Push, TryPush, Pop, TryPop, TryBatchPop, Quit | first in first out, bounded, no lost wake-up, Quit releases everyone |
| threads and thread pool | `D/common/thread/` | `quit_`, `isStarted_`; `threads_`, one queue for each pool thread | Start, Stop, Join, Dispatch | no dispatch to a pool that is being cleared; Stop returns |
| uploader | `D/transport/uploader_tool.cpp` | queue, `forceQuit_`, transport | UploadData, Run, Flush, Stop, Uinit | lossless but for a forced stop; never used after its destruction |
| uploader registry | `D/transport/uploader_mgr_tool.cpp` | `uploaderMap_` of shared references, a mutex | Create, Get, Del, DelAll, UploadData | the last reference destroys |
| channel reader | `D/transport/prof_channel_tool.cpp` | a buffer, `schedulingTime_`, a flush handshake, two mutexes | Execute, UploadData, FlushDrvBuff, Uinit | no byte lost or written past the buffer; dispatches counted exactly |
| channel poll | same file | `readers_`, the pool | Run, AddReader, RemoveReader, Stop | no reader forgotten, no queue full, quiet after Stop |
| channel manager | `D/profimpl/.../prof_channel_manager_tool.cpp` | `drvChannelPoll_`, a reference count | Init, UnInit, AddReader, RemoveReader, FlushChannel | the count is the number of users |
| device job, collection jobs | `D/acp/src/acp_compute_device_job_tool.cpp`, `D/profimpl/.../*_job_tool.cpp` | `isStarted_`, the registry of jobs | StartProf, StopProf, Register, UnRegister | what was started is stopped, whatever fails |
| acp manager | `D/acp/src/acp_manager_tool.cpp` | `params_`, `jobAdapter_`, `mallocVec_`, `memoryVec_` | TaskStart, TaskStop, Save-, Reset-, ClearMallocMemory | each task leaves nothing; backups are owned |
| runtime interposition | `D/acp/src/acp_runtime_api_tool.cpp` | none of its own | KernelExec, KernelReplay, rtMalloc, rtFree, rtSetDevice | the application gets the effect of one run |
| operator analysis | `D/acp/src/op_analyzer*.cpp`, `op_data_manager_tool.cpp` | three maps for a task; count and records for a launch | OnOpData, parsers, association, WaitOpDone, FlushOpData | what is written belongs to one launch |

How they interact, each thread in a column:

    application thread                         poll thread         pool threads          uploader thread
    KernelExec                                 ChannelPoll::Run    ThreadPool            Uploader::Run
     | SaveMallocMemory, warm-ups               | prof_channel_poll  |                     |
     | per replay, per task:                    | DispatchReader --> | Execute             |
     |   ResetMallocMemory                                           |  prof_channel_read  |
     |   TaskStart: uploader, job, readers                           |  UploaderMgr::UploadData --> queue --> OpTransport
     |   kernel                                                                            |   OpAnalyzer::OnOpData
     |   TaskStop: StopProf, end_info --------------------------------> queue             |   end_info: associate, count, write
     |     Flush (queue empty) <-- polls
     |     WaitOpDone (maps empty) <-- condition variable -------------------------------- |
     |     DelAllUploader: destroys the uploader, joins its thread

Calls go down; data goes right. The shared state is the queues, the registry
of uploaders (the application thread drops it while pool threads look uploaders
up), the readers (removed by the application thread while they are queued for
execution), `params_` (any thread that calls rtSetDevice) and the singleton
OpDataManager, which outlives the analyser that fills it.

### 1.2 asys

| component | source | state | operations | must be true of it |
|---|---|---|---|---|
| files, arguments, environment | `src/asys/`: `common/file_operate.py`, `cmdline/`, `params/`, `config/`, `drv/` | the directory tree, the parameter dictionary | copy, move, remove, create; check of each argument | nothing outside the output directory is changed; a refused command does nothing |
| collect and launch | `collect/`, `launch/` | output and intermediate directories, the handle of the user's task | collect host, device and RC logs, graphs, ops, dumps; run the task; clean; tar | no log is lost in silence; Ctrl-C stops the task |
| stack traces on demand | `collect/stacktrace/` | none: ps, kill and the files of the target | check for another tracer, signal 35, wait for a new file, parse it | one tracer for each target; the file is complete and one's own |
| trace and stackcore parsers | `collect/trace/`, `collect/stackcore/`, `collect/coretrace/`, `analyze/` | attributes of one parser object, shared by a thread for each file or frame | parse, resolve, rewrite, remove the source | every message and frame is in the text before the source goes |
| diagnosis, health, configuration, profiling | `diagnose/`, `health/`, `common/*handler*.py`, `common/task_common.py` | a forked worker with a time limit, results for each device | detect, ask, configure, restore | every device has a result; no worker survives |

One process; its main thread starts parser threads, forks a worker for the
queries of devices, starts the user's program, and has a thread that shows
progress. Signals (Ctrl-C) arrive on the main thread. Several asys processes
meet in ps and in the files of the process they trace.

### 1.3 msaicerr

| component | source | state | operations | must be true of it |
|---|---|---|---|---|
| collection | `src/msaicerr/ms_interface/collection.py` and beside | what was found so far | find the failing log, node, kernel, dump; copy | a choice rests on lines of the same error |
| analysis | `aicore_error_parser.py`, `aic_error_info.py` | the record of the error | eleven steps, each may find nothing; counters, arguments, tiling | exit code 0 needs a rerun that ran well; reports tell what happened |
| dump parser | `dump_data_parser.py` | lists of tensors and workspaces | parse the dump of the error, then those of the user | user dumps leave the tensors and addresses of the error alone |
| rerun | `single_op_test_frame/` | device memory of a case, two layouts | allocate, copy, launch, synchronize, free | freed once on every way out; "not reproduced" means it ran |
| reports, command line | `aicore_error_parser.py`, `msaicerr.py` | none | text and JSON report, exit code | the report tells what happened |

Sequential, but for the process of the rerun. What is hard is that each step
reads logs written by several threads, devices and tasks, finds its lines with
keys of its own, and leaves its result in a record that all later steps trust.

### 1.4 The fault-diagnosis skills

| component | source | state | operations | must be true of it |
|---|---|---|---|---|
| orchestrator | `S/orchestrator-skill/scripts/` | `state.json`, an artifact for each stage, work directories, a lock | start, resume, restart from a stage, one stage only; retry; finish | after any crash the state is never ahead of the artifacts; a run that ends well, with nothing changed under it, is current |
| case lookup and scenario | `S/orchestrator-skill/scripts/detect_scenario.py` | none | read the material, look cases up, name the scenario | the lookup is that of this material and library |
| review and publication of cases | `S/eval-skill/scripts/` | the case library, receipts, its lock | score, gate, promote to accepted or pending | published once, reviewed; nobody else's case lost but in two named windows |
| report page | `S/metric-skill/scripts/build_html_report.py` | none | check and show the diagnosis | claims no more than trace and review support |
| trace skill | `S/trace-skill/scripts/` | one trace in memory, then three files | read the package, parse, normalize, relate, select an anchor, bound the views, validate, render, write | no evidence passed over; nothing proven on conflicting evidence; what is written is valid |

The pipeline calls the scripts in order and stores the result of each. An agent
edits the artifact of the diagnosis between two runs; the material, outputs and
the case library may change at any moment; the process may be killed between two
writes.

### 1.5 What is hard here

* *Interleavings.* Two condition variables on one mutex; a pool thread that
  tests, tests again and then blocks; a reader removed while queued; a producer
  whose reference to the uploader is the last; two asys processes that look for
  each other in ps; threads that share one parser object.
* *Waiting.* Flush polls a queue; WaitOpDone polls the analyser's maps, which
  are filled under no lock; FlushDrvBuff sleeps for an amount to be read; the
  stack tracer polls a directory for a limited time; a worker is joined, asked
  to end, and killed.
* *Partial failure.* TaskStart and TaskStop are eight steps on four singletons;
  asys moves logs from directory to directory in loops that stop at the first
  failure and then removes the source; the rerun may fail at every call with
  tensors on the device.
* *Crash and restart.* The pipeline writes an artifact, then the state; a
  publication writes a receipt, then the library, then the receipt again.
* *State that outlives its use.* `memoryVec_`, `jobAdapter_`, `index_` and
  `analyzeCount_` are reset on the good path only; fingerprints and receipts are
  of a moment that is over when they are used; lists that one dump filled are
  appended to by the next.
* *Order.* Events of several clocks; several rules that may connect the same two
  events; two ladders over findings that are mostly the same.
* *Limits.* Buffer, queue and dispatch limits; sizes that mix signed, 32-bit and
  64-bit integers; archives in archives; views cut to a number of events.

`PROJECT.json` lists each of these as a hazard at its line, with the property
that covers it or the reason why none does.

### 1.6 The rest of the repository

| part | what it is | here |
|---|---|---|
| instr-profiling, BIU and pc-sampling analysers | more record formats of msprof | not modelled |
| acp command, msprof command (`D/msprofbin`, `D/app`) | options, validation, child processes, SIGINT | running modes planned |
| dynamic profiling client (`D/msprof/dynamic_profiling`) | sends commands to server processes over sockets | planned |
| system timers (`prof_timer_tool.h`) | headers only in this repository | no code to model |
| driver, HDC, platform, json, utilities, osal | wrappers and tables | not modelled |
| `skills/cann-perf-breakdown` and the other performance skills | one-shot transformations of profiling tables and syntax trees into reports | not modelled; the runner of its stages is planned |
| `S/` cleaning, collection and benchmark scripts | filters of text | their result is a value of the clean stage |
| `src/hccl_test` | MPI benchmarks | not modelled |
| `src/operator_cmp`, `cmake`, `scripts`, third-party code, examples | build files, packaging, assets | not modelled |

## 2 The modules

| module | models | built on |
|---|---|---|
| `FifoChannel` | abstract: a lossless first-in-first-out channel of some depth that may close | |
| `BoundQueue`, `QueueClients` | the queue's methods as steps; any threads calling any of them; refines `FifoChannel` | |
| `Uploader` | one uploader from creation to destruction, its registry, producers, owner; refines `FifoChannel` | `BoundQueue` |
| `ChannelReader` | one reader: Execute, flush, removal, dispatch | |
| `ChannelPoll` | poll thread, pool, owner; any readers | results of `QueueClients`, `ChannelReader` |
| `KernelReplay` | KernelExec over the application's device memory | |
| `AcpTask` | TaskStart and TaskStop over the singletons | results of `Uploader`, `ChannelPoll` |
| `OpAnalysis` | launches, replays and tasks, the uploader as a channel, the analyser | results of `Uploader` |
| `AsysFiles` | the tree and every operation of file_operate | |
| `AsysLogs`, `AsysGather` | what collect and launch gather | `AsysFiles` |
| `AsysArgs` | command line, parameters, ini file | |
| `AsysTrace`, `AsysStackcore` | parser threads and frame threads | `AsysFiles` |
| `AsysStacktrace` | several tracers, their targets and the user, a specification of its own | |
| `AsysDevice` | answers of devices, health, diagnosis, configuration | |
| `Asys` | one run of asys, composed of all of the above | |
| `AicErrCollect`, `AicErrDump`, `AicErrInfo` | collection, dumps, program counters and what else the logs say | each on the ones before |
| `AicErrOp` | the rerun and its device memory | `AicErrInfo` |
| `AicErrReport`, `MsAicErr` | conclusion and reports; the command and its steps | `AicErrOp` |
| `FaultCases`, `FaultDetect`, `FaultReport` | library and score; lookup and scenario; the page | |
| `FaultStages`, `FaultPipeline` | stages, fingerprints, artifacts; the pipeline with crashes | the three above |
| `FaultRecords`, `FaultRelations`, `FaultViews`, `FaultTrace` | the package and its records, relationships, component summary and views, the command | each on the ones before |
| `MC...` | instances for TLC: the scenarios, plans, packages and worlds that are explored | |
| `QueueProofs`, `ReaderProofs`, `PollProofs`, `AcpProofs`, `OpAnalysisProofs` | theorems and proofs, see section 4 | `QueueClients` and `Uploader`; `ChannelReader`; `ChannelPoll`; `AcpTask` and `KernelReplay`; `OpAnalysis` |
| `AsysProofs`, `MsAicErrProofs`, `PipelineProofs` | the same for the Python programs | `Asys`; `MsAicErr`; `FaultPipeline` |

**Conventions.** Variables, actions and operators keep the source's names; `pc` (`stage` in
`KernelReplay`, elsewhere also the name of a thread) says where a thread is. A mutex that is held across a point
where another thread could observe something is a variable; work under a mutex
that nobody can observe before its release is one step. A variable marked
*history* is read by properties only. A definition `Name_What` before `Name`,
like `Flush_NearlyEmpty` or `ParallelFree_OthersOnly`, is a plausible faulty variant
of it (a dropped guard, a missing reset, another order): no specification uses
one, and for each property PROJECT.json names one under which it must fail. Bounds on otherwise unbounded counters are
constants named `Max...` and commented "bound", or the `budget` of a plan.

**Data in the Python programs.** A log, a dump or a report is never text. A file's
content is a record of what the expressions in the code find in it; a line is a
record whose fields are the matches; a name is a string that stands for the
class of names the code tells apart. Functions of the code that transform data are
operators; what is written to disk, run beside something else, or may fail is
an action. A *scenario* (a *world* in msaicerr, a *plan* in the pipeline, a *job*
in the trace skill) is the initial state: everything the program finds.

### 2.1 BoundQueue, QueueClients, FifoChannel

Every method runs under the queue's one mutex and so is one step, except that
a blocking method is a call (`PushWait`, `PopWait`), a sleep in a wait set, and
a step when the predicate holds (`PushDone`) or the queue has quit
(`PushRefused`). `NotifyPush` empties the wait set `cvPush`: a notified thread
is runnable and tests its predicate again, so spurious wake-ups change nothing.
A thread that is asleep and whose predicate becomes true without a notification
stays asleep: that is how a lost wake-up shows. `QueueClients` composes any
number of threads that call anything; `FifoChannel` is what they rely on.

### 2.2 Uploader

The map's reference and those of producers inside `UploadData` are counted by
`inMap` and the threads' program counters; whoever drops the last one becomes
`destroyer` and runs `~Uploader` (forced stop, quit of the queue, quit of the
thread, join). `Run` is the four steps of the source: TryPop, look at quit,
blocking Pop, send. The queue is an instance of `BoundQueue`'s steps, with its
wait sets. The transport is the sequence `delivered`.

### 2.3 ChannelReader

`mtx_` and `flushMutex_` are variables. Execute takes `mtx_` for all of its
reads, `flushMutex_` for one; the flusher takes `flushMutex_` for its query,
sleeps without it and then wants `mtx_` with `flushMutex_` held. Sizes are in
units of 1 MB; `flushCurSize_` wraps at `Word` as `uint32_t` does. The driver is
external: data becomes readable, a read returns at most what fits or fails, a
flush announces an amount.

### 2.4 ChannelPoll

One poll thread, one owner, any readers and pool threads. `readers_` is behind
a mutex; a reader that was found may be removed before it is dispatched and
still be executed. `DispatchReader` is check, count and `ThreadPool::Dispatch`,
all by the poll thread. The task queues are sequences without a capacity, which
`QueueFits` justifies. An execution of a reader only takes time here.

### 2.5 KernelReplay

A content is known by the buffer, the launch at whose start it was there and
the number of kernel runs since. `mallocVec` and `memoryVec` are the code's
vectors, placeholders included; a reset pairs them by index when their sizes
agree. Every allocation, copy, kernel, TaskStart and TaskStop may fail.
The application is single-threaded here, as neither vector has a lock.

### 2.6 AcpTask

TaskStart and TaskStop as their steps: InitAcpUploader, notify, JobStart
(the parameters, the poller, the channels, the registration with its readers),
kernel, notify, StopProf, FlushChannel and end_info, Flush, DelAllUploader.
Each failing path leaves what the code leaves. The poll thread (`Read`) and the
uploader's thread (`Send`) go on meanwhile, and `RtSetDevice` may come at any
moment; `moved` records that it chose another device under a task.

### 2.7 OpAnalysis

One launching thread and the uploader's thread. The uploader is a sequence and
the chunk in hand; that this is faithful is what `Uploader` shows. A chunk is
one record or an end_info. The analyser's maps are `logInfo` (a sequence of
details, one for each task and event) and `subTaskInfo`; `manager` is
OpDataManager. A task's records may be lost, a kernel may fail, TaskStart may
fail at each of its steps. `cut` records that a launch did not get all its
tasks counted.

### 2.8 Asys

A path is a sequence of names; a tree is a record of files, directories, what
may not be read or written, and the order in which listdir returns names. Every
file operation is an operator that returns the tree, the bool the code returns
and whether an exception leaves it, so that `ret and ...` chains, loops that stop
and exceptions that nobody catches come out as in the code. `Asys` gives the main
thread a step for each place where something else may happen: between the start
of the user's task, the installation of the handler and the handle of the task;
between the messages of the parser threads; between the answers of the worker
and the join that times out. `Interrupt` is Ctrl-C at any of the steps where the
code reacts to it differently.

`AsysStacktrace` is a protocol of its own, `StSpec`: any tracers, any targets,
each tracer in the steps ask, look for others, count, signal, wait, parse; a target
that answers each signal by one file, slowly, and may die. `Asys` runs it when
the command is stacktrace, and the theorem `AsysRunsStacktrace` says so.

### 2.9 MsAicErr

The steps of main and of `AicoreErrorParser.parse` are the actions; each calls an
operator of the module for its part. A search (`Grep`) returns lines in the order
of the files; "the first", "the last", "sorted by time" are those of the code, as
results depend on them. A dump of the user is parsed like that of the error, and leaves
its tiling data and its invalid tensors in the same record. The rerun is a fold over the calls of the runner: a
runner holds its buffers and the list of those it will release; a device answers
each call. Program counters are four pieces of bits, as the registers replace
pieces.

### 2.10 FaultPipeline

Disk and process are separate variables, and a crash forgets the second. The
state machine is that of `run_stage` and `main`: a stage is skipped when it is
reusable, accepted when somebody else has delivered its artifact, noted when
its predecessor died in it, left waiting, or begun anew; `write` and `save` are the two
writes of finalize. A publication takes the lock of the library, looks for its receipt,
copies the library, has the copy changed and hashes the library, looks at it again,
replaces it and marks the receipt: seven steps, of which the code's order of copy and
hash is one to look at twice (5.5). The agent, the curators and whoever changes the
material or an output are actions that cost budget: the agent completes artifacts between runs, as it is
the one that starts them, all others act between any two steps. Two variables are history: `steady` says that
neither the material nor an output has changed since the launch, `unseen` collects the
cases that were written where a publication does not look. A hash is the value it is taken of; a fresh
uuid is a counter. Simplifications: material that was replaced does not come back, the two
library files are copied in one step, and so are the two writes that confirm a candidate.

### 2.11 FaultTrace

`FaultRecords` reads archives in archives with the limits and refusals of the
code. Damage has the kinds the handlers tell apart: an exception that is caught and noted (`caught`), one
that nobody catches and that ends the command with a traceback and exit code 1 (`uncaught`: garbled
deflate or xz data, a compressed archive that is cut), and a tar that ends at a bad header as if it were complete
(`silent`). The module turns lines into records and merges what was seen twice.
`FaultRelations` has a rule for each relationship the code draws, the first to
connect a pair wins; conflicts are groups of observations that cannot all be
true. `FaultViews` holds the component summary, the clocks, anchors and
contexts, the validator, and the projection of the viewer, which cuts the trace in place. `FaultTrace`
is the command: read, build and validate, render, write three files; the output
directory may hold those of an earlier run.

## 3 The runs

Every run finishes within two minutes on two cores. The invariants named `...Safe`
are conjunctions of the named parts that the table lists, each with its own comment in the module.

| run | properties | instance |
|---|---|---|
| `queue` | QueueSafe: ClientsTypeOK, Fifo, WithinCapacity, NoLostWakeup; QuitReleases; QueueIsChannel | 3 threads, 2 items, capacity 2, batches of up to 3, 4 pushes |
| `uploader` | UploaderSafe: TypeOK, Conserved, FlushedLosesNothing, NoUseAfterDestroy; DroppedIsDestroyed; ImplementsChannel | 2 producers of 2 chunks, queue of 1 |
| `reader` | ReaderSafe: TypeOK, Accounted, BufferBound, SchedulingExact, RemovedKeepsNothing, FlushPending; DataIsRead; RemoveReturns | buffer 3 MB of at most 4, upload from 2 MB, 6 MB of data, 1 failing read, 1 flush, 2 dispatches |
| `poll` | PollSafe: TypeOK, SchedulingExact, QueueFits, DispatchFindsThreads, StoppedIsQuiet; StopReturns | 2 readers on one of 2 pool threads, 2 dispatches |
| `replay` | ReplaySafe: TypeOK, BackupsOwned, ReplaysAlike, Transparent | 2 buffers, 3 allocations, 3 launches of 2 replays of 2 runs |
| `task` | TaskSafe: TypeOK, IndexCounts, NothingLeftBehind, ReadersServed, FlushedBeforeDelete | 2 devices, 2 jobs, 3 tasks |
| `analysis` | AnalysisSafe: TypeOK, CountsTasks, WrittenIsLaunch, NoParsingInWaitOpDone; TaskStopReturns | 2 launches of 2 replays of 2 tasks, 2 faults |
| `asys` | NothingLost, OutsideUntouched, NothingRunsOn, EveryDeviceReported, FramesResolved, StackTraces, TraceKept | some fifty scenarios: collections, launches with Ctrl-C at any step, analyses, diagnoses, device commands, refused command lines; 2 tracers of 1 target |
| `msaicerr` | TensorsFreedOnce, ExitZeroWasRerun, NotReproducedMeansRan, CustomStaysApart, GroupsKeepTheirOwnPc, ReportTellsTheRun | one usual failure of an operator and every single way the logs, dumps, files, device answers and arguments differ from it |
| `pipeline` | StateNeverAhead, EndIsCurrent, PageIsBacked, OwnPublicationKeepsLookup, PublicationSound, OthersKept, WorkIsFresh | 13 plans; up to 3 launches, 1 crash, 1 failing stage, 2 changes from outside at any step; 2 versions of the material |
| `trace` | InputAccounted, ProofAvoidsConflicts, ViewsAreTrue: ContextIsNearest, AnchorIsEarliest; BuiltIsValid, SummaryJoinsErrors | six families of packages, see below |
| `trace_written` | WrittenIsValid, violated | the same; see section 5 |

**Why these bounds.** *queue*: two pushers and a popper, or the reverse, must
sleep at once for a notification to reach the wrong one; four pushes fill the
queue twice. *uploader*: with a queue of one, one producer blocks in Push while
the other is in the lookup and the owner destroys; two chunks each keep the
queue full after the first is popped. *reader*: a buffer that is not a multiple
of the upload size and smaller than the maximum reaches every branch of the size
tests; 6 MB fill and empty it twice. *poll*: two readers on one thread meet in
one queue, the other thread shows what an idle one does. *replay*: with three
allocations an address is given out again after a free; the third launch sees
what a failed second one left. *task*: three tasks on two devices give a task
before and one after each failing one. *analysis*: the smallest numbers for
which a count can be off within a replay, between replays and between launches;
the code has 5 tasks, and one more does not add a kind of step. *asys*: a
scenario for every command, mode and kind of outcome (each refusal, each
exception, each source that is missing, unreadable or cannot be moved); two
files for each loop that may stop after the first; two tracers, as more
than two only adds refusals, which the proof covers. *msaicerr*: the analysis is sequential, so a
variation changes one or two things and the rest of the steps run on what it
left. *pipeline*: a crash, a resume and a restart need three launches; crash,
fault and change are combined as far as each plan's question needs; two changes from outside put
one case into each of the windows of a publication. *trace*:
`HostJobs` are all logs of up to two or three lines from an alphabet with a line for every
rule; `LongJobs` exceed each bound of the correlation (fan-out, burst, context,
embedded events), which are scaled down by `MCBounds`: the code compares times with
them and counts events, so that a log of a few lines lies on both sides of each;
`ClockJobs` align, misalign and close circles of clocks; `FormatJobs` have the
other formats; `PackageJobs` nest, refuse, limit and have each kind of damage
at each level; `RefusedJobs` are the
inputs main rejects.

**Stopping.** `asys` and `msaicerr` are checked for deadlock: their main threads
may stop only at an exit, so a join or a wait for something that never comes is
found. The other configurations say `CHECK_DEADLOCK FALSE` because the system
may really stop: queues quit, launches end, the budget of a plan is used up, a command
of the trace skill is over. There, waiting for ever is caught by the liveness properties.

**Fairness and why the code justifies it.** Weak fairness is given to a thread
inside a method or a loop that the operating system schedules: the uploader's
thread, the poll thread, pool threads, a thread that has called Stop, TaskStop,
Push or Pop. None is given to callers: that anybody calls Push, Quit, Stop,
RemoveReader or a launch is never assumed; nor to the driver's production of
data or to failures. Two steps of `ChannelReader` that lock `mtx_`, the
remover's and the flusher's, have strong fairness: `mtx_` is free again and
again while pool threads execute, and a mutex that starved a waiter for ever
would not be one of the platforms the tool runs on. The other modules have
safety properties only and no fairness: whether the pipeline ends is up to
people and to retries that the code does not limit.

**What the properties say of the code.** The comment before each property in
its module says it in words. The most telling are: no lost wake-up
(`NoLostWakeup`) and the refinement of the channel, on which every later module
relies; that a producer may be the one to destroy an uploader and nothing is
used afterwards (`NoUseAfterDestroy`, `DroppedIsDestroyed`); that a removed
reader cannot fill its emptied buffer again although it may still be queued
(`RemovedKeepsNothing`); that dispatch counts are exact across three threads
(`SchedulingExact`), which is why no queue fills (`QueueFits`) and no reader is
forgotten (`DataIsRead`); that the replays are invisible to the application and
alike to the profiler, up to named failures (`Transparent`, `ReplaysAlike`);
that whatever step of a task fails, nothing of it survives unnoticed
(`NothingLeftBehind`, `IndexCounts`); that the unlocked maps of the analyser
are read only when nobody fills them (`NoParsingInWaitOpDone`); that asys loses none of the
logs its collectors know of without a warning, although it deletes what it could not move (`NothingLost`),
and touches nothing of the user's (`OutsideUntouched`); that no worker, thread or task
outlives it (`NothingRunsOn`); that msaicerr frees every tensor once however a
case ends (`TensorsFreedOnce`), that neither exit code 0 nor "not reproduced" ever stands for a rerun that
did not run or did not end well (`ExitZeroWasRerun`, `NotReproducedMeansRan`), and that the report says of it what
happened (`ReportTellsTheRun`); that a dump of the user leaves tensors and addresses of the error
as they were and changes its tiling data and the verdict on the data only as stated (`CustomStaysApart`);
that a killed pipeline never resumes on an artifact it has not got
(`StateNeverAhead`), publishes at most once (`PublicationSound`), takes away no case but
those written where it does not look (`OthersKept`), and, with nothing changed under it, ends well only when
everything is current up to what others add to the case library (`EndIsCurrent`), with a page that claims
no call and no cause beyond its evidence (`PageIsBacked`); that a trace which is built passes no member of the package
over but behind a bad header of a tar (`InputAccounted`), and shows around a fault what is nearest (`ViewsAreTrue`).

**Exceptions that properties name.** `DataIsRead` and `RemoveReturns` except a reader with
a flush in its way, since such a flush can block the reader for ever (5.2). `Transparent` and
`WrittenIsLaunch` except launches after a named failure (5.2). `NothingRunsOn` speaks of a
handle that execute_task has; `StackTraces` of answers before anybody has given up;
`TraceKept` of .bin files whose bytes are a trace and whose messages fit their slot; `ProofAvoidsConflicts` of the rules
that ask for agreement; `BuiltIsValid` of logs whose clock declarations make sense. `EndIsCurrent` speaks of runs
under which neither the material nor an output changed: a run during which one did may end well with an earlier stage made of
what is there no more, which the next run finds out. `PublicationSound`, `OthersKept` and
`OwnPublicationKeepsLookup` except the cases that were written into the library between the copy and the hash of a
publication or after its last look (`unseen`, `NoneOverlooked`). `InputAccounted` speaks of runs that have
read their package to the end, and not of what is behind silent damage. `CustomStaysApart` names what a dump of the user
does change. What happens
beyond each exception is in section 5.

## 4 The proofs

All theorems hold for every value of the constants under the assumptions that
the modules name; TLC evaluates those on the instances. Each proof has the same
shape: an inductive invariant that implies the checked property, lemmas that say
that each action preserves it (in `AsysProofs`, one for each conjunct of the
invariant), and a theorem that puts them together.

**QueueProofs** (any threads, items, capacity of at least one): `QueueIsSafe`,
`QueueImplementsChannel`. The inductive invariant is the conjunction of `ClientsTypeOK`,
`Fifo`, `WithinCapacity` and `NoLostWakeup`. `NoLostWakeup` is inductive only
together with two of the others: `ClientsTypeOK` ties the sleepers to their calls, and
`WithinCapacity` makes the equality test of IsQueueFull as good as an inequality.
The refinement maps each method to Accept, Deliver, Close or a stutter; a batch
pop is one Deliver of several elements. What appending to a sequence and taking a
prefix of it do is stated first, behind opaque predicates, since the provers expand
sequence operators without end.

**QueueProofs**, second part (any producers, any capacity of at least one, any number of
chunks): `UploaderIsSafe`, `UploaderImplementsChannel`. `Data` says where every
accepted chunk is. The rest says who may do what: `InCharge` that the map refers to the
uploader exactly until the owner lets go of it; `OneDestroyer` that whoever runs
~Uploader is the only one and that nobody has a reference then, which is why
no producer is caught inside; `Joined` that a thread that was started is joined, whoever
joins it; `Settled` that a flush which no producer races leaves an empty
queue behind; `Handed` that the sender has a chunk in hand exactly while it
sends. `Settled` needs `Data` (an empty queue and an empty hand mean that everything was sent)
and is what makes the forced stop harmless. The refinement maps a push to
Accept, SendBuffer to Deliver and Quit to Close, of a channel one deeper
than the queue, for the chunk in hand.

**ReaderProofs** (any buffer, upload and read sizes, any limit, any amount of
data): `ReaderIsSafe`. `Accounted` needs `Balance` (what the driver produced is
readable or was read). `RemovedKeepsNothing` needs `Stopping`: the flags are set
before the buffer is emptied, and a worker that is past its test cannot be
inside a read by then, because both hold `mtx_`. `FlushPending` needs
`FlushReset`, that nothing is counted between two flushes: a stale count would
end the next flush early. The two mutexes enter through `TypeOK`, which ties
each to the program counters of its holders.

**PollProofs** (any finite set of readers, any hash of them, any number of pool
threads and limit of dispatches of at least one): `PollIsSafe`,
`PollQueuesFit`. `Counted` says that schedulingTime_ is exactly how often a reader is in the
queue of its thread plus one while it is executed; it is inductive because a reader
always hashes to the same thread (`Dispatched`), so that no two
threads ever decrement one count. `PoolOpen` ties the pool to the owner: it
is emptied only after the poll thread was joined. That no queue fills is a pigeonhole
argument without induction over data: the places of a queue map one to one to pairs of a
reader and the how-manieth occurrence of it, and the limit of
dispatches bounds the second, so that a queue has no more places than readers times the limit.

**AcpProofs** (any devices, jobs, number of tasks): `TaskIsSafe`. The
invariant adds `UploaderReady` to the checked properties: between
InitAcpUploader and StartProf the device has an uploader unless another thread
has chosen a new one. `NothingLeftBehind` and `IndexCounts` support each other:
a reader exists only for the started job, and the started job is the one that
UnInit will count down.

**AcpProofs**, second part (any buffers, groups of metrics, rounds, allocations and
launches): `ReplayIsSafe`. `Saved` is the heart: as long as every copy succeeded
and no earlier launch left backups behind, memoryVec_ is as long as mallocVec_
and holds, for each address, what the buffer held at the launch. A reset then
brings back exactly that (`ReplaysAlike`), and the kernel run after it leaves exactly one
run behind (`RanOnce`). `Replaying` (a group is left when a round begins) bounds
the loops. The backups are counted: SaveMallocMemory adds to the end of memoryVec_
whatever an earlier launch left there, so that the number of backups of two
sequences one after the other is the sum of both. The assumption, beyond the types:
the null pointer and a failed copy are not contents.

**OpAnalysisProofs** (any replays, tasks of a replay, launches and failures):
`AnalysisIsSafe`. The launching thread, the uploader's thread and the device meet in three
places, and the invariant has a part for each. `Flow`, `Once` and `Log` are about the chunks of the
task at hand: each kind comes once, the end_info last, and what the log has of a task is
exactly what is not waited for any more. Hence the analyzer has counted the task
when the chunks are gone (`Counted`), at the latest when WaitOpDone has seen empty maps and DelAllUploader has
joined the thread. `Full` follows what a task without a fault must still get. `Counting` is the
heart: before task e of replay r the manager has counted (r - 1) * TaskTime + e - 1 tasks
and holds either exactly as many details, each in its place, or, after a fault, fewer.
A manager that is behind can never catch up before the launch is counted, so that it
fails the check of the sizes and nothing is written, and one that is not behind has lost no task: this is why
what is written is whole although nobody compares a task with its place. `Writing` turns that into what the
file holds. The details of a task are added by a local recursive function; as they are at most two (one
event and one other, by `Log`), what it computes is shown by hand. The arithmetic
of the count (`FirstOfReplay`, `LastTask`) is nonlinear and stated apart.

**AsysProofs** (any tracers, targets and number of signals; `MaxRequest` a
natural number): `StackTracesAreSound`. Two asys processes that ask for stacks
look for each other by the processes that run, so that a tracer that is past its
look excludes every later one that asks the same target; this is why the number
of answers that a tracer has counted still holds when its signal is answered, and why, as long
as nobody has given up waiting, a signal is pending only for the tracer that
waits for it. `AsysRunsStacktrace` shows
that a run of asys takes no other step with the tracers than that protocol
allows, so that `AsysHasSoundStackTraces` carries the result over to the whole
of asys without a proof about the rest of it.

The run itself has an inductive invariant of its own, `RunInv`, for any scenarios
(`ScenarioAssumption`: argparse has accepted the command and read the device as a number; `TxtAssumption`: different
.bin files have different texts). `Beside` says where the main thread is while a worker,
the task, the view of the progress or a parser thread is on, which gives `AsysNothingRunsOn`. `Ways` says
which steps a command passes: without it a diagnosis could end through the exit of
another command. `Detected` carries `AsysEveryDeviceReported` through the detection, whose groups
of devices are taken in any order: every device is in a group still to be asked or has what
the first of its group has. `Stacked` gives `AsysFramesResolved`: a thread is
done only after it wrote all frames, and no other touches its file. `Texts` gives `AsysTraceKept`: while a
thread reads its k-th message it stands at the offset of that message, and its
text has a line for each wanted message before it. The offset is right only if the messages before
have fitted their slots, which is why the property asks it of the file (5.2).

**MsAicErrProofs** (any invocation, machine, logs and dumps): `AnalysisExitZeroWasRerun`,
`AnalysisReportTellsTheRun`, `AnalysisNotReproducedMeansRan`, `AnalysisTensorsFreedOnce`. The exit code comes from a
ladder of conditions of which all others must have failed for it to be 0 (`NoErrorIsSuccess`). It is no theorem, and
not true, that the conclusion then names no culprit: it comes from another ladder, which looks at more (5.4). What
needs an invariant is the rerun: `Rerun` says that the operator is rerun at most once, that
"not run" is what is known as long as no process was started, and that a case counted as a
success came to its end with two good launches, of whatever the device, the
compiler and the log of the process answer on the way. `Known`, `Listed` and `Output` are the
shapes it rests on, and that nothing is written before the end. Nothing
depends on how the error was found, so that collection and parsing enter only by
their leaving the rerun alone.

`AnalysisTensorsFreedOnce` is about the device memory of the rerun, for any tensors, pointers, tiling and
workspaces, any answers of the device and any way out. The arguments are filled in by four
nested folds, and the release is a fifth. A fold of the community modules is a recursive function on the
subsets of its positions: `FoldExists` builds it upwards from the empty set for steps that stay in
a set of values, so that the fold satisfies its equation, and `FoldStays` follows the equation up again.
The set of values is that of the runners that hold what they have (`HeldFills`): each tensor
is live, never freed and in the list of those to release. Every step keeps that: an allocation that
fails stops the runner before anything is listed (`TensorHeld`), a pointer tensor is listed only by what
it points to (`SubptrHeld`), a launch frees the tiling data alone (`LaunchHeld`). The release
has an invariant by position (`Released`), where a buffer listed twice finds its object without a device.
`FreeInv` carries it through the command: no case is run before the rerun, and what a rerun is given does
not change from one case to the next. It assumes `JsonAssumption` (every description lists its workspaces) and, as the
hypothesis `DumpListed` of the theorem, that the tensors read from the dump are a sequence and the
kernel's description is one of those: the first is true of whatever SelectSeq returns, but its
definition is closed to the backends. TLC finds `DumpListed`, `Given` and `NoCaseYet` true in
all states of the run `msaicerr`.

**PipelineProofs** (any plans that satisfy `PlansAssumption`, any number of
launches, crashes and faults): `PipelineStateIsNeverAhead`,
`PipelineWorkIsFresh`. The state on disk and that of the process agree except
inside the two writes (`InStep`). A stage saved as finished has the artifact
that was saved with it (`Kept`): its artifact is written before its state, and the state
saved before the work begins says "running", so that a crash in between
leaves a stage to be done again and never one that is ahead of its artifact (`AtWork`). An
attempt is counted on disk before its work directory is used, and no restart or
invalidation forgets the count, so that the number of a directory is new (`Numbered`).

`PipelineEndIsCurrent`, `PipelinePublicationSound` and `PipelineOthersKept` rest on two more
invariants above that one. `RunInv` says what a run has seen: every artifact on
disk was made from the inputs recorded in it (`Files`), the stages before the one at work are
finished and still fit their inputs (`Passed`), and so does the artifact in hand
(`InHand`). A stage writes only its own artifact and an agent completes one only while no run holds the lock, but
the material and the outputs may change under a run. So both are relative to `Versions`: while the run is steady a stage
must fit the material as it is, and afterwards one of the versions there have been; a change makes
the run unsteady for good, and only a launch, which passes every stage again, makes it steady. `LibInv`
says what is in the library: a case of an operation has a receipt (`Receipted`), a
publication holds a receipt that tells the library before and after
before it changes anything (`Reserved`), and no operation has two cases in the two
files (`OnceEach`): the number of attempts and kills in between does not matter, since a
publication that finds its receipt compares what is there with both. Others may write at every step of a
publication. `Reserved` follows what it has in hand through copy, hash and look: past the copy the staged
file has all of the target but what is `unseen` (`AtCopy`), at the look the target is what the receipt says
it was (`AtPrepare`), and past the look it again has only `unseen` cases more (`AtCheck`). From that
`PipelineOthersKept` follows at the commit, and `OnceEach` has to except a candidate of this run's own which was
confirmed in one of the two windows (`Noticed`): it may be written twice. The assumptions are that plans have stages of the
pipeline, that what the library holds before the run and what others add carries no operation of this run
(`LibraryAssumption`), and that the material is finite (`MaterialAssumption`).

**Only model-checked.** All liveness: fairness and ENABLED are out of the
provers' reach. SelectSeq and SortSeq are closed to them as well: what they
return is a fact of no proof, not even that it is a sequence. On them rest
`CustomStaysApart` and `GroupsKeepTheirOwnPc` of msaicerr. `OwnPublicationKeepsLookup` of the pipeline follows
receipts back through every state the library has had; with others writing at each
step of a publication it is checked on the thirteen plans only. `NothingLost` and `OutsideUntouched` of
asys follow directories copied and removed file by file in the order in which they are
listed, by SelectSeq again; the second also
needs to be told how the names of a scenario relate, without which an output file may well
replace one that was there. `PageIsBacked` rests on what the trace tool writes: the page finds the cards of a call by name,
title or tag, so that a summary which reads like the name of another component would mislead it,
and nothing in the code excludes one. The reading of nested archives (`ReadMembers` in
`FaultRecords`) and the accounting of it (`Accounted` in `FaultTrace`) are RECURSIVE operators, so
that nothing in the modules of the trace skill can be proved; no other module has one.

## 5 Where the code disagrees with its documents

### 5.1 With a run

`trace_written`: `S/trace-skill/SKILL.md:72` says of exit code 0 "schema-valid complete or
partial JSON plus canonical and compatibility HTML generated". The trace is
validated, then rendering bounds what the viewer embeds by cutting the events *of
the same object* (`pipeline.py:2107`), and that object is written (`:2298`). A package whose trace has more
than the 6000 events a viewer embeds ends with 0 and a JSON file in which
`event_count` does not match the events and validate_trace raises. With a second
candidate whose view names no context ids of its own, because its context is that of its whole
partition (`:654`), the projection fails with a KeyError instead (`:2216`).

The other divergences below are behaviours that the models have, and that the passing properties name
as exceptions or leave open.

### 5.2 In the collection core

The properties name these as exceptions; the models reach them.

* FlushDrvBuff holds `flushMutex_` when it wants `mtx_`, Execute the reverse
  (`prof_channel_tool.cpp:262`); both wait for ever. Latent: `AcpTask` shows that
  JobStop has removed all readers of its device when it calls FlushChannel.
* A failed read should end a flush by the overflow test, but with a 64-bit length
  the test is false and one is subtracted from the count (`:271`).
* A launch whose warm-up fails leaves its backups in `memoryVec_`
  (`acp_runtime_api_tool.cpp:124`); from then on no buffer is reset.
* A TaskStop that cannot notify the runtime keeps the job
  (`acp_manager_tool.cpp:140, 153`); the next TaskStart reports success for a
  device that is not profiled.
* A launch that ended early leaves its count in OpDataManager
  (`op_analyzer_tool.cpp:125`); the next launch is written before its last task.
* The comment on `Uploader::Flush` says "wait all data to send", but it returns
  while the uploader's thread may have the last chunk in hand. WaitOpDone and
  the join in DelAllUploader make up for it.

### 5.3 In asys

* The trace parser's threads share the clock of the header read last
  (`trace_collect.py:193, 304`): with two files at once the times of one may be
  computed with the clock of the other. Stackcore frames likewise use the maps
  of whichever file was read last (`stackcore_collect.py:225`).
* An answer that comes after a tracer gave up is taken by the next tracer for
  its own (`stacktrace_collect.py:135`).
* Between `signal.signal` and the return of Popen (`asys_launch.py:111`), Ctrl-C meets
  a handler that uses a handle which is not there yet, and the task runs on.
* `shutil.Error` of a copy leaves collect by no handler (`ops_collect.py:209`,
  `file_operate.py:241`), and the command ends without its tar.
* `ret and move(...)` skips all moves after the first that failed
  (`device_log_collect.py:82`); a warning is logged, so `NothingLost` holds.
* launch tells the task to log into npu_collect_intermediates/task_launch_host_log
  (`asys_launch.py:64`), "to temporarily store the collected information" as the guide says
  (`docs/en/user_guide/asys/rerun_fault_information_collection.md:10`). On a host
  the collector takes the logs from there. On the device itself (RC) rc_log_collect.py does not, and clean_work
  removes them (`:180`) with a good result and no warning. `NothingLost` speaks of what the collectors of the
  environment know of and does not include these (`RcSources`). The guide's restrictions exclude RC mode, which
  the code and a system test of launch support.
* `asys info` does not look at how its worker ended.

### 5.4 In msaicerr

* The check for an accumulation error is made, says its comment, when memset was inserted
  (`aicore_error_parser.py:2053`); the code tests that it was not (`:2054`). As both ladders decide on a missing
  memset first, an accumulation error is never the conclusion nor the exit code.
* The conclusion comes from a ladder of its own (`aic_error_info.py:275`), which knows more findings than
  get_return_code (`aicore_error_parser.py:2145`): a flag mismatch, too few cores and a program counter of
  zero are named as the culprit and reported with exit code 0, which the comment at `:2156` takes for "no
  problem found". `ExitZeroWasRerun` says what exit code 0 does mean.
* Tensors of a custom dump are "for display only" (`dump_data_parser.py:411`), but a NaN in one of
  them makes the data invalid (`:498`), which decides conclusion and exit code, and its
  tiling data replace those of the error (`:693`). `CustomStaysApart` allows just these two.
* Records of more than two overlapping tasks are given up; the host rerun always
  uses device 0.

### 5.5 In the pipeline

* `checkpoint-recovery.md` promises that a run's own publication does not make its
  lookup outdated; run_pipeline keeps that promise (`OwnPublicationKeepsLookup`),
  but detect_scenario compares with the library as it is (402–411), so a restart from
  detect after the publication fails for good.
* The lock of the library left by a crash is never taken over (`run_pipeline.py:1073`).
* "Case library changed before commit; reconcile the prepared mutation." (`run_pipeline.py:1116`): a
  publication copies the library (`:1088`), hashes it only afterwards (`:1097`), compares
  (`:1115`) and replaces (`:1043`). A case that a curator adds between copy and hash, or after the
  comparison, is lost without a word; one added between hash and comparison is noticed. The lock of the
  library does not help, as promote_case.py, which a curator runs, does not take it. `OthersKept` names both windows.
* The stages read material and fingerprints one after the other, without a copy and without a lock
  (`run_pipeline.py:245`): a run under which the material changes may print that it is done although
  its earlier stages were made of other inputs. The next run does them again.
* A run's own candidate that a curator confirms in one of these windows may be in the
  library twice: this is why `PublishedOnce` names them.
* Transient errors are retried without limit (1276–1327).
* `--only` ends with the words for a finished pipeline while later stages are pending.
* The page refuses zoned timestamps that the diagnosis accepts
  (`build_html_report.py:199`), and a root cause with insufficient confidence: both are
  permanent failures of the report stage. Edges beyond the first five components
  are dropped (`run_pipeline.py:753`).
* A promotion from pending to accepted is two writes with nothing that makes them one.

### 5.6 In the trace skill

* Error propagation and application failures use events that are in conflict
  (`correlation.py:39–135, 191–281`), unlike the other rules: `ProofAvoidsConflicts` names
  the rules that ask for agreement. Errors of the same component are joined as proven
  by process and time alone.
* A corrupt member of a zip "does not hide later safe members", says a test
  (`test_package_ingestion.py:307`) that tries a stored one. A compressed member that is garbled raises zlib.error, a compressed
  tar that is cut EOFError, a garbled one LZMAError or zlib.error, none of which the handlers name
  (`package_reader.py:152, 174, 205`): exit code 1 and a traceback, where SKILL.md has 2 for unreadable input. A tar with a
  bad header at a later member ends there as if it were complete, and nothing says that members are missing.
  Directories that cannot be listed are skipped by rglob (`:103`) in the same silence; these are not in the model.
* A clock declared relative to itself, to an unknown one or in a circle costs the
  whole trace (exit 4).
* The status of a trace is always "partial" (`pipeline.py:461`).
* A run that fails after writing the JSON leaves the HTML of an earlier run beside it.

## 6 What is not modelled

Collection core: a thread that cannot be created (`ThreadPool::Start` skips it and
Dispatch then indexes past the end of `threads_`); `ChannelBuffer`, which only prepares
buffers; the unlocked `UploaderMgr::Uninit`, which always follows DelAllUploader;
memory exhaustion, except where it is one of the failures of a step; records cut
by a chunk boundary, block records, averages, file formats; several application
threads in launches and rtMalloc at once, which the code has no lock for.

asys: owners of files, the wording of reports on hardware and software, the
layout of a binary trace below a message, the driver library behind the
answers. msaicerr: the patterns of lines below what they match, decompilation beyond
success or failure, statistics of tensors, tables of advice. Pipeline and trace
skill: templates and wording, redaction patterns, directories that cannot be listed, material that returns to an
earlier version, changes between the two writes that confirm a case, the markup of page and viewer.

Whole parts, with the reason: see 1.6 and the components of PROJECT.json. What
is left there is sequential code that transforms data or wraps calls
(performance skills, analysers of further record formats, option checks), code
whose other half is not in the repository (system timers, operator_cmp, drivers),
or, with the two planned modules, small state machines of their own.

## 7 The plan

Done, in this order: the collection core with its queue, uploader, reader, poll, replay, task and
analysis; asys; msaicerr; the pipeline; the trace skill; the proofs of section 4.

Next, by importance:

1. *DynProfClient*: client sockets, the servers that answer late, never or not
   at all, and the bookkeeping of closed descriptors; property: no operation on
   a descriptor that was closed, each answer belongs to its command.
2. *RunningMode*: msprof's supervision of the application and the analysis
   processes with SIGINT at any moment; property: a child is reaped once, a stop
   is not forgotten, no task starts after it.
3. *RecordParser*: a chunk of records of a fixed size, split at any place;
   against the reference "parse the concatenation". The comment "cache it" is
   what it will be held to.
4. *BreakdownRunner*: the stages of the performance breakdown with their
   checkpoints and retries, held to what `FaultPipeline` is held to.
5. *Composition*: `ChannelPoll` with the full `ChannelReader` for one reader,
   to replace "an execution only takes time" by the real steps.
