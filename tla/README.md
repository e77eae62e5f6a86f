# Aydo: a TLA+ verification project

Aydo is an endpoint protection product: a Windows kernel driver suspends every
new process, a user-mode service scans its image and resumes or kills it, files
that the local engines cannot judge go to a server that runs them in virtual
machines, where a monitor in the guest records and analyses what they do, and an
Electron GUI drives the service over a named pipe.  This directory holds TLA+ modules of the parts whose difficulty is in the order of
events, the TLC configurations that check them on small instances, and proofs
that hold for every instance.

    tlc -workers 2 -config RtpFaults.cfg MCRealTimeProtection.tla
    tlapm RealTimeProtection_proofs.tla
    tlc -workers 2 -config PoolEvidence.cfg MCWarmPool.tla
    tlapm WarmPool_proofs.tla
    tlc -workers 2 -config ScanRecords.cfg MCScanRecords.tla
    tlapm ScanRecords_proofs.tla
    tlc -workers 2 -config Guest.cfg MCGuest.tla
    tlapm GuestProcess_proofs.tla

`PROJECT.json` lists the components, the runs, the source lines behind each
definition, the hazards and the theorems.

## 1. Inventory

### Kernel driver (`Client/KernelDriver`)

State: `g_servicePID` (the registered service), the FIFO
`g_ProcessNotificationQueue` under a spin lock, and the suspend counts of
processes, kept by the kernel.  Operations: the process notify routine
`onProcessStart` (`Hooks.cpp`), called by the kernel in the creating or the
exiting thread; the IOCTLs that register the service and that take a
notification, resume and kill by pid (`Communications.cpp`); the object and
registry callbacks that protect the service (`ServiceProtection.cpp`).  Hard:
callbacks of different processes interleave; `g_servicePID` is read without its
lock; an allocation may fail; user mode names a process by a reusable pid.
Correct when every process it suspends is announced, and it suspends only while
a service is there to resume.

### Endpoint service: process monitor (`Client/Service/ProcessMonitor.cpp`)

State: the verdict cache `m_scannedHashes`, the table `m_pendingScans` of futures
of deep scans in flight, `m_eventHandler`, each under a mutex, and the file
system.  Threads: the monitor loop, one handler per created process, one thread
per deep scan, one waiter per resumed process, and the pipe server for scans on
demand.  Hard: verdict against timeout, sharing of scans, late kills, files
removed under running scans, thread creation failing, the service dying while
processes are suspended.  Correct when no process stays suspended without a
cause, nobody is convicted for another, convicts die, and the table is exact.

### Endpoint service: start, shutdown, pipe (`Main.cpp`, `KernelCommunications.cpp`)

State: `g_running`, the pipe handle, the event handler it installs.  One pipe
instance and one command at a time; the event handler writes to the pipe from
scan threads.  Hard: `notify` against disconnect; message boundaries against
`ReadFile`; `CtrlHandler` against `main` in `stop`.

### Endpoint service: server communications (`ServerCommunications.cpp`)

State: access and refresh token.  `postRequest` refreshes once on 401 and
retries.  Hard: refresh and retry from several scan threads at once.

### Endpoint service: engines and databases

Aho-Corasick and regular-expression engines, YARA with its scoring, hash and
signature databases, configuration and log.  Pure algorithms or input and
output.

### GUI main process (`GUI/src/main/antivirus/clientEngine.ts`)

State: the socket, `connected`, `connectInFlight`, the reconnect timer,
`manualScanStartedAt` and the line buffer.  Callbacks of the event loop.  Hard:
a reconnect timer that bypasses `connectInFlight`, events of an old socket after
a new one, a scan session that the service never completes.

### Server (`server/Server`) and its sandbox scheduling

State: the table of scans (status, result, hash), the uploaded files, the users
and refresh tokens.  Request handlers run on the framework's threads, each
dynamic scan in a detached thread that runs the VMRunner.  Hard: concurrent
requests for one hash, a re-upload under a running scan, a crash that leaves
`InProgress` behind, an older result that overwrites a newer one.

### VMRunner (`server/VM/VMRunner`)

State on disk: a lock directory and a state file per warm sandbox.  Several
runner processes share the pool.  Hard: the lock is given up while a sandbox is
prepared, a state change is dropped when the lock is held, a crash leaves lock
and state behind.  Correct when one process works in a sandbox, no sample meets
another and the log copied for a sample tells of it alone.

### Guest: ProcessMonitor (`server/VM/ProcessMonitor`)

State: the set of the target's process ids, the two ETW sessions with a starter
and a worker thread each, the Sysmon thread with the id of its last record, the
watchdog, the caches of the analysis and the database.  `wmain` waits for the
target, records until its deadline and stops everything within a second one,
with joins that time out, while a watchdog ends the process in any case.  The
callbacks of both sessions and the Sysmon thread call one analysis engine under a
lock: it updates caches, runs eight detectors, drops duplicates and forgets what
is old, at every event.  The writer migrates a database of any version at
opening, brings each event to the columns the Sigma rules read, and stores events
and findings.  Hard: a stop in the middle of a start, three threads that replace
one set, times that go backwards, caches erased under sequences that are not
complete, a migration that fails half-way.  Correct when only the target's events
are stored, each Sysmon record once, nothing is reported twice in a window or
missed because it was forgotten, and the process ends.

### Guest: ProcessRunner and its DLL

Starts the sample with a hook.  Calls of the operating system only.

### Installer and update scripts

Sequential downloads and packaging; not modelled.

## 2. Modules

A real-time deep scan asks the server (`ScanRecords`), whose thread runs a
VMRunner (`WarmPool`), in whose guest the ProcessMonitor records (`GuestProcess`).
Each composition takes from the next one what is proved of it, as a choice that
its results allow: `DeepCloud` gets a fitting verdict or none, `FinishRun` a log
or none, `GuestLog` an entry for what runs.

| Module | What it is |
|---|---|
| `ProcessGate` | abstract: what real-time protection promises for each process |
| `KernelDriver` | the driver's notify routine, queue and IOCTLs |
| `RealTimeProtection` | the service's process monitor composed with `KernelDriver` |
| `MCRealTimeProtection` | model values and the symmetry for TLC |
| `RealTimeProtection_proofs` | the theorems about driver and service |
| `SandboxLease` | abstract: what the warm pool promises for each sandbox |
| `WarmPool` | VMRunner processes, the warm pool on the disk, the server that starts them |
| `MCWarmPool` | the symmetry for TLC |
| `WarmPool_proofs` | the theorems about the pool |
| `VerdictService` | abstract: what the server of dynamic scans promises to a call |
| `ScanRecords` | dynamic scans: polling calls, request handlers, scan rows, VM threads |
| `MCScanRecords` | the entry module of its run |
| `ScanRecords_proofs` | the theorems about scan rows and verdicts |
| `GuestEvents` | the events of the guest and what the thread helpers read off them |
| `InjectionHistory` | abstract: what is to be reported, said of the whole history |
| `ThreadAnalysis` | the caches, the eight detectors and the engine |
| `GuestMonitor` | the monitor process: deadlines, watchdog, sessions, targets, Sysmon |
| `EventStore` | the writer: normalisation, columns and migration of the database |
| `GuestProcess` | the three together |
| `MCGuest` | the events and records for TLC |
| `ThreadAnalysis_proofs`, `InjectionHistory_proofs` | the theorems about the analysis |
| `GuestMonitor_proofs` | the theorems about the monitor |
| `EventStore_proofs` | the theorems about the store |
| `GuestProcess_proofs` | the same, of the composition |

### `KernelDriver`

A process instance of `Procs` is created once, gets a pid of `Pids` nobody alive
has, and an image of `Images`.  An image is a path together with its content,
hence with its hash; processes may share it.  `onProcessStart` is three steps,
because it runs in the creating thread and is not serialised: `HookReadService`
(the unlocked read of `g_servicePID`), `HookSuspend`, and `HookEnqueue` (the deny
of quarantined images and the insertion in the queue).  A failed allocation ends
the routine before any of them (`ProcessCreate`, `HookExit`,
`HookServiceExit`).  `ResumeByPid` and `KillByPid` act on whoever has the pid
now, and fail on nobody.  A process in its creation callback refuses
termination; critical and protected processes, which the driver also refuses
to kill, are the `"kill"` fault.

### `RealTimeProtection`

One action per critical section, IOCTL or wait of `handleProcessStarted`,
`fastScan`, `deepScan`, `dynamicScan`, `scanFile` and the monitor loop.  `hpc[p]`
is the program counter of the handler thread of `p` (and of the waiter thread
that takes over from it), `spc[s]` that of a scan thread, named by the handler
that started it, or of the pipe server `Gui`.  `fut[p]` is the future a handler
holds, `pending` is `m_pendingScans`, `cache` is `m_scannedHashes`.

| Code | Actions |
|---|---|
| `main` | `ServiceStart`, `MonitorStart`, `ServiceExit`, `ServiceGone` |
| `monitorLoop` | `MonitorTake` |
| `fastScan` | `HandlerFast`, `HandlerDb`, `OnDemandFast`, `OnDemandDb` |
| `handleProcessStarted` | `HandlerShare`, `HandlerLaunch`, `HandlerWait`, `HandlerResume`, `HandlerLate` |
| `killAndCleanup`, `applyFileVerdict` | `HandlerKill`, `HandlerFile`, `OnDemandFinish` |
| `deepScan`, `dynamicScan` | `DeepLocal`, `DeepCloud`, `DeepFinal`, `ScanPublish`, `ScanErase` |
| `scanFile` on the pipe | `OnDemandStart`, `OnDemandFinish` |

What the engines say of an image is a constant set (`Signed`, `KnownBad`,
`YaraKill`, `YaraNoise`, `HighEntropy`, `SandboxBad`).  What tokens, network and
server say is a nondeterministic choice made when the code reads it.  The
constant `Faults` admits failures one by one:

| Fault | The code |
|---|---|
| `alloc` | a notification cannot be allocated (`Hooks.cpp:19`) |
| `suspend`, `resume`, `kill` | the kernel call fails |
| `path` | the image path does not resolve (`ProcessMonitor.cpp:587`) |
| `spawn` | `std::thread` throws (`ProcessMonitor.cpp:484, 501, 534`) |
| `crash` | the service ends |

Abstractions to know of.  `m_blockingActive` is never set by the code, so the
branch it guards is left out.  The service's own pid is filtered by the monitor
and is not a member of `Procs`; a restart under a stale registration is `svc =
"held"`: the driver then suspends the service itself.  A file that was removed
does not come back.  An on-demand deep scan goes past signature, cache and hash
database, as `scanFile` does.

### `ProcessGate` and the refinement

The abstract specification has one variable, the gate of each process: new, held,
open or closed, with `Hold`, `Admit`, `Release` and `End`.  `RealTimeProtection`
maps `suspended` and `pstate` to it (`GateOf`).  `KeepsGate` is the safety part,
checked under all faults and proved; `OpensGate` adds that a held process does
not stay held, and is checked without faults.

### `WarmPool`

VMRunner processes (`Scans`, `Preloaders`, `Operators`, reused when they end)
share a directory.  `lock` is the set of lock directories, `state` the
`.warm-state` files, `vm`, `guest`, `monitor` and `logs` are the machines, the
samples that ran in them since they were cloned, the monitor in the guest and the
log in the shared folder.  `pc[u]` says where a process is, `at[u]` which warm
sandbox it looks at or works in; a scan that is past the last one works in the
dedicated sandbox of its sample.

| Code | Actions |
|---|---|
| `SandboxLock` | `Acquire`, `Unlock` |
| `claimReadyWarmSandbox` | `ClaimLock`, `ClaimRead`, `Unlock` |
| `prepareWarmPool` | `PoolLock`, `PoolRead`, `Unlock` |
| `markWarmSandboxState` | `Mark`, `MarkWrite`, `Unlock` |
| `prepareWarmSandbox` | `Wipe`, `Remove` |
| `prepareSandboxEnvironment` | `Clone`, `Start`, `Tools` |
| `runScan` | `Payload`, `Run`, `Verify`, `Copy`, `Stop`, `FailStop` |
| `startVm`, `warmUpPoolAsync` | `ServerStart`, `ScanStart`, `ScanExit`, `PrepareExit` |
| `main --prepare` | `OperatorStart` |
| the monitor in the guest | `GuestLog` |

A lock is one step and the reading and writing under it another, so that a
process may die between them.  Faults: `io` (a file operation fails and says so),
`lost` (a state file reads as cold because it cannot be opened, or because what
was written to it never arrived), `vmrun` (a vmrun command fails or cannot tell
the power state), `crash` (a process dies anywhere, with the lock it holds left
behind and possibly an empty state file).

Abstractions to know of.  The vmrun commands of one step (tools, shared folders,
files copied to the guest) have one outcome.  A log is the set of samples it may
tell of.  The files of a machine that runs cannot be removed.  Crashes of
the host, which stop the machines too, are not modelled; neither is a scan that
is started by hand.

`SandboxLease` has a stage and a holder for each sandbox: `Prepare`, `Offer`,
`Abandon`, `Take`, `Return`, `Withdraw`.  The mapping takes the holder from who
works in the sandbox and, when nobody does, the stage from the state file
(`HolderOf`, `StageOf`).

The promises hold where `Orderly` does: one server, nobody preparing by hand, no
lost state.  `pool_overlap` shows that the first condition is needed; the second
the documentation leaves to the operator; the third is a failure of the file
system that the code neither detects nor claims to survive.

### `ScanRecords`

Between the two: a deep scan calls `dynamicScan`, which polls the server until a
result, a failure or `maxWait`, and uploads the sample once when the server says
`Pending`.  The server keeps one row per hash and judges a sample in a detached
thread that runs the VMRunner.  `cpc[c]` is the program counter of a call,
`handler[c]` that of the handler that serves it, `vm[c]` that of the thread its
upload started; `rows`, `file` and `log` are the table, the uploaded files and
the logs of the guests.

| Code | Actions |
|---|---|
| `dynamicScan` | `Begin`, `Request`, `GiveUp`, `ReceiveStatus`, `ReceiveStored` |
| `postRequest` | `RequestRefused`, `Disconnected` |
| `_requestFileScan` | `Lookup`, `Create`, `Reset`, `Age` |
| `_uploadFile` | `Find`, `OpenFile`, `OpenFails`, `WriteFile`, `Mark`, `Spawn` |
| the detached thread, `startVm`, `runScan` | `StartRun`, `FinishRun`, `RunFails`, `Hangs` |
| `runDynamicScan`, `updateResult` | `Judge`, `Record` |

Each statement on the table is one step, and so is each file operation, because
two handlers of one hash, and a thread of an earlier upload, interleave between
them.  A failed statement is logged and forgotten, as in `Scan.cpp`: a look-up
then finds nothing, an update changes nothing, and the second insertion of a hash
fails on `UNIQUE`.

Faults: `net` (a request fails before a handler sees it, or a time-out or
`maxWait` ends the call while handler and thread go on), `db`, `thread` (a thread
cannot be started, or waits for ever), `data` (something is less than it should
be: the file cannot be opened, or is written in part, which nobody checks; the
monitor's log is incomplete; a query of it fails), `vm` (the run fails, or
what its judgement needs cannot be opened), `crash` (the server stops and is
started again over its table; a runner it had started goes on, and may overlap
with the next).  `lapses[h]` remembers which of them a sample met, and `overlap`:
a file opened for writing while another upload or run of that sample was under
way.  The properties name the lapses that excuse them.

What passes for clean.  Three things make a completed, clean result without any
failure being recorded, and the model has them all: the runner takes whatever log
there is when its sleep is over (`VMRunner.cpp:818` asks only whether it exists),
also when the monitor in the guest failed or was not done (`FinishRun`); a Sigma
query that cannot be prepared is skipped (`ScanProcessingCron.cpp:173`); and a
step that ends in an error counts as no match (`:182`, both in `Judge`).
`VerdictsAreExact` says that nothing else does, beside overlapping uploads, a
sample not stored whole and a stop of the server, and that nothing at all makes a
threat of a good sample.

What hangs.  `startVm` waits for the runner with `INFINITE` (`VmRunner.cpp:259`) and
the runner for each `vmrun` with a default of `milliseconds::max`
(`VMRunner/Utills.hpp:30`).  `Hangs` is the run that never ends: the thread stays
`hung` until the server stops, its scan stays in progress, and the calls for it
give up after `maxWait`.

Abstractions to know of.  A sample is bad when its whole log matches a Sigma
query; a match is a threat whatever its level, because `runDynamicScan` records
it as `Unknown`, which is not `Clean`.  `maxWait` is the runtime of the
sample and five seconds, which leaves little for the guest to start, so giving up
is ordinary rather than rare.
`processDueScans` and `startProcessingCron` are called by nobody and left out.
`RealTimeProtection` uses what is proved here: its `DeepCloud` takes from the
server a verdict that fits the image, or none.

`VerdictService` is what a caller may rely on: a call asks about one sample and is
answered once, a bad sample passes for clean only where its scan was spoiled, a
good one is never convicted, and a call ends without verdict only where something
has gone wrong with its sample.  The mapping takes the answer from `cpc` and
`verdict` (`Told`), and the troubles from `lapses`: any of them troubles a sample,
an overlap, lost data or a stop of the server spoils it (`Spoiled`).  The
liveness of the service, that a call ends at all, is `VerdictsArrive`.

### `ThreadAnalysis` and `InjectionHistory`

The monitor calls the engine under `m_analysisMtx`, so one event is one step:
`OnEvent` updates the caches (`byTid`, `cross`, `images`), lets every detector
offer what it would report (`Offers`), drops duplicates (`Duplicate`, `recent`),
and cleans the caches.  `log` and `found` keep the history for the properties.

| Code | Definitions |
|---|---|
| `ThreadHelpers.cpp` | the operators of `GuestEvents` |
| `ThreadCaches::update`, `cleanup` | `Threads`, `Windows`, `ImagesSeen`, `KeptThreads`, `KeptWindows`, `KeptImages` |
| the detectors | `RemoteThreadOffers`, `ApcOffers`, `ThreatIntelOffers`, `HijackOffers`, `LsassOffers`, `RunKeyOffers`, `ScheduledTaskOffers`, `ServiceOffers` |
| `_isDuplicate` and its retention | `Duplicate`, `Remembered`, `RecentAfter` |
| `_analyzeRecord`, the Sysmon thread | `AnalyzeRecord`, `AnalyzeSysmon` |

Abstractions to know of.  An event is its fields, each a value that a detector
can tell from others; scores and texts of findings are left out.  An erased entry
is one whose times are 0.  A Sysmon record carries the time at which it was
parsed, up to `MaxLag` before it gets the lock; that the lag is small against the
windows is the assumption `WindowsAssumption`, as are the orders of the windows
that the constants of the code have.  The system's clock itself does not go back.  No
record names the thread 0 as its target, which the hijack detector and the caches
would tell from a record that names none (`SeqTid` does not).

`InjectionHistory` has no cache: an event is a remote thread, an APC or a hint
when, in the whole history, its source opened the target within the window, and
it is reported unless that was done within the duplicate window.
`ReportsHistory` is the refinement.  `HijackCaught` and `LsassCaught` say the same
of the two detectors whose conditions need more than one cache.

### `GuestMonitor`

| Code | Actions |
|---|---|
| `wmain`, `waitForTarget` | `Arm`, `Construct`, `ConstructFails`, `PollTarget`, `TargetNotFound`, `GiveUp`, `Start`, `Wake` |
| `stopWithDeadline` of the blocks | `StopBlock`, `JoinBlock` |
| `ProcessMonitor::stopWithDeadline` | `RequestSysmonStop`, `JoinStarter`, `JoinSysmon` |
| the end of `wmain`, `s_hardStopWatchdog` | `CancelWatchdog`, `Destroy`, `HardStop` |
| `start` of the blocks, their workers | `CreateTrace`, `CreateWorker`, `StartTrace`, `TraceFails`, `TraceEnds` |
| `_onKernelEvent`, `_onUserEvent` | `Deliver`, `RefreshNotDue`, `TakeSnapshot`, `WriteTargets`, `Ignore`, `LogEvent`, `AnalyzeEvent` |
| `_enableSysmonChannel` | `OpenChannel`, `Query`, `NextBatch`, `SkipRecord`, `WriteRecord`, `AnalyzeRow` |

Time is `elapsed`: whether the watchdog is due, the deadline has come, and the
deadline of the stop.  Threads that were detached are in `forgotten`, and go on.
`engine` is the pointer of the writer that the engine copied, which the order of
the members leaves unset: the first look at it finds null or something else, and
stays at that.

Abstractions to know of.  A record is the set of processes of `Procs` it names.
What a finding is, is the matter of `ThreadAnalysis`; here an event leads to one
or not.  A block whose worker throws has ended.

### `EventStore`

A JSON object is a function from field names to values, a table the set of its
columns.  `Props`, `Process`, `Network` and `File` are what the reading of a
record makes of its properties, `EnsureAll` is `_enrichSigmaFields`, `Row` the
columns of the table that are filled.  `Open` is the constructor with the whole
migration (`Migrate`), `WriteEvent` and `WriteFinding` are the two insertions,
`Close` gives up the handle.  Any statement may fail (`ok`), and a database may be
of any older version (`StoreInit`).

Abstractions to know of.  A field that the code fills in lower case and nobody
reads is left out.  The labels of ATT&CK are all there or none.  A record that
could not be read in part leaves the marker the code writes.  `findSnakeCase` works
letter by letter on any name; it is the constant `SnakeCase`, a function from
columns to names of which nothing is assumed, and the instance gives it the code's
results.  `PairsKept` needs nothing of it, because a name in snake case only adds
a source to a column: it is about the fields an event has once it is normalised
(`Normal`) and each column that has the name of either spelling, and a table need
not have both.  The program's `Events` has both for `ObjectName` and `object_name`
only.  A property called `object_class`, which no copy reads, fills `ObjectClass`
by its snake case and is not a spelling of the field; the third record has one.

### `GuestProcess`

The three parts meet in calls whose effect each states for itself, so a behaviour
exercises one of them (`part`), as the program's self-test exercises the engine
and the writer without sessions.

## 3. Runs

| Run | Instance | Shows |
|---|---|---|
| `rtp_faults` | 2 processes, 2 pids, 4 images, one quarantined, all faults, 2 boots | `TypeOK`, `NoOrphan`, `PendingExact`, `FutureServed`, `ThreatsAreReal`, `KeepsGate`, `KillsByPid` |
| `rtp_removal` | files quarantined under running handlers and scans on demand at both depths | `CleanOnlyIfRemoved`, `ConvictsEnded` |
| `rtp_liveness` | no faults, fair threads, no symmetry | `OpensGate`, `ConvictsAreKilled` |
| `rtp_pid_reuse` | a convicted process ends, its pid is reused | violates `KillsTheScanned` |
| `rtp_suspend_race` | the service exits inside a callback | violates `SuspendsOnlyWithService` |
| `pool_evidence` | 2 samples one after another, `crash` and `io` | `TypeOK`, `CleanGuest`, `EvidenceOwn`, `KeepsLease` |
| `pool_shared` | a scan, a preparation, one by hand, `lost` and `vmrun` | `OneCritical`, `LockIsHeld` |
| `pool_overlap` | two starts of the server, no fault | violates `SoleUser` |
| `pool_leak` | two scans, no fault | violates `BusyIsUsed` |
| `scan_records` | 2 calls for 1 bad sample, all faults, fair steps | `TypeOK`, `InProgressIsServed`, `VerdictsAreExact`, `TellsVerdicts`, `VerdictsArrive` |
| `guest` | 10 events of 3 processes, 2 sessions and Sysmon, a database of any version | analysis: `AnalysisTypeOK`, `NoRepeat`, `HijackJustified`, `HijackCaught`, `LsassCaught`, `ReportsHistory`; monitor: `MonitorTypeOK`, `TargetsOnly`, `SysmonOnce`, `TraceOutlivesWorker`, `StoppedInTime`, `SuccessMeansTarget`, `MonitorTerminates`; store: `StoreTypeOK`, `Migrated`, `InsertFits`, `FindingKept`, `PairsKept` |
| `guest_findings` | the monitor alone | violates `StoresFindings` |

Bounds of the real-time runs.  A process is handled once, so the interesting cases are about pairs:
two handlers of one image, a handler and a scan, a victim and its successor under
a pid.  Four images are one for each way out of a scan: known to the hash
database (and quarantined), killed by YARA, sent to the sandbox and convicted
there, sent there and not convicted.  Two starts
of the service are a crash and a recovery.  No queue is bounded: each process
is announced at most twice.  Symmetry permutes processes and pids in the safety
runs, whose properties name none.

Bounds of the pool runs.  Processes are reused for ever, so the histories are
unbounded.  One warm sandbox is what two processes can contend for, and a
process leaves it for the next index as it would with more.  A scan process that
is started again with another sample lets one sample follow another in a guest;
two scans let one's mark meet another's look (`pool_leak`), and the theorems hold
for any number of them.  The number of server starts is `MaxBoots`.

Bounds of the scan run.  Rows, files and logs of different samples do not meet,
so one sample is enough; it is bad, because a clean one cannot be judged
falsely.  Two calls are two handlers and two threads on one row, and a call that
gave up leaves handler and thread behind for the other to meet.  Polling is not
bounded, and the number of crashes neither.

Bounds of the guest run.  Four events are a whole hijack with a record in
between, or an access, an injection, its repetition and one more; the clock of
four units lets each window pass and a cache entry die before the last event.
Two processes act on a third and one thread, so that actors can be told apart.
For the monitor one process that may run the target is enough, because a record
and the set of targets only meet or do not; two records fill a batch or come
in two.  The four records of
the store are those whose normalisation is hardest: a read that left the
payload, a parent that tells more, spellings in several places (one of them only in snake
case, one under the name that no column has), a record of Sysmon.  Two writes show the memory of the columns across two handles.

The violations.  Each run refutes a sentence of the source: a kill by pid that
was reused (`ProcessMonitor.cpp:675`) and a suspension after the service has
exited (`Hooks.cpp:34`).  Of the pool: the state file is removed with the sandbox
that is being prepared (`VMRunner.cpp:612`), and a mark is dropped when the lock is
held for an instant (`:307`).  Of the guest: the engine takes the pointer of the
writer before there is one, because members are initialised in the order of
their declaration (`ProcessMonitor.cpp:453`, `ProcessMonitor.hpp:57, 65`); no
finding of the monitor is stored.

Fairness.  The pool, the analysis and the store are checked for safety only.  Of
the monitor `GuestSpec` obliges time, the watchdog once it is due, and the first
and the last step of `wmain`, which wait for nothing: a process ends even when
main, a session or the channel hangs for ever in any call.  In `ScanRecords` a call, a
handler and a thread that can go on do, each under weak fairness of its own:
the polling loop sleeps and asks again, the framework runs a handler it has
entered to its end, and a thread whose runner and commands return goes on.  No
fairness makes a run end that hangs: `Hangs` may happen in any run, is outside the
fair step of the thread, and leaves nothing for that step to do.  Failures,
time-outs and ageing are never obliged to happen.  `FairSpec` of the real-time
protection assumes weak fairness of the kernel's callbacks, of the
monitor's start and loop, and of each handler and scan thread: the kernel
completes a callback it has entered, and the operating system schedules every
thread of a live service.  The code's waits are bounded (`wait_for`, the polling
loop of `dynamicScan`, timeouts of HTTP requests), so a scan always concludes.
Nothing is assumed of processes, clients or restarts.

## 4. Proofs

`RealTimeProtection_proofs` proves, for any set of processes, pids and images and
any set of faults, from `DriverAssumption` and `ServiceAssumption` (the special
values differ, the sets of images are sets of images) only:

| Theorem | States |
|---|---|
| `TypeCorrect` | `Spec => []TypeOK` |
| `NobodyForgotten` | `Spec => []NoOrphan` |
| `PendingIsExact` | `Spec => []PendingExact` |
| `FuturesAreServed` | `Spec => []FutureServed` |
| `OnlyThreatsConvicted` | `Spec => []ThreatsAreReal` |
| `ConvictsHeld` | `Spec => []CleanOnlyIfRemoved`, given `NothingSkipped` |
| `ConvictsDie` | `Spec => []ConvictsEnded`, given `NothingSkipped` |
| `GateKept` | `Spec => KeepsGate`, the refinement of the gate |
| `KillsAreByPid` | `Spec => KillsByPid` |
| `KillsWhatItScanned` | `Spec /\ []PidsOwn => KillsTheScanned` |
| `SuspendsForAService` | `Spec => SuspendsOnlyWithService`, given no `crash` |

The invariant is built in layers.  `Books` says that only created processes are
announced and handled and that absent ones have no handler, scan or image;
without it `imageOf[p]` has no type in a handler's step.  `SuspendedPresent` and
`PidsUnique` give that a resume or a kill reaches one process at most, which is
what the refinement needs: two processes released by one IOCTL are not one
abstract step.  `PendingExact` carries itself once `Books` is there and gives
`FutureServed`, because a handler gets its future from the table.
`ThreatsAreReal` needs `VerdictHeld` and `JobReal`: where a handler is past a
verdict, its future's verdict stays what it was.  `ConvictsHeld` assumes
`NothingSkipped`: threads can be started, and no deep scan on demand meets an
image that only the hash database knows; without either the code does let such
an image pass.  Its invariant `CertainInv` follows an image that the database or
YARA is sure to convict: it is never cached clean, no handler of a known one gets
past the database, and a scan of one ends in a verdict or finds the file gone.
`ConvictsDie` follows such a process to its end: who is announced is past its
creation callback (`EndInv`), so that a kill which succeeds leaves either nothing of
it or had nothing of it to strike, whoever has its pid by then; and a late verdict
of a shared scan is a conviction.  It is the safety half of `ConvictsAreKilled`.

Three theorems say what the violations of two runs are made of.  `KillsAreByPid` is
what holds of every kill: it strikes the convicted process or, only when that one
is gone, the one that was given its pid.  `KillsWhatItScanned` adds that as
long as no process has had the pid of another (`PidsOwn`), every kill strikes
what was scanned; so `rtp_pid_reuse` shows the only way to a wrong victim.
`SuspendsForAService` says the same of `rtp_suspend_race`: a service that
does not end runs, or is being started, at each suspension.

`WarmPool_proofs` proves, for any number of sandboxes, samples and processes and
any faults, from `PoolAssumption` (the kinds of process differ, warm sandboxes
are not named like samples):

| Theorem | States |
|---|---|
| `PoolTyped` | `Spec => []TypeOK` |
| `LocksWork` | `Spec => []OneCritical` |
| `LocksAreHeld` | `Spec => []LockIsHeld` |
| `BusyUnlessDropped` | `Spec /\ [][~Dropped]_vars => []BusyIsUsed`, given no `io` and no `crash` |
| `SoleUserWhenOrderly` | `Spec => [](Orderly => SoleUser)` |
| `GuestsClean` | `Spec => []CleanGuest` |
| `EvidenceIsOwn` | `Spec => []EvidenceOwn` |
| `PoolKeepsLease` | `Spec => KeepsLease`, given one server start, no operator, no `lost` |

`Books` says which kind of process is where, with which sandbox, sample and mark.
`OneCritical` needs nothing else, because a lock is made by one process and
removed by the one that is in the section; nor does `LockIsHeld`, because no way
out of a section goes past the removal.  With it a mark is dropped only for
the sake of a live process that holds the lock, and `BusyUnlessDropped` shows that
such marks (`Dropped`) are the only way in which `pool_leak` loses a sandbox: a scan
stays at the sandbox it took until a mark that is not "busy" is written.
`Exclusive` is what makes the work
itself exclusive although the lock is given up before it: the server has one
preparation (`OnePreparation`), and the state file of a sandbox somebody works in
is busy for a scan and neither ready nor busy for a preparation (`StateTells`).
Every step of a process is of one of five kinds (`Keeps`, `Takes`, `Gives`,
`Resets`, `Loses`), and the inductive step and the refinement are proved once per
kind.  `Clean` follows the samples: no step but `Run` and `Copy` adds to a
sandbox (`Shrinks`), and these add the scan's own sample.

`ScanRecords_proofs` proves, for any calls and samples and any faults, from
`ScanAssumption` (bad samples are samples, `None` is not one):

| Theorem | States |
|---|---|
| `BooksKept` | `Spec => []Books` |
| `ScansTyped` | `Spec => []TypeOK` |
| `ScansInProgressServed` | `Spec => []InProgressIsServed` |
| `ResultsAreExact` | `Spec => []VerdictsAreExact` |
| `TheServiceTells` | `Spec => TellsVerdicts`, the refinement of the service |

`Books` ties the counters of a call together (`Fit`): a handler or a thread exists
only for a call with a sample, an answer only where no handler runs, a thread's
result only where it is about to record it.  Each step moves one call and leaves
the others (`Others`), so it is enough to look at that call.
`InProgressIsServed` then follows from the order in which `_uploadFile` marks the
row and starts the thread.  `VerdictsAreExact` needs more: where no
lapse has spoiled a sample, its uploads and runs follow one another (`Alone`) and
each has the whole file and the whole log (`WholeFor`), and no query of its rules
has failed, so that `Judge` sees all there is; and what is recorded, about to be recorded, under way and returned is
one and the same claim (`Exacts`).  The refinement adds that nobody is sent away for
nothing (`Reasons`): while nothing has gone wrong with a sample, no answer and no
result about it is a failure, an answer waits for a handler or is there, and a
call is told to send its sample only where its row exists; so that a call which
ends without verdict has a lapse to show.  Steps of other calls, of the table's
ageing and of the server's stop are stutters of the abstract service or only add
to the troubles.

The guest's modules are proved for any events, processes, threads and windows
from `EventsAssumption` and `WindowsAssumption`, any batches from
`MonitorAssumption`, and any columns and records from `StoreAssumption`, any snake case
among them, and `PairAssumption` (the spellings of a field are none of the fields
that the catalogue fills, as `EventWriter.cpp:110-126` has it):

| Theorem | States |
|---|---|
| `AnalysisTyped` | `AnalysisSpec => []AnalysisTypeOK` |
| `NothingRepeated` | `AnalysisSpec => []NoRepeat` |
| `HijacksJustified`, `HijacksCaught` | `AnalysisSpec => []HijackJustified`, `[]HijackCaught` |
| `LsassReadersCaught` | `AnalysisSpec => []LsassCaught` |
| `HistoryReported` | `AnalysisSpec => ReportsHistory`, the refinement |
| `MonitorTyped` | `MonitorSpec => []MonitorTypeOK` |
| `OnlyTargetsStored`, `SuccessHasTarget` | `MonitorSpec => []TargetsOnly`, `[]SuccessMeansTarget` |
| `TraceLives`, `CleanStop` | `MonitorSpec => []TraceOutlivesWorker`, `[]StoppedInTime` |
| `SysmonStoredOnce` | `MonitorSpec => []SysmonOnce` |
| `AlwaysWatched` | `MonitorSpec => []WatchdogCovers` |
| `StoreTyped`, `MigrationComplete`, `InsertsFit`, `FindingsKept` | the same of the store's invariants |
| `OwnFieldsKept` | normalisation only adds to what a record has at its top level |
| `PairsAreKept` | `StoreSpec => []PairsKept` |
| `GuestAnalyses`, `GuestMonitors`, `GuestStores` | all of them of `GuestSpec` |

Four invariants carry the analysis.  `RepeatInv`: each report is remembered with
its time or a later one of the same key, or no event that its window could reach
is still to come; here the retention must cover the window and the lag.
`HijackInv`: what an entry of a thread says did happen in the history
(`Founded`).  `MemoryInv` is the converse: the last suspension, the last change of
context and the last image that the history tells of are in the caches as long
as they matter, because the time to live covers the window, and only the Sysmon
channel, which names no thread's action, lags behind (`InOrder`).  `CrossInv`
holds the windows to the accesses of the history; with `RepeatInv` it makes a step
of the engine a step of `InjectionHistory`.

The monitor's properties have an invariant each, so that a step looks at the
actions that can disturb it and takes the others together.  `TargetInv`: every
list that a callback holds was seen.  `TraceInv`: only the two joins destroy a
trace.  `StopInv`: while nothing was given up, each join that main has passed has
seen its thread end.  `SysmonInv`: what lies behind the cursor was written or
could not be rendered, also between a row and its analysis (`CursorOK`).
`WatchdogCovers` is the safety half of `MonitorTerminates`: from the first step of
`wmain` to the last the watchdog is armed, so no call can hang for good.

`StoreInv` needs, beside its properties, that an existing table of findings has a
type, which keeps it apart from a missing one, and that a row has what its event
can fill of the columns it was made for (`RowsFilled`).  `PairsAreKept` is about
the normalisation itself: the copies are a recursive function over their list,
and by induction over the numbers of that list (with the well-founded order of
the naturals and the set of counterexamples, `FromTo`) what copy `i` writes stays
as the later copies find it.  From this: a field that is there at the top level is
never touched (`OwnFieldsKept`); a copy whose target is named by no later copy
decides that field for good (`NotCopied`, `LaterCopies`); and the two spellings of a
pair are in the sources of each other, so the second to be copied finds the first
(`CommandPair`, `ObjectPairs`).  A pair is therefore in the event twice or not at
all (`PairInEvent`), and what is in it twice is in every column with either name,
whatever the columns are and whatever else their snake case finds (`PairInRow`).

Only model-checked: the liveness properties (`OpensGate` with its fairness,
`ConvictsAreKilled`, `VerdictsArrive`, `MonitorTerminates`), because `ENABLED` and
fairness are beyond the prover.  Of each the safety half is proved: `KeepsGate`,
`ConvictsEnded`, `TellsVerdicts`, `WatchdogCovers`.  `KillsTheScanned`,
`SuspendsOnlyWithService`, `BusyIsUsed` and `SoleUser` do not hold; what is proved of
them names the condition under which they do.  `StoresFindings` fails in every
behaviour that finds something, and nothing is left to prove of it.

## 5. Not modelled

- The pattern engines (Aho-Corasick, regular expressions) and YARA with its
  scoring are functions of a file; what they say of an image is a constant of
  `RealTimeProtection`.
- GUI.  Main process and renderer are clients of the service: they keep a socket,
  a reconnection timer and views, and decide nothing about a process, a scan or a
  sandbox.
- The pipe of the service and its commands but the scan, the configuration and
  the log are input and output.  The tokens are strings that several threads
  read and write without a lock, so any outcome is possible and only the absence
  of the race could be stated.
- Self-protection: the object and registry callbacks filter access rights and
  keep no state; the protected pid is modelled.
- Server: users, passwords and tokens are one statement or one library call each.
  `processDueScans` and its timer are never started.
- Guest: the catalogue of ATT&CK labels is data, and a record is labelled or not;
  the formats JSON lines and MessagePack are never selected by `wmain`;
  ProcessRunner and its DLL call the operating system only.
- The update scripts and the installer are sequential.

Hazards without a property.  After a stale registration the driver suspends the
restarted service itself (`Hooks.cpp:35`): the model reaches it (`svc = "held"`), and
no document promises otherwise.  Two threads may join one thread in `stop`
(`Main.cpp:277`), and tokens race (`ServerCommunications.cpp:163`): undefined, with
no promise to hold them to.  Beyond these, the queue of the driver grows while no
service takes from it (`Utils.cpp:161`), a request to prepare the pool is dropped
while a preparation runs (`Server/Utils/VmRunner.cpp:299`), and `notify` may write to
a pipe that is being closed (`Main.cpp:265`): the models do the first two, of which
no document promises otherwise, and the third is input and output.
