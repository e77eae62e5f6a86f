------------------------- MODULE RealTimeProtection -------------------------
(***************************************************************************)
(* Real-time protection: the endpoint service's ProcessMonitor on top of   *)
(* the kernel driver.  The driver suspends a new process and announces it; *)
(* the monitor thread takes the announcement and starts a handler thread;  *)
(* the handler runs the fast layers and, when they do not decide, starts   *)
(* (or shares) a deep scan of the image, holds the process for at most     *)
(* SLOW_SCAN_RESUME_TIMEOUT_S, and finally resumes or kills it.  A scan    *)
(* that answers late kills a process that already runs.                    *)
(*                                                                         *)
(* A handler thread is named by the process it was started for, and a scan *)
(* thread by the handler that started it: a future is thus a process name. *)
(* Each access to the verdict cache, to the table of pending scans or to   *)
(* the driver is one step, as each is one critical section or one IOCTL.   *)
(***************************************************************************)
EXTENDS KernelDriver

CONSTANTS
  Gui,          \* the pipe-server thread, which scans on demand
  ScanDepths,   \* the depths a client asks for: within {"standard", "deep"}
  Signed,       \* images with a valid Windows signature
  KnownBad,     \* images whose hash is in the hash database
  YaraKill,     \* images whose YARA score reaches the kill threshold
  YaraNoise,    \* images with YARA matches of noise level only
  HighEntropy,  \* images above the entropy threshold
  SandboxBad,   \* images the server's sandbox finds malicious
  RemovesFiles, \* infectedFileAction is quarantine or delete
  MaxBoots      \* bound: how often the service is started

ASSUME ServiceAssumption ==
  /\ Gui \notin Procs
  /\ Gui # None
  /\ UNION {Signed, KnownBad, YaraKill, YaraNoise, HighEntropy, SandboxBad}
       \subseteq Images
  /\ YaraKill \cap YaraNoise = {}
  /\ ScanDepths \subseteq {"standard", "deep"}
  /\ RemovesFiles \in BOOLEAN
  /\ MaxBoots \in Nat

(* The images some layer of the engine would call a threat.                *)
Bad == KnownBad \cup YaraKill \cup SandboxBad

Scanners == Procs \cup {Gui}

VARIABLES
  svc,      \* the service process
  boots,    \* how often it was started
  hpc,      \* where the handler of a process is
  fut,      \* the scan whose future a handler holds
  spc,      \* where a scanner is
  verdict,  \* what a scanner concluded
  guiJob,   \* the on-demand scan in progress: its image and depth
  cache,    \* m_scannedHashes
  pending,  \* m_pendingScans: the scan in flight for an image
  removed   \* images whose file was quarantined or deleted

scanVars == <<spc, verdict, guiJob, cache, pending, removed>>
serviceVars == <<svc, boots, hpc, fut, spc, verdict, guiJob, cache, pending,
                 removed>>
vars == <<driverVars, serviceVars>>

-----------------------------------------------------------------------------
(* Program counters.                                                       *)

(* A handler in Holding has yet to resume or to kill its process.          *)
Holding == {"fast", "db", "join", "wait", "kill", "resume", "resumeShared",
            "resumeTimeout"}
(* Here the process may stay suspended with nobody left to resume it.      *)
Abandoned == {"skipped", "failed", "dead"}
(* A resume or a kill failed, and nothing is left but to finish.           *)
Failing == {"lateFailed", "fileFailed"}
HandlerPcs == Holding \cup Abandoned \cup Failing
                \cup {"none", "late", "file", "done"}

(* A handler in Waiting holds a future.                                    *)
Waiting == {"wait", "resumeShared", "resumeTimeout", "late", "lateFailed"}

(* From the creation of the promise to the removal from m_pendingScans.    *)
InFlight == {"local", "cloud", "final", "publish", "erase"}
ScannerPcs == InFlight \cup {"none", "fast", "db", "done", "broken"}

(* The shared state of the future is ready: a value, or a broken promise.  *)
Ready(s) == spc[s] \in {"erase", "done", "broken"}

ImageOf(s) == IF s = Gui THEN guiJob.image ELSE imageOf[s]
Forced(s) == s = Gui /\ guiJob.depth = "deep"

NoJob == [image |-> None, depth |-> "standard"]

TypeOK ==
  /\ DriverTypeOK
  /\ svc \in {"down", "held", "loading", "running", "exiting"}
  /\ boots \in 0..MaxBoots
  /\ hpc \in [Procs -> HandlerPcs]
  /\ fut \in [Procs -> Procs \cup {None}]
  /\ spc \in [Scanners -> ScannerPcs]
  /\ verdict \in [Scanners -> BOOLEAN]
  /\ guiJob \in [image : Images \cup {None}, depth : {"standard", "deep"}]
  /\ cache \in [Images -> {"none", "clean", "threat"}]
  /\ pending \in [Images -> Procs \cup {None}]
  /\ removed \subseteq Images

ServiceInit ==
  /\ svc = "down"
  /\ boots = 0
  /\ hpc = [p \in Procs |-> "none"]
  /\ fut = [p \in Procs |-> None]
  /\ spc = [s \in Scanners |-> "none"]
  /\ verdict = [s \in Scanners |-> FALSE]
  /\ guiJob = NoJob
  /\ cache = [im \in Images |-> "none"]
  /\ pending = [im \in Images |-> None]
  /\ removed = {}

Init == DriverInit /\ ServiceInit

GoTo(p, pc) == hpc' = [hpc EXCEPT ![p] = pc]
ScanTo(s, pc) == spc' = [spc EXCEPT ![s] = pc]
CacheResult(im, v) == cache' = [cache EXCEPT ![im] = v]

-----------------------------------------------------------------------------
(* The life of the service process.                                        *)

(* main connects to the driver and registers; only then does it load the   *)
(* engines, and the driver suspends from the registration on.  A stale     *)
(* registration makes the driver suspend the new service itself, like any  *)
(* process, and there is nobody to resume it.                              *)
ServiceStart ==
  /\ svc = "down"
  /\ boots < MaxBoots
  /\ boots' = boots + 1
  /\ IF registered
       THEN svc' = "held" /\ UNCHANGED driverVars
       ELSE svc' = "loading" /\ RegisterService
  /\ UNCHANGED <<hpc, fut, scanVars>>

(* The engines are loaded: the monitor thread and the pipe server start.   *)
MonitorStart ==
  /\ svc = "loading"
  /\ svc' = "running"
  /\ UNCHANGED <<driverVars, boots, hpc, fut, scanVars>>

(* The service ends: a crash, a failed start, a console event.  Detached   *)
(* threads die with it, and cache and pending scans are in memory only.    *)
ServiceExit ==
  /\ "crash" \in Faults
  /\ svc \in {"loading", "running"}
  /\ svc' = "exiting"
  /\ hpc' = [p \in Procs |->
              IF hpc[p] \in {"none", "done"} \cup Abandoned THEN hpc[p]
              ELSE "dead"]
  /\ fut' = [p \in Procs |-> None]
  /\ spc' = [s \in Scanners |-> "none"]
  /\ verdict' = [s \in Scanners |-> FALSE]
  /\ guiJob' = NoJob
  /\ cache' = [im \in Images |-> "none"]
  /\ pending' = [im \in Images |-> None]
  /\ UNCHANGED <<driverVars, boots, removed>>

(* The driver's notify routine for the service's own process.              *)
ServiceGone ==
  /\ svc = "exiting"
  /\ svc' = "down"
  /\ HookServiceExit
  /\ UNCHANGED <<boots, hpc, fut, scanVars>>

-----------------------------------------------------------------------------
(* monitorLoop.                                                            *)

(* One turn of the loop on a notification.  Terminations are dropped, and  *)
(* so is a creation whose path cannot be resolved: nobody resumes it.      *)
MonitorTake ==
  /\ svc = "running"
  /\ DequeueNotification
  /\ LET n == Head(queue) IN
       \/ /\ n.created
          /\ GoTo(n.proc, "fast")
       \/ /\ n.created
          /\ "path" \in Faults
          /\ GoTo(n.proc, "skipped")
       \/ /\ ~n.created
          /\ UNCHANGED hpc
  /\ UNCHANGED <<svc, boots, fut, scanVars>>

-----------------------------------------------------------------------------
(* fastScan: signature, cache, hash database.  A file that cannot be read  *)
(* has no hash and counts as clean.                                        *)

Undecidable(im) == im \in Signed \cup removed
FastClean(im) == Undecidable(im) \/ cache[im] = "clean"
FastThreat(im) == ~Undecidable(im) /\ cache[im] = "threat"
FastMiss(im) == ~Undecidable(im) /\ cache[im] = "none"

HandlerFast(p) ==
  LET im == imageOf[p] IN
  /\ hpc[p] = "fast"
  /\ \/ FastClean(im) /\ GoTo(p, "resume")
     \/ FastThreat(im) /\ GoTo(p, "kill")
     \/ FastMiss(im) /\ GoTo(p, IF im \in KnownBad THEN "db" ELSE "join")
  /\ UNCHANGED <<driverVars, svc, boots, fut, scanVars>>

HandlerDb(p) ==
  /\ hpc[p] = "db"
  /\ CacheResult(imageOf[p], "threat")
  /\ GoTo(p, "kill")
  /\ UNCHANGED <<driverVars, svc, boots, fut, spc, verdict, guiJob, pending,
                 removed>>

-----------------------------------------------------------------------------
(* handleProcessStarted past the fast layers.                              *)

(* Mutant: the sharing handler waits without resuming its process.         *)
HandlerShareHeld(p) ==
  LET s == pending[imageOf[p]] IN
  /\ hpc[p] = "join"
  /\ s # None
  /\ fut' = [fut EXCEPT ![p] = s]
  /\ GoTo(p, "late")
  /\ UNCHANGED <<driverVars, svc, boots, scanVars>>

(* Mutant: the handler shares whatever scan is in flight.                  *)
HandlerShareAny(p) ==
  /\ hpc[p] = "join"
  /\ \E im \in Images :
       /\ pending[im] # None
       /\ fut' = [fut EXCEPT ![p] = pending[im]]
  /\ GoTo(p, "resumeShared")
  /\ UNCHANGED <<driverVars, svc, boots, scanVars>>

(* Under m_pendingMutex: share the scan in flight for this hash.           *)
HandlerShare(p) ==
  LET s == pending[imageOf[p]] IN
  /\ hpc[p] = "join"
  /\ s # None
  /\ fut' = [fut EXCEPT ![p] = s]
  /\ GoTo(p, "resumeShared")
  /\ UNCHANGED <<driverVars, svc, boots, scanVars>>

(* Mutant: the entry is made without looking for one under the lock.       *)
HandlerLaunchBlind(p) ==
  /\ hpc[p] = "join"
  /\ pending' = [pending EXCEPT ![imageOf[p]] = p]
  /\ ScanTo(p, "local")
  /\ fut' = [fut EXCEPT ![p] = p]
  /\ GoTo(p, "wait")
  /\ UNCHANGED <<driverVars, svc, boots, verdict, guiJob, cache, removed>>

(* Under m_pendingMutex: enter a new scan and start its thread.  When the  *)
(* thread cannot be created the exception leaves the entry behind with a   *)
(* broken promise, and the catch clause resumes the process.               *)
HandlerLaunch(p) ==
  LET im == imageOf[p] IN
  /\ hpc[p] = "join"
  /\ pending[im] = None
  /\ pending' = [pending EXCEPT ![im] = p]
  /\ \/ /\ ScanTo(p, "local")
        /\ fut' = [fut EXCEPT ![p] = p]
        /\ GoTo(p, "wait")
     \/ /\ "spawn" \in Faults
        /\ ScanTo(p, "broken")
        /\ GoTo(p, "resume")
        /\ UNCHANGED fut
  /\ UNCHANGED <<driverVars, svc, boots, verdict, guiJob, cache, removed>>

(* wait_for: the verdict in time, or the timeout while there is none.      *)
HandlerWait(p) ==
  /\ hpc[p] = "wait"
  /\ \/ /\ Ready(fut[p])
        /\ GoTo(p, IF verdict[fut[p]] THEN "kill" ELSE "resume")
     \/ /\ ~Ready(fut[p])
        /\ GoTo(p, "resumeTimeout")
  /\ UNCHANGED <<driverVars, svc, boots, fut, scanVars>>

(* safeResume.  Without a verdict a waiter thread stays behind, unless it  *)
(* cannot be created: the catch clause then resumes once more.  A failed   *)
(* resume is only logged.                                                  *)
HandlerResume(p) ==
  /\ hpc[p] \in {"resume", "resumeShared", "resumeTimeout"}
  /\ \E ok \in BOOLEAN :
       /\ IF ok THEN ResumeByPid(p) ELSE ResumeFails(p)
       /\ \/ /\ hpc[p] = "resume"
             /\ GoTo(p, IF ok THEN "done" ELSE "failed")
          \/ /\ hpc[p] # "resume"
             /\ GoTo(p, IF ok THEN "late" ELSE "lateFailed")
          \/ /\ hpc[p] # "resume"
             /\ "spawn" \in Faults
             /\ GoTo(p, "resume")
  /\ UNCHANGED <<svc, boots, fut, scanVars>>

(* Mutant: the late verdict is logged and not acted upon.                  *)
HandlerLateIgnored(p) ==
  /\ hpc[p] \in {"late", "lateFailed"}
  /\ Ready(fut[p])
  /\ GoTo(p, IF hpc[p] = "late" THEN "done" ELSE "failed")
  /\ UNCHANGED <<driverVars, svc, boots, fut, scanVars>>

(* The detached waiter: the late verdict, own or shared.                   *)
HandlerLate(p) ==
  /\ hpc[p] \in {"late", "lateFailed"}
  /\ Ready(fut[p])
  /\ IF spc[fut[p]] # "broken" /\ verdict[fut[p]]
       THEN GoTo(p, "kill")
       ELSE GoTo(p, IF hpc[p] = "late" THEN "done" ELSE "failed")
  /\ UNCHANGED <<driverVars, svc, boots, fut, scanVars>>

(* Mutant: who shared a scan kills the process the scan was started for.   *)
HandlerKillScanner(p) ==
  /\ hpc[p] = "kill"
  /\ LET s == IF fut[p] = None THEN p ELSE fut[p]
     IN  \/ KillByPid(s) /\ GoTo(p, "file")
         \/ KillFails(s) /\ GoTo(p, "fileFailed")
  /\ UNCHANGED <<svc, boots, fut, scanVars>>

(* killAndCleanup: the kill, whatever it returns, then applyFileVerdict.   *)
HandlerKill(p) ==
  /\ hpc[p] = "kill"
  /\ \/ KillByPid(p) /\ GoTo(p, "file")
     \/ KillFails(p) /\ GoTo(p, "fileFailed")
  /\ UNCHANGED <<svc, boots, fut, scanVars>>

ApplyFileVerdict(im) ==
  \/ RemovesFiles /\ removed' = removed \cup {im}
  \/ UNCHANGED removed

HandlerFile(p) ==
  /\ hpc[p] \in {"file", "fileFailed"}
  /\ ApplyFileVerdict(imageOf[p])
  /\ GoTo(p, IF hpc[p] = "file" THEN "done" ELSE "failed")
  /\ UNCHANGED <<driverVars, svc, boots, fut, spc, verdict, guiJob, cache,
                 pending>>

-----------------------------------------------------------------------------
(* deepScan, by a scan thread or by the pipe server.                       *)

Conclude(s, v) ==
  /\ ScanTo(s, "publish")
  /\ verdict' = [verdict EXCEPT ![s] = v]

(* Mutant: a file that vanished is cached like one found clean.            *)
DeepLocalVanishedClean(s) ==
  LET im == ImageOf(s) IN
  /\ spc[s] = "local"
  /\ IF im \in YaraKill \ removed
       THEN CacheResult(im, "threat") /\ Conclude(s, TRUE)
       ELSE CacheResult(im, "clean") /\ Conclude(s, FALSE)
  /\ UNCHANGED <<driverVars, svc, boots, hpc, fut, guiJob, pending, removed>>

(* YARA, the guest-mode and reachability gates, and the entropy gate, up   *)
(* to the first write of the cache.  Tokens and reachability are whatever  *)
(* they are when read.  A file that vanished makes the scan throw, and the *)
(* verdict is then FALSE with nothing cached.                              *)
DeepLocal(s) ==
  LET im == ImageOf(s) IN
  /\ spc[s] = "local"
  /\ \/ /\ im \in removed
        /\ Conclude(s, FALSE)
        /\ UNCHANGED cache
     \/ /\ im \in YaraKill \ removed
        /\ CacheResult(im, "threat")
        /\ Conclude(s, TRUE)
     \/ /\ im \notin YaraKill \cup removed
        /\ CacheResult(im, "clean")
        /\ Conclude(s, FALSE)
     \/ /\ im \notin YaraKill \cup YaraNoise \cup removed
        /\ Forced(s) \/ im \in HighEntropy
        /\ ScanTo(s, "cloud")
        /\ UNCHANGED <<verdict, cache>>
  /\ UNCHANGED <<driverVars, svc, boots, hpc, fut, guiJob, pending, removed>>

(* Mutant: no answer from the server counts as a threat.                   *)
DeepCloudOutageThreat(s) ==
  LET im == ImageOf(s) IN
  /\ spc[s] = "cloud"
  /\ \/ /\ CacheResult(im, "threat")
        /\ Conclude(s, TRUE)
     \/ /\ im \notin SandboxBad
        /\ CacheResult(im, "clean")
        /\ ScanTo(s, "final")
        /\ UNCHANGED verdict
  /\ UNCHANGED <<driverVars, svc, boots, hpc, fut, guiJob, pending, removed>>

(* dynamicScan: the server completes the scan in time, or the loop ends    *)
(* without a verdict (timeout, failed request or upload, status Failed).   *)
DeepCloud(s) ==
  LET im == ImageOf(s) IN
  /\ spc[s] = "cloud"
  /\ \/ /\ im \in SandboxBad
        /\ CacheResult(im, "threat")
        /\ Conclude(s, TRUE)
     \/ /\ im \notin SandboxBad
        /\ CacheResult(im, "clean")
        /\ ScanTo(s, "final")
        /\ UNCHANGED verdict
     \/ /\ ScanTo(s, "final")
        /\ UNCHANGED <<verdict, cache>>
  /\ UNCHANGED <<driverVars, svc, boots, hpc, fut, guiJob, pending, removed>>

(* No threat: deepScan caches clean, also when the sandbox never answered. *)
DeepFinal(s) ==
  /\ spc[s] = "final"
  /\ CacheResult(ImageOf(s), "clean")
  /\ Conclude(s, FALSE)
  /\ UNCHANGED <<driverVars, svc, boots, hpc, fut, guiJob, pending, removed>>

(* The scan thread sets the promise, then removes the pending entry.       *)
ScanPublish(s) ==
  /\ s # Gui
  /\ spc[s] = "publish"
  /\ ScanTo(s, "erase")
  /\ UNCHANGED <<driverVars, svc, boots, hpc, fut, verdict, guiJob, cache,
                 pending, removed>>

ScanErase(s) ==
  /\ spc[s] = "erase"
  /\ ScanTo(s, "done")
  /\ pending' = [pending EXCEPT ![imageOf[s]] = None]
  /\ UNCHANGED <<driverVars, svc, boots, hpc, fut, verdict, guiJob, cache,
                 removed>>

-----------------------------------------------------------------------------
(* scanFile on the pipe-server thread, one command at a time.              *)

(* A missing file ends the command before it scans.  A deep scan goes      *)
(* straight to deepScan; a standard one starts with the fast layers.       *)
OnDemandStart(im, depth) ==
  /\ svc = "running"
  /\ spc[Gui] = "none"
  /\ im \notin removed
  /\ guiJob' = [image |-> im, depth |-> depth]
  /\ ScanTo(Gui, IF depth = "deep" THEN "local" ELSE "fast")
  /\ UNCHANGED <<driverVars, svc, boots, hpc, fut, verdict, cache, pending,
                 removed>>

OnDemandFast ==
  LET im == guiJob.image IN
  /\ spc[Gui] = "fast"
  /\ \/ FastClean(im) /\ Conclude(Gui, FALSE)
     \/ FastThreat(im) /\ Conclude(Gui, TRUE)
     \/ /\ FastMiss(im)
        /\ ScanTo(Gui, IF im \in KnownBad THEN "db" ELSE "local")
        /\ UNCHANGED verdict
  /\ UNCHANGED <<driverVars, svc, boots, hpc, fut, guiJob, cache, pending,
                 removed>>

OnDemandDb ==
  /\ spc[Gui] = "db"
  /\ CacheResult(guiJob.image, "threat")
  /\ Conclude(Gui, TRUE)
  /\ UNCHANGED <<driverVars, svc, boots, hpc, fut, guiJob, pending, removed>>

OnDemandFinish ==
  /\ spc[Gui] = "publish"
  /\ IF verdict[Gui] THEN ApplyFileVerdict(guiJob.image) ELSE UNCHANGED removed
  /\ ScanTo(Gui, "none")
  /\ verdict' = [verdict EXCEPT ![Gui] = FALSE]
  /\ guiJob' = NoJob
  /\ UNCHANGED <<driverVars, svc, boots, hpc, fut, cache, pending>>

-----------------------------------------------------------------------------
HandlerStep(p) ==
  \/ HandlerFast(p)
  \/ HandlerDb(p)
  \/ HandlerShare(p)
  \/ HandlerLaunch(p)
  \/ HandlerWait(p)
  \/ HandlerResume(p)
  \/ HandlerLate(p)
  \/ HandlerKill(p)
  \/ HandlerFile(p)

ScanStep(s) ==
  \/ DeepLocal(s)
  \/ DeepCloud(s)
  \/ DeepFinal(s)
  \/ ScanPublish(s)
  \/ ScanErase(s)

OnDemandStep ==
  \/ \E im \in Images, depth \in ScanDepths : OnDemandStart(im, depth)
  \/ OnDemandFast
  \/ OnDemandDb
  \/ OnDemandFinish

(* A file that was taken away starts no process.                           *)
DriverStep ==
  /\ DriverEnvNext
  /\ \A p \in Procs : imageOf'[p] # imageOf[p] => imageOf'[p] \notin removed
  /\ UNCHANGED serviceVars

ServiceStep ==
  \/ ServiceStart
  \/ MonitorStart
  \/ ServiceExit
  \/ ServiceGone
  \/ MonitorTake

Next ==
  \/ DriverStep
  \/ ServiceStep
  \/ \E p \in Procs : HandlerStep(p)
  \/ \E s \in Scanners : ScanStep(s)
  \/ OnDemandStep

Spec == Init /\ [][Next]_vars

(* The kernel completes its callbacks, and the operating system schedules  *)
(* every thread of a live service.  Nothing makes processes start or end,  *)
(* clients ask, or the service come back.                                  *)
DriverCallback(p) ==
  /\ \/ HookReadService(p)
     \/ HookSuspend(p)
     \/ HookEnqueue(p)
     \/ HookExit(p)
  /\ UNCHANGED serviceVars

Fairness ==
  /\ WF_vars(MonitorStart)
  /\ WF_vars(MonitorTake)
  /\ \A p \in Procs : WF_vars(DriverCallback(p))
  /\ \A p \in Procs : WF_vars(HandlerStep(p))
  /\ \A s \in Scanners : WF_vars(ScanStep(s))

FairSpec == Spec /\ Fairness

-----------------------------------------------------------------------------
(* Safety.                                                                 *)

Announced(p) ==
  \E i \in 1..Len(queue) : queue[i] = [proc |-> p, created |-> TRUE]

(* A suspended process is always somebody's business: its callback has yet *)
(* to announce it, the announcement waits in the driver's queue, or a      *)
(* handler holds it.  It is left behind in four ways only: its path did    *)
(* not resolve, a resume failed, the kill failed, or the service ended     *)
(* while its handler was at work (onProcessStart, monitorLoop,             *)
(* handleProcessStarted).                                                  *)
NoOrphan ==
  \A p \in suspended :
    \/ pstate[p] = "queueing"
    \/ Announced(p)
    \/ hpc[p] \in Holding \cup Abandoned \cup Failing

(* m_pendingScans names exactly the scans in flight: an entry is the live  *)
(* scan of its image, every live scan thread is the entry of its image,    *)
(* hence there is at most one real-time deep scan per hash, and no entry   *)
(* outlives its scan but that of a scan whose thread could not be started. *)
PendingExact ==
  \A im \in Images, s \in Procs :
    pending[im] = s <=> imageOf[s] = im /\ spc[s] \in InFlight \cup {"broken"}

(* Whoever waits on a future of handleProcessStarted waits on one for its  *)
(* own image, and some live thread will make it ready, if it is not.       *)
FutureServed ==
  \A p \in Procs : hpc[p] \in Waiting =>
    /\ fut[p] \in Procs
    /\ imageOf[fut[p]] = imageOf[p]
    /\ Ready(fut[p]) \/ spc[fut[p]] \in InFlight

(* Every threat verdict, cached, published or about to be executed, is     *)
(* about an image that some layer finds malicious: neither the sharing of  *)
(* futures nor the cache ever convicts one image for another.              *)
ThreatsAreReal ==
  /\ \A im \in Images : cache[im] = "threat" => im \in Bad
  /\ \A s \in Scanners : verdict[s] => ImageOf(s) \in Bad
  /\ \A p \in Procs : hpc[p] \in {"db", "kill"} => imageOf[p] \in Bad

(* An image that the hash database or YARA convicts on the spot is passed  *)
(* as clean by a handler only when its file was taken away meanwhile; it   *)
(* is never cached clean.  (fastScan and deepScan; a deep scan on demand   *)
(* goes past the hash database, and may acquit what only that one knows.)  *)
CleanOnlyIfRemoved ==
  \A im \in (KnownBad \cup YaraKill) \ Signed :
    /\ cache[im] # "clean"
    /\ im \notin removed =>
         \A p \in Procs : imageOf[p] = im => hpc[p] # "resume"

(* And a handler is done with a process of such an image only when that    *)
(* process has ended, or the file was taken away: a resume at the timeout, *)
(* a shared scan and a pid that passed to another process do not let it    *)
(* live (handleProcessStarted, killAndCleanup).                            *)
ConvictsEnded ==
  \A p \in Procs :
    hpc[p] = "done" /\ imageOf[p] \in (KnownBad \cup YaraKill) \ Signed =>
      pstate[p] \in {"ending", "gone"} \/ imageOf[p] \in removed

(* What holds of every kill, pids reused or not: it strikes the process    *)
(* its handler was started for or, only when that one is gone, one that    *)
(* was given its pid, and only for an image that some layer finds          *)
(* malicious (killAndCleanup, the driver's IOCTL_KILL_PROCESS).            *)
KillsByPid ==
  [][\A p, q \in Procs :
       /\ hpc[p] = "kill" /\ hpc'[p] = "file"
       /\ pstate[q] = "live" /\ pstate'[q] = "ending"
       => /\ imageOf[p] \in Bad
          /\ pidOf[q] = pidOf[p]
          /\ q = p \/ pstate[p] = "gone"]_vars

(* A process terminated by the service is one whose own image was found    *)
(* malicious, and the one its handler was started for (killAndCleanup, by  *)
(* pid).                                                                   *)
KillsTheScanned ==
  [][\A p, q \in Procs :
       /\ hpc[p] = "kill" /\ hpc'[p] = "file"
       /\ pstate[q] = "live" /\ pstate'[q] = "ending"
       => q = p /\ imageOf[q] \in Bad]_vars

(* Hooks.cpp: "Suspend the process (ONLY IF OUR SERVICE IS RUNNING".       *)
SuspendsOnlyWithService ==
  [][\A p \in Procs :
       p \in suspended' \ suspended => svc \in {"loading", "running"}]_vars

-----------------------------------------------------------------------------
(* The gate that driver and service keep between them.                     *)

GateOf(p) ==
  CASE p \in suspended -> "held"
    [] pstate[p] \in {"absent", "entered", "suspending"} -> "new"
    [] pstate[p] \in {"ending", "gone"} -> "closed"
    [] OTHER -> "open"

Gate == INSTANCE ProcessGate WITH gate <- [p \in Procs |-> GateOf(p)]

(* Under every failure and every reuse of pids, each process passes the    *)
(* gate once: it is suspended at its creation or never, one resume or one  *)
(* end undoes that, and no step touches the suspension of two processes.   *)
KeepsGate == Gate!GateSpec

(* Without failures nobody stays suspended: the driver's suspension is     *)
(* undone by a resume or ended by a kill, whatever the scan does and       *)
(* however long it takes (handleProcessStarted).                           *)
OpensGate == Gate!GateFairSpec

(* A process whose image the local layers convict is killed in the end,    *)
(* also when it shared another handler's scan or was resumed meanwhile.    *)
ConvictsAreKilled ==
  \A p \in Procs :
    hpc[p] = "fast" /\ imageOf[p] \in (KnownBad \cup YaraKill) \ Signed
      ~> pstate[p] \in {"ending", "gone"}
=============================================================================
