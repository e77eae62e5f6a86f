---------------------- MODULE RealTimeProtection_proofs ----------------------
(***************************************************************************)
(* Theorems about real-time protection: they hold for any number of        *)
(* processes, pids and images and under any set of failures.               *)
(***************************************************************************)
EXTENDS RealTimeProtection, TLAPS

-----------------------------------------------------------------------------
(* The inductive invariant.  The safety properties are not inductive one   *)
(* by one: a shared verdict is right because the future belongs to the     *)
(* same image, which rests on the exactness of m_pendingScans, which rests *)
(* on no image changing under a process that is known to the service.      *)

(* Suspension starts in the creation callback and ends with the process.   *)
SuspendedPresent == \A p \in suspended : pstate[p] \in {"queueing", "live"}

(* Two processes that exist at a time have different pids.                 *)
PidsUnique ==
  \A p, q \in Procs :
    /\ pstate[p] \notin {"absent", "gone"}
    /\ pstate[q] \notin {"absent", "gone"}
    /\ pidOf[p] = pidOf[q]
    => p = q

(* Only processes that were created are announced ...                      *)
QueueKnown == \A i \in 1..Len(queue) : pstate[queue[i].proc] # "absent"

(* ... and only they have handlers and scans.                              *)
AbsentIdle ==
  \A p \in Procs :
    pstate[p] = "absent" => hpc[p] = "none" /\ spc[p] = "none"

(* Whoever was created has an image, and so has the job of the client.     *)
ImageKnown == \A p \in Procs : pstate[p] # "absent" => imageOf[p] \in Images
JobKnown == spc[Gui] # "none" => guiJob.image \in Images

(* The pipe server runs scans of its own and has no pending entry.         *)
GuiAlone == spc[Gui] \notin {"erase", "done", "broken"}

VerdictHeld == \A s \in Scanners : verdict[s] => spc[s] # "none"

(* It looks up what it found in the hash database.                         *)
JobReal == spc[Gui] = "db" => guiJob.image \in Bad

(* The bookkeeping the types rest on.                                      *)
Books ==
  /\ TypeOK
  /\ QueueKnown
  /\ AbsentIdle
  /\ ImageKnown
  /\ JobKnown
  /\ GuiAlone

IndInv ==
  /\ Books
  /\ SuspendedPresent
  /\ PidsUnique
  /\ VerdictHeld
  /\ JobReal
  /\ NoOrphan
  /\ PendingExact
  /\ FutureServed
  /\ ThreatsAreReal

-----------------------------------------------------------------------------
(* Type correctness.                                                       *)

(* What a driver action may assume of the driver's variables is kept by    *)
(* each of them.                                                           *)
LEMMA QueueType ==
  ASSUME queue \in Seq(Notification), NEW p \in Procs, NEW c \in BOOLEAN
  PROVE  Append(queue, [proc |-> p, created |-> c]) \in Seq(Notification)
BY DEF Notification

LEMMA TypeDriver ==
  ASSUME DriverTypeOK, DriverEnvNext
  PROVE  DriverTypeOK'
<1>1. ASSUME NEW p \in Procs, NEW pid \in Pids, NEW im \in Images,
             ProcessCreate(p, pid, im)
      PROVE  DriverTypeOK'
  BY <1>1 DEF DriverTypeOK, ProcessCreate, PStates, Hooked
<1>2. ASSUME NEW p \in Procs, HookReadService(p) PROVE DriverTypeOK'
  BY <1>2 DEF DriverTypeOK, HookReadService, PStates, Hooked
<1>3. ASSUME NEW p \in Procs, HookSuspend(p) PROVE DriverTypeOK'
  BY <1>3 DEF DriverTypeOK, HookSuspend, PStates, Hooked
<1>4. ASSUME NEW p \in Procs, HookEnqueue(p) PROVE DriverTypeOK'
  BY <1>4, QueueType DEF DriverTypeOK, HookEnqueue, Enqueue, PStates, Hooked
<1>5. ASSUME NEW p \in Procs, ProcessExit(p) PROVE DriverTypeOK'
  BY <1>5 DEF DriverTypeOK, ProcessExit, PStates, Hooked
<1>6. ASSUME NEW p \in Procs, HookExit(p) PROVE DriverTypeOK'
  BY <1>6, QueueType DEF DriverTypeOK, HookExit, Enqueue, PStates, Hooked
<1>. QED BY <1>1, <1>2, <1>3, <1>4, <1>5, <1>6 DEF DriverEnvNext

(* The IOCTLs that a handler calls by pid.                                 *)
LEMMA TypeIoctl ==
  ASSUME DriverTypeOK, NEW p \in Procs,
         ResumeByPid(p) \/ ResumeFails(p) \/ KillByPid(p) \/ KillFails(p)
  PROVE  DriverTypeOK'
<1>1. CASE ResumeByPid(p)
  BY <1>1 DEF DriverTypeOK, ResumeByPid
<1>2. CASE KillByPid(p)
  BY <1>2 DEF DriverTypeOK, KillByPid, PStates
<1>3. CASE ResumeFails(p) \/ KillFails(p)
  BY <1>3 DEF DriverTypeOK, ResumeFails, KillFails, driverVars
<1>. QED BY <1>1, <1>2, <1>3

LEMMA TypeService ==
  ASSUME TypeOK, ServiceStep
  PROVE  TypeOK'
<1>. USE ServiceAssumption DEF TypeOK
<1>1. CASE ServiceStart
  <2>1. boots' \in 0..MaxBoots
    BY <1>1 DEF ServiceStart
  <2>2. DriverTypeOK'
    BY <1>1 DEF ServiceStart, RegisterService, DriverTypeOK, driverVars
  <2>. QED BY <1>1, <2>1, <2>2 DEF ServiceStart, scanVars
<1>2. CASE MonitorStart
  BY <1>2 DEF MonitorStart, DriverTypeOK, driverVars, scanVars
<1>3. CASE ServiceExit
  BY <1>3 DEF ServiceExit, DriverTypeOK, driverVars, HandlerPcs, ScannerPcs,
              Abandoned, NoJob
<1>4. CASE ServiceGone
  BY <1>4 DEF ServiceGone, HookServiceExit, DriverTypeOK, scanVars
<1>5. CASE MonitorTake
  <2>1. Head(queue) \in Notification /\ queue' \in Seq(Notification)
    BY <1>5 DEF MonitorTake, DequeueNotification, DriverTypeOK
  <2>2. DriverTypeOK'
    BY <1>5, <2>1 DEF MonitorTake, DequeueNotification, DriverTypeOK
  <2>3. hpc' \in [Procs -> HandlerPcs]
    BY <1>5, <2>1 DEF MonitorTake, GoTo, Notification, HandlerPcs, Holding,
                      Abandoned
  <2>. QED BY <1>5, <2>2, <2>3 DEF MonitorTake, scanVars
<1>. QED BY <1>1, <1>2, <1>3, <1>4, <1>5 DEF ServiceStep

LEMMA TypeHandler ==
  ASSUME Books, NEW p \in Procs, HandlerStep(p)
  PROVE  TypeOK'
<1>0. TypeOK /\ hpc[p] # "none" /\ imageOf[p] \in Images
  <2>1. hpc[p] # "none"
    BY DEF HandlerStep, HandlerFast, HandlerDb, HandlerShare, HandlerLaunch,
           HandlerWait, HandlerResume, HandlerLate, HandlerKill, HandlerFile
  <2>. QED BY <2>1 DEF Books, AbsentIdle, ImageKnown
<1>. USE ServiceAssumption
     DEF TypeOK, HandlerPcs, Holding, Abandoned, Failing, GoTo
<1>1. CASE HandlerFast(p)
  BY <1>0, <1>1 DEF HandlerFast, DriverTypeOK, driverVars, scanVars
<1>2. CASE HandlerDb(p)
  BY <1>0, <1>2 DEF HandlerDb, DriverTypeOK, driverVars, CacheResult
<1>3. CASE HandlerShare(p)
  BY <1>0, <1>3 DEF HandlerShare, DriverTypeOK, driverVars, scanVars
<1>4. CASE HandlerLaunch(p)
  BY <1>0, <1>4 DEF HandlerLaunch, DriverTypeOK, driverVars, ScanTo, ScannerPcs,
              InFlight, Scanners
<1>5. CASE HandlerWait(p)
  BY <1>0, <1>5 DEF HandlerWait, DriverTypeOK, driverVars, scanVars
<1>6. CASE HandlerResume(p)
  <2>1. DriverTypeOK'
    BY <1>0, <1>6, TypeIoctl DEF HandlerResume
  <2>. QED BY <1>0, <1>6, <2>1 DEF HandlerResume, scanVars
<1>7. CASE HandlerLate(p)
  BY <1>0, <1>7 DEF HandlerLate, DriverTypeOK, driverVars, scanVars
<1>8. CASE HandlerKill(p)
  <2>1. DriverTypeOK'
    BY <1>0, <1>8, TypeIoctl DEF HandlerKill
  <2>. QED BY <1>0, <1>8, <2>1 DEF HandlerKill, scanVars
<1>9. CASE HandlerFile(p)
  BY <1>0, <1>9 DEF HandlerFile, ApplyFileVerdict, DriverTypeOK, driverVars
<1>. QED BY <1>1, <1>2, <1>3, <1>4, <1>5, <1>6, <1>7, <1>8, <1>9
         DEF HandlerStep

LEMMA TypeScan ==
  ASSUME TypeOK, NEW s \in Scanners, ScanStep(s)
  PROVE  TypeOK'
<1>. USE ServiceAssumption DEF TypeOK, ScannerPcs, InFlight, ScanTo
<1>1. CASE DeepLocal(s)
  BY <1>1 DEF DeepLocal, Conclude, CacheResult, DriverTypeOK, driverVars
<1>2. CASE DeepCloud(s)
  BY <1>2 DEF DeepCloud, Conclude, CacheResult, DriverTypeOK, driverVars
<1>3. CASE DeepFinal(s)
  BY <1>3 DEF DeepFinal, Conclude, CacheResult, DriverTypeOK, driverVars
<1>4. CASE ScanPublish(s)
  BY <1>4 DEF ScanPublish, DriverTypeOK, driverVars
<1>5. CASE ScanErase(s)
  BY <1>5 DEF ScanErase, DriverTypeOK, driverVars
<1>. QED BY <1>1, <1>2, <1>3, <1>4, <1>5 DEF ScanStep

LEMMA TypeOnDemand ==
  ASSUME Books, OnDemandStep
  PROVE  TypeOK'
<1>0. TypeOK /\ (spc[Gui] # "none" => guiJob.image \in Images)
  BY DEF Books, JobKnown
<1>. USE ServiceAssumption DEF TypeOK, ScannerPcs, InFlight, ScanTo, Scanners
<1>1. ASSUME NEW im \in Images, NEW depth \in ScanDepths,
             OnDemandStart(im, depth)
      PROVE  TypeOK'
  BY <1>0, <1>1 DEF OnDemandStart, DriverTypeOK, driverVars
<1>2. CASE OnDemandFast
  BY <1>0, <1>2 DEF OnDemandFast, Conclude, DriverTypeOK, driverVars
<1>3. CASE OnDemandDb
  BY <1>0, <1>3 DEF OnDemandDb, Conclude, CacheResult, DriverTypeOK, driverVars
<1>4. CASE OnDemandFinish
  BY <1>0, <1>4 DEF OnDemandFinish, ApplyFileVerdict, NoJob, DriverTypeOK, driverVars
<1>. QED BY <1>1, <1>2, <1>3, <1>4 DEF OnDemandStep

LEMMA TypeStutter == ASSUME TypeOK, UNCHANGED vars PROVE TypeOK'
BY DEF TypeOK, DriverTypeOK, vars, driverVars, serviceVars

LEMMA TypeStep ==
  ASSUME Books, [Next]_vars
  PROVE  TypeOK'
<1>0. TypeOK
  BY DEF Books
<1>1. CASE DriverStep
  BY <1>0, <1>1, TypeDriver DEF DriverStep, TypeOK, serviceVars
<1>. QED BY <1>0, <1>1, TypeService, TypeHandler, TypeScan, TypeOnDemand, TypeStutter
         DEF Next

LEMMA BooksInit == Init => Books
<1>. SUFFICES ASSUME Init PROVE Books
  OBVIOUS
<1>1. DriverTypeOK
  <2>1. queue \in Seq(Notification)
    BY DEF Init, DriverInit
  <2>2. pstate \in [Procs -> PStates]
    BY DEF Init, DriverInit, PStates
  <2>3. suspended \subseteq Procs /\ registered \in BOOLEAN
    BY DEF Init, DriverInit
  <2>4. /\ pidOf \in [Procs -> Pids \cup {None}]
        /\ imageOf \in [Procs -> Images \cup {None}]
    BY DEF Init, DriverInit
  <2>. QED BY <2>1, <2>2, <2>3, <2>4 DEF DriverTypeOK
<1>2. TypeOK
  BY <1>1, ServiceAssumption
     DEF Init, ServiceInit, TypeOK, HandlerPcs, ScannerPcs, NoJob
<1>3. QueueKnown /\ AbsentIdle /\ ImageKnown /\ JobKnown /\ GuiAlone
  BY DEF Init, DriverInit, ServiceInit, QueueKnown, AbsentIdle, ImageKnown,
         JobKnown, GuiAlone, Scanners
<1>. QED BY <1>2, <1>3 DEF Books

-----------------------------------------------------------------------------
(* The bookkeeping.                                                        *)

(* What the service does to the driver's variables: nothing, but for one   *)
(* registration, one notification, or one IOCTL by pid.                    *)
LEMMA ServiceFrame ==
  ASSUME NEW p \in Procs,
         HandlerStep(p)
  PROVE  /\ UNCHANGED <<pidOf, imageOf, registered, queue>>
         /\ \/ UNCHANGED <<pstate, suspended>>
            \/ ResumeByPid(p)
            \/ KillByPid(p)
<1>1. CASE HandlerResume(p)
  BY <1>1 DEF HandlerResume, ResumeByPid, ResumeFails, driverVars
<1>2. CASE HandlerKill(p)
  BY <1>2 DEF HandlerKill, KillByPid, KillFails, driverVars
<1>. QED
  BY <1>1, <1>2 DEF HandlerStep, HandlerFast, HandlerDb, HandlerShare,
     HandlerLaunch, HandlerWait, HandlerLate, HandlerFile, driverVars

LEMMA ScanFrame ==
  ASSUME NEW s \in Scanners, ScanStep(s)
  PROVE  UNCHANGED <<pstate, suspended, pidOf, imageOf, queue, svc, hpc, fut,
                     guiJob, removed>>
BY DEF ScanStep, DeepLocal, DeepCloud, DeepFinal, ScanPublish, ScanErase,
       driverVars

LEMMA OnDemandFrame ==
  ASSUME OnDemandStep
  PROVE  UNCHANGED <<pstate, suspended, pidOf, imageOf, queue, svc, hpc, fut,
                     pending>>
BY DEF OnDemandStep, OnDemandStart, OnDemandFast, OnDemandDb, OnDemandFinish,
       driverVars

(* Once created, a process exists or has existed for good, and keeps its   *)
(* image and its pid.                                                      *)
LEMMA CreatedStays ==
  ASSUME TypeOK, [Next]_vars, NEW p \in Procs, pstate[p] # "absent"
  PROVE  /\ pstate'[p] # "absent"
         /\ imageOf'[p] = imageOf[p]
         /\ pidOf'[p] = pidOf[p]
<1>. USE DEF TypeOK, DriverTypeOK
<1>1. CASE DriverStep
  BY <1>1 DEF DriverStep, DriverEnvNext, ProcessCreate, HookReadService,
     HookSuspend, HookEnqueue, ProcessExit, HookExit
<1>2. CASE ServiceStep
  BY <1>2 DEF ServiceStep, ServiceStart, RegisterService, MonitorStart,
     ServiceExit, ServiceGone, HookServiceExit, MonitorTake,
     DequeueNotification, driverVars
<1>3. ASSUME NEW q \in Procs, HandlerStep(q)
      PROVE  /\ pstate'[p] # "absent"
             /\ imageOf'[p] = imageOf[p]
             /\ pidOf'[p] = pidOf[p]
  BY <1>3, ServiceFrame DEF ResumeByPid, KillByPid
<1>4. CASE UNCHANGED vars
  BY <1>4 DEF vars, driverVars
<1>. QED BY <1>1, <1>2, <1>3, <1>4, ScanFrame, OnDemandFrame DEF Next

(* Conversely, a process that is created has an image.                     *)
LEMMA CreatedImage ==
  ASSUME TypeOK, [Next]_vars, NEW p \in Procs, pstate[p] = "absent"
  PROVE  pstate'[p] # "absent" => imageOf'[p] \in Images
<1>. USE DEF TypeOK, DriverTypeOK
<1>1. CASE DriverStep
  BY <1>1 DEF DriverStep, DriverEnvNext, ProcessCreate, HookReadService,
     HookSuspend, HookEnqueue, ProcessExit, HookExit
<1>2. CASE ServiceStep
  BY <1>2 DEF ServiceStep, ServiceStart, RegisterService, MonitorStart,
     ServiceExit, ServiceGone, HookServiceExit, MonitorTake,
     DequeueNotification, driverVars
<1>3. ASSUME NEW q \in Procs, HandlerStep(q) PROVE pstate'[p] = "absent"
  BY <1>3, ServiceFrame DEF ResumeByPid, KillByPid
<1>4. CASE UNCHANGED vars
  BY <1>4 DEF vars, driverVars
<1>. QED BY <1>1, <1>2, <1>3, <1>4, ScanFrame, OnDemandFrame DEF Next

(* The queue stays, loses its head, or gains a process that was created.   *)
LEMMA QueueStep ==
  ASSUME TypeOK, [Next]_vars
  PROVE  \/ queue' = queue
         \/ queue # <<>> /\ queue' = Tail(queue)
         \/ \E p \in Procs, c \in BOOLEAN :
              /\ pstate[p] # "absent"
              /\ queue' = Append(queue, [proc |-> p, created |-> c])
<1>1. CASE DriverStep
  <2>1. ASSUME NEW p \in Procs, HookEnqueue(p) \/ HookExit(p)
        PROVE  \/ queue' = queue
               \/ \E c \in BOOLEAN :
                    /\ pstate[p] # "absent"
                    /\ queue' = Append(queue, [proc |-> p, created |-> c])
    BY <2>1 DEF HookEnqueue, HookExit, Enqueue
  <2>. QED
    BY <1>1, <2>1 DEF DriverStep, DriverEnvNext, ProcessCreate,
       HookReadService, HookSuspend, ProcessExit
<1>2. CASE ServiceStep
  BY <1>2 DEF ServiceStep, ServiceStart, RegisterService, MonitorStart,
     ServiceExit, ServiceGone, HookServiceExit, MonitorTake,
     DequeueNotification, driverVars
<1>3. CASE UNCHANGED vars
  BY <1>3 DEF vars, driverVars
<1>. QED BY <1>1, <1>2, <1>3, ServiceFrame, ScanFrame, OnDemandFrame DEF Next

LEMMA QueueKnownStep ==
  ASSUME Books, [Next]_vars
  PROVE  QueueKnown'
<1>1. /\ TypeOK
      /\ queue \in Seq(Notification)
      /\ \A i \in 1..Len(queue) :
           queue[i] \in Notification /\ pstate[queue[i].proc] # "absent"
  <2>1. TypeOK /\ QueueKnown /\ queue \in Seq(Notification)
    BY DEF Books, TypeOK, DriverTypeOK
  <2>2. \A i \in 1..Len(queue) : queue[i] \in Notification
    BY <2>1
  <2>. QED BY <2>1, <2>2 DEF QueueKnown
<1>2. \A p \in Procs : pstate[p] # "absent" => pstate'[p] # "absent"
  BY <1>1, CreatedStays
<1>3. CASE queue' = queue
  BY <1>1, <1>2, <1>3 DEF QueueKnown, Notification
<1>4. CASE queue # <<>> /\ queue' = Tail(queue)
  <2>1. \A i \in 1..Len(queue') : queue'[i] = queue[i + 1] /\ i + 1 \in 1..Len(queue)
    BY <1>1, <1>4
  <2>. QED BY <1>1, <1>2, <2>1 DEF QueueKnown, Notification
<1>5. ASSUME NEW p \in Procs, NEW c \in BOOLEAN, pstate[p] # "absent",
             queue' = Append(queue, [proc |-> p, created |-> c])
      PROVE  QueueKnown'
  <2>1. \A i \in 1..Len(queue') :
          \/ i \in 1..Len(queue) /\ queue'[i] = queue[i]
          \/ queue'[i] = [proc |-> p, created |-> c]
    BY <1>1, <1>5
  <2>. QED BY <1>1, <1>2, <1>5, <2>1 DEF QueueKnown, Notification
<1>. QED BY <1>1, <1>3, <1>4, <1>5, QueueStep

(* A handler's step is about its own program counter, and about its own    *)
(* scan when it launches one.                                              *)
LEMMA HandlerFrame ==
  ASSUME TypeOK, NEW p \in Procs, HandlerStep(p)
  PROVE  /\ hpc[p] # "none"
         /\ \A q \in Procs \ {p} : hpc'[q] = hpc[q] /\ fut'[q] = fut[q]
         /\ \A s \in Scanners \ {p} : spc'[s] = spc[s]
         /\ spc'[p] = spc[p] \/ HandlerLaunch(p)
         /\ UNCHANGED <<svc, boots, verdict, guiJob>>
<1>. USE DEF TypeOK, GoTo
<1>1. CASE HandlerLaunch(p)
  BY <1>1 DEF HandlerLaunch, ScanTo
<1>2. CASE HandlerResume(p)
  BY <1>2 DEF HandlerResume, scanVars
<1>3. CASE HandlerKill(p)
  BY <1>3 DEF HandlerKill, scanVars
<1>. QED
  BY <1>1, <1>2, <1>3 DEF HandlerStep, HandlerFast, HandlerDb, HandlerShare,
     HandlerWait, HandlerLate, HandlerFile, scanVars

(* So is a scanner's step.                                                 *)
LEMMA ScannerFrame ==
  ASSUME TypeOK, NEW s \in Scanners, ScanStep(s)
  PROVE  /\ spc[s] # "none"
         /\ \A t \in Scanners \ {s} : spc'[t] = spc[t] /\ verdict'[t] = verdict[t]
BY DEF TypeOK, ScanStep, DeepLocal, DeepCloud, DeepFinal, ScanPublish,
       ScanErase, Conclude, ScanTo

LEMMA ClientFrame ==
  ASSUME TypeOK, OnDemandStep
  PROVE  \A s \in Procs : spc'[s] = spc[s] /\ verdict'[s] = verdict[s]
BY ServiceAssumption
   DEF TypeOK, Scanners, OnDemandStep, OnDemandStart, OnDemandFast,
       OnDemandDb, OnDemandFinish, Conclude, ScanTo

LEMMA AbsentStep ==
  ASSUME Books, [Next]_vars, NEW p \in Procs, pstate[p] = "absent"
  PROVE  hpc'[p] = "none" /\ spc'[p] = "none"
<1>0. TypeOK /\ QueueKnown /\ hpc[p] = "none" /\ spc[p] = "none"
  BY DEF Books, AbsentIdle
<1>1. CASE DriverStep \/ UNCHANGED vars
  BY <1>0, <1>1 DEF DriverStep, vars, serviceVars
<1>2. CASE ServiceStep
  <2>1. CASE MonitorTake
    <3>1. queue # <<>> /\ Head(queue).proc # p
      BY <1>0, <2>1 DEF MonitorTake, DequeueNotification, QueueKnown, TypeOK,
         DriverTypeOK
    <3>. QED
      BY <1>0, <2>1, <3>1 DEF MonitorTake, GoTo, scanVars, TypeOK
  <2>. QED
    BY <1>0, <1>2, <2>1 DEF ServiceStep, ServiceStart, MonitorStart,
       ServiceExit, ServiceGone, scanVars, Scanners
<1>3. ASSUME NEW q \in Procs, HandlerStep(q)
      PROVE  hpc'[p] = "none" /\ spc'[p] = "none"
  <2>1. p # q
    BY <1>0, <1>3, HandlerFrame
  <2>. QED BY <1>0, <1>3, <2>1, HandlerFrame DEF Scanners
<1>4. ASSUME NEW s \in Scanners, ScanStep(s)
      PROVE  hpc'[p] = "none" /\ spc'[p] = "none"
  <2>1. p # s
    BY <1>0, <1>4, ScannerFrame
  <2>. QED BY <1>0, <1>4, <2>1, ScannerFrame, ScanFrame DEF Scanners
<1>. QED BY <1>0, <1>1, <1>2, <1>3, <1>4, ClientFrame, OnDemandFrame DEF Next

(* The pipe server's own scan.                                             *)
LEMMA ClientStep ==
  ASSUME Books, [Next]_vars
  PROVE  JobKnown' /\ GuiAlone'
<1>0. TypeOK /\ JobKnown /\ GuiAlone /\ Gui \in Scanners /\ Gui \notin Procs
  BY ServiceAssumption DEF Books, Scanners
<1>. USE DEF JobKnown, GuiAlone
<1>1. CASE DriverStep \/ UNCHANGED vars
  BY <1>0, <1>1 DEF DriverStep, vars, serviceVars
<1>2. CASE ServiceStep
  BY <1>0, <1>2 DEF ServiceStep, ServiceStart, MonitorStart, ServiceExit,
     ServiceGone, MonitorTake, scanVars
<1>3. ASSUME NEW q \in Procs, HandlerStep(q) PROVE JobKnown' /\ GuiAlone'
  BY <1>0, <1>3, HandlerFrame
<1>4. ASSUME NEW s \in Scanners, ScanStep(s) PROVE JobKnown' /\ GuiAlone'
  <2>1. CASE s = Gui
    BY <1>0, <1>4, <2>1 DEF ScanStep, DeepLocal, DeepCloud, DeepFinal,
       ScanPublish, ScanErase, Conclude, ScanTo, TypeOK
  <2>2. CASE s # Gui
    BY <1>0, <1>4, <2>2, ScannerFrame, ScanFrame
  <2>. QED BY <2>1, <2>2
<1>5. CASE OnDemandStep
  BY <1>0, <1>5 DEF OnDemandStep, OnDemandStart, OnDemandFast, OnDemandDb,
     OnDemandFinish, Conclude, ScanTo, TypeOK
<1>. QED BY <1>1, <1>2, <1>3, <1>4, <1>5 DEF Next

LEMMA BooksStep == Books /\ [Next]_vars => Books'
<1>. SUFFICES ASSUME Books, [Next]_vars PROVE Books'
  OBVIOUS
<1>1. TypeOK' /\ QueueKnown' /\ JobKnown' /\ GuiAlone'
  BY TypeStep, QueueKnownStep, ClientStep
<1>2. AbsentIdle'
  <2>. SUFFICES ASSUME NEW p \in Procs, pstate'[p] = "absent"
                PROVE  hpc'[p] = "none" /\ spc'[p] = "none"
    BY DEF AbsentIdle
  <2>1. pstate[p] = "absent"
    BY CreatedStays DEF Books
  <2>. QED BY <2>1, AbsentStep
<1>3. ImageKnown'
  BY CreatedStays, CreatedImage DEF Books, ImageKnown
<1>. QED BY <1>1, <1>2, <1>3 DEF Books

(* Every variable of the model stays within its type.                      *)
THEOREM TypeCorrect == Spec => []TypeOK
<1>1. Spec => []Books
  BY BooksInit, BooksStep, PTL DEF Spec
<1>2. Books => TypeOK
  BY DEF Books
<1>. QED BY <1>1, <1>2, PTL

-----------------------------------------------------------------------------
(* No suspended process is forgotten.                                      *)

LEMMA SuspendedStep ==
  ASSUME TypeOK, SuspendedPresent, [Next]_vars
  PROVE  SuspendedPresent'
<1>. USE DEF SuspendedPresent, TypeOK, DriverTypeOK
<1>1. CASE DriverStep
  <2>. SUFFICES ASSUME NEW p \in Procs,
                       \/ \E pid \in Pids, im \in Images : ProcessCreate(p, pid, im)
                       \/ HookReadService(p) \/ HookSuspend(p) \/ HookEnqueue(p)
                       \/ ProcessExit(p) \/ HookExit(p)
                PROVE  SuspendedPresent'
    BY <1>1 DEF DriverStep, DriverEnvNext
  <2>1. CASE \E pid \in Pids, im \in Images : ProcessCreate(p, pid, im)
    BY <2>1 DEF ProcessCreate
  <2>2. CASE HookReadService(p) \/ HookSuspend(p)
    BY <2>2 DEF HookReadService, HookSuspend
  <2>3. CASE HookEnqueue(p)
    BY <2>3 DEF HookEnqueue
  <2>4. CASE ProcessExit(p) \/ HookExit(p)
    BY <2>4 DEF ProcessExit, HookExit
  <2>. QED BY <2>1, <2>2, <2>3, <2>4
<1>2. CASE ServiceStep
  BY <1>2 DEF ServiceStep, ServiceStart, RegisterService, MonitorStart,
     ServiceExit, ServiceGone, HookServiceExit, MonitorTake,
     DequeueNotification, driverVars
<1>3. ASSUME NEW q \in Procs, HandlerStep(q) PROVE SuspendedPresent'
  <2>1. CASE ResumeByPid(q)
    BY <2>1 DEF ResumeByPid
  <2>2. CASE KillByPid(q)
    BY <2>2 DEF KillByPid
  <2>. QED BY <1>3, <2>1, <2>2, ServiceFrame
<1>4. CASE UNCHANGED vars
  BY <1>4 DEF vars, driverVars
<1>. QED BY <1>1, <1>2, <1>3, <1>4, ScanFrame, OnDemandFrame DEF Next

(* An announcement survives whatever is queued after it.                   *)
LEMMA AnnouncedStays ==
  ASSUME queue \in Seq(Notification), NEW p \in Procs, Announced(p),
         NEW n \in Notification, queue' = Append(queue, n)
  PROVE  Announced(p)'
<1>1. PICK i \in 1..Len(queue) : queue[i] = [proc |-> p, created |-> TRUE]
  BY DEF Announced
<1>2. i \in 1..Len(queue') /\ queue'[i] = queue[i]
  BY <1>1
<1>. QED BY <1>1, <1>2 DEF Announced

(* The monitor takes an announcement from the head of the queue only.      *)
LEMMA AnnouncedTaken ==
  ASSUME queue \in Seq(Notification), NEW p \in Procs, Announced(p),
         queue # <<>>, queue' = Tail(queue),
         Head(queue) # [proc |-> p, created |-> TRUE]
  PROVE  Announced(p)'
<1>1. PICK i \in 1..Len(queue) : queue[i] = [proc |-> p, created |-> TRUE]
  BY DEF Announced
<1>2. i - 1 \in 1..Len(queue') /\ queue'[i - 1] = queue[i]
  BY <1>1
<1>. QED BY <1>1, <1>2 DEF Announced

LEMMA NoOrphanDriver ==
  ASSUME TypeOK, SuspendedPresent, NoOrphan, DriverStep
  PROVE  NoOrphan'
<1>. SUFFICES ASSUME NEW p \in suspended', pstate'[p] # "queueing",
                     hpc'[p] \notin Holding \cup Abandoned \cup Failing
              PROVE  Announced(p)'
  BY DEF NoOrphan
<1>0. /\ p \in Procs
      /\ queue \in Seq(Notification)
      /\ hpc' = hpc
  <2>1. TypeOK'
    BY TypeDriver DEF DriverStep, TypeOK, serviceVars
  <2>. QED BY <2>1 DEF TypeOK, DriverTypeOK, DriverStep, serviceVars
<1>1. ASSUME p \in suspended, Announced(p) PROVE Announced(p)'
  <2>1. ASSUME NEW q \in Procs, HookEnqueue(q) \/ HookExit(q)
        PROVE  Announced(p)'
    <3>1. CASE queue' = queue
      BY <1>1, <3>1 DEF Announced
    <3>2. ASSUME NEW c \in BOOLEAN, Enqueue(q, c) PROVE Announced(p)'
      BY <1>0, <1>1, <3>2, AnnouncedStays DEF Enqueue, Notification
    <3>. QED BY <2>1, <3>1, <3>2 DEF HookEnqueue, HookExit
  <2>2. CASE queue' = queue
    BY <1>1, <2>2 DEF Announced
  <2>. QED
    BY <2>1, <2>2 DEF DriverStep, DriverEnvNext, ProcessCreate,
       HookReadService, HookSuspend, ProcessExit
<1>2. ASSUME p \in suspended, pstate[p] = "queueing" PROVE Announced(p)'
  <2>1. HookEnqueue(p)
    BY <1>2 DEF DriverStep, DriverEnvNext, ProcessCreate, HookReadService,
       HookSuspend, HookEnqueue, ProcessExit, HookExit, TypeOK, DriverTypeOK
  <2>2. queue' = Append(queue, [proc |-> p, created |-> TRUE])
    BY <2>1 DEF HookEnqueue, Enqueue
  <2>3. /\ Len(queue') \in 1..Len(queue')
        /\ queue'[Len(queue')] = [proc |-> p, created |-> TRUE]
    BY <1>0, <2>2 DEF Notification
  <2>. QED BY <2>3 DEF Announced
<1>3. p \in suspended
  <2>. SUFFICES ASSUME p \notin suspended PROVE FALSE
    OBVIOUS
  <2>1. HookSuspend(p)
    BY DEF DriverStep, DriverEnvNext, ProcessCreate, HookReadService,
       HookSuspend, HookEnqueue, ProcessExit, HookExit
  <2>. QED BY <1>0, <2>1 DEF HookSuspend, TypeOK, DriverTypeOK
<1>. QED BY <1>0, <1>1, <1>2, <1>3 DEF NoOrphan

LEMMA NoOrphanService ==
  ASSUME TypeOK, NoOrphan, ServiceStep
  PROVE  NoOrphan'
<1>. USE DEF TypeOK, DriverTypeOK
<1>1. CASE ServiceStart \/ MonitorStart \/ ServiceGone
  BY <1>1 DEF ServiceStart, RegisterService, MonitorStart, ServiceGone,
     HookServiceExit, driverVars, NoOrphan, Announced
<1>2. CASE ServiceExit
  BY <1>2 DEF ServiceExit, driverVars, NoOrphan, Announced, HandlerPcs,
     Holding, Abandoned, Failing
<1>3. CASE MonitorTake
  <2>. SUFFICES ASSUME NEW p \in suspended'
                PROVE  \/ pstate'[p] = "queueing"
                       \/ Announced(p)'
                       \/ hpc'[p] \in Holding \cup Abandoned \cup Failing
    BY DEF NoOrphan
  <2>1. /\ p \in suspended /\ p \in Procs
        /\ pstate' = pstate
        /\ queue # <<>> /\ queue' = Tail(queue)
        /\ Head(queue) \in Notification
    BY <1>3 DEF MonitorTake, DequeueNotification
  <2>2. CASE Head(queue).created /\ Head(queue).proc = p
    BY <1>3, <2>1, <2>2 DEF MonitorTake, GoTo, Holding, Abandoned
  <2>3. CASE ~(Head(queue).created /\ Head(queue).proc = p)
    <3>1. CASE Announced(p)
      <4>1. Head(queue) # [proc |-> p, created |-> TRUE]
        BY <2>3
      <4>2. queue \in Seq(Notification)
        OBVIOUS
      <4>. QED BY <2>1, <3>1, <4>1, <4>2, AnnouncedTaken
    <3>2. ASSUME hpc[p] \in Holding \cup Abandoned \cup Failing
          PROVE  hpc'[p] \in Holding \cup Abandoned \cup Failing
      BY <1>3, <2>1, <2>3, <3>2 DEF MonitorTake, GoTo
    <3>. QED BY <2>1, <3>1, <3>2 DEF NoOrphan
  <2>. QED BY <2>2, <2>3
<1>. QED BY <1>1, <1>2, <1>3 DEF ServiceStep

LEMMA NoOrphanHandler ==
  ASSUME TypeOK, SuspendedPresent, NoOrphan, NEW q \in Procs, HandlerStep(q)
  PROVE  NoOrphan'
<1>. SUFFICES ASSUME NEW p \in suspended'
              PROVE  \/ pstate'[p] = "queueing"
                     \/ Announced(p)'
                     \/ hpc'[p] \in Holding \cup Abandoned \cup Failing
  BY DEF NoOrphan
<1>1. p \in suspended /\ p \in Procs /\ queue' = queue
  BY ServiceFrame DEF ResumeByPid, KillByPid, TypeOK, DriverTypeOK
<1>2. CASE pstate[p] = "queueing"
  BY <1>1, <1>2, ServiceFrame DEF ResumeByPid, KillByPid
<1>3. CASE Announced(p)
  BY <1>1, <1>3 DEF Announced
<1>4. CASE pstate[p] # "queueing" /\ hpc[p] \in Holding \cup Abandoned \cup Failing
  <2>1. CASE q # p
    BY <1>1, <1>4, <2>1, HandlerFrame
  <2>2. CASE q = p
    <3>. USE DEF GoTo, TypeOK, Holding, Abandoned, Failing
    <3>1. pstate[p] = "live" /\ p \in Answering(p)
      BY <1>1, <1>4 DEF SuspendedPresent, Answering, Present
    <3>2. ~ResumeByPid(p) /\ ~KillByPid(p)
      BY <1>1, <3>1 DEF ResumeByPid, KillByPid
    <3>3. CASE HandlerResume(p)
      BY <1>1, <3>2, <3>3 DEF HandlerResume
    <3>4. CASE HandlerKill(p)
      BY <1>1, <3>2, <3>4 DEF HandlerKill
    <3>. QED
      BY <1>1, <1>4, <2>2, <3>3, <3>4 DEF HandlerStep, HandlerFast, HandlerDb,
         HandlerShare, HandlerLaunch, HandlerWait, HandlerLate, HandlerFile
  <2>. QED BY <2>1, <2>2
<1>. QED BY <1>1, <1>2, <1>3, <1>4 DEF NoOrphan

-----------------------------------------------------------------------------
(* Driver and service keep the gate.                                       *)

LEMMA PidsStep ==
  ASSUME TypeOK, PidsUnique, [Next]_vars
  PROVE  PidsUnique'
<1>. DEFINE Exists(p) == pstate[p] \notin {"absent", "gone"}
<1>1. CASE \E p \in Procs, pid \in Pids, im \in Images : ProcessCreate(p, pid, im)
  BY <1>1 DEF ProcessCreate, PidsUnique, TypeOK, DriverTypeOK
<1>2. ASSUME pidOf' = pidOf, \A p \in Procs : Exists(p)' => Exists(p)
      PROVE  PidsUnique'
  BY <1>2 DEF PidsUnique
<1>3. ASSUME NEW p \in Procs,
             \/ HookReadService(p) \/ HookSuspend(p) \/ HookEnqueue(p)
             \/ ProcessExit(p) \/ HookExit(p)
      PROVE  pidOf' = pidOf /\ \A q \in Procs : Exists(q)' => Exists(q)
  BY <1>3 DEF HookReadService, HookSuspend, HookEnqueue, ProcessExit, HookExit,
     TypeOK, DriverTypeOK
<1>4. ASSUME ServiceStep
      PROVE  pidOf' = pidOf /\ \A q \in Procs : Exists(q)' => Exists(q)
  BY <1>4 DEF ServiceStep, ServiceStart, RegisterService, MonitorStart,
     ServiceExit, ServiceGone, HookServiceExit, MonitorTake,
     DequeueNotification, driverVars
<1>5. ASSUME NEW p \in Procs, HandlerStep(p)
      PROVE  pidOf' = pidOf /\ \A q \in Procs : Exists(q)' => Exists(q)
  BY <1>5, ServiceFrame DEF ResumeByPid, KillByPid
<1>6. ASSUME UNCHANGED vars
      PROVE  pidOf' = pidOf /\ \A q \in Procs : Exists(q)' => Exists(q)
  BY <1>6 DEF vars, driverVars
<1>. HIDE DEF Exists
<1>7. CASE DriverStep
  BY <1>1, <1>2, <1>3, <1>7 DEF DriverStep, DriverEnvNext
<1>8. CASE ~DriverStep
  <2>1. pidOf' = pidOf /\ \A q \in Procs : Exists(q)' => Exists(q)
    <3>1. ASSUME UNCHANGED <<pstate, pidOf>>
          PROVE  pidOf' = pidOf /\ \A q \in Procs : Exists(q)' => Exists(q)
      BY <3>1 DEF Exists
    <3>. QED BY <1>4, <1>5, <1>6, <1>8, <3>1, ScanFrame, OnDemandFrame DEF Next
  <2>. QED BY <1>2, <2>1
<1>. QED BY <1>7, <1>8

(* The state the gate sees.                                                *)
GateMap == [p \in Procs |-> GateOf(p)]

(* One process moving at a time, and along the gate, is a step of it.      *)
LEMMA GateMove ==
  ASSUME NEW p \in Procs,
         \A q \in Procs \ {p} : GateOf(q)' = GateOf(q),
         \/ GateOf(p)' = GateOf(p)
         \/ GateOf(p) = "new" /\ GateOf(p)' \in {"held", "open"}
         \/ GateOf(p) = "held" /\ GateOf(p)' \in {"open", "closed"}
         \/ GateOf(p) = "open" /\ GateOf(p)' = "closed"
  PROVE  [Gate!GateNext]_GateMap
<1>. DEFINE g == GateMap
            v == GateOf(p)'
<1>1. g[p] = GateOf(p) /\ g' = [g EXCEPT ![p] = v]
  BY DEF GateMap
<1>2. CASE GateOf(p)' = GateOf(p)
  BY <1>1, <1>2 DEF GateMap
<1>3. CASE GateOf(p) = "new" /\ v = "held"
  BY <1>1, <1>3 DEF GateMap, Gate!GateNext, Gate!Hold, Gate!Move
<1>4. CASE GateOf(p) = "new" /\ v = "open"
  BY <1>1, <1>4 DEF GateMap, Gate!GateNext, Gate!Admit, Gate!Move
<1>5. CASE GateOf(p) = "held" /\ v = "open"
  BY <1>1, <1>5 DEF GateMap, Gate!GateNext, Gate!Release, Gate!Move
<1>6. CASE GateOf(p) \in {"held", "open"} /\ v = "closed"
  BY <1>1, <1>6 DEF GateMap, Gate!GateNext, Gate!End, Gate!Move
<1>. QED BY <1>2, <1>3, <1>4, <1>5, <1>6

LEMMA GateStill ==
  ASSUME UNCHANGED <<pstate, suspended>>
  PROVE  UNCHANGED GateMap
BY DEF GateMap, GateOf

LEMMA GateDriver ==
  ASSUME TypeOK, SuspendedPresent, DriverStep
  PROVE  [Gate!GateNext]_GateMap
<1>. SUFFICES ASSUME NEW p \in Procs,
                     \/ \E pid \in Pids, im \in Images : ProcessCreate(p, pid, im)
                     \/ HookReadService(p) \/ HookSuspend(p) \/ HookEnqueue(p)
                     \/ ProcessExit(p) \/ HookExit(p)
              PROVE  [Gate!GateNext]_GateMap
  BY DEF DriverStep, DriverEnvNext
<1>. USE DEF GateOf, SuspendedPresent, TypeOK, DriverTypeOK
<1>1. CASE \E pid \in Pids, im \in Images : ProcessCreate(p, pid, im)
  BY <1>1, GateMove DEF ProcessCreate
<1>2. CASE HookReadService(p)
  BY <1>2, GateMove DEF HookReadService
<1>3. CASE HookSuspend(p)
  BY <1>3, GateMove DEF HookSuspend
<1>4. CASE HookEnqueue(p)
  BY <1>4, GateMove DEF HookEnqueue
<1>5. CASE ProcessExit(p)
  BY <1>5, GateMove DEF ProcessExit
<1>6. CASE HookExit(p)
  BY <1>6, GateMove DEF HookExit
<1>. QED BY <1>1, <1>2, <1>3, <1>4, <1>5, <1>6

(* A resume or a kill by pid finds one process at most.                    *)
LEMMA AnsweringOne ==
  ASSUME PidsUnique, NEW p \in Procs
  PROVE  \/ Answering(p) = {}
         \/ \E q \in Procs : Answering(p) = {q} /\ Present(q)
BY DEF PidsUnique, Answering, Present, Hooked

LEMMA GateHandler ==
  ASSUME TypeOK, SuspendedPresent, PidsUnique, NEW p \in Procs, HandlerStep(p)
  PROVE  [Gate!GateNext]_GateMap
<1>. USE DEF GateOf, SuspendedPresent, TypeOK, DriverTypeOK, Present, Hooked
<1>1. ASSUME NEW q \in Procs, Answering(p) = {q}, ResumeByPid(p)
      PROVE  [Gate!GateNext]_GateMap
  BY <1>1, GateMove DEF ResumeByPid
<1>2. ASSUME NEW q \in Procs, Answering(p) = {q}, KillByPid(p)
      PROVE  [Gate!GateNext]_GateMap
  BY <1>2, GateMove DEF KillByPid
<1>3. CASE UNCHANGED <<pstate, suspended>>
  BY <1>3, GateStill
<1>. QED
  BY <1>1, <1>2, <1>3, AnsweringOne, ServiceFrame DEF ResumeByPid, KillByPid

LEMMA GateStep ==
  ASSUME TypeOK, SuspendedPresent, PidsUnique, [Next]_vars
  PROVE  [Gate!GateNext]_GateMap
<1>1. CASE ServiceStep \/ UNCHANGED vars
  BY <1>1, GateStill DEF ServiceStep, ServiceStart, RegisterService,
     MonitorStart, ServiceExit, ServiceGone, HookServiceExit, MonitorTake,
     DequeueNotification, vars, driverVars
<1>. QED
  BY <1>1, GateDriver, GateHandler, GateStill, ScanFrame, OnDemandFrame DEF Next

(* Under every failure and reuse of pids, each process is held at most     *)
(* once, from its creation on, and no step moves two processes.            *)
THEOREM GateKept == Spec => KeepsGate
<1>. DEFINE I == Books /\ SuspendedPresent /\ PidsUnique
<1>1. Init => I
  BY BooksInit DEF Init, DriverInit, SuspendedPresent, PidsUnique
<1>2. I /\ [Next]_vars => I'
  BY BooksStep, SuspendedStep, PidsStep DEF Books
<1>3. Init => Gate!GateInit
  BY DEF Init, DriverInit, Gate!GateInit, GateOf
<1>4. I /\ [Next]_vars => [Gate!GateNext]_GateMap
  BY GateStep DEF Books
<1>. QED BY <1>1, <1>2, <1>3, <1>4, PTL DEF Spec, KeepsGate, Gate!GateSpec, GateMap

-----------------------------------------------------------------------------
(* m_pendingScans and the futures.                                         *)

(* Where a scan thread can go in a step of its own.                        *)
LEMMA ScanMoves ==
  ASSUME TypeOK, NEW s \in Scanners, ScanStep(s)
  PROVE  /\ spc[s] \in InFlight
         /\ \/ spc'[s] \in InFlight /\ pending' = pending
            \/ spc'[s] = "done" /\ ScanErase(s)
BY DEF TypeOK, ScanStep, DeepLocal, DeepCloud, DeepFinal, ScanPublish,
       ScanErase, Conclude, ScanTo, InFlight

(* A running service keeps the images of whoever has a scan or a handler.  *)
LEMMA ImageKept ==
  ASSUME Books, [Next]_vars
  PROVE  \A p \in Procs :
           spc[p] # "none" \/ hpc[p] # "none" =>
             /\ pstate[p] # "absent"
             /\ imageOf'[p] = imageOf[p]
             /\ imageOf[p] \in Images
BY CreatedStays DEF Books, AbsentIdle, ImageKnown

(* Scans and table as they were.                                           *)
LEMMA PendingStill ==
  ASSUME Books, PendingExact, [Next]_vars,
         pending' = pending, \A s \in Procs : spc'[s] = spc[s]
  PROVE  PendingExact'
<1>1. \A im \in Images, s \in Procs :
        spc[s] \in InFlight \cup {"broken"} => imageOf'[s] = imageOf[s]
  BY ImageKept DEF InFlight
<1>. QED BY <1>1 DEF PendingExact

LEMMA PendingStep ==
  ASSUME Books, PendingExact, [Next]_vars
  PROVE  PendingExact'
<1>0. TypeOK
  BY DEF Books
<1>1. CASE DriverStep \/ UNCHANGED vars \/ OnDemandStep
  BY <1>0, <1>1, PendingStill, ClientFrame, OnDemandFrame
     DEF DriverStep, vars, serviceVars
<1>2. CASE ServiceExit
  BY <1>2, ServiceAssumption, DriverAssumption
     DEF ServiceExit, PendingExact, InFlight, Scanners
<1>3. CASE ServiceStep /\ ~ServiceExit
  BY <1>3, PendingStill DEF ServiceStep, ServiceStart, MonitorStart,
     ServiceGone, MonitorTake, scanVars
<1>4. ASSUME NEW p \in Procs, HandlerStep(p) PROVE PendingExact'
  <2>1. CASE HandlerLaunch(p)
    <3>1. /\ pending[imageOf[p]] = None
          /\ pending' = [pending EXCEPT ![imageOf[p]] = p]
          /\ spc'[p] \in InFlight \cup {"broken"}
          /\ \A s \in Procs \ {p} : spc'[s] = spc[s]
          /\ imageOf' = imageOf
          /\ imageOf[p] \in Images
      BY <1>0, <1>4, <2>1, ImageKept, HandlerFrame, ServiceFrame
         DEF HandlerLaunch, ScanTo, InFlight, TypeOK, Scanners
    <3>2. None \notin Procs
      BY DriverAssumption
    <3>. QED BY <1>0, <3>1, <3>2 DEF PendingExact, TypeOK
  <2>2. CASE ~HandlerLaunch(p)
    <3>1. /\ pending' = pending
          /\ \A s \in Procs : spc'[s] = spc[s]
      BY <1>0, <1>4, <2>2, HandlerFrame
         DEF Scanners, HandlerStep, HandlerFast, HandlerDb, HandlerShare,
             HandlerWait, HandlerResume, HandlerLate, HandlerKill, HandlerFile,
             scanVars
    <3>. QED BY <3>1, PendingStill
  <2>. QED BY <2>1, <2>2
<1>5. ASSUME NEW s \in Scanners, ScanStep(s) PROVE PendingExact'
  <2>0. /\ imageOf' = imageOf
        /\ \A t \in Procs \ {s} : spc'[t] = spc[t]
    BY <1>0, <1>5, ScanFrame, ScannerFrame DEF Scanners
  <2>1. CASE ScanErase(s)
    <3>1. /\ s \in Procs
          /\ spc[s] = "erase" /\ spc'[s] = "done"
          /\ pending' = [pending EXCEPT ![imageOf[s]] = None]
      BY <1>0, <2>1 DEF Books, GuiAlone, ScanErase, ScanTo, TypeOK, Scanners
    <3>2. None \notin Procs
      BY DriverAssumption
    <3>. QED BY <1>0, <2>0, <3>1, <3>2 DEF PendingExact, TypeOK, InFlight
  <2>2. CASE ~ScanErase(s)
    <3>1. /\ spc[s] \in InFlight /\ spc'[s] \in InFlight
          /\ pending' = pending
      BY <1>0, <1>5, <2>2, ScanMoves
    <3>. QED BY <2>0, <3>1 DEF PendingExact
  <2>. QED BY <2>1, <2>2
<1>. QED BY <1>1, <1>2, <1>3, <1>4, <1>5 DEF Next

(* Scans whose promise is set or will be.                                  *)
Served == InFlight \cup {"done", "broken"}

(* A scan in flight or ready stays so until the service ends.              *)
LEMMA ServedStays ==
  ASSUME Books, [Next]_vars, ~ServiceExit, NEW s \in Procs,
         spc[s] \in Served
  PROVE  spc'[s] \in Served
<1>. USE DEF Served
<1>0. TypeOK /\ s \in Scanners
  BY DEF Books, Scanners
<1>1. CASE spc'[s] = spc[s]
  BY <1>1
<1>2. CASE HandlerStep(s)
  <2>1. CASE HandlerLaunch(s)
    BY <1>0, <2>1 DEF HandlerLaunch, ScanTo, InFlight, TypeOK
  <2>. QED BY <1>0, <1>1, <1>2, <2>1, HandlerFrame
<1>3. CASE ScanStep(s)
  BY <1>0, <1>3, ScanMoves DEF ScanErase, ScanTo
<1>4. CASE spc' # spc /\ ~HandlerStep(s) /\ ~ScanStep(s)
  <2>1. ASSUME NEW q \in Procs, HandlerStep(q) PROVE spc'[s] = spc[s]
    BY <1>0, <1>4, <2>1, HandlerFrame
  <2>2. ASSUME NEW t \in Scanners, ScanStep(t) PROVE spc'[s] = spc[s]
    BY <1>0, <1>4, <2>2, ScannerFrame
  <2>3. ASSUME OnDemandStep PROVE spc'[s] = spc[s]
    BY <1>0, <2>3, ClientFrame
  <2>4. ~DriverStep /\ ~ServiceStep /\ ~UNCHANGED vars
    BY <1>4 DEF DriverStep, ServiceStep, ServiceStart, MonitorStart,
       ServiceGone, MonitorTake, scanVars, vars, serviceVars
  <2>. QED BY <1>1, <2>1, <2>2, <2>3, <2>4 DEF Next
<1>. QED BY <1>1, <1>2, <1>3, <1>4

(* A handler's own step gives it a future only by launching or sharing.    *)
LEMMA FutureTaken ==
  ASSUME Books, PendingExact, NEW p \in Procs, HandlerStep(p),
         [Next]_vars, hpc'[p] \in Waiting
  PROVE  \/ hpc[p] \in Waiting /\ fut'[p] = fut[p]
         \/ /\ fut'[p] \in Procs
            /\ imageOf[fut'[p]] = imageOf[p]
            /\ spc'[fut'[p]] \in Served
<1>0. TypeOK /\ p \in Scanners /\ imageOf[p] \in Images
  BY ImageKept, HandlerFrame DEF Books, Scanners
<1>. USE DEF Waiting, GoTo
<1>1. CASE HandlerShare(p)
  <2>. DEFINE s == pending[imageOf[p]]
  <2>1. /\ s # None /\ fut'[p] = s
        /\ UNCHANGED spc
    BY <1>0, <1>1 DEF HandlerShare, scanVars, TypeOK
  <2>2. s \in Procs
    BY <1>0, <2>1 DEF TypeOK
  <2>3. imageOf[s] = imageOf[p] /\ spc[s] \in InFlight \cup {"broken"}
    BY <1>0, <2>2 DEF PendingExact
  <2>. QED BY <2>1, <2>2, <2>3 DEF Served
<1>2. CASE HandlerLaunch(p)
  BY <1>0, <1>2 DEF HandlerLaunch, ScanTo, InFlight, Served, TypeOK
<1>3. CASE HandlerResume(p) \/ HandlerWait(p) \/ HandlerLate(p)
  BY <1>0, <1>3 DEF HandlerResume, HandlerWait, HandlerLate, TypeOK
<1>4. CASE HandlerKill(p)
  BY <1>0, <1>4 DEF HandlerKill, TypeOK
<1>. QED
  BY <1>0, <1>1, <1>2, <1>3, <1>4 DEF HandlerStep, HandlerFast, HandlerDb,
     HandlerFile, TypeOK

LEMMA FutureStep ==
  ASSUME Books, PendingExact, FutureServed, [Next]_vars
  PROVE  FutureServed'
<1>0. TypeOK
  BY DEF Books
<1>1. CASE ServiceExit
  BY <1>1 DEF ServiceExit, FutureServed, Waiting, Abandoned
<1>2. CASE ~ServiceExit
  <2>. SUFFICES ASSUME NEW p \in Procs, hpc'[p] \in Waiting
                PROVE  /\ fut'[p] \in Procs
                       /\ imageOf'[fut'[p]] = imageOf'[p]
                       /\ spc'[fut'[p]] \in Served
    BY DEF FutureServed, Ready, Served, InFlight
  <2>1. CASE hpc[p] \in Waiting /\ fut'[p] = fut[p]
    <3>1. /\ fut[p] \in Procs
          /\ imageOf[fut[p]] = imageOf[p]
          /\ spc[fut[p]] \in Served
      BY <2>1 DEF FutureServed, Ready, Served, InFlight
    <3>2. spc[fut[p]] # "none" /\ hpc[p] # "none"
      BY <2>1, <3>1 DEF Served, InFlight, Waiting
    <3>. QED BY <1>2, <2>1, <3>1, <3>2, ImageKept, ServedStays
  <2>2. CASE HandlerStep(p)
    <3>1. imageOf' = imageOf
      BY <2>2, ServiceFrame
    <3>. QED BY <2>1, <2>2, <3>1, FutureTaken
  <2>3. CASE ~HandlerStep(p)
    <3>1. hpc[p] \in Waiting /\ fut'[p] = fut[p]
      <4>1. ASSUME NEW q \in Procs, HandlerStep(q)
            PROVE  hpc'[p] = hpc[p] /\ fut'[p] = fut[p]
        BY <1>0, <2>3, <4>1, HandlerFrame
      <4>2. CASE MonitorTake
        <5>1. hpc'[p] = hpc[p] \/ hpc'[p] \in {"fast", "skipped"}
          BY <1>0, <4>2 DEF MonitorTake, GoTo, TypeOK
        <5>. QED BY <4>2, <5>1 DEF Waiting, MonitorTake
      <4>3. ASSUME DriverStep \/ UNCHANGED vars \/ (ServiceStep /\ ~MonitorTake)
            PROVE  hpc'[p] = hpc[p] /\ fut'[p] = fut[p]
        BY <1>2, <4>3 DEF DriverStep, ServiceStep, ServiceStart, MonitorStart,
           ServiceGone, vars, serviceVars
      <4>. QED BY <4>1, <4>2, <4>3, ScanFrame, OnDemandFrame DEF Next
    <3>. QED BY <2>1, <3>1
  <2>. QED BY <2>2, <2>3
<1>. QED BY <1>1, <1>2

-----------------------------------------------------------------------------
(* Verdicts.                                                               *)

LEMMA VerdictHeldStep ==
  ASSUME Books, VerdictHeld, [Next]_vars
  PROVE  VerdictHeld'
<1>0. TypeOK
  BY DEF Books
<1>1. CASE DriverStep \/ UNCHANGED vars
  BY <1>1 DEF DriverStep, vars, serviceVars, VerdictHeld
<1>2. CASE ServiceStep
  BY <1>2 DEF ServiceStep, ServiceStart, MonitorStart, ServiceExit,
     ServiceGone, MonitorTake, scanVars, VerdictHeld
<1>3. ASSUME NEW p \in Procs, HandlerStep(p) PROVE VerdictHeld'
  <2>1. p \in Scanners
    BY DEF Scanners
  <2>2. spc'[p] = spc[p] \/ spc'[p] # "none"
    BY <1>0, <1>3, <2>1, HandlerFrame DEF HandlerLaunch, ScanTo, TypeOK
  <2>. QED BY <1>0, <1>3, <2>2, HandlerFrame DEF VerdictHeld
<1>4. ASSUME NEW s \in Scanners, ScanStep(s) PROVE VerdictHeld'
  <2>1. spc'[s] # "none"
    BY <1>0, <1>4, ScanMoves DEF InFlight
  <2>. QED BY <1>0, <1>4, <2>1, ScannerFrame DEF VerdictHeld
<1>5. CASE OnDemandStep
  <2>1. verdict'[Gui] => spc'[Gui] # "none"
    BY <1>0, <1>5 DEF OnDemandStep, OnDemandStart, OnDemandFast, OnDemandDb,
       OnDemandFinish, Conclude, ScanTo, VerdictHeld, TypeOK, Scanners
  <2>. QED BY <1>0, <1>5, <2>1, ClientFrame DEF VerdictHeld, Scanners
<1>. QED BY <1>1, <1>2, <1>3, <1>4, <1>5 DEF Next

(* The three parts of ThreatsAreReal.                                      *)
CacheReal == \A im \in Images : cache[im] = "threat" => im \in Bad
VerdictReal == \A s \in Scanners : verdict[s] => ImageOf(s) \in Bad
KillReal == \A p \in Procs : hpc[p] \in {"db", "kill"} => imageOf[p] \in Bad

LEMMA CacheRealStep ==
  ASSUME Books, CacheReal, KillReal, JobReal, [Next]_vars
  PROVE  CacheReal'
<1>. USE DEF CacheReal
<1>0. TypeOK
  BY DEF Books
<1>1. CASE DriverStep \/ UNCHANGED vars
  BY <1>1 DEF DriverStep, vars, serviceVars
<1>2. CASE ServiceStep
  BY <1>2 DEF ServiceStep, ServiceStart, MonitorStart, ServiceExit,
     ServiceGone, MonitorTake, scanVars
<1>3. ASSUME NEW p \in Procs, HandlerStep(p) PROVE CacheReal'
  <2>1. CASE HandlerDb(p)
    BY <1>0, <1>3, <2>1 DEF HandlerDb, CacheResult, KillReal, TypeOK
  <2>2. CASE ~HandlerDb(p)
    BY <1>3, <2>2 DEF HandlerStep, HandlerFast, HandlerShare, HandlerLaunch,
       HandlerWait, HandlerResume, HandlerLate, HandlerKill, HandlerFile,
       scanVars
  <2>. QED BY <2>1, <2>2
<1>4. ASSUME NEW s \in Scanners, ScanStep(s) PROVE CacheReal'
  <2>. DEFINE cached(v) == cache' = [cache EXCEPT ![ImageOf(s)] = v]
  <2>0. ASSUME \/ UNCHANGED cache
               \/ cached("clean")
               \/ ImageOf(s) \in Bad /\ cached("threat")
        PROVE  CacheReal'
    BY <1>0, <2>0 DEF TypeOK
  <2>1. CASE DeepLocal(s)
    BY <2>0, <2>1 DEF DeepLocal, CacheResult, Bad
  <2>2. CASE DeepCloud(s)
    BY <2>0, <2>2 DEF DeepCloud, CacheResult, Bad
  <2>3. CASE DeepFinal(s)
    BY <2>0, <2>3 DEF DeepFinal, CacheResult
  <2>4. CASE ScanPublish(s) \/ ScanErase(s)
    BY <2>0, <2>4 DEF ScanPublish, ScanErase
  <2>. QED BY <1>4, <2>1, <2>2, <2>3, <2>4 DEF ScanStep
<1>5. CASE OnDemandStep
  BY <1>0, <1>5 DEF OnDemandStep, OnDemandStart, OnDemandFast, OnDemandDb,
     OnDemandFinish, CacheResult, TypeOK, JobReal
<1>. QED BY <1>1, <1>2, <1>3, <1>4, <1>5 DEF Next

LEMMA JobRealStep ==
  ASSUME Books, JobReal, [Next]_vars
  PROVE  JobReal'
<1>. USE DEF JobReal
<1>0. TypeOK /\ Gui \in Scanners /\ Gui \notin Procs
  BY ServiceAssumption DEF Books, Scanners
<1>1. CASE DriverStep \/ UNCHANGED vars
  BY <1>1 DEF DriverStep, vars, serviceVars
<1>2. CASE ServiceStep
  BY <1>0, <1>2 DEF ServiceStep, ServiceStart, MonitorStart, ServiceExit,
     ServiceGone, MonitorTake, scanVars
<1>3. ASSUME NEW p \in Procs, HandlerStep(p) PROVE JobReal'
  BY <1>0, <1>3, HandlerFrame
<1>4. ASSUME NEW s \in Scanners, ScanStep(s) PROVE JobReal'
  BY <1>0, <1>4, ScanMoves, ScannerFrame, ScanFrame
     DEF InFlight, ScanErase, ScanTo, TypeOK
<1>5. CASE OnDemandStep
  BY <1>0, <1>5 DEF OnDemandStep, OnDemandStart, OnDemandFast, OnDemandDb,
     OnDemandFinish, Conclude, ScanTo, TypeOK, Bad
<1>. QED BY <1>1, <1>2, <1>3, <1>4, <1>5 DEF Next

LEMMA VerdictRealStep ==
  ASSUME Books, VerdictHeld, VerdictReal, CacheReal, JobReal, [Next]_vars
  PROVE  VerdictReal'
<1>. USE DEF VerdictReal, ImageOf
<1>0. TypeOK /\ Gui \in Scanners /\ Gui \notin Procs
  BY ServiceAssumption DEF Books, Scanners
<1>1. ASSUME NEW s \in Scanners, verdict'[s] = verdict[s], guiJob' = guiJob
      PROVE  verdict'[s] => ImageOf(s)' \in Bad
  <2>1. CASE s = Gui
    BY <1>1, <2>1
  <2>2. CASE s # Gui
    <3>1. verdict[s] => imageOf'[s] = imageOf[s]
      BY <2>2, ImageKept DEF VerdictHeld, Scanners
    <3>. QED BY <1>1, <2>2, <3>1
  <2>. QED BY <2>1, <2>2
<1>2. CASE DriverStep \/ UNCHANGED vars
  BY <1>1, <1>2 DEF DriverStep, vars, serviceVars
<1>3. CASE ServiceStep
  <2>1. CASE ServiceExit
    BY <2>1 DEF ServiceExit
  <2>. QED
    BY <1>1, <1>3, <2>1 DEF ServiceStep, ServiceStart, MonitorStart,
       ServiceGone, MonitorTake, scanVars
<1>4. ASSUME NEW p \in Procs, HandlerStep(p) PROVE VerdictReal'
  BY <1>0, <1>1, <1>4, HandlerFrame
<1>5. ASSUME NEW s \in Scanners, ScanStep(s) PROVE VerdictReal'
  <2>1. verdict'[s] => verdict[s] \/ ImageOf(s) \in Bad
    BY <1>0, <1>5 DEF ScanStep, DeepLocal, DeepCloud, DeepFinal, ScanPublish,
       ScanErase, Conclude, TypeOK, Bad
  <2>2. ImageOf(s)' = ImageOf(s)
    BY <1>5, ScanFrame
  <2>. QED BY <1>0, <1>1, <1>5, <2>1, <2>2, ScannerFrame, ScanFrame
<1>6. CASE OnDemandStep
  <2>1. verdict'[Gui] => ImageOf(Gui)' \in Bad
    BY <1>0, <1>6 DEF OnDemandStep, OnDemandStart, OnDemandFast, OnDemandDb,
       OnDemandFinish, Conclude, TypeOK, JobReal, JobKnown, Books, CacheReal,
       FastThreat, VerdictHeld
  <2>2. \A s \in Procs : verdict'[s] = verdict[s] /\ imageOf'[s] = imageOf[s]
    BY <1>0, <1>6, ClientFrame, OnDemandFrame
  <2>. QED BY <1>0, <2>1, <2>2 DEF Scanners
<1>. QED BY <1>2, <1>3, <1>4, <1>5, <1>6 DEF Next

LEMMA KillRealStep ==
  ASSUME Books, KillReal, CacheReal, VerdictReal, FutureServed, [Next]_vars
  PROVE  KillReal'
<1>0. TypeOK /\ Gui \notin Procs
  BY ServiceAssumption DEF Books
<1>. SUFFICES ASSUME NEW p \in Procs, hpc'[p] \in {"db", "kill"}
              PROVE  imageOf'[p] \in Bad
  BY DEF KillReal
<1>1. CASE hpc[p] = hpc'[p]
  BY <1>1, ImageKept DEF KillReal
<1>2. CASE HandlerStep(p)
  <2>1. imageOf' = imageOf /\ imageOf[p] \in Images
    BY <1>0, <1>2, ServiceFrame, HandlerFrame, ImageKept
  <2>2. ASSUME hpc[p] \in Waiting, verdict[fut[p]] PROVE imageOf[p] \in Bad
    <3>1. fut[p] \in Procs /\ imageOf[fut[p]] = imageOf[p]
      BY <2>2 DEF FutureServed
    <3>. QED BY <1>0, <2>2, <3>1 DEF VerdictReal, ImageOf, Scanners
  <2>. USE <1>0, <2>1 DEF GoTo, TypeOK
  <2>3. CASE HandlerFast(p)
    BY <2>3 DEF HandlerFast, FastThreat, CacheReal, Bad
  <2>4. CASE HandlerDb(p)
    BY <2>4 DEF HandlerDb, KillReal
  <2>5. CASE HandlerWait(p)
    BY <2>2, <2>5 DEF HandlerWait, Waiting
  <2>6. CASE HandlerLate(p)
    BY <2>2, <2>6 DEF HandlerLate, Waiting
  <2>7. CASE HandlerResume(p)
    BY <2>7 DEF HandlerResume
  <2>8. CASE HandlerKill(p)
    BY <2>8 DEF HandlerKill
  <2>. QED
    BY <1>2, <2>3, <2>4, <2>5, <2>6, <2>7, <2>8
       DEF HandlerStep, HandlerShare, HandlerLaunch, HandlerFile
<1>3. CASE ~HandlerStep(p)
  <2>1. ASSUME NEW q \in Procs, HandlerStep(q) PROVE hpc'[p] = hpc[p]
    BY <1>0, <1>3, <2>1, HandlerFrame
  <2>2. ASSUME DriverStep \/ UNCHANGED vars PROVE hpc'[p] = hpc[p]
    BY <2>2 DEF DriverStep, vars, serviceVars
  <2>3. ASSUME ServiceStep PROVE hpc'[p] = hpc[p]
    BY <1>0, <2>3 DEF ServiceStep, ServiceStart, MonitorStart, ServiceExit,
       ServiceGone, MonitorTake, GoTo, TypeOK, Abandoned
  <2>. QED BY <1>1, <2>1, <2>2, <2>3, ScanFrame, OnDemandFrame DEF Next
<1>. QED BY <1>2, <1>3

-----------------------------------------------------------------------------
(* The invariant and what follows from it.                                 *)

LEMMA NoOrphanStep ==
  ASSUME Books, SuspendedPresent, NoOrphan, [Next]_vars
  PROVE  NoOrphan'
<1>0. TypeOK
  BY DEF Books
<1>1. CASE OnDemandStep \/ UNCHANGED vars
  BY <1>1, OnDemandFrame DEF NoOrphan, Announced, vars, driverVars, serviceVars
<1>2. ASSUME NEW s \in Scanners, ScanStep(s) PROVE NoOrphan'
  BY <1>2, ScanFrame DEF NoOrphan, Announced
<1>. QED
  BY <1>0, <1>1, <1>2, NoOrphanDriver, NoOrphanService, NoOrphanHandler DEF Next

LEMMA IndInvInit == Init => IndInv
<1>. SUFFICES ASSUME Init PROVE IndInv
  OBVIOUS
<1>1. SuspendedPresent /\ PidsUnique /\ VerdictHeld /\ JobReal /\ NoOrphan
  BY DEF Init, DriverInit, ServiceInit, SuspendedPresent, PidsUnique,
     VerdictHeld, JobReal, NoOrphan, Scanners
<1>2. PendingExact /\ FutureServed
  BY DriverAssumption
     DEF Init, ServiceInit, PendingExact, FutureServed, InFlight, Waiting,
         Scanners
<1>3. ThreatsAreReal
  BY DEF Init, ServiceInit, ThreatsAreReal
<1>. QED BY <1>1, <1>2, <1>3, BooksInit DEF IndInv

LEMMA IndInvStep == IndInv /\ [Next]_vars => IndInv'
<1>. SUFFICES ASSUME IndInv, [Next]_vars PROVE IndInv'
  OBVIOUS
<1>1. Books' /\ SuspendedPresent' /\ PidsUnique'
  BY BooksStep, SuspendedStep, PidsStep DEF IndInv, Books
<1>2. VerdictHeld' /\ JobReal' /\ NoOrphan'
  BY VerdictHeldStep, JobRealStep, NoOrphanStep DEF IndInv
<1>3. PendingExact' /\ FutureServed'
  BY PendingStep, FutureStep DEF IndInv
<1>4. ThreatsAreReal'
  <2>1. CacheReal /\ VerdictReal /\ KillReal
    BY DEF IndInv, ThreatsAreReal, CacheReal, VerdictReal, KillReal
  <2>2. CacheReal' /\ VerdictReal' /\ KillReal'
    BY <2>1, CacheRealStep, VerdictRealStep, KillRealStep DEF IndInv
  <2>. QED BY <2>2 DEF ThreatsAreReal, CacheReal, VerdictReal, KillReal
<1>. QED BY <1>1, <1>2, <1>3, <1>4 DEF IndInv

LEMMA IndInvAlways == Spec => []IndInv
BY IndInvInit, IndInvStep, PTL DEF Spec

(* A suspended process is announced or in the hands of a handler, unless a *)
(* failure named in NoOrphan left it behind.                               *)
THEOREM NobodyForgotten == Spec => []NoOrphan
<1>1. IndInv => NoOrphan
  BY DEF IndInv
<1>. QED BY <1>1, IndInvAlways, PTL

(* One real-time deep scan per hash, and its entry exactly while it runs.  *)
THEOREM PendingIsExact == Spec => []PendingExact
<1>1. IndInv => PendingExact
  BY DEF IndInv
<1>. QED BY <1>1, IndInvAlways, PTL

(* Every future a handler waits on is its image's, and will be ready.      *)
THEOREM FuturesAreServed == Spec => []FutureServed
<1>1. IndInv => FutureServed
  BY DEF IndInv
<1>. QED BY <1>1, IndInvAlways, PTL

(* No image is convicted for another.                                      *)
THEOREM OnlyThreatsConvicted == Spec => []ThreatsAreReal
<1>1. IndInv => ThreatsAreReal
  BY DEF IndInv
<1>. QED BY <1>1, IndInvAlways, PTL

-----------------------------------------------------------------------------
(* What is sure to be convicted.  It holds where a thread can always be    *)
(* started, and where no deep scan on demand goes past the hash database   *)
(* with an image that only the database knows.                             *)
NothingSkipped ==
  /\ "spawn" \notin Faults
  /\ KnownBad \subseteq YaraKill \cup Signed \/ "deep" \notin ScanDepths

Certain == (KnownBad \cup YaraKill) \ Signed

CacheExact == \A im \in Certain : cache[im] # "clean"

(* Only images that the hash database does not know get past it.           *)
JoinUnknown == \A p \in Procs : hpc[p] = "join" => imageOf[p] \notin KnownBad

(* A scan reaches the sandbox with uncertain images only, and acquits a    *)
(* certain one only because its file is gone.                              *)
ScanExact ==
  \A s \in Scanners :
    LET im == ImageOf(s) IN
    /\ spc[s] # "broken"
    /\ im \in Certain =>
         /\ spc[s] = "local" => im \in YaraKill
         /\ spc[s] \notin {"cloud", "final"}
         /\ spc[s] \in {"publish", "erase", "done"} => verdict[s] \/ im \in removed

PassExact ==
  \A p \in Procs :
    hpc[p] = "resume" /\ imageOf[p] \in Certain => imageOf[p] \in removed

CertainInv == CacheExact /\ JoinUnknown /\ ScanExact /\ PassExact

LEMMA RemovedStays == ASSUME [Next]_vars PROVE removed \subseteq removed'
<1>1. CASE DriverStep \/ ServiceStep \/ UNCHANGED vars
  BY <1>1 DEF DriverStep, ServiceStep, ServiceStart, MonitorStart,
     ServiceExit, ServiceGone, MonitorTake, scanVars, vars, serviceVars
<1>2. ASSUME NEW p \in Procs, HandlerStep(p) PROVE removed \subseteq removed'
  BY <1>2 DEF HandlerStep, HandlerFast, HandlerDb, HandlerShare,
     HandlerLaunch, HandlerWait, HandlerResume, HandlerLate, HandlerKill,
     HandlerFile, ApplyFileVerdict, scanVars
<1>3. CASE OnDemandStep
  BY <1>3 DEF OnDemandStep, OnDemandStart, OnDemandFast, OnDemandDb,
     OnDemandFinish, ApplyFileVerdict
<1>. QED BY <1>1, <1>2, <1>3, ScanFrame DEF Next

(* Whatever moves a handler but its own step only starts or ends it.       *)
LEMMA HandlerTurns ==
  ASSUME TypeOK, [Next]_vars, NEW p \in Procs
  PROVE  \/ hpc'[p] = hpc[p]
         \/ HandlerStep(p)
         \/ hpc'[p] \in {"fast", "skipped", "dead"}
<1>1. ASSUME NEW q \in Procs, HandlerStep(q), q # p PROVE hpc'[p] = hpc[p]
  BY <1>1, HandlerFrame
<1>2. ASSUME DriverStep \/ UNCHANGED vars PROVE hpc'[p] = hpc[p]
  BY <1>2 DEF DriverStep, vars, serviceVars
<1>3. ASSUME ServiceStep
      PROVE  hpc'[p] = hpc[p] \/ hpc'[p] \in {"fast", "skipped", "dead"}
  BY <1>3 DEF ServiceStep, ServiceStart, MonitorStart, ServiceExit,
     ServiceGone, MonitorTake, GoTo, TypeOK
<1>. QED BY <1>1, <1>2, <1>3, ScanFrame, OnDemandFrame DEF Next

LEMMA CacheExactStep ==
  ASSUME Books, CacheExact, ScanExact, [Next]_vars
  PROVE  CacheExact'
<1>. USE DEF CacheExact
<1>0. TypeOK /\ Certain \subseteq Images
  BY ServiceAssumption DEF Books, Certain
<1>1. CASE DriverStep \/ UNCHANGED vars
  BY <1>1 DEF DriverStep, vars, serviceVars
<1>2. CASE ServiceStep
  BY <1>0, <1>2 DEF ServiceStep, ServiceStart, MonitorStart, ServiceExit,
     ServiceGone, MonitorTake, scanVars
<1>3. ASSUME NEW p \in Procs, HandlerStep(p) PROVE CacheExact'
  <2>1. CASE HandlerDb(p)
    BY <1>0, <2>1 DEF HandlerDb, CacheResult, TypeOK
  <2>2. CASE ~HandlerDb(p)
    BY <1>3, <2>2 DEF HandlerStep, HandlerFast, HandlerShare, HandlerLaunch,
       HandlerWait, HandlerResume, HandlerLate, HandlerKill, HandlerFile,
       scanVars
  <2>. QED BY <2>1, <2>2
<1>4. ASSUME NEW s \in Scanners, ScanStep(s) PROVE CacheExact'
  <2>. DEFINE cached(v) == cache' = [cache EXCEPT ![ImageOf(s)] = v]
  <2>0. ASSUME \/ UNCHANGED cache
               \/ cached("threat")
               \/ ImageOf(s) \notin Certain /\ cached("clean")
        PROVE  CacheExact'
    BY <1>0, <2>0 DEF TypeOK
  <2>1. CASE DeepLocal(s)
    BY <2>0, <2>1 DEF DeepLocal, CacheResult, ScanExact
  <2>2. CASE DeepCloud(s)
    BY <2>0, <2>2 DEF DeepCloud, CacheResult, ScanExact
  <2>3. CASE DeepFinal(s)
    BY <2>0, <2>3 DEF DeepFinal, CacheResult, ScanExact
  <2>4. CASE ScanPublish(s) \/ ScanErase(s)
    BY <2>0, <2>4 DEF ScanPublish, ScanErase
  <2>. QED BY <1>4, <2>1, <2>2, <2>3, <2>4 DEF ScanStep
<1>5. CASE OnDemandStep
  BY <1>0, <1>5 DEF OnDemandStep, OnDemandStart, OnDemandFast, OnDemandDb,
     OnDemandFinish, CacheResult, TypeOK
<1>. QED BY <1>1, <1>2, <1>3, <1>4, <1>5 DEF Next

LEMMA JoinUnknownStep ==
  ASSUME Books, JoinUnknown, [Next]_vars
  PROVE  JoinUnknown'
<1>0. TypeOK
  BY DEF Books
<1>. SUFFICES ASSUME NEW p \in Procs, hpc'[p] = "join"
              PROVE  imageOf'[p] \notin KnownBad
  BY DEF JoinUnknown
<1>1. CASE hpc[p] = hpc'[p]
  BY <1>1, ImageKept DEF JoinUnknown
<1>2. CASE HandlerStep(p)
  <2>1. imageOf' = imageOf
    BY <1>2, ServiceFrame
  <2>2. CASE HandlerFast(p)
    BY <1>0, <2>1, <2>2 DEF HandlerFast, GoTo, TypeOK
  <2>3. CASE HandlerResume(p) \/ HandlerWait(p) \/ HandlerLate(p)
    BY <1>0, <2>3 DEF HandlerResume, HandlerWait, HandlerLate, GoTo, TypeOK
  <2>. QED
    BY <1>0, <1>2, <2>2, <2>3 DEF HandlerStep, HandlerDb, HandlerShare,
       HandlerLaunch, HandlerKill, HandlerFile, GoTo, TypeOK
<1>. QED BY <1>0, <1>1, <1>2, HandlerTurns

LEMMA ScanExactStep ==
  ASSUME NothingSkipped, Books, CertainInv, [Next]_vars
  PROVE  ScanExact'
<1>0. /\ TypeOK /\ Gui \in Scanners /\ Gui \notin Procs
      /\ removed \subseteq removed'
      /\ ScanExact /\ JoinUnknown /\ CacheExact
  BY ServiceAssumption, RemovedStays DEF Books, Scanners, CertainInv
<1>. DEFINE Exact(s) ==
       /\ spc[s] # "broken"
       /\ ImageOf(s) \in Certain =>
            /\ spc[s] = "local" => ImageOf(s) \in YaraKill
            /\ spc[s] \notin {"cloud", "final"}
            /\ spc[s] \in {"publish", "erase", "done"} =>
                 verdict[s] \/ ImageOf(s) \in removed
<1>a. ScanExact <=> \A s \in Scanners : Exact(s)
  BY DEF ScanExact
<1>b. ScanExact' <=> \A s \in Scanners : Exact(s)'
  BY DEF ScanExact
<1>1. ASSUME NEW s \in Scanners, guiJob' = guiJob,
             spc'[s] = spc[s], verdict'[s] = verdict[s]
      PROVE  Exact(s)'
  <2>1. CASE s = Gui
    BY <1>0, <1>a, <1>1, <2>1 DEF ImageOf
  <2>2. CASE s # Gui /\ spc[s] # "none"
    <3>1. imageOf'[s] = imageOf[s]
      BY <2>2, ImageKept DEF Scanners
    <3>. QED BY <1>0, <1>a, <1>1, <2>2, <3>1 DEF ImageOf
  <2>3. CASE spc[s] = "none"
    BY <1>1, <2>3
  <2>. QED BY <2>1, <2>2, <2>3
<1>2. CASE DriverStep \/ UNCHANGED vars
  BY <1>1, <1>2, <1>b DEF DriverStep, vars, serviceVars
<1>3. CASE ServiceStep
  <2>1. CASE ServiceExit
    BY <1>b, <2>1 DEF ServiceExit
  <2>. QED
    BY <1>1, <1>b, <1>3, <2>1 DEF ServiceStep, ServiceStart, MonitorStart,
       ServiceGone, MonitorTake, scanVars
<1>4. ASSUME NEW p \in Procs, HandlerStep(p) PROVE ScanExact'
  <2>1. p \in Scanners /\ p # Gui /\ imageOf' = imageOf
    BY <1>0, <1>4, ServiceFrame DEF Scanners
  <2>2. CASE HandlerLaunch(p)
    <3>1. spc'[p] = "local" /\ imageOf[p] \notin KnownBad
      BY <1>0, <2>1, <2>2 DEF HandlerLaunch, ScanTo, TypeOK, JoinUnknown,
         NothingSkipped
    <3>2. Exact(p)'
      BY <2>1, <3>1 DEF ImageOf, Certain
    <3>. QED BY <1>0, <1>1, <1>b, <1>4, <3>2, HandlerFrame
  <2>. QED BY <1>0, <1>1, <1>b, <1>4, <2>1, <2>2, HandlerFrame
<1>5. ASSUME NEW s \in Scanners, ScanStep(s) PROVE ScanExact'
  <2>1. ImageOf(s)' = ImageOf(s) /\ removed' = removed
    BY <1>5, ScanFrame DEF ImageOf
  <2>2. Exact(s)
    BY <1>0, <1>a
  <2>3. /\ spc'[s] \notin {"broken", "local"}
        /\ ImageOf(s) \in Certain =>
             /\ spc'[s] \notin {"cloud", "final"}
             /\ spc'[s] \in {"publish", "erase", "done"} =>
                  verdict'[s] \/ ImageOf(s) \in removed
    <3>. USE <1>0, <2>2 DEF TypeOK, ScanTo, Conclude
    <3>1. CASE DeepLocal(s)
      BY <3>1 DEF DeepLocal
    <3>2. CASE DeepCloud(s)
      BY <3>2 DEF DeepCloud
    <3>3. CASE DeepFinal(s)
      BY <3>3 DEF DeepFinal
    <3>4. CASE ScanPublish(s) \/ ScanErase(s)
      BY <3>4 DEF ScanPublish, ScanErase
    <3>. QED BY <1>5, <3>1, <3>2, <3>3, <3>4 DEF ScanStep
  <2>4. Exact(s)'
    BY <2>1, <2>3
  <2>. QED BY <1>0, <1>1, <1>b, <1>5, <2>4, ScannerFrame, ScanFrame
<1>6. CASE OnDemandStep
  <2>. USE <1>0 DEF TypeOK, ScanTo, ImageOf
  <2>1. ASSUME NEW im \in Images, NEW depth \in ScanDepths,
               OnDemandStart(im, depth)
        PROVE  Exact(Gui)'
    BY <2>1 DEF OnDemandStart, NothingSkipped, Certain
  <2>2. Exact(Gui)
    BY <1>a
  <2>3. ASSUME OnDemandFast PROVE Exact(Gui)'
    <3>. DEFINE im == guiJob.image
    <3>1. guiJob' = guiJob /\ removed' = removed
      BY <2>3 DEF OnDemandFast
    <3>2. im \in Certain =>
            \/ spc'[Gui] = "db"
            \/ spc'[Gui] = "local" /\ im \in YaraKill
            \/ spc'[Gui] = "publish" /\ (verdict'[Gui] \/ im \in removed)
      <4>1. CASE FastClean(im)
        BY <2>3, <4>1 DEF OnDemandFast, Conclude, FastClean, FastMiss,
           FastThreat, Undecidable, CacheExact, Certain
      <4>2. CASE FastThreat(im)
        BY <2>3, <4>2 DEF OnDemandFast, Conclude, FastClean, FastMiss,
           FastThreat
      <4>3. CASE FastMiss(im)
        BY <2>3, <4>3 DEF OnDemandFast, Conclude, FastClean, FastMiss,
           FastThreat, Certain
      <4>. QED BY <2>3, <4>1, <4>2, <4>3 DEF OnDemandFast
    <3>3. spc'[Gui] # "broken" /\ spc'[Gui] \in {"publish", "db", "local"}
      BY <2>3 DEF OnDemandFast, Conclude
    <3>. QED BY <3>1, <3>2, <3>3
  <2>4. ASSUME OnDemandDb PROVE Exact(Gui)'
    <3>1. spc'[Gui] = "publish" /\ verdict'[Gui]
      BY <2>4 DEF OnDemandDb, Conclude
    <3>. QED BY <3>1
  <2>5. ASSUME OnDemandFinish PROVE Exact(Gui)'
    <3>1. spc'[Gui] = "none"
      BY <2>5 DEF OnDemandFinish
    <3>. QED BY <3>1
  <2>6. Exact(Gui)'
    BY <1>6, <2>1, <2>3, <2>4, <2>5 DEF OnDemandStep
  <2>7. ASSUME NEW s \in Procs PROVE Exact(s)'
    <3>1. /\ s \in Scanners /\ s # Gui /\ imageOf' = imageOf
          /\ spc'[s] = spc[s] /\ verdict'[s] = verdict[s]
      BY <1>6, ClientFrame, OnDemandFrame DEF Scanners
    <3>. QED BY <1>a, <3>1
  <2>. QED BY <1>b, <2>6, <2>7 DEF Scanners
<1>. QED BY <1>2, <1>3, <1>4, <1>5, <1>6 DEF Next

LEMMA PassExactStep ==
  ASSUME NothingSkipped, Books, FutureServed, CertainInv, [Next]_vars
  PROVE  PassExact'
<1>0. /\ TypeOK /\ Gui \notin Procs /\ removed \subseteq removed'
      /\ ScanExact /\ PassExact /\ CacheExact
  BY ServiceAssumption, RemovedStays DEF Books, CertainInv
<1>. SUFFICES ASSUME NEW p \in Procs, hpc'[p] = "resume", imageOf'[p] \in Certain
              PROVE  imageOf'[p] \in removed'
  BY DEF PassExact
<1>1. CASE hpc[p] = hpc'[p]
  BY <1>0, <1>1, ImageKept DEF PassExact
<1>2. CASE HandlerStep(p)
  <2>1. imageOf' = imageOf
    BY <1>2, ServiceFrame
  <2>. USE <1>0, <2>1 DEF GoTo, TypeOK
  <2>2. CASE HandlerFast(p)
    BY <2>2 DEF HandlerFast, FastClean, FastThreat, FastMiss, Undecidable,
       CacheExact, Certain
  <2>3. CASE HandlerWait(p)
    <3>1. /\ fut[p] \in Procs /\ imageOf[fut[p]] = imageOf[p]
          /\ Ready(fut[p]) /\ ~verdict[fut[p]]
      BY <2>3 DEF HandlerWait, FutureServed, Waiting
    <3>2. fut[p] \in Scanners /\ ImageOf(fut[p]) = imageOf[p]
      BY <3>1 DEF Scanners, ImageOf
    <3>3. spc[fut[p]] \in {"erase", "done"}
      BY <3>1, <3>2 DEF Ready, ScanExact
    <3>. QED BY <3>1, <3>2, <3>3 DEF ScanExact
  <2>4. ~HandlerLaunch(p)
    BY DEF HandlerLaunch, NothingSkipped
  <2>5. CASE HandlerResume(p)
    BY <2>5 DEF HandlerResume, NothingSkipped
  <2>6. CASE HandlerLate(p)
    BY <2>6 DEF HandlerLate
  <2>. QED
    BY <1>2, <2>2, <2>3, <2>4, <2>5, <2>6 DEF HandlerStep, HandlerDb,
       HandlerShare, HandlerKill, HandlerFile
<1>. QED BY <1>0, <1>1, <1>2, HandlerTurns

(* What hash database or YARA convict is never cached clean, and passes    *)
(* only when its file is gone (fastScan, deepScan, handleProcessStarted).  *)
THEOREM ConvictsHeld ==
  ASSUME NothingSkipped
  PROVE  Spec => []CleanOnlyIfRemoved
<1>1. Init => CertainInv
  BY ServiceAssumption
     DEF Init, ServiceInit, CertainInv, CacheExact, JoinUnknown, ScanExact,
         PassExact, Certain
<1>2. IndInv /\ CertainInv /\ [Next]_vars => CertainInv'
  <2>. SUFFICES ASSUME IndInv, CertainInv, [Next]_vars PROVE CertainInv'
    OBVIOUS
  <2>. QED
    BY CacheExactStep, JoinUnknownStep, ScanExactStep, PassExactStep
       DEF IndInv, CertainInv
<1>3. CertainInv => CleanOnlyIfRemoved
  BY DEF CertainInv, CacheExact, PassExact, CleanOnlyIfRemoved, Certain
<1>. QED BY <1>1, <1>2, <1>3, IndInvAlways, PTL DEF Spec

-----------------------------------------------------------------------------
(* What becomes of the convicts.                                           *)

Ended(p) == pstate[p] \in {"ending", "gone"}

(* A process that is past its creation callback.                           *)
Out(p) == pstate[p] = "live" \/ Ended(p)

(* Only those are announced and handled, and a kill that succeeds leaves   *)
(* none of its handler's process.                                          *)
QueueOut == \A i \in 1..Len(queue) : Out(queue[i].proc)
HandledOut == \A p \in Procs : hpc[p] # "none" => Out(p)
KilledEnded == \A p \in Procs : hpc[p] = "file" => Ended(p)

EndInv == QueueOut /\ HandledOut /\ KilledEnded

LEMMA OutStays ==
  ASSUME TypeOK, [Next]_vars, NEW p \in Procs
  PROVE  (Out(p) => Out(p)') /\ (Ended(p) => Ended(p)')
<1>. USE DEF TypeOK, DriverTypeOK, Out, Ended
<1>1. CASE DriverStep
  BY <1>1 DEF DriverStep, DriverEnvNext, ProcessCreate, HookReadService,
     HookSuspend, HookEnqueue, ProcessExit, HookExit
<1>2. CASE ServiceStep
  BY <1>2 DEF ServiceStep, ServiceStart, RegisterService, MonitorStart,
     ServiceExit, ServiceGone, HookServiceExit, MonitorTake,
     DequeueNotification, driverVars
<1>3. ASSUME NEW q \in Procs, HandlerStep(q)
      PROVE  (Out(p) => Out(p)') /\ (Ended(p) => Ended(p)')
  BY <1>3, ServiceFrame DEF ResumeByPid, KillByPid
<1>4. CASE UNCHANGED vars
  BY <1>4 DEF vars, driverVars
<1>. QED BY <1>1, <1>2, <1>3, <1>4, ScanFrame, OnDemandFrame DEF Next

(* Who is announced comes out of its callback, or ends.                    *)
LEMMA AnnouncedOut ==
  ASSUME TypeOK, [Next]_vars
  PROVE  \/ queue' = queue
         \/ queue # <<>> /\ queue' = Tail(queue)
         \/ \E p \in Procs, c \in BOOLEAN :
              /\ Out(p)'
              /\ queue' = Append(queue, [proc |-> p, created |-> c])
<1>1. CASE DriverStep
  <2>1. ASSUME NEW p \in Procs, HookEnqueue(p) \/ HookExit(p)
        PROVE  \/ queue' = queue
               \/ \E c \in BOOLEAN :
                    /\ Out(p)'
                    /\ queue' = Append(queue, [proc |-> p, created |-> c])
    BY <2>1 DEF HookEnqueue, HookExit, Enqueue, Out, Ended, TypeOK, DriverTypeOK
  <2>. QED
    BY <1>1, <2>1 DEF DriverStep, DriverEnvNext, ProcessCreate,
       HookReadService, HookSuspend, ProcessExit
<1>2. CASE ~DriverStep
  BY <1>2, ServiceFrame, ScanFrame, OnDemandFrame
     DEF Next, ServiceStep, ServiceStart, RegisterService, MonitorStart,
         ServiceExit, ServiceGone, HookServiceExit, MonitorTake,
         DequeueNotification, vars, driverVars
<1>. QED BY <1>1, <1>2

LEMMA QueueOutStep ==
  ASSUME TypeOK, QueueOut, [Next]_vars
  PROVE  QueueOut'
<1>1. queue \in Seq(Notification)
  BY DEF TypeOK, DriverTypeOK
<1>2. \A i \in 1..Len(queue) : pstate'[queue[i].proc] \in {"live", "ending", "gone"}
  <2>. SUFFICES ASSUME NEW i \in 1..Len(queue)
                PROVE  pstate'[queue[i].proc] \in {"live", "ending", "gone"}
    OBVIOUS
  <2>1. queue[i] \in Notification
    BY <1>1
  <2>2. queue[i].proc \in Procs /\ Out(queue[i].proc)
    BY <2>1 DEF Notification, QueueOut
  <2>3. \A p \in Procs : Out(p) => Out(p)'
    BY OutStays
  <2>. QED BY <2>2, <2>3 DEF Out, Ended
<1>3. CASE queue' = queue
  BY <1>2, <1>3 DEF QueueOut, Out, Ended
<1>4. CASE queue # <<>> /\ queue' = Tail(queue)
  <2>1. \A i \in 1..Len(queue') : queue'[i] = queue[i + 1] /\ i + 1 \in 1..Len(queue)
    BY <1>1, <1>4
  <2>. QED BY <1>2, <2>1 DEF QueueOut, Out, Ended
<1>5. ASSUME NEW p \in Procs, NEW c \in BOOLEAN, Out(p)',
             queue' = Append(queue, [proc |-> p, created |-> c])
      PROVE  QueueOut'
  <2>1. \A i \in 1..Len(queue') :
          \/ i \in 1..Len(queue) /\ queue'[i] = queue[i]
          \/ queue'[i] = [proc |-> p, created |-> c]
    BY <1>1, <1>5
  <2>. QED BY <1>2, <1>5, <2>1 DEF QueueOut, Out, Ended
<1>. QED BY <1>3, <1>4, <1>5, AnnouncedOut

LEMMA EndInvStep ==
  ASSUME IndInv, EndInv, [Next]_vars
  PROVE  EndInv'
<1>0. TypeOK /\ PidsUnique /\ QueueOut /\ HandledOut /\ KilledEnded
  BY DEF IndInv, Books, EndInv
<1>1. QueueOut'
  BY <1>0, QueueOutStep
<1>2. HandledOut'
  <2>. SUFFICES ASSUME NEW p \in Procs, hpc'[p] # "none" PROVE Out(p)'
    BY DEF HandledOut
  <2>1. CASE hpc[p] # "none"
    BY <1>0, <2>1, OutStays DEF HandledOut
  <2>2. CASE hpc[p] = "none"
    <3>1. MonitorTake
      <4>1. ~HandlerStep(p)
        BY <1>0, <2>2, HandlerFrame
      <4>2. ASSUME NEW q \in Procs, HandlerStep(q), q # p PROVE FALSE
        BY <1>0, <2>2, <4>2, HandlerFrame
      <4>. QED
        BY <2>2, <4>1, <4>2, ScanFrame, OnDemandFrame
           DEF Next, DriverStep, ServiceStep, ServiceStart, MonitorStart,
               ServiceExit, ServiceGone, vars, serviceVars
    <3>2. queue # <<>> /\ Head(queue).proc = p
      BY <1>0, <2>2, <3>1 DEF MonitorTake, DequeueNotification, GoTo, TypeOK
    <3>3. Out(p)
      BY <1>0, <3>2 DEF QueueOut, TypeOK, DriverTypeOK
    <3>. QED BY <1>0, <3>3, OutStays
  <2>. QED BY <2>1, <2>2
<1>3. KilledEnded'
  <2>. SUFFICES ASSUME NEW p \in Procs, hpc'[p] = "file" PROVE Ended(p)'
    BY DEF KilledEnded
  <2>1. CASE hpc[p] = "file"
    BY <1>0, <2>1, OutStays DEF KilledEnded
  <2>2. CASE HandlerKill(p)
    <3>1. Out(p)
      BY <1>0, <2>2 DEF HandlerKill, HandledOut
    <3>2. CASE KillByPid(p)
      <4>1. CASE pstate[p] = "live"
        <5>1. p \in Answering(p)
          BY <4>1 DEF Answering, Present
        <5>. QED BY <3>2, <4>1, <5>1 DEF KillByPid, Ended
      <4>. QED BY <1>0, <3>1, <4>1, OutStays DEF Out
    <3>3. CASE GoTo(p, "fileFailed")
      BY <1>0, <3>3 DEF GoTo, TypeOK
    <3>. QED BY <2>2, <3>2, <3>3 DEF HandlerKill
  <2>3. CASE HandlerStep(p) /\ ~HandlerKill(p)
    BY <1>0, <2>1, <2>3
       DEF HandlerStep, HandlerFast, HandlerDb, HandlerShare, HandlerLaunch,
           HandlerWait, HandlerResume, HandlerLate, HandlerFile, GoTo, TypeOK
  <2>. QED BY <1>0, <2>1, <2>2, <2>3, HandlerTurns
<1>. QED BY <1>1, <1>2, <1>3 DEF EndInv

LEMMA ConvictsEndedStep ==
  ASSUME NothingSkipped, IndInv, CertainInv, EndInv, ConvictsEnded, [Next]_vars
  PROVE  ConvictsEnded'
<1>0. /\ TypeOK /\ FutureServed /\ ScanExact /\ PassExact /\ KilledEnded
      /\ removed \subseteq removed'
  BY RemovedStays DEF IndInv, Books, CertainInv, EndInv
<1>. SUFFICES ASSUME NEW p \in Procs, hpc'[p] = "done", imageOf'[p] \in Certain
              PROVE  Ended(p)' \/ imageOf'[p] \in removed'
  BY DEF ConvictsEnded, Certain, Ended
<1>1. CASE hpc[p] = "done"
  <2>1. imageOf'[p] = imageOf[p]
    BY <1>1, ImageKept DEF IndInv
  <2>. QED
    BY <1>0, <1>1, <2>1, OutStays DEF ConvictsEnded, Certain, Ended
<1>2. CASE HandlerStep(p)
  <2>1. imageOf' = imageOf
    BY <1>2, ServiceFrame
  <2>2. CASE hpc[p] = "file"
    BY <1>0, <2>2, OutStays DEF KilledEnded
  <2>3. CASE HandlerResume(p)
    <3>1. hpc[p] = "resume"
      BY <1>0, <2>3 DEF HandlerResume, GoTo, TypeOK
    <3>. QED BY <1>0, <2>1, <3>1 DEF PassExact
  <2>4. CASE HandlerLate(p)
    <3>1. /\ fut[p] \in Procs /\ imageOf[fut[p]] = imageOf[p] /\ Ready(fut[p])
          /\ spc[fut[p]] = "broken" \/ ~verdict[fut[p]]
      BY <1>0, <2>4 DEF HandlerLate, FutureServed, Waiting, GoTo, TypeOK
    <3>2. fut[p] \in Scanners /\ ImageOf(fut[p]) = imageOf[p]
      BY <3>1, ServiceAssumption DEF Scanners, ImageOf
    <3>3. spc[fut[p]] \in {"erase", "done"} /\ ~verdict[fut[p]]
      BY <1>0, <3>1, <3>2 DEF Ready, ScanExact
    <3>. QED BY <1>0, <2>1, <3>2, <3>3 DEF ScanExact
  <2>. QED
    BY <1>0, <1>2, <2>2, <2>3, <2>4
       DEF HandlerStep, HandlerFast, HandlerDb, HandlerShare, HandlerLaunch,
           HandlerWait, HandlerKill, HandlerFile, GoTo, TypeOK
<1>. QED BY <1>0, <1>1, <1>2, HandlerTurns

(* The service is done with a convict only when the process has ended, or  *)
(* its file is gone: ConvictsEnded, the safety half of ConvictsAreKilled,  *)
(* under every failure but that of starting a thread.                      *)
THEOREM ConvictsDie ==
  ASSUME NothingSkipped
  PROVE  Spec => []ConvictsEnded
<1>1. Init => CertainInv /\ EndInv /\ ConvictsEnded
  BY ServiceAssumption
     DEF Init, DriverInit, ServiceInit, CertainInv, CacheExact, JoinUnknown,
         ScanExact, PassExact, Certain, EndInv, QueueOut, HandledOut,
         KilledEnded, ConvictsEnded
<1>2. IndInv /\ CertainInv /\ EndInv /\ ConvictsEnded /\ [Next]_vars
        => CertainInv' /\ EndInv' /\ ConvictsEnded'
  <2>. SUFFICES ASSUME IndInv, CertainInv, EndInv, ConvictsEnded, [Next]_vars
                PROVE  CertainInv' /\ EndInv' /\ ConvictsEnded'
    OBVIOUS
  <2>1. CertainInv'
    BY CacheExactStep, JoinUnknownStep, ScanExactStep, PassExactStep
       DEF IndInv, CertainInv
  <2>. QED BY <2>1, EndInvStep, ConvictsEndedStep
<1>. QED BY <1>1, <1>2, IndInvAlways, PTL DEF Spec

-----------------------------------------------------------------------------
(* Who is killed.                                                          *)

LEMMA StruckByPid ==
  ASSUME IndInv, [Next]_vars, NEW p \in Procs, NEW q \in Procs,
         hpc[p] = "kill", hpc'[p] = "file",
         pstate[q] = "live", pstate'[q] = "ending"
  PROVE  imageOf[p] \in Bad /\ pidOf[q] = pidOf[p] /\ (q = p \/ pstate[p] = "gone")
<1>1. TypeOK /\ PidsUnique /\ AbsentIdle
  BY DEF IndInv, Books
<1>2. HandlerKill(p)
  <2>1. HandlerStep(p)
    BY <1>1, HandlerTurns
  <2>. QED
    BY <2>1 DEF HandlerStep, HandlerFast, HandlerDb, HandlerShare, HandlerLaunch,
       HandlerWait, HandlerResume, HandlerLate, HandlerFile
<1>3. KillByPid(p)
  BY <1>1, <1>2 DEF HandlerKill, GoTo, KillFails, driverVars, TypeOK
<1>4. q \in Answering(p)
  BY <1>3 DEF KillByPid
<1>5. pidOf[q] = pidOf[p]
  BY <1>4 DEF Answering
<1>6. pstate[p] # "absent"
  BY <1>1 DEF AbsentIdle
<1>7. pstate[p] # "gone" => q = p
  BY <1>1, <1>5, <1>6 DEF PidsUnique
<1>8. imageOf[p] \in Bad
  BY DEF IndInv, ThreatsAreReal
<1>. QED BY <1>5, <1>7, <1>8

(* A wrong kill takes a process that ended under its handler and another   *)
(* one with its pid; the image was malicious in any case (killAndCleanup). *)
THEOREM KillsAreByPid == Spec => KillsByPid
<1>1. IndInv /\ [Next]_vars =>
        [\A p, q \in Procs :
           /\ hpc[p] = "kill" /\ hpc'[p] = "file"
           /\ pstate[q] = "live" /\ pstate'[q] = "ending"
           => /\ imageOf[p] \in Bad
              /\ pidOf[q] = pidOf[p]
              /\ q = p \/ pstate[p] = "gone"]_vars
  BY StruckByPid
<1>. QED BY <1>1, IndInvAlways, PTL DEF Spec, KillsByPid

(* No process has had the pid of another.                                  *)
PidsOwn ==
  \A p, q \in Procs :
    pstate[p] # "absent" /\ pstate[q] # "absent" /\ pidOf[p] = pidOf[q] => p = q

(* Reuse of a pid is the only way to a wrong kill: as long as no pid is    *)
(* used twice the service kills exactly what it scanned, through every     *)
(* failure of driver and service and however late the verdict comes.       *)
THEOREM KillsWhatItScanned == Spec /\ []PidsOwn => KillsTheScanned
<1>1. IndInv /\ PidsOwn /\ [Next]_vars =>
        [\A p, q \in Procs :
           /\ hpc[p] = "kill" /\ hpc'[p] = "file"
           /\ pstate[q] = "live" /\ pstate'[q] = "ending"
           => q = p /\ imageOf[q] \in Bad]_vars
  <2>. SUFFICES ASSUME IndInv, PidsOwn, [Next]_vars, NEW p \in Procs, NEW q \in Procs,
                       hpc[p] = "kill", hpc'[p] = "file",
                       pstate[q] = "live", pstate'[q] = "ending"
                PROVE  q = p /\ imageOf[q] \in Bad
    OBVIOUS
  <2>1. pstate[p] # "absent"
    BY DEF IndInv, Books, AbsentIdle
  <2>2. imageOf[p] \in Bad /\ pidOf[q] = pidOf[p]
    BY StruckByPid
  <2>. QED BY <2>1, <2>2 DEF PidsOwn
<1>. QED BY <1>1, IndInvAlways, PTL DEF Spec, KillsTheScanned

-----------------------------------------------------------------------------
(* Who is suspended.                                                       *)

(* Without an end of the service the registration is never stale, and no   *)
(* callback outlives it.                                                   *)
RegistrationLive ==
  /\ registered => svc \in {"loading", "running"}
  /\ svc \in {"down", "loading", "running"}
  /\ \A p \in Procs : pstate[p] = "suspending" => registered

LEMMA RegistrationStep ==
  ASSUME "crash" \notin Faults, TypeOK, RegistrationLive, [Next]_vars
  PROVE  RegistrationLive'
<1>. USE DEF RegistrationLive
<1>1. CASE UNCHANGED vars
  BY <1>1 DEF vars, driverVars, serviceVars
<1>2. CASE DriverStep
  BY <1>2 DEF DriverStep, DriverEnvNext, ProcessCreate, HookReadService, HookSuspend,
     HookEnqueue, Enqueue, ProcessExit, HookExit, serviceVars, TypeOK, DriverTypeOK
<1>3. CASE ServiceStep
  BY <1>3 DEF ServiceStep, ServiceStart, RegisterService, MonitorStart, ServiceExit,
     ServiceGone, MonitorTake, DequeueNotification, driverVars
<1>4. ASSUME NEW p \in Procs, HandlerStep(p) PROVE RegistrationLive'
  <2>1. UNCHANGED <<registered, svc>>
    BY <1>4, ServiceFrame DEF HandlerStep, HandlerFast, HandlerDb, HandlerShare,
       HandlerLaunch, HandlerWait, HandlerResume, HandlerLate, HandlerKill, HandlerFile
  <2>2. \A q \in Procs : pstate'[q] \in {pstate[q], "ending"}
    BY <1>4, ServiceFrame DEF ResumeByPid, KillByPid
  <2>. QED BY <2>1, <2>2
<1>5. ASSUME NEW s \in Scanners, ScanStep(s) PROVE RegistrationLive'
  <2>1. UNCHANGED <<pstate, registered, svc>>
    BY <1>5 DEF ScanStep, DeepLocal, DeepCloud, DeepFinal, ScanPublish, ScanErase, driverVars
  <2>. QED BY <2>1
<1>6. CASE OnDemandStep
  <2>1. UNCHANGED <<pstate, registered, svc>>
    BY <1>6 DEF OnDemandStep, OnDemandStart, OnDemandFast, OnDemandDb, OnDemandFinish,
       driverVars
  <2>. QED BY <2>1
<1>. QED BY <1>1, <1>2, <1>3, <1>4, <1>5, <1>6 DEF Next

(* Only the end of a service makes the driver suspend for nobody, through  *)
(* a callback that saw it or a registration it leaves behind: as long as   *)
(* none ends, the driver does what its comment says, whatever else fails   *)
(* (Hooks.cpp, the process notify routine).                                *)
THEOREM SuspendsForAService ==
  ASSUME "crash" \notin Faults
  PROVE  Spec => SuspendsOnlyWithService
<1>1. Init => RegistrationLive
  BY DEF Init, DriverInit, ServiceInit, RegistrationLive
<1>2. TypeOK /\ RegistrationLive /\ [Next]_vars => RegistrationLive'
  BY RegistrationStep
<1>3. RegistrationLive /\ [Next]_vars =>
        [\A p \in Procs :
           p \in suspended' \ suspended => svc \in {"loading", "running"}]_vars
  <2>. SUFFICES ASSUME RegistrationLive, [Next]_vars, NEW p \in Procs,
                       p \in suspended', p \notin suspended
                PROVE  pstate[p] = "suspending"
    BY DEF RegistrationLive
  <2>1. CASE DriverStep
    BY <2>1 DEF DriverStep, DriverEnvNext, ProcessCreate, HookReadService, HookSuspend,
       HookEnqueue, Enqueue, ProcessExit, HookExit
  <2>2. CASE ServiceStep \/ UNCHANGED vars
    BY <2>2 DEF ServiceStep, ServiceStart, RegisterService, MonitorStart, ServiceExit,
       ServiceGone, HookServiceExit, MonitorTake, DequeueNotification, vars, driverVars
  <2>3. ASSUME NEW q \in Procs, HandlerStep(q) PROVE FALSE
    BY <2>3, ServiceFrame DEF ResumeByPid, KillByPid
  <2>. QED
    BY <2>1, <2>2, <2>3, ScanFrame, OnDemandFrame DEF Next
<1>. QED BY <1>1, <1>2, <1>3, TypeCorrect, PTL DEF Spec, SuspendsOnlyWithService
=============================================================================
