---------------------------- MODULE KernelDriver ----------------------------
(***************************************************************************)
(* The Aydo kernel driver as the endpoint service sees it: the process     *)
(* notify routine, which suspends every process created while a service is *)
(* registered, the FIFO of process notifications, and the IOCTLs that      *)
(* register the service and that take, resume and kill.                    *)
(*                                                                         *)
(* The notify routine runs in the creating (or the exiting) thread, so     *)
(* callbacks of different processes interleave: the read of g_servicePID,  *)
(* the suspension and the enqueue are separate steps.  A process is known  *)
(* to user mode by its pid only, and a pid is free for reuse once its      *)
(* process is gone.                                                        *)
(***************************************************************************)
EXTENDS Naturals, Sequences, FiniteSets

CONSTANTS
  Procs,        \* process instances; each is created at most once
  Pids,         \* process identifiers, reusable
  Images,       \* executable images; an image stands for its path and hash
  Quarantined,  \* images whose path lies in the quarantine directory
  None,         \* no process, no pid, no image
  Faults        \* the failures this instance admits

ASSUME DriverAssumption ==
  /\ Quarantined \subseteq Images
  /\ None \notin Procs \cup Pids \cup Images

VARIABLES
  pstate,      \* where each process instance is in its life
  suspended,   \* the instances whose suspend count is not zero
  pidOf,       \* the pid of an instance, once created
  imageOf,     \* the image of an instance, once created
  registered,  \* g_servicePID # nullptr
  queue        \* g_ProcessNotificationQueue

driverVars == <<pstate, suspended, pidOf, imageOf, registered, queue>>

-----------------------------------------------------------------------------
(* A process is inside its creation callback in the states of Hooked.      *)

Hooked == {"entered", "suspending", "queueing"}
PStates == {"absent", "live", "ending", "gone"} \cup Hooked

(* Processes PsLookupProcessByProcessId can still find.                    *)
Present(p) == pstate[p] \in Hooked \cup {"live"}

Notification == [proc : Procs, created : BOOLEAN]

DriverTypeOK ==
  /\ pstate \in [Procs -> PStates]
  /\ suspended \subseteq Procs
  /\ pidOf \in [Procs -> Pids \cup {None}]
  /\ imageOf \in [Procs -> Images \cup {None}]
  /\ registered \in BOOLEAN
  /\ queue \in Seq(Notification)

DriverInit ==
  /\ pstate = [p \in Procs |-> "absent"]
  /\ suspended = {}
  /\ pidOf = [p \in Procs |-> None]
  /\ imageOf = [p \in Procs |-> None]
  /\ registered = FALSE
  /\ queue = <<>>

(* Mutant: the notification carries the pid in the place of the process.   *)
EnqueuePid(p, isCreated) ==
  queue' = Append(queue, [proc |-> pidOf[p], created |-> isCreated])

(* InsertTailList under the queue lock.                                    *)
Enqueue(p, isCreated) ==
  queue' = Append(queue, [proc |-> p, created |-> isCreated])

-----------------------------------------------------------------------------
(* The notify routine for a process being created.                         *)

(* The kernel creates p with a free pid and calls the routine.  When the   *)
(* notification cannot be allocated the routine returns at once: p runs,   *)
(* neither suspended nor announced.                                        *)
ProcessCreate(p, pid, im) ==
  /\ pstate[p] = "absent"
  /\ \A q \in Procs : pidOf[q] = pid => pstate[q] \in {"absent", "gone"}
  /\ pidOf' = [pidOf EXCEPT ![p] = pid]
  /\ imageOf' = [imageOf EXCEPT ![p] = im]
  /\ \/ pstate' = [pstate EXCEPT ![p] = "entered"]
     \/ /\ "alloc" \in Faults
        /\ pstate' = [pstate EXCEPT ![p] = "live"]
  /\ UNCHANGED <<suspended, registered, queue>>

(* The unlocked read of g_servicePID that decides whether to suspend.      *)
HookReadService(p) ==
  /\ pstate[p] = "entered"
  /\ pstate' = [pstate EXCEPT ![p] = IF registered THEN "suspending"
                                                   ELSE "queueing"]
  /\ UNCHANGED <<suspended, pidOf, imageOf, registered, queue>>

(* Mutant: the suspension may trail the announcement.                      *)
HookSuspendTrailing(p) ==
  /\ pstate[p] \in {"suspending", "live"}
  /\ pstate' = [pstate EXCEPT ![p] = IF @ = "live" THEN "live" ELSE "queueing"]
  /\ suspended' = suspended \cup {p}
  /\ UNCHANGED <<pidOf, imageOf, registered, queue>>

(* suspendProcess; its status is ignored by the routine.                   *)
HookSuspend(p) ==
  /\ pstate[p] = "suspending"
  /\ pstate' = [pstate EXCEPT ![p] = "queueing"]
  /\ \/ suspended' = suspended \cup {p}
     \/ /\ "suspend" \in Faults
        /\ UNCHANGED suspended
  /\ UNCHANGED <<pidOf, imageOf, registered, queue>>

(* The rest of the routine: creation is denied for a quarantined image,    *)
(* and the notification is queued in either case.                          *)
HookEnqueue(p) ==
  /\ pstate[p] = "queueing"
  /\ Enqueue(p, TRUE)
  /\ IF imageOf[p] \in Quarantined
       THEN /\ pstate' = [pstate EXCEPT ![p] = "ending"]
            /\ suspended' = suspended \ {p}
       ELSE /\ pstate' = [pstate EXCEPT ![p] = "live"]
            /\ UNCHANGED suspended
  /\ UNCHANGED <<pidOf, imageOf, registered>>

-----------------------------------------------------------------------------
(* Termination, and the notify routine for a terminating process.          *)

(* A process exits, or somebody other than Aydo terminates it.             *)
ProcessExit(p) ==
  /\ pstate[p] = "live"
  /\ pstate' = [pstate EXCEPT ![p] = "ending"]
  /\ suspended' = suspended \ {p}
  /\ UNCHANGED <<pidOf, imageOf, registered, queue>>

HookExit(p) ==
  /\ pstate[p] = "ending"
  /\ pstate' = [pstate EXCEPT ![p] = "gone"]
  /\ \/ Enqueue(p, FALSE)
     \/ /\ "alloc" \in Faults
        /\ UNCHANGED queue
  /\ UNCHANGED <<suspended, pidOf, imageOf, registered>>

(* The same routine for the service's own process.  The protected service  *)
(* is cleared only past the allocation: when that fails, g_servicePID      *)
(* keeps naming a process that is no more.                                 *)
HookServiceExit ==
  /\ \/ registered' = FALSE
     \/ /\ "alloc" \in Faults
        /\ UNCHANGED registered
  /\ UNCHANGED <<pstate, suspended, pidOf, imageOf, queue>>

-----------------------------------------------------------------------------
(* The IOCTLs.                                                             *)

RegisterService ==
  /\ registered' = TRUE
  /\ UNCHANGED <<pstate, suspended, pidOf, imageOf, queue>>

(* IOCTL_GET_PROCESS_NOTIFICATION on a queue that is not empty.            *)
DequeueNotification ==
  /\ queue # <<>>
  /\ queue' = Tail(queue)
  /\ UNCHANGED <<pstate, suspended, pidOf, imageOf, registered>>

(* The instance that answers to the pid p was announced under.             *)
Answering(p) == {q \in Procs : Present(q) /\ pidOf[q] = pidOf[p]}

(* IOCTL_RESUME_PROCESS with p's pid: resumes whoever has that pid now.    *)
ResumeByPid(p) ==
  /\ Answering(p) # {}
  /\ suspended' = suspended \ Answering(p)
  /\ UNCHANGED <<pstate, pidOf, imageOf, registered, queue>>

(* It fails when no process has the pid, or when PsResumeProcess does.     *)
ResumeFails(p) ==
  /\ Answering(p) = {} \/ "resume" \in Faults
  /\ UNCHANGED driverVars

(* IOCTL_KILL_PROCESS with p's pid: terminates whoever has that pid now,   *)
(* unless it is critical, protected or gone.  A process still inside its   *)
(* creation callback is taken to refuse termination.                       *)
KillByPid(p) ==
  LET victims == {q \in Answering(p) : pstate[q] = "live"} IN
  /\ victims # {}
  /\ pstate' = [q \in Procs |-> IF q \in victims THEN "ending" ELSE pstate[q]]
  /\ suspended' = suspended \ victims
  /\ UNCHANGED <<pidOf, imageOf, registered, queue>>

KillFails(p) ==
  /\ \/ \A q \in Answering(p) : pstate[q] # "live"
     \/ "kill" \in Faults
  /\ UNCHANGED driverVars

(* Everything the driver and the machine do of their own accord.           *)
DriverEnvNext ==
  \E p \in Procs :
    \/ \E pid \in Pids, im \in Images : ProcessCreate(p, pid, im)
    \/ HookReadService(p)
    \/ HookSuspend(p)
    \/ HookEnqueue(p)
    \/ ProcessExit(p)
    \/ HookExit(p)
=============================================================================
