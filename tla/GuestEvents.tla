----------------------------- MODULE GuestEvents -----------------------------
(***************************************************************************)
(* The normalised events of the guest's ProcessMonitor and what the thread *)
(* helpers read off them.  An event is its fields: a name stands for the   *)
(* names that containsI looks for, an object for the path patterns, None   *)
(* for a field that is absent or 0.                                        *)
(***************************************************************************)
EXTENDS Naturals

CONSTANTS
  Events,             \* the normalised events that may be analysed
  Pids, Tids, Images,
  None,
  Lsass               \* the images named lsass.exe

Fields == {"name", "provider", "task", "id", "pid", "tid", "src", "tgt",
           "ttid", "proc", "image", "simage", "timage", "succeeded",
           "suspicious", "object"}

(* What the normalisation of a Sysmon record leaves out: it has no event   *)
(* and no task name, so only the type of a registry event names it.        *)
SysmonShape(e) ==
  e.provider = "Sysmon" => e.task = None /\ e.name \in {None, "SetValue"}

ASSUME EventsAssumption ==
  /\ Pids \subseteq Nat
  /\ None \notin Pids \cup Tids \cup Images
  /\ Lsass \subseteq Images
  /\ None \notin {"OpenProcess", "OpenThread", "CreateRemoteThread", "QueueUserAPC",
                  "SuspendThread", "SetThreadContext", "ResumeThread",
                  "Thread", "Thread/Start"}
  /\ \A e \in Events :
       /\ DOMAIN e = Fields
       /\ {e.pid, e.src, e.tgt, e.proc} \subseteq Pids \cup {None}
       /\ {e.tid, e.ttid} \subseteq Tids \cup {None}
       /\ {e.image, e.simage, e.timage} \subseteq Images \cup {None}
       /\ {e.succeeded, e.suspicious} \subseteq BOOLEAN
       /\ SysmonShape(e)

-----------------------------------------------------------------------------
ProcessAccess(e) ==
  \/ e.name \in {"OpenProcess", "OpenThread"}
  \/ e.provider = "KernelAudit" /\ e.id \in {5, 6} /\ e.succeeded

CreatesRemoteThread(e) == e.name = "CreateRemoteThread"
QueuesApc(e) == e.name = "QueueUserAPC"
Suspends(e) == e.name = "SuspendThread"
ChangesContext(e) == e.name = "SetThreadContext"
Resumes(e) == e.name = "ResumeThread"

(* Any record of the Thread task with a process and a thread passes for a  *)
(* thread start, one that reports a thread's end included.                 *)
StartsThread(e) ==
  \/ e.name = "Thread/Start"
  \/ e.task = "Thread" /\ e.proc # None /\ e.ttid # None

HintsInjection(e) ==
  e.provider = "ThreatIntel" \/ CreatesRemoteThread(e)

(* Sysmon and the kernel report the same write; only the pattern of the    *)
(* key counts, and a key of the user's hive needs no further sign.         *)
PersistsRunKey(e) ==
  \/ e.object = "SoftwareRunKey"
  \/ e.object = "RunKey" /\ (e.name \in {"SetValue", "CreateService",
                                         "CreateRemoteThread"}
                             \/ e.provider = "Registry")

PersistsTask(e) ==
  \/ e.object \in {"TaskName", "TaskFile"}
  \/ e.provider = "TaskScheduler" /\ e.name \in {"RegisterTask",
                                                 "CreateRemoteThread",
                                                 "CreateService"}

PersistsService(e) ==
  \/ e.object = "ServiceKey"
  \/ e.provider = "Services" /\ e.name = "CreateService"

SeqTid(e) == IF e.ttid # None THEN e.ttid ELSE e.tid

(* Two processes, both known.                                              *)
Crosses(e) == e.src # None /\ e.tgt # None /\ e.src # e.tgt

(* then is recent at now; 0 is the epoch, "never".                         *)
Within(window, then, now) == then # 0 /\ then <= now /\ now <= then + window
=============================================================================
