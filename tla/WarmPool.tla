------------------------------ MODULE WarmPool ------------------------------
(***************************************************************************)
(* VMRunner and its pool of warm sandboxes.  The server starts a VMRunner  *)
(* process per dynamic scan and one that prepares the pool; an operator    *)
(* may start one that prepares a single sandbox.  The processes share a    *)
(* directory: a sandbox is locked by making a directory, its state is a    *)
(* file inside the sandbox's own directory, and the virtual machines are   *)
(* driven by vmrun commands.  The lock covers the reading and writing of   *)
(* a state file only, not the work in the sandbox.                         *)
(*                                                                         *)
(* A scan that finds no ready warm sandbox uses a dedicated one, named by  *)
(* the hash of its sample; the result is always left in that directory.    *)
(***************************************************************************)
EXTENDS Naturals

CONSTANTS
  WarmCount,    \* WARM_SANDBOX_COUNT
  Samples,      \* hashes of samples, which name the dedicated sandboxes
  Scans,        \* VMRunner processes that run a scan, reused
  Preloaders,   \* VMRunner processes started by warmUpPoolAsync, reused
  Operators,    \* VMRunner --prepare, started by hand, reused
  None,
  Faults,       \* the failures this instance admits
  MaxBoots      \* bound: how often a server is started

Warm == 1..WarmCount
Boxes == Warm \cup Samples
Runners == Scans \cup Preloaders \cup Operators

ASSUME PoolAssumption ==
  /\ WarmCount \in Nat
  /\ MaxBoots \in Nat
  /\ Warm \cap Samples = {}
  /\ Scans \cap Preloaders = {}
  /\ Operators \cap (Scans \cup Preloaders) = {}
  /\ None \notin Runners \cup Samples

VARIABLES
  pc,        \* where a runner is
  at,        \* the warm sandbox a runner looks at, or one past the last
  job,       \* the sample of a scan
  outcome,   \* what a runner decided under the lock, or marks when it is done
  lock,      \* the warm sandboxes whose lock directory exists
  state,     \* the .warm-state file; no file is "cold"
  vm,        \* a sandbox's machine: none, off or on
  guest,     \* the samples that ran in a machine since it was cloned
  monitor,   \* the machines with the monitor running
  logs,      \* whose behaviour the log in a sandbox's shared directory tells
  waited,    \* the runners a server thread waits for
  warming,   \* the server's warmupRunning
  boots      \* how often a server was started

boxVars == <<vm, guest, monitor, logs>>
poolVars == <<lock, state>>
serverVars == <<waited, warming, boots>>
vars == <<pc, at, job, outcome, poolVars, boxVars, serverVars>>

-----------------------------------------------------------------------------
(* In Critical a runner holds the lock of the sandbox it looks at.         *)
Critical == {"claimRead", "poolRead", "markWrite", "unlock"}
EnvPcs == {"clone", "start", "tools"}
ScanPcs == {"payload", "run", "verify", "copy", "stop", "failStop"}
Pcs == Critical \cup EnvPcs \cup ScanPcs
         \cup {"idle", "claim", "pool", "wipe", "remove", "mark", "exit"}

Outcomes == {"none", "skip", "take", "preparing", "ready", "cold", "failed"}

(* A scan looks at warm sandboxes until it is past the last.               *)
BoxOf(u) == IF at[u] \in Warm THEN at[u] ELSE job[u]

TypeOK ==
  /\ pc \in [Runners -> Pcs]
  /\ at \in [Runners -> 1..(WarmCount + 1)]
  /\ job \in [Runners -> Samples \cup {None}]
  /\ outcome \in [Runners -> Outcomes]
  /\ lock \subseteq Warm
  /\ state \in [Warm -> {"cold", "preparing", "ready", "busy", "failed"}]
  /\ vm \in [Boxes -> {"none", "off", "on"}]
  /\ guest \in [Boxes -> SUBSET Samples]
  /\ monitor \subseteq Boxes
  /\ logs \in [Boxes -> (SUBSET Samples) \cup {None}]
  /\ waited \subseteq Scans \cup Preloaders
  /\ warming \in BOOLEAN
  /\ boots \in 0..MaxBoots

(* The server starts with a pool to prepare and nothing on the disk.       *)
Init ==
  /\ pc = [u \in Runners |-> "idle"]
  /\ at = [u \in Runners |-> 1]
  /\ job = [u \in Runners |-> None]
  /\ outcome = [u \in Runners |-> "none"]
  /\ lock = {}
  /\ state = [w \in Warm |-> "cold"]
  /\ vm = [b \in Boxes |-> "none"]
  /\ guest = [b \in Boxes |-> {}]
  /\ monitor = {}
  /\ logs = [b \in Boxes |-> None]
  /\ waited = {}
  /\ warming = FALSE
  /\ boots = 0

GoTo(u, next) == pc' = [pc EXCEPT ![u] = next]
Decide(u, d, next) ==
  /\ outcome' = [outcome EXCEPT ![u] = d]
  /\ GoTo(u, next)

(* The faults: "io" (a file operation fails), "lost" (what a state file    *)
(* says is lost, and nobody told), "vmrun" (a vmrun command fails or       *)
(* cannot tell the power state), "crash" (a process dies).                 *)
Admits(fault) == fault \in Faults

-----------------------------------------------------------------------------
(* The lock: tryAcquire and release.                                       *)

Locked(w) == w \in lock

(* Mutant: the lock directory is made without looking whether it exists.   *)
AcquireAlways(u, next) ==
  /\ lock' = lock \cup {at[u]}
  /\ GoTo(u, next)

(* create_directory makes the lock for one runner only.                    *)
Acquire(u, next) ==
  /\ ~Locked(at[u])
  /\ lock' = lock \cup {at[u]}
  /\ GoTo(u, next)

(* What follows the release, or a mark that was dropped.                   *)
NextPc(u) ==
  CASE outcome[u] = "preparing" -> "wipe"
    [] outcome[u] = "take" -> "clone"
    [] outcome[u] = "skip" -> IF u \in Scans THEN "claim" ELSE "pool"
    [] OTHER -> IF u \in Preloaders THEN "pool" ELSE "exit"

(* The pool is walked in order.                                            *)
Proceed(u) ==
  /\ GoTo(u, NextPc(u))
  /\ at' = [at EXCEPT ![u] = IF NextPc(u) \in {"claim", "pool"} THEN @ + 1
                                                                ELSE @]

(* The lock directory is removed; an error is ignored and leaves it.       *)
Unlock(u) ==
  /\ pc[u] = "unlock"
  /\ \/ lock' = lock \ {at[u]}
     \/ Admits("io") /\ UNCHANGED lock
  /\ Proceed(u)
  /\ UNCHANGED <<job, outcome, state, boxVars, serverVars>>

(* readWarmSandboxState: a file that cannot be opened reads as cold.       *)
Reads(w) == {state[w]} \cup (IF Admits("lost") THEN {"cold"} ELSE {})

(* writeWarmSandboxState empties the file, and the new state is in it only *)
(* after the function has reported success; an empty file reads as cold.   *)
Emptied(w) == [state EXCEPT ![w] = "cold"]
Written(w, st) ==
  \/ state' = [state EXCEPT ![w] = st]
  \/ Admits("lost") /\ state' = Emptied(w)

-----------------------------------------------------------------------------
(* claimReadyWarmSandbox.                                                  *)

ClaimLock(s) ==
  /\ pc[s] = "claim"
  /\ \/ /\ at[s] \in Warm
        /\ Acquire(s, "claimRead")
        /\ UNCHANGED at
     \/ /\ at[s] \in Warm
        /\ Locked(at[s])
        /\ at' = [at EXCEPT ![s] = @ + 1]
        /\ UNCHANGED <<pc, lock>>
     \/ /\ at[s] \notin Warm
        /\ GoTo(s, "clone")
        /\ UNCHANGED <<at, lock>>
  /\ UNCHANGED <<job, outcome, state, boxVars, serverVars>>

(* Mutant: a claim takes any sandbox that is not busy.                     *)
ClaimIdle(s) ==
  LET w == at[s] IN
  /\ pc[s] = "claimRead"
  /\ IF state[w] # "busy"
       THEN Written(w, "busy") /\ Decide(s, "take", "unlock")
       ELSE UNCHANGED state /\ Decide(s, "skip", "unlock")
  /\ UNCHANGED <<at, job, lock, boxVars, serverVars>>

(* Mutant: a sandbox that is not ready is passed by with its lock in hand. *)
ClaimReadKeeps(s) ==
  LET w == at[s] IN
  /\ pc[s] = "claimRead"
  /\ \/ /\ state[w] = "ready"
        /\ Written(w, "busy")
        /\ Decide(s, "take", "unlock")
        /\ UNCHANGED at
     \/ /\ Admits("io") \/ \E st \in Reads(w) : st # "ready"
        /\ at' = [at EXCEPT ![s] = @ + 1]
        /\ UNCHANGED state
        /\ Decide(s, "skip", "claim")
  /\ UNCHANGED <<job, lock, boxVars, serverVars>>

ClaimRead(s) ==
  LET w == at[s] IN
  /\ pc[s] = "claimRead"
  /\ \/ /\ state[w] = "ready"
        /\ Written(w, "busy")
        /\ Decide(s, "take", "unlock")
     \/ /\ Admits("io") \/ \E st \in Reads(w) : st # "ready"
        /\ UNCHANGED state
        /\ Decide(s, "skip", "unlock")
  /\ UNCHANGED <<at, job, lock, boxVars, serverVars>>

-----------------------------------------------------------------------------
(* prepareWarmPool.                                                        *)

PoolLock(p) ==
  /\ pc[p] = "pool"
  /\ \/ /\ at[p] \in Warm
        /\ Acquire(p, "poolRead")
        /\ UNCHANGED at
     \/ /\ at[p] \in Warm
        /\ Locked(at[p])
        /\ at' = [at EXCEPT ![p] = @ + 1]
        /\ UNCHANGED <<pc, lock>>
     \/ /\ at[p] \notin Warm
        /\ GoTo(p, "exit")
        /\ UNCHANGED <<at, lock>>
  /\ UNCHANGED <<job, outcome, state, boxVars, serverVars>>

(* A sandbox that is ready is prepared again.                              *)
PoolRead(p) ==
  LET w == at[p] IN
  /\ pc[p] = "poolRead"
  /\ \/ /\ \E st \in Reads(w) : st \notin {"busy", "preparing"}
        /\ Written(w, "preparing")
        /\ Decide(p, "preparing", "unlock")
     \/ /\ state[w] \in {"busy", "preparing"} \/ Admits("io")
        /\ UNCHANGED state
        /\ Decide(p, "skip", "unlock")
  /\ UNCHANGED <<at, job, lock, boxVars, serverVars>>

-----------------------------------------------------------------------------
(* Mutant: a dedicated sandbox is marked as well.                          *)
MarkAny(u) ==
  /\ pc[u] = "mark"
  /\ ~Locked(BoxOf(u))
  /\ lock' = lock \cup {BoxOf(u)}
  /\ GoTo(u, "markWrite")
  /\ UNCHANGED <<at, job, outcome, state, boxVars, serverVars>>

(* markWarmSandboxState: without the lock the mark is silently dropped.    *)

Mark(u) ==
  /\ pc[u] = "mark"
  /\ \/ /\ at[u] \in Warm
        /\ Acquire(u, "markWrite")
        /\ UNCHANGED at
     \/ /\ at[u] \in Warm
        /\ Locked(at[u]) \/ Admits("io")
        /\ Proceed(u)
        /\ UNCHANGED lock
     \/ /\ at[u] \notin Warm
        /\ GoTo(u, "exit")
        /\ UNCHANGED <<at, lock>>
  /\ UNCHANGED <<job, outcome, state, boxVars, serverVars>>

MarkWrite(u) ==
  /\ pc[u] = "markWrite"
  /\ \/ Written(at[u], outcome[u])
     \/ Admits("io") /\ UNCHANGED state
  /\ GoTo(u, "unlock")
  /\ UNCHANGED <<at, job, outcome, lock, boxVars, serverVars>>

-----------------------------------------------------------------------------
(* The work in a sandbox, by whoever believes it is theirs.                *)

Fail(u) ==
  IF u \in Scans THEN GoTo(u, "failStop") /\ UNCHANGED outcome
                 ELSE Decide(u, "failed", "mark")

(* vmrun stop, soft and then hard.                                         *)
PowerOff(b) ==
  /\ vm' = [vm EXCEPT ![b] = IF @ = "on" THEN "off" ELSE @]
  /\ monitor' = monitor \ {b}

(* stopSandboxIfRunning: it succeeds without effect when the power state   *)
(* cannot be told, and fails when the machine cannot be stopped or cannot  *)
(* be seen to have stopped.                                                *)
StopIgnored == Admits("vmrun") /\ UNCHANGED <<vm, monitor>>
StopFails(b) == Admits("vmrun") /\ (PowerOff(b) \/ UNCHANGED <<vm, monitor>>)

(* prepareWarmSandbox: stop the machine.                                   *)
Wipe(u) ==
  /\ pc[u] = "wipe"
  /\ \/ /\ PowerOff(at[u]) \/ StopIgnored
        /\ GoTo(u, "remove")
        /\ UNCHANGED outcome
     \/ /\ StopFails(at[u])
        /\ Fail(u)
  /\ UNCHANGED <<at, job, poolVars, guest, logs, serverVars>>

(* Mutant: the directory of an earlier preparation is kept.                *)
RemoveNothing(u) ==
  /\ pc[u] = "remove"
  /\ GoTo(u, "clone")
  /\ UNCHANGED <<at, job, outcome, lock, state, boxVars, serverVars>>

(* prepareWarmSandbox: remove the directory, and with it the state file.   *)
(* The files of a machine that still runs cannot be removed.               *)
Remove(u) ==
  LET w == at[u] IN
  /\ pc[u] = "remove"
  /\ \/ /\ vm[w] # "on"
        /\ vm' = [vm EXCEPT ![w] = "none"]
        /\ guest' = [guest EXCEPT ![w] = {}]
        /\ logs' = [logs EXCEPT ![w] = None]
        /\ state' = Emptied(w)
        /\ GoTo(u, "clone")
        /\ UNCHANGED outcome
     \/ /\ vm[w] = "on" \/ Admits("io")
        /\ state' \in {state, Emptied(w)}
        /\ Fail(u)
        /\ UNCHANGED <<vm, guest, logs>>
  /\ UNCHANGED <<at, job, lock, monitor, serverVars>>

(* prepareSandboxEnvironment: clone if there is no machine.                *)
Clone(u) ==
  LET b == BoxOf(u) IN
  /\ pc[u] = "clone"
  /\ \/ /\ vm' = [vm EXCEPT ![b] = IF @ = "none" THEN "off" ELSE @]
        /\ guest' = [guest EXCEPT ![b] = IF vm[b] = "none" THEN {} ELSE @]
        /\ GoTo(u, "start")
        /\ UNCHANGED outcome
     \/ /\ \/ vm[b] = "none" /\ Admits("vmrun")
           \/ Admits("io")
        /\ Fail(u)
        /\ UNCHANGED <<vm, guest>>
  /\ UNCHANGED <<at, job, poolVars, monitor, logs, serverVars>>

(* prepareSandboxEnvironment: start the machine if it does not run.        *)
Start(u) ==
  LET b == BoxOf(u) IN
  /\ pc[u] = "start"
  /\ \/ /\ vm[b] # "none"
        /\ vm' = [vm EXCEPT ![b] = "on"]
        /\ GoTo(u, "tools")
        /\ UNCHANGED outcome
     \/ /\ vm[b] = "none" \/ Admits("vmrun")
        /\ Fail(u)
        /\ UNCHANGED vm
  /\ UNCHANGED <<at, job, poolVars, guest, monitor, logs, serverVars>>

(* The rest of prepareSandboxEnvironment needs a running guest.            *)
Tools(u) ==
  /\ pc[u] = "tools"
  /\ \/ /\ vm[BoxOf(u)] = "on"
        /\ IF u \in Scans THEN GoTo(u, "payload") /\ UNCHANGED outcome
                          ELSE Decide(u, "ready", "mark")
     \/ /\ vm[BoxOf(u)] # "on" \/ Admits("vmrun")
        /\ Fail(u)
  /\ UNCHANGED <<at, job, poolVars, boxVars, serverVars>>

-----------------------------------------------------------------------------
(* runScan past the preparation.                                           *)

(* The log of an earlier run is removed and the sample copied.             *)
Payload(s) ==
  LET b == BoxOf(s) IN
  /\ pc[s] = "payload"
  /\ \/ logs' = [logs EXCEPT ![b] = None]
     \/ Admits("io") /\ UNCHANGED logs
  /\ \/ /\ vm[b] = "on"
        /\ GoTo(s, "run")
        /\ UNCHANGED outcome
     \/ /\ vm[b] # "on" \/ Admits("vmrun")
        /\ Fail(s)
  /\ UNCHANGED <<at, job, poolVars, vm, guest, monitor, serverVars>>

(* The monitor is started in the guest, then the sample.                   *)
Run(s) ==
  LET b == BoxOf(s) IN
  /\ pc[s] = "run"
  /\ \/ /\ vm[b] = "on"
        /\ monitor' = monitor \cup {b}
        /\ guest' = [guest EXCEPT ![b] = @ \cup {job[s]}]
        /\ GoTo(s, "verify")
        /\ UNCHANGED outcome
     \/ /\ vm[b] # "on" \/ Admits("vmrun")
        /\ Fail(s)
        /\ IF vm[b] = "on" THEN monitor' \in {monitor, monitor \cup {b}}
                           ELSE UNCHANGED monitor
        /\ UNCHANGED guest
  /\ UNCHANGED <<at, job, poolVars, vm, logs, serverVars>>

(* After the running time the log must be there.                           *)
Verify(s) ==
  /\ pc[s] = "verify"
  /\ \/ /\ logs[BoxOf(s)] # None
        /\ GoTo(s, "copy")
        /\ UNCHANGED outcome
     \/ /\ logs[BoxOf(s)] = None
        /\ Fail(s)
  /\ UNCHANGED <<at, job, poolVars, boxVars, serverVars>>

(* copyWarmSandboxResult; a dedicated sandbox has the log where it belongs.*)
Copy(s) ==
  LET b == BoxOf(s) IN
  /\ pc[s] = "copy"
  /\ \/ /\ b = job[s] \/ logs[b] # None
        /\ logs' = [logs EXCEPT ![job[s]] = logs[b]]
        /\ GoTo(s, "stop")
        /\ UNCHANGED outcome
     \/ /\ b # job[s]
        /\ logs[b] = None \/ Admits("io")
        /\ Fail(s)
        /\ UNCHANGED logs
  /\ UNCHANGED <<at, job, poolVars, vm, guest, monitor, serverVars>>

Stop(s) ==
  /\ pc[s] = "stop"
  /\ \/ /\ PowerOff(BoxOf(s)) \/ StopIgnored
        /\ Decide(s, "cold", "mark")
     \/ /\ StopFails(BoxOf(s))
        /\ Fail(s)
  /\ UNCHANGED <<at, job, poolVars, guest, logs, serverVars>>

(* failRun: the machine is stopped if that works.                          *)
FailStop(s) ==
  /\ pc[s] = "failStop"
  /\ PowerOff(BoxOf(s)) \/ StopIgnored
  /\ Decide(s, "failed", "mark")
  /\ UNCHANGED <<at, job, poolVars, guest, logs, serverVars>>

(* The monitor in the guest writes what the samples in that guest do.      *)
GuestLog(b) ==
  /\ b \in monitor
  /\ logs' = [logs EXCEPT ![b] = guest[b]]
  /\ UNCHANGED <<pc, at, job, outcome, poolVars, vm, guest, monitor, serverVars>>

-----------------------------------------------------------------------------
(* The server, and the ends of the processes.                              *)

(* warmUpPoolAsync: at most one preparation at a time per server.  The     *)
(* processes in started begin, those in ended are over.                    *)
WarmUp(started, ended) ==
  /\ \/ /\ warming
        /\ started = {}
     \/ /\ ~warming
        /\ \E p \in Preloaders : pc[p] = "idle" /\ started = {p}
     \/ /\ Admits("io")
        /\ started = {}
  /\ warming' = (warming \/ started # {})
  /\ waited' = (waited \cup started) \ ended

Begin(started, ended) ==
  /\ pc' = [u \in Runners |-> IF u \in started THEN "pool"
                              ELSE IF u \in ended THEN "idle" ELSE pc[u]]
  /\ at' = [u \in Runners |-> IF u \in ended THEN 1 ELSE at[u]]
  /\ job' = [u \in Runners |-> IF u \in ended THEN None ELSE job[u]]
  /\ outcome' = [u \in Runners |-> IF u \in ended THEN "none" ELSE outcome[u]]

(* A server starts.  VMRunner processes outlive the server they came from. *)
ServerStart ==
  /\ boots < MaxBoots
  /\ boots' = boots + 1
  /\ \E p \in Preloaders :
       /\ pc[p] = "idle"
       /\ Begin({p}, {})
       /\ waited' = {p}
  /\ warming' = TRUE
  /\ UNCHANGED <<poolVars, boxVars>>

(* startVm for a sample.                                                   *)
ScanStart(s, h) ==
  /\ boots > 0
  /\ pc[s] = "idle"
  /\ GoTo(s, "claim")
  /\ job' = [job EXCEPT ![s] = h]
  /\ waited' = waited \cup {s}
  /\ UNCHANGED <<at, outcome, poolVars, boxVars, warming, boots>>

(* main --prepare marks the sandbox without a look at its state.           *)
OperatorStart(o, w) ==
  /\ pc[o] = "idle"
  /\ Decide(o, "preparing", "mark")
  /\ at' = [at EXCEPT ![o] = w]
  /\ UNCHANGED <<job, poolVars, boxVars, serverVars>>

(* A scan that succeeded has the server prepare the pool.                  *)
ScanExit(s) ==
  /\ pc[s] = "exit"
  /\ \E started \in SUBSET Preloaders :
       /\ Begin(started, {s})
       /\ IF s \in waited /\ outcome[s] = "cold"
            THEN WarmUp(started, {s})
            ELSE /\ started = {}
                 /\ waited' = waited \ {s}
                 /\ UNCHANGED warming
  /\ UNCHANGED <<poolVars, boxVars, boots>>

(* The end of a preparation, or of any process that is killed.             *)
Gone(u) ==
  /\ Begin({}, {u})
  /\ waited' = waited \ {u}
  /\ warming' = (warming /\ ~(u \in Preloaders /\ u \in waited))
  /\ UNCHANGED <<lock, boxVars, boots>>

PrepareExit(u) ==
  /\ u \notin Scans
  /\ pc[u] = "exit"
  /\ Gone(u)
  /\ UNCHANGED state

Writing(u) ==
  \/ pc[u] = "claimRead" /\ state[at[u]] = "ready"
  \/ pc[u] = "poolRead" /\ state[at[u]] \notin {"busy", "preparing"}
  \/ pc[u] = "markWrite"

(* A process dies and leaves lock, state and machine as they are, or an    *)
(* empty state file if it was writing one.                                 *)
Crash(u) ==
  /\ Admits("crash")
  /\ pc[u] # "idle"
  /\ Gone(u)
  /\ \/ UNCHANGED state
     \/ Writing(u) /\ state' = Emptied(at[u])

-----------------------------------------------------------------------------
ScanStep(s) ==
  \/ \E h \in Samples : ScanStart(s, h)
  \/ ClaimLock(s)
  \/ ClaimRead(s)
  \/ Payload(s)
  \/ Run(s)
  \/ Verify(s)
  \/ Copy(s)
  \/ Stop(s)
  \/ FailStop(s)
  \/ ScanExit(s)

PoolStep(p) == PoolLock(p) \/ PoolRead(p)

RunnerStep(u) ==
  \/ Unlock(u)
  \/ Mark(u)
  \/ MarkWrite(u)
  \/ Wipe(u)
  \/ Remove(u)
  \/ Clone(u)
  \/ Start(u)
  \/ Tools(u)
  \/ PrepareExit(u)
  \/ Crash(u)

Next ==
  \/ ServerStart
  \/ \E s \in Scans : ScanStep(s)
  \/ \E p \in Preloaders : PoolStep(p)
  \/ \E o \in Operators, w \in Warm : OperatorStart(o, w)
  \/ \E u \in Runners : RunnerStep(u)
  \/ \E b \in Boxes : GuestLog(b)

Spec == Init /\ [][Next]_vars

-----------------------------------------------------------------------------
(* Who works in a warm sandbox: from the decision under the lock to the    *)
(* mark that gives it back.                                                *)
Working(u) ==
  \/ pc[u] \in EnvPcs \cup ScanPcs \cup {"wipe", "remove", "mark", "markWrite"}
  \/ pc[u] = "unlock" /\ outcome[u] \in {"take", "preparing"}

Workers(w) == {u \in Runners : Working(u) /\ at[u] = w}

(* One server, nobody prepares by hand, and no state is silently lost.     *)
Orderly == boots <= 1 /\ Operators = {} /\ ~Admits("lost")

(* The locks work: in the sections of claimReadyWarmSandbox,               *)
(* prepareWarmPool and markWarmSandboxState that read or write a state     *)
(* file there is one process per sandbox, whoever dies with a lock in hand *)
(* and whatever fails.                                                     *)
OneCritical ==
  \A u, v \in Runners :
    /\ pc[u] \in Critical => at[u] \in lock
    /\ u # v /\ pc[u] \in Critical /\ pc[v] \in Critical => at[u] # at[v]

(* ~SandboxLock: where processes are not killed and lock directories can   *)
(* be removed, a lock is in the hand of a process that is at this sandbox, *)
(* whatever way that process leaves its critical section: no sandbox is    *)
(* passed by, and no mark dropped, for a lock that nobody will remove.     *)
LockIsHeld ==
  ~Admits("io") /\ ~Admits("crash") =>
    \A w \in lock : \E u \in Runners : pc[u] \in Critical /\ at[u] = w

(* VMRunner.cpp: "another workflow already owns it".  Nobody works in a    *)
(* warm sandbox in which another process works.                            *)
SoleUser ==
  \A u, v \in Runners :
    Working(u) /\ Working(v) /\ at[u] = at[v] /\ at[u] \in Warm => u = v

(* Nobody offers for use a sandbox in which a sample has run, and the      *)
(* sample of a scan never meets another one in its guest.                  *)
CleanGuest ==
  Orderly =>
    /\ \A w \in Warm : state[w] = "ready" => guest[w] = {}
    /\ \A s \in Scans :
         pc[s] \in EnvPcs \cup ScanPcs => guest[BoxOf(s)] \subseteq {job[s]}

(* The log in the directory of a scan, from which the server will judge    *)
(* the sample, tells of that sample's behaviour only (copyWarmSandboxResult).*)
EvidenceOwn ==
  Orderly => \A h \in Samples : logs[h] \in {None} \cup SUBSET {h}

(* README.md: "reusable warm sandbox copies".  A sandbox that is taken is  *)
(* some scan's that will give it back.                                     *)
BusyIsUsed ==
  \A w \in Warm : state[w] = "busy" => \E s \in Scans : s \in Workers(w)

-----------------------------------------------------------------------------
(* The lease that the pool keeps for each warm sandbox.                    *)

HolderOf(w) == IF Workers(w) = {} THEN None ELSE CHOOSE u \in Workers(w) : TRUE

StageOf(w) ==
  CASE HolderOf(w) \in Scans -> "used"
    [] HolderOf(w) \in Preloaders \cup Operators -> "preparing"
    [] HolderOf(w) = None /\ state[w] = "ready" -> "ready"
    [] OTHER -> "idle"

Lease ==
  INSTANCE SandboxLease WITH
    Boxes <- Warm, Preparers <- Preloaders \cup Operators, Takers <- Scans,
    Nobody <- None,
    stage <- [w \in Warm |-> StageOf(w)],
    holder <- [w \in Warm |-> HolderOf(w)]

(* With one server and no operator, whatever else fails and whoever dies,  *)
(* the pool is used like a lease: a scan takes only a sandbox that was     *)
(* prepared since the last one.                                            *)
KeepsLease == Lease!LeaseSpec
=============================================================================
