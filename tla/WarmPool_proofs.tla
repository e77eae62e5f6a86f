--------------------------- MODULE WarmPool_proofs ---------------------------
(***************************************************************************)
(* Theorems about the warm pool, for any number of sandboxes, samples and  *)
(* runners and under any failures.                                         *)
(***************************************************************************)
EXTENDS WarmPool, TLAPS

-----------------------------------------------------------------------------
(* What is where: which runner may be at which point, and that it has a    *)
(* sandbox, a sample and something to mark when it needs them.             *)

Role(u) ==
  /\ pc[u] \in {"claim", "claimRead"} \cup ScanPcs => u \in Scans
  /\ pc[u] \in {"pool", "poolRead"} => u \in Preloaders
  /\ pc[u] \in {"wipe", "remove"} => u \notin Scans
  /\ pc[u] = "unlock" /\ outcome[u] = "take" => u \in Scans
  /\ pc[u] = "unlock" /\ outcome[u] = "preparing" => u \notin Scans
  /\ pc[u] = "unlock" /\ outcome[u] = "skip" => u \notin Operators

OnWarm(u) ==
  /\ pc[u] \in Critical \cup {"wipe", "remove"} => at[u] \in Warm
  /\ u \notin Scans /\ pc[u] \in EnvPcs \cup {"mark"} => at[u] \in Warm

HasJob(u) == u \in Scans /\ pc[u] # "idle" => job[u] \in Samples

MarksWhat(u) ==
  pc[u] \in {"mark", "markWrite"} =>
    /\ outcome[u] \in {"preparing", "ready", "cold", "failed"}
    /\ u \in Scans => outcome[u] \in {"cold", "failed"}
    /\ u \in Preloaders => outcome[u] \in {"ready", "failed"}

Fit(u) == Role(u) /\ OnWarm(u) /\ HasJob(u) /\ MarksWhat(u)

Books == TypeOK /\ \A u \in Runners : Fit(u)

(* A server has one preparation going, and knows of it.                    *)
OnePreparation ==
  Orderly =>
    /\ boots = 0 => \A u \in Runners : pc[u] = "idle"
    /\ \A p \in Preloaders : pc[p] # "idle" => warming /\ p \in waited
    /\ \A p, q \in Preloaders : pc[p] # "idle" /\ pc[q] # "idle" => p = q

(* The state file tells who works in a warm sandbox.                       *)
StateTells ==
  Orderly =>
    \A u \in Runners : Working(u) /\ at[u] \in Warm =>
      IF u \in Scans THEN state[at[u]] = "busy"
                     ELSE state[at[u]] \notin {"ready", "busy"}

Sole == Orderly => SoleUser

(* Nothing in a sandbox stems from a sample outside S.                     *)
Traces(b, S) ==
  /\ guest[b] \subseteq S
  /\ logs[b] = None \/ logs[b] \subseteq S

(* A preparation has a sandbox for itself and clean.                       *)
Prepares(u) ==
  /\ u \notin Scans
  /\ \/ pc[u] \in EnvPcs
     \/ pc[u] \in {"mark", "markWrite"} /\ outcome[u] = "ready"

(* A scan has taken a warm sandbox.                                        *)
Holds(u) ==
  /\ u \in Scans
  /\ at[u] \in Warm
  /\ \/ pc[u] \in EnvPcs \cup ScanPcs
     \/ pc[u] = "unlock" /\ outcome[u] = "take"

ReadyClean == \A w \in Warm : state[w] = "ready" => Traces(w, {})
PreparedClean == \A u \in Runners : Prepares(u) => Traces(at[u], {})
ScanClean == \A u \in Runners : Holds(u) => Traces(at[u], {job[u]})
DedicatedClean == \A h \in Samples : Traces(h, {h})

Clean ==
  Orderly => ReadyClean /\ PreparedClean /\ ScanClean /\ DedicatedClean

-----------------------------------------------------------------------------
(* The books.                                                              *)

THEOREM BooksInit == Init => Books
<1> SUFFICES ASSUME Init PROVE Books
  OBVIOUS
<1>1. TypeOK
  <2>1. pc \in [Runners -> Pcs] /\ outcome \in [Runners -> Outcomes]
    BY DEF Init, Pcs, Outcomes
  <2>2. at \in [Runners -> 1..(WarmCount + 1)]
    BY PoolAssumption DEF Init
  <2>3. job \in [Runners -> Samples \cup {None}]
    BY DEF Init
  <2>4. lock \subseteq Warm /\ monitor \subseteq Boxes
    BY DEF Init
  <2>5. /\ state \in [Warm -> {"cold", "preparing", "ready", "busy", "failed"}]
        /\ vm \in [Boxes -> {"none", "off", "on"}]
    BY DEF Init
  <2>6. guest \in [Boxes -> SUBSET Samples]
    BY DEF Init
  <2>7. logs \in [Boxes -> (SUBSET Samples) \cup {None}]
    BY DEF Init
  <2>8. waited \subseteq Scans \cup Preloaders /\ warming \in BOOLEAN
    BY DEF Init
  <2>9. boots \in 0..MaxBoots
    BY PoolAssumption DEF Init
  <2> QED
    BY <2>1, <2>2, <2>3, <2>4, <2>5, <2>6, <2>7, <2>8, <2>9 DEF TypeOK
<1>2. \A u \in Runners : Fit(u)
  BY DEF Init, Fit, Role, OnWarm, HasJob, MarksWhat, Critical, EnvPcs, ScanPcs
<1> QED
  BY <1>1, <1>2 DEF Books

(* A step of one runner leaves the others fit.                             *)
LEMMA OthersFit ==
  ASSUME NEW u \in Runners, Books, TypeOK', Fit(u)',
         \A v \in Runners \ {u} :
           /\ pc'[v] = pc[v] /\ at'[v] = at[v]
           /\ job'[v] = job[v] /\ outcome'[v] = outcome[v]
  PROVE  Books'
<1>1. ASSUME NEW v \in Runners PROVE Fit(v)'
  <2>1. CASE v = u
    BY <2>1
  <2>2. CASE v # u
    BY <2>2 DEF Books, Fit, Role, OnWarm, HasJob, MarksWhat
  <2> QED
    BY <2>1, <2>2
<1> QED
  BY <1>1 DEF Books

(* The sandbox a runner works in.                                          *)
LEMMA BoxKnown ==
  ASSUME NEW u \in Runners, Books, pc[u] \in EnvPcs \cup ScanPcs
  PROVE  BoxOf(u) \in Boxes
<1>1. CASE at[u] \in Warm
  BY <1>1 DEF BoxOf, Boxes
<1>2. CASE at[u] \notin Warm
  <2>1. u \in Scans /\ pc[u] # "idle"
    BY <1>2 DEF Books, Fit, Role, OnWarm, EnvPcs, ScanPcs
  <2> QED
    BY <1>2, <2>1 DEF Books, Fit, HasJob, BoxOf, Boxes
<1> QED
  BY <1>1, <1>2

(* Powering off keeps the types.                                           *)
LEMMA PowerOffTyped ==
  ASSUME Books, NEW b \in Boxes, PowerOff(b) \/ StopIgnored \/ StopFails(b)
  PROVE  vm' \in [Boxes -> {"none", "off", "on"}] /\ monitor' \subseteq Boxes
BY DEF Books, TypeOK, PowerOff, StopIgnored, StopFails

(* Where a process begins or ends, everybody stays fit.                    *)
LEMMA BeginFits ==
  ASSUME Books, NEW started \in SUBSET Preloaders, NEW ended \in SUBSET Runners,
         Begin(started, ended)
  PROVE  /\ pc' \in [Runners -> Pcs]
         /\ at' \in [Runners -> 1..(WarmCount + 1)]
         /\ job' \in [Runners -> Samples \cup {None}]
         /\ outcome' \in [Runners -> Outcomes]
         /\ \A u \in Runners : Fit(u)'
<1>1. ASSUME NEW u \in Runners
      PROVE  /\ pc'[u] = IF u \in started THEN "pool"
                         ELSE IF u \in ended THEN "idle" ELSE pc[u]
             /\ at'[u] = IF u \in ended THEN 1 ELSE at[u]
             /\ job'[u] = IF u \in ended THEN None ELSE job[u]
             /\ outcome'[u] = IF u \in ended THEN "none" ELSE outcome[u]
             /\ u \in started => u \in Preloaders /\ u \notin Scans
             /\ pc[u] \in Pcs /\ at[u] \in 1..(WarmCount + 1)
             /\ job[u] \in Samples \cup {None} /\ outcome[u] \in Outcomes
             /\ Fit(u)
  BY PoolAssumption DEF Begin, Books, TypeOK
<1>2. 1 \in 1..(WarmCount + 1)
  BY PoolAssumption
<1>3. ASSUME NEW u \in Runners
      PROVE  /\ pc'[u] \in Pcs /\ at'[u] \in 1..(WarmCount + 1)
             /\ job'[u] \in Samples \cup {None} /\ outcome'[u] \in Outcomes
  BY <1>1, <1>2 DEF Pcs, Outcomes
<1>4. ASSUME NEW u \in Runners PROVE Fit(u)'
  BY <1>1 DEF Fit, Role, OnWarm, HasJob, MarksWhat, Critical, EnvPcs, ScanPcs
<1> QED
  BY <1>3, <1>4 DEF Begin

(* A scan's own steps.                                                     *)
LEMMA BooksScan ==
  ASSUME Books, NEW s \in Scans, ScanStep(s)
  PROVE  Books'
<1> s \in Runners
  BY DEF Runners
<1> USE DEF Books, TypeOK, Fit, Role, OnWarm, HasJob, MarksWhat, Pcs, Outcomes,
            Critical, EnvPcs, ScanPcs, GoTo, Decide, poolVars, boxVars, serverVars,
            Written, Emptied
<1>1. CASE \E h \in Samples : ScanStart(s, h)
  BY <1>1, PoolAssumption, OthersFit DEF ScanStart
<1>2. CASE ClaimLock(s)
  <2>1. at[s] \in 1..(WarmCount + 1) /\ pc[s] = "claim"
    BY <1>2 DEF ClaimLock
  <2>2. CASE at[s] \in Warm /\ Acquire(s, "claimRead") /\ UNCHANGED at
    <3>1. TypeOK'
      BY <1>2, <2>2 DEF ClaimLock, Acquire
    <3>2. Fit(s)'
      BY <1>2, <2>2 DEF ClaimLock, Acquire
    <3> QED
      BY <1>2, <2>2, <3>1, <3>2, OthersFit DEF ClaimLock, Acquire
  <2>3. CASE /\ at[s] \in Warm
             /\ at' = [at EXCEPT ![s] = @ + 1]
             /\ UNCHANGED <<pc, lock>>
    <3>1. at[s] + 1 \in 1..(WarmCount + 1)
      BY <2>3, PoolAssumption DEF Warm
    <3>2. TypeOK'
      BY <1>2, <2>3, <3>1 DEF ClaimLock
    <3>3. Fit(s)'
      BY <1>2, <2>1, <2>3, <3>1 DEF ClaimLock
    <3> QED
      BY <1>2, <2>3, <3>2, <3>3, OthersFit DEF ClaimLock
  <2>4. CASE GoTo(s, "clone") /\ UNCHANGED <<at, lock>>
    <3>1. TypeOK'
      BY <1>2, <2>4 DEF ClaimLock
    <3>2. Fit(s)'
      BY <1>2, <2>1, <2>4 DEF ClaimLock
    <3> QED
      BY <1>2, <2>4, <3>1, <3>2, OthersFit DEF ClaimLock
  <2> QED
    BY <1>2, <2>2, <2>3, <2>4 DEF ClaimLock
<1>3. CASE ClaimRead(s)
  BY <1>3, PoolAssumption, OthersFit DEF ClaimRead
<1>4. CASE Payload(s)
  BY <1>4, BoxKnown, OthersFit DEF Payload, Fail
<1>5. CASE Run(s)
  BY <1>5, BoxKnown, OthersFit DEF Run, Fail
<1>6. CASE Verify(s)
  BY <1>6, OthersFit DEF Verify, Fail
<1>7. CASE Copy(s)
  BY <1>7, BoxKnown, OthersFit DEF Copy, Fail
<1>8. CASE Stop(s)
  <2>1. vm' \in [Boxes -> {"none", "off", "on"}] /\ monitor' \subseteq Boxes
    BY <1>8, BoxKnown, PowerOffTyped DEF Stop
  <2>2. \/ Decide(s, "cold", "mark")
        \/ GoTo(s, "failStop") /\ UNCHANGED outcome
    BY <1>8 DEF Stop, Fail
  <2>3. TypeOK'
    BY <1>8, <2>1, <2>2 DEF Stop
  <2>4. Fit(s)'
    BY <1>8, <2>2, PoolAssumption DEF Stop
  <2> QED
    BY <1>8, <2>2, <2>3, <2>4, OthersFit DEF Stop
<1>9. CASE FailStop(s)
  <2>1. vm' \in [Boxes -> {"none", "off", "on"}] /\ monitor' \subseteq Boxes
    BY <1>9, BoxKnown, PowerOffTyped DEF FailStop
  <2> QED
    BY <1>9, <2>1, OthersFit DEF FailStop
<1>10. CASE ScanExit(s)
  <2>1. PICK started \in SUBSET Preloaders :
          /\ Begin(started, {s})
          /\ waited' \subseteq waited \cup started
          /\ warming' \in BOOLEAN
    BY <1>10 DEF ScanExit, WarmUp
  <2> QED
    BY <1>10, <2>1, BeginFits DEF ScanExit
<1> QED
  BY <1>1, <1>2, <1>3, <1>4, <1>5, <1>6, <1>7, <1>8, <1>9, <1>10 DEF ScanStep

(* The steps of a preparation.                                             *)
LEMMA BooksPool ==
  ASSUME Books, NEW p \in Preloaders, PoolStep(p)
  PROVE  Books'
<1> p \in Runners /\ p \notin Scans /\ p \notin Operators
  BY PoolAssumption DEF Runners
<1> USE DEF Books, TypeOK, Fit, Role, OnWarm, HasJob, MarksWhat, Pcs, Outcomes,
            Critical, EnvPcs, ScanPcs, GoTo, Decide, poolVars, boxVars, serverVars,
            Written, Emptied
<1>1. CASE PoolLock(p)
  <2>1. at[p] \in 1..(WarmCount + 1) /\ pc[p] = "pool"
    BY <1>1 DEF PoolLock
  <2>2. CASE at[p] \in Warm /\ Acquire(p, "poolRead") /\ UNCHANGED at
    <3>1. TypeOK'
      BY <1>1, <2>2 DEF PoolLock, Acquire
    <3>2. Fit(p)'
      BY <1>1, <2>2 DEF PoolLock, Acquire
    <3> QED
      BY <1>1, <2>2, <3>1, <3>2, OthersFit DEF PoolLock, Acquire
  <2>3. CASE /\ at[p] \in Warm
             /\ at' = [at EXCEPT ![p] = @ + 1]
             /\ UNCHANGED <<pc, lock>>
    <3>1. at[p] + 1 \in 1..(WarmCount + 1)
      BY <2>3, PoolAssumption DEF Warm
    <3>2. TypeOK'
      BY <1>1, <2>3, <3>1 DEF PoolLock
    <3>3. Fit(p)'
      BY <1>1, <2>1, <2>3, <3>1 DEF PoolLock
    <3> QED
      BY <1>1, <2>3, <3>2, <3>3, OthersFit DEF PoolLock
  <2>4. CASE GoTo(p, "exit") /\ UNCHANGED <<at, lock>>
    <3>1. TypeOK'
      BY <1>1, <2>4 DEF PoolLock
    <3>2. Fit(p)'
      BY <1>1, <2>1, <2>4 DEF PoolLock
    <3> QED
      BY <1>1, <2>4, <3>1, <3>2, OthersFit DEF PoolLock
  <2> QED
    BY <1>1, <2>2, <2>3, <2>4 DEF PoolLock
<1>2. CASE PoolRead(p)
  BY <1>2, PoolAssumption, OthersFit DEF PoolRead
<1> QED
  BY <1>1, <1>2 DEF PoolStep

(* Where a released lock leads.                                            *)
LEMMA ProceedFits ==
  ASSUME Books, NEW u \in Runners, pc[u] \in {"unlock", "mark"}, at[u] \in Warm,
         Proceed(u), UNCHANGED <<job, outcome>>
  PROVE  /\ pc' \in [Runners -> Pcs]
         /\ at' \in [Runners -> 1..(WarmCount + 1)]
         /\ Fit(u)'
         /\ \A v \in Runners \ {u} : pc'[v] = pc[v] /\ at'[v] = at[v]
<1>1. NextPc(u) \in {"wipe", "clone", "claim", "pool", "exit"}
  BY DEF NextPc
<1>2. at[u] + 1 \in 1..(WarmCount + 1) /\ at[u] \in 1..(WarmCount + 1)
  BY PoolAssumption DEF Warm
<1>3. /\ pc' \in [Runners -> Pcs] /\ pc'[u] = NextPc(u)
      /\ \A v \in Runners \ {u} : pc'[v] = pc[v]
  <2>1. NextPc(u) \in Pcs
    BY <1>1 DEF Pcs, EnvPcs
  <2>2. pc' = [pc EXCEPT ![u] = NextPc(u)] /\ pc \in [Runners -> Pcs]
    BY DEF Proceed, GoTo, Books, TypeOK
  <2> QED
    BY <2>1, <2>2
<1>4. /\ at' \in [Runners -> 1..(WarmCount + 1)]
      /\ NextPc(u) \notin {"claim", "pool"} => at'[u] = at[u]
      /\ \A v \in Runners \ {u} : at'[v] = at[v]
  BY <1>1, <1>2 DEF Proceed, Books, TypeOK
<1>5. Fit(u)'
  BY <1>1, <1>3, <1>4, PoolAssumption
  DEF NextPc, Books, Fit, Role, OnWarm, HasJob, MarksWhat, Critical, EnvPcs,
      ScanPcs, Runners
<1> QED
  BY <1>3, <1>4, <1>5

(* The steps that several kinds of runner take.                            *)
LEMMA BooksRunner ==
  ASSUME Books, NEW u \in Runners, RunnerStep(u)
  PROVE  Books'
<1> USE DEF Books, TypeOK, Fit, Role, OnWarm, HasJob, MarksWhat, Pcs, Outcomes,
            Critical, EnvPcs, ScanPcs, GoTo, Decide, poolVars, boxVars, serverVars,
            Written, Emptied
<1>1. CASE Unlock(u)
  <2>1. at[u] \in Warm
    BY <1>1 DEF Unlock
  <2>2. Proceed(u) /\ UNCHANGED <<job, outcome>> /\ pc[u] = "unlock"
    BY <1>1 DEF Unlock
  <2>3. TypeOK' /\ Fit(u)'
    BY ONLY Books, <1>1, <2>1, <2>2, ProceedFits
    DEF Unlock, Books, TypeOK, boxVars, serverVars
  <2>4. \A v \in Runners \ {u} : pc'[v] = pc[v] /\ at'[v] = at[v]
    BY <2>1, <2>2, ProceedFits
  <2> QED
    BY <2>2, <2>3, <2>4, OthersFit
<1>2. CASE Mark(u)
  <2>1. CASE at[u] \in Warm /\ Acquire(u, "markWrite") /\ UNCHANGED at
    <3>1. TypeOK'
      BY <1>2, <2>1 DEF Mark, Acquire
    <3>2. Fit(u)'
      BY <1>2, <2>1 DEF Mark, Acquire
    <3> QED
      BY <1>2, <2>1, <3>1, <3>2, OthersFit DEF Mark, Acquire
  <2>2. CASE at[u] \in Warm /\ Proceed(u) /\ UNCHANGED lock
    <3>1. UNCHANGED <<job, outcome>> /\ pc[u] = "mark"
      BY <1>2 DEF Mark
    <3>2. TypeOK' /\ Fit(u)'
      BY ONLY Books, <1>2, <2>2, <3>1, ProceedFits
      DEF Mark, Books, TypeOK, boxVars, serverVars
    <3>3. \A v \in Runners \ {u} : pc'[v] = pc[v] /\ at'[v] = at[v]
      BY <2>2, <3>1, ProceedFits
    <3> QED
      BY <3>1, <3>2, <3>3, OthersFit
  <2>3. CASE GoTo(u, "exit") /\ UNCHANGED <<at, lock>>
    <3>1. TypeOK'
      BY <1>2, <2>3 DEF Mark
    <3>2. Fit(u)'
      BY <1>2, <2>3 DEF Mark
    <3> QED
      BY <1>2, <2>3, <3>1, <3>2, OthersFit DEF Mark
  <2> QED
    BY <1>2, <2>1, <2>2, <2>3 DEF Mark
<1>3. CASE MarkWrite(u)
  BY <1>3, OthersFit DEF MarkWrite
<1>4. CASE Wipe(u)
  <2>1. vm' \in [Boxes -> {"none", "off", "on"}] /\ monitor' \subseteq Boxes
    BY <1>4, PowerOffTyped DEF Wipe, Boxes
  <2>2. \/ GoTo(u, "remove") /\ UNCHANGED outcome
        \/ Decide(u, "failed", "mark")
    BY <1>4 DEF Wipe, Fail
  <2>3. TypeOK'
    BY <1>4, <2>1, <2>2 DEF Wipe
  <2>4. Fit(u)'
    BY <1>4, <2>2 DEF Wipe
  <2> QED
    BY <1>4, <2>2, <2>3, <2>4, OthersFit DEF Wipe
<1>5. CASE Remove(u)
  BY <1>5, OthersFit DEF Remove, Fail, Boxes
<1>6. CASE Clone(u)
  BY <1>6, BoxKnown, OthersFit DEF Clone, Fail
<1>7. CASE Start(u)
  BY <1>7, BoxKnown, OthersFit DEF Start, Fail
<1>8. CASE Tools(u)
  BY <1>8, BoxKnown, OthersFit DEF Tools, Fail
<1>9. CASE PrepareExit(u) \/ Crash(u)
  <2>1. state' \in [Warm -> {"cold", "preparing", "ready", "busy", "failed"}]
    BY <1>9 DEF PrepareExit, Crash
  <2> QED
    <3>1. Gone(u)
      BY <1>9 DEF PrepareExit, Crash
    <3>2. /\ pc' \in [Runners -> Pcs]
          /\ at' \in [Runners -> 1..(WarmCount + 1)]
          /\ job' \in [Runners -> Samples \cup {None}]
          /\ outcome' \in [Runners -> Outcomes]
          /\ \A v \in Runners : Fit(v)'
      BY ONLY <3>1, Books, BeginFits DEF Gone
    <3>3. waited' \subseteq waited /\ warming' \in BOOLEAN
      BY <3>1 DEF Gone
    <3> QED
      BY ONLY Books, <2>1, <3>1, <3>2, <3>3 DEF Gone, Books, TypeOK, boxVars
<1> QED
  BY <1>1, <1>2, <1>3, <1>4, <1>5, <1>6, <1>7, <1>8, <1>9 DEF RunnerStep

(* The rest.                                                               *)
LEMMA BooksOther ==
  ASSUME Books,
         \/ ServerStart
         \/ \E o \in Operators, w \in Warm : OperatorStart(o, w)
         \/ \E b \in Boxes : GuestLog(b)
         \/ UNCHANGED vars
  PROVE  Books'
<1>1. CASE ServerStart
  <2>1. PICK p \in Preloaders : Begin({p}, {}) /\ waited' = {p}
    BY <1>1 DEF ServerStart
  <2>2. boots' \in 0..MaxBoots
    BY <1>1, PoolAssumption DEF ServerStart, Books, TypeOK
  <2>3. {p} \in SUBSET Preloaders /\ {} \in SUBSET Runners
    OBVIOUS
  <2>4. /\ pc' \in [Runners -> Pcs]
        /\ at' \in [Runners -> 1..(WarmCount + 1)]
        /\ job' \in [Runners -> Samples \cup {None}]
        /\ outcome' \in [Runners -> Outcomes]
        /\ \A u \in Runners : Fit(u)'
    BY <2>1, <2>3, BeginFits
  <2> QED
    BY <1>1, <2>1, <2>2, <2>4 DEF ServerStart, Books, TypeOK, poolVars, boxVars
<1>2. ASSUME NEW o \in Operators, NEW w \in Warm, OperatorStart(o, w)
      PROVE  Books'
  BY <1>2, OthersFit, PoolAssumption
  DEF OperatorStart, Decide, GoTo, Runners, Books, TypeOK, Fit, Role, OnWarm,
      HasJob, MarksWhat, Pcs, Outcomes, Critical, EnvPcs, ScanPcs, poolVars,
      boxVars, serverVars, Warm
<1>3. ASSUME NEW b \in Boxes, GuestLog(b)
      PROVE  Books'
  BY <1>3
  DEF GuestLog, Books, TypeOK, Fit, Role, OnWarm, HasJob, MarksWhat, poolVars,
      serverVars
<1>4. CASE UNCHANGED vars
  BY <1>4
  DEF vars, Books, TypeOK, Fit, Role, OnWarm, HasJob, MarksWhat, poolVars, boxVars,
      serverVars
<1> QED
  BY <1>1, <1>2, <1>3, <1>4

LEMMA BooksNext == Books /\ [Next]_vars => Books'
BY BooksScan, BooksPool, BooksRunner, BooksOther DEF Next

(* TypeOK, with what each point of a runner's program implies.             *)
THEOREM PoolTyped == Spec => []TypeOK
<1>1. Books => TypeOK
  BY DEF Books
<1> QED
  BY <1>1, BooksInit, BooksNext, PTL DEF Spec

-----------------------------------------------------------------------------
(* The locks.                                                              *)

Others(u) ==
  \A v \in Runners \ {u} :
    /\ pc'[v] = pc[v] /\ at'[v] = at[v]
    /\ job'[v] = job[v] /\ outcome'[v] = outcome[v]

(* How a step of a runner may treat the locks: make the one of the sandbox *)
(* it looks at, remove that one, or leave them alone outside the critical  *)
(* sections or within one.                                                 *)
Locking(u) ==
  \/ /\ at[u] \notin lock
     /\ lock' = lock \cup {at[u]}
     /\ at'[u] = at[u]
  \/ /\ pc[u] \in Critical
     /\ pc'[u] \notin Critical
     /\ lock' = lock \ {at[u]}
  \/ /\ lock' = lock
     /\ pc'[u] \in Critical => pc[u] \in Critical /\ at'[u] = at[u]

LEMMA LockingWorks ==
  ASSUME OneCritical, NEW u \in Runners, Others(u), Locking(u)
  PROVE  OneCritical'
BY DEF OneCritical, Others, Locking

(* A runner's step changes that runner only, unless it starts another one. *)
LEMMA ScanAlone ==
  ASSUME Books, NEW s \in Scans, ScanStep(s), ~ScanExit(s)
  PROVE  Others(s)
<1> s \in Runners
  BY DEF Runners
<1> QED
  BY DEF Others, ScanStep, ScanStart, ClaimLock, ClaimRead, Payload, Run, Verify,
         Copy, Stop, FailStop, Fail, Acquire, GoTo, Decide, Books, TypeOK

LEMMA PoolAlone ==
  ASSUME Books, NEW p \in Preloaders, PoolStep(p)
  PROVE  Others(p)
<1> p \in Runners
  BY DEF Runners
<1> QED
  BY DEF Others, PoolStep, PoolLock, PoolRead, Acquire, GoTo, Decide, Books, TypeOK

LEMMA RunnerAlone ==
  ASSUME Books, NEW u \in Runners, RunnerStep(u)
  PROVE  Others(u)
<1>1. CASE Unlock(u) \/ Mark(u) \/ MarkWrite(u)
  BY <1>1 DEF Others, Unlock, Mark, MarkWrite, Acquire, Proceed, GoTo, Books, TypeOK
<1>2. CASE Wipe(u) \/ Remove(u) \/ Clone(u) \/ Start(u) \/ Tools(u)
  BY <1>2 DEF Others, Wipe, Remove, Clone, Start, Tools, Fail, GoTo, Decide, Books,
              TypeOK
<1>3. CASE PrepareExit(u) \/ Crash(u)
  BY <1>3 DEF Others, PrepareExit, Crash, Gone, Begin
<1> QED
  BY <1>1, <1>2, <1>3 DEF RunnerStep

LEMMA ScanLocks ==
  ASSUME Books, NEW s \in Scans, ScanStep(s), ~ScanExit(s)
  PROVE  Locking(s)
<1> s \in Runners
  BY DEF Runners
<1> USE DEF Locking, Critical, poolVars, GoTo, Decide, Books, TypeOK
<1>1. CASE ClaimLock(s) \/ ClaimRead(s)
  BY <1>1 DEF ClaimLock, ClaimRead, Acquire, Locked
<1>2. CASE ~ClaimLock(s) /\ ~ClaimRead(s)
  BY <1>2 DEF ScanStep, ScanStart, Payload, Run, Verify, Copy, Stop, FailStop, Fail
<1> QED
  BY <1>1, <1>2

LEMMA PoolLocks ==
  ASSUME Books, NEW p \in Preloaders, PoolStep(p)
  PROVE  Locking(p)
<1> p \in Runners
  BY DEF Runners
<1> QED
  BY DEF Locking, Critical, poolVars, GoTo, Decide, Books, TypeOK, PoolStep,
         PoolLock, PoolRead, Acquire, Locked

LEMMA RunnerLocks ==
  ASSUME Books, NEW u \in Runners, RunnerStep(u)
  PROVE  Locking(u)
<1> USE DEF Locking, Critical, poolVars, GoTo, Decide, Books, TypeOK
<1>1. NextPc(u) \notin Critical
  BY DEF NextPc
<1>2. CASE Unlock(u)
  BY <1>1, <1>2 DEF Unlock, Proceed
<1>3. CASE Mark(u) \/ MarkWrite(u)
  BY <1>1, <1>3 DEF Mark, MarkWrite, Acquire, Locked, Proceed
<1>4. CASE Wipe(u) \/ Remove(u) \/ Clone(u) \/ Start(u) \/ Tools(u)
  BY <1>4 DEF Wipe, Remove, Clone, Start, Tools, Fail
<1>5. CASE PrepareExit(u) \/ Crash(u)
  BY <1>5 DEF PrepareExit, Crash, Gone, Begin
<1> QED
  BY <1>2, <1>3, <1>4, <1>5 DEF RunnerStep

(* A process that begins or ends is in no critical section.                *)
LEMMA BeginLocks ==
  ASSUME OneCritical, NEW started, NEW ended, Begin(started, ended), UNCHANGED lock
  PROVE  OneCritical'
BY DEF OneCritical, Begin, Critical

LEMMA CriticalNext ==
  ASSUME Books, OneCritical, [Next]_vars
  PROVE  OneCritical'
<1>1. ASSUME NEW s \in Scans, ScanStep(s) PROVE OneCritical'
  <2>1. CASE ScanExit(s)
    BY <2>1, BeginLocks DEF ScanExit, poolVars
  <2>2. CASE ~ScanExit(s)
    BY <1>1, <2>2, ScanAlone, ScanLocks, LockingWorks DEF Runners
  <2> QED
    BY <2>1, <2>2
<1>2. ASSUME NEW p \in Preloaders, PoolStep(p) PROVE OneCritical'
  BY <1>2, PoolAlone, PoolLocks, LockingWorks DEF Runners
<1>3. ASSUME NEW u \in Runners, RunnerStep(u) PROVE OneCritical'
  BY <1>3, RunnerAlone, RunnerLocks, LockingWorks
<1>4. CASE ServerStart
  BY <1>4, BeginLocks DEF ServerStart, poolVars
<1>5. ASSUME NEW o \in Operators, NEW w \in Warm, OperatorStart(o, w)
      PROVE  OneCritical'
  <2>1. o \in Runners /\ Others(o) /\ Locking(o)
    BY <1>5
    DEF OperatorStart, Others, Locking, Critical, Runners, Decide, GoTo, Books,
        TypeOK, poolVars
  <2> QED
    BY <2>1, LockingWorks
<1>6. CASE UNCHANGED vars \/ \E b \in Boxes : GuestLog(b)
  BY <1>6 DEF vars, GuestLog, poolVars, OneCritical
<1> QED
  BY <1>1, <1>2, <1>3, <1>4, <1>5, <1>6 DEF Next

(* The critical sections exclude each other, whatever fails and whoever    *)
(* dies: OneCritical.                                                      *)
THEOREM LocksWork == Spec => []OneCritical
<1>1. Init => OneCritical
  BY DEF Init, OneCritical, Critical
<1> QED
  BY <1>1, BooksInit, BooksNext, CriticalNext, PTL DEF Spec

-----------------------------------------------------------------------------
(* A lock has a holder.                                                    *)

(* A step of a runner leaves the locks of the others to them, takes one    *)
(* into its hand, and gives one back when it leaves.                       *)
Holding(u) ==
  \/ lock' = lock \cup {at[u]} /\ at'[u] = at[u] /\ pc'[u] \in Critical
  \/ lock' = lock \ {at[u]}
  \/ /\ lock' = lock
     /\ pc[u] \in Critical => pc'[u] \in Critical /\ at'[u] = at[u]

LEMMA HoldingKeeps ==
  ASSUME LockIsHeld, NEW u \in Runners, Others(u),
         Admits("io") \/ Admits("crash") \/ Holding(u)
  PROVE  LockIsHeld'
BY DEF LockIsHeld, Others, Holding, Admits

LEMMA ScanHolding ==
  ASSUME Books, NEW s \in Scans, ScanStep(s), ~ScanExit(s)
  PROVE  Holding(s)
<1> s \in Runners
  BY DEF Runners
<1> USE DEF Holding, Critical, poolVars, GoTo, Decide, Books, TypeOK
<1>1. CASE ClaimLock(s) \/ ClaimRead(s)
  BY <1>1 DEF ClaimLock, ClaimRead, Acquire, Locked
<1>2. CASE ~ClaimLock(s) /\ ~ClaimRead(s)
  BY <1>2 DEF ScanStep, ScanStart, Payload, Run, Verify, Copy, Stop, FailStop
<1> QED
  BY <1>1, <1>2

LEMMA PoolHolding ==
  ASSUME Books, NEW p \in Preloaders, PoolStep(p)
  PROVE  Holding(p)
<1> p \in Runners
  BY DEF Runners
<1> QED
  BY DEF Holding, Critical, poolVars, GoTo, Decide, Books, TypeOK, PoolStep,
         PoolLock, PoolRead, Acquire

LEMMA RunnerHolding ==
  ASSUME Books, NEW u \in Runners, RunnerStep(u)
  PROVE  Admits("io") \/ Admits("crash") \/ Holding(u)
<1> USE DEF Holding, Critical, poolVars, GoTo, Decide, Books, TypeOK
<1>1. CASE Unlock(u)
  BY <1>1 DEF Unlock
<1>2. CASE Mark(u) \/ MarkWrite(u)
  BY <1>2 DEF Mark, MarkWrite, Acquire, Proceed
<1>3. CASE Wipe(u) \/ Remove(u) \/ Clone(u) \/ Start(u) \/ Tools(u)
  BY <1>3 DEF Wipe, Remove, Clone, Start, Tools
<1>4. CASE PrepareExit(u)
  BY <1>4 DEF PrepareExit, Gone
<1>5. CASE Crash(u)
  BY <1>5 DEF Crash
<1> QED
  BY <1>1, <1>2, <1>3, <1>4, <1>5 DEF RunnerStep

(* Who begins was idle, and who ends is past its critical sections.        *)
LEMMA BeginHolding ==
  ASSUME LockIsHeld, NEW started, NEW ended, Begin(started, ended),
         UNCHANGED lock,
         \A u \in Runners : u \in started \cup ended => pc[u] \notin Critical
  PROVE  LockIsHeld'
BY DEF LockIsHeld, Begin, Admits

LEMMA HeldNext ==
  ASSUME Books, LockIsHeld, [Next]_vars
  PROVE  LockIsHeld'
<1>1. ASSUME NEW s \in Scans, ScanStep(s) PROVE LockIsHeld'
  <2>1. CASE ScanExit(s)
    <3>1. PICK started \in SUBSET Preloaders :
            /\ Begin(started, {s})
            /\ started # {} => WarmUp(started, {s})
      BY <2>1 DEF ScanExit
    <3>2. \A u \in Runners : u \in started \cup {s} => pc[u] \notin Critical
      BY <2>1, <3>1 DEF ScanExit, WarmUp, Critical
    <3> QED
      BY <2>1, <3>1, <3>2, BeginHolding DEF ScanExit, poolVars
  <2>2. CASE ~ScanExit(s)
    BY <1>1, <2>2, ScanAlone, ScanHolding, HoldingKeeps DEF Runners
  <2> QED
    BY <2>1, <2>2
<1>2. ASSUME NEW p \in Preloaders, PoolStep(p) PROVE LockIsHeld'
  BY <1>2, PoolAlone, PoolHolding, HoldingKeeps DEF Runners
<1>3. ASSUME NEW u \in Runners, RunnerStep(u) PROVE LockIsHeld'
  BY <1>3, RunnerAlone, RunnerHolding, HoldingKeeps
<1>4. CASE ServerStart
  <2>1. PICK p \in Preloaders : pc[p] = "idle" /\ Begin({p}, {})
    BY <1>4 DEF ServerStart
  <2>2. \A u \in Runners : u \in {p} \cup {} => pc[u] \notin Critical
    BY <2>1 DEF Critical
  <2> QED
    BY <1>4, <2>1, <2>2, BeginHolding DEF ServerStart, poolVars
<1>5. ASSUME NEW o \in Operators, NEW w \in Warm, OperatorStart(o, w)
      PROVE  LockIsHeld'
  <2>1. o \in Runners /\ Others(o) /\ Holding(o)
    BY <1>5
    DEF OperatorStart, Others, Holding, Critical, Runners, Decide, GoTo, Books,
        TypeOK, poolVars
  <2> QED
    BY <2>1, HoldingKeeps
<1>6. CASE UNCHANGED vars \/ \E b \in Boxes : GuestLog(b)
  BY <1>6 DEF vars, GuestLog, poolVars, LockIsHeld
<1> QED
  BY <1>1, <1>2, <1>3, <1>4, <1>5, <1>6 DEF Next

(* No lock outlives the work under it, unless a process was killed or a    *)
(* directory could not be removed: LockIsHeld.                             *)
THEOREM LocksAreHeld == Spec => []LockIsHeld
<1>1. Init => LockIsHeld
  BY DEF Init, LockIsHeld
<1> QED
  BY <1>1, BooksInit, BooksNext, HeldNext, PTL DEF Spec

-----------------------------------------------------------------------------
(* What becomes of a sandbox that was taken.                               *)

(* A runner goes on without the mark, because somebody has the lock.       *)
Dropped ==
  \E u \in Runners :
    pc[u] = "mark" /\ at[u] \in Warm /\ pc'[u] \notin {"mark", "markWrite"}

(* A scan leaves its sandbox only by way of a mark that is not "busy".     *)
LEMMA ScanStays ==
  ASSUME ~Admits("io"), ~Admits("crash"), Books, ~Dropped,
         NEW s \in Scans, Working(s), at[s] \in Warm,
         ScanStep(s) \/ RunnerStep(s)
  PROVE  at'[s] = at[s] /\ (Working(s)' \/ state'[at[s]] # "busy")
<1>0. /\ s \in Runners /\ TypeOK /\ Role(s) /\ MarksWhat(s) /\ pc[s] # "exit"
      /\ BoxOf(s) = at[s]
  BY DEF Runners, Books, Fit, Working, EnvPcs, ScanPcs, BoxOf
<1> USE <1>0 DEF Working, EnvPcs, ScanPcs, GoTo, Decide, TypeOK, poolVars, Role
<1>1. CASE ScanStep(s)
  <2>1. CASE Payload(s) \/ Run(s) \/ Verify(s) \/ Copy(s) \/ Stop(s) \/ FailStop(s)
    BY <2>1 DEF Payload, Run, Verify, Copy, Stop, FailStop, Fail
  <2>2. CASE ~(Payload(s) \/ Run(s) \/ Verify(s) \/ Copy(s) \/ Stop(s) \/ FailStop(s))
    BY <1>1, <2>2 DEF ScanStep, ScanStart, ClaimLock, ClaimRead, ScanExit
  <2> QED
    BY <2>1, <2>2
<1>2. CASE Clone(s) \/ Start(s) \/ Tools(s)
  BY <1>2 DEF Clone, Start, Tools, Fail
<1>3. CASE Unlock(s)
  BY <1>3 DEF Unlock, Proceed, NextPc
<1>4. CASE Mark(s)
  <2>1. pc'[s] \in {"mark", "markWrite"}
    BY <1>4 DEF Mark, Dropped
  <2>2. pc'[s] = "markWrite" /\ at' = at
    BY <1>4, <2>1 DEF Mark, Acquire, Proceed, NextPc
  <2> QED
    BY <2>2
<1>5. CASE MarkWrite(s)
  <2>1. outcome[s] \in {"cold", "failed"}
    BY <1>5 DEF MarkWrite, MarksWhat
  <2>2. state'[at[s]] \in {"cold", "failed"}
    BY <1>5, <2>1 DEF MarkWrite, Written, Emptied
  <2> QED
    BY <1>5, <2>2 DEF MarkWrite
<1>6. ~Wipe(s) /\ ~Remove(s) /\ ~PrepareExit(s) /\ ~Crash(s)
  BY DEF Wipe, Remove, PrepareExit, Crash
<1> QED
  BY <1>1, <1>2, <1>3, <1>4, <1>5, <1>6 DEF RunnerStep

(* Only a claim makes a sandbox busy.                                      *)
LEMMA RunnerMarks ==
  ASSUME Books, NEW u \in Runners, RunnerStep(u), NEW w \in Warm,
         state'[w] = "busy"
  PROVE  state[w] = "busy"
<1>0. TypeOK /\ MarksWhat(u) /\ OnWarm(u)
  BY DEF Books, Fit
<1>1. CASE MarkWrite(u)
  <2>1. outcome[u] # "busy"
    BY <1>0, <1>1 DEF MarkWrite, MarksWhat
  <2> QED
    BY <1>0, <1>1, <2>1 DEF MarkWrite, Written, Emptied, TypeOK
<1>2. CASE Remove(u) \/ Crash(u)
  BY <1>0, <1>2 DEF Remove, Crash, Emptied, TypeOK
<1> QED
  BY <1>1, <1>2 DEF RunnerStep, Unlock, Mark, Wipe, Clone, Start, Tools,
     PrepareExit, poolVars

LEMMA ScanMarks ==
  ASSUME Books, NEW s \in Scans, ScanStep(s), NEW w \in Warm,
         state'[w] = "busy"
  PROVE  state[w] = "busy" \/ (Working(s)' /\ at'[s] = w)
<1>0. TypeOK /\ s \in Runners /\ OnWarm(s)
  BY DEF Books, Fit, Runners
<1>1. CASE ClaimRead(s)
  BY <1>0, <1>1 DEF ClaimRead, Written, Emptied, Decide, GoTo, Working, TypeOK, OnWarm,
     Critical
<1> QED
  BY <1>1 DEF ScanStep, ScanStart, ClaimLock, Payload, Run, Verify, Copy, Stop,
     FailStop, ScanExit, poolVars

LEMMA PoolMarks ==
  ASSUME Books, NEW p \in Preloaders, PoolStep(p), NEW w \in Warm,
         state'[w] = "busy"
  PROVE  state[w] = "busy"
BY DEF Books, TypeOK, PoolStep, PoolLock, PoolRead, Written, Emptied, poolVars

(* Whoever begins or ends, a working scan is neither.                      *)
LEMMA BeginStays ==
  ASSUME Books, NEW started \in SUBSET Preloaders, NEW ended \in SUBSET Runners,
         Begin(started, ended), NEW s \in Scans, s \notin ended, Working(s)
  PROVE  Working(s)' /\ at'[s] = at[s]
BY PoolAssumption DEF Begin, Working, Runners, Books, TypeOK

LEMMA BusyNext ==
  ASSUME ~Admits("io"), ~Admits("crash"), Books, BusyIsUsed, [Next]_vars,
         [~Dropped]_vars
  PROVE  BusyIsUsed'
<1> SUFFICES ASSUME NEW w \in Warm, state'[w] = "busy"
             PROVE  \E s \in Scans : Working(s)' /\ at'[s] = w
  BY DEF BusyIsUsed, Workers, Runners
<1>0. Scans \subseteq Runners /\ Preloaders \subseteq Runners
  BY DEF Runners
<1>a. CASE UNCHANGED vars
  BY <1>0, <1>a DEF BusyIsUsed, Workers, Working, vars, poolVars
<1>b. CASE Next /\ ~Dropped
  <2>1. CASE state[w] # "busy"
    <3>1. PICK s \in Scans : ScanStep(s)
      BY <1>b, <2>1, RunnerMarks, PoolMarks
         DEF Next, ServerStart, OperatorStart, GuestLog, poolVars
    <3> QED
      BY <2>1, <3>1, ScanMarks
  <2>2. CASE state[w] = "busy"
    <3>1. PICK s \in Scans : Working(s) /\ at[s] = w
      BY <2>2 DEF BusyIsUsed, Workers
    <3>2. CASE ScanStep(s) \/ RunnerStep(s)
      BY <1>b, <3>1, <3>2, ScanStays
    <3>3. ASSUME NEW t \in Scans, ScanStep(t), t # s
          PROVE  Working(s)' /\ at'[s] = at[s]
      <4>1. CASE ScanExit(t)
        <5>1. PICK started \in SUBSET Preloaders : Begin(started, {t})
          BY <4>1 DEF ScanExit
        <5> QED
          BY <1>0, <3>1, <3>3, <5>1, BeginStays
      <4>2. CASE ~ScanExit(t)
        BY <1>0, <3>1, <3>3, <4>2, ScanAlone DEF Others, Working
      <4> QED
        BY <4>1, <4>2
    <3>4. ASSUME NEW u \in Runners, RunnerStep(u), u # s
          PROVE  Working(s)' /\ at'[s] = at[s]
      BY <1>0, <3>1, <3>4, RunnerAlone DEF Others, Working
    <3>5. ASSUME NEW p \in Preloaders, PoolStep(p)
          PROVE  Working(s)' /\ at'[s] = at[s]
      BY <1>0, <3>1, <3>5, PoolAlone, PoolAssumption DEF Others, Working
    <3>6. CASE ServerStart
      <4>1. PICK p \in Preloaders : Begin({p}, {})
        BY <3>6 DEF ServerStart
      <4> QED
        BY <3>1, <4>1, BeginStays
    <3>7. ASSUME NEW o \in Operators, NEW v \in Warm, OperatorStart(o, v)
          PROVE  Working(s)' /\ at'[s] = at[s]
      BY <1>0, <3>1, <3>7, PoolAssumption
         DEF OperatorStart, Decide, GoTo, Working, Books, TypeOK
    <3>8. CASE \E b \in Boxes : GuestLog(b)
      BY <3>1, <3>8 DEF GuestLog, Working
    <3> QED
      BY <1>b, <3>1, <3>2, <3>3, <3>4, <3>5, <3>6, <3>7, <3>8 DEF Next
  <2> QED
    BY <2>1, <2>2
<1> QED
  BY <1>a, <1>b

(* The cause of a sandbox that stays busy for ever: where no process is    *)
(* killed and no file operation fails, only a mark that was dropped can    *)
(* leave one behind (markWarmSandboxState).                                *)
THEOREM BusyUnlessDropped ==
  ASSUME ~Admits("io"), ~Admits("crash")
  PROVE  Spec /\ [][~Dropped]_vars => []BusyIsUsed
<1>1. Init => BusyIsUsed
  BY DEF Init, BusyIsUsed
<1>2. Books /\ BusyIsUsed /\ [Next]_vars /\ [~Dropped]_vars => BusyIsUsed'
  BY BusyNext
<1> QED
  BY <1>1, <1>2, BooksInit, BooksNext, PTL DEF Spec

-----------------------------------------------------------------------------
(* One preparation at a time.                                              *)

LEMMA OrderlyBefore == Books /\ [Next]_vars /\ Orderly' => Orderly
<1> SUFFICES ASSUME Books, [Next]_vars, Orderly' PROVE Orderly
  OBVIOUS
<1>1. boots' = boots \/ boots' = boots + 1
  <2>1. ASSUME NEW s \in Scans, ScanStep(s) PROVE boots' = boots
    BY <2>1
    DEF ScanStep, ScanStart, ClaimLock, ClaimRead, Payload, Run, Verify, Copy,
        Stop, FailStop, ScanExit, serverVars
  <2>2. ASSUME NEW p \in Preloaders, PoolStep(p) PROVE boots' = boots
    BY <2>2 DEF PoolStep, PoolLock, PoolRead, serverVars
  <2>3. ASSUME NEW u \in Runners, RunnerStep(u) PROVE boots' = boots
    BY <2>3
    DEF RunnerStep, Unlock, Mark, MarkWrite, Wipe, Remove, Clone, Start, Tools,
        PrepareExit, Crash, Gone, serverVars
  <2>4. CASE ServerStart
    BY <2>4 DEF ServerStart
  <2>5. ASSUME \/ \E o \in Operators, w \in Warm : OperatorStart(o, w)
               \/ \E b \in Boxes : GuestLog(b)
               \/ UNCHANGED vars
        PROVE  boots' = boots
    BY <2>5 DEF OperatorStart, GuestLog, vars, serverVars
  <2> QED
    BY <2>1, <2>2, <2>3, <2>4, <2>5 DEF Next
<1> QED
  BY <1>1 DEF Orderly, Books, TypeOK

LEMMA QuietStep ==
  ASSUME Books, OnePreparation, Orderly, Orderly', NEW u \in Runners, Others(u),
         pc[u] # "idle" \/ (u \in Scans /\ boots > 0),
         UNCHANGED <<warming, boots>>, waited \subseteq waited'
  PROVE  OnePreparation'
BY PoolAssumption DEF OnePreparation, Others, Runners, Books, TypeOK, Orderly

(* The steps of a scan that are not its end leave the server as it is,     *)
(* but for a start.                                                        *)
LEMMA ScanQuiet ==
  ASSUME Books, NEW s \in Scans, ScanStep(s), ~ScanExit(s)
  PROVE  /\ pc[s] # "idle" \/ boots > 0
         /\ UNCHANGED <<warming, boots>>
         /\ waited \subseteq waited'
BY DEF ScanStep, ScanStart, ClaimLock, ClaimRead, Payload, Run, Verify, Copy,
       Stop, FailStop, serverVars

LEMMA PoolQuiet ==
  ASSUME NEW p \in Preloaders, PoolStep(p)
  PROVE  /\ pc[p] # "idle"
         /\ UNCHANGED <<warming, boots, waited>>
BY DEF PoolStep, PoolLock, PoolRead, serverVars

LEMMA RunnerQuiet ==
  ASSUME NEW u \in Runners, RunnerStep(u)
  PROVE  /\ pc[u] # "idle"
         /\ \/ UNCHANGED <<warming, boots, waited>>
            \/ Gone(u)
BY DEF RunnerStep, Unlock, Mark, MarkWrite, Wipe, Remove, Clone, Start, Tools,
       PrepareExit, Crash, serverVars

LEMMA PreparationNext ==
  ASSUME Books, OnePreparation, [Next]_vars, Orderly'
  PROVE  OnePreparation'
<1> Orderly
  BY OrderlyBefore
<1>1. ASSUME NEW s \in Scans, ScanStep(s) PROVE OnePreparation'
  <2>1. CASE ~ScanExit(s)
    BY <1>1, <2>1, ScanAlone, ScanQuiet, QuietStep DEF Runners
  <2>2. CASE ScanExit(s)
    <3>1. PICK started \in SUBSET Preloaders :
            /\ Begin(started, {s})
            /\ \/ WarmUp(started, {s})
               \/ /\ started = {}
                  /\ waited' = waited \ {s}
                  /\ UNCHANGED warming
      BY <2>2 DEF ScanExit
    <3>2. boots' = boots /\ boots > 0
      BY <2>2 DEF ScanExit, OnePreparation, Runners, Books, TypeOK
    <3>3. CASE started = {}
      <4>1. warming => warming'
        <5>1. CASE WarmUp(started, {s})
          BY <5>1, Zenon DEF WarmUp
        <5>2. CASE UNCHANGED warming
          BY <5>2, Zenon
        <5> QED
          BY <3>1, <5>1, <5>2
      <4>4. waited' = waited \ {s}
        BY <3>1, <3>3 DEF WarmUp
      <4>2. \A u \in Runners : pc'[u] # "idle" => pc[u] # "idle"
        BY <3>1, <3>3 DEF Begin
      <4>3. s \notin Preloaders /\ Preloaders \subseteq Runners
        BY PoolAssumption DEF Runners
      <4> QED
        BY <3>2, <4>1, <4>2, <4>3, <4>4 DEF OnePreparation
    <3>4. CASE started # {}
      <4>1. ~warming /\ warming'
        BY <3>1, <3>4 DEF WarmUp
      <4>2. PICK p \in Preloaders : started = {p}
        BY <3>1, <3>4 DEF WarmUp
      <4>3. waited' = (waited \cup {p}) \ {s} /\ p # s
        BY <3>1, <3>4, <4>2, PoolAssumption DEF WarmUp
      <4>4. \A q \in Preloaders : pc[q] = "idle"
        BY <4>1 DEF OnePreparation
      <4>5. \A q \in Preloaders : pc'[q] # "idle" => q = p
        BY <3>1, <4>2, <4>4 DEF Begin, Runners
      <4> QED
        BY <3>2, <4>1, <4>3, <4>5 DEF OnePreparation
    <3> QED
      BY <3>3, <3>4
  <2> QED
    BY <2>1, <2>2
<1>2. ASSUME NEW p \in Preloaders, PoolStep(p) PROVE OnePreparation'
  BY <1>2, PoolAlone, PoolQuiet, QuietStep DEF Runners
<1>3. ASSUME NEW u \in Runners, RunnerStep(u) PROVE OnePreparation'
  <2>1. CASE Gone(u)
    BY <1>3, <2>1, RunnerQuiet
    DEF OnePreparation, Gone, Begin, Runners
  <2>2. CASE ~Gone(u)
    BY <1>3, <2>2, RunnerAlone, RunnerQuiet, QuietStep
  <2> QED
    BY <2>1, <2>2
<1>4. CASE ServerStart
  <2>1. boots = 0 /\ boots' = 1
    BY <1>4 DEF ServerStart, Orderly, Books, TypeOK
  <2>2. PICK p \in Preloaders : Begin({p}, {}) /\ waited' = {p}
    BY <1>4 DEF ServerStart
  <2>3. warming'
    BY <1>4 DEF ServerStart
  <2>4. \A q \in Preloaders : pc'[q] # "idle" => q = p
    BY <2>1, <2>2 DEF OnePreparation, Begin, Runners
  <2> QED
    BY <2>1, <2>2, <2>3, <2>4 DEF OnePreparation
<1>5. CASE UNCHANGED vars \/ \E b \in Boxes : GuestLog(b)
  BY <1>5 DEF vars, GuestLog, serverVars, OnePreparation
<1>6. ASSUME NEW o \in Operators, NEW w \in Warm, OperatorStart(o, w)
      PROVE  FALSE
  BY <1>6 DEF Orderly
<1> QED
  BY <1>1, <1>2, <1>3, <1>4, <1>5, <1>6 DEF Next

-----------------------------------------------------------------------------
(* Who works where.  A step of a runner keeps the work as it is or ends it *)
(* (Keeps), takes a sandbox (Takes), writes the state on the way out of a  *)
(* sandbox (Gives), resets the state of a sandbox it prepares (Resets) or  *)
(* dies with the state of a sandbox in hand that nobody uses (Loses).      *)

Keeps(u) ==
  /\ state' = state
  /\ Working(u)' => \/ at'[u] \notin Warm
                    \/ Working(u) /\ at'[u] = at[u]

(* A sandbox that a scan may take or a preparation may begin with.         *)
Available(u) ==
  /\ ~Working(u)
  /\ at[u] \in Warm
  /\ pc[u] # "idle"
  /\ \/ u \in Scans /\ state[at[u]] = "ready"
     \/ u \in Preloaders /\ state[at[u]] \notin {"busy", "preparing"}

Takes(u) ==
  /\ Available(u)
  /\ at'[u] = at[u] /\ job'[u] = job[u]
  /\ pc'[u] = "unlock"
  /\ \/ /\ u \in Scans
        /\ outcome'[u] = "take"
        /\ state' = [state EXCEPT ![at[u]] = "busy"]
     \/ /\ u \in Preloaders
        /\ outcome'[u] = "preparing"
        /\ state' = [state EXCEPT ![at[u]] = "preparing"]

Gives(u) ==
  /\ pc[u] = "markWrite"
  /\ at[u] \in Warm
  /\ ~Working(u)'
  /\ state' \in {state, Emptied(at[u]), [state EXCEPT ![at[u]] = outcome[u]]}

Resets(u) ==
  /\ pc[u] = "remove"
  /\ at[u] \in Warm /\ at'[u] = at[u]
  /\ pc'[u] \in {"clone", "mark"}
  /\ state' \in {state, Emptied(at[u])}

Loses(u) ==
  /\ Available(u)
  /\ ~Working(u)'
  /\ state' = Emptied(at[u])

Works(u) == Keeps(u) \/ Takes(u) \/ Gives(u) \/ Resets(u) \/ Loses(u)

LEMMA ScanWork ==
  ASSUME Books, Orderly, NEW s \in Scans, ScanStep(s), ~ScanExit(s)
  PROVE  Works(s)
<1> s \in Runners
  BY DEF Runners
<1> USE DEF Works, Working, EnvPcs, ScanPcs, GoTo, Decide, poolVars, Books, TypeOK
<1>1. CASE ClaimLock(s)
  BY <1>1 DEF Keeps, ClaimLock, Acquire
<1>2. CASE ClaimRead(s)
  <2>1. at[s] \in Warm
    BY <1>2 DEF ClaimRead, Fit, OnWarm, Critical
  <2> QED
    BY <1>2, <2>1 DEF Takes, Available, Keeps, ClaimRead, Written, Orderly
<1>3. CASE ~ClaimLock(s) /\ ~ClaimRead(s)
  BY <1>3
  DEF Keeps, ScanStep, ScanStart, Payload, Run, Verify, Copy, Stop, FailStop, Fail
<1> QED
  BY <1>1, <1>2, <1>3

LEMMA PoolWork ==
  ASSUME Books, Orderly, NEW p \in Preloaders, PoolStep(p)
  PROVE  Works(p)
<1> p \in Runners
  BY DEF Runners
<1> USE DEF Works, Working, EnvPcs, ScanPcs, GoTo, Decide, poolVars, Books, TypeOK
<1>1. CASE PoolLock(p)
  BY <1>1 DEF Keeps, PoolLock, Acquire
<1>2. CASE PoolRead(p)
  <2>1. at[p] \in Warm
    BY <1>2 DEF PoolRead, Fit, OnWarm, Critical
  <2> QED
    BY <1>2, <2>1 DEF Takes, Available, Keeps, PoolRead, Reads, Written, Orderly
<1> QED
  BY <1>1, <1>2 DEF PoolStep

LEMMA RunnerWork ==
  ASSUME Books, Orderly, NEW u \in Runners, RunnerStep(u)
  PROVE  Works(u)
<1> Operators = {}
  BY DEF Orderly
<1> USE DEF Works, Working, EnvPcs, ScanPcs, GoTo, Decide, poolVars, Books, TypeOK
<1>1. pc[u] \in {"mark", "markWrite"} => outcome[u] \in {"ready", "cold", "failed"}
  BY DEF Fit, MarksWhat, Runners
<1>2. CASE Unlock(u)
  <2>1. NextPc(u) \in {"wipe", "clone"} => outcome[u] \in {"take", "preparing"}
    BY DEF NextPc
  <2>2. NextPc(u) \in {"wipe", "clone", "claim", "pool", "exit"}
    BY DEF NextPc
  <2>3. NextPc(u) \in {"wipe", "clone"} => at'[u] = at[u]
    BY <1>2 DEF Unlock, Proceed
  <2>4. pc'[u] = NextPc(u) /\ state' = state /\ pc[u] = "unlock"
    BY <1>2 DEF Unlock, Proceed
  <2> QED
    BY <2>1, <2>2, <2>3, <2>4 DEF Keeps
<1>3. CASE Mark(u)
  <2>1. pc[u] = "mark" => NextPc(u) \in {"pool", "exit"}
    BY <1>1 DEF NextPc
  <2> QED
    BY <1>3, <2>1 DEF Keeps, Mark, Acquire, Proceed
<1>4. CASE MarkWrite(u)
  <2>1. at[u] \in Warm
    BY <1>4 DEF MarkWrite, Fit, OnWarm, Critical
  <2>2. pc[u] = "markWrite" /\ pc'[u] = "unlock" /\ outcome'[u] = outcome[u]
    BY <1>4 DEF MarkWrite
  <2> QED
    BY <1>1, <1>4, <2>1, <2>2 DEF Gives, MarkWrite, Written, Orderly
<1>5. CASE Remove(u)
  <2>1. at[u] \in Warm /\ u \notin Scans
    BY <1>5 DEF Remove, Fit, OnWarm, Role
  <2> QED
    BY <1>5, <2>1 DEF Resets, Remove, Fail
<1>6. CASE Wipe(u) \/ Clone(u) \/ Start(u) \/ Tools(u)
  BY <1>6 DEF Keeps, Wipe, Clone, Start, Tools, Fail
<1>7. CASE PrepareExit(u) \/ Crash(u)
  <2>1. pc'[u] = "idle" /\ ~Working(u)'
    BY <1>7 DEF PrepareExit, Crash, Gone, Begin
  <2>2. CASE state' = state
    BY <2>1, <2>2 DEF Keeps
  <2>3. CASE Writing(u) /\ state' = Emptied(at[u])
    <3>1. pc[u] \in Critical /\ at[u] \in Warm
      BY <2>3 DEF Writing, Fit, OnWarm, Critical
    <3>2. pc[u] = "claimRead" => u \in Scans
      BY DEF Fit, Role
    <3>3. pc[u] = "poolRead" => u \in Preloaders
      BY DEF Fit, Role
    <3> QED
      BY <2>1, <2>3, <3>1, <3>2, <3>3 DEF Writing, Gives, Loses, Available
  <2> QED
    BY <1>7, <2>2, <2>3 DEF PrepareExit, Crash
<1> QED
  BY <1>2, <1>3, <1>4, <1>5, <1>6, <1>7 DEF RunnerStep

Exclusive == OnePreparation /\ StateTells /\ Sole

(* Nobody works in a sandbox that is available.                            *)
LEMMA NobodyThere ==
  ASSUME Books, Exclusive, Orderly, NEW u \in Runners, Available(u),
         NEW v \in Runners, Working(v)
  PROVE  at[v] # at[u]
<1> SUFFICES ASSUME at[v] = at[u] PROVE FALSE
  OBVIOUS
<1>1. CASE v \in Scans
  BY <1>1, PoolAssumption DEF Available, Exclusive, StateTells
<1>2. CASE v \notin Scans
  <2>1. v \in Preloaders /\ pc[v] # "idle"
    BY <1>2 DEF Orderly, Runners, Working, EnvPcs, ScanPcs
  <2>2. u \in Preloaders /\ pc[u] # "idle" /\ ~Working(u)
    BY <1>2 DEF Available, Exclusive, StateTells
  <2> QED
    BY <2>1, <2>2 DEF Exclusive, OnePreparation
<1> QED
  BY <1>1, <1>2

LEMMA WorkApart ==
  ASSUME Books, Exclusive, Orderly, Orderly', NEW u \in Runners, Others(u),
         Works(u)
  PROVE  StateTells' /\ Sole'
<1> USE DEF Exclusive, StateTells, Sole, SoleUser, Others
<1>0. \A v \in Runners \ {u} : Working(v)' = Working(v)
  BY DEF Working
<1>1. CASE Keeps(u)
  BY <1>0, <1>1 DEF Keeps
<1>2. CASE Takes(u)
  <2>1. \A v \in Runners : Working(v) => at[v] # at[u]
    BY ONLY <1>2, Books, Exclusive, Orderly, NobodyThere DEF Takes
  <2>2. at'[u] = at[u] /\ \A w \in Warm : w # at[u] => state'[w] = state[w]
    BY <1>2 DEF Takes, Books, TypeOK
  <2>3. u \in Scans => state'[at[u]] = "busy"
    BY <1>2, PoolAssumption DEF Takes, Available, Books, TypeOK
  <2>4. u \notin Scans => state'[at[u]] = "preparing"
    BY <1>2, PoolAssumption DEF Takes, Available, Books, TypeOK
  <2> QED
    BY <1>0, <2>1, <2>2, <2>3, <2>4
<1>3. CASE Gives(u)
  <2>1. Working(u) /\ ~Working(u)'
    BY <1>3 DEF Gives, Working
  <2>2. \A w \in Warm : w # at[u] => state'[w] = state[w]
    BY <1>3 DEF Gives, Emptied, Books, TypeOK
  <2> QED
    BY <1>0, <1>3, <2>1, <2>2 DEF Gives
<1>4. CASE Resets(u)
  <2>1. Working(u) /\ u \notin Scans
    BY <1>4 DEF Resets, Working, Books, Fit, Role
  <2>2. \A w \in Warm : w # at[u] => state'[w] = state[w]
    BY <1>4 DEF Resets, Emptied, Books, TypeOK
  <2>3. state'[at[u]] \notin {"ready", "busy"}
    BY <1>4, <2>1 DEF Resets, Emptied, Books, TypeOK
  <2> QED
    BY <1>0, <1>4, <2>1, <2>2, <2>3 DEF Resets
<1>5. CASE Loses(u)
  <2>1. \A v \in Runners : Working(v) => at[v] # at[u]
    BY ONLY <1>5, Books, Exclusive, Orderly, NobodyThere DEF Loses
  <2>2. \A w \in Warm : w # at[u] => state'[w] = state[w]
    BY <1>5 DEF Loses, Emptied, Books, TypeOK
  <2> QED
    BY <1>0, <1>5, <2>1, <2>2 DEF Loses
<1> QED
  BY <1>1, <1>2, <1>3, <1>4, <1>5 DEF Works

(* Where a process begins or ends, nobody's work changes but theirs.       *)
LEMMA BeginApart ==
  ASSUME Exclusive, Orderly, NEW started, NEW ended, Begin(started, ended),
         UNCHANGED state
  PROVE  StateTells' /\ Sole'
<1>1. \A u \in Runners : Working(u)' => Working(u) /\ at'[u] = at[u]
  BY DEF Working, EnvPcs, ScanPcs, Begin
<1> QED
  BY <1>1 DEF Exclusive, StateTells, Sole, SoleUser

LEMMA ExclusiveInit == Init => Exclusive
BY PoolAssumption
DEF Init, Exclusive, OnePreparation, StateTells, Sole, SoleUser, Working, EnvPcs,
    ScanPcs, Runners

LEMMA ExclusiveNext ==
  ASSUME Books, Exclusive, [Next]_vars
  PROVE  Exclusive'
<1> SUFFICES ASSUME Orderly' PROVE Exclusive'
  BY DEF Exclusive, OnePreparation, StateTells, Sole
<1> Orderly /\ Operators = {}
  BY OrderlyBefore DEF Orderly
<1>0. OnePreparation'
  BY PreparationNext DEF Exclusive
<1>1. ASSUME NEW s \in Scans, ScanStep(s) PROVE StateTells' /\ Sole'
  <2>1. CASE ScanExit(s)
    BY <2>1, BeginApart DEF ScanExit, poolVars
  <2>2. CASE ~ScanExit(s)
    BY <1>1, <2>2, ScanAlone, ScanWork, WorkApart DEF Runners
  <2> QED
    BY <2>1, <2>2
<1>2. ASSUME NEW p \in Preloaders, PoolStep(p) PROVE StateTells' /\ Sole'
  BY <1>2, PoolAlone, PoolWork, WorkApart DEF Runners
<1>3. ASSUME NEW u \in Runners, RunnerStep(u) PROVE StateTells' /\ Sole'
  BY <1>3, RunnerAlone, RunnerWork, WorkApart
<1>4. CASE ServerStart
  <2>1. PICK p \in Preloaders : Begin({p}, {})
    BY <1>4 DEF ServerStart
  <2>2. UNCHANGED state
    BY <1>4 DEF ServerStart, poolVars
  <2> QED
    BY <1>0, <2>1, <2>2, BeginApart DEF Exclusive
<1>5. CASE UNCHANGED vars \/ \E b \in Boxes : GuestLog(b)
  <2>1. UNCHANGED <<pc, at, outcome, state>>
    BY <1>5 DEF vars, GuestLog, poolVars
  <2>2. \A u \in Runners : Working(u)' = Working(u)
    BY <2>1 DEF Working
  <2> QED
    BY <1>0, <2>1, <2>2 DEF Exclusive, StateTells, Sole, SoleUser
<1> QED
  BY <1>0, <1>1, <1>2, <1>3, <1>4, <1>5 DEF Next, Exclusive

(* With one server and nobody preparing by hand, no two processes work in  *)
(* one warm sandbox: SoleUser.                                             *)
THEOREM SoleUserWhenOrderly == Spec => [](Orderly => SoleUser)
<1>1. Exclusive => (Orderly => SoleUser)
  BY DEF Exclusive, Sole
<1> QED
  BY <1>1, BooksInit, BooksNext, ExclusiveInit, ExclusiveNext, PTL DEF Spec

-----------------------------------------------------------------------------
(* What is left of a sample in a sandbox.                                  *)

(* Nothing new in a sandbox: its guest has no new sample and its log is    *)
(* gone, or as it was, or what the guest says.                             *)
Shrinks(b) ==
  /\ guest'[b] \subseteq guest[b]
  /\ logs'[b] \in {None, logs[b], guest[b]}

LEMMA ShrinksTraces ==
  ASSUME NEW b, NEW S, Shrinks(b), Traces(b, S)
  PROVE  Traces(b, S)'
BY DEF Shrinks, Traces

LEMMA ScanShrinks ==
  ASSUME Books, NEW s \in Scans, ScanStep(s), ~Run(s), ~Copy(s)
  PROVE  \A b \in Boxes : Shrinks(b)
BY DEF Shrinks, ScanStep, ScanStart, ClaimLock, ClaimRead, Payload, Verify, Stop,
       FailStop, ScanExit, boxVars, Books, TypeOK

LEMMA PoolShrinks ==
  ASSUME NEW p \in Preloaders, PoolStep(p)
  PROVE  \A b \in Boxes : Shrinks(b)
BY DEF Shrinks, PoolStep, PoolLock, PoolRead, boxVars

LEMMA RunnerShrinks ==
  ASSUME Books, NEW u \in Runners, RunnerStep(u)
  PROVE  \A b \in Boxes : Shrinks(b)
<1>1. CASE Remove(u) \/ Clone(u)
  BY <1>1 DEF Shrinks, Remove, Clone, Books, TypeOK
<1>2. CASE ~Remove(u) /\ ~Clone(u)
  BY <1>2
  DEF Shrinks, RunnerStep, Unlock, Mark, MarkWrite, Wipe, Start, Tools,
      PrepareExit, Crash, Gone, boxVars
<1> QED
  BY <1>1, <1>2

(* How a runner comes to prepare or to hold a sandbox.                     *)
LEMMA ScanHolds ==
  ASSUME Books, Orderly, NEW s \in Scans, ScanStep(s), ~ScanExit(s), Holds(s)'
  PROVE  /\ at'[s] = at[s] /\ job'[s] = job[s]
         /\ Holds(s) \/ Takes(s)
<1> s \in Runners
  BY DEF Runners
<1> USE DEF Holds, EnvPcs, ScanPcs, GoTo, Decide, Books, TypeOK
<1>1. CASE ClaimRead(s)
  <2>1. at'[s] = at[s] /\ job'[s] = job[s] /\ pc[s] = "claimRead" /\ pc'[s] = "unlock"
    BY <1>1 DEF ClaimRead
  <2>2. outcome'[s] = "take"
    BY <2>1
  <2>3. state[at[s]] = "ready" /\ state' = [state EXCEPT ![at[s]] = "busy"]
    BY <1>1, <2>2 DEF ClaimRead, Written, Orderly
  <2>4. ~Working(s) /\ at[s] \in Warm
    BY <2>1 DEF Working
  <2> QED
    BY <2>1, <2>2, <2>3, <2>4 DEF Takes, Available
<1>2. CASE ScanStart(s, job'[s]) \/ ClaimLock(s) \/ \E h \in Samples : ScanStart(s, h)
  BY <1>2 DEF ScanStart, ClaimLock, Acquire
<1>3. CASE Payload(s) \/ Run(s) \/ Verify(s) \/ Copy(s) \/ Stop(s) \/ FailStop(s)
  BY <1>3 DEF Payload, Run, Verify, Copy, Stop, FailStop, Fail
<1> QED
  BY <1>1, <1>2, <1>3 DEF ScanStep

LEMMA RunnerHolds ==
  ASSUME Books, NEW u \in Runners, RunnerStep(u), Holds(u)'
  PROVE  at'[u] = at[u] /\ job'[u] = job[u] /\ Holds(u)
<1> USE DEF Holds, EnvPcs, ScanPcs, GoTo, Decide, Books, TypeOK
<1>1. CASE Unlock(u) \/ Mark(u)
  <2>1. NextPc(u) \in {"wipe", "clone", "claim", "pool", "exit"}
    BY DEF NextPc
  <2>2. NextPc(u) = "clone" => outcome[u] = "take"
    BY DEF NextPc
  <2>3. pc[u] = "mark" => outcome[u] # "take"
    BY DEF Fit, MarksWhat
  <2> QED
    BY <1>1, <2>1, <2>2, <2>3 DEF Unlock, Mark, Proceed, Acquire
<1>2. CASE MarkWrite(u)
  BY <1>2 DEF MarkWrite, Fit, MarksWhat
<1>3. CASE Wipe(u) \/ Remove(u)
  BY <1>3 DEF Wipe, Remove, Fail, Fit, Role
<1>4. CASE Clone(u) \/ Start(u) \/ Tools(u)
  BY <1>4 DEF Clone, Start, Tools, Fail
<1>5. CASE PrepareExit(u) \/ Crash(u)
  BY <1>5 DEF PrepareExit, Crash, Gone, Begin
<1> QED
  BY <1>1, <1>2, <1>3, <1>4, <1>5 DEF RunnerStep

LEMMA PoolPrepares ==
  ASSUME Books, NEW p \in Preloaders, PoolStep(p)
  PROVE  ~Prepares(p)'
BY PoolAssumption
DEF Prepares, EnvPcs, PoolStep, PoolLock, PoolRead, Acquire, GoTo, Decide, Books,
    TypeOK, Runners

LEMMA RunnerPrepares ==
  ASSUME Books, Operators = {}, NEW u \in Runners, RunnerStep(u), Prepares(u)'
  PROVE  /\ at'[u] = at[u]
         /\ Prepares(u) \/ Traces(at[u], {})'
<1> USE DEF Prepares, EnvPcs, GoTo, Decide, Books, TypeOK
<1>1. CASE Unlock(u) \/ Mark(u)
  <2>1. NextPc(u) \in {"wipe", "clone", "claim", "pool", "exit"}
    BY DEF NextPc
  <2>2. NextPc(u) = "clone" => outcome[u] = "take"
    BY DEF NextPc
  <2>3. outcome[u] = "take" => pc[u] \notin {"mark", "unlock"} \/ u \in Scans
    BY DEF Fit, Role, MarksWhat
  <2> QED
    BY <1>1, <2>1, <2>2, <2>3 DEF Unlock, Mark, Proceed, Acquire
<1>2. CASE Remove(u)
  <2>1. pc'[u] = "clone"
    BY <1>2 DEF Remove, Fail
  <2>2. guest'[at[u]] = {} /\ logs'[at[u]] = None
    <3>1. at[u] \in Boxes
      BY <1>2 DEF Remove, Fit, OnWarm, Boxes
    <3> QED
      BY <1>2, <2>1, <3>1 DEF Remove, Fail
  <2> QED
    BY <1>2, <2>2 DEF Remove, Traces
<1>3. CASE MarkWrite(u) \/ Wipe(u)
  BY <1>3 DEF MarkWrite, Wipe, Fail
<1>4. CASE Clone(u) \/ Start(u) \/ Tools(u)
  BY <1>4 DEF Clone, Start, Tools, Fail
<1>5. CASE PrepareExit(u) \/ Crash(u)
  BY <1>5 DEF PrepareExit, Crash, Gone, Begin
<1> QED
  BY <1>1, <1>2, <1>3, <1>4, <1>5 DEF RunnerStep

(* Whoever prepares or holds a warm sandbox works in it, and so alone.     *)
LEMMA Apart ==
  ASSUME Books, Exclusive, Orderly, NEW u \in Runners, NEW v \in Runners, u # v,
         Working(u), at[u] \in Warm, Prepares(v) \/ Holds(v)
  PROVE  at[v] # at[u]
BY DEF Exclusive, Sole, SoleUser, Prepares, Holds, Working

(* In a warm sandbox in which somebody works nothing is ready but what he  *)
(* makes ready.                                                            *)
LEMMA WorkNotReady ==
  ASSUME Books, Exclusive, Orderly, NEW u \in Runners, Working(u), at[u] \in Warm
  PROVE  state[at[u]] # "ready"
BY DEF Exclusive, StateTells

LEMMA ReadyFrom ==
  ASSUME Books, Clean, Orderly, Operators = {}, NEW u \in Runners,
         Works(u),
         NEW w \in Warm, state'[w] = "ready"
  PROVE  Traces(w, {})
<1>1. CASE state[w] = "ready"
  BY <1>1 DEF Clean, ReadyClean
<1>2. CASE state[w] # "ready"
  <2>1. Gives(u) /\ w = at[u] /\ outcome[u] = "ready"
    BY <1>2 DEF Works, Keeps, Takes, Gives, Resets, Loses, Emptied, Books, TypeOK
  <2>2. Prepares(u)
    BY <2>1 DEF Gives, Prepares, Books, Fit, MarksWhat
  <2> QED
    BY <2>1, <2>2 DEF Clean, PreparedClean
<1> QED
  BY <1>1, <1>2

LEMMA CleanStep ==
  ASSUME Books, Exclusive, Clean, Orderly, Operators = {},
         NEW u \in Runners, Others(u),
         Works(u),
         \A b \in Boxes : Shrinks(b),
         Prepares(u)' => at'[u] = at[u] /\ (Prepares(u) \/ Traces(at[u], {})'),
         Holds(u)' => /\ at'[u] = at[u] /\ job'[u] = job[u]
                      /\ Holds(u) \/ Takes(u)
  PROVE  Clean'
<1>1. \A b \in Boxes : \A S : Traces(b, S) => Traces(b, S)'
  BY ShrinksTraces
<1>2. ReadyClean'
  BY <1>1, ReadyFrom DEF ReadyClean, Boxes
<1>3. PreparedClean'
  <2>1. SUFFICES ASSUME NEW v \in Runners, Prepares(v)'
                 PROVE  Traces(at[v], {})' /\ at'[v] = at[v]
    BY DEF PreparedClean, Traces
  <2>2. CASE Prepares(v) /\ at'[v] = at[v]
    <3>1. at[v] \in Boxes
      BY <2>2 DEF Prepares, Books, Fit, OnWarm, Boxes, Critical
    <3> QED
      BY <1>1, <2>2, <3>1 DEF Clean, PreparedClean
  <2>3. CASE v = u
    BY <2>1, <2>2, <2>3
  <2>4. CASE v # u
    BY <2>1, <2>2, <2>4 DEF Prepares, Others
  <2> QED
    BY <2>3, <2>4
<1>4. ScanClean'
  <2>1. SUFFICES ASSUME NEW v \in Runners, Holds(v)'
                 PROVE  Traces(at[v], {job[v]})' /\ at'[v] = at[v] /\ job'[v] = job[v]
    BY DEF ScanClean, Traces
  <2>2. ASSUME Holds(v), at'[v] = at[v], job'[v] = job[v]
        PROVE  Traces(at[v], {job[v]})'
    BY <1>1, <2>2 DEF Clean, ScanClean, Holds, Boxes
  <2>3. CASE v = u
    <3>1. CASE Takes(u)
      <4>1. Traces(at[u], {}) /\ at[u] \in Boxes
        BY <2>1, <2>3, <3>1, PoolAssumption
        DEF Takes, Available, Holds, Clean, ReadyClean, Boxes
      <4>2. Traces(at[u], {})'
        BY <1>1, <2>1, <2>3, <4>1 DEF Traces
      <4> QED
        BY <2>1, <2>3, <4>2 DEF Traces
    <3> QED
      BY <2>1, <2>2, <2>3, <3>1
  <2>4. CASE v # u
    BY <2>1, <2>2, <2>4 DEF Holds, Others
  <2> QED
    BY <2>3, <2>4
<1>5. DedicatedClean'
  BY <1>1 DEF Clean, DedicatedClean, Boxes
<1> QED
  BY <1>2, <1>3, <1>4, <1>5 DEF Clean

(* The samples in the sandbox of a scan.                                   *)
LEMMA ScanTraces ==
  ASSUME Books, Clean, Orderly, NEW s \in Scans, pc[s] \in EnvPcs \cup ScanPcs
  PROVE  /\ Traces(BoxOf(s), {job[s]})
         /\ job[s] \in Samples
         /\ (BoxOf(s) = at[s] /\ at[s] \in Warm) \/ BoxOf(s) = job[s]
<1> s \in Runners
  BY DEF Runners
<1>1. job[s] \in Samples
  BY DEF Books, Fit, HasJob, EnvPcs, ScanPcs
<1>2. CASE at[s] \in Warm
  BY <1>1, <1>2 DEF BoxOf, Clean, ScanClean, Holds
<1>3. CASE at[s] \notin Warm
  BY <1>1, <1>3 DEF BoxOf, Clean, DedicatedClean
<1> QED
  BY <1>1, <1>2, <1>3

(* The steps that add to a sandbox: only the scan's own sample, in its own *)
(* sandbox or in the dedicated one of its sample.                          *)
LEMMA CleanAdds ==
  ASSUME Books, Exclusive, Clean, Orderly, NEW s \in Scans, Run(s) \/ Copy(s)
  PROVE  Clean'
<1> s \in Runners
  BY DEF Runners
<1>1. pc[s] \in {"run", "copy"}
  BY DEF Run, Copy
<1>2. /\ Traces(BoxOf(s), {job[s]})
      /\ job[s] \in Samples
      /\ (BoxOf(s) = at[s] /\ at[s] \in Warm) \/ BoxOf(s) = job[s]
      /\ BoxOf(s) \in Boxes
  BY <1>1, ScanTraces, BoxKnown DEF ScanPcs
<1>3. /\ at' = at /\ job' = job /\ state' = state
      /\ \A v \in Runners : Prepares(v)' => Prepares(v)
      /\ \A v \in Runners : Holds(v)' => Holds(v)
  BY <1>1
  DEF Run, Copy, Fail, GoTo, poolVars, Prepares, Holds, EnvPcs, ScanPcs, Books, TypeOK
<1>4. \A b \in Boxes : Traces(b, {job[s]}) => Traces(b, {job[s]})'
  BY <1>2 DEF Run, Copy, Traces, Books, TypeOK
<1>5. \A b \in Boxes \ {BoxOf(s), job[s]} : guest'[b] = guest[b] /\ logs'[b] = logs[b]
  BY <1>2 DEF Run, Copy, Books, TypeOK
<1>6. \A b \in Boxes \ {BoxOf(s), job[s]} : \A S : Traces(b, S) => Traces(b, S)'
  BY <1>5 DEF Traces
<1>7. Warm \cap Samples = {}
  BY PoolAssumption
<1>8. \A w \in Warm : w \in {BoxOf(s), job[s]} => w = at[s] /\ Working(s) /\ Holds(s)
  BY <1>1, <1>2, <1>7 DEF Working, Holds, ScanPcs
<1>9. ReadyClean'
  BY <1>3, <1>6, <1>8, WorkNotReady DEF Clean, ReadyClean, Boxes
<1>10. PreparedClean'
  <2>1. SUFFICES ASSUME NEW v \in Runners, Prepares(v) PROVE Traces(at[v], {})'
    BY <1>3 DEF PreparedClean, Traces
  <2>2. at[v] \in Warm /\ v # s
    BY <2>1 DEF Prepares, Books, Fit, OnWarm, Critical
  <2>3. at[v] \notin {BoxOf(s), job[s]}
    BY <1>8, <2>1, <2>2, Apart
  <2> QED
    BY <1>3, <1>6, <2>1, <2>2, <2>3 DEF Clean, PreparedClean, Boxes, Traces
<1>11. ScanClean'
  <2>1. SUFFICES ASSUME NEW v \in Runners, Holds(v) PROVE Traces(at[v], {job[v]})'
    BY <1>3 DEF ScanClean, Traces
  <2>2. at[v] \in Boxes /\ at[v] \in Warm /\ Traces(at[v], {job[v]})
    BY <2>1 DEF Holds, Boxes, Clean, ScanClean
  <2>3. CASE v = s
    BY <1>3, <1>4, <2>2, <2>3 DEF Traces
  <2>4. CASE v # s
    <3>1. at[v] \notin {BoxOf(s), job[s]}
      BY <1>8, <2>1, <2>2, <2>4, Apart
    <3> QED
      BY <1>3, <1>6, <2>2, <3>1 DEF Traces
  <2> QED
    BY <2>3, <2>4
<1>12. DedicatedClean'
  <2>1. SUFFICES ASSUME NEW h \in Samples PROVE Traces(h, {h})'
    BY DEF DedicatedClean
  <2>2. Traces(h, {h}) /\ h \in Boxes /\ h \notin Warm
    BY <1>7 DEF Clean, DedicatedClean, Boxes
  <2> QED
    BY <1>2, <1>3, <1>4, <1>6, <2>2 DEF Traces
<1> QED
  BY <1>9, <1>10, <1>11, <1>12 DEF Clean

LEMMA CleanStays ==
  ASSUME Books, Clean, Orderly, UNCHANGED state,
         \A b \in Boxes : Shrinks(b),
         \A u \in Runners : Prepares(u)' => Prepares(u) /\ at'[u] = at[u],
         \A u \in Runners : Holds(u)' => Holds(u) /\ at'[u] = at[u] /\ job'[u] = job[u]
  PROVE  Clean'
<1>1. \A b \in Boxes : \A S : Traces(b, S) => Traces(b, S)'
  BY ShrinksTraces
<1>2. ReadyClean'
  BY <1>1 DEF Clean, ReadyClean, Boxes
<1>3. PreparedClean'
  <2>1. SUFFICES ASSUME NEW u \in Runners, Prepares(u), at'[u] = at[u]
                 PROVE  Traces(at[u], {})'
    BY DEF PreparedClean, Traces
  <2>2. at[u] \in Boxes
    BY <2>1 DEF Prepares, Books, Fit, OnWarm, Boxes, Critical
  <2> QED
    BY <1>1, <2>1, <2>2 DEF Clean, PreparedClean
<1>4. ScanClean'
  <2>1. SUFFICES ASSUME NEW u \in Runners, Holds(u), at'[u] = at[u], job'[u] = job[u]
                 PROVE  Traces(at[u], {job[u]})'
    BY DEF ScanClean, Traces
  <2> QED
    BY <1>1, <2>1 DEF Holds, Boxes, Clean, ScanClean
<1>5. DedicatedClean'
  BY <1>1 DEF Clean, DedicatedClean, Boxes
<1> QED
  BY <1>2, <1>3, <1>4, <1>5 DEF Clean

LEMMA BeginClean ==
  ASSUME Books, Clean, Orderly, NEW started, NEW ended, Begin(started, ended),
         UNCHANGED <<poolVars, boxVars>>
  PROVE  Clean'
<1>1. \A u \in Runners : Prepares(u)' => Prepares(u) /\ at'[u] = at[u]
  BY DEF Begin, Prepares, EnvPcs
<1>2. \A u \in Runners :
        Holds(u)' => Holds(u) /\ at'[u] = at[u] /\ job'[u] = job[u]
  BY DEF Begin, Holds, EnvPcs, ScanPcs
<1>3. UNCHANGED state /\ \A b \in Boxes : Shrinks(b)
  BY DEF poolVars, boxVars, Shrinks
<1> QED
  BY <1>1, <1>2, <1>3, CleanStays

LEMMA CleanNext ==
  ASSUME Books, Exclusive, Clean, [Next]_vars
  PROVE  Clean'
<1> SUFFICES ASSUME Orderly' PROVE Clean'
  BY DEF Clean
<1> Orderly /\ Operators = {}
  BY OrderlyBefore DEF Orderly
<1>1. ASSUME NEW s \in Scans, ScanStep(s) PROVE Clean'
  <2>0. s \in Runners /\ ~Prepares(s)'
    BY DEF Runners, Prepares
  <2>1. CASE ScanExit(s)
    BY <2>1, BeginClean DEF ScanExit
  <2>2. CASE Run(s) \/ Copy(s)
    BY <2>2, CleanAdds
  <2>3. CASE ~ScanExit(s) /\ ~Run(s) /\ ~Copy(s)
    BY <1>1, <2>0, <2>3, ScanAlone, ScanWork, ScanShrinks, ScanHolds, CleanStep
  <2> QED
    BY <2>1, <2>2, <2>3
<1>2. ASSUME NEW p \in Preloaders, PoolStep(p) PROVE Clean'
  <2>1. p \in Runners /\ ~Prepares(p)' /\ ~Holds(p)'
    BY <1>2, PoolPrepares, PoolAssumption DEF Runners, Holds
  <2> QED
    BY <1>2, <2>1, PoolAlone, PoolWork, PoolShrinks, CleanStep
<1>3. ASSUME NEW u \in Runners, RunnerStep(u) PROVE Clean'
  BY <1>3, RunnerAlone, RunnerWork, RunnerShrinks, RunnerHolds, RunnerPrepares,
     CleanStep
<1>4. CASE ServerStart
  BY <1>4, BeginClean DEF ServerStart
<1>5. CASE UNCHANGED vars \/ \E b \in Boxes : GuestLog(b)
  <2>1. UNCHANGED <<pc, at, job, outcome, state>>
    BY <1>5 DEF vars, GuestLog, poolVars
  <2>2. \A u \in Runners : Prepares(u)' = Prepares(u) /\ Holds(u)' = Holds(u)
    BY <2>1 DEF Prepares, Holds
  <2>3. \A b \in Boxes : Shrinks(b)
    BY <1>5 DEF vars, boxVars, GuestLog, Shrinks, Books, TypeOK
  <2> QED
    BY <2>1, <2>2, <2>3, CleanStays
<1> QED
  BY <1>1, <1>2, <1>3, <1>4, <1>5 DEF Next

LEMMA CleanInit == Init => Clean
BY PoolAssumption
DEF Init, Clean, ReadyClean, PreparedClean, ScanClean, DedicatedClean, Traces,
    Prepares, Holds, EnvPcs, ScanPcs, Boxes

(* No sample meets another one's traces: CleanGuest.                       *)
THEOREM GuestsClean == Spec => []CleanGuest
<1>1. Books /\ Clean => CleanGuest
  <2> SUFFICES ASSUME Books, Clean, Orderly
               PROVE  /\ \A w \in Warm : state[w] = "ready" => guest[w] = {}
                      /\ \A s \in Scans :
                           pc[s] \in EnvPcs \cup ScanPcs =>
                             guest[BoxOf(s)] \subseteq {job[s]}
    BY DEF CleanGuest
  <2>1. \A w \in Warm : state[w] = "ready" => guest[w] = {}
    BY DEF Clean, ReadyClean, Traces
  <2> QED
    BY <2>1, ScanTraces DEF Traces
<1> QED
  BY <1>1, BooksInit, BooksNext, ExclusiveInit, ExclusiveNext, CleanInit, CleanNext,
     PTL DEF Spec

(* The evidence against a sample is that sample's: EvidenceOwn.            *)
THEOREM EvidenceIsOwn == Spec => []EvidenceOwn
<1>1. Clean => EvidenceOwn
  BY DEF Clean, DedicatedClean, Traces, EvidenceOwn
<1> QED
  BY <1>1, BooksInit, BooksNext, ExclusiveInit, ExclusiveNext, CleanInit, CleanNext,
     PTL DEF Spec

-----------------------------------------------------------------------------
(* The pool implements the lease.                                          *)

WorksIn(u, w) == Working(u) /\ at[u] = w
Free(w) == \A u \in Runners : ~WorksIn(u, w)

(* What the lease sees of a warm sandbox.                                  *)
Seen ==
  \A w \in Warm :
    /\ \A u \in Runners : WorksIn(u, w) =>
         /\ HolderOf(w) = u
         /\ StageOf(w) = IF u \in Scans THEN "used" ELSE "preparing"
    /\ Free(w) =>
         /\ HolderOf(w) = None
         /\ StageOf(w) = IF state[w] = "ready" THEN "ready" ELSE "idle"

LEMMA SeenOrderly == Books /\ Exclusive /\ Orderly => Seen
<1> SUFFICES ASSUME Books, Exclusive, Orderly, NEW w \in Warm
    PROVE  /\ \A u \in Runners : WorksIn(u, w) =>
                /\ HolderOf(w) = u
                /\ StageOf(w) = IF u \in Scans THEN "used" ELSE "preparing"
           /\ Free(w) =>
                /\ HolderOf(w) = None
                /\ StageOf(w) = IF state[w] = "ready" THEN "ready" ELSE "idle"
  BY DEF Seen
<1>1. ASSUME NEW u \in Runners, WorksIn(u, w)
      PROVE  /\ HolderOf(w) = u
             /\ StageOf(w) = IF u \in Scans THEN "used" ELSE "preparing"
  <2>1. Workers(w) = {u}
    BY <1>1 DEF Workers, WorksIn, Exclusive, Sole, SoleUser
  <2>2. HolderOf(w) = u
    BY <2>1 DEF HolderOf
  <2> QED
    BY <2>2, PoolAssumption DEF StageOf, Runners
<1>2. ASSUME Free(w)
      PROVE  /\ HolderOf(w) = None
             /\ StageOf(w) = IF state[w] = "ready" THEN "ready" ELSE "idle"
  <2>1. Workers(w) = {}
    BY <1>2 DEF Workers, WorksIn, Free
  <2>2. HolderOf(w) = None
    BY <2>1 DEF HolderOf
  <2> QED
    BY <2>2, PoolAssumption DEF StageOf, Runners
<1> QED
  BY <1>1, <1>2

SameFor(w) ==
  /\ \A u \in Runners : WorksIn(u, w)' <=> WorksIn(u, w)
  /\ Free(w) => (state'[w] = "ready" <=> state[w] = "ready")

LEMMA SameSeen ==
  ASSUME Seen, Seen', NEW w \in Warm, SameFor(w)
  PROVE  HolderOf(w)' = HolderOf(w) /\ StageOf(w)' = StageOf(w)
<1>1. CASE Free(w)
  <2>1. Free(w)'
    BY <1>1 DEF Free, SameFor
  <2> QED
    BY <1>1, <2>1 DEF Seen, SameFor
<1>2. CASE ~Free(w)
  <2>1. PICK u \in Runners : WorksIn(u, w)
    BY <1>2 DEF Free
  <2>2. WorksIn(u, w)'
    BY <2>1 DEF SameFor
  <2> QED
    BY <2>1, <2>2 DEF Seen
<1> QED
  BY <1>1, <1>2

(* Nothing that the lease sees.                                            *)
LEMMA SeenStays ==
  ASSUME Seen, Seen', \A w \in Warm : SameFor(w)
  PROVE  UNCHANGED Lease!leaseVars
BY SameSeen DEF Lease!leaseVars

(* A runner comes to one sandbox or leaves it.                             *)
LEMMA SeenMoves ==
  ASSUME Seen, Seen', Operators = {}, NEW w \in Warm, NEW u \in Runners,
         \A x \in Warm \ {w} : SameFor(x),
         \/ /\ Free(w) /\ WorksIn(u, w)'
            /\ IF u \in Scans THEN state[w] = "ready" ELSE TRUE
         \/ /\ WorksIn(u, w) /\ Free(w)'
            /\ u \in Scans => state'[w] # "ready"
  PROVE  Lease!LeaseNext
<1>1. \A x \in Warm \ {w} : HolderOf(x)' = HolderOf(x) /\ StageOf(x)' = StageOf(x)
  BY SameSeen
<1>2. /\ [x \in Warm |-> StageOf(x)]' = [[x \in Warm |-> StageOf(x)] EXCEPT ![w] = StageOf(w)']
      /\ [x \in Warm |-> HolderOf(x)]' = [[x \in Warm |-> HolderOf(x)] EXCEPT ![w] = HolderOf(w)']
  BY <1>1
<1>3. u \in Scans \/ u \in Preloaders \cup Operators
  BY DEF Runners
<1>4. CASE Free(w) /\ WorksIn(u, w)'
  <2>1. /\ HolderOf(w) = None /\ HolderOf(w)' = u
        /\ StageOf(w) = IF state[w] = "ready" THEN "ready" ELSE "idle"
        /\ StageOf(w)' = IF u \in Scans THEN "used" ELSE "preparing"
    BY <1>4 DEF Seen
  <2>2. CASE u \in Scans
    <3>1. Lease!Take(w, u)
      BY <1>2, <1>4, <2>1, <2>2 DEF Lease!Take, Lease!Change, Free
    <3> QED
      BY <2>2, <3>1 DEF Lease!LeaseNext
  <2>3. CASE u \notin Scans
    <3>1. Lease!Prepare(w, u)
      BY <1>2, <2>1, <2>3 DEF Lease!Prepare, Lease!Change
    <3> QED
      BY <1>3, <2>3, <3>1 DEF Lease!LeaseNext
  <2> QED
    BY <2>2, <2>3
<1>5. CASE WorksIn(u, w) /\ Free(w)'
  <2>1. /\ HolderOf(w) = u /\ HolderOf(w)' = None
        /\ StageOf(w) = IF u \in Scans THEN "used" ELSE "preparing"
        /\ StageOf(w)' = IF state'[w] = "ready" THEN "ready" ELSE "idle"
    BY <1>5 DEF Seen
  <2>2. CASE u \in Scans
    <3>1. Lease!Return(w, u)
      BY <1>2, <1>5, <2>1, <2>2 DEF Lease!Return, Lease!Change, Free
    <3> QED
      BY <2>2, <3>1 DEF Lease!LeaseNext
  <2>3. CASE u \notin Scans
    <3>1. Lease!Offer(w, u) \/ Lease!Abandon(w, u)
      BY <1>2, <2>1, <2>3 DEF Lease!Offer, Lease!Abandon, Lease!Change
    <3> QED
      BY <1>3, <2>3, <3>1 DEF Lease!LeaseNext
  <2> QED
    BY <2>2, <2>3
<1> QED
  BY <1>4, <1>5

(* A sandbox that nobody uses is no longer on offer.                       *)
LEMMA SeenWithdrawn ==
  ASSUME Seen, Seen', NEW w \in Warm, \A x \in Warm \ {w} : SameFor(x),
         Free(w), Free(w)', state'[w] = "cold"
  PROVE  [Lease!LeaseNext]_(Lease!leaseVars)
<1>1. CASE state[w] = "ready"
  <2>1. /\ HolderOf(w) = None /\ HolderOf(w)' = None
        /\ StageOf(w) = "ready" /\ StageOf(w)' = "idle"
    BY <1>1 DEF Seen
  <2>2. \A x \in Warm \ {w} : HolderOf(x)' = HolderOf(x) /\ StageOf(x)' = StageOf(x)
    BY SameSeen
  <2>3. Lease!Withdraw(w)
    BY <2>1, <2>2 DEF Lease!Withdraw, Lease!Change
  <2> QED
    BY <2>3 DEF Lease!LeaseNext
<1>2. CASE state[w] # "ready"
  <2>1. \A x \in Warm : SameFor(x)
    BY <1>2 DEF SameFor, Free
  <2> QED
    BY <2>1, SeenStays
<1> QED
  BY <1>1, <1>2

LEMMA LeaseStep ==
  ASSUME Books, Exclusive, Orderly, Operators = {}, Seen, Seen', Exclusive', Orderly',
         NEW u \in Runners, Others(u),
         Works(u)
  PROVE  [Lease!LeaseNext]_(Lease!leaseVars)
<1>1. \A v \in Runners \ {u}, w \in Warm : WorksIn(v, w)' <=> WorksIn(v, w)
  BY DEF Others, WorksIn, Working
<1>2. \A v \in Runners, w \in Warm : WorksIn(u, w) /\ WorksIn(v, w) => u = v
  BY DEF WorksIn, Exclusive, Sole, SoleUser
<1>3. \A v \in Runners, w \in Warm : WorksIn(u, w)' /\ WorksIn(v, w)' => u = v
  BY DEF WorksIn, Exclusive, Sole, SoleUser
<1>4. \A w \in Warm : w # at[u] => state'[w] = state[w]
  BY DEF Works, Keeps, Takes, Gives, Resets, Loses, Emptied, Books, TypeOK
<1>5. CASE Working(u) /\ at[u] \in Warm
  <2>0. PICK w \in Warm : w = at[u]
    BY <1>5
  <2>1. Keeps(u) \/ Gives(u) \/ Resets(u)
    BY <1>5 DEF Works, Takes, Loses, Available
  <2>2. WorksIn(u, w) /\ ~Free(w)
    BY <1>5, <2>0 DEF WorksIn, Free
  <2>3. CASE Working(u)' /\ at'[u] = at[u]
    <3>1. \A x \in Warm : SameFor(x)
      BY <1>1, <1>4, <1>5, <2>0, <2>2, <2>3 DEF SameFor, WorksIn
    <3> QED
      BY <3>1, SeenStays
  <2>4. CASE ~(Working(u)' /\ at'[u] = at[u])
    <3>1. \A x \in Warm : ~WorksIn(u, x)'
      BY <1>5, <2>1, <2>4
      DEF WorksIn, Keeps, Gives, Resets, Working, EnvPcs
    <3>2. Free(w)'
      BY <1>1, <1>2, <2>2, <3>1 DEF Free
    <3>3. \A x \in Warm \ {w} : SameFor(x)
      BY <1>1, <1>4, <2>0, <3>1 DEF SameFor, WorksIn
    <3>4. u \in Scans => state'[w] # "ready"
      <4>1. u \in Scans => state[w] = "busy"
        BY <1>5, <2>0 DEF Exclusive, StateTells
      <4>2. u \in Scans /\ Gives(u) => outcome[u] # "ready"
        BY DEF Gives, Books, Fit, MarksWhat
      <4> QED
        BY <1>5, <2>0, <2>1, <4>1, <4>2 DEF Keeps, Gives, Resets, Emptied,
                                               Working, Books, TypeOK
    <3> QED
      BY <2>2, <3>2, <3>3, <3>4, SeenMoves
  <2> QED
    BY <2>3, <2>4
<1>6. CASE ~(Working(u) /\ at[u] \in Warm)
  <2>1. \A x \in Warm : ~WorksIn(u, x)
    BY <1>6 DEF WorksIn
  <2>2. CASE Takes(u)
    <3>0. PICK w \in Warm : w = at[u]
      BY <2>2 DEF Takes, Available
    <3>1. WorksIn(u, w)'
      BY <2>2, <3>0 DEF Takes, WorksIn, Working
    <3>2. Free(w)
      BY <1>1, <1>3, <2>1, <3>1 DEF Free
    <3>3. \A x \in Warm \ {w} : SameFor(x)
      BY <1>1, <1>4, <2>1, <2>2, <3>0 DEF SameFor, WorksIn, Takes
    <3>4. u \in Scans => state[w] = "ready"
      BY <2>2, <3>0, PoolAssumption DEF Takes, Available
    <3> QED
      BY <3>1, <3>2, <3>3, <3>4, SeenMoves
  <2>3. CASE Keeps(u)
    <3>1. \A x \in Warm : ~WorksIn(u, x)'
      BY <1>6, <2>3 DEF Keeps, WorksIn
    <3>2. \A x \in Warm : SameFor(x)
      BY <1>1, <2>1, <2>3, <3>1 DEF SameFor, Keeps
    <3> QED
      BY <3>2, SeenStays
  <2>4. CASE Loses(u)
    <3>0. PICK w \in Warm : w = at[u]
      BY <2>4 DEF Loses, Available
    <3>1. \A x \in Warm : ~WorksIn(u, x)'
      BY <2>4 DEF Loses, WorksIn
    <3>2. Free(w)
      BY <2>4, <3>0, NobodyThere DEF Loses, Free, WorksIn
    <3>3. Free(w)'
      BY <1>1, <3>1, <3>2 DEF Free
    <3>4. state'[w] = "cold" /\ \A x \in Warm \ {w} : SameFor(x)
      BY <1>1, <1>4, <2>1, <2>4, <3>0, <3>1
      DEF SameFor, Loses, Emptied, Books, TypeOK
    <3> QED
      BY <3>2, <3>3, <3>4, SeenWithdrawn
  <2> QED
    BY <1>6, <2>2, <2>3, <2>4 DEF Works, Gives, Resets, Working
<1> QED
  BY <1>5, <1>6

(* A process that begins or a scan that ends works in no sandbox.          *)
LEMMA BeginLease ==
  ASSUME Seen, Seen', NEW started \in SUBSET Runners, NEW ended \in SUBSET Runners,
         Begin(started, ended), UNCHANGED state,
         \A u \in started \cup ended : pc[u] \in {"idle", "exit"}
  PROVE  UNCHANGED Lease!leaseVars
<1>1. \A u \in started \cup ended : ~Working(u) /\ ~Working(u)'
  BY DEF Begin, Working, EnvPcs, ScanPcs
<1>2. \A u \in Runners \ (started \cup ended) :
        Working(u)' = Working(u) /\ at'[u] = at[u]
  BY DEF Begin, Working
<1>3. \A w \in Warm : SameFor(w)
  BY <1>1, <1>2 DEF SameFor, WorksIn
<1> QED
  BY <1>3, SeenStays

LEMMA LeaseNextStep ==
  ASSUME Books, Exclusive, Orderly, Seen, Seen', Exclusive', Orderly', [Next]_vars
  PROVE  [Lease!LeaseNext]_(Lease!leaseVars)
<1> Operators = {}
  BY DEF Orderly
<1>1. ASSUME NEW s \in Scans, ScanStep(s)
      PROVE  [Lease!LeaseNext]_(Lease!leaseVars)
  <2>0. s \in Runners
    BY DEF Runners
  <2>1. CASE ScanExit(s)
    <3>1. PICK started \in SUBSET Preloaders :
            /\ Begin(started, {s})
            /\ \A p \in started : pc[p] = "idle"
      BY <2>1 DEF ScanExit, WarmUp
    <3>2. UNCHANGED state /\ pc[s] = "exit"
      BY <2>1 DEF ScanExit, poolVars
    <3>3. UNCHANGED Lease!leaseVars
      BY <2>0, <3>1, <3>2, BeginLease DEF Runners
    <3> QED
      BY <3>3
  <2>2. CASE ~ScanExit(s)
    BY <1>1, <2>0, <2>2, ScanAlone, ScanWork, LeaseStep
  <2> QED
    BY <2>1, <2>2
<1>2. ASSUME NEW p \in Preloaders, PoolStep(p)
      PROVE  [Lease!LeaseNext]_(Lease!leaseVars)
  BY <1>2, PoolAlone, PoolWork, LeaseStep DEF Runners
<1>3. ASSUME NEW u \in Runners, RunnerStep(u)
      PROVE  [Lease!LeaseNext]_(Lease!leaseVars)
  BY <1>3, RunnerAlone, RunnerWork, LeaseStep
<1>4. CASE ServerStart
  <2>1. PICK p \in Preloaders : Begin({p}, {}) /\ pc[p] = "idle"
    BY <1>4 DEF ServerStart
  <2>2. UNCHANGED state /\ {p} \in SUBSET Runners /\ {} \in SUBSET Runners
    BY <1>4 DEF ServerStart, poolVars, Runners
  <2>3. UNCHANGED Lease!leaseVars
    BY <2>1, <2>2, BeginLease
  <2> QED
    BY <2>3
<1>5. CASE UNCHANGED vars \/ \E b \in Boxes : GuestLog(b)
  <2>1. UNCHANGED <<pc, at, outcome, state>>
    BY <1>5 DEF vars, GuestLog, poolVars
  <2>2. \A w \in Warm : SameFor(w)
    BY <2>1 DEF SameFor, WorksIn, Working
  <2> QED
    BY <2>2, SeenStays
<1> QED
  BY <1>1, <1>2, <1>3, <1>4, <1>5 DEF Next

LEMMA LeaseStart == Init => Lease!LeaseInit
<1> SUFFICES ASSUME Init PROVE Lease!LeaseInit
  OBVIOUS
<1>1. \A w \in Warm : Workers(w) = {} /\ state[w] = "cold"
  BY DEF Init, Workers, Working, EnvPcs, ScanPcs
<1>2. \A w \in Warm : HolderOf(w) = None /\ StageOf(w) = "idle"
  BY <1>1, PoolAssumption DEF HolderOf, StageOf, Runners
<1> QED
  BY <1>2 DEF Lease!LeaseInit

(* One server and nobody preparing by hand: the pool keeps the lease       *)
(* whatever fails and whoever dies (KeepsLease).                           *)
THEOREM PoolKeepsLease ==
  ASSUME MaxBoots = 1, Operators = {}, "lost" \notin Faults
  PROVE  Spec => KeepsLease
<1>1. Books => Orderly
  BY DEF Books, TypeOK, Orderly, Admits
<1>2. Books /\ Exclusive => Seen
  BY <1>1, SeenOrderly
<1>3. /\ Books /\ Exclusive /\ Seen
      /\ (Books /\ Exclusive /\ Seen)'
      /\ [Next]_vars
      => [Lease!LeaseNext]_(Lease!leaseVars)
  <2>1. Books' => Orderly'
    BY DEF Books, TypeOK, Orderly, Admits
  <2> QED
    BY <1>1, <2>1, LeaseNextStep
<1>4. Spec => [](Books /\ Exclusive /\ Seen)
  BY <1>2, BooksInit, BooksNext, ExclusiveInit, ExclusiveNext, PTL DEF Spec
<1> QED
  BY <1>3, <1>4, LeaseStart, PTL DEF Spec, KeepsLease, Lease!LeaseSpec
=============================================================================
