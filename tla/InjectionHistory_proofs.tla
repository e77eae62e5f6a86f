----------------------- MODULE InjectionHistory_proofs -----------------------
(***************************************************************************)
(* The analysis implements InjectionHistory: whatever the caches have      *)
(* erased, the correlating detectors report what the whole history of      *)
(* events calls for.                                                       *)
(***************************************************************************)
EXTENDS ThreadAnalysis_proofs

-----------------------------------------------------------------------------
(* The abstract variable.                                                  *)

Signed(f) == {s \in f : s[1] \in Correlators}
Reports == [i \in DOMAIN found |-> Signed(found[i])]

Opens(h, s, t, j) ==
  /\ ProcessAccess(h[j].event) /\ Crosses(h[j].event)
  /\ h[j].event.src = s /\ h[j].event.tgt = t

LEMMA SameOpening ==
  ASSUME NEW h, NEW s, NEW t, NEW j
  PROVE  History!Opened(h, s, t, j) <=> Opens(h, s, t, j)
  BY DEF History!Opened, History!ProcessAccess, History!Crosses,
         Opens, ProcessAccess, Crosses

(* A record of the Sysmon channel is no sign of an injection and no access *)
(* to a process: its normalisation leaves the names out.                   *)
LEMMA SysmonIsQuiet ==
  ASSUME NEW e \in Events, e.provider = "Sysmon"
  PROVE  /\ ~ProcessAccess(e) /\ ~CreatesRemoteThread(e) /\ ~QueuesApc(e)
         /\ ~StartsThread(e) /\ ~HintsInjection(e)
<1>1. e.task = None /\ e.name \in {None, "SetValue"}
  BY EventsAssumption DEF SysmonShape
<1>2. None \notin {"OpenProcess", "OpenThread", "CreateRemoteThread", "QueueUserAPC",
                  "Thread", "Thread/Start"}
  BY EventsAssumption
<1> QED
  BY <1>1, <1>2 DEF ProcessAccess, CreatesRemoteThread, QueuesApc, StartsThread,
                    HintsInjection

-----------------------------------------------------------------------------
(* What a window tells of the history h: the last access, unless that was  *)
(* so long ago that it no longer counts.                                   *)

Tells(h, w) ==
  \A s, t \in Pids : w[<<s, t>>].access # 0 =>
    \E j \in DOMAIN h : Opens(h, s, t, j) /\ h[j].at = w[<<s, t>>].access

Remembers(h, w) ==
  \A s, t \in Pids : \A j \in DOMAIN h : Opens(h, s, t, j) =>
    h[j].at <= w[<<s, t>>].access \/ clock > h[j].at + CorrelationWindow

CrossInv == Tells(log, cross) /\ Remembers(log, cross)

LEMMA Windowed ==
  ASSUME AnalysisTypeOK, CrossInv, NEW e \in Events, NEW now \in 1..clock, Analyzed(e, now)
  PROVE  Tells(log', Windows(e, now)) /\ Remembers(log', Windows(e, now))
<1> DEFINE n == Len(log)
           w == Windows(e, now)
<1>0. /\ n \in Nat /\ DOMAIN log = 1..n /\ DOMAIN log' = 1..(n + 1)
      /\ log'[n + 1] = [event |-> e, at |-> now]
      /\ \A i \in 1..n : log'[i] = log[i] /\ log[i].at \in 1..clock
  BY Grown, Entries
<1>a. clock \in Nat /\ CorrelationWindow \in Nat
  BY WindowsAssumption DEF AnalysisTypeOK
<1>b. \A i \in 1..n : \A s, t : Opens(log', s, t, i) <=> Opens(log, s, t, i)
  BY <1>0 DEF Opens
<1>c. \A s, t : Opens(log', s, t, n + 1) <=>
        ProcessAccess(e) /\ Crosses(e) /\ e.src = s /\ e.tgt = t
  BY <1>0 DEF Opens
<1>d. ProcessAccess(e) => now = clock
  BY SysmonIsQuiet DEF Analyzed
<1>e. ASSUME NEW s \in Pids, NEW t \in Pids
      PROVE  /\ Opens(log', s, t, n + 1) => w[<<s, t>>].access = now
             /\ ~Opens(log', s, t, n + 1) => w[<<s, t>>].access = cross[<<s, t>>].access
  <2>1. <<s, t>> \in Pids \X Pids
    BY <1>e
  <2>2. w[<<s, t>>] = IF Crosses(e) /\ <<s, t>> = <<e.src, e.tgt>>
                      THEN WindowAfter(cross[<<s, t>>], e, now) ELSE cross[<<s, t>>]
    BY <2>1 DEF Windows
  <2> HIDE DEF w
  <2>3. CASE Crosses(e) /\ <<s, t>> = <<e.src, e.tgt>>
    BY <1>c, <2>2, <2>3 DEF WindowAfter
  <2>4. CASE ~(Crosses(e) /\ <<s, t>> = <<e.src, e.tgt>>)
    BY <1>c, <2>2, <2>4
  <2> QED
    BY <2>3, <2>4
<1> HIDE DEF n, w
<1>1. Tells(log', w)
  <2> SUFFICES ASSUME NEW s \in Pids, NEW t \in Pids, w[<<s, t>>].access # 0
               PROVE  \E j \in DOMAIN log' : Opens(log', s, t, j)
                                             /\ log'[j].at = w[<<s, t>>].access
    BY DEF Tells
  <2>1. CASE Opens(log', s, t, n + 1)
    BY <1>0, <1>e, <2>1
  <2>2. CASE ~Opens(log', s, t, n + 1)
    <3>1. w[<<s, t>>].access = cross[<<s, t>>].access
      BY <1>e, <2>2
    <3>2. PICK j \in DOMAIN log : Opens(log, s, t, j) /\ log[j].at = cross[<<s, t>>].access
      BY <3>1 DEF CrossInv, Tells
    <3> QED
      BY <1>0, <1>b, <3>1, <3>2
  <2> QED
    BY <2>1, <2>2
<1>2. Remembers(log', w)
  <2> SUFFICES ASSUME NEW s \in Pids, NEW t \in Pids, NEW j \in 1..(n + 1),
                      Opens(log', s, t, j)
               PROVE  log'[j].at <= w[<<s, t>>].access
                      \/ clock > log'[j].at + CorrelationWindow
    BY <1>0 DEF Remembers
  <2>1. CASE j = n + 1
    BY <1>0, <1>a, <1>e, <2>1
  <2>2. CASE j \in 1..n
    <3>1. Opens(log, s, t, j) /\ log'[j].at = log[j].at /\ log[j].at \in 1..clock
      BY <1>0, <1>b, <2>2
    <3>2. log[j].at <= cross[<<s, t>>].access \/ clock > log[j].at + CorrelationWindow
      BY <1>0, <2>2, <3>1 DEF CrossInv, Remembers
    <3>3. CASE Opens(log', s, t, n + 1)
      BY <1>a, <1>c, <1>d, <1>e, <3>1, <3>3
    <3>4. CASE ~Opens(log', s, t, n + 1)
      BY <1>e, <3>1, <3>2, <3>4
    <3> QED
      BY <3>3, <3>4
  <2> QED
    BY <1>0, <2>1, <2>2
<1> QED
  BY <1>1, <1>2 DEF w

(* cleanup erases an access only when it no longer counts.                 *)
LEMMA CrossAnalyzed ==
  ASSUME AnalysisTypeOK, CrossInv, NEW e \in Events, NEW now \in 1..clock, Analyzed(e, now)
  PROVE  CrossInv'
<1> DEFINE w == Windows(e, now)
<1>1. Tells(log', w) /\ Remembers(log', w)
  BY Windowed
<1>2. w \in [Pids \X Pids -> [access : 0..clock, action : 0..clock]]
  BY WindowsType
<1>3. /\ clock \in Nat /\ CorrelationWindow \in Nat /\ XprocTTL \in Nat
      /\ CorrelationWindow <= XprocTTL
  BY WindowsAssumption DEF AnalysisTypeOK
<1>4. clock' = clock /\ cross' = KeptWindows(w, now) /\ now \in 1..clock
  BY DEF Analyzed
<1>5. \A i \in DOMAIN log' : log'[i].at \in 1..clock
  <2>1. /\ Len(log) \in Nat /\ DOMAIN log = 1..Len(log) /\ DOMAIN log' = 1..(Len(log) + 1)
        /\ log'[Len(log) + 1] = [event |-> e, at |-> now]
        /\ \A i \in 1..Len(log) : log'[i] = log[i]
    BY Grown
  <2>2. \A i \in 1..Len(log) : log[i].at \in 1..clock
    BY <2>1, Entries
  <2> QED
    BY <1>4, <2>1, <2>2
<1> HIDE DEF w
<1>6. ASSUME NEW s \in Pids, NEW t \in Pids
      PROVE  \/ cross'[<<s, t>>] = w[<<s, t>>]
             \/ /\ cross'[<<s, t>>].access = 0
                /\ w[<<s, t>>].access = 0 \/ now > w[<<s, t>>].access + XprocTTL
  <2>1. cross'[<<s, t>>] = IF Kept(LastWindow(w[<<s, t>>]), XprocTTL, now)
                           THEN w[<<s, t>>] ELSE NoWindow
    BY <1>4, <1>6 DEF KeptWindows
  <2>2. w[<<s, t>>].access \in Nat
    BY <1>2, <1>3, <1>6
  <2> QED
    BY <1>3, <1>4, <2>1, <2>2 DEF Kept, LastWindow, NoWindow
<1>7. Tells(log', cross')
  BY <1>1, <1>6 DEF Tells
<1>8. Remembers(log', cross')
  <2> SUFFICES ASSUME NEW s \in Pids, NEW t \in Pids, NEW j \in DOMAIN log',
                      Opens(log', s, t, j)
               PROVE  log'[j].at <= cross'[<<s, t>>].access
                      \/ clock > log'[j].at + CorrelationWindow
    BY DEF Remembers
  <2>1. log'[j].at \in 1..clock /\ w[<<s, t>>].access \in 0..clock
    BY <1>2, <1>5
  <2>2. log'[j].at <= w[<<s, t>>].access \/ clock > log'[j].at + CorrelationWindow
    BY <1>1 DEF Remembers
  <2> QED
    BY <1>3, <1>4, <1>6, <2>1, <2>2
<1> QED
  BY <1>4, <1>7, <1>8 DEF CrossInv, Tells, Remembers

LEMMA CrossInit == AnalysisInit => CrossInv
  BY DEF AnalysisInit, CrossInv, Tells, Remembers, NoWindow

LEMMA CrossStep ==
  AnalysisTypeOK /\ CrossInv /\ [AnalysisNext]_analysisVars => CrossInv'
<1> SUFFICES ASSUME AnalysisTypeOK, CrossInv, [AnalysisNext]_analysisVars PROVE CrossInv'
  OBVIOUS
<1>1. clock \in 1..MaxTime
  BY DEF AnalysisTypeOK
<1>2. CASE \E e \in Events, now \in 1..clock : Analyzed(e, now)
  BY <1>2, CrossAnalyzed
<1>3. CASE Tick \/ UNCHANGED analysisVars
  <2>1. clock' \in {clock, clock + 1} /\ UNCHANGED <<cross, log>>
    BY <1>3 DEF Tick, analysisVars, caches
  <2>2. clock \in Nat /\ CorrelationWindow \in Nat /\ \A j \in DOMAIN log : log[j].at \in Nat
    BY WindowsAssumption, Entries DEF AnalysisTypeOK
  <2>3. Remembers(log, cross)'
    BY <2>1, <2>2 DEF CrossInv, Remembers, Opens
  <2> QED
    BY <2>1, <2>3 DEF CrossInv, Tells, Opens
<1> QED
  BY <1>1, <1>2, <1>3, Steps

-----------------------------------------------------------------------------
(* Sources.  The caches are asked at the clock's time, as only records     *)
(* that do not lag behind are asked about.                                 *)

LEMMA OpeningsAre ==
  ASSUME NEW h, NEW s, NEW t, NEW now, NEW a
  PROVE  a \in History!Openings(h, s, t, now) <=>
           \E j \in DOMAIN h : /\ Opens(h, s, t, j) /\ a = h[j].at
                               /\ Within(CorrelationWindow, a, now)
  BY SameOpening DEF History!Openings, History!Within, Within

(* A window that is recent holds the latest of the openings.               *)
LEMMA SameRecent ==
  ASSUME AnalysisTypeOK, NEW h, NEW w, Tells(h, w), Remembers(h, w),
         w \in [Pids \X Pids -> [access : 0..clock, action : 0..clock]],
         \A j \in DOMAIN h : h[j].at \in 1..clock,
         NEW s \in Pids, NEW t \in Pids
  PROVE  /\ Recent(w, s, t, clock) <=> History!HasOpened(h, s, t, clock)
         /\ Recent(w, s, t, clock) =>
              /\ w[<<s, t>>].access \in History!Openings(h, s, t, clock)
              /\ s # t
         /\ \A a \in History!Openings(h, s, t, clock) : a <= w[<<s, t>>].access
<1> DEFINE W == w[<<s, t>>].access
<1>1. W \in 0..clock /\ clock \in Nat /\ CorrelationWindow \in Nat
  BY WindowsAssumption DEF AnalysisTypeOK
<1>s. Recent(w, s, t, clock) <=> W # 0 /\ W <= clock /\ clock <= W + CorrelationWindow
  BY DEF Recent, Within
<1>k. W # 0 => \E j \in DOMAIN h : Opens(h, s, t, j) /\ h[j].at = W
  BY DEF Tells
<1>l. \A j \in DOMAIN h : Opens(h, s, t, j) =>
        h[j].at <= W \/ clock > h[j].at + CorrelationWindow
  BY DEF Remembers
<1> HIDE DEF W
<1>2. \A a \in History!Openings(h, s, t, clock) :
        a \in 1..clock /\ a <= W /\ clock <= a + CorrelationWindow
  <2> SUFFICES ASSUME NEW a \in History!Openings(h, s, t, clock)
               PROVE  a \in 1..clock /\ a <= W /\ clock <= a + CorrelationWindow
    OBVIOUS
  <2>1. PICK j \in DOMAIN h : /\ Opens(h, s, t, j) /\ a = h[j].at
                              /\ Within(CorrelationWindow, a, clock)
    BY OpeningsAre
  <2>2. a \in 1..clock /\ clock <= a + CorrelationWindow
    BY <2>1 DEF Within
  <2>3. a <= W \/ clock > a + CorrelationWindow
    BY <1>l, <2>1
  <2> QED
    BY <1>1, <2>2, <2>3
<1>3. Recent(w, s, t, clock) => W \in History!Openings(h, s, t, clock) /\ s # t
  <2> SUFFICES ASSUME Recent(w, s, t, clock)
               PROVE  W \in History!Openings(h, s, t, clock) /\ s # t
    OBVIOUS
  <2>1. PICK j \in DOMAIN h : Opens(h, s, t, j) /\ h[j].at = W
    BY <1>k, <1>s
  <2>2. Within(CorrelationWindow, W, clock)
    BY <1>s DEF Within
  <2> QED
    BY <2>1, <2>2, OpeningsAre DEF Opens, Crosses
<1>4. ASSUME NEW a \in History!Openings(h, s, t, clock) PROVE Recent(w, s, t, clock)
  BY <1>1, <1>2, <1>s, <1>4
<1>5. History!HasOpened(h, s, t, clock) <=> History!Openings(h, s, t, clock) # {}
  BY DEF History!HasOpened
<1> QED
  BY <1>2, <1>3, <1>4, <1>5 DEF W

LEMMA SameLatest ==
  ASSUME AnalysisTypeOK, NEW h, NEW w, Tells(h, w), Remembers(h, w),
         w \in [Pids \X Pids -> [access : 0..clock, action : 0..clock]],
         \A j \in DOMAIN h : h[j].at \in 1..clock,
         NEW s \in Pids, NEW t \in Pids
  PROVE  s \in LatestSource(w, t, clock) <=> History!LastToOpen(h, s, t, clock)
<1> DEFINE A(u) == w[<<u, t>>].access
           O(u) == History!Openings(h, u, t, clock)
<1>0. \A u \in Pids : A(u) \in Nat /\ u \in Nat
  BY WindowsAssumption, EventsAssumption DEF AnalysisTypeOK
<1>1. \A u \in Pids : Recent(w, u, t, clock) <=> O(u) # {}
  BY SameRecent DEF History!HasOpened
<1>2. \A u \in Pids : Recent(w, u, t, clock) => A(u) \in O(u)
  BY SameRecent
<1>3. \A u \in Pids : \A a \in O(u) : a \in Nat /\ a <= A(u)
  <2> SUFFICES ASSUME NEW u \in Pids, NEW a \in O(u) PROVE a \in Nat /\ a <= A(u)
    OBVIOUS
  <2>1. a <= A(u)
    BY SameRecent
  <2>2. PICK j \in DOMAIN h : a = h[j].at
    BY OpeningsAre
  <2> QED
    BY <2>1, <2>2, WindowsAssumption DEF AnalysisTypeOK
<1>l. s \in LatestSource(w, t, clock) <=>
        /\ Recent(w, s, t, clock)
        /\ \A u \in Pids : Recent(w, u, t, clock) =>
             A(u) < A(s) \/ (A(u) = A(s) /\ s <= u)
  BY Zenon DEF LatestSource
<1>r. History!LastToOpen(h, s, t, clock) <=>
        \E a \in O(s) : \A u \in Pids : \A b \in O(u) : b < a \/ (b = a /\ s <= u)
  BY DEF History!LastToOpen
<1> HIDE DEF A, O
<1>4. ASSUME s \in LatestSource(w, t, clock) PROVE History!LastToOpen(h, s, t, clock)
  <2>1. A(s) \in O(s)
    BY <1>2, <1>4, <1>l
  <2>2. ASSUME NEW u \in Pids, NEW b \in O(u) PROVE b < A(s) \/ (b = A(s) /\ s <= u)
    <3>1. Recent(w, u, t, clock) /\ b <= A(u) /\ b \in Nat /\ A(u) \in Nat /\ A(s) \in Nat
      BY <1>0, <1>1, <1>3, <2>2
    <3>2. A(u) < A(s) \/ (A(u) = A(s) /\ s <= u)
      BY <1>4, <1>l, <3>1
    <3> QED
      BY <3>1, <3>2
  <2> QED
    BY <1>r, <2>1, <2>2
<1>5. ASSUME History!LastToOpen(h, s, t, clock) PROVE s \in LatestSource(w, t, clock)
  <2>1. PICK a \in O(s) : \A u \in Pids : \A b \in O(u) : b < a \/ (b = a /\ s <= u)
    BY <1>5, <1>r
  <2>2. Recent(w, s, t, clock) /\ A(s) \in O(s)
    BY <1>1, <1>2, <2>1
  <2>3. a = A(s)
    <3>1. a \in Nat /\ a <= A(s) /\ A(s) \in Nat
      BY <1>0, <1>3
    <3>2. A(s) < a \/ A(s) = a
      BY <2>1, <2>2
    <3> QED
      BY <3>1, <3>2
  <2>4. ASSUME NEW u \in Pids, Recent(w, u, t, clock)
        PROVE  A(u) < A(s) \/ (A(u) = A(s) /\ s <= u)
    <3>1. A(u) \in O(u)
      BY <1>2, <2>4
    <3>2. A(u) < a \/ (A(u) = a /\ s <= u)
      BY <2>1, <3>1
    <3> QED
      BY <2>3, <3>2
  <2> QED
    BY <1>l, <2>2, <2>4
<1> QED
  BY <1>4, <1>5

-----------------------------------------------------------------------------
(* What the correlating detectors offer, and what the history signs.       *)

SignedBy(h, e, now, d, k) ==
  \/ /\ d = "RemoteThread" /\ k = Pair(e)
     /\ CreatesRemoteThread(e) /\ Crosses(e) /\ History!HasOpened(h, e.src, e.tgt, now)
  \/ /\ d = "ApcQueue" /\ k = Pair(e)
     /\ QueuesApc(e) /\ Crosses(e) /\ History!HasOpened(h, e.src, e.tgt, now)
  \/ /\ d = "ThreatIntel" /\ k = Pair(e)
     /\ HintsInjection(e) /\ Crosses(e)
     /\ e.provider = "ThreatIntel" \/ History!HasOpened(h, e.src, e.tgt, now)
  \/ /\ d = "RemoteThread"
     /\ \E s \in Pids : /\ k = <<s, e.tgt, e.ttid>>
                        /\ StartsThread(e) /\ e.tgt # None
                        /\ History!LastToOpen(h, s, e.tgt, now)

LEMMA SignsAre ==
  ASSUME NEW h, NEW e, NEW now, NEW d, NEW k
  PROVE  <<d, k>> \in History!Signs(h, e, now) <=> SignedBy(h, e, now, d, k)
  BY DEF History!Signs, SignedBy, Pair, History!CreatesRemoteThread, CreatesRemoteThread,
         History!QueuesApc, QueuesApc, History!HintsInjection, HintsInjection,
         History!StartsThread, StartsThread, History!Crosses, Crosses

LEMMA SignsPairs ==
  ASSUME NEW h, NEW e, NEW now, NEW s \in History!Signs(h, e, now)
  PROVE  s = <<s[1], s[2]>> /\ s[1] \in Correlators
  BY DEF History!Signs, Correlators

LEMMA SameSigns ==
  ASSUME AnalysisTypeOK, CrossInv, NEW e \in Events, NEW now \in 1..clock, Analyzed(e, now),
         NEW d \in Correlators, NEW k
  PROVE  k \in Offers(d, Threads(e, now), Windows(e, now), ImagesSeen(e, now), e, now)
           <=> SignedBy(log', e, now, d, k)
<1> DEFINE w == Windows(e, now)
           h == log'
<1>1. /\ Tells(h, w) /\ Remembers(h, w)
      /\ w \in [Pids \X Pids -> [access : 0..clock, action : 0..clock]]
  BY Windowed, WindowsType
<1>2. \A j \in DOMAIN h : h[j].at \in 1..clock
  <2>1. /\ Len(log) \in Nat /\ DOMAIN log = 1..Len(log) /\ DOMAIN h = 1..(Len(log) + 1)
        /\ h[Len(log) + 1] = [event |-> e, at |-> now]
        /\ \A i \in 1..Len(log) : h[i] = log[i]
    BY Grown
  <2>2. \A i \in 1..Len(log) : log[i].at \in 1..clock
    BY <2>1, Entries
  <2> QED
    BY <2>1, <2>2
<1>3. e.src \in Pids \cup {None} /\ e.tgt \in Pids \cup {None}
  BY EventFields
<1>4. e.provider # "Sysmon" => now = clock
  BY DEF Analyzed
<1>5. d \in {"RemoteThread", "ApcQueue", "ThreatIntel"}
  BY DEF Correlators
<1>o. /\ d = "RemoteThread" => Offers(d, Threads(e, now), w, ImagesSeen(e, now), e, now)
                                 = RemoteThreadOffers(w, e, now)
      /\ d = "ApcQueue" => Offers(d, Threads(e, now), w, ImagesSeen(e, now), e, now)
                             = ApcOffers(w, e, now)
      /\ d = "ThreatIntel" => Offers(d, Threads(e, now), w, ImagesSeen(e, now), e, now)
                                = ThreatIntelOffers(w, e, now)
  BY DEF Offers
<1> HIDE DEF w, h
<1>6. CASE e.provider = "Sysmon"
  <2>1. /\ ~CreatesRemoteThread(e) /\ ~QueuesApc(e) /\ ~StartsThread(e) /\ ~HintsInjection(e)
    BY <1>6, SysmonIsQuiet
  <2>2. k \notin Offers(d, Threads(e, now), w, ImagesSeen(e, now), e, now)
    BY <1>5, <1>o, <2>1 DEF RemoteThreadOffers, ApcOffers, ThreatIntelOffers
  <2>3. ~SignedBy(h, e, now, d, k)
    BY <2>1 DEF SignedBy
  <2> QED
    BY <2>2, <2>3 DEF w, h
<1>7. CASE e.provider # "Sysmon"
  <2>1. now = clock
    BY <1>4, <1>7
  <2>2. Crosses(e) => e.src \in Pids /\ e.tgt \in Pids
    BY <1>3 DEF Crosses
  <2>3. Correlated(w, e, now) <=> Crosses(e) /\ History!HasOpened(h, e.src, e.tgt, now)
    <3>1. CASE Crosses(e)
      BY <1>1, <1>2, <2>1, <2>2, <3>1, SameRecent DEF Correlated
    <3>2. CASE ~Crosses(e)
      BY <3>2 DEF Correlated
    <3> QED
      BY <3>1, <3>2
  <2>4. ASSUME e.tgt # None, NEW s \in Pids
        PROVE  s \in LatestSource(w, e.tgt, now) /\ s # e.tgt
                 <=> History!LastToOpen(h, s, e.tgt, now)
    <3>1. e.tgt \in Pids
      BY <1>3, <2>4
    <3>2. s \in LatestSource(w, e.tgt, now) <=> History!LastToOpen(h, s, e.tgt, now)
      BY <1>1, <1>2, <2>1, <3>1, SameLatest
    <3>3. s \in LatestSource(w, e.tgt, now) => Recent(w, s, e.tgt, now)
      BY DEF LatestSource
    <3>4. Recent(w, s, e.tgt, now) => s # e.tgt
      BY <1>1, <1>2, <2>1, <3>1, SameRecent
    <3> QED
      BY <3>2, <3>3, <3>4
  <2>5. CASE d = "RemoteThread"
    <3>1. k \in RemoteThreadOffers(w, e, now) <=>
            \/ k = Pair(e) /\ CreatesRemoteThread(e) /\ Correlated(w, e, now)
            \/ \E s \in Pids : /\ k = <<s, e.tgt, e.ttid>>
                               /\ StartsThread(e) /\ e.tgt # None
                               /\ s \in LatestSource(w, e.tgt, now) /\ s # e.tgt
      BY DEF RemoteThreadOffers
    <3>2. (\E s \in Pids : /\ k = <<s, e.tgt, e.ttid>>
                           /\ StartsThread(e) /\ e.tgt # None
                           /\ s \in LatestSource(w, e.tgt, now) /\ s # e.tgt)
          <=> (\E s \in Pids : /\ k = <<s, e.tgt, e.ttid>>
                               /\ StartsThread(e) /\ e.tgt # None
                               /\ History!LastToOpen(h, s, e.tgt, now))
      BY <2>4
    <3> QED
      BY <1>o, <2>3, <2>5, <3>1, <3>2 DEF SignedBy, w, h
  <2>6. CASE d = "ApcQueue"
    <3>1. k \in ApcOffers(w, e, now) <=> k = Pair(e) /\ QueuesApc(e) /\ Correlated(w, e, now)
      BY DEF ApcOffers
    <3> QED
      BY <1>o, <2>3, <2>6, <3>1 DEF SignedBy, w, h
  <2>7. CASE d = "ThreatIntel"
    <3>1. k \in ThreatIntelOffers(w, e, now) <=>
            /\ k = Pair(e) /\ HintsInjection(e) /\ Crosses(e)
            /\ e.provider = "ThreatIntel" \/ Correlated(w, e, now)
      BY DEF ThreatIntelOffers
    <3> QED
      BY <1>o, <2>3, <2>7, <3>1 DEF SignedBy, w, h
  <2> QED
    BY <1>5, <2>5, <2>6, <2>7
<1> QED
  BY <1>6, <1>7

-----------------------------------------------------------------------------
(* Duplicates.                                                             *)

LEMMA ReportsHave ==
  ASSUME AnalysisTypeOK, NEW d \in Correlators, NEW k, NEW i \in DOMAIN log
  PROVE  <<d, k>> \in Reports[i] <=> <<d, k>> \in found[i]
  BY Entries DEF Reports, Signed

LEMMA SameDuplicates ==
  ASSUME AnalysisTypeOK, RepeatInv, NEW d \in Correlators, NEW k
  PROVE  Duplicate(d, k, clock) <=> History!Reported(<<d, k>>, clock)
<1>1. /\ d \in Detectors /\ clock \in Nat /\ MaxLag \in Nat /\ DedupWindow[d] \in Nat
  BY WindowsAssumption DEF AnalysisTypeOK, Detectors
<1>2. History!Reported(<<d, k>>, clock) <=>
        \E i \in DOMAIN log : <<d, k>> \in Reports[i] /\ clock <= log[i].at + DedupWindow[d]
  BY DEF History!Reported, Reports, Signed
<1>3. \A i \in DOMAIN log : log[i].at \in Nat
  BY <1>1, Entries
<1>4. ASSUME Duplicate(d, k, clock) PROVE History!Reported(<<d, k>>, clock)
  <2>1. k \in DOMAIN recent[d] /\ clock <= recent[d][k] + DedupWindow[d]
    BY <1>4 DEF Duplicate
  <2>2. PICK i \in DOMAIN log : <<d, k>> \in found[i] /\ log[i].at = recent[d][k]
    BY <1>1, <2>1 DEF RepeatInv
  <2> QED
    BY <1>2, <2>1, <2>2, ReportsHave
<1>5. ASSUME History!Reported(<<d, k>>, clock) PROVE Duplicate(d, k, clock)
  <2>1. PICK i \in DOMAIN log : <<d, k>> \in Reports[i] /\ clock <= log[i].at + DedupWindow[d]
    BY <1>2, <1>5
  <2>2. Recalled(i, <<d, k>>)
    BY <2>1, ReportsHave DEF RepeatInv
  <2>3. ~(clock > log[i].at + DedupWindow[d] + MaxLag)
    BY <1>1, <1>3, <2>1
  <2>4. k \in DOMAIN recent[d] /\ recent[d][k] >= log[i].at
    BY <2>2, <2>3 DEF Recalled
  <2>5. recent[d][k] \in Nat
    BY <1>1, <2>4 DEF AnalysisTypeOK
  <2> QED
    BY <1>1, <1>3, <2>1, <2>4, <2>5 DEF Duplicate
<1> QED
  BY <1>4, <1>5

-----------------------------------------------------------------------------
(* The refinement.                                                         *)

NewReports(e, now) ==
  {s \in History!Signs(log', e, now) : ~History!Reported(s, now)}

LEMMA SameReports ==
  ASSUME AnalysisTypeOK, CrossInv, RepeatInv, NEW e \in Events, NEW now \in 1..clock,
         Analyzed(e, now)
  PROVE  Signed(Found(e, now)) = NewReports(e, now)
<1>1. ASSUME NEW d \in Correlators, NEW k
      PROVE  <<d, k>> \in Signed(Found(e, now)) <=> <<d, k>> \in NewReports(e, now)
  <2>1. d \in Detectors
    BY <1>1 DEF Detectors
  <2>2. <<d, k>> \in Signed(Found(e, now)) <=> k \in Fresh(d, e, now)
    BY <2>1, FoundHas DEF Signed
  <2>3. k \in Fresh(d, e, now) <=> SignedBy(log', e, now, d, k) /\ ~Duplicate(d, k, now)
    BY SameSigns DEF Fresh
  <2>4. <<d, k>> \in NewReports(e, now) <=>
          SignedBy(log', e, now, d, k) /\ ~History!Reported(<<d, k>>, now)
    BY SignsAre DEF NewReports
  <2>5. CASE e.provider # "Sysmon"
    <3>1. now = clock
      BY <2>5 DEF Analyzed
    <3>2. Duplicate(d, k, now) <=> History!Reported(<<d, k>>, now)
      BY <3>1, SameDuplicates
    <3> QED
      BY <2>2, <2>3, <2>4, <3>2
  <2>6. CASE e.provider = "Sysmon"
    <3>1. ~SignedBy(log', e, now, d, k)
      BY <2>6, SysmonIsQuiet DEF SignedBy
    <3> QED
      BY <2>2, <2>3, <2>4, <3>1
  <2> QED
    BY <2>5, <2>6
<1>2. \A s \in Signed(Found(e, now)) : s = <<s[1], s[2]>> /\ s[1] \in Correlators
  BY FoundIs DEF Signed
<1>3. \A s \in NewReports(e, now) : s = <<s[1], s[2]>> /\ s[1] \in Correlators
  BY SignsPairs DEF NewReports
<1>4. \A s \in Signed(Found(e, now)) : s \in NewReports(e, now)
  BY <1>1, <1>2
<1>5. \A s \in NewReports(e, now) : s \in Signed(Found(e, now))
  BY <1>1, <1>3
<1> QED
  BY <1>4, <1>5

LEMMA SeqIsFunction ==
  ASSUME NEW S, NEW s \in Seq(S) PROVE s = [i \in 1..Len(s) |-> s[i]]
<1>1. s \in [1..Len(s) -> S]
  OBVIOUS
<1> QED
  BY <1>1

LEMMA RecordsOne ==
  ASSUME AnalysisTypeOK, CrossInv, RepeatInv, NEW e \in Events, NEW now \in 1..clock,
         Analyzed(e, now)
  PROVE  History!HistoryNext
<1> DEFINE n == Len(log)
           x == Signed(Found(e, now))
<1>0. /\ n \in Nat /\ DOMAIN log = 1..n /\ DOMAIN found = 1..n /\ DOMAIN found' = 1..(n + 1)
      /\ found'[n + 1] = Found(e, now)
      /\ \A i \in 1..n : found'[i] = found[i]
  BY Grown
<1>1. Reports' = Append(Reports, x)
  <2>1. Reports = [i \in 1..n |-> Signed(found[i])]
    BY <1>0 DEF Reports
  <2>2. Reports' = [i \in 1..(n + 1) |-> Signed(found'[i])]
    BY <1>0 DEF Reports, Signed
  <2>3. \A i \in 1..n : Signed(found'[i]) = Signed(found[i])
    BY <1>0
  <2>4. Signed(found'[n + 1]) = x
    BY <1>0
  <2> HIDE DEF n, x
  <2> DEFINE S == {Signed(found[i]) : i \in 1..n} \cup {x}
             a == Append(Reports, x)
  <2>5. Reports \in Seq(S) /\ Len(Reports) = n /\ x \in S
    BY <1>0, <2>1
  <2> HIDE DEF S
  <2>6. /\ a \in Seq(S) /\ Len(a) = n + 1 /\ a[n + 1] = x
        /\ \A i \in 1..n : a[i] = Reports[i]
    BY <2>5, Appended
  <2>7. a = [i \in 1..(n + 1) |-> a[i]]
    BY <2>6, SeqIsFunction
  <2>8. \A i \in 1..(n + 1) : a[i] = Signed(found'[i])
    <3> SUFFICES ASSUME NEW i \in 1..(n + 1) PROVE a[i] = Signed(found'[i])
      OBVIOUS
    <3>1. i = n + 1 \/ i \in 1..n
      BY <1>0
    <3> QED
      BY <2>1, <2>3, <2>4, <2>6, <3>1
  <2> HIDE DEF a
  <2>9. Reports' = a
    BY <2>2, <2>7, <2>8
  <2> QED
    BY <2>9 DEF a
<1>2. x = {s \in History!Signs(log', e, now) : ~History!Reported(s, now)}
  BY SameReports DEF NewReports
<1>3. log' = Append(log, [event |-> e, at |-> now])
  BY DEF Analyzed
<1>4. now \in 1..MaxTime
  BY WindowsAssumption DEF AnalysisTypeOK
<1> HIDE DEF n, x
<1>5. History!Record(e, now)
  BY <1>1, <1>2, <1>3 DEF History!Record, Reports, Signed
<1> QED
  BY <1>4, <1>5 DEF History!HistoryNext

LEMMA HistoryStep ==
  AnalysisTypeOK /\ CrossInv /\ RepeatInv /\ [AnalysisNext]_analysisVars
    => [History!HistoryNext]_<<log, Reports>>
<1> SUFFICES ASSUME AnalysisTypeOK, CrossInv, RepeatInv, [AnalysisNext]_analysisVars
             PROVE  History!HistoryNext \/ UNCHANGED <<log, Reports>>
  OBVIOUS
<1>1. clock \in 1..MaxTime
  BY DEF AnalysisTypeOK
<1>2. CASE \E e \in Events, now \in 1..clock : Analyzed(e, now)
  BY <1>2, RecordsOne
<1>3. CASE Tick \/ UNCHANGED analysisVars
  BY <1>3 DEF Tick, analysisVars, Reports, Signed
<1> QED
  BY <1>1, <1>2, <1>3, Steps

LEMMA HistoryStart == AnalysisInit => History!HistoryInit
  BY DEF AnalysisInit, History!HistoryInit

(* The windows tell what the history says as far as it counts.             *)
THEOREM WindowsHold == AnalysisSpec => []CrossInv
  BY AnalysisTyped, CrossInit, CrossStep, PTL DEF AnalysisSpec

(* The correlating detectors report exactly what the whole history calls   *)
(* for: neither the times to live of the caches nor the memory of          *)
(* duplicates loses or adds a report (ThreadCaches.cpp, cleanup;           *)
(* RemoteThreadDetector.cpp, ApcQueueDetector.cpp, ThreatIntelDetector.cpp). *)
THEOREM HistoryReported == AnalysisSpec => ReportsHistory
<1>1. [History!HistoryNext]_<<log, Reports>> =>
        [History!HistoryNext]_<<log, [i \in DOMAIN found |-> {s \in found[i] : s[1] \in Correlators}]>>
  BY DEF Reports, Signed
<1> QED
  BY HistoryStart, HistoryStep, <1>1, AnalysisTyped, WindowsHold, RepeatHolds, PTL
     DEF AnalysisSpec, ReportsHistory, History!HistorySpec
=============================================================================
