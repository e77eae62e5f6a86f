--------------------------- MODULE ThreadAnalysis ---------------------------
(***************************************************************************)
(* The behaviour analysis of the guest's ProcessMonitor: the caches that   *)
(* correlate events of several processes, the eight detectors, and the     *)
(* engine that runs one event through both.  The monitor calls the engine  *)
(* under m_analysisMtx, so an event is analysed in one step.  Its time is  *)
(* the clock under that lock for an ETW record, but for a record of the    *)
(* Sysmon channel the time it was parsed, before the lock.                 *)
(***************************************************************************)
EXTENDS GuestEvents, Sequences

CONSTANTS
  CorrelationWindow, SequenceWindow,
  DedupWindow,        \* of each detector
  DedupRetention, XprocTTL, TidTTL,
  MaxLag,             \* bound: how late a Sysmon record gets the lock
  MaxTime, MaxEvents  \* bounds: the clock, the events analysed

Correlators == {"RemoteThread", "ApcQueue", "ThreatIntel"}
Persistence == {"RunKey", "ScheduledTask", "Service"}
Detectors == Correlators \cup Persistence \cup {"ThreadHijack", "LsassAccess"}

Keys == (Pids \cup {None}) \X (Pids \cup {None}) \X (Tids \cup {None})

ASSUME WindowsAssumption ==
  /\ {CorrelationWindow, SequenceWindow, DedupRetention, XprocTTL, TidTTL,
      MaxLag, MaxTime, MaxEvents} \subseteq Nat
  /\ MaxTime # 0
  /\ DedupWindow \in [Detectors -> Nat]
  /\ \A d \in Detectors : DedupWindow[d] + MaxLag <= DedupRetention
  /\ CorrelationWindow <= XprocTTL
  /\ SequenceWindow <= TidTTL

VARIABLES
  clock,    \* the system's clock
  byTid,    \* ThreadCaches::byTid: the owner and the last actions on a thread
  cross,    \* ThreadCaches::crossProcWindows, by source and target
  images,   \* ThreadCaches::m_processImageByPid
  recent,   \* m_recentFindings of each detector
  log,      \* history: the events analysed, with their times
  found     \* what EventWriter::writeFinding got for each of them

caches == <<byTid, cross, images>>
analysisVars == <<clock, byTid, cross, images, recent, log, found>>

-----------------------------------------------------------------------------
(* ThreadCaches.  An entry that was erased is one whose times are all 0.   *)

NoThread == [owner |-> None, suspendBy |-> None, contextBy |-> None,
             suspendAt |-> 0, contextAt |-> 0, resumeAt |-> 0, seenAt |-> 0]
NoWindow == [access |-> 0, action |-> 0]
NoImage == [image |-> None, at |-> 0]

OwnerAfter(e, owner) ==
  IF StartsThread(e) /\ e.ttid # None /\ (e.proc # None \/ e.tgt # None)
  THEN IF e.proc # None THEN e.proc ELSE e.tgt
  ELSE IF owner = None THEN e.tgt ELSE owner

ThreadAfter(st, e, now) ==
  [owner |-> OwnerAfter(e, st.owner),
   suspendBy |-> IF Suspends(e) THEN e.src ELSE st.suspendBy,
   contextBy |-> IF ChangesContext(e) THEN e.src ELSE st.contextBy,
   suspendAt |-> IF Suspends(e) THEN now ELSE st.suspendAt,
   contextAt |-> IF ChangesContext(e) THEN now ELSE st.contextAt,
   resumeAt |-> IF Resumes(e) THEN now ELSE st.resumeAt,
   seenAt |-> now]

WindowAfter(w, e, now) ==
  [access |-> IF ProcessAccess(e) THEN now ELSE w.access,
   action |-> IF CreatesRemoteThread(e) \/ QueuesApc(e) THEN now ELSE w.action]

(* The image of the acting process, then the source's, then the target's:  *)
(* of two that name one process the last one stays.                        *)
ImageAfter(i, p, e, now) ==
  IF p = e.tgt /\ e.timage # None THEN [image |-> e.timage, at |-> now]
  ELSE IF p = e.src /\ e.simage # None THEN [image |-> e.simage, at |-> now]
  ELSE IF p \in {e.pid, e.proc} /\ e.image # None
       THEN [image |-> e.image, at |-> now]
  ELSE i

Threads(e, now) ==
  [t \in Tids |-> IF t = SeqTid(e) THEN ThreadAfter(byTid[t], e, now)
                                   ELSE byTid[t]]

Windows(e, now) ==
  [p \in Pids \X Pids |->
     IF Crosses(e) /\ p = <<e.src, e.tgt>> THEN WindowAfter(cross[p], e, now)
                                           ELSE cross[p]]

ImagesSeen(e, now) == [p \in Pids |-> ImageAfter(images[p], p, e, now)]

(* cleanup: what nobody has touched for longer than its time to live.      *)
(* Mutant: a thread that is only suspended counts as never touched.        *)
LastThreadNoSuspend(st) == {st.contextAt, st.resumeAt}

LastThread(st) == {st.suspendAt, st.contextAt, st.resumeAt, st.seenAt}
LastWindow(w) == {w.access, w.action}

Kept(times, ttl, now) == \E t \in times : t # 0 /\ now <= t + ttl

KeptThreads(f, now) ==
  [t \in Tids |-> IF Kept(LastThread(f[t]), TidTTL, now) THEN f[t] ELSE NoThread]
KeptWindows(f, now) ==
  [p \in Pids \X Pids |->
     IF Kept(LastWindow(f[p]), XprocTTL, now) THEN f[p] ELSE NoWindow]
KeptImages(f, now) ==
  [p \in Pids |-> IF Kept({f[p].at}, XprocTTL, now) THEN f[p] ELSE NoImage]

-----------------------------------------------------------------------------
(* The detectors: what an event offers to report, before duplicates are    *)
(* dropped, given the caches after its update.                             *)

Recent(w, s, t, now) == Within(CorrelationWindow, w[<<s, t>>].access, now)

(* Mutant: whoever opened t recently.                                      *)
AnySource(w, t, now) == {s \in Pids : Recent(w, s, t, now)}

(* findRecentSourceForTarget: the latest to open t, the smaller id first.  *)
LatestSource(w, t, now) ==
  {s \in Pids :
     /\ Recent(w, s, t, now)
     /\ \A u \in Pids :
          Recent(w, u, t, now) =>
            \/ w[<<u, t>>].access < w[<<s, t>>].access
            \/ w[<<u, t>>].access = w[<<s, t>>].access /\ s <= u}

Pair(e) == <<e.src, e.tgt, e.ttid>>
Correlated(w, e, now) == Crosses(e) /\ Recent(w, e.src, e.tgt, now)

RemoteThreadOffers(w, e, now) ==
  {k \in {Pair(e)} : CreatesRemoteThread(e) /\ Correlated(w, e, now)}
  \cup {<<s, e.tgt, e.ttid>> :
          s \in {p \in Pids : /\ StartsThread(e) /\ e.tgt # None
                              /\ p \in LatestSource(w, e.tgt, now)
                              /\ p # e.tgt}}

ApcOffers(w, e, now) ==
  {k \in {Pair(e)} : QueuesApc(e) /\ Correlated(w, e, now)}

ThreatIntelOffers(w, e, now) ==
  {k \in {Pair(e)} : /\ HintsInjection(e) /\ Crosses(e)
                     /\ (e.provider = "ThreatIntel" \/ Correlated(w, e, now))}

(* Mutant: the order of suspension and change of context is not looked at. *)
HijacksUnordered(st, e, now) ==
  /\ Resumes(e)
  /\ st.owner # None /\ e.src # None /\ e.src # st.owner
  /\ st.suspendAt # 0 /\ st.contextAt # 0
  /\ now <= st.suspendAt + SequenceWindow
  /\ st.suspendBy = e.src /\ st.contextBy = e.src

(* One process suspended the thread of another, changed its context and    *)
(* now resumes it.                                                         *)
Hijacks(st, e, now) ==
  /\ Resumes(e)
  /\ st.owner # None /\ e.src # None /\ e.src # st.owner
  /\ st.suspendAt # 0 /\ st.contextAt # 0
  /\ st.suspendAt <= st.contextAt /\ st.contextAt <= now
  /\ now <= st.suspendAt + SequenceWindow
  /\ st.suspendBy = e.src /\ st.contextBy = e.src

HijackOffers(th, e, now) ==
  {<<e.src, th[t].owner, t>> :
     t \in {u \in Tids : u = SeqTid(e) /\ Hijacks(th[u], e, now)}}

(* Persistence names no second process but its own.                        *)
Actor(e) ==
  {k \in {<<e.src, IF e.tgt # None THEN e.tgt ELSE e.src, e.tid>>} : e.src # None}

RunKeyOffers(e) == IF PersistsRunKey(e) THEN Actor(e) ELSE {}
ScheduledTaskOffers(e) == IF PersistsTask(e) THEN Actor(e) ELSE {}
ServiceOffers(e) == IF PersistsService(e) THEN Actor(e) ELSE {}

(* Mutant: what earlier records told is not asked.                         *)
TargetImageRecord(im, e) == IF e.timage # None THEN e.timage ELSE e.image

(* The target's image is the record's, the actor's failing that, or the    *)
(* one remembered for the target.                                          *)
TargetImage(im, e) ==
  IF e.timage # None THEN e.timage
  ELSE IF e.image # None THEN e.image ELSE im[e.tgt].image

LsassOffers(im, e) ==
  {k \in {<<e.src, e.tgt, SeqTid(e)>>} :
     /\ ProcessAccess(e) /\ e.succeeded /\ Crosses(e)
     /\ TargetImage(im, e) \in Lsass
     /\ e.suspicious}

Offers(d, th, w, im, e, now) ==
  CASE d = "RemoteThread" -> RemoteThreadOffers(w, e, now)
    [] d = "ApcQueue" -> ApcOffers(w, e, now)
    [] d = "ThreatIntel" -> ThreatIntelOffers(w, e, now)
    [] d = "ThreadHijack" -> HijackOffers(th, e, now)
    [] d = "LsassAccess" -> LsassOffers(im, e)
    [] d = "RunKey" -> RunKeyOffers(e)
    [] d = "ScheduledTask" -> ScheduledTaskOffers(e)
    [] d = "Service" -> ServiceOffers(e)

(* Mutant: a time before the last report is new.                           *)
DuplicateInOrder(d, k, now) ==
  /\ k \in DOMAIN recent[d]
  /\ recent[d][k] <= now /\ now <= recent[d][k] + DedupWindow[d]

(* _isDuplicate: a time before the last report counts as a duplicate too.  *)
Duplicate(d, k, now) ==
  k \in DOMAIN recent[d] /\ now <= recent[d][k] + DedupWindow[d]

(* What is older than the retention is erased when something is added.     *)
Remembered(d, now) == {k \in DOMAIN recent[d] : now <= recent[d][k] + DedupRetention}

(* Mutant: when a report expires is remembered, not when it was made.      *)
RecentUntil(d, fresh, now) ==
  IF fresh = {} THEN recent[d]
  ELSE [k \in Remembered(d, now) \cup fresh |->
          IF k \in fresh THEN now + DedupWindow[d] ELSE recent[d][k]]

RecentAfter(d, fresh, now) ==
  IF fresh = {} THEN recent[d]
  ELSE [k \in Remembered(d, now) \cup fresh |-> IF k \in fresh THEN now ELSE recent[d][k]]

-----------------------------------------------------------------------------
AnalysisInit ==
  /\ clock = 1
  /\ byTid = [t \in Tids |-> NoThread]
  /\ cross = [p \in Pids \X Pids |-> NoWindow]
  /\ images = [p \in Pids |-> NoImage]
  /\ recent = [d \in Detectors |-> [k \in {} |-> 0]]
  /\ log = <<>>
  /\ found = <<>>

(* ThreadAnalysisEngine::onEvent: the caches first, then every detector,   *)
(* then cleanup.                                                           *)
OnEvent(e, now) ==
  LET th == Threads(e, now)
      w == Windows(e, now)
      im == ImagesSeen(e, now)
      fresh == [d \in Detectors |->
                  {k \in Offers(d, th, w, im, e, now) : ~Duplicate(d, k, now)}]
  IN  /\ byTid' = KeptThreads(th, now)
      /\ cross' = KeptWindows(w, now)
      /\ images' = KeptImages(im, now)
      /\ recent' = [d \in Detectors |-> RecentAfter(d, fresh[d], now)]
      /\ log' = Append(log, [event |-> e, at |-> now])
      /\ found' = Append(found, UNION {{d} \X fresh[d] : d \in Detectors})
      /\ UNCHANGED clock

(* _analyzeRecord                                                          *)
AnalyzeRecord(e) ==
  /\ Len(log) < MaxEvents
  /\ e.provider # "Sysmon"
  /\ OnEvent(e, clock)

(* The Sysmon thread: parsed at now, analysed when it gets the lock.       *)
AnalyzeSysmon(e, now) ==
  /\ Len(log) < MaxEvents
  /\ e.provider = "Sysmon"
  /\ OnEvent(e, now)

Tick ==
  /\ clock < MaxTime
  /\ clock' = clock + 1
  /\ UNCHANGED <<byTid, cross, images, recent, log, found>>

LagTimes == {t \in 1..clock : clock <= t + MaxLag}

AnalysisNext ==
  \/ Tick
  \/ \E e \in Events : AnalyzeRecord(e)
  \/ \E e \in Events : \E now \in LagTimes : AnalyzeSysmon(e, now)

AnalysisSpec == AnalysisInit /\ [][AnalysisNext]_analysisVars

-----------------------------------------------------------------------------
(* TYPE: the caches, the times and the keys of the reports stay in range.  *)
AnalysisTypeOK ==
  /\ clock \in 1..MaxTime
  /\ byTid \in [Tids -> [owner : Pids \cup {None}, suspendBy : Pids \cup {None},
                         contextBy : Pids \cup {None}, suspendAt : 0..clock,
                         contextAt : 0..clock, resumeAt : 0..clock,
                         seenAt : 0..clock]]
  /\ cross \in [Pids \X Pids -> [access : 0..clock, action : 0..clock]]
  /\ images \in [Pids -> [image : Images \cup {None}, at : 0..clock]]
  /\ DOMAIN recent = Detectors
  /\ \A d \in Detectors : /\ DOMAIN recent[d] \subseteq Keys
                          /\ recent[d] \in [DOMAIN recent[d] -> 1..clock]
  /\ log \in Seq([event : Events, at : 1..clock])
  /\ found \in Seq(SUBSET (Detectors \X Keys))
  /\ Len(found) = Len(log)

(* A detector does not report the same processes and thread again within   *)
(* its window, whatever order the two channels get the lock in, and though *)
(* it forgets reports that are old.                                        *)
NoRepeat ==
  \A i \in DOMAIN log : \A j \in (i + 1)..Len(log) :
    \A s \in found[i] \cap found[j] :
      log[j].at > log[i].at + DedupWindow[s[1]]

About(i, t) == SeqTid(log[i].event) = t
ActsOn(i, p, t) == About(i, t) /\ log[i].event.src = p

(* A reported hijack happened: the process that resumed the thread had     *)
(* suspended it and then changed its context, within the window, and the   *)
(* thread belongs to another process as some record said.                  *)
HijackJustified ==
  \A i \in DOMAIN log : \A s \in {f \in found[i] : f[1] = "ThreadHijack"} :
    LET p == s[2][1]
        q == s[2][2]
        t == s[2][3]
    IN  /\ p # q
        /\ Resumes(log[i].event) /\ ActsOn(i, p, t)
        /\ \E j, k \in 1..i :
             /\ Suspends(log[j].event) /\ ActsOn(j, p, t)
             /\ ChangesContext(log[k].event) /\ ActsOn(k, p, t)
             /\ log[j].at <= log[k].at /\ log[k].at <= log[i].at
             /\ log[i].at <= log[j].at + SequenceWindow
        /\ \E j \in 1..i : About(j, t) /\ q \in {log[j].event.tgt, log[j].event.proc}

(* Records about thread t name no process but q as its owner.              *)
Owns(q, t, i) ==
  \A j \in 1..i : About(j, t) =>
    {log[j].event.tgt, log[j].event.proc} \subseteq {q, None}

ReportedBy(s, i) ==
  \E m \in 1..i : s \in found[m] /\ log[i].at <= log[m].at + DedupWindow[s[1]]

(* And a hijack that happens is reported: cleanup forgets no thread in the *)
(* middle of the sequence, and other records do not disturb it.            *)
HijackCaught ==
  \A i \in {n \in DOMAIN log : Resumes(log[n].event)} : \A j, k \in 1..(i - 1) :
    LET p == log[i].event.src
        q == log[j].event.tgt
        t == SeqTid(log[i].event)
    IN  /\ j < k /\ None \notin {p, q, t} /\ p # q /\ Owns(q, t, i)
        /\ Suspends(log[j].event) /\ ActsOn(j, p, t)
        /\ ChangesContext(log[k].event) /\ ActsOn(k, p, t)
        /\ \A m \in (j + 1)..(i - 1) : m # k /\ About(m, t) =>
             ~Suspends(log[m].event) /\ ~ChangesContext(log[m].event)
        /\ log[i].at <= log[j].at + SequenceWindow
        => ReportedBy(<<"ThreadHijack", <<p, q, t>>>>, i)

TellsImage(i, p) ==
  \/ log[i].event.tgt = p /\ log[i].event.timage # None
  \/ log[i].event.src = p /\ log[i].event.simage # None
  \/ p \in {log[i].event.pid, log[i].event.proc} /\ log[i].event.image # None

(* A process that reads the memory of lsass is reported although the       *)
(* record does not name the image: an earlier record did.                  *)
LsassCaught ==
  \A i \in DOMAIN log : \A j \in 1..(i - 1) :
    LET e == log[i].event
        p == log[j].event.tgt
    IN  /\ ProcessAccess(e) /\ e.succeeded /\ e.suspicious /\ Crosses(e)
        /\ e.tgt = p /\ {e.image, e.timage, e.simage} = {None}
        /\ log[j].event.timage \in Lsass
        /\ \A m \in (j + 1)..(i - 1) : ~TellsImage(m, p)
        /\ log[i].at <= log[j].at + XprocTTL
        => ReportedBy(<<"LsassAccess", <<e.src, p, SeqTid(e)>>>>, i)

History ==
  INSTANCE InjectionHistory WITH
    Times <- 1..MaxTime,
    found <- [i \in DOMAIN found |-> {s \in found[i] : s[1] \in Correlators}]

(* The caches, their times to live and the memory of duplicates lose       *)
(* nothing: the correlating detectors report what the whole history calls  *)
(* for, and nothing else.                                                  *)
ReportsHistory == History!HistorySpec
=============================================================================
