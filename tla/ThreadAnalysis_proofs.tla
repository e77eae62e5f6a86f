------------------------ MODULE ThreadAnalysis_proofs ------------------------
(***************************************************************************)
(* Theorems about the behaviour analysis, for any events, processes,       *)
(* threads and windows that satisfy the assumptions of its modules.        *)
(***************************************************************************)
EXTENDS ThreadAnalysis, TLAPS

-----------------------------------------------------------------------------
(* Sequences.                                                              *)

LEMMA Element ==
  ASSUME NEW S, NEW s \in Seq(S), NEW i \in DOMAIN s PROVE s[i] \in S
  OBVIOUS

LEMMA Appended ==
  ASSUME NEW S, NEW s \in Seq(S), NEW x \in S
  PROVE  /\ Append(s, x) \in Seq(S) /\ Len(s) \in Nat
         /\ Len(Append(s, x)) = Len(s) + 1
         /\ DOMAIN s = 1..Len(s) /\ DOMAIN Append(s, x) = 1..(Len(s) + 1)
         /\ Append(s, x)[Len(s) + 1] = x
         /\ \A i \in 1..Len(s) : Append(s, x)[i] = s[i]
  OBVIOUS

LEMMA SeqWider ==
  ASSUME NEW S, NEW T, S \subseteq T, NEW s \in Seq(S) PROVE s \in Seq(T)
<1>1. s \in [1..Len(s) -> S] /\ Len(s) \in Nat
  OBVIOUS
<1>2. s \in [1..Len(s) -> T]
  BY <1>1
<1> QED
  BY <1>1, <1>2

-----------------------------------------------------------------------------
(* One event.                                                              *)

(* What detector d reports of e at now.                                    *)
Fresh(d, e, now) ==
  {k \in Offers(d, Threads(e, now), Windows(e, now), ImagesSeen(e, now), e, now) :
     ~Duplicate(d, k, now)}

Found(e, now) == UNION {{d} \X Fresh(d, e, now) : d \in Detectors}

LEMMA FoundHas ==
  ASSUME NEW e, NEW now, NEW d \in Detectors, NEW k
  PROVE  <<d, k>> \in Found(e, now) <=> k \in Fresh(d, e, now)
  BY DEF Found

LEMMA FoundIs ==
  ASSUME NEW e, NEW now, NEW s \in Found(e, now)
  PROVE  s[1] \in Detectors /\ s = <<s[1], s[2]>> /\ s[2] \in Fresh(s[1], e, now)
  BY DEF Found

(* Analyzed(e, now): e is analysed at the time now, which lags behind the  *)
(* clock for a record of the Sysmon channel only.                          *)
Analyzed(e, now) ==
  /\ now \in 1..clock /\ clock <= now + MaxLag
  /\ e.provider # "Sysmon" => now = clock
  /\ byTid' = KeptThreads(Threads(e, now), now)
  /\ cross' = KeptWindows(Windows(e, now), now)
  /\ images' = KeptImages(ImagesSeen(e, now), now)
  /\ recent' = [d \in Detectors |-> RecentAfter(d, Fresh(d, e, now), now)]
  /\ log' = Append(log, [event |-> e, at |-> now])
  /\ found' = Append(found, Found(e, now))
  /\ clock' = clock

LEMMA OnEventIs ==
  ASSUME NEW e, NEW now, OnEvent(e, now), now \in 1..clock, clock <= now + MaxLag,
         e.provider # "Sysmon" => now = clock
  PROVE  Analyzed(e, now)
<1> DEFINE fresh == [d \in Detectors |-> Fresh(d, e, now)]
<1>1. recent' = [d \in Detectors |-> RecentAfter(d, fresh[d], now)]
      /\ found' = Append(found, UNION {{d} \X fresh[d] : d \in Detectors})
  BY DEF OnEvent, Fresh
<1>2. \A d \in Detectors : fresh[d] = Fresh(d, e, now)
  OBVIOUS
<1> HIDE DEF fresh
<1>3. recent' = [d \in Detectors |-> RecentAfter(d, Fresh(d, e, now), now)]
  BY <1>1, <1>2
<1>4. UNION {{d} \X fresh[d] : d \in Detectors} = Found(e, now)
  BY <1>2 DEF Found
<1> QED
  BY <1>1, <1>3, <1>4 DEF OnEvent, Analyzed

(* Every step of the analysis.                                             *)
LEMMA Steps ==
  ASSUME [AnalysisNext]_analysisVars, clock \in 1..MaxTime
  PROVE  \/ \E e \in Events, now \in 1..clock : Analyzed(e, now)
         \/ Tick
         \/ UNCHANGED analysisVars
<1>0. MaxTime \in Nat /\ MaxLag \in Nat
  BY WindowsAssumption
<1>1. ASSUME NEW e \in Events, AnalyzeRecord(e)
      PROVE  \E now \in 1..clock : Analyzed(e, now)
  <2>1. clock \in 1..clock /\ clock <= clock + MaxLag
    BY <1>0
  <2> QED
    BY <1>1, <2>1, OnEventIs DEF AnalyzeRecord
<1>2. ASSUME NEW e \in Events, NEW now \in LagTimes, AnalyzeSysmon(e, now)
      PROVE  now \in 1..clock /\ Analyzed(e, now)
  BY <1>2, OnEventIs DEF AnalyzeSysmon, LagTimes
<1> QED
  BY <1>1, <1>2 DEF AnalysisNext

-----------------------------------------------------------------------------
(* Types.                                                                  *)

EntryType == [owner : Pids \cup {None}, suspendBy : Pids \cup {None},
              contextBy : Pids \cup {None}, suspendAt : 0..clock,
              contextAt : 0..clock, resumeAt : 0..clock, seenAt : 0..clock]

LEMMA EventFields ==
  ASSUME NEW e \in Events
  PROVE  /\ e.src \in Pids \cup {None} /\ e.tgt \in Pids \cup {None}
         /\ e.proc \in Pids \cup {None} /\ e.pid \in Pids \cup {None}
         /\ e.tid \in Tids \cup {None} /\ e.ttid \in Tids \cup {None}
         /\ SeqTid(e) \in Tids \cup {None}
         /\ e.image \in Images \cup {None} /\ e.simage \in Images \cup {None}
         /\ e.timage \in Images \cup {None}
<1>1. /\ {e.pid, e.src, e.tgt, e.proc} \subseteq Pids \cup {None}
      /\ {e.tid, e.ttid} \subseteq Tids \cup {None}
      /\ {e.image, e.simage, e.timage} \subseteq Images \cup {None}
  BY EventsAssumption
<1> QED
  BY <1>1 DEF SeqTid

(* The caches just after the update.                                       *)
LEMMA ThreadsType ==
  ASSUME AnalysisTypeOK, NEW e \in Events, NEW now \in 1..clock
  PROVE  Threads(e, now) \in [Tids -> EntryType]
<1>1. clock \in Nat /\ now \in 0..clock
  BY WindowsAssumption DEF AnalysisTypeOK
<1>2. ASSUME NEW t \in Tids PROVE ThreadAfter(byTid[t], e, now) \in EntryType
  <2>1. byTid[t] \in EntryType
    BY DEF AnalysisTypeOK, EntryType
  <2>2. OwnerAfter(e, byTid[t].owner) \in Pids \cup {None}
    BY <2>1, EventFields DEF OwnerAfter, EntryType
  <2> QED
    BY <1>1, <2>1, <2>2, EventFields DEF ThreadAfter, EntryType
<1> QED
  BY <1>2 DEF Threads, AnalysisTypeOK, EntryType

LEMMA WindowsType ==
  ASSUME AnalysisTypeOK, NEW e \in Events, NEW now \in 1..clock
  PROVE  Windows(e, now) \in [Pids \X Pids -> [access : 0..clock, action : 0..clock]]
<1>1. now \in 0..clock
  BY WindowsAssumption DEF AnalysisTypeOK
<1>2. ASSUME NEW p \in Pids \X Pids
      PROVE  WindowAfter(cross[p], e, now) \in [access : 0..clock, action : 0..clock]
  BY <1>1 DEF AnalysisTypeOK, WindowAfter
<1> QED
  BY <1>2 DEF Windows, AnalysisTypeOK

LEMMA ImagesType ==
  ASSUME AnalysisTypeOK, NEW e \in Events, NEW now \in 1..clock
  PROVE  ImagesSeen(e, now) \in [Pids -> [image : Images \cup {None}, at : 0..clock]]
<1>1. now \in 0..clock
  BY WindowsAssumption DEF AnalysisTypeOK
<1>2. ASSUME NEW p \in Pids
      PROVE  ImageAfter(images[p], p, e, now) \in [image : Images \cup {None}, at : 0..clock]
  BY <1>1, EventFields DEF AnalysisTypeOK, ImageAfter
<1> QED
  BY <1>2 DEF ImagesSeen

LEMMA KeptTypes ==
  ASSUME AnalysisTypeOK, NEW e \in Events, NEW now \in 1..clock
  PROVE  /\ KeptThreads(Threads(e, now), now) \in [Tids -> EntryType]
         /\ KeptWindows(Windows(e, now), now) \in
              [Pids \X Pids -> [access : 0..clock, action : 0..clock]]
         /\ KeptImages(ImagesSeen(e, now), now) \in
              [Pids -> [image : Images \cup {None}, at : 0..clock]]
<1>0. clock \in Nat
  BY WindowsAssumption DEF AnalysisTypeOK
<1>1. NoThread \in EntryType
  BY <1>0 DEF NoThread, EntryType
<1>2. NoWindow \in [access : 0..clock, action : 0..clock]
  BY <1>0 DEF NoWindow
<1>3. NoImage \in [image : Images \cup {None}, at : 0..clock]
  BY <1>0 DEF NoImage
<1>4. KeptThreads(Threads(e, now), now) \in [Tids -> EntryType]
  BY <1>1, ThreadsType DEF KeptThreads
<1>5. KeptWindows(Windows(e, now), now) \in
        [Pids \X Pids -> [access : 0..clock, action : 0..clock]]
  BY <1>2, WindowsType DEF KeptWindows
<1>6. KeptImages(ImagesSeen(e, now), now) \in
        [Pids -> [image : Images \cup {None}, at : 0..clock]]
  BY <1>3, ImagesType DEF KeptImages
<1> QED
  BY <1>4, <1>5, <1>6

(* Every detector reports processes and a thread.                          *)
LEMMA OffersTyped ==
  ASSUME AnalysisTypeOK, NEW e \in Events, NEW now \in 1..clock, NEW d \in Detectors
  PROVE  Fresh(d, e, now) \subseteq Keys
<1> DEFINE th == Threads(e, now)
           w == Windows(e, now)
           im == ImagesSeen(e, now)
<1>1. th \in [Tids -> EntryType]
  BY ThreadsType
<1> HIDE DEF th, w, im
<1>2. RemoteThreadOffers(w, e, now) \subseteq Keys
  BY EventFields DEF RemoteThreadOffers, Pair, Keys
<1>3. ApcOffers(w, e, now) \subseteq Keys /\ ThreatIntelOffers(w, e, now) \subseteq Keys
  BY EventFields DEF ApcOffers, ThreatIntelOffers, Pair, Keys
<1>4. HijackOffers(th, e, now) \subseteq Keys
  <2>1. \A t \in Tids : th[t].owner \in Pids \cup {None}
    BY <1>1 DEF EntryType
  <2> QED
    BY <2>1, EventFields DEF HijackOffers, Keys
<1>5. LsassOffers(im, e) \subseteq Keys
  BY EventFields DEF LsassOffers, Keys
<1>6. Actor(e) \subseteq Keys
  BY EventFields DEF Actor, Keys
<1>7. RunKeyOffers(e) \subseteq Keys /\ ScheduledTaskOffers(e) \subseteq Keys
      /\ ServiceOffers(e) \subseteq Keys
  BY <1>6 DEF RunKeyOffers, ScheduledTaskOffers, ServiceOffers
<1>8. Offers(d, th, w, im, e, now) \subseteq Keys
  BY <1>2, <1>3, <1>4, <1>5, <1>7 DEF Offers, Detectors, Correlators, Persistence
<1>9. Fresh(d, e, now) \subseteq Offers(d, th, w, im, e, now)
  BY DEF Fresh, th, w, im
<1> QED
  BY <1>8, <1>9

(* The memory of what was reported.                                        *)
RecentOK ==
  /\ DOMAIN recent = Detectors
  /\ \A d \in Detectors : /\ DOMAIN recent[d] \subseteq Keys
                          /\ recent[d] \in [DOMAIN recent[d] -> 1..clock]

LEMMA RecentTyped ==
  ASSUME AnalysisTypeOK, NEW e \in Events, NEW now \in 1..clock, Analyzed(e, now)
  PROVE  RecentOK'
<1>1. recent' = [d \in Detectors |-> RecentAfter(d, Fresh(d, e, now), now)]
  BY DEF Analyzed
<1>2. ASSUME NEW d \in Detectors
      PROVE  /\ DOMAIN recent'[d] \subseteq Keys
             /\ recent'[d] \in [DOMAIN recent'[d] -> 1..clock]
  <2>1. recent'[d] = RecentAfter(d, Fresh(d, e, now), now)
    BY <1>1
  <2>2. DOMAIN recent[d] \subseteq Keys /\ recent[d] \in [DOMAIN recent[d] -> 1..clock]
    BY DEF AnalysisTypeOK
  <2>3. CASE Fresh(d, e, now) = {}
    BY <2>1, <2>2, <2>3 DEF RecentAfter
  <2>4. CASE Fresh(d, e, now) # {}
    <3> DEFINE f == [k \in Remembered(d, now) \cup Fresh(d, e, now) |->
                       IF k \in Fresh(d, e, now) THEN now ELSE recent[d][k]]
    <3>1. recent'[d] = f
      BY <2>1, <2>4 DEF RecentAfter
    <3>2. DOMAIN f = Remembered(d, now) \cup Fresh(d, e, now)
      OBVIOUS
    <3>3. Remembered(d, now) \subseteq DOMAIN recent[d]
      BY DEF Remembered
    <3>4. f \in [DOMAIN f -> 1..clock]
      BY <2>2, <3>2, <3>3
    <3> QED
      BY <2>2, <3>1, <3>2, <3>3, <3>4, OffersTyped
  <2> QED
    BY <2>3, <2>4
<1>3. DOMAIN recent' = Detectors /\ clock' = clock
  BY <1>1 DEF Analyzed
<1> QED
  BY <1>2, <1>3 DEF RecentOK

LEMMA AnalysisTypeInit == AnalysisInit => AnalysisTypeOK
<1> SUFFICES ASSUME AnalysisInit PROVE AnalysisTypeOK
  OBVIOUS
<1>1. clock = 1 /\ clock \in 1..MaxTime
  BY WindowsAssumption DEF AnalysisInit
<1>2. byTid \in [Tids -> EntryType]
  BY <1>1 DEF AnalysisInit, NoThread, EntryType
<1>3. cross \in [Pids \X Pids -> [access : 0..clock, action : 0..clock]]
  BY <1>1 DEF AnalysisInit, NoWindow
<1>4. images \in [Pids -> [image : Images \cup {None}, at : 0..clock]]
  BY <1>1 DEF AnalysisInit, NoImage
<1>5. RecentOK
  BY DEF AnalysisInit, RecentOK
<1>6. log \in Seq([event : Events, at : 1..clock])
      /\ found \in Seq(SUBSET (Detectors \X Keys)) /\ Len(found) = Len(log)
  BY DEF AnalysisInit
<1> QED
  BY <1>1, <1>2, <1>3, <1>4, <1>5, <1>6 DEF AnalysisTypeOK, EntryType, RecentOK

LEMMA TypeAnalyzed ==
  ASSUME AnalysisTypeOK, NEW e \in Events, NEW now \in 1..clock, Analyzed(e, now)
  PROVE  AnalysisTypeOK'
<1>1. clock' = clock /\ clock \in 1..MaxTime
  BY DEF AnalysisTypeOK, Analyzed
<1>2. byTid' \in [Tids -> EntryType']
  BY <1>1, KeptTypes DEF Analyzed, EntryType
<1>3. cross' \in [Pids \X Pids -> [access : 0..clock', action : 0..clock']]
  BY <1>1, KeptTypes DEF Analyzed
<1>4. images' \in [Pids -> [image : Images \cup {None}, at : 0..clock']]
  BY <1>1, KeptTypes DEF Analyzed
<1>5. RecentOK'
  BY RecentTyped
<1>6. log' \in Seq([event : Events, at : 1..clock']) /\ Len(log') = Len(log) + 1
  <2>1. [event |-> e, at |-> now] \in [event : Events, at : 1..clock]
    OBVIOUS
  <2>2. log \in Seq([event : Events, at : 1..clock]) /\ log' = Append(log, [event |-> e, at |-> now])
    BY DEF AnalysisTypeOK, Analyzed
  <2> QED
    BY <1>1, <2>1, <2>2, Appended
<1>7. found' \in Seq(SUBSET (Detectors \X Keys)) /\ Len(found') = Len(found) + 1
  <2>1. Found(e, now) \in SUBSET (Detectors \X Keys)
    BY OffersTyped DEF Found
  <2>2. found \in Seq(SUBSET (Detectors \X Keys)) /\ found' = Append(found, Found(e, now))
    BY DEF AnalysisTypeOK, Analyzed
  <2> HIDE DEF Found
  <2> QED
    BY <2>1, <2>2, Appended
<1>8. Len(found') = Len(log')
  BY <1>6, <1>7 DEF AnalysisTypeOK
<1> QED
  BY <1>1, <1>2, <1>3, <1>4, <1>5, <1>6, <1>7, <1>8 DEF AnalysisTypeOK, EntryType, RecentOK

LEMMA TypeTick == AnalysisTypeOK /\ Tick => AnalysisTypeOK'
<1> SUFFICES ASSUME AnalysisTypeOK, Tick PROVE AnalysisTypeOK'
  OBVIOUS
<1>1. /\ clock \in Nat /\ clock' = clock + 1 /\ clock' \in 1..MaxTime
      /\ UNCHANGED <<byTid, cross, images, recent, log, found>>
  BY WindowsAssumption DEF AnalysisTypeOK, Tick
<1>2. 0..clock \subseteq 0..clock' /\ 1..clock \subseteq 1..clock'
  BY <1>1
<1>3. byTid' \in [Tids -> EntryType']
  BY <1>1, <1>2 DEF AnalysisTypeOK, EntryType
<1>4. cross' \in [Pids \X Pids -> [access : 0..clock', action : 0..clock']]
  BY <1>1, <1>2 DEF AnalysisTypeOK
<1>5. images' \in [Pids -> [image : Images \cup {None}, at : 0..clock']]
  BY <1>1, <1>2 DEF AnalysisTypeOK
<1>6. RecentOK'
  BY <1>1, <1>2 DEF AnalysisTypeOK, RecentOK
<1>7. log' \in Seq([event : Events, at : 1..clock'])
  <2> DEFINE before == [event : Events, at : 1..clock]
             after == [event : Events, at : 1..clock']
  <2>1. before \subseteq after
    BY <1>2
  <2>2. log' = log /\ log \in Seq(before)
    BY <1>1 DEF AnalysisTypeOK
  <2> HIDE DEF before, after
  <2>3. log \in Seq(after)
    BY <2>1, <2>2, SeqWider
  <2> QED
    BY <2>2, <2>3 DEF after
<1>8. found' \in Seq(SUBSET (Detectors \X Keys)) /\ Len(found') = Len(log')
  BY <1>1 DEF AnalysisTypeOK
<1> QED
  BY <1>1, <1>3, <1>4, <1>5, <1>6, <1>7, <1>8 DEF AnalysisTypeOK, EntryType, RecentOK

LEMMA AnalysisTypeStep == AnalysisTypeOK /\ [AnalysisNext]_analysisVars => AnalysisTypeOK'
<1> SUFFICES ASSUME AnalysisTypeOK, [AnalysisNext]_analysisVars PROVE AnalysisTypeOK'
  OBVIOUS
<1>1. clock \in 1..MaxTime
  BY DEF AnalysisTypeOK
<1>2. CASE \E e \in Events, now \in 1..clock : Analyzed(e, now)
  BY <1>2, TypeAnalyzed
<1>3. CASE Tick
  BY <1>3, TypeTick
<1>4. CASE UNCHANGED analysisVars
  BY <1>4 DEF analysisVars, AnalysisTypeOK
<1> QED
  BY <1>1, <1>2, <1>3, <1>4, Steps

(* Type correctness of the caches, the detectors and the engine            *)
(* (ThreadCaches.cpp, ThreadAnalysisEngine.cpp).                           *)
THEOREM AnalysisTyped == AnalysisSpec => []AnalysisTypeOK
  BY AnalysisTypeInit, AnalysisTypeStep, PTL DEF AnalysisSpec

-----------------------------------------------------------------------------
(* What the history says after one more event.                             *)

LEMMA Grown ==
  ASSUME AnalysisTypeOK, NEW e \in Events, NEW now \in 1..clock, Analyzed(e, now)
  PROVE  /\ Len(log) \in Nat
         /\ DOMAIN log = 1..Len(log) /\ DOMAIN found = 1..Len(log)
         /\ DOMAIN log' = 1..(Len(log) + 1) /\ DOMAIN found' = 1..(Len(log) + 1)
         /\ log'[Len(log) + 1] = [event |-> e, at |-> now]
         /\ found'[Len(log) + 1] = Found(e, now)
         /\ \A i \in 1..Len(log) : log'[i] = log[i] /\ found'[i] = found[i]
<1>1. [event |-> e, at |-> now] \in [event : Events, at : 1..clock]
  OBVIOUS
<1>2. log \in Seq([event : Events, at : 1..clock]) /\ log' = Append(log, [event |-> e, at |-> now])
  BY DEF AnalysisTypeOK, Analyzed
<1>3. Found(e, now) \in SUBSET (Detectors \X Keys)
  BY OffersTyped DEF Found
<1>4. found \in Seq(SUBSET (Detectors \X Keys)) /\ found' = Append(found, Found(e, now))
      /\ Len(found) = Len(log)
  BY DEF AnalysisTypeOK, Analyzed
<1>5. /\ Len(log) \in Nat /\ DOMAIN log = 1..Len(log) /\ DOMAIN log' = 1..(Len(log) + 1)
      /\ log'[Len(log) + 1] = [event |-> e, at |-> now]
      /\ \A i \in 1..Len(log) : log'[i] = log[i]
  BY <1>1, <1>2, Appended
<1>6. /\ DOMAIN found = 1..Len(found) /\ DOMAIN found' = 1..(Len(found) + 1)
      /\ found'[Len(found) + 1] = Found(e, now)
      /\ \A i \in 1..Len(found) : found'[i] = found[i]
  BY <1>3, <1>4, Appended
<1> QED
  BY <1>4, <1>5, <1>6

LEMMA Entries ==
  ASSUME AnalysisTypeOK
  PROVE  /\ Len(log) \in Nat /\ DOMAIN log = 1..Len(log) /\ DOMAIN found = 1..Len(log)
         /\ \A i \in DOMAIN log : log[i].event \in Events /\ log[i].at \in 1..clock
         /\ \A i \in DOMAIN log : \A s \in found[i] :
              s \in Detectors \X Keys /\ s[1] \in Detectors
<1>1. /\ log \in Seq([event : Events, at : 1..clock])
      /\ found \in Seq(SUBSET (Detectors \X Keys)) /\ Len(found) = Len(log)
  BY DEF AnalysisTypeOK
<1>2. Len(log) \in Nat /\ DOMAIN log = 1..Len(log) /\ DOMAIN found = 1..Len(log)
  BY <1>1
<1>3. \A i \in DOMAIN log : log[i] \in [event : Events, at : 1..clock]
  BY <1>1, Element
<1>4. \A i \in DOMAIN found : found[i] \in SUBSET (Detectors \X Keys)
  BY <1>1, Element
<1> QED
  BY <1>2, <1>3, <1>4

-----------------------------------------------------------------------------
(* The memory of duplicates.  A report is remembered with its time, or a   *)
(* later one of the same; it is forgotten only when no event whose window  *)
(* it could fall in is still to come, a late Sysmon record included.       *)

Recalled(i, s) ==
  \/ s[2] \in DOMAIN recent[s[1]] /\ recent[s[1]][s[2]] >= log[i].at
  \/ clock > log[i].at + DedupWindow[s[1]] + MaxLag

RepeatInv ==
  /\ \A i \in DOMAIN log : \A s \in found[i] : Recalled(i, s)
  /\ \A d \in Detectors : \A k \in DOMAIN recent[d] :
       \E i \in DOMAIN log : <<d, k>> \in found[i] /\ log[i].at = recent[d][k]
  /\ NoRepeat

(* How one detector's memory changes.                                      *)
LEMMA RecentChange ==
  ASSUME AnalysisTypeOK, NEW e \in Events, NEW now \in 1..clock, Analyzed(e, now),
         NEW d \in Detectors, NEW k
  PROVE  /\ k \in Fresh(d, e, now) => k \in DOMAIN recent'[d] /\ recent'[d][k] = now
         /\ k \in DOMAIN recent[d] /\ k \notin Fresh(d, e, now) =>
              \/ k \in DOMAIN recent'[d] /\ recent'[d][k] = recent[d][k]
              \/ now > recent[d][k] + DedupRetention
         /\ k \in DOMAIN recent'[d] /\ k \notin Fresh(d, e, now) =>
              k \in DOMAIN recent[d] /\ recent'[d][k] = recent[d][k]
<1>1. recent'[d] = RecentAfter(d, Fresh(d, e, now), now)
  BY DEF Analyzed
<1>2. recent[d] \in [DOMAIN recent[d] -> 1..clock] /\ clock \in Nat /\ DedupRetention \in Nat
  BY WindowsAssumption DEF AnalysisTypeOK
<1>3. CASE Fresh(d, e, now) = {}
  BY <1>1, <1>3 DEF RecentAfter
<1>4. CASE Fresh(d, e, now) # {}
  <2>1. recent'[d] = [j \in Remembered(d, now) \cup Fresh(d, e, now) |->
                        IF j \in Fresh(d, e, now) THEN now ELSE recent[d][j]]
    BY <1>1, <1>4 DEF RecentAfter
  <2>2. k \in DOMAIN recent[d] /\ k \notin Remembered(d, now) => now > recent[d][k] + DedupRetention
    <3>1. k \in DOMAIN recent[d] => recent[d][k] \in Nat
      BY <1>2
    <3> QED
      BY <1>2, <3>1 DEF Remembered
  <2>3. Remembered(d, now) \subseteq DOMAIN recent[d]
    BY DEF Remembered
  <2> QED
    BY <2>1, <2>2, <2>3
<1> QED
  BY <1>3, <1>4

(* What is fresh was not reported within the window.                       *)
LEMMA FreshIsNew ==
  ASSUME AnalysisTypeOK, RepeatInv, NEW e \in Events, NEW now \in 1..clock, Analyzed(e, now),
         NEW d \in Detectors, NEW k \in Fresh(d, e, now),
         NEW i \in DOMAIN log, <<d, k>> \in found[i]
  PROVE  now > log[i].at + DedupWindow[d]
<1>1. /\ clock \in Nat /\ MaxLag \in Nat /\ DedupWindow[d] \in Nat /\ now \in Nat
      /\ clock <= now + MaxLag /\ log[i].at \in Nat
  <2>1. MaxLag \in Nat /\ DedupWindow[d] \in Nat
    BY WindowsAssumption
  <2>2. clock \in Nat /\ now \in Nat /\ clock <= now + MaxLag
    BY WindowsAssumption DEF AnalysisTypeOK, Analyzed
  <2>3. log[i].at \in 1..clock
    BY Entries
  <2> QED
    BY <2>1, <2>2, <2>3
<1>2. Recalled(i, <<d, k>>)
  BY DEF RepeatInv
<1>3. CASE clock > log[i].at + DedupWindow[d] + MaxLag
  BY <1>1, <1>3
<1>4. CASE k \in DOMAIN recent[d] /\ recent[d][k] >= log[i].at
  <2>1. recent[d][k] \in Nat
    BY <1>1, <1>4 DEF AnalysisTypeOK
  <2>2. ~(now <= recent[d][k] + DedupWindow[d])
    BY <1>4 DEF Fresh, Duplicate
  <2> QED
    BY <1>1, <1>4, <2>1, <2>2
<1> QED
  BY <1>2, <1>3, <1>4 DEF Recalled

LEMMA RepeatAnalyzed ==
  ASSUME AnalysisTypeOK, RepeatInv, NEW e \in Events, NEW now \in 1..clock, Analyzed(e, now)
  PROVE  RepeatInv'
<1> DEFINE n == Len(log)
<1>0. /\ n \in Nat /\ DOMAIN log = 1..n /\ DOMAIN log' = 1..(n + 1)
      /\ log'[n + 1] = [event |-> e, at |-> now] /\ found'[n + 1] = Found(e, now)
      /\ \A i \in 1..n : log'[i] = log[i] /\ found'[i] = found[i]
  BY Grown
<1>a. /\ clock \in Nat /\ MaxLag \in Nat /\ now \in Nat /\ clock' = clock
      /\ clock <= now + MaxLag /\ DedupRetention \in Nat
      /\ \A d \in Detectors : DedupWindow[d] \in Nat /\ DedupWindow[d] + MaxLag <= DedupRetention
  BY WindowsAssumption DEF AnalysisTypeOK, Analyzed
<1> HIDE DEF n
<1>1. \A i \in DOMAIN log' : \A s \in found'[i] : Recalled(i, s)'
  <2> SUFFICES ASSUME NEW i \in 1..(n + 1), NEW s \in found'[i] PROVE Recalled(i, s)'
    BY <1>0
  <2>1. CASE i = n + 1
    <3>1. s[1] \in Detectors /\ s[2] \in Fresh(s[1], e, now)
      BY <1>0, <2>1, FoundIs
    <3>2. s[2] \in DOMAIN recent'[s[1]] /\ recent'[s[1]][s[2]] = now
      BY <3>1, RecentChange
    <3> QED
      BY <1>0, <1>a, <2>1, <3>2 DEF Recalled
  <2>2. CASE i \in 1..n
    <3> DEFINE d == s[1]
               k == s[2]
    <3>1. s \in found[i] /\ d \in Detectors /\ log[i].at \in Nat /\ log'[i] = log[i]
      BY <1>0, <1>a, <2>2, Entries
    <3>2. Recalled(i, s)
      BY <1>0, <2>2, <3>1 DEF RepeatInv
    <3>3. CASE clock > log[i].at + DedupWindow[d] + MaxLag
      BY <1>a, <3>1, <3>3 DEF Recalled
    <3>4. CASE k \in DOMAIN recent[d] /\ recent[d][k] >= log[i].at
      <4>1. recent[d][k] \in 1..clock
        BY <3>1, <3>4 DEF AnalysisTypeOK
      <4>2. CASE k \in Fresh(d, e, now)
        <5>1. ~(now <= recent[d][k] + DedupWindow[d])
          BY <3>4, <4>2 DEF Fresh, Duplicate
        <5>2. k \in DOMAIN recent'[d] /\ recent'[d][k] = now
          BY <3>1, <4>2, RecentChange
        <5> QED
          BY <1>a, <3>1, <3>4, <4>1, <5>1, <5>2 DEF Recalled
      <4>3. CASE k \notin Fresh(d, e, now)
        <5>1. \/ k \in DOMAIN recent'[d] /\ recent'[d][k] = recent[d][k]
              \/ now > recent[d][k] + DedupRetention
          BY <3>1, <3>4, <4>3, RecentChange
        <5> QED
          BY <1>a, <3>1, <3>4, <4>1, <5>1 DEF Recalled
      <4> QED
        BY <4>2, <4>3
    <3> QED
      BY <3>2, <3>3, <3>4 DEF Recalled
  <2> QED
    BY <1>0, <2>1, <2>2
<1>2. \A d \in Detectors : \A k \in DOMAIN recent'[d] :
        \E i \in DOMAIN log' : <<d, k>> \in found'[i] /\ log'[i].at = recent'[d][k]
  <2> SUFFICES ASSUME NEW d \in Detectors, NEW k \in DOMAIN recent'[d]
               PROVE  \E i \in 1..(n + 1) : <<d, k>> \in found'[i] /\ log'[i].at = recent'[d][k]
    BY <1>0
  <2>1. CASE k \in Fresh(d, e, now)
    <3>1. recent'[d][k] = now /\ <<d, k>> \in found'[n + 1] /\ log'[n + 1].at = now
      BY <1>0, <2>1, RecentChange, FoundHas
    <3> QED
      BY <1>0, <3>1
  <2>2. CASE k \notin Fresh(d, e, now)
    <3>1. k \in DOMAIN recent[d] /\ recent'[d][k] = recent[d][k]
      BY <2>2, RecentChange
    <3>2. PICK i \in 1..n : <<d, k>> \in found[i] /\ log[i].at = recent[d][k]
      BY <1>0, <3>1 DEF RepeatInv
    <3> QED
      BY <1>0, <3>1, <3>2
  <2> QED
    BY <2>1, <2>2
<1>3. NoRepeat'
  <2>1. Len(log') = n + 1
    BY <1>0, TypeAnalyzed, Entries DEF AnalysisTypeOK, n, Analyzed
  <2> SUFFICES ASSUME NEW i \in 1..(n + 1), NEW j \in (i + 1)..(n + 1),
                      NEW s \in found'[i] \cap found'[j]
               PROVE  log'[j].at > log'[i].at + DedupWindow[s[1]]
    BY <1>0, <2>1 DEF NoRepeat
  <2>2. i \in 1..n /\ (j \in 1..n \/ j = n + 1)
    BY <1>0
  <2>3. CASE j \in 1..n
    <3>1. i \in DOMAIN log /\ j \in (i + 1)..Len(log) /\ s \in found[i] \cap found[j]
      BY <1>0, <2>2, <2>3 DEF n
    <3> QED
      BY <1>0, <2>2, <2>3, <3>1 DEF RepeatInv, NoRepeat
  <2>4. CASE j = n + 1
    <3>1. s[1] \in Detectors /\ s = <<s[1], s[2]>> /\ s[2] \in Fresh(s[1], e, now)
      BY <1>0, <2>4, FoundIs
    <3>2. i \in DOMAIN log /\ <<s[1], s[2]>> \in found[i]
      BY <1>0, <2>2, <3>1
    <3>3. now > log[i].at + DedupWindow[s[1]]
      BY <3>1, <3>2, FreshIsNew
    <3> QED
      BY <1>0, <2>2, <2>4, <3>3
  <2> QED
    BY <2>2, <2>3, <2>4
<1> QED
  BY <1>1, <1>2, <1>3 DEF RepeatInv

LEMMA RepeatStep ==
  AnalysisTypeOK /\ RepeatInv /\ [AnalysisNext]_analysisVars => RepeatInv'
<1> SUFFICES ASSUME AnalysisTypeOK, RepeatInv, [AnalysisNext]_analysisVars PROVE RepeatInv'
  OBVIOUS
<1>1. clock \in 1..MaxTime
  BY DEF AnalysisTypeOK
<1>2. CASE \E e \in Events, now \in 1..clock : Analyzed(e, now)
  BY <1>2, RepeatAnalyzed
<1>3. CASE Tick \/ UNCHANGED analysisVars
  <2>1. clock' \in {clock, clock + 1} /\ UNCHANGED <<recent, log, found>>
    BY <1>3 DEF Tick, analysisVars, caches
  <2>2. \A i \in DOMAIN log : \A s \in found[i] : Recalled(i, s)'
    <3> SUFFICES ASSUME NEW i \in DOMAIN log, NEW s \in found[i] PROVE Recalled(i, s)'
      OBVIOUS
    <3>1. Recalled(i, s)
      BY DEF RepeatInv
    <3>2. s[1] \in Detectors /\ log[i].at \in 1..clock
      BY Entries
    <3>3. DedupWindow[s[1]] \in Nat /\ MaxLag \in Nat /\ clock \in Nat
      BY <3>2, WindowsAssumption DEF AnalysisTypeOK
    <3> QED
      BY <2>1, <3>1, <3>2, <3>3 DEF Recalled
  <2> QED
    BY <2>1, <2>2 DEF RepeatInv, NoRepeat
<1> QED
  BY <1>1, <1>2, <1>3, Steps

LEMMA RepeatInit == AnalysisInit => RepeatInv
  BY DEF AnalysisInit, RepeatInv, NoRepeat

(* The memory of duplicates holds, whatever order the records come in.     *)
THEOREM RepeatHolds == AnalysisSpec => []RepeatInv
  BY AnalysisTyped, RepeatInit, RepeatStep, PTL DEF AnalysisSpec

(* No detector reports the same within its window (ThreadDetector.cpp,     *)
(* _isDuplicate, _rememberFinding).                                        *)
THEOREM NothingRepeated == AnalysisSpec => []NoRepeat
<1>1. RepeatInv => NoRepeat
  BY DEF RepeatInv
<1> QED
  BY <1>1, RepeatHolds, PTL

-----------------------------------------------------------------------------
(* Hijacks.  What a thread's entry says of its last suspension, change of  *)
(* context and owner, some record about that thread said.                  *)

Suspended(h, p, at, t) ==
  \E j \in DOMAIN h : /\ Suspends(h[j].event) /\ SeqTid(h[j].event) = t
                      /\ h[j].event.src = p /\ h[j].at = at

Redirected(h, p, at, t) ==
  \E j \in DOMAIN h : /\ ChangesContext(h[j].event) /\ SeqTid(h[j].event) = t
                      /\ h[j].event.src = p /\ h[j].at = at

Named(h, q, t) ==
  \E j \in DOMAIN h : SeqTid(h[j].event) = t /\ q \in {h[j].event.tgt, h[j].event.proc}

(* The entry st tells what the history h did about thread t.               *)
Founded(h, st, t) ==
  /\ st.suspendAt # 0 => Suspended(h, st.suspendBy, st.suspendAt, t)
  /\ st.contextAt # 0 => Redirected(h, st.contextBy, st.contextAt, t)
  /\ st.owner # None => Named(h, st.owner, t)

HijackInv == (\A t \in Tids : Founded(log, byTid[t], t)) /\ HijackJustified

LEMMA ThreadFounded ==
  ASSUME AnalysisTypeOK, HijackInv, NEW e \in Events, NEW now \in 1..clock,
         Analyzed(e, now), NEW t \in Tids
  PROVE  Founded(log', Threads(e, now)[t], t)
<1> DEFINE n == Len(log)
           st == byTid[t]
           new == Threads(e, now)[t]
<1>0. /\ n \in Nat /\ DOMAIN log = 1..n /\ DOMAIN log' = 1..(n + 1)
      /\ log'[n + 1] = [event |-> e, at |-> now]
      /\ \A i \in 1..n : log'[i] = log[i]
  BY Grown
<1>1. Founded(log', st, t)
  <2>1. Founded(log, st, t)
    BY DEF HijackInv
  <2>2. \A j \in DOMAIN log : j \in DOMAIN log' /\ log'[j] = log[j]
    BY <1>0
  <2> HIDE DEF st
  <2>3. ASSUME st.suspendAt # 0 PROVE Suspended(log', st.suspendBy, st.suspendAt, t)
    BY <2>1, <2>2, <2>3 DEF Founded, Suspended
  <2>4. ASSUME st.contextAt # 0 PROVE Redirected(log', st.contextBy, st.contextAt, t)
    BY <2>1, <2>2, <2>4 DEF Founded, Redirected
  <2>5. ASSUME st.owner # None PROVE Named(log', st.owner, t)
    BY <2>1, <2>2, <2>5 DEF Founded, Named
  <2> QED
    BY <2>3, <2>4, <2>5 DEF Founded
<1>2. CASE t # SeqTid(e)
  <2>1. new = st
    BY <1>2 DEF Threads
  <2> QED
    BY <1>1, <2>1
<1>3. CASE t = SeqTid(e)
  <2>1. new = ThreadAfter(st, e, now)
    BY <1>3 DEF Threads
  <2>2. n + 1 \in DOMAIN log' /\ log'[n + 1].event = e /\ log'[n + 1].at = now
    BY <1>0
  <2> HIDE DEF new, st, n
  <2>3. ASSUME new.suspendAt # 0 PROVE Suspended(log', new.suspendBy, new.suspendAt, t)
    <3>1. CASE Suspends(e)
      BY <1>3, <2>1, <2>2, <3>1 DEF ThreadAfter, Suspended
    <3>2. CASE ~Suspends(e)
      BY <1>1, <2>1, <2>3, <3>2 DEF ThreadAfter, Founded
    <3> QED
      BY <3>1, <3>2
  <2>4. ASSUME new.contextAt # 0 PROVE Redirected(log', new.contextBy, new.contextAt, t)
    <3>1. CASE ChangesContext(e)
      BY <1>3, <2>1, <2>2, <3>1 DEF ThreadAfter, Redirected
    <3>2. CASE ~ChangesContext(e)
      BY <1>1, <2>1, <2>4, <3>2 DEF ThreadAfter, Founded
    <3> QED
      BY <3>1, <3>2
  <2>5. ASSUME new.owner # None PROVE Named(log', new.owner, t)
    <3>1. new.owner \in {e.tgt, e.proc} \/ new.owner = st.owner
      BY <2>1 DEF ThreadAfter, OwnerAfter
    <3>2. CASE new.owner \in {e.tgt, e.proc}
      BY <1>3, <2>2, <3>2 DEF Named
    <3>3. CASE new.owner = st.owner
      BY <1>1, <2>5, <3>3 DEF Founded
    <3> QED
      BY <3>1, <3>2, <3>3
  <2>6. Founded(log', new, t)
    BY <2>3, <2>4, <2>5 DEF Founded
  <2> QED
    BY <2>6 DEF new
<1> QED
  BY <1>2, <1>3

LEMMA HijackAnalyzed ==
  ASSUME AnalysisTypeOK, HijackInv, NEW e \in Events, NEW now \in 1..clock, Analyzed(e, now)
  PROVE  HijackInv'
<1> DEFINE n == Len(log)
           th == Threads(e, now)
<1>0. /\ n \in Nat /\ DOMAIN log = 1..n /\ DOMAIN log' = 1..(n + 1)
      /\ log'[n + 1] = [event |-> e, at |-> now] /\ found'[n + 1] = Found(e, now)
      /\ \A i \in 1..n : log'[i] = log[i] /\ found'[i] = found[i]
  BY Grown
<1>1. \A t \in Tids : Founded(log', th[t], t)
  BY ThreadFounded
<1>t. th \in [Tids -> EntryType]
  BY ThreadsType
<1>d. byTid' = KeptThreads(th, now)
  BY DEF Analyzed
<1>o. Offers("ThreadHijack", th, Windows(e, now), ImagesSeen(e, now), e, now)
        = HijackOffers(th, e, now)
  BY DEF Offers
<1>h. Fresh("ThreadHijack", e, now) \subseteq HijackOffers(th, e, now)
  BY <1>o DEF Fresh
<1> HIDE DEF n, th
<1>2. \A t \in Tids : Founded(log', byTid'[t], t)
  <2>1. \A t \in Tids : byTid'[t] \in {th[t], NoThread}
    BY <1>d DEF KeptThreads
  <2>2. \A t \in Tids : Founded(log', NoThread, t)
    BY DEF Founded, NoThread
  <2> QED
    BY <1>1, <2>1, <2>2
<1>3. HijackJustified'
  <2> SUFFICES ASSUME NEW i \in 1..(n + 1), NEW s \in found'[i], s[1] = "ThreadHijack",
                      NEW p, p = s[2][1], NEW q, q = s[2][2], NEW t, t = s[2][3]
               PROVE  /\ p # q
                      /\ Resumes(log'[i].event)
                      /\ SeqTid(log'[i].event) = t /\ log'[i].event.src = p
                      /\ \E j, k \in 1..i :
                           /\ Suspends(log'[j].event)
                           /\ SeqTid(log'[j].event) = t /\ log'[j].event.src = p
                           /\ ChangesContext(log'[k].event)
                           /\ SeqTid(log'[k].event) = t /\ log'[k].event.src = p
                           /\ log'[j].at <= log'[k].at /\ log'[k].at <= log'[i].at
                           /\ log'[i].at <= log'[j].at + SequenceWindow
                      /\ \E j \in 1..i : /\ SeqTid(log'[j].event) = t
                                         /\ q \in {log'[j].event.tgt, log'[j].event.proc}
    BY <1>0 DEF HijackJustified, ActsOn, About
  <2>1. CASE i \in 1..n
    <3>1. i \in DOMAIN log /\ s \in found[i] /\ 1..i \subseteq 1..n
      BY <1>0, <2>1
    <3>2. /\ p # q
          /\ Resumes(log[i].event)
          /\ SeqTid(log[i].event) = t /\ log[i].event.src = p
          /\ \E j, k \in 1..i :
               /\ Suspends(log[j].event)
               /\ SeqTid(log[j].event) = t /\ log[j].event.src = p
               /\ ChangesContext(log[k].event)
               /\ SeqTid(log[k].event) = t /\ log[k].event.src = p
               /\ log[j].at <= log[k].at /\ log[k].at <= log[i].at
               /\ log[i].at <= log[j].at + SequenceWindow
          /\ \E j \in 1..i : /\ SeqTid(log[j].event) = t
                             /\ q \in {log[j].event.tgt, log[j].event.proc}
      BY <3>1 DEF HijackInv, HijackJustified, ActsOn, About
    <3> QED
      BY <1>0, <2>1, <3>1, <3>2
  <2>2. CASE i = n + 1
    <3>1. s[2] \in HijackOffers(th, e, now)
      BY <1>0, <1>h, <2>2, FoundIs
    <3>2. t \in Tids /\ t = SeqTid(e) /\ Hijacks(th[t], e, now)
          /\ p = e.src /\ q = th[t].owner
      BY <3>1 DEF HijackOffers
    <3>3. /\ Resumes(e) /\ q # None /\ p # q
          /\ th[t].suspendAt # 0 /\ th[t].contextAt # 0
          /\ th[t].suspendAt <= th[t].contextAt /\ th[t].contextAt <= now
          /\ now <= th[t].suspendAt + SequenceWindow
          /\ th[t].suspendBy = p /\ th[t].contextBy = p
      BY <3>2 DEF Hijacks
    <3>4. /\ Suspended(log', p, th[t].suspendAt, t)
          /\ Redirected(log', p, th[t].contextAt, t) /\ Named(log', q, t)
      BY <1>1, <3>2, <3>3 DEF Founded
    <3>5. PICK j \in 1..i : /\ Suspends(log'[j].event) /\ SeqTid(log'[j].event) = t
                            /\ log'[j].event.src = p /\ log'[j].at = th[t].suspendAt
      BY <1>0, <2>2, <3>4 DEF Suspended
    <3>6. PICK k \in 1..i : /\ ChangesContext(log'[k].event) /\ SeqTid(log'[k].event) = t
                            /\ log'[k].event.src = p /\ log'[k].at = th[t].contextAt
      BY <1>0, <2>2, <3>4 DEF Redirected
    <3>7. \E m \in 1..i : /\ SeqTid(log'[m].event) = t
                          /\ q \in {log'[m].event.tgt, log'[m].event.proc}
      BY <1>0, <2>2, <3>4 DEF Named
    <3>8. log'[i].event = e /\ log'[i].at = now
      BY <1>0, <2>2
    <3> QED
      BY <3>2, <3>3, <3>5, <3>6, <3>7, <3>8
  <2> QED
    BY <1>0, <2>1, <2>2
<1> QED
  BY <1>2, <1>3 DEF HijackInv

LEMMA HijackInit == AnalysisInit => HijackInv
  BY DEF AnalysisInit, HijackInv, HijackJustified, Founded, NoThread

LEMMA HijackStep ==
  AnalysisTypeOK /\ HijackInv /\ [AnalysisNext]_analysisVars => HijackInv'
<1> SUFFICES ASSUME AnalysisTypeOK, HijackInv, [AnalysisNext]_analysisVars PROVE HijackInv'
  OBVIOUS
<1>1. clock \in 1..MaxTime
  BY DEF AnalysisTypeOK
<1>2. CASE \E e \in Events, now \in 1..clock : Analyzed(e, now)
  BY <1>2, HijackAnalyzed
<1>3. CASE Tick \/ UNCHANGED analysisVars
  <2>1. UNCHANGED <<byTid, log, found>>
    BY <1>3 DEF Tick, analysisVars, caches
  <2> QED
    BY <2>1 DEF HijackInv, HijackJustified, ActsOn, About
<1> QED
  BY <1>1, <1>2, <1>3, Steps

(* The entries of the threads and the hijacks that rest on them.           *)
THEOREM HijacksHold == AnalysisSpec => []HijackInv
  BY AnalysisTyped, HijackInit, HijackStep, PTL DEF AnalysisSpec

(* No hijack is reported that did not happen, though entries are merged    *)
(* from several records and erased with time (ThreadCaches.cpp, update and *)
(* cleanup; ThreadHijackDetector.cpp, onEvent).                            *)
THEOREM HijacksJustified == AnalysisSpec => []HijackJustified
<1>1. HijackInv => HijackJustified
  BY DEF HijackInv
<1> QED
  BY <1>1, HijacksHold, PTL

-----------------------------------------------------------------------------
(* Completeness: nothing is forgotten that a hijack in progress or an      *)
(* access to lsass still needs.                                            *)

(* Only the Sysmon channel lags behind.                                    *)
InOrder ==
  \A i \in DOMAIN log : log[i].event.provider # "Sysmon" =>
    \A j \in 1..i : log[j].at <= log[i].at

LastSuspension(h, j, t) ==
  /\ Suspends(h[j].event) /\ SeqTid(h[j].event) = t
  /\ \A m \in DOMAIN h : m > j /\ SeqTid(h[m].event) = t => ~Suspends(h[m].event)

LastChange(h, j, t) ==
  /\ ChangesContext(h[j].event) /\ SeqTid(h[j].event) = t
  /\ \A m \in DOMAIN h : m > j /\ SeqTid(h[m].event) = t => ~ChangesContext(h[m].event)

ShowsImage(e, p) ==
  \/ e.tgt = p /\ e.timage # None
  \/ e.src = p /\ e.simage # None
  \/ p \in {e.pid, e.proc} /\ e.image # None

LastImage(h, j, p) ==
  /\ h[j].event.tgt = p /\ h[j].event.timage # None
  /\ \A m \in DOMAIN h : m > j => ~ShowsImage(h[m].event, p)

(* What the entries f of the threads, or of the images, hold of history h. *)
KeepsSuspension(h, f) ==
  \A t \in Tids : \A j \in DOMAIN h :
    LastSuspension(h, j, t) /\ clock <= h[j].at + TidTTL =>
      /\ f[t].suspendAt = h[j].at /\ f[t].suspendBy = h[j].event.src
      /\ h[j].event.tgt # None => f[t].owner # None

KeepsChange(h, f) ==
  \A t \in Tids : \A j \in DOMAIN h :
    LastChange(h, j, t) /\ clock <= h[j].at + TidTTL =>
      f[t].contextAt = h[j].at /\ f[t].contextBy = h[j].event.src

KeepsImage(h, f) ==
  \A p \in Pids : \A j \in DOMAIN h :
    LastImage(h, j, p) /\ clock <= h[j].at + XprocTTL =>
      f[p] = [image |-> h[j].event.timage, at |-> h[j].at]

MemoryInv ==
  /\ InOrder
  /\ KeepsSuspension(log, byTid) /\ KeepsChange(log, byTid)
  /\ KeepsImage(log, images)

(* The update of the caches adds the event ...                             *)
LEMMA ThreadsKeep ==
  ASSUME AnalysisTypeOK, MemoryInv, NEW e \in Events, NEW now \in 1..clock,
         Analyzed(e, now)
  PROVE  KeepsSuspension(log', Threads(e, now)) /\ KeepsChange(log', Threads(e, now))
<1> DEFINE n == Len(log)
           th == Threads(e, now)
<1>0. /\ n \in Nat /\ DOMAIN log = 1..n /\ DOMAIN log' = 1..(n + 1)
      /\ log'[n + 1] = [event |-> e, at |-> now]
      /\ \A i \in 1..n : log'[i] = log[i]
  BY Grown
<1>1. \A t \in Tids : th[t] = IF t = SeqTid(e) THEN ThreadAfter(byTid[t], e, now) ELSE byTid[t]
  BY DEF Threads
<1> HIDE DEF n, th
<1>2. KeepsSuspension(log', th)
  <2> SUFFICES ASSUME NEW t \in Tids, NEW j \in 1..(n + 1), LastSuspension(log', j, t),
                      clock <= log'[j].at + TidTTL
               PROVE  /\ th[t].suspendAt = log'[j].at
                      /\ th[t].suspendBy = log'[j].event.src
                      /\ log'[j].event.tgt # None => th[t].owner # None
    BY <1>0 DEF KeepsSuspension
  <2>1. CASE j = n + 1
    <3>1. Suspends(e) /\ t = SeqTid(e) /\ log'[j].event = e /\ log'[j].at = now
      BY <1>0, <2>1 DEF LastSuspension
    <3>2. th[t] = ThreadAfter(byTid[t], e, now)
      BY <1>1, <3>1
    <3>3. th[t].suspendAt = now /\ th[t].suspendBy = e.src
      BY <3>1, <3>2 DEF ThreadAfter
    <3>4. e.tgt # None => th[t].owner # None
      BY <3>2 DEF ThreadAfter, OwnerAfter
    <3> QED
      BY <3>1, <3>3, <3>4
  <2>2. CASE j \in 1..n
    <3>1. LastSuspension(log, j, t) /\ log'[j] = log[j]
      BY <1>0, <2>2 DEF LastSuspension
    <3>2. /\ byTid[t].suspendAt = log[j].at /\ byTid[t].suspendBy = log[j].event.src
          /\ log[j].event.tgt # None => byTid[t].owner # None
      BY <1>0, <2>2, <3>1 DEF MemoryInv, KeepsSuspension
    <3>3. SeqTid(e) = t => ~Suspends(e)
      <4>1. n + 1 \in DOMAIN log' /\ n + 1 > j /\ log'[n + 1].event = e
        BY <1>0, <2>2
      <4> QED
        BY <4>1 DEF LastSuspension
    <3>4. CASE SeqTid(e) = t
      <4>1. th[t] = ThreadAfter(byTid[t], e, now)
        BY <1>1, <3>4
      <4>2. /\ th[t].suspendAt = byTid[t].suspendAt
            /\ th[t].suspendBy = byTid[t].suspendBy
        BY <3>3, <3>4, <4>1 DEF ThreadAfter
      <4>3. byTid[t].owner # None => th[t].owner # None
        BY <4>1 DEF ThreadAfter, OwnerAfter
      <4> QED
        BY <3>1, <3>2, <4>2, <4>3
    <3>5. CASE SeqTid(e) # t
      <4>1. th[t] = byTid[t]
        BY <1>1, <3>5
      <4> QED
        BY <3>1, <3>2, <4>1
    <3> QED
      BY <3>4, <3>5
  <2> QED
    BY <1>0, <2>1, <2>2
<1>3. KeepsChange(log', th)
  <2> SUFFICES ASSUME NEW t \in Tids, NEW j \in 1..(n + 1), LastChange(log', j, t),
                      clock <= log'[j].at + TidTTL
               PROVE  th[t].contextAt = log'[j].at /\ th[t].contextBy = log'[j].event.src
    BY <1>0 DEF KeepsChange
  <2>1. CASE j = n + 1
    <3>1. ChangesContext(e) /\ t = SeqTid(e) /\ log'[j].event = e /\ log'[j].at = now
      BY <1>0, <2>1 DEF LastChange
    <3>2. th[t] = ThreadAfter(byTid[t], e, now)
      BY <1>1, <3>1
    <3>3. th[t].contextAt = now /\ th[t].contextBy = e.src
      BY <3>1, <3>2 DEF ThreadAfter
    <3> QED
      BY <3>1, <3>3
  <2>2. CASE j \in 1..n
    <3>1. LastChange(log, j, t) /\ log'[j] = log[j]
      BY <1>0, <2>2 DEF LastChange
    <3>2. byTid[t].contextAt = log[j].at /\ byTid[t].contextBy = log[j].event.src
      BY <1>0, <2>2, <3>1 DEF MemoryInv, KeepsChange
    <3>3. SeqTid(e) = t => ~ChangesContext(e)
      <4>1. n + 1 \in DOMAIN log' /\ n + 1 > j /\ log'[n + 1].event = e
        BY <1>0, <2>2
      <4> QED
        BY <4>1 DEF LastChange
    <3>4. CASE SeqTid(e) = t
      <4>1. th[t] = ThreadAfter(byTid[t], e, now)
        BY <1>1, <3>4
      <4>2. /\ th[t].contextAt = byTid[t].contextAt
            /\ th[t].contextBy = byTid[t].contextBy
        BY <3>3, <3>4, <4>1 DEF ThreadAfter
      <4> QED
        BY <3>1, <3>2, <4>2
    <3>5. CASE SeqTid(e) # t
      <4>1. th[t] = byTid[t]
        BY <1>1, <3>5
      <4> QED
        BY <3>1, <3>2, <4>1
    <3> QED
      BY <3>4, <3>5
  <2> QED
    BY <1>0, <2>1, <2>2
<1> QED
  BY <1>2, <1>3 DEF th

LEMMA ImagesKeep ==
  ASSUME AnalysisTypeOK, MemoryInv, NEW e \in Events, NEW now \in 1..clock,
         Analyzed(e, now)
  PROVE  KeepsImage(log', ImagesSeen(e, now))
<1> DEFINE n == Len(log)
           im == ImagesSeen(e, now)
<1>0. /\ n \in Nat /\ DOMAIN log = 1..n /\ DOMAIN log' = 1..(n + 1)
      /\ log'[n + 1] = [event |-> e, at |-> now]
      /\ \A i \in 1..n : log'[i] = log[i]
  BY Grown
<1>1. \A p \in Pids : im[p] = ImageAfter(images[p], p, e, now)
  BY DEF ImagesSeen
<1> HIDE DEF n, im
<1> SUFFICES ASSUME NEW p \in Pids, NEW j \in 1..(n + 1), LastImage(log', j, p),
                    clock <= log'[j].at + XprocTTL
             PROVE  im[p] = [image |-> log'[j].event.timage, at |-> log'[j].at]
  BY <1>0 DEF KeepsImage, im
<1>2. CASE j = n + 1
  <2>1. e.tgt = p /\ e.timage # None /\ log'[j].event = e /\ log'[j].at = now
    BY <1>0, <1>2 DEF LastImage
  <2> QED
    BY <1>1, <2>1 DEF ImageAfter
<1>3. CASE j \in 1..n
  <2>1. LastImage(log, j, p) /\ log'[j] = log[j]
    BY <1>0, <1>3 DEF LastImage
  <2>2. images[p] = [image |-> log[j].event.timage, at |-> log[j].at]
    BY <1>0, <1>3, <2>1 DEF MemoryInv, KeepsImage
  <2>3. ~ShowsImage(e, p)
    <3>1. n + 1 \in DOMAIN log' /\ n + 1 > j /\ log'[n + 1].event = e
      BY <1>0, <1>3
    <3> QED
      BY <3>1 DEF LastImage
  <2> QED
    BY <1>1, <2>1, <2>2, <2>3 DEF ImageAfter, ShowsImage
<1> QED
  BY <1>0, <1>2, <1>3

(* ... and cleanup erases nothing that is within its time to live.         *)
LEMMA MemoryAnalyzed ==
  ASSUME AnalysisTypeOK, MemoryInv, NEW e \in Events, NEW now \in 1..clock,
         Analyzed(e, now)
  PROVE  MemoryInv'
<1> DEFINE n == Len(log)
           th == Threads(e, now)
           im == ImagesSeen(e, now)
<1>0. /\ n \in Nat /\ DOMAIN log = 1..n /\ DOMAIN log' = 1..(n + 1)
      /\ log'[n + 1] = [event |-> e, at |-> now]
      /\ \A i \in 1..n : log'[i] = log[i]
  BY Grown
<1>a. /\ clock \in Nat /\ now \in Nat /\ now <= clock /\ clock' = clock
      /\ TidTTL \in Nat /\ XprocTTL \in Nat
      /\ e.provider # "Sysmon" => now = clock
  BY WindowsAssumption DEF AnalysisTypeOK, Analyzed
<1>b. \A i \in 1..(n + 1) : log'[i].at \in 1..clock
  BY <1>0, Entries
<1>c. /\ byTid' = KeptThreads(th, now) /\ images' = KeptImages(im, now)
  BY DEF Analyzed
<1>d. KeepsSuspension(log', th) /\ KeepsChange(log', th) /\ KeepsImage(log', im)
  BY ThreadsKeep, ImagesKeep
<1> HIDE DEF n, th, im
<1>1. InOrder'
  <2> SUFFICES ASSUME NEW i \in 1..(n + 1), log'[i].event.provider # "Sysmon",
                      NEW j \in 1..i
               PROVE  log'[j].at <= log'[i].at
    BY <1>0 DEF InOrder
  <2>1. CASE i = n + 1
    BY <1>0, <1>a, <1>b, <2>1
  <2>2. CASE i \in 1..n
    BY <1>0, <2>2 DEF MemoryInv, InOrder
  <2> QED
    BY <1>0, <2>1, <2>2
<1>2. KeepsSuspension(log, byTid)'
  <2> SUFFICES ASSUME NEW t \in Tids, NEW j \in 1..(n + 1), LastSuspension(log', j, t),
                      clock <= log'[j].at + TidTTL
               PROVE  byTid'[t] = th[t]
    BY <1>0, <1>a, <1>d DEF KeepsSuspension
  <2>1. th[t].suspendAt = log'[j].at
    BY <1>0, <1>d DEF KeepsSuspension
  <2>2. Kept(LastThread(th[t]), TidTTL, now)
    BY <1>a, <1>b, <2>1 DEF Kept, LastThread
  <2> QED
    BY <1>c, <2>2 DEF KeptThreads
<1>3. KeepsChange(log, byTid)'
  <2> SUFFICES ASSUME NEW t \in Tids, NEW j \in 1..(n + 1), LastChange(log', j, t),
                      clock <= log'[j].at + TidTTL
               PROVE  byTid'[t] = th[t]
    BY <1>0, <1>a, <1>d DEF KeepsChange
  <2>1. th[t].contextAt = log'[j].at
    BY <1>0, <1>d DEF KeepsChange
  <2>2. Kept(LastThread(th[t]), TidTTL, now)
    BY <1>a, <1>b, <2>1 DEF Kept, LastThread
  <2> QED
    BY <1>c, <2>2 DEF KeptThreads
<1>4. KeepsImage(log, images)'
  <2> SUFFICES ASSUME NEW p \in Pids, NEW j \in 1..(n + 1), LastImage(log', j, p),
                      clock <= log'[j].at + XprocTTL
               PROVE  images'[p] = im[p]
    BY <1>0, <1>a, <1>d DEF KeepsImage
  <2>0. im[p] = [image |-> log'[j].event.timage, at |-> log'[j].at]
    BY <1>0, <1>d DEF KeepsImage
  <2>1. im[p].at = log'[j].at
    BY <2>0
  <2>2. Kept({im[p].at}, XprocTTL, now)
    BY <1>a, <1>b, <2>1 DEF Kept
  <2> QED
    BY <1>c, <2>2 DEF KeptImages
<1> QED
  BY <1>1, <1>2, <1>3, <1>4 DEF MemoryInv

LEMMA MemoryStep ==
  AnalysisTypeOK /\ MemoryInv /\ [AnalysisNext]_analysisVars => MemoryInv'
<1> SUFFICES ASSUME AnalysisTypeOK, MemoryInv, [AnalysisNext]_analysisVars PROVE MemoryInv'
  OBVIOUS
<1>1. clock \in 1..MaxTime
  BY DEF AnalysisTypeOK
<1>2. CASE \E e \in Events, now \in 1..clock : Analyzed(e, now)
  BY <1>2, MemoryAnalyzed
<1>3. CASE Tick \/ UNCHANGED analysisVars
  <2>1. clock' \in {clock, clock + 1} /\ UNCHANGED <<byTid, images, log>>
    BY <1>3 DEF Tick, analysisVars, caches
  <2>2. \A j \in DOMAIN log : \A ttl \in Nat :
          clock' <= log[j].at + ttl => clock <= log[j].at + ttl
    <3>1. \A j \in DOMAIN log : log[j].at \in 1..clock
      BY Entries
    <3> QED
      BY <1>1, <2>1, <3>1, WindowsAssumption
  <2>3. TidTTL \in Nat /\ XprocTTL \in Nat
    BY WindowsAssumption
  <2>4. KeepsSuspension(log, byTid)' /\ KeepsChange(log, byTid)'
    BY <2>1, <2>2, <2>3 DEF MemoryInv, KeepsSuspension, KeepsChange
  <2>5. KeepsImage(log, images)'
    BY <2>1, <2>2, <2>3 DEF MemoryInv, KeepsImage
  <2> QED
    BY <2>1, <2>4, <2>5 DEF MemoryInv, InOrder
<1> QED
  BY <1>1, <1>2, <1>3, Steps

LEMMA MemoryInit == AnalysisInit => MemoryInv
  BY DEF AnalysisInit, MemoryInv, InOrder, KeepsSuspension, KeepsChange, KeepsImage

(* What a detector offers is a report, or repeats one that is recent.      *)
Answered(h, f, s, i) ==
  \E m \in 1..i : s \in f[m] /\ h[i].at <= h[m].at + DedupWindow[s[1]]

LEMMA OfferAnswered ==
  ASSUME AnalysisTypeOK, RepeatInv, NEW e \in Events, NEW now \in 1..clock,
         Analyzed(e, now), NEW d \in Detectors,
         NEW k \in Offers(d, Threads(e, now), Windows(e, now), ImagesSeen(e, now), e, now)
  PROVE  Answered(log', found', <<d, k>>, Len(log) + 1)
<1> DEFINE n == Len(log)
<1>0. /\ n \in Nat /\ DOMAIN log = 1..n
      /\ log'[n + 1] = [event |-> e, at |-> now] /\ found'[n + 1] = Found(e, now)
      /\ \A i \in 1..n : log'[i] = log[i] /\ found'[i] = found[i]
  BY Grown
<1>a. DedupWindow[d] \in Nat /\ now \in Nat
  BY WindowsAssumption DEF AnalysisTypeOK
<1> HIDE DEF n
<1>1. CASE k \in Fresh(d, e, now)
  <2>1. <<d, k>> \in found'[n + 1] /\ log'[n + 1].at <= log'[n + 1].at + DedupWindow[d]
    BY <1>0, <1>a, <1>1, FoundHas
  <2> QED
    BY <1>0, <2>1 DEF Answered, n
<1>2. CASE k \notin Fresh(d, e, now)
  <2>1. k \in DOMAIN recent[d] /\ now <= recent[d][k] + DedupWindow[d]
    BY <1>2 DEF Fresh, Duplicate
  <2>2. PICK m \in 1..n : <<d, k>> \in found[m] /\ log[m].at = recent[d][k]
    BY <1>0, <2>1 DEF RepeatInv
  <2>3. m \in 1..(n + 1) /\ <<d, k>> \in found'[m]
        /\ log'[n + 1].at <= log'[m].at + DedupWindow[d]
    BY <1>0, <2>1, <2>2
  <2> QED
    BY <2>3 DEF Answered, n
<1> QED
  BY <1>1, <1>2

-----------------------------------------------------------------------------
(* The hijack that resumes its thread in record i of history h.            *)
Hijacked(h, i, j, k) ==
  LET p == h[i].event.src
      q == h[j].event.tgt
      t == SeqTid(h[i].event)
  IN  /\ Resumes(h[i].event)
      /\ j < k /\ None \notin {p, q, t} /\ p # q
      /\ \A m \in 1..i : SeqTid(h[m].event) = t =>
           {h[m].event.tgt, h[m].event.proc} \subseteq {q, None}
      /\ Suspends(h[j].event) /\ SeqTid(h[j].event) = t /\ h[j].event.src = p
      /\ ChangesContext(h[k].event) /\ SeqTid(h[k].event) = t /\ h[k].event.src = p
      /\ \A m \in (j + 1)..(i - 1) : m # k /\ SeqTid(h[m].event) = t =>
           ~Suspends(h[m].event) /\ ~ChangesContext(h[m].event)
      /\ h[i].at <= h[j].at + SequenceWindow

HijackSign(h, i, j) ==
  <<"ThreadHijack", <<h[i].event.src, h[j].event.tgt, SeqTid(h[i].event)>>>>

LEMMA CaughtIs ==
  /\ HijackCaught <=> \A i \in DOMAIN log : \A j, k \in 1..(i - 1) :
       Hijacked(log, i, j, k) => Answered(log, found, HijackSign(log, i, j), i)
  /\ HijackCaught' <=> \A i \in DOMAIN log' : \A j, k \in 1..(i - 1) :
       Hijacked(log', i, j, k) => Answered(log', found', HijackSign(log', i, j), i)
BY DEF HijackCaught, Hijacked, HijackSign, Answered, ReportedBy, Owns, ActsOn, About

LEMMA HijackOffered ==
  ASSUME AnalysisTypeOK, HijackInv, MemoryInv, NEW e \in Events, NEW now \in 1..clock,
         Analyzed(e, now), NEW j \in 1..Len(log), NEW k \in 1..Len(log),
         Hijacked(log', Len(log) + 1, j, k)
  PROVE  <<e.src, log[j].event.tgt, SeqTid(e)>> \in HijackOffers(Threads(e, now), e, now)
<1> DEFINE n == Len(log)
           p == e.src
           q == log[j].event.tgt
           t == SeqTid(e)
           th == Threads(e, now)
<1>0. /\ n \in Nat /\ DOMAIN log = 1..n /\ DOMAIN log' = 1..(n + 1)
      /\ log'[n + 1] = [event |-> e, at |-> now]
      /\ \A i \in 1..n : log'[i] = log[i]
  BY Grown
<1>1. /\ Resumes(e) /\ j < k /\ None \notin {p, q, t} /\ p # q
      /\ Suspends(log[j].event) /\ SeqTid(log[j].event) = t /\ log[j].event.src = p
      /\ ChangesContext(log[k].event) /\ SeqTid(log[k].event) = t /\ log[k].event.src = p
      /\ now <= log[j].at + SequenceWindow
  BY <1>0 DEF Hijacked
<1>2. \A m \in (j + 1)..n : m # k /\ SeqTid(log[m].event) = t =>
        ~Suspends(log[m].event) /\ ~ChangesContext(log[m].event)
  BY <1>0 DEF Hijacked
<1>3. \A m \in 1..(n + 1) : SeqTid(log'[m].event) = t =>
        {log'[m].event.tgt, log'[m].event.proc} \subseteq {q, None}
  BY <1>0 DEF Hijacked
<1>4. t \in Tids
  BY <1>1, EventFields
<1>5. now = clock /\ log[k].event.provider # "Sysmon"
  <2>1. \A f \in Events : f.name \in {"SetThreadContext", "ResumeThread"} => f.provider # "Sysmon"
    BY EventsAssumption DEF SysmonShape
  <2>2. log[k].event \in Events
    BY <1>0, Entries
  <2> QED
    BY <1>1, <2>1, <2>2 DEF Resumes, ChangesContext, Analyzed
<1>6. /\ clock \in Nat /\ TidTTL \in Nat /\ SequenceWindow \in Nat /\ SequenceWindow <= TidTTL
      /\ log[j].at \in 1..clock /\ log[k].at \in 1..clock /\ log[j].at <= log[k].at
  <2>1. log[j].at <= log[k].at
    BY <1>0, <1>1, <1>5 DEF MemoryInv, InOrder
  <2>2. log[j].at \in 1..clock /\ log[k].at \in 1..clock
    BY <1>0, Entries
  <2> QED
    BY <2>1, <2>2, WindowsAssumption DEF AnalysisTypeOK
<1>7. /\ byTid[t].suspendAt = log[j].at /\ byTid[t].suspendBy = p /\ byTid[t].owner # None
      /\ byTid[t].contextAt = log[k].at /\ byTid[t].contextBy = p
  <2>1. ~Suspends(log[k].event)
    BY <1>1 DEF ChangesContext, Suspends
  <2>2. LastSuspension(log, j, t)
    <3>1. \A m \in DOMAIN log : m > j => m = k \/ (m # k /\ m \in (j + 1)..n)
      BY <1>0
    <3> QED
      BY <1>1, <1>2, <2>1, <3>1 DEF LastSuspension
  <2>3. LastChange(log, k, t)
    <3>1. \A m \in DOMAIN log : m > k => m # k /\ m \in (j + 1)..n
      BY <1>0, <1>1
    <3> QED
      BY <1>1, <1>2, <3>1 DEF LastChange
  <2>4. clock <= log[j].at + TidTTL /\ clock <= log[k].at + TidTTL
    BY <1>1, <1>5, <1>6
  <2> QED
    BY <1>0, <1>1, <1>4, <2>2, <2>3, <2>4 DEF MemoryInv, KeepsSuspension, KeepsChange
<1>8. th[t] = ThreadAfter(byTid[t], e, now) /\ Founded(log', th[t], t)
  BY <1>4, ThreadFounded DEF Threads
<1>9. /\ th[t].suspendAt = log[j].at /\ th[t].suspendBy = p /\ th[t].owner # None
      /\ th[t].contextAt = log[k].at /\ th[t].contextBy = p
  <2>1. ~Suspends(e) /\ ~ChangesContext(e)
    BY <1>1 DEF Resumes, Suspends, ChangesContext
  <2> QED
    BY <1>7, <1>8, <2>1 DEF ThreadAfter, OwnerAfter
<1>10. th[t].owner = q
  <2>1. Named(log', th[t].owner, t)
    BY <1>8, <1>9 DEF Founded
  <2> QED
    BY <1>0, <1>3, <1>9, <2>1 DEF Named
<1>11. Hijacks(th[t], e, now)
  BY <1>1, <1>5, <1>6, <1>9, <1>10 DEF Hijacks
<1> QED
  BY <1>4, <1>10, <1>11 DEF HijackOffers

LEMMA CaughtAnalyzed ==
  ASSUME AnalysisTypeOK, RepeatInv, HijackInv, MemoryInv, HijackCaught,
         NEW e \in Events, NEW now \in 1..clock, Analyzed(e, now)
  PROVE  HijackCaught'
<1> DEFINE n == Len(log)
<1>0. /\ n \in Nat /\ DOMAIN log = 1..n /\ DOMAIN log' = 1..(n + 1)
      /\ log'[n + 1] = [event |-> e, at |-> now]
      /\ \A i \in 1..n : log'[i] = log[i] /\ found'[i] = found[i]
  BY Grown
<1> HIDE DEF n
<1> SUFFICES ASSUME NEW i \in 1..(n + 1), NEW j \in 1..(i - 1), NEW k \in 1..(i - 1),
                    Hijacked(log', i, j, k)
             PROVE  Answered(log', found', HijackSign(log', i, j), i)
  BY <1>0, CaughtIs
<1>1. CASE i \in 1..n
  <2>1. \A m \in 1..i : m \in 1..n /\ log'[m] = log[m] /\ found'[m] = found[m]
    BY <1>0, <1>1
  <2>2. i \in 1..i /\ j \in 1..i /\ k \in 1..i /\ (j + 1)..(i - 1) \subseteq 1..i
    BY <1>0, <1>1
  <2>3. Hijacked(log, i, j, k)
    BY <2>1, <2>2 DEF Hijacked
  <2>4. Answered(log, found, HijackSign(log, i, j), i)
    BY <1>0, <1>1, <2>3, CaughtIs
  <2> QED
    BY <2>1, <2>2, <2>4 DEF Answered, HijackSign
<1>2. CASE i = n + 1
  <2>1. j \in 1..n /\ k \in 1..n
    BY <1>0, <1>2
  <2>2. <<e.src, log[j].event.tgt, SeqTid(e)>> \in HijackOffers(Threads(e, now), e, now)
    BY <1>2, <2>1, HijackOffered DEF n
  <2>3. "ThreadHijack" \in Detectors
    BY DEF Detectors
  <2>4. Offers("ThreadHijack", Threads(e, now), Windows(e, now), ImagesSeen(e, now), e, now)
          = HijackOffers(Threads(e, now), e, now)
    BY DEF Offers
  <2>5. HijackSign(log', i, j) = <<"ThreadHijack", <<e.src, log[j].event.tgt, SeqTid(e)>>>>
    BY <1>0, <1>2, <2>1 DEF HijackSign
  <2> QED
    BY <1>2, <2>2, <2>3, <2>4, <2>5, OfferAnswered DEF n
<1> QED
  BY <1>0, <1>1, <1>2

-----------------------------------------------------------------------------
(* Record i of history h reads the memory of lsass, as record j has told.  *)
ReadsLsass(h, i, j) ==
  LET e == h[i].event
      p == h[j].event.tgt
  IN  /\ ProcessAccess(e) /\ e.succeeded /\ e.suspicious /\ Crosses(e)
      /\ e.tgt = p /\ {e.image, e.timage, e.simage} = {None}
      /\ h[j].event.timage \in Lsass
      /\ \A m \in (j + 1)..(i - 1) : ~ShowsImage(h[m].event, p)
      /\ h[i].at <= h[j].at + XprocTTL

LsassSign(h, i, j) ==
  <<"LsassAccess", <<h[i].event.src, h[j].event.tgt, SeqTid(h[i].event)>>>>

LEMMA LsassCaughtIs ==
  /\ LsassCaught <=> \A i \in DOMAIN log : \A j \in 1..(i - 1) :
       ReadsLsass(log, i, j) => Answered(log, found, LsassSign(log, i, j), i)
  /\ LsassCaught' <=> \A i \in DOMAIN log' : \A j \in 1..(i - 1) :
       ReadsLsass(log', i, j) => Answered(log', found', LsassSign(log', i, j), i)
BY DEF LsassCaught, ReadsLsass, LsassSign, Answered, ReportedBy, TellsImage, ShowsImage

LEMMA LsassOffered ==
  ASSUME AnalysisTypeOK, MemoryInv, NEW e \in Events, NEW now \in 1..clock,
         Analyzed(e, now), NEW j \in 1..Len(log), ReadsLsass(log', Len(log) + 1, j)
  PROVE  <<e.src, log[j].event.tgt, SeqTid(e)>> \in LsassOffers(ImagesSeen(e, now), e)
<1> DEFINE n == Len(log)
           p == log[j].event.tgt
           im == ImagesSeen(e, now)
<1>0. /\ n \in Nat /\ DOMAIN log = 1..n /\ DOMAIN log' = 1..(n + 1)
      /\ log'[n + 1] = [event |-> e, at |-> now]
      /\ \A i \in 1..n : log'[i] = log[i]
  BY Grown
<1>1. /\ ProcessAccess(e) /\ e.succeeded /\ e.suspicious /\ Crosses(e)
      /\ e.tgt = p /\ e.image = None /\ e.timage = None /\ e.simage = None
      /\ log[j].event.timage \in Lsass
      /\ now <= log[j].at + XprocTTL
  <2>1. log'[n + 1].event = e /\ log'[n + 1].at = now /\ log'[j] = log[j]
    BY <1>0
  <2>2. /\ ProcessAccess(e) /\ e.succeeded /\ e.suspicious /\ Crosses(e)
        /\ e.tgt = p /\ {e.image, e.timage, e.simage} = {None}
        /\ log[j].event.timage \in Lsass
        /\ now <= log[j].at + XprocTTL
    BY <2>1 DEF ReadsLsass
  <2> QED
    BY <2>2
<1>2. \A m \in (j + 1)..n : ~ShowsImage(log[m].event, p)
  BY <1>0 DEF ReadsLsass
<1>3. p \in Pids /\ log[j].event.timage # None
  BY <1>1, EventFields, EventsAssumption DEF Crosses
<1>4. now = clock
  <2>1. e.provider # "Sysmon"
    BY <1>1, EventsAssumption DEF SysmonShape, ProcessAccess
  <2> QED
    BY <2>1 DEF Analyzed
<1>5. LastImage(log, j, p)
  <2>1. \A m \in DOMAIN log : m > j => m \in (j + 1)..n
    BY <1>0
  <2> QED
    BY <1>2, <1>3, <2>1 DEF LastImage
<1>6. images[p] = [image |-> log[j].event.timage, at |-> log[j].at]
  BY <1>0, <1>1, <1>3, <1>4, <1>5 DEF MemoryInv, KeepsImage
<1>7. im[p] = images[p]
  BY <1>1, <1>3 DEF ImagesSeen, ImageAfter
<1>8. TargetImage(im, e) \in Lsass
  BY <1>1, <1>6, <1>7 DEF TargetImage
<1> QED
  BY <1>1, <1>8 DEF LsassOffers

LEMMA LsassAnalyzed ==
  ASSUME AnalysisTypeOK, RepeatInv, MemoryInv, LsassCaught,
         NEW e \in Events, NEW now \in 1..clock, Analyzed(e, now)
  PROVE  LsassCaught'
<1> DEFINE n == Len(log)
<1>0. /\ n \in Nat /\ DOMAIN log = 1..n /\ DOMAIN log' = 1..(n + 1)
      /\ log'[n + 1] = [event |-> e, at |-> now]
      /\ \A i \in 1..n : log'[i] = log[i] /\ found'[i] = found[i]
  BY Grown
<1> HIDE DEF n
<1> SUFFICES ASSUME NEW i \in 1..(n + 1), NEW j \in 1..(i - 1), ReadsLsass(log', i, j)
             PROVE  Answered(log', found', LsassSign(log', i, j), i)
  BY <1>0, LsassCaughtIs
<1>1. CASE i \in 1..n
  <2>1. \A m \in 1..i : m \in 1..n /\ log'[m] = log[m] /\ found'[m] = found[m]
    BY <1>0, <1>1
  <2>2. i \in 1..i /\ j \in 1..i /\ (j + 1)..(i - 1) \subseteq 1..i
    BY <1>0, <1>1
  <2>3. ReadsLsass(log, i, j)
    BY <2>1, <2>2 DEF ReadsLsass
  <2>4. Answered(log, found, LsassSign(log, i, j), i)
    BY <1>0, <1>1, <2>3, LsassCaughtIs
  <2> QED
    BY <2>1, <2>2, <2>4 DEF Answered, LsassSign
<1>2. CASE i = n + 1
  <2>1. j \in 1..n
    BY <1>0, <1>2
  <2>2. <<e.src, log[j].event.tgt, SeqTid(e)>> \in LsassOffers(ImagesSeen(e, now), e)
    BY <1>2, <2>1, LsassOffered DEF n
  <2>3. "LsassAccess" \in Detectors
    BY DEF Detectors
  <2>4. Offers("LsassAccess", Threads(e, now), Windows(e, now), ImagesSeen(e, now), e, now)
          = LsassOffers(ImagesSeen(e, now), e)
    BY DEF Offers
  <2>5. LsassSign(log', i, j) = <<"LsassAccess", <<e.src, log[j].event.tgt, SeqTid(e)>>>>
    BY <1>0, <1>2, <2>1 DEF LsassSign
  <2> QED
    BY <1>2, <2>2, <2>3, <2>4, <2>5, OfferAnswered DEF n
<1> QED
  BY <1>0, <1>1, <1>2

LEMMA CaughtStep ==
  /\ AnalysisTypeOK /\ RepeatInv /\ HijackInv /\ MemoryInv
  /\ HijackCaught /\ LsassCaught /\ [AnalysisNext]_analysisVars
  => (HijackCaught /\ LsassCaught)'
<1> SUFFICES ASSUME AnalysisTypeOK, RepeatInv, HijackInv, MemoryInv,
                    HijackCaught, LsassCaught, [AnalysisNext]_analysisVars
             PROVE  (HijackCaught /\ LsassCaught)'
  OBVIOUS
<1>1. clock \in 1..MaxTime
  BY DEF AnalysisTypeOK
<1>2. CASE \E e \in Events, now \in 1..clock : Analyzed(e, now)
  BY <1>2, CaughtAnalyzed, LsassAnalyzed
<1>3. CASE Tick \/ UNCHANGED analysisVars
  <2>1. UNCHANGED <<log, found>>
    BY <1>3 DEF Tick, analysisVars, caches
  <2> QED
    BY <2>1, CaughtIs, LsassCaughtIs
<1> QED
  BY <1>1, <1>2, <1>3, Steps

(* What the caches hold lasts as long as it may be asked for.              *)
THEOREM MemoryHolds == AnalysisSpec => []MemoryInv
  BY AnalysisTyped, MemoryInit, MemoryStep, PTL DEF AnalysisSpec

LEMMA BothCaught == AnalysisSpec => [](HijackCaught /\ LsassCaught)
<1>1. AnalysisInit => HijackCaught /\ LsassCaught
  BY DEF AnalysisInit, HijackCaught, LsassCaught
<1> QED
  BY <1>1, AnalysisTyped, RepeatHolds, HijacksHold, MemoryHolds, CaughtStep, PTL
     DEF AnalysisSpec

(* A hijack whose records arrive within the window is reported, however    *)
(* many other records and cleanups come in between (ThreadCaches.cpp,      *)
(* cleanup; ThreadHijackDetector.cpp).                                     *)
THEOREM HijacksCaught == AnalysisSpec => []HijackCaught
  BY BothCaught, PTL

(* An access to lsass is reported although only an earlier record named    *)
(* its image (ThreadCaches.cpp, update; LsassCredentialAccessDetector.cpp). *)
THEOREM LsassReadersCaught == AnalysisSpec => []LsassCaught
  BY BothCaught, PTL
=============================================================================
