-------------------------- MODULE InjectionHistory --------------------------
(***************************************************************************)
(* What the correlating detectors promise, said of the whole history of    *)
(* analysed events and without caches: a remote thread, an APC or a hint   *)
(* of an injection is reported when its source has opened the target       *)
(* within the correlation window, a thread start in a process for the last *)
(* process that opened it, and nothing twice within the dedup window.      *)
(***************************************************************************)
EXTENDS GuestEvents, Sequences

CONSTANTS
  CorrelationWindow, DedupWindow,
  Times               \* when events may be analysed

VARIABLES log, found

Correlating == {"RemoteThread", "ApcQueue", "ThreatIntel"}

(* The history with one more event.                                        *)
Opened(h, s, t, i) ==
  /\ ProcessAccess(h[i].event) /\ Crosses(h[i].event)
  /\ h[i].event.src = s /\ h[i].event.tgt = t

(* When s has opened t, as far as that is recent.                          *)
Openings(h, s, t, now) ==
  {h[i].at : i \in {j \in DOMAIN h : Opened(h, s, t, j)
                                    /\ Within(CorrelationWindow, h[j].at, now)}}

HasOpened(h, s, t, now) == Openings(h, s, t, now) # {}

(* s opened t, and nobody after it; of two at once the smaller id counts.  *)
LastToOpen(h, s, t, now) ==
  \E a \in Openings(h, s, t, now) :
    \A u \in Pids : \A b \in Openings(h, u, t, now) :
      b < a \/ (b = a /\ s <= u)

Signs(h, e, now) ==
  LET pair == <<e.src, e.tgt, e.ttid>>
      opened == Crosses(e) /\ HasOpened(h, e.src, e.tgt, now)
      signs(d, holds) == IF holds THEN {<<d, pair>>} ELSE {}
  IN  signs("RemoteThread", CreatesRemoteThread(e) /\ opened)
      \cup signs("ApcQueue", QueuesApc(e) /\ opened)
      \cup signs("ThreatIntel", HintsInjection(e) /\ Crosses(e)
                                /\ (e.provider = "ThreatIntel" \/ opened))
      \cup {<<"RemoteThread", <<s, e.tgt, e.ttid>>>> :
               s \in {p \in Pids : /\ StartsThread(e) /\ e.tgt # None
                                   /\ LastToOpen(h, p, e.tgt, now)}}

Reported(sign, now) ==
  \E i \in DOMAIN log : sign \in found[i] /\ now <= log[i].at + DedupWindow[sign[1]]

HistoryInit == log = <<>> /\ found = <<>>

Record(e, now) ==
  LET h == Append(log, [event |-> e, at |-> now])
  IN  /\ log' = h
      /\ found' = Append(found, {s \in Signs(h, e, now) : ~Reported(s, now)})

HistoryNext == \E e \in Events : \E now \in Times : Record(e, now)

HistorySpec == HistoryInit /\ [][HistoryNext]_<<log, found>>
=============================================================================
