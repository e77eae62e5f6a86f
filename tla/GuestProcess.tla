---------------------------- MODULE GuestProcess ----------------------------
(***************************************************************************)
(* The guest's ProcessMonitor as one run checks it: the analysis of        *)
(* events, the monitor around it and the store of its rows.  They meet in  *)
(* calls whose effect the modules state for themselves (the monitor knows  *)
(* that an analysis finds something or not, and that a row is written), so *)
(* a behaviour exercises one of them, as the program's own self-test does  *)
(* with the engine and the writer.                                         *)
(***************************************************************************)
EXTENDS ThreadAnalysis, GuestMonitor, EventStore

VARIABLE part         \* which of them the behaviour is about

guestVars == <<part, analysisVars, monitorVars, storeVars>>

GuestInit ==
  /\ part \in {"analysis", "monitor", "store"}
  /\ AnalysisInit
  /\ MonitorInit /\ (part # "monitor" => channel = 0)
  /\ StoreInit /\ (part # "store" => tables = [events |-> {}, findings |-> {}])

OfMonitor(A) ==
  part = "monitor" /\ A /\ UNCHANGED <<part, analysisVars, storeVars>>

GuestNext ==
  \/ /\ part = "analysis" /\ AnalysisNext
     /\ UNCHANGED <<part, monitorVars, storeVars>>
  \/ OfMonitor(MonitorNext)
  \/ /\ part = "store" /\ StoreNext
     /\ UNCHANGED <<part, analysisVars, monitorVars>>

(* The fairness of MonitorSpec.                                            *)
GuestSpec ==
  GuestInit /\ [][GuestNext]_guestVars /\ WF_guestVars(OfMonitor(Goes))

(* The watchdog bounds the life of the process, whatever main, the blocks, *)
(* the callbacks and the Sysmon thread do (main.cpp, s_hardStopWatchdog).  *)
MonitorTerminates == part = "monitor" => Terminates
=============================================================================
