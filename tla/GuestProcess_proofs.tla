------------------------- MODULE GuestProcess_proofs -------------------------
(***************************************************************************)
(* What is proved of the three parts of the guest's ProcessMonitor holds   *)
(* of the composition: each of its behaviours is one of every part.        *)
(***************************************************************************)
EXTENDS GuestProcess, InjectionHistory_proofs, GuestMonitor_proofs, EventStore_proofs

-----------------------------------------------------------------------------
(* A step of the composition is a step or a stutter of each part.          *)

LEMMA GuestStarts == GuestInit => AnalysisInit /\ MonitorInit /\ StoreInit
  BY DEF GuestInit

LEMMA AnalysisTakes == [GuestNext]_guestVars => [AnalysisNext]_analysisVars
  BY DEF GuestNext, OfMonitor, guestVars

LEMMA MonitorTakes == [GuestNext]_guestVars => [MonitorNext]_monitorVars
  BY DEF GuestNext, OfMonitor, guestVars

LEMMA StoreTakes == [GuestNext]_guestVars => [StoreNext]_storeVars
  BY DEF GuestNext, OfMonitor, guestVars

-----------------------------------------------------------------------------
(* The analysis in the guest keeps the promise of the whole history        *)
(* (ThreadAnalysisEngine.cpp, onEvent).                                    *)
THEOREM GuestAnalyses ==
  GuestSpec => ReportsHistory /\ [](NoRepeat /\ HijackJustified
                                    /\ HijackCaught /\ LsassCaught)
<1>1. GuestSpec => AnalysisSpec
  BY GuestStarts, AnalysisTakes, PTL DEF GuestSpec, AnalysisSpec
<1> QED
  BY <1>1, HistoryReported, NothingRepeated, HijacksJustified, HijacksCaught,
     LsassReadersCaught, PTL

(* The monitor in the guest stores the target's records and each Sysmon    *)
(* record once, calls a stop clean only when it was, and is never without  *)
(* its watchdog (main.cpp, wmain; ProcessMonitor.cpp).                     *)
THEOREM GuestMonitors ==
  GuestSpec => [](TargetsOnly /\ SuccessMeansTarget /\ TraceOutlivesWorker
                  /\ StoppedInTime /\ SysmonOnce /\ WatchdogCovers)
<1>1. GuestSpec => []TargetInv
  BY GuestStarts, MonitorTakes, TargetInit, TargetStep, PTL DEF GuestSpec
<1>2. GuestSpec => []TraceInv
  BY GuestStarts, MonitorTakes, TraceInit, TraceStep, PTL DEF GuestSpec
<1>3. GuestSpec => []StopInv
  BY GuestStarts, MonitorTakes, StopInit, StopStep, PTL DEF GuestSpec
<1>4. GuestSpec => []SysmonInv
  BY GuestStarts, MonitorTakes, SysmonInit, SysmonOnceStep, PTL DEF GuestSpec
<1>5. GuestSpec => []WatchdogCovers
  <2>1. MonitorInit => WatchdogCovers
    BY DEF MonitorInit, WatchdogCovers
  <2> QED
    BY <2>1, GuestStarts, MonitorTakes, WatchStep, PTL DEF GuestSpec
<1>6. TargetInv => TargetsOnly /\ SuccessMeansTarget
  BY DEF TargetInv
<1>7. TraceInv => TraceOutlivesWorker
  BY DEF TraceInv
<1>8. StopInv => StoppedInTime
  BY DEF StopInv
<1>9. SysmonInv => SysmonOnce
  BY DEF SysmonInv, RowsOK, SysmonOnce, Behind
<1> QED
  BY <1>1, <1>2, <1>3, <1>4, <1>5, <1>6, <1>7, <1>8, <1>9, PTL

(* The store in the guest (EventWriter.cpp).                               *)
THEOREM GuestStores ==
  GuestSpec => [](Migrated /\ InsertFits /\ FindingKept /\ PairsKept)
<1>1. GuestSpec => StoreSpec
  BY GuestStarts, StoreTakes, PTL DEF GuestSpec, StoreSpec
<1> QED
  BY <1>1, MigrationComplete, InsertsFit, FindingsKept, PairsAreKept, PTL
=============================================================================
