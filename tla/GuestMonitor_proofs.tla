------------------------- MODULE GuestMonitor_proofs -------------------------
(***************************************************************************)
(* Theorems about the guest's ProcessMonitor, for any number of processes  *)
(* and records and any size of a batch.  Each property has an invariant of *)
(* its own; a step names the actions that can disturb it and takes those   *)
(* that leave its variables alone together.                                *)
(***************************************************************************)
EXTENDS GuestMonitor, TLAPS

(* The end of the process: every action that may end it does so by Quit.   *)
Dies == \E how \in {"failure", "aborted", "hardStop"} : Quit(how)

(* Where main is when it stops a block.                                    *)
LEMMA Labels ==
  ASSUME NEW b \in Blocks
  PROVE  \/ /\ b = "kernel" /\ StopLabel[b] = "stop kernel"
            /\ JoinLabel[b] = "join kernel" /\ NextLabel[b] = "stop user"
            /\ OuterLabel[b] = "outer kernel" /\ AfterOuter[b] = "outer user"
         \/ /\ b = "user" /\ StopLabel[b] = "stop user"
            /\ JoinLabel[b] = "join user" /\ NextLabel[b] = "stop sysmon"
            /\ OuterLabel[b] = "outer user" /\ AfterOuter[b] = "outer sysmon"
<1>1. CASE b = "kernel"
  BY <1>1 DEF StopLabel, JoinLabel, NextLabel, OuterLabel, AfterOuter
<1>2. CASE b = "user"
  BY <1>2 DEF StopLabel, JoinLabel, NextLabel, OuterLabel, AfterOuter
<1> QED
  BY <1>1, <1>2 DEF Blocks

-----------------------------------------------------------------------------
(* The targets: whatever set a callback or main holds was seen to run the  *)
(* target; and main gets past its wait only when one was.                  *)

BeforeTarget == {"begin", "construct", "wait", "giveUp"}

TargetInv ==
  /\ snapshot \in [Blocks -> SUBSET wasTarget]
  /\ targets \subseteq wasTarget
  /\ TargetsOnly
  /\ Alive => main \in BeforeTarget \/ wasTarget # {}
  /\ SuccessMeansTarget

LEMMA TargetInit == MonitorInit => TargetInv
  BY DEF MonitorInit, TargetInv, TargetsOnly, Alive, BeforeTarget, SuccessMeansTarget

(* More processes were seen, and rows and snapshots are as before.         *)
LEMMA TargetSeen ==
  ASSUME TargetInv, wasTarget \subseteq wasTarget', UNCHANGED <<exit, events>>,
         targets' \subseteq wasTarget', snapshot' \in [Blocks -> SUBSET wasTarget'],
         Alive => main' \in BeforeTarget \/ wasTarget' # {}
  PROVE  TargetInv'
  BY DEF TargetInv, TargetsOnly, Alive, BeforeTarget, SuccessMeansTarget

LEMMA TargetStep == TargetInv /\ [MonitorNext]_monitorVars => TargetInv'
<1> SUFFICES ASSUME TargetInv, [MonitorNext]_monitorVars PROVE TargetInv'
  OBVIOUS
<1> USE DEF TargetInv, TargetsOnly, SuccessMeansTarget, Alive, BeforeTarget
<1>1. CASE Dies
  BY <1>1 DEF Dies, Quit
<1>2. CASE Construct \/ PollTarget
  <2>1. PICK list \in SUBSET Procs : targets' = list /\ wasTarget' = wasTarget \cup list
    BY <1>2 DEF Construct, PollTarget, List
  <2>2. main' \in BeforeTarget \/ wasTarget' # {}
    BY <1>2, <2>1 DEF Construct, PollTarget, Goto
  <2>3. UNCHANGED <<exit, events, snapshot>>
    BY <1>2 DEF Construct, PollTarget, Goto, mainRest, feed, db
  <2> QED
    BY <2>1, <2>2, <2>3, TargetSeen
<1>3. CASE \E b \in Blocks : TakeSnapshot(b)
  <2>1. PICK b \in Blocks, list \in SUBSET Procs :
          /\ snapshot' = [snapshot EXCEPT ![b] = list]
          /\ wasTarget' = wasTarget \cup list
    BY <1>3 DEF TakeSnapshot, List
  <2>2. UNCHANGED <<exit, events, targets, main>>
    BY <1>3 DEF TakeSnapshot, feedRest, besideFeed, db
  <2>3. snapshot' \in [Blocks -> SUBSET wasTarget']
    BY <2>1
  <2> QED
    BY <2>1, <2>2, <2>3, TargetSeen
<1>4. CASE \E b \in Blocks : WriteTargets(b)
  BY <1>4 DEF WriteTargets, feedRest, besideFeed, db
<1>5. CASE \E b \in Blocks : LogEvent(b)
  BY <1>5 DEF LogEvent, PidAllowed, feedRest, besideFeed
<1>6. CASE TargetNotFound
  BY <1>6 DEF TargetNotFound, Goto, mainRest, feed, db
<1>7. CASE Destroy
  BY <1>7 DEF Destroy, Goto, mainRest, feed, db
<1>8. CASE Arm \/ Start \/ Wake \/ RequestSysmonStop \/ JoinSysmon \/ CancelWatchdog
  BY <1>8 DEF Arm, Start, Wake, RequestSysmonStop, JoinSysmon, CancelWatchdog, Goto,
              mainRest, feed, db
<1>13. CASE \E b \in Blocks : StopBlock(b) \/ JoinBlock(b) \/ JoinStarter(b)
  <2>1. PICK b \in Blocks : StopBlock(b) \/ JoinBlock(b) \/ JoinStarter(b)
    BY <1>13
  <2>2. main \in {StopLabel[b], JoinLabel[b], OuterLabel[b]}
    BY <2>1 DEF StopBlock, JoinBlock, JoinStarter, Goto
  <2>3. main \notin BeforeTarget
    BY <2>2, Labels
  <2>4. UNCHANGED <<exit, events, targets, snapshot, wasTarget>>
    BY <2>1 DEF StopBlock, JoinBlock, JoinStarter, mainRest, feed, db
  <2> QED
    BY <2>3, <2>4
<1>9. CASE \E b \in Blocks : \/ BlockStep(b) /\ ~Dies
                             \/ \E named \in SUBSET Procs : Deliver(b, named)
                             \/ RefreshNotDue(b) \/ Ignore(b)
                             \/ AnalyzeEvent(b) /\ ~Dies
  BY <1>9 DEF BlockStep, CreateTrace, CreateWorker, StartTrace, TraceFails, TraceEnds,
              Deliver, RefreshNotDue, Ignore, AnalyzeEvent, AnalysisCrashes, Dies,
              etwRest, feedRest, besideFeed, feed, db
<1>10. CASE \/ OpenChannel \/ Query \/ NextBatch \/ SkipRecord \/ WriteRecord
            \/ AnalyzeRow /\ ~Dies
            \/ Pass \/ ChannelGrows
  BY <1>10 DEF OpenChannel, Query, NextBatch, SkipRecord, WriteRecord, AnalyzeRow,
               AnalysisCrashes, Dies, Pass, ChannelGrows, sysmonRest, besideSysmon,
               feed, db
<1>11. CASE UNCHANGED monitorVars
  BY <1>11 DEF monitorVars, feed, db
<1>12. (ConstructFails \/ GiveUp \/ HardStop) => Dies
  BY DEF ConstructFails, GiveUp, HardStop, Dies
<1> QED
  BY <1>1, <1>2, <1>3, <1>4, <1>5, <1>6, <1>7, <1>8, <1>9, <1>10, <1>11, <1>12, <1>13
     DEF MonitorNext, MainStep, CallbackStep, SysmonStep

(* Main and the callbacks only ever hold processes seen to run the target. *)
THEOREM TargetsHold == MonitorSpec => []TargetInv
  BY TargetInit, TargetStep, PTL DEF MonitorSpec

(* Only records that name a process seen to run the target are stored      *)
(* (_refreshTargetPidsIfNeeded, _pidAllowed).                              *)
THEOREM OnlyTargetsStored == MonitorSpec => []TargetsOnly
<1>1. TargetInv => TargetsOnly
  BY DEF TargetInv
<1> QED
  BY <1>1, TargetsHold, PTL

(* wmain succeeds only after it has seen a target (waitForTarget).         *)
THEOREM SuccessHasTarget == MonitorSpec => []SuccessMeansTarget
<1>1. TargetInv => SuccessMeansTarget
  BY DEF TargetInv
<1> QED
  BY <1>1, TargetsHold, PTL

-----------------------------------------------------------------------------
(* The threads of the two blocks.                                          *)

ThreadsOK ==
  /\ trace \in [Blocks -> {"none", "made", "stopped"}]
  /\ worker \in [Blocks -> {"none", "starting", "running", "ended", "joined"}]
  /\ starter \in [Blocks -> {"off", "begin", "enable", "done"}]

TraceInv == ThreadsOK /\ TraceOutlivesWorker

LEMMA TraceInit == MonitorInit => TraceInv
  BY DEF MonitorInit, TraceInv, ThreadsOK, TraceOutlivesWorker

LEMMA TraceStep == TraceInv /\ [MonitorNext]_monitorVars => TraceInv'
<1> SUFFICES ASSUME TraceInv, [MonitorNext]_monitorVars PROVE TraceInv'
  OBVIOUS
<1> USE DEF TraceInv, ThreadsOK, TraceOutlivesWorker
<1>1. CASE Dies
  BY <1>1 DEF Dies, Quit
<1>2. CASE Start
  BY <1>2 DEF Start
<1>3. CASE \E b \in Blocks : StopBlock(b)
  BY <1>3 DEF StopBlock
<1>4. CASE \E b \in Blocks : JoinBlock(b)
  BY <1>4 DEF JoinBlock, Joinable
<1>5. CASE \/ \E b \in Blocks : JoinStarter(b)
           \/ JoinSysmon
  BY <1>5 DEF JoinStarter, JoinSysmon, Join, etw
<1>6. CASE \E b \in Blocks : BlockStep(b) /\ ~Dies
  <2>1. PICK b \in Blocks : BlockStep(b) /\ ~Dies
    BY <1>6
  <2>2. CASE CreateTrace(b)
    BY <2>2 DEF CreateTrace, etwRest
  <2>3. CASE CreateWorker(b)
    BY <2>1, <2>3 DEF CreateWorker, Dies, etwRest
  <2>4. CASE StartTrace(b)
    BY <2>1, <2>4 DEF StartTrace, Dies, etwRest
  <2>5. CASE TraceFails(b) \/ TraceEnds(b)
    BY <2>5 DEF TraceFails, TraceEnds, etwRest
  <2> QED
    BY <2>1, <2>2, <2>3, <2>4, <2>5 DEF BlockStep
<1>7. CASE \/ Arm \/ Construct \/ PollTarget \/ TargetNotFound \/ Wake
           \/ RequestSysmonStop \/ CancelWatchdog \/ Destroy
  BY <1>7 DEF Arm, Construct, PollTarget, TargetNotFound, Wake, RequestSysmonStop,
              CancelWatchdog, Destroy, etw
<1>8. CASE \E b \in Blocks : \/ \E named \in SUBSET Procs : Deliver(b, named)
                             \/ CallbackStep(b) /\ ~Dies
  BY <1>8 DEF CallbackStep, Deliver, RefreshNotDue, TakeSnapshot, WriteTargets, Ignore,
              LogEvent, AnalyzeEvent, AnalysisCrashes, Dies, feedRest, besideFeed, etw
<1>9. CASE SysmonStep /\ ~Dies
  BY <1>9 DEF SysmonStep, OpenChannel, Query, NextBatch, SkipRecord, WriteRecord,
              AnalyzeRow, AnalysisCrashes, Dies, sysmonRest, besideSysmon, etw
<1>10. CASE Pass \/ ChannelGrows
  BY <1>10 DEF Pass, ChannelGrows, etw
<1>11. CASE UNCHANGED monitorVars
  BY <1>11 DEF monitorVars, etw
<1>12. (ConstructFails \/ GiveUp \/ HardStop) => Dies
  BY DEF ConstructFails, GiveUp, HardStop, Dies
<1> QED
  BY <1>1, <1>2, <1>3, <1>4, <1>5, <1>6, <1>7, <1>8, <1>9, <1>10, <1>11, <1>12
     DEF MonitorNext, MainStep

(* The trace and the worker of a block, through start and stop.            *)
THEOREM TraceHolds == MonitorSpec => []TraceInv
  BY TraceInit, TraceStep, PTL DEF MonitorSpec

(* No worker that was not given up processes a destroyed trace             *)
(* (KernelBlock::stopWithDeadline, UserBlock::stopWithDeadline).           *)
THEOREM TraceLives == MonitorSpec => []TraceOutlivesWorker
<1>1. TraceInv => TraceOutlivesWorker
  BY DEF TraceInv
<1> QED
  BY <1>1, TraceHolds, PTL

-----------------------------------------------------------------------------
(* The stop: while nothing was given up, each join that main has passed    *)
(* has seen its thread end, and threads that have ended stay so.           *)

After(b) ==
  IF b = "kernel" THEN {"outer user", "outer sysmon", "cancel", "destroy", "end"}
                  ELSE {"outer sysmon", "cancel", "destroy", "end"}

Running == exit \in {"no", "success"}

StopInv ==
  /\ ok \in BOOLEAN /\ ThreadsOK
  /\ ok => forgotten = {}
  /\ \A b \in Blocks : starter[b] = "done" => worker[b] # "none"
  /\ Running /\ ok => \A b \in Blocks : main \in After(b) => starter[b] = "done"
  /\ Running /\ ok => (main \in {"cancel", "destroy", "end"} => sysmon = "done")
  /\ exit = "success" => main = "end"
  /\ StoppedInTime

LEMMA StopInit == MonitorInit => StopInv
  BY DEF MonitorInit, StopInv, ThreadsOK, StoppedInTime, After, Blocks, Running

(* s_joinWithDeadline tells whether it has seen the thread end.            *)
LEMMA JoinTells ==
  ASSUME ok \in BOOLEAN, NEW ended, NEW thread, Join(ended, thread)
  PROVE  ok' \in BOOLEAN /\ (ok' => ok /\ ended /\ forgotten' = forgotten)
<1>1. CASE ended /\ UNCHANGED <<forgotten, ok>>
  <2>1. ok' = ok /\ forgotten' = forgotten
    BY <1>1
  <2> QED
    BY <1>1, <2>1
<1>2. CASE ok' = FALSE
  BY <1>2
<1> QED
  BY <1>1, <1>2 DEF Join

(* main goes on: it may give a thread up, and passes a join only when that *)
(* or when the thread has ended.                                           *)
LEMMA StopMoves ==
  ASSUME StopInv, Alive, ThreadsOK', UNCHANGED <<exit, starter, sysmon>>,
         ok' \in BOOLEAN, ok' => ok /\ forgotten' = forgotten,
         \A b \in Blocks : worker[b] # "none" => worker'[b] # "none",
         ok' => \A b \in Blocks : main' \in After(b) => main \in After(b) \/ starter[b] = "done",
         ok' => (main' \in {"cancel", "destroy", "end"} =>
                   main \in {"cancel", "destroy", "end"} \/ sysmon = "done")
  PROVE  StopInv'
<1>1. ok' \in BOOLEAN /\ (ok' => ok /\ forgotten' = {})
  BY DEF StopInv
<1>2. exit' = "no"
  BY DEF Alive
<1>3. Running'
  BY <1>2 DEF Running
<1>4. Running
  BY DEF Running, Alive
<1>5. \A b \in Blocks : starter'[b] = "done" => worker'[b] # "none"
  BY DEF StopInv
<1>6. ok' => \A b \in Blocks : main' \in After(b) => starter'[b] = "done"
  BY <1>1, <1>4 DEF StopInv
<1>7. ok' => (main' \in {"cancel", "destroy", "end"} => sysmon' = "done")
  BY <1>1, <1>4 DEF StopInv
<1>8. StoppedInTime'
  BY <1>2 DEF StoppedInTime
<1> QED
  BY <1>1, <1>2, <1>5, <1>6, <1>7, <1>8 DEF StopInv

LEMMA StopStep == StopInv /\ [MonitorNext]_monitorVars => StopInv'
<1> SUFFICES ASSUME StopInv, [MonitorNext]_monitorVars PROVE StopInv'
  OBVIOUS
<1> USE DEF StopInv, ThreadsOK, StoppedInTime, Running, Alive
<1>1. CASE Dies
  BY <1>1 DEF Dies, Quit
<1>2. CASE Start
  BY <1>2 DEF Start, Goto, After, Blocks
<1>3. CASE \E b \in Blocks : StopBlock(b)
  <2>1. PICK b \in Blocks : StopBlock(b)
    BY <1>3
  <2>2. main' \in {"stop user", "join kernel", "join user", "stop sysmon"}
    BY <2>1, Labels DEF StopBlock
  <2> QED
    BY <2>1, <2>2 DEF StopBlock, mainRest, chan, After, Blocks
<1>4. CASE \E b \in Blocks : JoinBlock(b)
  <2>1. PICK b \in Blocks : JoinBlock(b)
    BY <1>4
  <2>2. main' \in {"stop user", "stop sysmon"}
    BY <2>1, Labels DEF JoinBlock, Goto
  <2>3. ThreadsOK'
    BY <2>1 DEF JoinBlock
  <2>4. \A c \in Blocks : worker[c] # "none" => worker'[c] # "none"
    BY <2>1 DEF JoinBlock
  <2>5. ok' \in BOOLEAN /\ (ok' => ok /\ forgotten' = forgotten)
    <3>1. (forgotten' = forgotten /\ ok' = ok) \/ ok' = FALSE
      BY <2>1 DEF JoinBlock
    <3>2. CASE forgotten' = forgotten /\ ok' = ok
      BY <3>2
    <3>3. CASE ok' = FALSE
      BY <3>3
    <3> QED
      BY <3>1, <3>2, <3>3
  <2> QED
    BY <2>1, <2>2, <2>3, <2>4, <2>5, StopMoves DEF JoinBlock, mainRest, chan, After
<1>5. CASE \E b \in Blocks : JoinStarter(b)
  <2>1. PICK b \in Blocks : JoinStarter(b)
    BY <1>5
  <2>2. ok' \in BOOLEAN /\ (ok' => ok /\ starter[b] = "done" /\ forgotten' = forgotten)
    BY <2>1, JoinTells DEF JoinStarter
  <2>3. UNCHANGED <<exit, trace, worker, starter, sysmon>>
    BY <2>1 DEF JoinStarter, mainRest, chan, etw
  <2>4. \/ b = "kernel" /\ main = "outer kernel" /\ main' = "outer user"
        \/ b = "user" /\ main = "outer user" /\ main' = "outer sysmon"
    BY <2>1, Labels DEF JoinStarter, Goto
  <2>5. \A c \in Blocks : main' \in After(c) => main \in After(c) \/ c = b
    <3>1. CASE b = "kernel"
      BY <2>4, <3>1 DEF After, Blocks
    <3>2. CASE b = "user"
      BY <2>4, <3>2 DEF After, Blocks
    <3> QED
      BY <3>1, <3>2 DEF Blocks
  <2>6. main' \notin {"cancel", "destroy", "end"}
    BY <2>4
  <2>7. Alive
    BY <2>1 DEF JoinStarter
  <2> QED
    BY <2>2, <2>3, <2>5, <2>6, <2>7, StopMoves
<1>6. CASE JoinSysmon
  <2>1. ok' \in BOOLEAN /\ (ok' => ok /\ sysmon = "done" /\ forgotten' = forgotten)
    BY <1>6, JoinTells DEF JoinSysmon
  <2>2. UNCHANGED <<exit, trace, worker, starter, sysmon>>
    BY <1>6 DEF JoinSysmon, mainRest, chan, etw
  <2>3. main = "outer sysmon" /\ main' = "cancel" /\ Alive
    BY <1>6 DEF JoinSysmon, Goto
  <2>4. \A c \in Blocks : main \in After(c)
    BY <2>3 DEF After
  <2> QED
    BY <2>1, <2>2, <2>3, <2>4, StopMoves
<1>7. CASE Destroy
  BY <1>7 DEF Destroy, Joinable, Goto, mainRest, chan, etw, After, Blocks
<1>8. CASE \E b \in Blocks : BlockStep(b) /\ ~Dies
  <2>1. PICK b \in Blocks : BlockStep(b) /\ ~Dies
    BY <1>8
  <2>2. CASE CreateTrace(b)
    BY <2>2 DEF CreateTrace, etwRest, chan
  <2>3. CASE CreateWorker(b)
    BY <2>1, <2>3 DEF CreateWorker, Dies, etwRest, chan
  <2>4. CASE StartTrace(b)
    BY <2>1, <2>4 DEF StartTrace, Dies, etwRest, chan
  <2>5. CASE TraceFails(b) \/ TraceEnds(b)
    BY <2>5 DEF TraceFails, TraceEnds, etwRest, chan
  <2> QED
    BY <2>1, <2>2, <2>3, <2>4, <2>5 DEF BlockStep
<1>9. CASE \/ Arm \/ Construct \/ PollTarget \/ TargetNotFound \/ Wake
           \/ RequestSysmonStop \/ CancelWatchdog
  <2>1. UNCHANGED <<exit, ok, forgotten, trace, worker, starter, sysmon>> /\ Alive
    BY <1>9 DEF Arm, Construct, PollTarget, TargetNotFound, Wake, RequestSysmonStop,
                CancelWatchdog, mainRest, chan, etw
  <2>2. \/ main' \in {"construct", "wait", "start", "giveUp", "stop kernel", "outer kernel"}
        \/ main = "cancel" /\ main' = "destroy"
    BY <1>9 DEF Arm, Construct, PollTarget, TargetNotFound, Wake, RequestSysmonStop,
                CancelWatchdog, Goto
  <2>3. \A b \in Blocks : main' \in After(b) => main \in After(b)
    BY <2>2 DEF After
  <2> QED
    BY <2>1, <2>2, <2>3, StopMoves
<1>10. CASE \E b \in Blocks : \/ \E named \in SUBSET Procs : Deliver(b, named)
                              \/ CallbackStep(b) /\ ~Dies
  BY <1>10 DEF CallbackStep, Deliver, RefreshNotDue, TakeSnapshot, WriteTargets, Ignore,
               LogEvent, AnalyzeEvent, AnalysisCrashes, Dies, feedRest, besideFeed, etw,
               chan
<1>11. CASE SysmonStep /\ ~Dies
  BY <1>11 DEF SysmonStep, OpenChannel, Query, NextBatch, SkipRecord, WriteRecord,
               Advance, AnalyzeRow, AnalysisCrashes, Dies, sysmonRest, besideSysmon, etw
<1>12. CASE Pass \/ ChannelGrows
  BY <1>12 DEF Pass, ChannelGrows, etw, chan
<1>13. CASE UNCHANGED monitorVars
  BY <1>13 DEF monitorVars, etw, chan
<1>14. (ConstructFails \/ GiveUp \/ HardStop) => Dies
  BY DEF ConstructFails, GiveUp, HardStop, Dies
<1> QED
  BY <1>1, <1>2, <1>3, <1>4, <1>5, <1>6, <1>7, <1>8, <1>9, <1>10, <1>11, <1>12, <1>13,
     <1>14 DEF MonitorNext, MainStep

(* What main knows after each join.                                        *)
THEOREM StopHolds == MonitorSpec => []StopInv
  BY StopInit, StopStep, PTL DEF MonitorSpec

(* A stop that wmain calls clean has seen every thread end (main.cpp,      *)
(* s_joinWithDeadline; KernelBlock and UserBlock, stopWithDeadline).       *)
THEOREM CleanStop == MonitorSpec => []StoppedInTime
<1>1. StopInv => StoppedInTime
  BY DEF StopInv
<1> QED
  BY <1>1, StopHolds, PTL

-----------------------------------------------------------------------------
(* The watchdog.                                                           *)

(* From its first step to the last one the process is under its watchdog,  *)
(* whatever main is doing or hangs in: some step that does not wait for    *)
(* anybody (Goes) is always left.                                          *)
WatchdogCovers ==
  Alive => main \in {"begin", "destroy"} \/ watchdog = "armed"

LEMMA WatchStep == WatchdogCovers /\ [MonitorNext]_monitorVars => WatchdogCovers'
<1> SUFFICES ASSUME WatchdogCovers, [MonitorNext]_monitorVars PROVE WatchdogCovers'
  OBVIOUS
<1> USE DEF WatchdogCovers, Alive
<1>1. CASE Dies
  BY <1>1 DEF Dies, Quit
<1>2. CASE Arm \/ CancelWatchdog \/ Destroy
  BY <1>2 DEF Arm, CancelWatchdog, Destroy, Goto
<1>3. CASE \/ Construct \/ PollTarget \/ TargetNotFound \/ Start \/ Wake
           \/ RequestSysmonStop \/ JoinSysmon
  BY <1>3 DEF Construct, PollTarget, TargetNotFound, Start, Wake, RequestSysmonStop,
              JoinSysmon, Goto
<1>4. CASE \E b \in Blocks : StopBlock(b) \/ JoinBlock(b) \/ JoinStarter(b)
  <2>1. PICK b \in Blocks : StopBlock(b) \/ JoinBlock(b) \/ JoinStarter(b)
    BY <1>4
  <2>2. main \in {StopLabel[b], JoinLabel[b], OuterLabel[b]}
    BY <2>1 DEF StopBlock, JoinBlock, JoinStarter, Goto
  <2>3. main \notin {"begin", "destroy"}
    BY <2>2, Labels
  <2>4. UNCHANGED <<exit, watchdog>>
    BY <2>1 DEF StopBlock, JoinBlock, JoinStarter
  <2> QED
    BY <2>3, <2>4
<1>5. CASE \E b \in Blocks : \/ (BlockStep(b) \/ CallbackStep(b)) /\ ~Dies
                             \/ \E named \in SUBSET Procs : Deliver(b, named)
  BY <1>5 DEF BlockStep, CreateTrace, CreateWorker, StartTrace, TraceFails, TraceEnds,
              CallbackStep, Deliver, RefreshNotDue, TakeSnapshot, WriteTargets, Ignore,
              LogEvent, AnalyzeEvent, AnalysisCrashes, Dies, etwRest, feedRest,
              besideFeed
<1>6. CASE SysmonStep /\ ~Dies
  BY <1>6 DEF SysmonStep, OpenChannel, Query, NextBatch, SkipRecord, WriteRecord,
              AnalyzeRow, AnalysisCrashes, Dies, sysmonRest, besideSysmon
<1>7. CASE Pass \/ ChannelGrows \/ UNCHANGED monitorVars
  BY <1>7 DEF Pass, ChannelGrows, monitorVars
<1>8. (ConstructFails \/ GiveUp \/ HardStop) => Dies
  BY DEF ConstructFails, GiveUp, HardStop, Dies
<1> QED
  BY <1>1, <1>2, <1>3, <1>4, <1>5, <1>6, <1>7, <1>8 DEF MonitorNext, MainStep

(* The safety half of MonitorTerminates: there is no moment in which a     *)
(* hanging call would keep the process for good (main.cpp,                 *)
(* s_hardStopWatchdog is made first and cancelled after the last join).    *)
THEOREM AlwaysWatched == MonitorSpec => []WatchdogCovers
<1>1. MonitorInit => WatchdogCovers
  BY DEF MonitorInit, WatchdogCovers
<1> QED
  BY <1>1, WatchStep, PTL DEF MonitorSpec

-----------------------------------------------------------------------------
(* The Sysmon thread.  The records behind cursor[1] were written or could  *)
(* not be rendered; between the row of a record and the end of its         *)
(* analysis the record stands one behind cursor[1].                        *)

Behind(n) == (firstId + 1)..n \subseteq {rows[i] : i \in DOMAIN rows} \cup unread

ChannelOK ==
  /\ {arrived, channel} \subseteq 0..(MaxRecords + 1)
  /\ channel <= arrived
  /\ {firstId, lastId} \subseteq 0..channel
  /\ cursor \in (0..channel) \X (0..channel)
  /\ rows \in Seq(1..channel)

RowsOK ==
  /\ firstId <= lastId
  /\ \A i \in DOMAIN rows : rows[i] > firstId /\ rows[i] <= lastId
  /\ \A i, j \in DOMAIN rows : i < j => rows[i] < rows[j]
  /\ Behind(lastId)

CursorOK ==
  /\ main \in {"begin", "construct", "wait", "giveUp", "start"} => sysmon = "off"
  /\ sysmon \in {"off", "open"} => rows = <<>> /\ lastId = 0 /\ firstId = 0
  /\ sysmon = "next" => cursor[1] = cursor[2]
  /\ sysmon \in {"batch", "analyze"} => cursor[1] < cursor[2]
  /\ sysmon \in {"next", "batch"} => lastId <= cursor[1] /\ Behind(cursor[1])
  /\ sysmon = "analyze" => lastId = cursor[1] + 1

SysmonInv == ChannelOK /\ RowsOK /\ (Alive => CursorOK)

LEMMA SysmonInit == MonitorInit => SysmonInv
<1> SUFFICES ASSUME MonitorInit PROVE SysmonInv
  OBVIOUS
<1>1. channel \in 0..1 /\ arrived = channel /\ cursor = <<0, 0>> /\ lastId = 0 /\ firstId = 0
      /\ rows = <<>> /\ sysmon = "off" /\ main = "begin"
  BY DEF MonitorInit
<1>2. ChannelOK
  BY <1>1, MonitorAssumption DEF ChannelOK
<1>3. Behind(0)
  BY <1>1 DEF Behind
<1> QED
  BY <1>1, <1>2, <1>3 DEF SysmonInv, RowsOK, CursorOK

(* Nothing of the channel changes, and main does not go back.              *)
LEMMA SysmonUnchanged ==
  ASSUME SysmonInv, UNCHANGED <<chan, arrived>>, Alive' => Alive,
         main' \in {"begin", "construct", "wait", "giveUp", "start"} =>
           main \in {"begin", "construct", "wait", "giveUp", "start"}
  PROVE  SysmonInv'
<1>1. UNCHANGED <<sysmon, channel, cursor, lastId, rows, unread, firstId, arrived>>
  BY DEF chan
<1> QED
  BY <1>1 DEF SysmonInv, ChannelOK, RowsOK, CursorOK, Behind

LEMMA RowElement ==
  ASSUME NEW S, NEW s \in Seq(S), NEW i \in DOMAIN s PROVE s[i] \in S
  OBVIOUS

(* One more row, with the id that follows all others.                      *)
LEMMA RowAppended ==
  ASSUME SysmonInv, NEW id \in 1..channel, id > lastId, Behind(id - 1),
         rows' = Append(rows, id), lastId' = id, UNCHANGED <<firstId, unread, channel>>
  PROVE  RowsOK' /\ rows' \in Seq(1..channel')
<1> DEFINE n == Len(rows)
<1>1. rows \in Seq(1..channel) /\ n \in Nat /\ DOMAIN rows = 1..n
  BY DEF SysmonInv, ChannelOK
<1>2. /\ rows' \in Seq(1..channel) /\ DOMAIN rows' = 1..(n + 1)
      /\ rows'[n + 1] = id /\ \A i \in 1..n : rows'[i] = rows[i]
  BY <1>1
<1>3. /\ firstId \in Nat /\ lastId \in Nat /\ firstId <= lastId
      /\ \A i \in 1..n : rows[i] \in Nat /\ rows[i] > firstId /\ rows[i] <= lastId
  <2>1. firstId \in Nat /\ lastId \in Nat /\ firstId <= lastId /\ channel \in Nat
    BY DEF SysmonInv, ChannelOK, RowsOK
  <2>2. \A i \in 1..n : rows[i] \in 1..channel
    BY <1>1, RowElement
  <2>3. \A i \in 1..n : rows[i] > firstId /\ rows[i] <= lastId
    BY <1>1 DEF SysmonInv, RowsOK
  <2> QED
    BY <2>1, <2>2, <2>3
<1> HIDE DEF n
<1>4. \A i \in DOMAIN rows' : rows'[i] > firstId' /\ rows'[i] <= lastId'
  BY <1>1, <1>2, <1>3
<1>5. \A i, j \in DOMAIN rows' : i < j => rows'[i] < rows'[j]
  <2>1. \A i, j \in 1..n : i < j => rows[i] < rows[j]
    BY <1>1 DEF SysmonInv, RowsOK
  <2> SUFFICES ASSUME NEW i \in 1..(n + 1), NEW j \in 1..(n + 1), i < j
               PROVE  rows'[i] < rows'[j]
    BY <1>2
  <2>2. CASE j = n + 1
    BY <1>1, <1>2, <1>3, <2>2
  <2>3. CASE j \in 1..n
    BY <1>1, <1>2, <2>1, <2>3
  <2> QED
    BY <1>1, <2>2, <2>3
<1>6. Behind(lastId)'
  <2> SUFFICES ASSUME NEW k \in (firstId + 1)..id
               PROVE  k \in {rows'[i] : i \in DOMAIN rows'} \cup unread
    BY DEF Behind
  <2>1. CASE k = id
    BY <1>1, <1>2, <2>1
  <2>2. CASE k \in (firstId + 1)..(id - 1)
    <3>1. k \in {rows[i] : i \in 1..n} \cup unread
      BY <1>1, <2>2 DEF Behind
    <3>2. CASE k \in unread
      BY <3>2
    <3>3. CASE k \in {rows[i] : i \in 1..n}
      <4>1. PICK i \in 1..n : k = rows[i]
        BY <3>3
      <4>2. i \in DOMAIN rows' /\ rows'[i] = k
        BY <1>1, <1>2, <4>1
      <4> QED
        BY <4>2
    <3> QED
      BY <3>1, <3>2, <3>3
  <2> QED
    BY <1>3, <2>1, <2>2
<1>7. firstId' <= lastId'
  BY <1>3
<1> QED
  BY <1>2, <1>4, <1>5, <1>6, <1>7 DEF RowsOK

LEMMA SysmonThread == SysmonInv /\ SysmonStep => SysmonInv'
<1> SUFFICES ASSUME SysmonInv, SysmonStep PROVE SysmonInv'
  OBVIOUS
<1> USE DEF SysmonInv, Alive
<1>a. Alive
  BY DEF SysmonStep, OpenChannel, Query, NextBatch, SkipRecord, WriteRecord, AnalyzeRow
<1>b. ChannelOK /\ RowsOK /\ CursorOK
  BY <1>a
<1>1. CASE OpenChannel
  <2>1. UNCHANGED <<arrived, channel, cursor, rows, unread, main, exit>>
    BY <1>1 DEF OpenChannel, sysmonRest, besideSysmon, feed
  <2>2. /\ rows = <<>>
        /\ \/ sysmon' = "done" /\ UNCHANGED <<lastId, firstId>>
           \/ sysmon' = "query" /\ lastId' \in {channel, 0} /\ firstId' = lastId'
    BY <1>b, <1>1 DEF OpenChannel, CursorOK
  <2>3. ChannelOK'
    BY <1>b, <2>1, <2>2 DEF ChannelOK
  <2>4. Behind(lastId)'
    BY <1>b, <2>1, <2>2, <2>3 DEF Behind, RowsOK, ChannelOK
  <2>5. RowsOK'
    BY <1>b, <2>1, <2>2, <2>3, <2>4 DEF RowsOK, ChannelOK
  <2>6. CursorOK'
    BY <1>b, <1>1, <2>1, <2>2 DEF CursorOK, OpenChannel
  <2> QED
    BY <2>3, <2>5, <2>6
<1>2. CASE Query \/ NextBatch
  <2>1. UNCHANGED <<arrived, channel, lastId, firstId, rows, unread, main, exit>>
    BY <1>2 DEF Query, NextBatch, sysmonRest, besideSysmon, feed
  <2>2. cursor' \in (0..channel) \X (0..channel)
    BY <1>b, <1>2, MonitorAssumption DEF Query, NextBatch, ChannelOK
  <2>3. ChannelOK' /\ RowsOK'
    BY <1>b, <2>1, <2>2 DEF ChannelOK, RowsOK, Behind
  <2>4. CursorOK'
    <3>1. CASE Query
      BY <1>b, <3>1, <2>1 DEF Query, CursorOK, ChannelOK, RowsOK, Behind
    <3>2. CASE NextBatch
      BY <1>b, <3>2, <2>1, MonitorAssumption DEF NextBatch, CursorOK, ChannelOK, RowsOK, Behind
    <3> QED
      BY <1>2, <3>1, <3>2
  <2> QED
    BY <2>3, <2>4
<1>3. CASE SkipRecord
  <2>1. UNCHANGED <<arrived, channel, lastId, firstId, rows, main, exit>>
    BY <1>3 DEF SkipRecord, sysmonRest, besideSysmon, feed
  <2>2. /\ cursor[1] \in Nat /\ cursor[2] \in 0..channel /\ cursor[1] < cursor[2]
        /\ lastId <= cursor[1] /\ Behind(cursor[1]) /\ channel \in Nat
        /\ firstId \in Nat /\ lastId \in Nat
    BY <1>b, <1>3 DEF SkipRecord, CursorOK, ChannelOK
  <2>3. cursor' = <<cursor[1] + 1, cursor[2]>> /\ unread' = unread \cup {cursor[1] + 1}
        /\ sysmon' = (IF cursor[1] + 1 = cursor[2] THEN "next" ELSE "batch")
    BY <1>3 DEF SkipRecord, Advance
  <2>4. ChannelOK'
    BY <1>b, <2>1, <2>2, <2>3 DEF ChannelOK
  <2>5. RowsOK'
    BY <1>b, <2>1, <2>3 DEF RowsOK, Behind
  <2>6. Behind(cursor[1])'
    BY <2>1, <2>2, <2>3 DEF Behind
  <2>7. CursorOK'
    BY <1>b, <1>3, <2>1, <2>2, <2>3, <2>6 DEF CursorOK, SkipRecord
  <2> QED
    BY <2>4, <2>5, <2>7
<1>4. CASE WriteRecord
  <2> DEFINE id == cursor[1] + 1
  <2>1. UNCHANGED <<arrived, channel, cursor, firstId, unread, main, exit>>
    BY <1>4 DEF WriteRecord, sysmonRest, besideSysmon, feed
  <2>2. /\ cursor[1] \in Nat /\ cursor[2] \in 0..channel /\ cursor[1] < cursor[2]
        /\ lastId <= cursor[1] /\ Behind(cursor[1]) /\ channel \in Nat /\ lastId \in Nat
    BY <1>b, <1>4 DEF WriteRecord, CursorOK, ChannelOK
  <2>3. id \in 1..channel /\ id > lastId /\ id - 1 = cursor[1]
    BY <2>2
  <2>4. rows' = Append(rows, id) /\ lastId' = id /\ sysmon' = "analyze"
    BY <1>4, <2>3 DEF WriteRecord
  <2>5. RowsOK' /\ rows' \in Seq(1..channel')
    BY <2>1, <2>2, <2>3, <2>4, RowAppended
  <2>6. ChannelOK'
    BY <1>b, <2>1, <2>3, <2>4, <2>5 DEF ChannelOK
  <2>7. CursorOK'
    BY <1>b, <1>4, <2>1, <2>2, <2>4 DEF CursorOK, WriteRecord
  <2> QED
    BY <2>5, <2>6, <2>7
<1>5. CASE AnalyzeRow /\ ~Dies
  <2>1. UNCHANGED <<arrived, channel, lastId, firstId, rows, unread, main, exit>>
    BY <1>5 DEF AnalyzeRow, AnalysisCrashes, Dies, besideSysmon, feed
  <2>2. cursor' = <<cursor[1] + 1, cursor[2]>>
        /\ sysmon' = (IF cursor[1] + 1 = cursor[2] THEN "next" ELSE "batch")
    BY <1>5 DEF AnalyzeRow, AnalysisCrashes, Dies, Advance
  <2>3. /\ cursor[1] \in Nat /\ cursor[2] \in 0..channel /\ cursor[1] < cursor[2]
        /\ lastId = cursor[1] + 1 /\ channel \in Nat
    BY <1>b, <1>5 DEF AnalyzeRow, CursorOK, ChannelOK
  <2>4. ChannelOK'
    BY <1>b, <2>1, <2>2, <2>3 DEF ChannelOK
  <2>5. RowsOK'
    BY <1>b, <2>1 DEF RowsOK, Behind
  <2>6. Behind(cursor[1])'
    BY <2>1, <2>2, <2>3, <2>5 DEF RowsOK, Behind
  <2>7. CursorOK'
    BY <1>b, <1>5, <2>1, <2>2, <2>3, <2>6 DEF CursorOK, AnalyzeRow
  <2> QED
    BY <2>4, <2>5, <2>7
<1>6. CASE Dies
  <2>1. \E how \in {"failure", "aborted", "hardStop"} : Quit(how)
    BY <1>6 DEF Dies
  <2>2. UNCHANGED <<arrived, channel, lastId, rows, unread, firstId>>
        /\ cursor' = <<0, 0>> /\ exit' # "no"
    BY <2>1 DEF Quit
  <2> QED
    BY <1>b, <2>2 DEF ChannelOK, RowsOK, Behind
<1> QED
  BY <1>1, <1>2, <1>3, <1>4, <1>5, <1>6 DEF SysmonStep

LEMMA SysmonOnceStep == SysmonInv /\ [MonitorNext]_monitorVars => SysmonInv'
<1> SUFFICES ASSUME SysmonInv, [MonitorNext]_monitorVars PROVE SysmonInv'
  OBVIOUS
<1> DEFINE early == {"begin", "construct", "wait", "giveUp", "start"}
<1>1. CASE SysmonStep
  BY <1>1, SysmonThread
<1>2. CASE Dies
  <2>1. UNCHANGED <<arrived, channel, lastId, rows, unread, firstId>>
        /\ cursor' = <<0, 0>> /\ exit' # "no"
    BY <1>2 DEF Dies, Quit
  <2> QED
    BY <2>1 DEF SysmonInv, ChannelOK, RowsOK, Behind, Alive
<1>3. CASE Start
  <2>1. /\ Alive /\ main = "start" /\ main' = "trace" /\ sysmon' = "open"
        /\ UNCHANGED <<exit, arrived, channel, cursor, lastId, rows, unread, firstId>>
    BY <1>3 DEF Start, Goto, feed
  <2> QED
    BY <2>1 DEF SysmonInv, ChannelOK, RowsOK, CursorOK, Behind, Alive
<1>4. CASE ChannelGrows
  <2>1. /\ arrived < MaxRecords /\ channel' = channel + 1 /\ arrived' = arrived + 1
        /\ UNCHANGED <<main, exit, sysmon, cursor, lastId, rows, unread, firstId>>
    BY <1>4 DEF ChannelGrows
  <2>2. ChannelOK'
    BY <2>1, MonitorAssumption DEF SysmonInv, ChannelOK
  <2> QED
    BY <2>1, <2>2 DEF SysmonInv, RowsOK, CursorOK, Behind, Alive
<1>5. CASE \E b \in Blocks : \E named \in SUBSET Procs : Deliver(b, named)
  <2>1. /\ arrived < MaxRecords /\ arrived' = arrived + 1
        /\ UNCHANGED <<main, exit, sysmon, channel, cursor, lastId, rows, unread, firstId>>
    BY <1>5 DEF Deliver, feedRest, besideFeed, chan
  <2>2. ChannelOK'
    BY <2>1, MonitorAssumption DEF SysmonInv, ChannelOK
  <2> QED
    BY <2>1, <2>2 DEF SysmonInv, RowsOK, CursorOK, Behind, Alive
<1>6. CASE \/ Arm \/ Construct \/ PollTarget \/ TargetNotFound \/ Wake
           \/ RequestSysmonStop \/ JoinSysmon \/ CancelWatchdog \/ Destroy
  <2>1. UNCHANGED <<chan, arrived>> /\ Alive
    BY <1>6 DEF Arm, Construct, PollTarget, TargetNotFound, Wake, RequestSysmonStop,
                JoinSysmon, CancelWatchdog, Destroy, mainRest, feed
  <2>2. main' \in early => main \in early
    BY <1>6 DEF Arm, Construct, PollTarget, TargetNotFound, Wake, RequestSysmonStop,
                JoinSysmon, CancelWatchdog, Destroy, Goto
  <2> QED
    BY <2>1, <2>2, SysmonUnchanged
<1>7. CASE \E b \in Blocks : StopBlock(b) \/ JoinBlock(b) \/ JoinStarter(b)
  <2>1. PICK b \in Blocks : StopBlock(b) \/ JoinBlock(b) \/ JoinStarter(b)
    BY <1>7
  <2>2. UNCHANGED <<chan, arrived>> /\ Alive
    BY <2>1 DEF StopBlock, JoinBlock, JoinStarter, mainRest, feed
  <2>3. main' \in {NextLabel[b], JoinLabel[b], AfterOuter[b]}
    BY <2>1 DEF StopBlock, JoinBlock, JoinStarter, Goto
  <2>4. main' \notin early
    BY <2>3, Labels
  <2> QED
    BY <2>2, <2>4, SysmonUnchanged
<1>8. CASE \E b \in Blocks : BlockStep(b) /\ ~Dies
  <2>1. UNCHANGED <<chan, arrived, main>> /\ Alive
    BY <1>8 DEF BlockStep, CreateTrace, CreateWorker, StartTrace, TraceFails, TraceEnds,
                Dies, etwRest, feed
  <2> QED
    BY <2>1, SysmonUnchanged
<1>9. CASE \E b \in Blocks : CallbackStep(b) /\ ~Dies
  <2>1. UNCHANGED <<chan, arrived, main>> /\ Alive
    BY <1>9 DEF CallbackStep, RefreshNotDue, TakeSnapshot, WriteTargets, Ignore,
                LogEvent, AnalyzeEvent, AnalysisCrashes, Dies, feedRest, besideFeed, chan
  <2> QED
    BY <2>1, SysmonUnchanged
<1>10. CASE Pass \/ UNCHANGED monitorVars
  <2>1. UNCHANGED <<chan, arrived, main, exit>>
    BY <1>10 DEF Pass, monitorVars, feed
  <2>2. Alive' => Alive
    BY <2>1 DEF Alive
  <2> QED
    BY <2>1, <2>2, SysmonUnchanged
<1>11. (ConstructFails \/ GiveUp \/ HardStop) => Dies
  BY DEF ConstructFails, GiveUp, HardStop, Dies
<1> QED
  BY <1>1, <1>2, <1>3, <1>4, <1>5, <1>6, <1>7, <1>8, <1>9, <1>10, <1>11
     DEF MonitorNext, MainStep

(* Where the Sysmon query stands against the rows it has written.          *)
THEOREM SysmonHolds == MonitorSpec => []SysmonInv
  BY SysmonInit, SysmonOnceStep, PTL DEF MonitorSpec

(* Every record of the Sysmon channel that can be rendered is stored once  *)
(* and in order, whatever batches the channel hands out, and again after   *)
(* each query (_enableSysmonChannel, lastRecordId).                        *)
THEOREM SysmonStoredOnce == MonitorSpec => []SysmonOnce
<1>1. SysmonInv => SysmonOnce
  BY DEF SysmonInv, RowsOK, SysmonOnce, Behind
<1> QED
  BY <1>1, SysmonHolds, PTL

-----------------------------------------------------------------------------
(* Types.                                                                  *)

ThreadNames == {"worker", "starter", "sysmon"} \X (Blocks \cup {"sysmon"})

FeedOK ==
  /\ callback \in [Blocks -> {"idle", "announce", "announced", "refresh",
                              "refreshed", "decide", "analyze"}]
  /\ record \in [Blocks -> SUBSET Procs]
  /\ snapshot \in [Blocks -> SUBSET Procs]
  /\ {targets, wasTarget} \subseteq SUBSET Procs
  /\ events \subseteq SUBSET Procs

ControlOK ==
  /\ elapsed \in 0..3
  /\ exit \in {"no", "success", "failure", "aborted", "hardStop"}
  /\ watchdog \in {"off", "armed", "cancelled"}
  /\ forgotten \subseteq ThreadNames
  /\ engine \in {"none", "unset", "null"}
  /\ sysmon \in {"off", "open", "query", "next", "batch", "analyze", "done"}

FlagsOK == stopSysmon \in BOOLEAN /\ missed \in BOOLEAN

TypeInv == FeedOK /\ ControlOK /\ FlagsOK

LEMMA MonitorTypeInit == MonitorInit => TypeInv
<1> SUFFICES ASSUME MonitorInit PROVE TypeInv
  OBVIOUS
<1>1. FeedOK
  BY DEF MonitorInit, FeedOK
<1>2. ControlOK
  BY DEF MonitorInit, ControlOK
<1>3. FlagsOK
  BY DEF MonitorInit, FlagsOK
<1> QED
  BY <1>1, <1>2, <1>3 DEF TypeInv

(* What the callbacks and the targets hold.                                *)
LEMMA FeedStep == FeedOK /\ [MonitorNext]_monitorVars => FeedOK'
<1> SUFFICES ASSUME FeedOK, [MonitorNext]_monitorVars PROVE FeedOK'
  OBVIOUS
<1> USE DEF FeedOK
<1>1. CASE Dies
  BY <1>1 DEF Dies, Quit
<1>2. CASE Construct \/ PollTarget
  BY <1>2 DEF Construct, PollTarget, List, mainRest, feed, db
<1>3. CASE \E b \in Blocks : \E named \in SUBSET Procs : Deliver(b, named)
  BY <1>3 DEF Deliver, db
<1>4. CASE \E b \in Blocks : CallbackStep(b) /\ ~Dies
  <2>1. PICK b \in Blocks : CallbackStep(b) /\ ~Dies
    BY <1>4
  <2>2. CASE RefreshNotDue(b)
    BY <2>2 DEF RefreshNotDue, AfterRefresh, db
  <2>3. CASE TakeSnapshot(b)
    BY <2>3 DEF TakeSnapshot, List, db
  <2>4. CASE WriteTargets(b)
    BY <2>4 DEF WriteTargets, AfterRefresh, db
  <2>5. CASE Ignore(b)
    BY <2>5 DEF Ignore, db
  <2>6. CASE LogEvent(b)
    BY <2>6 DEF LogEvent
  <2>7. CASE AnalyzeEvent(b)
    BY <2>1, <2>7 DEF AnalyzeEvent, AnalysisCrashes, Dies, besideFeed
  <2> QED
    BY <2>1, <2>2, <2>3, <2>4, <2>5, <2>6, <2>7 DEF CallbackStep
<1>5. CASE \/ Arm \/ TargetNotFound \/ Start \/ Wake \/ RequestSysmonStop \/ JoinSysmon
           \/ CancelWatchdog \/ Destroy
           \/ \E b \in Blocks : StopBlock(b) \/ JoinBlock(b) \/ JoinStarter(b)
  BY <1>5 DEF Arm, TargetNotFound, Start, Wake, RequestSysmonStop, JoinSysmon,
              CancelWatchdog, Destroy, StopBlock, JoinBlock, JoinStarter, mainRest, feed, db
<1>6. CASE \E b \in Blocks : BlockStep(b) /\ ~Dies
  BY <1>6 DEF BlockStep, CreateTrace, CreateWorker, StartTrace, TraceFails, TraceEnds,
              Dies, etwRest, feed, db
<1>7. CASE SysmonStep /\ ~Dies
  BY <1>7 DEF SysmonStep, OpenChannel, Query, NextBatch, SkipRecord, WriteRecord,
              AnalyzeRow, AnalysisCrashes, Dies, sysmonRest, besideSysmon, feed, db
<1>8. CASE Pass \/ ChannelGrows \/ UNCHANGED monitorVars
  BY <1>8 DEF Pass, ChannelGrows, monitorVars, feed, db
<1>9. (ConstructFails \/ GiveUp \/ HardStop) => Dies
  BY DEF ConstructFails, GiveUp, HardStop, Dies
<1> QED
  BY <1>1, <1>2, <1>3, <1>4, <1>5, <1>6, <1>7, <1>8, <1>9 DEF MonitorNext, MainStep

(* Where the threads stand, and which were given up.                       *)
LEMMA ControlStep == ControlOK /\ [MonitorNext]_monitorVars => ControlOK'
<1> SUFFICES ASSUME ControlOK, [MonitorNext]_monitorVars PROVE ControlOK'
  OBVIOUS
<1> USE DEF ControlOK
<1>1. CASE Dies
  BY <1>1 DEF Dies, Quit
<1>2. CASE \/ Arm \/ Construct \/ PollTarget \/ TargetNotFound \/ Start \/ Wake
           \/ RequestSysmonStop \/ CancelWatchdog \/ Destroy
           \/ \E b \in Blocks : StopBlock(b)
  BY <1>2 DEF Arm, Construct, PollTarget, TargetNotFound, Start, Wake, RequestSysmonStop,
              CancelWatchdog, Destroy, StopBlock, mainRest, chan
<1>3. CASE \E b \in Blocks : JoinBlock(b)
  BY <1>3 DEF JoinBlock, ThreadNames, mainRest, chan
<1>4. CASE \E b \in Blocks : JoinStarter(b)
  BY <1>4 DEF JoinStarter, Join, ThreadNames, mainRest, chan
<1>5. CASE JoinSysmon
  <2>1. <<"sysmon", "sysmon">> \in ThreadNames
    BY DEF ThreadNames
  <2>2. forgotten' \in {forgotten, forgotten \cup {<<"sysmon", "sysmon">>}}
    BY <1>5 DEF JoinSysmon, Join
  <2>3. UNCHANGED <<elapsed, exit, watchdog, engine, sysmon>>
    BY <1>5 DEF JoinSysmon, mainRest, chan
  <2> QED
    BY <2>1, <2>2, <2>3
<1>6. CASE \E b \in Blocks : BlockStep(b) /\ ~Dies
  BY <1>6 DEF BlockStep, CreateTrace, CreateWorker, StartTrace, TraceFails, TraceEnds,
              Dies, etwRest, chan
<1>7. CASE \E b \in Blocks : \/ \E named \in SUBSET Procs : Deliver(b, named)
                             \/ CallbackStep(b) /\ ~Dies
  BY <1>7 DEF CallbackStep, Deliver, RefreshNotDue, TakeSnapshot, WriteTargets, Ignore,
              LogEvent, AnalyzeEvent, Analyze, AnalysisCrashes, Dies, feedRest,
              besideFeed, chan
<1>8. CASE SysmonStep /\ ~Dies
  BY <1>8 DEF SysmonStep, OpenChannel, Query, NextBatch, SkipRecord, WriteRecord, Advance,
              AnalyzeRow, Analyze, AnalysisCrashes, Dies, sysmonRest, besideSysmon
<1>9. CASE Pass \/ ChannelGrows \/ UNCHANGED monitorVars
  BY <1>9 DEF Pass, ChannelGrows, monitorVars, chan
<1>10. (ConstructFails \/ GiveUp \/ HardStop) => Dies
  BY DEF ConstructFails, GiveUp, HardStop, Dies
<1> QED
  BY <1>1, <1>2, <1>3, <1>4, <1>5, <1>6, <1>7, <1>8, <1>9, <1>10 DEF MonitorNext, MainStep

(* The flags: an action leaves one of them or sets it.                     *)
LEMMA FlagsStep == FlagsOK /\ [MonitorNext]_monitorVars => FlagsOK'
<1> SUFFICES ASSUME FlagsOK, [MonitorNext]_monitorVars PROVE FlagsOK'
  OBVIOUS
<1>1. stopSysmon' = stopSysmon \/ stopSysmon' = TRUE \/ stopSysmon' = FALSE
  <2>1. CASE \/ Arm \/ Construct \/ ConstructFails \/ PollTarget \/ TargetNotFound
             \/ GiveUp \/ Start \/ Wake \/ RequestSysmonStop \/ JoinSysmon
             \/ CancelWatchdog \/ Destroy \/ HardStop
             \/ \E b \in Blocks : StopBlock(b) \/ JoinBlock(b) \/ JoinStarter(b)
    BY <2>1 DEF Arm, Construct, ConstructFails, PollTarget, TargetNotFound, GiveUp, Start,
                Wake, RequestSysmonStop, JoinSysmon, CancelWatchdog, Destroy, HardStop,
                StopBlock, JoinBlock, JoinStarter, Quit
  <2>2. CASE \E b \in Blocks : \/ BlockStep(b) \/ CallbackStep(b)
                               \/ \E named \in SUBSET Procs : Deliver(b, named)
    BY <2>2 DEF BlockStep, CreateTrace, CreateWorker, StartTrace, TraceFails, TraceEnds,
                CallbackStep, Deliver, RefreshNotDue, TakeSnapshot, WriteTargets, Ignore,
                LogEvent, AnalyzeEvent, AnalysisCrashes, Quit, etwRest, feedRest, besideFeed
  <2>3. CASE SysmonStep
    BY <2>3 DEF SysmonStep, OpenChannel, Query, NextBatch, SkipRecord, WriteRecord,
                AnalyzeRow, AnalysisCrashes, Quit, sysmonRest, besideSysmon
  <2>4. CASE Pass \/ ChannelGrows \/ UNCHANGED monitorVars
    BY <2>4 DEF Pass, ChannelGrows, monitorVars
  <2> QED
    BY <2>1, <2>2, <2>3, <2>4 DEF MonitorNext, MainStep
<1>2. missed' = missed \/ missed' = TRUE
  <2>1. CASE \/ Arm \/ Construct \/ ConstructFails \/ PollTarget \/ TargetNotFound
             \/ GiveUp \/ Start \/ Wake \/ RequestSysmonStop \/ JoinSysmon
             \/ CancelWatchdog \/ Destroy \/ HardStop
             \/ \E b \in Blocks : StopBlock(b) \/ JoinBlock(b) \/ JoinStarter(b)
    BY <2>1 DEF Arm, Construct, ConstructFails, PollTarget, TargetNotFound, GiveUp, Start,
                Wake, RequestSysmonStop, JoinSysmon, CancelWatchdog, Destroy, HardStop,
                StopBlock, JoinBlock, JoinStarter, mainRest, db
  <2>2. CASE \E b \in Blocks : \/ BlockStep(b) \/ CallbackStep(b)
                               \/ \E named \in SUBSET Procs : Deliver(b, named)
    BY <2>2 DEF BlockStep, CreateTrace, CreateWorker, StartTrace, TraceFails, TraceEnds,
                CallbackStep, Deliver, RefreshNotDue, TakeSnapshot, WriteTargets, Ignore,
                LogEvent, AnalyzeEvent, Analyze, AnalysisCrashes, etwRest, db
  <2>3. CASE SysmonStep
    BY <2>3 DEF SysmonStep, OpenChannel, Query, NextBatch, SkipRecord, WriteRecord,
                AnalyzeRow, Analyze, AnalysisCrashes, db
  <2>4. CASE Pass \/ ChannelGrows \/ UNCHANGED monitorVars
    BY <2>4 DEF Pass, ChannelGrows, monitorVars, db
  <2> QED
    BY <2>1, <2>2, <2>3, <2>4 DEF MonitorNext, MainStep
<1> QED
  BY <1>1, <1>2, Zenon DEF FlagsOK

(* Types of what no other section needs.                                   *)
THEOREM TypesHold == MonitorSpec => []TypeInv
<1>1. TypeInv /\ [MonitorNext]_monitorVars => TypeInv'
  BY FeedStep, ControlStep, FlagsStep DEF TypeInv
<1> QED
  BY MonitorTypeInit, <1>1, PTL DEF MonitorSpec

(* Type correctness of the monitor (main.cpp, ProcessMonitor.cpp,          *)
(* KernelBlock and UserBlock).                                             *)
THEOREM MonitorTyped == MonitorSpec => []MonitorTypeOK
<1>1. StopInv => ok \in BOOLEAN
  BY DEF StopInv
<1>2. TypeInv /\ TraceInv /\ SysmonInv /\ ok \in BOOLEAN => MonitorTypeOK
  <2> SUFFICES ASSUME TypeInv, TraceInv, SysmonInv, ok \in BOOLEAN PROVE MonitorTypeOK
    OBVIOUS
  <2>1. {firstId, lastId, cursor[1], cursor[2]} \subseteq 0..channel
    BY DEF SysmonInv, ChannelOK
  <2>2. {ok, stopSysmon, missed} \subseteq BOOLEAN
    BY DEF TypeInv, FlagsOK
  <2> QED
    BY <2>1, <2>2 DEF TypeInv, FeedOK, ControlOK, ThreadNames, TraceInv, ThreadsOK,
                      SysmonInv, ChannelOK, MonitorTypeOK
<1> QED
  BY <1>1, <1>2, TypesHold, TraceHolds, SysmonHolds, StopHolds, PTL
=============================================================================
