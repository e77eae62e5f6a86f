---------------------------- MODULE GuestMonitor ----------------------------
(***************************************************************************)
(* The guest's ProcessMonitor when it watches a sample: wmain with its     *)
(* watchdog and its deadlines, the two ETW blocks with their starter and   *)
(* worker threads, the Sysmon thread, the refresh of the target processes  *)
(* that all callbacks share, and the path of a record to the database.     *)
(*                                                                         *)
(* External: ETW (a session that is stopped before it was started starts   *)
(* all the same), the Sysmon channel, the processes of the guest.          *)
(***************************************************************************)
EXTENDS Naturals, Sequences, FiniteSets

CONSTANTS
  Procs,           \* process ids that may come to run the target
  BatchSize,       \* records one EvtNext returns
  MaxRecords       \* bound: records of the sessions and of the channel together

Blocks == {"kernel", "user"}

ASSUME MonitorAssumption ==
  BatchSize \in Nat \ {0} /\ MaxRecords \in Nat

VARIABLES
  elapsed,    \* 1: the watchdog is due, 2: the deadline, 3: the stop deadline
  main,       \* what wmain does next
  exit,       \* how the process ended
  ok,         \* stopWithDeadline's result
  watchdog,   \* off, armed or cancelled
  trace,      \* m_trace of each block
  worker,     \* m_thread of each block
  starter,    \* m_threads.kernel, m_threads.user
  forgotten,  \* threads that were detached: block workers, starters, "sysmon"
  targets,    \* m_targetPids
  callback,   \* each block's event callback
  record,     \* those of Procs that its record names; others name none
  snapshot,   \* the process list it took
  arrived,    \* bound counter: records so far
  engine,     \* ThreadAnalysisEngine::writer, known once it is looked at
  sysmon,     \* the Sysmon thread
  stopSysmon, \* its stop token
  channel,    \* newest record of the channel
  cursor,     \* where the query stands, and where its batch ends
  lastId,     \* lastRecordId
  events,     \* rows of Events: the records' processes
  rows,       \* history: ids of the Sysmon records written, in order
  unread,     \* history: Sysmon records that could not be rendered
  firstId,    \* history: lastRecordId at the start
  wasTarget,  \* history: processes that were seen to run the target
  missed      \* history: a finding did not reach the table Findings

etw == <<trace, worker, starter>>
feed == <<callback, record, snapshot, arrived>>
chan == <<sysmon, channel, cursor, lastId, rows, unread, firstId>>
db == <<events, missed>>
monitorVars ==
  <<elapsed, main, exit, ok, watchdog, forgotten, targets, engine, stopSysmon,
    etw, feed, chan, wasTarget, db>>

Alive == exit = "no"

MonitorInit ==
  /\ elapsed = 0
  /\ main = "begin" /\ exit = "no" /\ ok = TRUE
  /\ watchdog = "off"
  /\ trace = [b \in Blocks |-> "none"]
  /\ worker = [b \in Blocks |-> "none"]
  /\ starter = [b \in Blocks |-> "off"]
  /\ forgotten = {}
  /\ wasTarget = {}
  /\ targets = {}
  /\ callback = [b \in Blocks |-> "idle"]
  /\ record = [b \in Blocks |-> {}]
  /\ snapshot = [b \in Blocks |-> {}]
  /\ engine = "none"
  /\ sysmon = "off" /\ stopSysmon = FALSE
  /\ channel \in 0..1
  /\ arrived = channel
  /\ cursor = <<0, 0>>
  /\ lastId = 0 /\ firstId = 0
  /\ rows = <<>> /\ unread = {}
  /\ events = {}
  /\ missed = FALSE

-----------------------------------------------------------------------------
(* The world: time, the channel, the processes.                            *)

Pass ==
  /\ Alive /\ main # "begin"
  /\ elapsed < 3
  /\ elapsed' = elapsed + 1
  /\ UNCHANGED <<main, exit, ok, watchdog, forgotten, targets, engine,
                 stopSysmon, etw, feed, chan, wasTarget, db>>

ChannelGrows ==
  /\ Alive
  /\ arrived < MaxRecords
  /\ channel' = channel + 1
  /\ arrived' = arrived + 1
  /\ UNCHANGED <<elapsed, main, exit, ok, watchdog, forgotten, targets,
                 engine, stopSysmon, etw, callback, record, snapshot, sysmon,
                 cursor, lastId, rows, unread, firstId, wasTarget, db>>

(* findPidsByName: whoever runs the target just then, or nobody if the     *)
(* snapshot fails.                                                         *)
List(list) == wasTarget' = wasTarget \cup list

-----------------------------------------------------------------------------
(* wmain                                                                   *)

Goto(from, to) == main = from /\ main' = to

(* The process ends: its memory is gone, the rows and the channel stay.    *)
Quit(how) ==
  /\ exit' = how
  /\ main' = "end" /\ elapsed' = 3
  /\ ok' = TRUE /\ watchdog' = "off"
  /\ trace' = [b \in Blocks |-> "none"]
  /\ worker' = [b \in Blocks |-> "none"]
  /\ starter' = [b \in Blocks |-> "off"]
  /\ callback' = [b \in Blocks |-> "idle"]
  /\ record' = [b \in Blocks |-> {}]
  /\ snapshot' = [b \in Blocks |-> {}]
  /\ forgotten' = {} /\ targets' = {}
  /\ engine' = "none"
  /\ sysmon' = "off" /\ stopSysmon' = FALSE /\ cursor' = <<0, 0>>
  /\ UNCHANGED <<arrived, channel, lastId, rows, unread, firstId, wasTarget, events>>

mainRest == <<elapsed, feed, chan, db>>

Arm ==
  /\ Alive /\ Goto("begin", "construct")
  /\ watchdog' = "armed"
  /\ UNCHANGED <<exit, ok, forgotten, targets, engine, stopSysmon, etw, wasTarget, mainRest>>

(* The engine is declared before the writer, so it copies the writer's     *)
(* pointer before that is set: null or whatever the memory held.           *)
Construct ==
  /\ Alive /\ Goto("construct", "wait")
  /\ engine' = "unset"
  /\ \E list \in SUBSET Procs : targets' = list /\ List(list)
  /\ UNCHANGED <<exit, ok, watchdog, forgotten, stopSysmon, etw, mainRest>>

(* The constructor is noexcept, and the writer's throws when the database  *)
(* cannot be opened.                                                       *)
ConstructFails ==
  /\ Alive /\ main = "construct"
  /\ Quit("aborted") /\ UNCHANGED missed

(* waitForTarget: one round of its loop.                                   *)
PollTarget ==
  /\ Alive /\ main = "wait" /\ elapsed < 2
  /\ \E list \in SUBSET Procs : targets' = list /\ List(list)
  /\ main' = IF targets' = {} THEN "wait" ELSE "start"
  /\ UNCHANGED <<exit, ok, watchdog, forgotten, engine, stopSysmon, etw, mainRest>>

(* Mutant: it goes on without a target.                                    *)
TargetNotFoundGoesOn ==
  /\ Alive /\ elapsed >= 2 /\ Goto("wait", "start")
  /\ UNCHANGED <<exit, ok, watchdog, forgotten, targets, engine, stopSysmon, etw, wasTarget, mainRest>>

TargetNotFound ==
  /\ Alive /\ elapsed >= 2 /\ Goto("wait", "giveUp")
  /\ UNCHANGED <<exit, ok, watchdog, forgotten, targets, engine, stopSysmon, etw, wasTarget, mainRest>>

GiveUp ==
  /\ Alive /\ main = "giveUp"
  /\ Quit("failure") /\ UNCHANGED missed

Start ==
  /\ Alive /\ Goto("start", "trace")
  /\ starter' = [b \in Blocks |-> "begin"]
  /\ sysmon' = "open"
  /\ UNCHANGED <<elapsed, exit, ok, watchdog, forgotten, targets, engine,
                 stopSysmon, trace, worker, feed, channel, cursor, lastId,
                 rows, unread, firstId, wasTarget, db>>

Wake ==
  /\ Alive /\ elapsed >= 2 /\ Goto("trace", "stop kernel")
  /\ UNCHANGED <<exit, ok, watchdog, forgotten, targets, engine, stopSysmon, etw, wasTarget, mainRest>>

(* stopWithDeadline of a block.  The kernel's returns at once when it has  *)
(* no trace, the user's still waits for a thread.  A trace that has not    *)
(* started yet does not notice the stop.                                   *)
StopLabel == [kernel |-> "stop kernel", user |-> "stop user"]
JoinLabel == [kernel |-> "join kernel", user |-> "join user"]
NextLabel == [kernel |-> "stop user", user |-> "stop sysmon"]

StopBlock(b) ==
  /\ Alive /\ main = StopLabel[b]
  /\ main' = IF trace[b] = "none" /\ b = "kernel" THEN NextLabel[b] ELSE JoinLabel[b]
  /\ trace' = [trace EXCEPT ![b] = IF worker[b] = "running" THEN "stopped" ELSE @]
  /\ UNCHANGED <<exit, ok, watchdog, forgotten, targets, engine, stopSysmon,
                 worker, starter, wasTarget, mainRest>>

Joinable(b) == worker[b] \in {"starting", "running", "ended"}

(* Mutant: the trace is destroyed at once.                                 *)
JoinBlockAtOnce(b) ==
  /\ Alive /\ Goto(JoinLabel[b], NextLabel[b])
  /\ trace' = [trace EXCEPT ![b] = "none"]
  /\ worker' = [worker EXCEPT ![b] = IF @ = "ended" THEN "joined" ELSE @]
  /\ UNCHANGED <<exit, ok, watchdog, forgotten, targets, engine, stopSysmon, starter, wasTarget, mainRest>>

(* Join the worker if it has ended, detach it at the deadline; either way  *)
(* the trace is destroyed.                                                 *)
JoinBlock(b) ==
  /\ Alive /\ Goto(JoinLabel[b], NextLabel[b])
  /\ trace' = [trace EXCEPT ![b] = "none"]
  /\ \/ /\ ~Joinable(b)
        /\ UNCHANGED <<worker, forgotten, ok>>
     \/ /\ worker[b] = "ended"
        /\ worker' = [worker EXCEPT ![b] = "joined"]
        /\ UNCHANGED <<forgotten, ok>>
     \/ /\ worker[b] \in {"starting", "running"} /\ elapsed = 3
        /\ forgotten' = forgotten \cup {<<"worker", b>>}
        /\ ok' = FALSE
        /\ UNCHANGED worker
  /\ UNCHANGED <<exit, watchdog, targets, engine, stopSysmon, starter, wasTarget, mainRest>>

(* Mutant: the watchdog is cancelled before the threads are joined.        *)
RequestSysmonStopEarly ==
  /\ Alive /\ Goto("stop sysmon", "outer kernel")
  /\ stopSysmon' = TRUE
  /\ watchdog' = "cancelled"
  /\ UNCHANGED <<exit, ok, forgotten, targets, engine, etw, wasTarget, mainRest>>

RequestSysmonStop ==
  /\ Alive /\ Goto("stop sysmon", "outer kernel")
  /\ stopSysmon' = TRUE
  /\ UNCHANGED <<exit, ok, watchdog, forgotten, targets, engine, etw, wasTarget, mainRest>>

OuterLabel == [kernel |-> "outer kernel", user |-> "outer user"]
AfterOuter == [kernel |-> "outer user", user |-> "outer sysmon"]

(* Mutant: nobody is told that a thread was detached.                      *)
JoinSilently(ended, thread) ==
  \/ ended /\ UNCHANGED <<forgotten, ok>>
  \/ /\ ~ended /\ elapsed = 3
     /\ forgotten' = forgotten \cup {thread}
     /\ UNCHANGED ok

(* s_joinWithDeadline                                                      *)
Join(ended, thread) ==
  \/ ended /\ UNCHANGED <<forgotten, ok>>
  \/ /\ ~ended /\ elapsed = 3
     /\ forgotten' = forgotten \cup {thread}
     /\ ok' = FALSE

JoinStarter(b) ==
  /\ Alive /\ Goto(OuterLabel[b], AfterOuter[b])
  /\ Join(starter[b] = "done", <<"starter", b>>)
  /\ UNCHANGED <<exit, watchdog, targets, engine, stopSysmon, etw, wasTarget, mainRest>>

JoinSysmon ==
  /\ Alive /\ Goto("outer sysmon", "cancel")
  /\ Join(sysmon = "done", <<"sysmon", "sysmon">>)
  /\ UNCHANGED <<exit, watchdog, targets, engine, stopSysmon, etw, wasTarget, mainRest>>

CancelWatchdog ==
  /\ Alive /\ Goto("cancel", "destroy")
  /\ watchdog' = "cancelled"
  /\ UNCHANGED <<exit, ok, forgotten, targets, engine, stopSysmon, etw, wasTarget, mainRest>>

(* The monitor is destroyed before wmain returns; a block's thread that    *)
(* was neither joined nor detached ends the process.                       *)
Destroy ==
  /\ Alive /\ Goto("destroy", "end")
  /\ exit' = IF \E b \in Blocks : Joinable(b) /\ <<"worker", b>> \notin forgotten
             THEN "aborted" ELSE "success"
  /\ UNCHANGED <<ok, watchdog, forgotten, targets, engine, stopSysmon, etw, wasTarget, mainRest>>

(* The watchdog thread ends the process, whatever its threads are doing.   *)
HardStop ==
  /\ Alive /\ watchdog = "armed" /\ elapsed >= 1
  /\ Quit("hardStop") /\ UNCHANGED missed

-----------------------------------------------------------------------------
(* KernelBlock::start and UserBlock::start, in the starter threads; the    *)
(* workers that process the trace.                                         *)

etwRest == <<elapsed, main, ok, watchdog, forgotten, targets, engine,
             stopSysmon, chan, wasTarget, db>>

(* m_trace is made; providers that cannot be enabled are only logged.      *)
CreateTrace(b) ==
  /\ Alive /\ starter[b] = "begin"
  /\ starter' = [starter EXCEPT ![b] = "enable"]
  /\ trace' = [trace EXCEPT ![b] = "made"]
  /\ UNCHANGED <<exit, worker, feed, etwRest>>

(* A stop in between has destroyed the trace: it is used all the same.     *)
CreateWorker(b) ==
  /\ Alive /\ starter[b] = "enable"
  /\ IF trace[b] = "none"
     THEN Quit("aborted") /\ UNCHANGED missed
     ELSE /\ starter' = [starter EXCEPT ![b] = "done"]
          /\ worker' = [worker EXCEPT ![b] = "starting"]
          /\ UNCHANGED <<exit, trace, feed, etwRest>>

(* m_trace->start() runs until the session is stopped, or fails.           *)
StartTrace(b) ==
  /\ Alive /\ worker[b] = "starting"
  /\ IF trace[b] = "none"
     THEN Quit("aborted") /\ UNCHANGED missed
     ELSE /\ worker' = [worker EXCEPT ![b] = "running"]
          /\ UNCHANGED <<exit, trace, starter, feed, etwRest>>

TraceFails(b) ==
  /\ Alive /\ worker[b] = "starting" /\ trace[b] # "none"
  /\ worker' = [worker EXCEPT ![b] = "ended"]
  /\ UNCHANGED <<exit, trace, starter, feed, etwRest>>

TraceEnds(b) ==
  /\ Alive /\ worker[b] = "running" /\ trace[b] = "stopped"
  /\ callback[b] = "idle"
  /\ worker' = [worker EXCEPT ![b] = "ended"]
  /\ UNCHANGED <<exit, trace, starter, feed, etwRest>>

-----------------------------------------------------------------------------
(* _onKernelEvent, _onUserEvent: the callback of a block.                  *)

besideFeed == <<elapsed, main, ok, watchdog, forgotten, stopSysmon, etw, chan>>
feedRest == <<engine, besideFeed>>

(* The kernel's callback refreshes the targets once to announce them and,  *)
(* like the user's, once to decide.                                        *)
Deliver(b, named) ==
  /\ Alive /\ worker[b] = "running"
  /\ callback[b] = "idle" /\ arrived < MaxRecords
  /\ arrived' = arrived + 1
  /\ record' = [record EXCEPT ![b] = named]
  /\ callback' = [callback EXCEPT ![b] = IF b = "kernel" THEN "announce" ELSE "refresh"]
  /\ UNCHANGED <<exit, snapshot, targets, db, wasTarget, feedRest>>

AfterRefresh(b) == IF callback[b] \in {"announce", "announced"} THEN "refresh" ELSE "decide"

(* _refreshTargetPidsIfNeeded: within the interval of the last one nothing *)
(* happens.                                                                *)
RefreshNotDue(b) ==
  /\ Alive /\ callback[b] \in {"announce", "refresh"}
  /\ callback' = [callback EXCEPT ![b] = AfterRefresh(b)]
  /\ UNCHANGED <<exit, record, snapshot, arrived, targets, db, wasTarget, feedRest>>

(* Otherwise the process list is taken outside the lock ...                *)
TakeSnapshot(b) ==
  /\ Alive /\ callback[b] \in {"announce", "refresh"}
  /\ \E list \in SUBSET Procs : /\ snapshot' = [snapshot EXCEPT ![b] = list]
                               /\ List(list)
  /\ callback' = [callback EXCEPT ![b] = IF @ = "announce" THEN "announced" ELSE "refreshed"]
  /\ UNCHANGED <<exit, record, arrived, targets, db, feedRest>>

(* ... and written under it.                                               *)
WriteTargets(b) ==
  /\ Alive /\ callback[b] \in {"announced", "refreshed"}
  /\ targets' = snapshot[b]
  /\ snapshot' = [snapshot EXCEPT ![b] = {}]
  /\ callback' = [callback EXCEPT ![b] = AfterRefresh(b)]
  /\ UNCHANGED <<exit, record, arrived, db, wasTarget, feedRest>>

(* Mutant: without targets every process is let through.                   *)
PidAllowedAny(b) == targets = {} \/ record[b] \cap targets # {}

(* _pidAllowed: a target is among the processes the record names.          *)
PidAllowed(b) == record[b] \cap targets # {}

Ignore(b) ==
  /\ Alive /\ callback[b] = "decide" /\ ~PidAllowed(b)
  /\ callback' = [callback EXCEPT ![b] = "idle"]
  /\ record' = [record EXCEPT ![b] = {}]
  /\ UNCHANGED <<exit, snapshot, arrived, targets, db, wasTarget, feedRest>>

(* logEvent: the row of the record first, its analysis after it.           *)
LogEvent(b) ==
  /\ Alive /\ callback[b] = "decide" /\ PidAllowed(b)
  /\ events' = events \cup {record[b]}
  /\ callback' = [callback EXCEPT ![b] = "analyze"]
  /\ UNCHANGED <<exit, record, snapshot, arrived, targets, missed, wasTarget, feedRest>>

(* onEvent: without a writer it does nothing at all, whatever there was to *)
(* find; a finding that is given to a writer which is none ends the        *)
(* process.                                                                *)
Analyze ==
  \/ UNCHANGED <<engine, missed>>
  \/ engine' = "null" /\ missed' = TRUE

AnalysisCrashes == engine = "unset" /\ missed' = TRUE /\ Quit("aborted")

AnalyzeEvent(b) ==
  /\ Alive /\ callback[b] = "analyze"
  /\ \/ /\ Analyze
        /\ callback' = [callback EXCEPT ![b] = "idle"]
        /\ record' = [record EXCEPT ![b] = {}]
        /\ UNCHANGED <<exit, snapshot, arrived, targets, events, wasTarget, besideFeed>>
     \/ AnalysisCrashes

-----------------------------------------------------------------------------
(* _enableSysmonChannel                                                    *)

besideSysmon == <<elapsed, main, ok, watchdog, forgotten, targets, stopSysmon,
                  etw, feed, channel, wasTarget>>
sysmonRest == <<engine, besideSysmon>>

(* s_getLatestSysmonRecordId: none when the channel cannot be queried or   *)
(* its last record not be read, 0 when it is empty or EvtNext fails.       *)
OpenChannel ==
  /\ Alive /\ sysmon = "open"
  /\ \/ sysmon' = "done" /\ UNCHANGED <<lastId, firstId>>
     \/ /\ sysmon' = "query"
        /\ lastId' \in {channel, 0}
        /\ firstId' = lastId'
  /\ UNCHANGED <<exit, cursor, rows, unread, db, sysmonRest>>

Query ==
  /\ Alive /\ sysmon = "query"
  /\ \/ stopSysmon /\ sysmon' = "done" /\ UNCHANGED cursor
     \/ ~stopSysmon /\ sysmon' = "next" /\ cursor' = <<lastId, lastId>>
     \/ ~stopSysmon /\ UNCHANGED <<sysmon, cursor>> \* EvtQuery fails
  /\ UNCHANGED <<exit, lastId, firstId, rows, unread, db, sysmonRest>>

(* EvtNext: up to a batch of the records that follow; after the last one   *)
(* the query is closed.                                                    *)
NextBatch ==
  /\ Alive /\ sysmon = "next"
  /\ IF stopSysmon \/ cursor[2] = channel
     THEN sysmon' = "query" /\ UNCHANGED cursor
     ELSE /\ sysmon' = "batch"
          /\ cursor' = <<cursor[2], IF cursor[2] + BatchSize < channel
                                    THEN cursor[2] + BatchSize ELSE channel>>
  /\ UNCHANGED <<exit, lastId, firstId, rows, unread, db, sysmonRest>>

(* Mutant: one record past the end of the batch.                           *)
AdvancePast == IF cursor[1] = cursor[2] THEN "next" ELSE "batch"

Advance == IF cursor[1] + 1 = cursor[2] THEN "next" ELSE "batch"

SkipRecord ==
  /\ Alive /\ sysmon = "batch"
  /\ unread' = unread \cup {cursor[1] + 1}
  /\ cursor' = <<cursor[1] + 1, cursor[2]>>
  /\ sysmon' = Advance
  /\ UNCHANGED <<exit, lastId, firstId, rows, db, sysmonRest>>

(* Mutant: the id of the record is not kept.                               *)
WriteRecordForget ==
  /\ Alive /\ sysmon = "batch"
  /\ rows' = Append(rows, cursor[1] + 1)
  /\ sysmon' = "analyze"
  /\ UNCHANGED <<exit, cursor, lastId, firstId, unread, db, sysmonRest>>

(* The row is written, then the record is analysed.                        *)
WriteRecord ==
  LET id == cursor[1] + 1
  IN  /\ Alive /\ sysmon = "batch"
      /\ lastId' = IF id > lastId THEN id ELSE lastId
      /\ rows' = Append(rows, id)
      /\ sysmon' = "analyze"
      /\ UNCHANGED <<exit, cursor, firstId, unread, db, sysmonRest>>

AnalyzeRow ==
  /\ Alive /\ sysmon = "analyze"
  /\ \/ /\ Analyze
        /\ cursor' = <<cursor[1] + 1, cursor[2]>>
        /\ sysmon' = Advance
        /\ UNCHANGED <<exit, lastId, firstId, rows, unread, events, besideSysmon>>
     \/ AnalysisCrashes

-----------------------------------------------------------------------------
MainStep ==
  \/ Arm \/ Construct \/ ConstructFails
  \/ PollTarget \/ TargetNotFound \/ GiveUp
  \/ Start \/ Wake
  \/ \E b \in Blocks : StopBlock(b) \/ JoinBlock(b) \/ JoinStarter(b)
  \/ RequestSysmonStop \/ JoinSysmon \/ CancelWatchdog \/ Destroy

BlockStep(b) ==
  \/ CreateTrace(b) \/ CreateWorker(b)
  \/ StartTrace(b) \/ TraceFails(b) \/ TraceEnds(b)

CallbackStep(b) ==
  \/ RefreshNotDue(b) \/ TakeSnapshot(b) \/ WriteTargets(b)
  \/ Ignore(b) \/ LogEvent(b) \/ AnalyzeEvent(b)

SysmonStep ==
  OpenChannel \/ Query \/ NextBatch \/ SkipRecord \/ WriteRecord \/ AnalyzeRow

MonitorNext ==
  \/ MainStep
  \/ HardStop
  \/ \E b \in Blocks : BlockStep(b) \/ CallbackStep(b)
  \/ \E b \in Blocks : \E named \in SUBSET Procs : Deliver(b, named)
  \/ SysmonStep
  \/ Pass
  \/ ChannelGrows

(* What does not wait: time, the watchdog once it is due, and the first    *)
(* and the last step of main, which may hang in any call between.  Each of *)
(* them happens a bounded number of times, so one fairness condition is    *)
(* enough for all.                                                         *)
Goes == Arm \/ Destroy \/ HardStop \/ Pass

MonitorSpec == MonitorInit /\ [][MonitorNext]_monitorVars /\ WF_monitorVars(Goes)

-----------------------------------------------------------------------------
(* TYPE: the threads are in one of their states, and the Sysmon thread is  *)
(* where the channel has records.                                          *)
MonitorTypeOK ==
  /\ elapsed \in 0..3
  /\ exit \in {"no", "success", "failure", "aborted", "hardStop"}
  /\ watchdog \in {"off", "armed", "cancelled"}
  /\ trace \in [Blocks -> {"none", "made", "stopped"}]
  /\ worker \in [Blocks -> {"none", "starting", "running", "ended", "joined"}]
  /\ starter \in [Blocks -> {"off", "begin", "enable", "done"}]
  /\ forgotten \subseteq {"worker", "starter", "sysmon"} \X (Blocks \cup {"sysmon"})
  /\ {targets, wasTarget} \subseteq SUBSET Procs
  /\ callback \in [Blocks -> {"idle", "announce", "announced", "refresh",
                              "refreshed", "decide", "analyze"}]
  /\ record \in [Blocks -> SUBSET Procs]
  /\ snapshot \in [Blocks -> SUBSET Procs]
  /\ engine \in {"none", "unset", "null"}
  /\ sysmon \in {"off", "open", "query", "next", "batch", "analyze", "done"}
  /\ {ok, stopSysmon, missed} \subseteq BOOLEAN
  /\ {arrived, channel} \subseteq 0..MaxRecords + 1
  /\ {firstId, lastId, cursor[1], cursor[2]} \subseteq 0..channel
  /\ events \subseteq SUBSET Procs
  /\ rows \in Seq(1..channel)

(* Only ETW records that name a process seen to run the target are stored, *)
(* also while no such process lives, and while two callbacks and main      *)
(* replace the set of targets under each other.                            *)
TargetsOnly == \A named \in events : named \cap wasTarget # {}

(* Each record of the channel is stored once, in order, none that is older *)
(* than the first query's; the query passes over those only that could not *)
(* be rendered.                                                            *)
SysmonOnce ==
  /\ \A i, j \in DOMAIN rows : i < j => rows[i] < rows[j]
  /\ \A i \in DOMAIN rows : rows[i] > firstId
  /\ (firstId + 1)..lastId \subseteq {rows[i] : i \in DOMAIN rows} \cup unread

(* No worker processes a trace that a stop has destroyed, unless it was    *)
(* given up at the stop deadline.                                          *)
TraceOutlivesWorker ==
  \A b \in Blocks :
    worker[b] = "running" /\ trace[b] = "none" => <<"worker", b>> \in forgotten

(* wmain says that the stop was in time only when every thread has ended.  *)
StoppedInTime ==
  exit = "success" /\ ok =>
    /\ sysmon = "done"
    /\ \A b \in Blocks : starter[b] = "done" /\ worker[b] = "joined"

(* It reports success only if it has found a target.                       *)
SuccessMeansTarget == exit = "success" => wasTarget # {}

(* The watchdog bounds the life of the process, whatever the stop does.    *)
Terminates == <>(exit # "no")

(* README.md:11: the monitor stores what the detectors find.               *)
StoresFindings == ~missed
=============================================================================
