---------------------------- MODULE ScanRecords ----------------------------
(***************************************************************************)
(* The dynamic scan of a sample: calls of the endpoint service that poll   *)
(* and upload (ProcessMonitor::dynamicScan, ServerCommunications), the     *)
(* server's request handlers (Sandbox.cpp), its table of scans (Scan.cpp)  *)
(* and the detached threads that run a sample and judge its log            *)
(* (VmRunner, ScanProcessingCron).  The server handles requests on several *)
(* threads; a call waits for its answers two seconds, and what it started  *)
(* on the server goes on when it does not.                                 *)
(***************************************************************************)
EXTENDS Integers, FiniteSets

CONSTANTS
  Calls,    \* calls of dynamicScan, of one endpoint or of several
  Samples,  \* file hashes
  Bad,      \* those whose complete log matches a Sigma query
  Faults,   \* the failures this instance admits
  None

(* "net": a request fails before a handler sees it, or an answer or the    *)
(* result comes too late for the call; "db": a statement fails; "thread":  *)
(* a thread cannot be started, or waits for a command that never returns;  *)
(* "data": the sample cannot be stored, or not all of it, or the monitor   *)
(* in the guest failed or was not done when its log was taken, or a query  *)
(* of the log failed; "vm": a run fails, or its log, the configuration or  *)
(* the queries cannot be opened; "crash": the server stops and is started  *)
(* again.                                                                  *)
AllFaults == {"net", "db", "thread", "data", "vm", "crash"}

ASSUME ScanAssumption ==
  /\ Bad \subseteq Samples
  /\ None \notin Samples
  /\ Faults \subseteq AllFaults

VARIABLES
  sampleOf,  \* the sample of a call
  cpc,       \* where a call is
  uploaded,  \* fileUploaded: the calls that have sent their file
  handler,   \* the next step of the request handler of a call
  answer,    \* the response on its way to a call
  verdict,   \* what a call returns
  rows,      \* the table of scans: status and, when completed, result
  file,      \* uploads/<hash>
  log,       \* the log in the directory of the sample
  vm,        \* the next step of the thread the upload of a call started
  took,      \* what that thread's run got of the sample
  result,    \* what that thread is about to record
  lapses     \* history: what has gone wrong with a sample

clientVars == <<sampleOf, cpc, uploaded, verdict>>
handlerVars == <<handler, answer>>
threadVars == <<vm, took, result>>
dataVars == <<rows, file, log>>
vars == <<clientVars, handlerVars, threadVars, dataVars, lapses>>

(* A failed scan is stale RETRY_SCAN_IF_FAILED_SECONDS after its failure.  *)
Completed == {"clean", "threat"}
Statuses == {"pending", "inProgress", "failed", "stale"} \cup Completed

Uploading == {"write", "mark", "spawn"}

TypeOK ==
  /\ sampleOf \in [Calls -> Samples \cup {None}]
  /\ cpc \in [Calls -> {"off", "ask", "asked", "send", "sent", "end"}]
  /\ uploaded \subseteq Calls
  /\ handler \in [Calls -> {"none", "lookup", "create", "reset", "find", "open"}
                           \cup Uploading]
  /\ answer \in [Calls -> (Statuses \ {"stale"}) \cup {"none", "stored", "error"}]
  /\ verdict \in [Calls -> Completed \cup {"none"}]
  /\ rows \in [Samples -> Statuses \cup {"none"}]
  /\ file \in [Samples -> {"none", "part", "whole"}]
  /\ log \in [Samples -> {"none", "part", "whole"}]
  /\ vm \in [Calls -> {"none", "start", "run", "hung", "judge", "record"}]
  /\ took \in [Calls -> {"none", "part", "whole"}]
  /\ result \in [Calls -> Completed \cup {"none", "failed"}]
  /\ lapses \in [Samples -> SUBSET (Faults \cup {"overlap"})]

Init ==
  /\ sampleOf = [c \in Calls |-> None]
  /\ cpc = [c \in Calls |-> "off"]
  /\ uploaded = {}
  /\ handler = [c \in Calls |-> "none"]
  /\ answer = [c \in Calls |-> "none"]
  /\ verdict = [c \in Calls |-> "none"]
  /\ rows = [h \in Samples |-> "none"]
  /\ file = [h \in Samples |-> "none"]
  /\ log = [h \in Samples |-> "none"]
  /\ vm = [c \in Calls |-> "none"]
  /\ took = [c \in Calls |-> "none"]
  /\ result = [c \in Calls |-> "none"]
  /\ lapses = [h \in Samples |-> {}]

(* A failure that happens, and is remembered.                              *)
Lapse(h, fault) ==
  /\ fault \in Faults
  /\ lapses' = [lapses EXCEPT ![h] = @ \cup {fault}]

-----------------------------------------------------------------------------
(* The call.                                                               *)

CallTo(c, next) == cpc' = [cpc EXCEPT ![c] = next]

Begin(c, h) ==
  /\ cpc[c] = "off"
  /\ sampleOf' = [sampleOf EXCEPT ![c] = h]
  /\ CallTo(c, "ask")
  /\ UNCHANGED <<uploaded, verdict, handlerVars, threadVars, dataVars, lapses>>

(* requestFileScan and uploadFile, as far as they reach the server.        *)
Request(c) ==
  /\ \/ /\ cpc[c] = "ask" /\ CallTo(c, "asked")
        /\ handler' = [handler EXCEPT ![c] = "lookup"]
     \/ /\ cpc[c] = "send" /\ CallTo(c, "sent")
        /\ handler' = [handler EXCEPT ![c] = "find"]
  /\ UNCHANGED <<sampleOf, uploaded, verdict, answer, threadVars, dataVars, lapses>>

(* The request fails: no connection, no file, or no token that the server  *)
(* accepts or renews.                                                      *)
RequestRefused(c) ==
  /\ cpc[c] \in {"ask", "send"}
  /\ Lapse(sampleOf[c], "net")
  /\ CallTo(c, "end")
  /\ UNCHANGED <<sampleOf, uploaded, verdict, handlerVars, threadVars, dataVars>>

(* The request times out, or maxWait has passed.  The handler goes on.     *)
GiveUp(c) ==
  /\ cpc[c] \in {"ask", "asked", "sent"}
  /\ Lapse(sampleOf[c], "net")
  /\ CallTo(c, "end")
  /\ answer' = [answer EXCEPT ![c] = "none"]
  /\ UNCHANGED <<sampleOf, uploaded, verdict, handler, threadVars, dataVars>>

(* The connection breaks when the server stops.                            *)
Disconnected(c) ==
  /\ cpc[c] \in {"asked", "sent"}
  /\ handler[c] = "none" /\ answer[c] = "none"
  /\ CallTo(c, "end")
  /\ UNCHANGED <<sampleOf, uploaded, verdict, handlerVars, threadVars, dataVars,
                 lapses>>

(* Mutant: the type of the virus is read without the status.               *)
ReceiveAnyStatus(c) ==
  /\ cpc[c] = "asked" /\ answer[c] # "none"
  /\ answer' = [answer EXCEPT ![c] = "none"]
  /\ verdict' = [verdict EXCEPT ![c] =
                   IF answer[c] = "threat" THEN "threat" ELSE "clean"]
  /\ CallTo(c, "end")
  /\ UNCHANGED <<sampleOf, uploaded, handler, threadVars, dataVars, lapses>>

(* Mutant: a scan in progress ends the call as a failed one does.          *)
ReceiveImpatient(c) ==
  /\ cpc[c] = "asked" /\ answer[c] # "none"
  /\ answer' = [answer EXCEPT ![c] = "none"]
  /\ \/ /\ answer[c] \in Completed
        /\ verdict' = [verdict EXCEPT ![c] = answer[c]]
        /\ CallTo(c, "end")
     \/ /\ answer[c] = "pending" /\ c \notin uploaded
        /\ CallTo(c, "send") /\ UNCHANGED verdict
     \/ /\ answer[c] \in {"failed", "inProgress"}
        /\ CallTo(c, "end") /\ UNCHANGED verdict
  /\ UNCHANGED <<sampleOf, uploaded, handler, threadVars, dataVars, lapses>>

(* The answer to a request for a scan: a result ends the call, a scan      *)
(* without a sample gets one, a failure ends the call without a verdict,   *)
(* and otherwise the call asks again.                                      *)
ReceiveStatus(c) ==
  /\ cpc[c] = "asked" /\ answer[c] # "none"
  /\ answer' = [answer EXCEPT ![c] = "none"]
  /\ \/ /\ answer[c] \in Completed
        /\ verdict' = [verdict EXCEPT ![c] = answer[c]]
        /\ CallTo(c, "end")
     \/ /\ answer[c] = "pending" /\ c \notin uploaded
        /\ CallTo(c, "send") /\ UNCHANGED verdict
     \/ /\ answer[c] = "failed"
        /\ CallTo(c, "end") /\ UNCHANGED verdict
     \/ /\ answer[c] = "pending" => c \in uploaded
        /\ answer[c] \in {"pending", "inProgress"}
        /\ CallTo(c, "ask") /\ UNCHANGED verdict
  /\ UNCHANGED <<sampleOf, uploaded, handler, threadVars, dataVars, lapses>>

(* The answer to an upload.                                                *)
ReceiveStored(c) ==
  /\ cpc[c] = "sent" /\ answer[c] # "none"
  /\ answer' = [answer EXCEPT ![c] = "none"]
  /\ \/ /\ answer[c] = "stored"
        /\ uploaded' = uploaded \cup {c}
        /\ CallTo(c, "ask")
     \/ /\ answer[c] = "error"
        /\ CallTo(c, "end") /\ UNCHANGED uploaded
  /\ UNCHANGED <<sampleOf, verdict, handler, threadVars, dataVars, lapses>>

-----------------------------------------------------------------------------
(* The request handlers.  A statement that fails is logged and forgotten:  *)
(* a look-up then finds nothing, and an update leaves the row as it is.    *)

HandlerTo(c, next) == handler' = [handler EXCEPT ![c] = next]

(* The handler is done; its answer is lost on a call that gave up.         *)
Respond(c, a) ==
  /\ HandlerTo(c, "none")
  /\ answer' = [answer EXCEPT ![c] = IF cpc[c] = "end" THEN "none" ELSE a]

Update(h, status) ==
  \/ /\ rows' = [rows EXCEPT ![h] = status]
     /\ UNCHANGED lapses
  \/ /\ Lapse(h, "db")
     /\ UNCHANGED rows

(* What getByFileHash finds.                                               *)
Finds(h, row) ==
  \/ row = rows[h] /\ UNCHANGED lapses
  \/ row = "none" /\ Lapse(h, "db")

(* Mutant: a failed scan is never retried.                                 *)
LookupFinal(c) ==
  /\ handler[c] = "lookup"
  /\ \E row \in Statuses \cup {"none"} :
       /\ Finds(sampleOf[c], row)
       /\ \/ row = "none" /\ HandlerTo(c, "create") /\ UNCHANGED answer
          \/ row # "none" /\ Respond(c, row)
  /\ UNCHANGED <<clientVars, threadVars, dataVars>>

(* _requestFileScan: the decision is taken on the row as it was found.     *)
Lookup(c) ==
  /\ handler[c] = "lookup"
  /\ \E row \in Statuses \cup {"none"} :
       /\ Finds(sampleOf[c], row)
       /\ \/ row = "none" /\ HandlerTo(c, "create") /\ UNCHANGED answer
          \/ row = "stale" /\ HandlerTo(c, "reset") /\ UNCHANGED answer
          \/ row \notin {"none", "stale"} /\ Respond(c, row)
  /\ UNCHANGED <<clientVars, threadVars, dataVars>>

(* Scan::create.  The second row of a hash violates UNIQUE, which nobody   *)
(* is told.                                                                *)
Create(c) ==
  /\ handler[c] = "create"
  /\ \/ rows[sampleOf[c]] = "none" /\ Update(sampleOf[c], "pending")
     \/ rows[sampleOf[c]] # "none" /\ UNCHANGED <<rows, lapses>>
  /\ Respond(c, "pending")
  /\ UNCHANGED <<clientVars, threadVars, file, log>>

(* Scan::resetScan, whatever has become of the row.                        *)
Reset(c) ==
  /\ handler[c] = "reset"
  /\ Update(sampleOf[c], "pending")
  /\ Respond(c, "pending")
  /\ UNCHANGED <<clientVars, threadVars, file, log>>

(* _uploadFile: any row will do, whatever its status.                      *)
Find(c) ==
  /\ handler[c] = "find"
  /\ \E row \in Statuses \cup {"none"} :
       /\ Finds(sampleOf[c], row)
       /\ \/ row = "none" /\ Respond(c, "error")
          \/ row # "none" /\ HandlerTo(c, "open") /\ UNCHANGED answer
  /\ UNCHANGED <<clientVars, threadVars, dataVars>>

(* Another upload or run of the sample is under way.                       *)
Busy(c) ==
  \E d \in Calls \ {c} :
    /\ sampleOf[d] = sampleOf[c]
    /\ handler[d] \in Uploading \/ vm[d] # "none"

(* Opening the file empties it.                                            *)
OpenFile(c) ==
  /\ handler[c] = "open"
  /\ HandlerTo(c, "write")
  /\ file' = [file EXCEPT ![sampleOf[c]] = "part"]
  /\ lapses' = IF Busy(c)
               THEN [lapses EXCEPT ![sampleOf[c]] = @ \cup {"overlap"}]
               ELSE lapses
  /\ UNCHANGED <<clientVars, answer, threadVars, rows, log>>

OpenFails(c) ==
  /\ handler[c] = "open"
  /\ Lapse(sampleOf[c], "data")
  /\ Respond(c, "error")
  /\ UNCHANGED <<clientVars, threadVars, dataVars>>

(* Nobody asks whether all was written.  Where two handlers write, one of  *)
(* them may leave a file that the other has yet to complete.               *)
WriteFile(c) ==
  /\ handler[c] = "write"
  /\ HandlerTo(c, "mark")
  /\ \/ /\ file' = [file EXCEPT ![sampleOf[c]] = "whole"]
        /\ UNCHANGED lapses
     \/ /\ \E d \in Calls \ {c} : handler[d] = "write" /\ sampleOf[d] = sampleOf[c]
        /\ UNCHANGED <<file, lapses>>
     \/ /\ Lapse(sampleOf[c], "data")
        /\ UNCHANGED file
  /\ UNCHANGED <<clientVars, answer, threadVars, rows, log>>

Mark(c) ==
  /\ handler[c] = "mark"
  /\ HandlerTo(c, "spawn")
  /\ Update(sampleOf[c], "inProgress")
  /\ UNCHANGED <<clientVars, answer, threadVars, file, log>>

Spawn(c) ==
  /\ handler[c] = "spawn"
  /\ \/ /\ vm' = [vm EXCEPT ![c] = "start"]
        /\ Respond(c, "stored")
        /\ UNCHANGED lapses
     \/ /\ Lapse(sampleOf[c], "thread")
        /\ Respond(c, "error")
        /\ UNCHANGED vm
  /\ UNCHANGED <<clientVars, took, result, dataVars>>

-----------------------------------------------------------------------------
(* The thread of an upload.                                                *)

ThreadTo(c, next) == vm' = [vm EXCEPT ![c] = next]

(* startVm: the runner copies the sample into a guest and begins a log.    *)
StartRun(c) ==
  /\ vm[c] = "start"
  /\ ThreadTo(c, "run")
  /\ took' = [took EXCEPT ![c] = file[sampleOf[c]]]
  /\ log' = [log EXCEPT ![sampleOf[c]] = "part"]
  /\ UNCHANGED <<clientVars, handlerVars, result, rows, file, lapses>>

(* The runner sleeps, sees that there is a log and copies it, whatever the *)
(* monitor in the guest has made of it.  The log is complete when the run  *)
(* had all of the sample, the monitor did its work, and no other run wrote *)
(* to the same directory.                                                  *)
FinishRun(c) ==
  LET h == sampleOf[c] IN
  /\ vm[c] = "run"
  /\ ThreadTo(c, "judge")
  /\ \/ log' = [log EXCEPT ![h] = took[c]] /\ UNCHANGED lapses
     \/ "overlap" \in lapses[h] /\ UNCHANGED <<log, lapses>>
     \/ Lapse(h, "data") /\ UNCHANGED log
  /\ UNCHANGED <<clientVars, handlerVars, took, result, rows, file>>

(* A command of the runner never returns: the runner waits for its         *)
(* commands, and the thread for the runner, without a limit.               *)
Hangs(c) ==
  /\ vm[c] \in {"start", "run"}
  /\ Lapse(sampleOf[c], "thread")
  /\ ThreadTo(c, "hung")
  /\ UNCHANGED <<clientVars, handlerVars, took, result, dataVars>>

Concludes(c, r) ==
  /\ ThreadTo(c, "record")
  /\ result' = [result EXCEPT ![c] = r]
  /\ UNCHANGED took

(* Mutant: the thread ends without recording the failure.                  *)
RunFailsSilently(c) ==
  /\ vm[c] \in {"start", "run"}
  /\ Lapse(sampleOf[c], "vm")
  /\ vm' = [vm EXCEPT ![c] = "none"]
  /\ took' = [took EXCEPT ![c] = "none"]
  /\ UNCHANGED <<clientVars, handlerVars, result, dataVars>>

(* The runner exits with an error.  Runs of one sample may share a         *)
(* sandbox, and spoil each other's.                                        *)
RunFails(c) ==
  /\ vm[c] \in {"start", "run"}
  /\ \/ Lapse(sampleOf[c], "vm")
     \/ "overlap" \in lapses[sampleOf[c]] /\ UNCHANGED lapses
  /\ Concludes(c, "failed")
  /\ UNCHANGED <<clientVars, handlerVars, dataVars>>

Truth(h) == IF h \in Bad THEN "threat" ELSE "clean"

(* runDynamicScan: a query that matches makes a threat, whatever its       *)
(* level.  A log that is not complete may lack what would have matched; a  *)
(* query that cannot be prepared is skipped, and one whose step fails      *)
(* counts as no match: all of these make a clean sample.  Only a log,      *)
(* queries or a configuration that cannot be opened make a failed scan;    *)
(* overlapping runs may keep one another's log from being opened.          *)
Judge(c) ==
  LET h == sampleOf[c] IN
  /\ vm[c] = "judge"
  /\ \/ Concludes(c, Truth(h)) /\ UNCHANGED lapses
     \/ log[h] = "part" /\ Concludes(c, "clean") /\ UNCHANGED lapses
     \/ Concludes(c, "clean") /\ Lapse(h, "data")
     \/ Concludes(c, "failed") /\ Lapse(h, "vm")
     \/ "overlap" \in lapses[h] /\ Concludes(c, "failed") /\ UNCHANGED lapses
  /\ UNCHANGED <<clientVars, handlerVars, dataVars>>

(* Scan::updateResult, whatever has become of the row.                     *)
Record(c) ==
  /\ vm[c] = "record"
  /\ ThreadTo(c, "none")
  /\ took' = [took EXCEPT ![c] = "none"]
  /\ result' = [result EXCEPT ![c] = "none"]
  /\ Update(sampleOf[c], result[c])
  /\ UNCHANGED <<clientVars, handlerVars, file, log>>

-----------------------------------------------------------------------------
(* RETRY_SCAN_IF_FAILED_SECONDS pass.                                      *)
Age(h) ==
  /\ rows[h] = "failed"
  /\ rows' = [rows EXCEPT ![h] = "stale"]
  /\ UNCHANGED <<clientVars, handlerVars, threadVars, file, log, lapses>>

(* The server dies with its handlers and threads; table and files stay.  A *)
(* runner it has started goes on by itself, and may meet the next run.     *)
Crash ==
  /\ "crash" \in Faults
  /\ \E c \in Calls : handler[c] # "none" \/ vm[c] # "none"
  /\ handler' = [c \in Calls |-> "none"]
  /\ answer' = [c \in Calls |-> "none"]
  /\ vm' = [c \in Calls |-> "none"]
  /\ took' = [c \in Calls |-> "none"]
  /\ result' = [c \in Calls |-> "none"]
  /\ lapses' = [h \in Samples |-> lapses[h] \cup {"crash", "overlap"}]
  /\ UNCHANGED <<clientVars, dataVars>>

ClientStep(c) == Request(c) \/ ReceiveStatus(c) \/ ReceiveStored(c)
ClientFault(c) == RequestRefused(c) \/ GiveUp(c) \/ Disconnected(c)

HandlerStep(c) ==
  \/ Lookup(c) \/ Create(c) \/ Reset(c)
  \/ Find(c) \/ OpenFile(c) \/ OpenFails(c) \/ WriteFile(c) \/ Mark(c) \/ Spawn(c)

ThreadStep(c) == StartRun(c) \/ FinishRun(c) \/ RunFails(c) \/ Judge(c) \/ Record(c)

Next ==
  \/ \E c \in Calls :
       \/ \E h \in Samples : Begin(c, h)
       \/ ClientStep(c) \/ ClientFault(c) \/ HandlerStep(c)
       \/ ThreadStep(c) \/ Hangs(c)
  \/ \E h \in Samples : Age(h)
  \/ Crash

Spec == Init /\ [][Next]_vars

(* A call, a handler and a thread that can go on, do.  Nothing makes a run *)
(* end that hangs: neither the server nor the runner limits its waits.     *)
FairSpec ==
  /\ Spec
  /\ \A c \in Calls :
       /\ WF_vars(ClientStep(c))
       /\ WF_vars(HandlerStep(c))
       /\ WF_vars(ThreadStep(c))

-----------------------------------------------------------------------------
(* A scan in progress has a thread that will record a result, or a handler *)
(* about to start one: several uploads of a sample, late retries and late  *)
(* results never leave it to nobody.  Only a failed statement, a thread    *)
(* that cannot be started, a run that hangs and a stop of the server do,   *)
(* for good (_uploadFile; a scan in progress is never retried).            *)
InProgressIsServed ==
  \A h \in Samples :
    rows[h] = "inProgress" /\ lapses[h] \cap {"db", "thread", "crash"} = {} =>
      \E c \in Calls :
        sampleOf[c] = h /\ (handler[c] = "spawn" \/ vm[c] \notin {"none", "hung"})

(* A run may have missed what is bad of a sample only where uploads        *)
(* overlapped, the sample was not stored whole, the monitor left its log   *)
(* incomplete, a query failed, or the server stopped.                      *)
Spoiled(h) == lapses[h] \cap {"overlap", "data", "crash"} # {}

Exact(h, v) ==
  /\ v = "threat" => h \in Bad
  /\ v = "clean" /\ h \in Bad => Spoiled(h)

(* Both the table and the calls hold exact results: none is a threat       *)
(* without cause, and one that misses a bad sample has a cause that        *)
(* Spoiled names.  No request that failed or came late, no failed          *)
(* statement, thread or run, and no run that hangs is taken for a verdict  *)
(* (runDynamicScan, updateResult, dynamicScan).                            *)
VerdictsAreExact ==
  /\ \A h \in Samples : Exact(h, rows[h])
  /\ \A c \in Calls : Exact(sampleOf[c], verdict[c])

(* What a call is told.                                                    *)
Told(c) ==
  CASE verdict[c] # "none" -> verdict[c]
    [] cpc[c] = "end" /\ verdict[c] = "none" -> "nothing"
    [] OTHER -> "open"

Service == INSTANCE VerdictService WITH
  asks <- sampleOf,
  reply <- [c \in Calls |-> Told(c)],
  troubled <- {h \in Samples : lapses[h] # {}},
  spoiled <- {h \in Samples : Spoiled(h)}

(* The table, the handlers and the threads keep what the endpoints rely    *)
(* on: a call is told once, a threat only of a bad sample and clean of a   *)
(* bad one only where its scan was spoiled, and it is told nothing only    *)
(* after something has gone wrong with its sample, whoever else scans it.  *)
TellsVerdicts == Service!ServiceSpec

(* A call gets its verdict unless something went wrong with its sample (a  *)
(* run that hangs is such a thing), however many calls share the scan.     *)
VerdictsArrive ==
  \A c \in Calls :
    cpc[c] = "ask" ~>
      verdict[c] # "none" \/ (cpc[c] # "off" /\ lapses[sampleOf[c]] # {})
=============================================================================
