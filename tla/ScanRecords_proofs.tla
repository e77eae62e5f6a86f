------------------------ MODULE ScanRecords_proofs ------------------------
(***************************************************************************)
(* Proofs about ScanRecords, for any calls, samples and failures.          *)
(***************************************************************************)
EXTENDS ScanRecords, TLAPS

(* What each point of a call implies for its handler and its thread.       *)
Receiving == {"find", "open"} \cup Uploading

Fit(c) ==
  /\ cpc[c] = "off" <=> sampleOf[c] = None
  /\ cpc[c] \in {"off", "ask", "send"} => handler[c] = "none" /\ answer[c] = "none"
  /\ answer[c] # "none" => handler[c] = "none"
  /\ cpc[c] = "asked" => handler[c] \in {"none", "lookup", "create", "reset"}
  /\ cpc[c] = "off" => verdict[c] = "none"
  /\ cpc[c] = "send" => c \notin uploaded
  /\ cpc[c] \notin {"sent", "end"} /\ c \notin uploaded => vm[c] = "none"
  /\ cpc[c] = "off" => c \notin uploaded
  /\ vm[c] # "none" => handler[c] \notin Receiving
  /\ IF vm[c] = "record" THEN result[c] \in Completed \cup {"failed"}
                          ELSE result[c] = "none"

Books == TypeOK /\ \A c \in Calls : Fit(c)

(* In every step of a call, a handler or a thread there is a sample.       *)
LEMMA HasSample ==
  ASSUME Books, NEW c \in Calls, cpc[c] # "off" \/ handler[c] # "none" \/ vm[c] # "none"
  PROVE  cpc[c] # "off" /\ sampleOf[c] \in Samples
BY DEF Books, TypeOK, Fit

LEMMA BooksInit == Init => Books
BY ScanAssumption DEF Init, Books, TypeOK, Fit, Statuses, Completed, Uploading, Receiving

LEMMA TypeClient ==
  ASSUME Books, NEW c \in Calls,
         (\E h \in Samples : Begin(c, h)) \/ ClientStep(c) \/ ClientFault(c)
  PROVE  TypeOK'
<1>0. TypeOK
  BY DEF Books
<1>1. CASE \E h \in Samples : Begin(c, h)
  BY <1>0, <1>1 DEF Begin, CallTo, TypeOK, clientVars, handlerVars, threadVars, dataVars
<1>2. CASE Request(c)
  BY <1>0, <1>2 DEF Request, CallTo, TypeOK, threadVars, dataVars
<1>3. CASE ReceiveStatus(c)
  BY <1>0, <1>3 DEF ReceiveStatus, CallTo, TypeOK, Completed, threadVars, dataVars
<1>4. CASE ReceiveStored(c)
  BY <1>0, <1>4 DEF ReceiveStored, CallTo, TypeOK, threadVars, dataVars
<1>5. CASE RequestRefused(c)
  BY <1>0, <1>5 DEF RequestRefused, CallTo, Lapse, TypeOK, handlerVars, threadVars, dataVars
<1>6. CASE GiveUp(c)
  BY <1>0, <1>6 DEF GiveUp, CallTo, Lapse, TypeOK, threadVars, dataVars
<1>7. CASE Disconnected(c)
  BY <1>0, <1>7 DEF Disconnected, CallTo, TypeOK, handlerVars, threadVars, dataVars
<1> QED
  BY <1>1, <1>2, <1>3, <1>4, <1>5, <1>6, <1>7 DEF ClientStep, ClientFault

(* What a statement and an answer may change.                              *)
LEMMA TypeUpdate ==
  ASSUME TypeOK, NEW h \in Samples, NEW status \in Statuses, Update(h, status)
  PROVE  /\ rows' \in [Samples -> Statuses \cup {"none"}]
         /\ lapses' \in [Samples -> SUBSET (Faults \cup {"overlap"})]
BY DEF Update, Lapse, TypeOK

LEMMA TypeFinds ==
  ASSUME TypeOK, NEW h \in Samples, NEW row, Finds(h, row)
  PROVE  lapses' \in [Samples -> SUBSET (Faults \cup {"overlap"})]
BY DEF Finds, Lapse, TypeOK

LEMMA TypeRespond ==
  ASSUME TypeOK, NEW c \in Calls,
         NEW a \in (Statuses \ {"stale"}) \cup {"none", "stored", "error"},
         Respond(c, a)
  PROVE  /\ handler' \in [Calls -> {"none", "lookup", "create", "reset", "find", "open"}
                                   \cup Uploading]
         /\ answer' \in [Calls -> (Statuses \ {"stale"}) \cup {"none", "stored", "error"}]
BY DEF Respond, HandlerTo, TypeOK

LEMMA TypeHandler ==
  ASSUME Books, NEW c \in Calls, HandlerStep(c)
  PROVE  TypeOK'
<1>0. TypeOK
  BY DEF Books
<1>a. sampleOf[c] \in Samples
  BY HasSample DEF HandlerStep, Lookup, Create, Reset, Find, OpenFile, OpenFails,
                   WriteFile, Mark, Spawn
<1>b. /\ {"pending", "inProgress"} \subseteq Statuses \ {"stale"}
      /\ {"write", "mark", "spawn"} \subseteq Uploading
  BY DEF Statuses, Uploading
<1>1. CASE Lookup(c)
  <2>1. PICK row \in Statuses \cup {"none"} :
          /\ Finds(sampleOf[c], row)
          /\ \/ row = "none" /\ HandlerTo(c, "create") /\ UNCHANGED answer
             \/ row = "stale" /\ HandlerTo(c, "reset") /\ UNCHANGED answer
             \/ row \notin {"none", "stale"} /\ Respond(c, row)
    BY <1>1 DEF Lookup
  <2>2. lapses' \in [Samples -> SUBSET (Faults \cup {"overlap"})]
    BY <1>0, <1>a, <2>1, TypeFinds
  <2>3. /\ handler' \in [Calls -> {"none", "lookup", "create", "reset", "find", "open"}
                                  \cup Uploading]
        /\ answer' \in [Calls -> (Statuses \ {"stale"}) \cup {"none", "stored", "error"}]
    BY <1>0, <2>1, TypeRespond DEF HandlerTo, TypeOK
  <2> QED
    BY <1>0, <1>1, <2>2, <2>3 DEF Lookup, TypeOK, clientVars, threadVars, dataVars
<1>2. CASE Create(c)
  BY <1>0, <1>2, <1>a, <1>b, TypeUpdate, TypeRespond
     DEF Create, TypeOK, clientVars, threadVars
<1>3. CASE Reset(c)
  BY <1>0, <1>3, <1>a, <1>b, TypeUpdate, TypeRespond
     DEF Reset, TypeOK, clientVars, threadVars
<1>4. CASE Find(c)
  <2>1. PICK row \in Statuses \cup {"none"} :
          /\ Finds(sampleOf[c], row)
          /\ \/ row = "none" /\ Respond(c, "error")
             \/ row # "none" /\ HandlerTo(c, "open") /\ UNCHANGED answer
    BY <1>4 DEF Find
  <2>2. lapses' \in [Samples -> SUBSET (Faults \cup {"overlap"})]
    BY <1>0, <1>a, <2>1, TypeFinds
  <2>3. /\ handler' \in [Calls -> {"none", "lookup", "create", "reset", "find", "open"}
                                  \cup Uploading]
        /\ answer' \in [Calls -> (Statuses \ {"stale"}) \cup {"none", "stored", "error"}]
    BY <1>0, <2>1, TypeRespond DEF HandlerTo, TypeOK
  <2> QED
    BY <1>0, <1>4, <2>2, <2>3 DEF Find, TypeOK, clientVars, threadVars, dataVars
<1>5. CASE OpenFile(c)
  BY <1>0, <1>5, <1>b DEF OpenFile, HandlerTo, TypeOK, clientVars, threadVars
<1>6. CASE OpenFails(c)
  BY <1>0, <1>6, <1>a, TypeRespond DEF OpenFails, Lapse, TypeOK, clientVars, threadVars, dataVars
<1>7. CASE WriteFile(c)
  BY <1>0, <1>7, <1>b DEF WriteFile, HandlerTo, Lapse, TypeOK, clientVars, threadVars
<1>8. CASE Mark(c)
  BY <1>0, <1>8, <1>a, <1>b, TypeUpdate
     DEF Mark, HandlerTo, TypeOK, clientVars, threadVars
<1>9. CASE Spawn(c)
  BY <1>0, <1>9, TypeRespond DEF Spawn, Lapse, TypeOK, clientVars, dataVars
<1> QED
  BY <1>1, <1>2, <1>3, <1>4, <1>5, <1>6, <1>7, <1>8, <1>9 DEF HandlerStep

(* What may become of a thread, but for a stop of the server.              *)
ThreadMove(c) == ThreadStep(c) \/ Hangs(c)

LEMMA TypeThread ==
  ASSUME Books, NEW c \in Calls, ThreadMove(c)
  PROVE  TypeOK'
<1>0. TypeOK /\ Fit(c)
  BY DEF Books
<1>a. sampleOf[c] \in Samples
  BY HasSample DEF ThreadMove, ThreadStep, StartRun, FinishRun, Hangs, RunFails, Judge,
                   Record
<1>1. CASE StartRun(c)
  BY <1>0, <1>1, <1>a DEF StartRun, ThreadTo, TypeOK, clientVars, handlerVars
<1>2. CASE FinishRun(c)
  BY <1>0, <1>2, <1>a DEF FinishRun, ThreadTo, Lapse, TypeOK, clientVars, handlerVars
<1>3. CASE RunFails(c)
  BY <1>0, <1>3 DEF RunFails, Concludes, ThreadTo, Lapse, TypeOK, clientVars, handlerVars,
                    dataVars
<1>4. CASE Judge(c)
  BY <1>0, <1>4 DEF Judge, Concludes, Truth, ThreadTo, Lapse, Completed, TypeOK,
                    clientVars, handlerVars, dataVars
<1>5. CASE Record(c)
  <2>1. result[c] \in Statuses
    BY <1>0, <1>5 DEF Record, Fit, Statuses
  <2> QED
    BY <1>0, <1>5, <1>a, <2>1, TypeUpdate
       DEF Record, ThreadTo, TypeOK, clientVars, handlerVars
<1>6. CASE Hangs(c)
  BY <1>0, <1>6 DEF Hangs, ThreadTo, Lapse, TypeOK, clientVars, handlerVars, dataVars
<1> QED
  BY <1>1, <1>2, <1>3, <1>4, <1>5, <1>6 DEF ThreadMove, ThreadStep

LEMMA TypeWorld ==
  ASSUME Books, (\E h \in Samples : Age(h)) \/ Crash \/ UNCHANGED vars
  PROVE  TypeOK'
<1>0. TypeOK
  BY DEF Books
<1>1. CASE \E h \in Samples : Age(h)
  BY <1>0, <1>1 DEF Age, TypeOK, Statuses, clientVars, handlerVars, threadVars
<1>2. CASE Crash
  BY <1>0, <1>2 DEF Crash, TypeOK, clientVars, dataVars
<1>3. CASE UNCHANGED vars
  BY <1>0, <1>3 DEF TypeOK, vars, clientVars, handlerVars, threadVars, dataVars
<1> QED
  BY <1>1, <1>2, <1>3

LEMMA TypeStep == Books /\ [Next]_vars => TypeOK'
BY TypeClient, TypeHandler, TypeThread, TypeWorld DEF Next, ThreadMove

-----------------------------------------------------------------------------
(* What a step leaves alone of the calls it is not about.                  *)

Others(c) ==
  \A d \in Calls \ {c} :
    /\ sampleOf'[d] = sampleOf[d] /\ cpc'[d] = cpc[d]
    /\ d \in uploaded' <=> d \in uploaded
    /\ handler'[d] = handler[d] /\ answer'[d] = answer[d] /\ verdict'[d] = verdict[d]
    /\ vm'[d] = vm[d] /\ took'[d] = took[d] /\ result'[d] = result[d]

LEMMA ClientFrame ==
  ASSUME TypeOK, NEW c \in Calls,
         (\E h \in Samples : Begin(c, h)) \/ ClientStep(c) \/ ClientFault(c)
  PROVE  Others(c) /\ UNCHANGED <<threadVars, dataVars>>
BY DEF ClientStep, ClientFault, Begin, Request, ReceiveStatus, ReceiveStored,
       RequestRefused, GiveUp, Disconnected, CallTo, Others, TypeOK,
       clientVars, handlerVars, threadVars, dataVars

LEMMA HandlerFrame ==
  ASSUME TypeOK, NEW c \in Calls, HandlerStep(c)
  PROVE  Others(c) /\ UNCHANGED <<clientVars, took, result, log>>
<1>1. CASE Lookup(c) \/ Create(c) \/ Reset(c)
  BY <1>1 DEF Lookup, Create, Reset, HandlerTo, Respond, Others, TypeOK,
              clientVars, handlerVars, threadVars, dataVars
<1>2. CASE Find(c) \/ OpenFile(c) \/ OpenFails(c)
  BY <1>2 DEF Find, OpenFile, OpenFails, HandlerTo, Respond, Others, TypeOK,
              clientVars, handlerVars, threadVars, dataVars
<1>3. CASE WriteFile(c) \/ Mark(c) \/ Spawn(c)
  BY <1>3 DEF WriteFile, Mark, Spawn, HandlerTo, Respond, Others, TypeOK,
              clientVars, handlerVars, threadVars, dataVars
<1> QED
  BY <1>1, <1>2, <1>3 DEF HandlerStep

LEMMA ThreadFrame ==
  ASSUME TypeOK, NEW c \in Calls, ThreadMove(c)
  PROVE  Others(c) /\ UNCHANGED <<clientVars, handlerVars, file>>
BY DEF ThreadMove, ThreadStep, StartRun, FinishRun, Hangs, RunFails, Judge, Record,
       ThreadTo, Concludes, Others, TypeOK, clientVars, handlerVars, threadVars, dataVars

LEMMA FitOthers ==
  ASSUME Books, NEW c \in Calls, Others(c), Fit(c)'
  PROVE  \A d \in Calls : Fit(d)'
BY DEF Books, Others, Fit

LEMMA FitClient ==
  ASSUME Books, NEW c \in Calls,
         (\E h \in Samples : Begin(c, h)) \/ ClientStep(c) \/ ClientFault(c)
  PROVE  Fit(c)'
<1>0. TypeOK /\ Fit(c)
  BY DEF Books
<1>1. CASE \E h \in Samples : Begin(c, h)
  BY <1>0, <1>1, ScanAssumption
     DEF Begin, CallTo, TypeOK, Fit, clientVars, handlerVars, threadVars, dataVars
<1>2. CASE Request(c)
  BY <1>0, <1>2 DEF Request, CallTo, TypeOK, Fit, Receiving, Uploading, threadVars, dataVars
<1>3. CASE ReceiveStatus(c)
  BY <1>0, <1>3 DEF ReceiveStatus, CallTo, TypeOK, Fit, threadVars, dataVars
<1>4. CASE ReceiveStored(c)
  BY <1>0, <1>4 DEF ReceiveStored, CallTo, TypeOK, Fit, threadVars, dataVars
<1>5. CASE RequestRefused(c)
  BY <1>0, <1>5 DEF RequestRefused, CallTo, TypeOK, Fit, handlerVars, threadVars, dataVars
<1>6. CASE GiveUp(c)
  BY <1>0, <1>6 DEF GiveUp, CallTo, TypeOK, Fit, threadVars, dataVars
<1>7. CASE Disconnected(c)
  BY <1>0, <1>7 DEF Disconnected, CallTo, TypeOK, Fit, handlerVars, threadVars, dataVars
<1> QED
  BY <1>1, <1>2, <1>3, <1>4, <1>5, <1>6, <1>7 DEF ClientStep, ClientFault

LEMMA FitHandler ==
  ASSUME Books, NEW c \in Calls, HandlerStep(c)
  PROVE  Fit(c)'
<1>0. TypeOK /\ Fit(c)
  BY DEF Books
<1>a. cpc[c] \in {"asked", "sent", "end"} /\ answer[c] = "none"
  BY <1>0 DEF HandlerStep, Lookup, Create, Reset, Find, OpenFile, OpenFails, WriteFile,
              Mark, Spawn, Fit, TypeOK
<1>1. CASE Lookup(c)
  BY <1>0, <1>1, <1>a DEF Lookup, HandlerTo, Respond, Fit, TypeOK, Receiving, Uploading,
                          clientVars, threadVars, dataVars
<1>2. CASE Create(c) \/ Reset(c)
  BY <1>0, <1>2, <1>a DEF Create, Reset, HandlerTo, Respond, Fit, TypeOK, Receiving,
                          Uploading, clientVars, threadVars
<1>3. CASE Find(c) \/ OpenFile(c) \/ OpenFails(c)
  BY <1>0, <1>3, <1>a DEF Find, OpenFile, OpenFails, HandlerTo, Respond, Fit, TypeOK,
                          Receiving, Uploading, clientVars, threadVars, dataVars
<1>4. CASE WriteFile(c) \/ Mark(c)
  BY <1>0, <1>4, <1>a DEF WriteFile, Mark, HandlerTo, Fit, TypeOK, Receiving, Uploading,
                          clientVars, threadVars
<1>5. CASE Spawn(c)
  BY <1>0, <1>5, <1>a DEF Spawn, HandlerTo, Respond, Fit, TypeOK, Receiving, Uploading,
                          clientVars, dataVars
<1> QED
  BY <1>1, <1>2, <1>3, <1>4, <1>5 DEF HandlerStep

LEMMA FitThread ==
  ASSUME Books, NEW c \in Calls, ThreadMove(c)
  PROVE  Fit(c)'
<1>0. TypeOK /\ Fit(c)
  BY DEF Books
<1>1. CASE StartRun(c) \/ FinishRun(c) \/ Hangs(c)
  BY <1>0, <1>1 DEF StartRun, FinishRun, Hangs, ThreadTo, Fit, TypeOK, clientVars, handlerVars
<1>2. CASE RunFails(c)
  BY <1>0, <1>2 DEF RunFails, Concludes, ThreadTo, Fit, TypeOK, clientVars, handlerVars
<1>3. CASE Judge(c)
  BY <1>0, <1>3 DEF Judge, Concludes, ThreadTo, Truth, Completed, Fit, TypeOK,
                    clientVars, handlerVars
<1>4. CASE Record(c)
  BY <1>0, <1>4 DEF Record, ThreadTo, Fit, TypeOK, clientVars, handlerVars
<1> QED
  BY <1>1, <1>2, <1>3, <1>4 DEF ThreadMove, ThreadStep

LEMMA BooksStep == Books /\ [Next]_vars => Books'
<1> SUFFICES ASSUME Books, [Next]_vars PROVE Books'
  OBVIOUS
<1>0. TypeOK' /\ TypeOK
  BY TypeStep DEF Books
<1>1. ASSUME NEW c \in Calls, Others(c), Fit(c)' PROVE Books'
  BY <1>0, <1>1, FitOthers DEF Books
<1>2. CASE \E c \in Calls :
             (\E h \in Samples : Begin(c, h)) \/ ClientStep(c) \/ ClientFault(c)
  BY <1>0, <1>1, <1>2, ClientFrame, FitClient
<1>3. CASE \E c \in Calls : HandlerStep(c)
  BY <1>0, <1>1, <1>3, HandlerFrame, FitHandler
<1>4. CASE \E c \in Calls : ThreadMove(c)
  BY <1>0, <1>1, <1>4, ThreadFrame, FitThread
<1>5. CASE (\E h \in Samples : Age(h)) \/ UNCHANGED vars
  BY <1>0, <1>5 DEF Books, Fit, Age, vars, clientVars, handlerVars, threadVars
<1>6. CASE Crash
  BY <1>0, <1>6 DEF Books, Fit, Crash, clientVars, Receiving, Uploading
<1> QED
  BY <1>2, <1>3, <1>4, <1>5, <1>6 DEF Next, ThreadMove

THEOREM BooksKept == Spec => []Books
BY BooksInit, BooksStep, PTL DEF Spec

(* Type correctness: wherever the code uses a row, a file or a result, the *)
(* call it belongs to has a sample.                                        *)
THEOREM ScansTyped == Spec => []TypeOK
<1>1. Books => TypeOK
  BY DEF Books
<1> QED
  BY <1>1, BooksKept, PTL

-----------------------------------------------------------------------------
(* What has gone wrong is not forgotten.                                   *)

LEMMA LapsesGrow ==
  ASSUME Books, [Next]_vars
  PROVE  \A h \in Samples : lapses[h] \subseteq lapses'[h]
<1>0. TypeOK
  BY DEF Books
<1>1. ASSUME NEW c \in Calls, ClientFault(c) \/ ClientStep(c) \/ \E h \in Samples : Begin(c, h)
      PROVE  \A h \in Samples : lapses[h] \subseteq lapses'[h]
  BY <1>0, <1>1 DEF ClientStep, ClientFault, Begin, Request, ReceiveStatus, ReceiveStored,
                    RequestRefused, GiveUp, Disconnected, Lapse, TypeOK
<1>2. ASSUME NEW c \in Calls, HandlerStep(c)
      PROVE  \A h \in Samples : lapses[h] \subseteq lapses'[h]
  BY <1>0, <1>2 DEF HandlerStep, Lookup, Create, Reset, Find, OpenFile, OpenFails, WriteFile,
                    Mark, Spawn, Update, Finds, Lapse, TypeOK, dataVars
<1>3. ASSUME NEW c \in Calls, ThreadMove(c)
      PROVE  \A h \in Samples : lapses[h] \subseteq lapses'[h]
  BY <1>0, <1>3 DEF ThreadMove, ThreadStep, StartRun, FinishRun, Hangs, RunFails, Judge,
                    Record, Update, Lapse, TypeOK
<1>4. CASE (\E h \in Samples : Age(h)) \/ Crash \/ UNCHANGED vars
  BY <1>0, <1>4 DEF Age, Crash, vars, TypeOK
<1> QED
  BY <1>1, <1>2, <1>3, <1>4 DEF Next, ThreadMove

Serves(c, h) == sampleOf[c] = h /\ (handler[c] = "spawn" \/ vm[c] \notin {"none", "hung"})
Dropped(h) == lapses[h] \cap {"db", "thread", "crash"} # {}

(* A step that keeps those who serve and makes no row in progress keeps    *)
(* every row in progress served.                                           *)
LEMMA ServedStill ==
  ASSUME Books, [Next]_vars, InProgressIsServed,
         \A h \in Samples : rows'[h] = "inProgress" => rows[h] = "inProgress",
         \A h \in Samples, d \in Calls :
           rows'[h] = "inProgress" /\ Serves(d, h) => Serves(d, h)' \/ Dropped(h)'
  PROVE  InProgressIsServed'
BY LapsesGrow DEF InProgressIsServed, Serves, Dropped

LEMMA ServedClient ==
  ASSUME Books, InProgressIsServed, NEW c \in Calls, [Next]_vars,
         (\E h \in Samples : Begin(c, h)) \/ ClientStep(c) \/ ClientFault(c)
  PROVE  InProgressIsServed'
<1>0. TypeOK /\ Fit(c)
  BY DEF Books
<1>1. Others(c) /\ UNCHANGED <<rows, vm>>
  BY <1>0, ClientFrame DEF dataVars, threadVars
<1>2. sampleOf[c] # None => sampleOf'[c] = sampleOf[c] /\ (handler[c] = "spawn" => handler'[c] = "spawn")
  BY <1>0 DEF ClientStep, ClientFault, Begin, Request, ReceiveStatus, ReceiveStored,
     RequestRefused, GiveUp, Disconnected, CallTo, Fit, TypeOK, clientVars, handlerVars
<1>3. \A h \in Samples, d \in Calls : Serves(d, h) => Serves(d, h)'
  BY <1>1, <1>2, ScanAssumption DEF Serves, Others
<1> QED
  BY <1>1, <1>3, ServedStill

LEMMA ServedHandler ==
  ASSUME Books, InProgressIsServed, NEW c \in Calls, [Next]_vars, HandlerStep(c)
  PROVE  InProgressIsServed'
<1>0. TypeOK /\ Fit(c)
  BY DEF Books
<1>1. Others(c) /\ UNCHANGED sampleOf
  BY <1>0, HandlerFrame DEF clientVars
<1>a. sampleOf[c] \in Samples
  BY HasSample DEF HandlerStep, Lookup, Create, Reset, Find, OpenFile, OpenFails,
                   WriteFile, Mark, Spawn
<1>2. CASE Lookup(c) \/ Find(c) \/ OpenFile(c) \/ OpenFails(c) \/ WriteFile(c)
  <2>1. rows' = rows /\ vm' = vm /\ handler[c] # "spawn"
    BY <1>2 DEF Lookup, Find, OpenFile, OpenFails, WriteFile, threadVars, dataVars
  <2>2. \A h \in Samples, d \in Calls : Serves(d, h) => Serves(d, h)'
    BY <1>1, <2>1 DEF Serves, Others
  <2> QED
    BY <2>1, <2>2, ServedStill
<1>3. CASE Create(c) \/ Reset(c)
  <2>1. /\ vm' = vm /\ handler[c] # "spawn"
        /\ \A h \in Samples : rows'[h] = "inProgress" => rows[h] = "inProgress"
    BY <1>0, <1>3, <1>a DEF Create, Reset, Update, TypeOK, threadVars
  <2>2. \A h \in Samples, d \in Calls : Serves(d, h) => Serves(d, h)'
    BY <1>1, <2>1 DEF Serves, Others
  <2> QED
    BY <2>1, <2>2, ServedStill
<1>4. CASE Mark(c)
  <2>1. /\ vm' = vm /\ handler'[c] = "spawn"
        /\ \A h \in Samples : h # sampleOf[c] => rows'[h] = rows[h]
    BY <1>0, <1>4 DEF Mark, HandlerTo, Update, TypeOK, threadVars
  <2>2. \A h \in Samples, d \in Calls : Serves(d, h) => Serves(d, h)'
    BY <1>1, <2>1 DEF Serves, Others
  <2>3. Serves(c, sampleOf[c])'
    BY <1>1, <2>1 DEF Serves
  <2> QED
    BY <1>1, <2>1, <2>2, <2>3, LapsesGrow DEF InProgressIsServed, Serves
<1>5. CASE Spawn(c)
  <2>1. rows' = rows /\ (vm'[c] = "start" \/ Dropped(sampleOf[c])')
    <3>1. CASE vm' = [vm EXCEPT ![c] = "start"]
      BY <1>0, <1>5, <3>1 DEF Spawn, TypeOK, dataVars
    <3>2. CASE Lapse(sampleOf[c], "thread")
      BY <1>0, <1>1, <1>5, <1>a, <3>2 DEF Spawn, Lapse, Dropped, TypeOK, dataVars
    <3> QED
      BY <1>5, <3>1, <3>2 DEF Spawn
  <2>2. vm[c] = "none"
    BY <1>0, <1>5 DEF Spawn, Fit, Receiving, Uploading
  <2>3. \A h \in Samples, d \in Calls : Serves(d, h) => Serves(d, h)' \/ Dropped(h)'
    BY <1>1, <2>1, <2>2 DEF Serves, Others
  <2> QED
    BY <2>1, <2>3, ServedStill
<1> QED
  BY <1>2, <1>3, <1>4, <1>5 DEF HandlerStep

LEMMA ServedThread ==
  ASSUME Books, InProgressIsServed, NEW c \in Calls, [Next]_vars, ThreadMove(c)
  PROVE  InProgressIsServed'
<1>0. TypeOK /\ Fit(c)
  BY DEF Books
<1>1. Others(c) /\ UNCHANGED <<sampleOf, handler>>
  BY <1>0, ThreadFrame DEF clientVars, handlerVars
<1>2. CASE StartRun(c) \/ FinishRun(c) \/ RunFails(c) \/ Judge(c)
  <2>1. rows' = rows /\ vm'[c] \notin {"none", "hung"}
    BY <1>0, <1>2 DEF StartRun, FinishRun, Hangs, RunFails, Judge, Concludes, ThreadTo, TypeOK,
                      dataVars
  <2>2. \A h \in Samples, d \in Calls : Serves(d, h) => Serves(d, h)'
    BY <1>1, <2>1 DEF Serves, Others
  <2> QED
    BY <2>1, <2>2, ServedStill
<1>3. CASE Record(c)
  <2>a. sampleOf[c] \in Samples
    BY <1>3, HasSample DEF Record
  <2>1. \A h \in Samples :
          /\ rows'[h] = "inProgress" => rows[h] = "inProgress"
          /\ h = sampleOf[c] /\ rows'[h] = "inProgress" => Dropped(h)'
    <3>1. CASE rows' = [rows EXCEPT ![sampleOf[c]] = result[c]]
      BY <1>0, <1>3, <2>a, <3>1 DEF Record, Fit, TypeOK, Completed
    <3>2. CASE Lapse(sampleOf[c], "db") /\ UNCHANGED rows
      <4>1. lapses' = [lapses EXCEPT ![sampleOf[c]] = lapses[sampleOf[c]] \cup {"db"}]
        BY <3>2 DEF Lapse
      <4>2. lapses'[sampleOf[c]] = lapses[sampleOf[c]] \cup {"db"}
        BY <1>0, <2>a, <4>1 DEF TypeOK
      <4> QED
        BY <3>2, <4>2 DEF Dropped
    <3> QED
      BY <1>3, <3>1, <3>2 DEF Record, Update
  <2>2. \A h \in Samples, d \in Calls :
          rows'[h] = "inProgress" /\ Serves(d, h) => Serves(d, h)' \/ Dropped(h)'
    BY <1>1, <2>1 DEF Serves, Others
  <2> QED
    BY <2>1, <2>2, ServedStill
<1>4. CASE Hangs(c)
  <2>1. rows' = rows /\ Dropped(sampleOf[c])'
    BY <1>0, <1>4, HasSample DEF Hangs, Lapse, Dropped, TypeOK, dataVars, clientVars
  <2>2. \A h \in Samples, d \in Calls : Serves(d, h) => Serves(d, h)' \/ Dropped(h)'
    BY <1>1, <2>1 DEF Serves, Others
  <2> QED
    BY <2>1, <2>2, ServedStill
<1> QED
  BY <1>2, <1>3, <1>4 DEF ThreadMove, ThreadStep

LEMMA ServedWorld ==
  ASSUME Books, InProgressIsServed, (\E h \in Samples : Age(h)) \/ Crash \/ UNCHANGED vars
  PROVE  InProgressIsServed'
<1>0. TypeOK
  BY DEF Books
<1>1. CASE \E h \in Samples : Age(h)
  BY <1>0, <1>1 DEF Age, InProgressIsServed, TypeOK, clientVars, handlerVars, threadVars
<1>2. CASE Crash
  BY <1>0, <1>2 DEF Crash, InProgressIsServed, TypeOK
<1>3. CASE UNCHANGED vars
  BY <1>3 DEF InProgressIsServed, vars, clientVars, handlerVars, threadVars, dataVars
<1> QED
  BY <1>1, <1>2, <1>3

(* A scan in progress has a thread or is about to get one, but for a       *)
(* failed statement, a thread that cannot start or waits for a run that    *)
(* hangs, or a stop of the server.                                         *)
THEOREM ScansInProgressServed == Spec => []InProgressIsServed
<1>1. Init => InProgressIsServed
  BY DEF Init, InProgressIsServed
<1>2. Books /\ InProgressIsServed /\ [Next]_vars => InProgressIsServed'
  BY ServedClient, ServedHandler, ServedThread, ServedWorld DEF Next, ThreadMove
<1> QED
  BY <1>1, <1>2, BooksKept, PTL DEF Spec

-----------------------------------------------------------------------------
(* Where nothing has spoiled a sample's scans, its uploads and runs follow *)
(* one another, and each has all of the sample and of its log.             *)

Acts(c) == handler[c] \in Uploading \/ vm[c] # "none"

Alone ==
  \A c, d \in Calls :
    c # d /\ Acts(c) /\ Acts(d) /\ sampleOf[c] = sampleOf[d] => Spoiled(sampleOf[c])

WholeFor(c) ==
  LET h == sampleOf[c] IN
  ~Spoiled(h) =>
    /\ handler[c] \in {"mark", "spawn"} \/ vm[c] = "start" => file[h] = "whole"
    /\ vm[c] = "run" => took[c] = "whole"
    /\ vm[c] = "judge" => log[h] = "whole"

Orderly == Alone /\ \A c \in Calls : WholeFor(c)

LEMMA ActsHasSample ==
  ASSUME Books, NEW c \in Calls, Acts(c)
  PROVE  sampleOf[c] \in Samples
BY HasSample DEF Acts, Uploading

(* Only the opening of a file makes a call act.                            *)
LEMMA AloneStill ==
  ASSUME Books, [Next]_vars, Alone, NEW c \in Calls, Others(c),
         Acts(c)' => Acts(c) /\ sampleOf'[c] = sampleOf[c]
  PROVE  Alone'
<1>1. \A d \in Calls : Acts(d)' => /\ Acts(d) /\ sampleOf'[d] = sampleOf[d]
                                   /\ sampleOf[d] \in Samples
  BY ActsHasSample DEF Others, Acts
<1> QED
  BY <1>1, LapsesGrow DEF Alone, Spoiled

LEMMA AloneStep == Books /\ [Next]_vars /\ Alone => Alone'
<1> SUFFICES ASSUME Books, [Next]_vars, Alone PROVE Alone'
  OBVIOUS
<1>0. TypeOK
  BY DEF Books
<1>1. ASSUME NEW c \in Calls,
             (\E h \in Samples : Begin(c, h)) \/ ClientStep(c) \/ ClientFault(c)
      PROVE  Alone'
  <2>1. Others(c) /\ vm' = vm
    BY <1>0, <1>1, ClientFrame DEF threadVars
  <2>2. handler'[c] \in Uploading => handler'[c] = handler[c]
    BY <1>0, <1>1 DEF ClientStep, ClientFault, Begin, Request, ReceiveStatus, ReceiveStored,
       RequestRefused, GiveUp, Disconnected, Uploading, TypeOK, handlerVars
  <2>3. sampleOf[c] # None => sampleOf'[c] = sampleOf[c]
    BY <1>0, <1>1 DEF Books, Fit, ClientStep, ClientFault, Begin, Request, ReceiveStatus,
       ReceiveStored, RequestRefused, GiveUp, Disconnected, TypeOK, clientVars
  <2>4. Acts(c)' => Acts(c) /\ sampleOf'[c] = sampleOf[c]
    BY <2>1, <2>2, <2>3, ActsHasSample, ScanAssumption DEF Acts
  <2> QED
    BY <2>1, <2>4, AloneStill
<1>2. ASSUME NEW c \in Calls, HandlerStep(c) PROVE Alone'
  <2>1. Others(c) /\ UNCHANGED sampleOf
    BY <1>0, <1>2, HandlerFrame DEF clientVars
  <2>2. CASE OpenFile(c)
    <3>a. sampleOf[c] \in Samples
      BY <2>2, HasSample DEF OpenFile
    <3>1. vm' = vm /\ (Busy(c) => Spoiled(sampleOf[c])')
      BY <1>0, <2>1, <2>2, <3>a DEF OpenFile, Spoiled, TypeOK, threadVars
    <3>2. ASSUME NEW d \in Calls \ {c}, Acts(d)', sampleOf'[d] = sampleOf'[c]
          PROVE  Spoiled(sampleOf[c])'
      BY <2>1, <3>1, <3>2 DEF Busy, Others, Acts
    <3>3. ASSUME NEW d \in Calls \ {c}, NEW e \in Calls \ {c}, d # e,
                 Acts(d)', Acts(e)', sampleOf'[d] = sampleOf'[e]
          PROVE  Spoiled(sampleOf[d])'
      BY <2>1, <3>1, <3>3, LapsesGrow, ActsHasSample DEF Alone, Others, Acts, Spoiled
    <3> QED
      BY <2>1, <3>2, <3>3 DEF Alone
  <2>3. CASE ~OpenFile(c)
    <3>1. Acts(c)' => Acts(c)
      BY <1>0, <1>2, <2>3
         DEF HandlerStep, Lookup, Create, Reset, Find, OpenFails, WriteFile, Mark, Spawn,
             HandlerTo, Respond, Acts, Uploading, TypeOK, threadVars
    <3> QED
      BY <2>1, <3>1, AloneStill
  <2> QED
    BY <2>2, <2>3
<1>3. ASSUME NEW c \in Calls, ThreadMove(c) PROVE Alone'
  <2>1. Others(c) /\ UNCHANGED <<sampleOf, handler>> /\ vm[c] # "none"
    BY <1>0, <1>3, ThreadFrame
       DEF clientVars, handlerVars, ThreadMove, ThreadStep, StartRun, FinishRun, Hangs,
           RunFails, Judge, Record
  <2> QED
    BY <2>1, AloneStill DEF Acts
<1>4. CASE (\E h \in Samples : Age(h)) \/ UNCHANGED vars
  BY <1>4 DEF Age, Alone, Acts, Spoiled, vars, clientVars, handlerVars, threadVars
<1>5. CASE Crash
  BY <1>0, <1>5 DEF Crash, Alone, Acts, Uploading
<1> QED
  BY <1>1, <1>2, <1>3, <1>4, <1>5 DEF Next, ThreadMove

(* A step spoils what it overwrites for the others, and nothing else.      *)
LEMMA WholeOthers ==
  ASSUME Books, [Next]_vars, Orderly, NEW c \in Calls, Others(c), Alone',
         \A h \in Samples :
           \/ file'[h] = file[h] /\ log'[h] = log[h]
           \/ h = sampleOf[c] /\ Acts(c)' /\ sampleOf'[c] = sampleOf[c]
  PROVE  \A d \in Calls \ {c} : WholeFor(d)'
<1> TAKE d \in Calls \ {c}
<1>1. sampleOf'[d] = sampleOf[d] /\ (Acts(d)' <=> Acts(d))
  BY DEF Others, Acts
<1>2. CASE ~Acts(d)'
  BY <1>2 DEF WholeFor, Acts, Uploading
<1>3. CASE Spoiled(sampleOf[d])'
  BY <1>3 DEF WholeFor
<1>4. CASE Acts(d)' /\ ~Spoiled(sampleOf[d])'
  <2>1. sampleOf[d] \in Samples /\ ~Spoiled(sampleOf[d])
    BY <1>1, <1>4, ActsHasSample, LapsesGrow DEF Spoiled
  <2>2. file'[sampleOf[d]] = file[sampleOf[d]] /\ log'[sampleOf[d]] = log[sampleOf[d]]
    BY <1>1, <1>4, <2>1 DEF Alone
  <2> QED
    BY <1>1, <2>1, <2>2 DEF Orderly, WholeFor, Others
<1> QED
  BY <1>2, <1>3, <1>4

LEMMA OrderlyStep == Books /\ [Next]_vars /\ Orderly => Orderly'
<1> SUFFICES ASSUME Books, [Next]_vars, Orderly PROVE Orderly'
  OBVIOUS
<1>0. TypeOK /\ Alone'
  BY AloneStep DEF Books, Orderly
<1>1. ASSUME NEW c \in Calls,
             (\E h \in Samples : Begin(c, h)) \/ ClientStep(c) \/ ClientFault(c)
      PROVE  Orderly'
  <2>1. Others(c) /\ UNCHANGED <<vm, took, file, log>>
    BY <1>0, <1>1, ClientFrame DEF threadVars, dataVars
  <2>2. /\ handler'[c] \in Uploading => handler'[c] = handler[c]
        /\ sampleOf[c] # None => sampleOf'[c] = sampleOf[c]
    BY <1>0, <1>1 DEF Books, Fit, ClientStep, ClientFault, Begin, Request, ReceiveStatus,
       ReceiveStored, RequestRefused, GiveUp, Disconnected, Uploading, TypeOK, clientVars,
       handlerVars
  <2>3. Acts(c)' => Acts(c) /\ sampleOf'[c] = sampleOf[c] /\ sampleOf[c] \in Samples
    BY <2>1, <2>2, ActsHasSample, ScanAssumption DEF Acts
  <2>4. WholeFor(c)'
    BY <2>1, <2>2, <2>3, LapsesGrow DEF Orderly, WholeFor, Acts, Spoiled, Uploading
  <2> QED
    BY <1>0, <2>1, <2>4, WholeOthers DEF Orderly
<1>2. ASSUME NEW c \in Calls, HandlerStep(c) PROVE Orderly'
  <2>1. Others(c) /\ UNCHANGED <<sampleOf, took, log>>
    BY <1>0, <1>2, HandlerFrame DEF clientVars
  <2>a. sampleOf[c] \in Samples
    BY <1>2, HasSample DEF HandlerStep, Lookup, Create, Reset, Find, OpenFile, OpenFails,
                           WriteFile, Mark, Spawn
  <2>b. vm[c] # "none" => handler[c] \notin Receiving
    BY DEF Books, Fit
  <2>2. CASE Lookup(c) \/ Create(c) \/ Reset(c) \/ Find(c) \/ OpenFails(c)
    <3>1. UNCHANGED <<file, vm>> /\ handler'[c] \notin Uploading
      BY <1>0, <2>2 DEF Lookup, Create, Reset, Find, OpenFails, HandlerTo, Respond,
                        Uploading, TypeOK, threadVars, dataVars
    <3>2. WholeFor(c)'
      BY <2>1, <2>a, <3>1, LapsesGrow DEF Orderly, WholeFor, Spoiled, Uploading
    <3> QED
      BY <1>0, <2>1, <3>1, <3>2, WholeOthers DEF Orderly
  <2>3. CASE OpenFile(c)
    <3>1. /\ handler'[c] = "write" /\ vm' = vm /\ vm[c] = "none"
          /\ \A h \in Samples : h # sampleOf[c] => file'[h] = file[h]
      BY <1>0, <2>3, <2>b DEF OpenFile, HandlerTo, Receiving, TypeOK, threadVars
    <3>2. WholeFor(c)' /\ Acts(c)'
      BY <3>1 DEF WholeFor, Acts, Uploading
    <3> QED
      BY <1>0, <2>1, <3>1, <3>2, WholeOthers DEF Orderly
  <2>4. CASE WriteFile(c)
    <3>1. /\ handler'[c] = "mark" /\ vm' = vm /\ vm[c] = "none"
          /\ \A h \in Samples : h # sampleOf[c] => file'[h] = file[h]
      BY <1>0, <2>4, <2>b DEF WriteFile, HandlerTo, Receiving, Uploading, TypeOK, threadVars
    <3>2. file'[sampleOf[c]] = "whole" \/ Spoiled(sampleOf[c])'
      <4>1. CASE file' = [file EXCEPT ![sampleOf[c]] = "whole"]
        BY <1>0, <2>a, <4>1 DEF TypeOK
      <4>2. CASE \E d \in Calls \ {c} : handler[d] = "write" /\ sampleOf[d] = sampleOf[c]
        <5>1. Spoiled(sampleOf[c])
          BY <2>4, <4>2 DEF Orderly, Alone, Acts, Uploading, WriteFile
        <5> QED
          BY <2>1, <2>a, <5>1, LapsesGrow DEF Spoiled
      <4>3. CASE Lapse(sampleOf[c], "data")
        <5>1. lapses'[sampleOf[c]] = lapses[sampleOf[c]] \cup {"data"}
          BY <1>0, <2>a, <4>3 DEF Lapse, TypeOK
        <5> QED
          BY <2>1, <5>1 DEF Spoiled
      <4> QED
        BY <2>4, <4>1, <4>2, <4>3 DEF WriteFile
    <3>3. WholeFor(c)' /\ Acts(c)'
      BY <2>1, <3>1, <3>2 DEF WholeFor, Acts, Uploading
    <3> QED
      BY <1>0, <2>1, <3>1, <3>3, WholeOthers DEF Orderly
  <2>5. CASE Mark(c) \/ Spawn(c)
    <3>1. /\ file' = file /\ handler[c] \in {"mark", "spawn"} /\ vm[c] = "none"
          /\ vm'[c] \in {"none", "start"}
      BY <1>0, <2>5, <2>b DEF Mark, Spawn, Receiving, Uploading, TypeOK, threadVars, dataVars
    <3>2. WholeFor(c)'
      BY <2>1, <2>a, <3>1, LapsesGrow DEF Orderly, WholeFor, Spoiled
    <3> QED
      BY <1>0, <2>1, <3>1, <3>2, WholeOthers DEF Orderly
  <2> QED
    BY <1>2, <2>2, <2>3, <2>4, <2>5 DEF HandlerStep
<1>3. ASSUME NEW c \in Calls, ThreadMove(c) PROVE Orderly'
  <2>1. Others(c) /\ UNCHANGED <<sampleOf, handler, file>> /\ vm[c] # "none"
    BY <1>0, <1>3, ThreadFrame
       DEF clientVars, handlerVars, ThreadMove, ThreadStep, StartRun, FinishRun, Hangs,
           RunFails, Judge, Record
  <2>a. sampleOf[c] \in Samples
    BY <2>1, HasSample
  <2>b. handler[c] \notin Receiving
    BY <2>1 DEF Books, Fit
  <2>2. CASE StartRun(c)
    <3>1. /\ vm'[c] = "run" /\ took'[c] = file[sampleOf[c]]
          /\ \A h \in Samples : h # sampleOf[c] => log'[h] = log[h]
      BY <1>0, <2>2 DEF StartRun, ThreadTo, TypeOK
    <3>2. WholeFor(c)' /\ Acts(c)'
      BY <2>1, <2>2, <2>a, <2>b, <3>1, LapsesGrow
         DEF Orderly, WholeFor, Spoiled, Acts, StartRun, Receiving, Uploading
    <3> QED
      BY <1>0, <2>1, <3>1, <3>2, WholeOthers DEF Orderly
  <2>3. CASE FinishRun(c)
    <3>1. /\ vm'[c] = "judge"
          /\ \A h \in Samples : h # sampleOf[c] => log'[h] = log[h]
          /\ log'[sampleOf[c]] = took[c] \/ Spoiled(sampleOf[c])'
      <4>1. CASE log' = [log EXCEPT ![sampleOf[c]] = took[c]]
        BY <1>0, <2>3, <2>a, <4>1 DEF FinishRun, ThreadTo, TypeOK
      <4>2. CASE UNCHANGED log /\ "overlap" \in lapses[sampleOf[c]]
        BY <1>0, <2>1, <2>3, <2>a, <4>2, LapsesGrow DEF FinishRun, ThreadTo, TypeOK, Spoiled
      <4>3. CASE UNCHANGED log /\ Lapse(sampleOf[c], "data")
        BY <1>0, <2>1, <2>3, <2>a, <4>3 DEF FinishRun, ThreadTo, Lapse, TypeOK, Spoiled
      <4> QED
        BY <2>3, <4>1, <4>2, <4>3 DEF FinishRun
    <3>2. WholeFor(c)' /\ Acts(c)'
      BY <2>1, <2>3, <2>a, <2>b, <3>1, LapsesGrow
         DEF Orderly, WholeFor, Spoiled, Acts, FinishRun, Receiving, Uploading
    <3> QED
      BY <1>0, <2>1, <3>1, <3>2, WholeOthers DEF Orderly
  <2>4. CASE Hangs(c) \/ RunFails(c) \/ Judge(c) \/ Record(c)
    <3>1. UNCHANGED log /\ vm'[c] \in {"hung", "record", "none"}
      BY <1>0, <2>4 DEF Hangs, RunFails, Judge, Record, Concludes, ThreadTo, TypeOK, dataVars
    <3>2. WholeFor(c)'
      BY <2>1, <2>b, <3>1 DEF WholeFor, Receiving, Uploading
    <3> QED
      BY <1>0, <2>1, <3>1, <3>2, WholeOthers DEF Orderly
  <2> QED
    BY <1>3, <2>2, <2>3, <2>4 DEF ThreadMove, ThreadStep
<1>4. CASE (\E h \in Samples : Age(h)) \/ UNCHANGED vars
  BY <1>0, <1>4 DEF Age, Orderly, WholeFor, Spoiled, vars, clientVars, handlerVars,
                    threadVars, dataVars
<1>5. CASE Crash
  BY <1>0, <1>5 DEF Crash, Orderly, WholeFor
<1> QED
  BY <1>1, <1>2, <1>3, <1>4, <1>5 DEF Next, ThreadMove

-----------------------------------------------------------------------------
(* Results are exact wherever they are: recorded, about to be recorded, on *)
(* their way to a call, and returned by it.                                *)

Exacts ==
  /\ VerdictsAreExact
  /\ \A c \in Calls : Exact(sampleOf[c], answer[c]) /\ Exact(sampleOf[c], result[c])

ExactOf(c) ==
  /\ Exact(sampleOf[c], verdict[c])
  /\ Exact(sampleOf[c], answer[c])
  /\ Exact(sampleOf[c], result[c])

(* It is enough to look at the call whose step it is, and at the rows.     *)
LEMMA ExactOthers ==
  ASSUME Books, [Next]_vars, Exacts, NEW c \in Calls, Others(c), ExactOf(c)',
         \A h \in Samples : Exact(h, rows[h])'
  PROVE  Exacts'
<1>1. ASSUME NEW d \in Calls \ {c} PROVE ExactOf(d)'
  <2>1. sampleOf[d] = None \/ sampleOf[d] \in Samples
    BY DEF Books, TypeOK
  <2>2. CASE sampleOf[d] \in Samples
    BY <2>2, LapsesGrow DEF Exacts, VerdictsAreExact, Exact, Spoiled, ExactOf, Others
  <2>3. CASE sampleOf[d] = None
    BY <2>3, ScanAssumption DEF Exacts, VerdictsAreExact, Exact, Spoiled, ExactOf, Others
  <2> QED
    BY <2>1, <2>2, <2>3
<1> QED
  BY <1>1 DEF Exacts, VerdictsAreExact, ExactOf

LEMMA RowsStill ==
  ASSUME Books, [Next]_vars, Exacts, rows' = rows
  PROVE  \A h \in Samples : Exact(h, rows[h])'
BY LapsesGrow DEF Exacts, VerdictsAreExact, Exact, Spoiled

LEMMA RowsUpdated ==
  ASSUME Books, [Next]_vars, Exacts, NEW c \in Calls, sampleOf[c] \in Samples,
         NEW status \in Statuses,
         status \notin Completed \/ Exact(sampleOf[c], status),
         Update(sampleOf[c], status)
  PROVE  \A h \in Samples : Exact(h, rows[h])'
<1>1. \A h \in Samples : rows'[h] = rows[h] \/ (h = sampleOf[c] /\ rows'[h] = status)
  BY DEF Update, Books, TypeOK
<1> QED
  BY <1>1, LapsesGrow DEF Exacts, VerdictsAreExact, Exact, Spoiled, Completed

LEMMA ExactClient ==
  ASSUME Books, [Next]_vars, Exacts, NEW c \in Calls,
         (\E h \in Samples : Begin(c, h)) \/ ClientStep(c) \/ ClientFault(c)
  PROVE  Exacts'
<1>0. TypeOK /\ Fit(c) /\ ExactOf(c)
  BY DEF Books, Exacts, VerdictsAreExact, ExactOf
<1>1. Others(c) /\ UNCHANGED <<rows, result>>
  BY <1>0, ClientFrame DEF threadVars, dataVars
<1>2. CASE \E h \in Samples : Begin(c, h)
  <2>1. UNCHANGED <<verdict, answer, lapses>>
    BY <1>2 DEF Begin, handlerVars
  <2>2. verdict[c] = "none" /\ answer[c] = "none" /\ result[c] = "none"
    BY <1>0, <1>2 DEF Begin, Fit
  <2>3. ExactOf(c)'
    BY <1>1, <2>1, <2>2 DEF ExactOf, Exact, Spoiled
  <2> QED
    BY <1>1, <2>3, RowsStill, ExactOthers
<1>3. CASE ClientStep(c) \/ ClientFault(c)
  <2>1. UNCHANGED sampleOf /\ sampleOf[c] \in Samples
    BY <1>3, HasSample
       DEF ClientStep, ClientFault, Request, ReceiveStatus, ReceiveStored, RequestRefused,
           GiveUp, Disconnected
  <2>2. /\ verdict'[c] = verdict[c] \/ verdict'[c] = answer[c]
        /\ answer'[c] = answer[c] \/ answer'[c] = "none"
    BY <1>0, <1>3 DEF ClientStep, ClientFault, Request, ReceiveStatus, ReceiveStored,
       RequestRefused, GiveUp, Disconnected, TypeOK, handlerVars
  <2>3. ExactOf(c)'
    BY <1>0, <1>1, <2>1, <2>2, LapsesGrow DEF ExactOf, Exact, Spoiled
  <2> QED
    BY <1>1, <2>3, RowsStill, ExactOthers
<1> QED
  BY <1>2, <1>3

LEMMA ExactHandler ==
  ASSUME Books, [Next]_vars, Exacts, NEW c \in Calls, HandlerStep(c)
  PROVE  Exacts'
<1>0. TypeOK /\ ExactOf(c)
  BY DEF Books, Exacts, VerdictsAreExact, ExactOf
<1>1. Others(c) /\ UNCHANGED <<sampleOf, verdict, result>>
  BY <1>0, HandlerFrame DEF clientVars
<1>a. sampleOf[c] \in Samples
  BY HasSample DEF HandlerStep, Lookup, Create, Reset, Find, OpenFile, OpenFails,
                   WriteFile, Mark, Spawn
<1>b. Exact(sampleOf[c], rows[sampleOf[c]])
  BY <1>a DEF Exacts, VerdictsAreExact
<1>2. \A h \in Samples : Exact(h, rows[h])'
  <2>1. CASE Create(c) \/ Reset(c) \/ Mark(c)
    <3>1. rows' = rows \/ Update(sampleOf[c], "pending") \/ Update(sampleOf[c], "inProgress")
      BY <2>1 DEF Create, Reset, Mark
    <3>2. {"pending", "inProgress"} \subseteq Statuses \ Completed
      BY DEF Statuses, Completed
    <3> QED
      BY <1>a, <3>1, <3>2, RowsStill, RowsUpdated
  <2>2. CASE ~(Create(c) \/ Reset(c) \/ Mark(c))
    <3>1. rows' = rows
      BY <2>2 DEF HandlerStep, Lookup, Find, OpenFile, OpenFails, WriteFile, Spawn, dataVars
    <3> QED
      BY <3>1, RowsStill
  <2> QED
    BY <2>1, <2>2
<1>3. answer'[c] \in {answer[c], rows[sampleOf[c]], "none", "pending", "error", "stored"}
  <2>1. CASE Lookup(c)
    BY <1>0, <2>1 DEF Lookup, Finds, Respond, TypeOK
  <2>2. CASE ~Lookup(c)
    BY <1>0, <2>2 DEF HandlerStep, Create, Reset, Find, OpenFile, OpenFails, WriteFile,
                      Mark, Spawn, Respond, TypeOK
  <2> QED
    BY <2>1, <2>2
<1>4. ExactOf(c)'
  BY <1>0, <1>1, <1>a, <1>b, <1>3, LapsesGrow DEF ExactOf, Exact, Spoiled
<1> QED
  BY <1>1, <1>2, <1>4, ExactOthers

LEMMA ExactThread ==
  ASSUME Books, [Next]_vars, Orderly, Exacts, NEW c \in Calls, ThreadMove(c)
  PROVE  Exacts'
<1>0. TypeOK /\ Fit(c) /\ ExactOf(c) /\ WholeFor(c)
  BY DEF Books, Exacts, VerdictsAreExact, ExactOf, Orderly
<1>1. Others(c) /\ UNCHANGED <<sampleOf, verdict, answer>>
  BY <1>0, ThreadFrame DEF clientVars, handlerVars
<1>a. sampleOf[c] \in Samples
  BY HasSample DEF ThreadMove, ThreadStep, StartRun, FinishRun, Hangs, RunFails, Judge,
                   Record
<1>2. \A h \in Samples : Exact(h, rows[h])'
  <2>1. CASE Record(c)
    <3>1. result[c] \in Statuses
      BY <1>0, <2>1 DEF Record, Fit, Statuses
    <3> QED
      BY <1>0, <1>a, <2>1, <3>1, RowsUpdated DEF Record, ExactOf
  <2>2. CASE ~Record(c)
    <3>1. rows' = rows
      BY <2>2 DEF ThreadMove, ThreadStep, StartRun, FinishRun, Hangs, RunFails, Judge,
                  dataVars
    <3> QED
      BY <3>1, RowsStill
  <2> QED
    BY <2>1, <2>2
<1>3. Exact(sampleOf[c], result[c])'
  <2>1. CASE Judge(c)
    <3>1. log[sampleOf[c]] = "part" => Spoiled(sampleOf[c])
      BY <1>0, <2>1 DEF Judge, WholeFor
    <3>2. Lapse(sampleOf[c], "data") => Spoiled(sampleOf[c])'
      BY <1>0, <1>1, <1>a DEF Lapse, TypeOK, Spoiled
    <3>3. Spoiled(sampleOf[c]) => Spoiled(sampleOf[c])'
      BY <1>1, <1>a, LapsesGrow DEF Spoiled
    <3>4. \/ result'[c] \in {Truth(sampleOf[c]), "failed"}
          \/ result'[c] = "clean" /\ Spoiled(sampleOf[c])'
      BY <1>0, <2>1, <3>1, <3>2, <3>3 DEF Judge, Concludes, TypeOK
    <3> QED
      BY <1>1, <1>a, <3>4 DEF Exact, Truth
  <2>2. CASE ~Judge(c)
    <3>1. result'[c] \in {result[c], "failed", "none"}
      BY <1>0, <2>2 DEF ThreadMove, ThreadStep, StartRun, FinishRun, Hangs, RunFails,
                            Record, Concludes, TypeOK
    <3> QED
      BY <1>0, <1>1, <1>a, <3>1, LapsesGrow DEF ExactOf, Exact, Spoiled
  <2> QED
    BY <2>1, <2>2
<1>4. ExactOf(c)'
  BY <1>0, <1>1, <1>a, <1>3, LapsesGrow DEF ExactOf, Exact, Spoiled
<1> QED
  BY <1>1, <1>2, <1>4, ExactOthers

LEMMA ExactWorld ==
  ASSUME Books, [Next]_vars, Exacts, (\E h \in Samples : Age(h)) \/ Crash \/ UNCHANGED vars
  PROVE  Exacts'
<1>0. TypeOK
  BY DEF Books
<1>1. CASE \E h \in Samples : Age(h)
  BY <1>0, <1>1 DEF Age, Exacts, VerdictsAreExact, Exact, Spoiled, TypeOK, clientVars, handlerVars,
                    threadVars
<1>2. CASE Crash
  <2>1. /\ UNCHANGED <<sampleOf, verdict, rows>>
        /\ \A c \in Calls : answer'[c] = "none" /\ result'[c] = "none"
    BY <1>2 DEF Crash, clientVars, dataVars
  <2>2. \A c \in Calls : Exact(sampleOf[c], verdict[c])'
    <3> TAKE c \in Calls
    <3>1. sampleOf[c] = None \/ sampleOf[c] \in Samples
      BY <1>0 DEF TypeOK
    <3> QED
      BY <2>1, <3>1, LapsesGrow, ScanAssumption DEF Exacts, VerdictsAreExact, Exact, Spoiled
  <2> QED
    BY <2>1, <2>2, RowsStill DEF Exacts, VerdictsAreExact, Exact
<1>3. CASE UNCHANGED vars
  BY <1>3 DEF Exacts, VerdictsAreExact, Exact, Spoiled, vars, clientVars, handlerVars, threadVars,
              dataVars
<1> QED
  BY <1>1, <1>2, <1>3

(* A result, recorded or returned, is the truth about the sample, but for  *)
(* bad samples whose uploads overlapped or were not stored whole, whose    *)
(* monitor left its log incomplete, for which a query failed, or which met *)
(* a stop of the server.                                                   *)
THEOREM ResultsAreExact == Spec => []VerdictsAreExact
<1>1. Init => Orderly /\ Exacts
  BY DEF Init, Orderly, Alone, Acts, WholeFor, Exacts, VerdictsAreExact, Exact, Spoiled, Uploading
<1>2. Books /\ Orderly /\ Exacts /\ [Next]_vars => (Orderly /\ Exacts)'
  BY OrderlyStep, ExactClient, ExactHandler, ExactThread, ExactWorld DEF Next, ThreadMove
<1>3. Exacts => VerdictsAreExact
  BY DEF Exacts
<1> QED
  BY <1>1, <1>2, <1>3, BooksKept, PTL DEF Spec

-----------------------------------------------------------------------------
(* Nobody is told nothing without a reason.                                *)

Troubled(h) == lapses[h] # {}

(* Wherever a failure is, on its way to a call or about to be recorded,    *)
(* something has gone wrong with the sample, and a call that waits without *)
(* trouble has a handler or an answer, and a row when it sends its file.   *)
ReasonOf(c) ==
  /\ cpc[c] # "end" => verdict[c] = "none"
  /\ sampleOf[c] \in Samples /\ ~Troubled(sampleOf[c]) =>
       /\ cpc[c] = "end" => verdict[c] # "none"
       /\ answer[c] \notin {"failed", "error"}
       /\ result[c] # "failed"
       /\ cpc[c] \in {"asked", "sent"} => handler[c] # "none" \/ answer[c] # "none"
       /\ answer[c] = "pending" \/ cpc[c] = "send" \/ handler[c] = "find" =>
            rows[sampleOf[c]] # "none"

RowsReason == \A h \in Samples : rows[h] \in {"failed", "stale"} => Troubled(h)

Reasons == RowsReason /\ \A c \in Calls : ReasonOf(c)

(* No row is ever deleted.                                                 *)
LEMMA RowsStay ==
  ASSUME Books, [Next]_vars
  PROVE  \A h \in Samples : rows[h] # "none" => rows'[h] # "none"
<1>0. TypeOK
  BY DEF Books
<1>1. ASSUME NEW c \in Calls,
             (\E h \in Samples : Begin(c, h)) \/ ClientStep(c) \/ ClientFault(c)
      PROVE  rows' = rows
  BY <1>0, <1>1, ClientFrame DEF dataVars
<1>2. ASSUME NEW c \in Calls, HandlerStep(c)
      PROVE  \A h \in Samples : rows'[h] \in {rows[h], "pending", "inProgress"}
  BY <1>0, <1>2 DEF HandlerStep, Lookup, Create, Reset, Find, OpenFile, OpenFails, WriteFile,
                    Mark, Spawn, Update, TypeOK, dataVars
<1>3. ASSUME NEW c \in Calls, ThreadMove(c)
      PROVE  \A h \in Samples : rows'[h] \in {rows[h], "clean", "threat", "failed"}
  <2>1. CASE Record(c)
    <3>1. result[c] \in {"clean", "threat", "failed"}
      BY <2>1 DEF Record, Books, Fit, Completed
    <3> QED
      BY <1>0, <2>1, <3>1 DEF Record, Update, TypeOK
  <2>2. CASE ~Record(c)
    BY <1>3, <2>2 DEF ThreadMove, ThreadStep, StartRun, FinishRun, Hangs, RunFails, Judge,
                      dataVars
  <2> QED
    BY <2>1, <2>2
<1>4. CASE (\E h \in Samples : Age(h)) \/ Crash \/ UNCHANGED vars
  BY <1>0, <1>4 DEF Age, Crash, vars, dataVars, TypeOK
<1> QED
  BY <1>1, <1>2, <1>3, <1>4 DEF Next, ThreadMove

LEMMA ReasonOthers ==
  ASSUME Books, [Next]_vars, Reasons, NEW c \in Calls, Others(c), ReasonOf(c)', RowsReason'
  PROVE  Reasons'
<1>1. ASSUME NEW d \in Calls \ {c} PROVE ReasonOf(d)'
  <2>1. ReasonOf(d)
    BY DEF Reasons
  <2>2. CASE sampleOf[d] \in Samples
    BY <2>1, <2>2, LapsesGrow, RowsStay DEF ReasonOf, Others, Troubled
  <2>3. CASE sampleOf[d] \notin Samples
    BY <2>1, <2>3 DEF ReasonOf, Others
  <2> QED
    BY <2>2, <2>3
<1> QED
  BY <1>1 DEF Reasons

LEMMA RowsReasonStill ==
  ASSUME Books, [Next]_vars, RowsReason,
         \A h \in Samples : rows'[h] \in {rows[h], "clean", "threat", "pending", "inProgress"}
  PROVE  RowsReason'
BY LapsesGrow DEF RowsReason, Troubled

LEMMA ReasonClient ==
  ASSUME Books, [Next]_vars, Reasons, NEW c \in Calls,
         (\E h \in Samples : Begin(c, h)) \/ ClientStep(c) \/ ClientFault(c)
  PROVE  Reasons'
<1>0. TypeOK /\ Fit(c) /\ ReasonOf(c) /\ RowsReason
  BY DEF Books, Reasons
<1>1. Others(c) /\ UNCHANGED <<vm, result, rows>>
  BY <1>0, ClientFrame DEF threadVars, dataVars
<1>2. RowsReason'
  BY <1>0, <1>1, RowsReasonStill
<1>3. CASE \E h \in Samples : Begin(c, h)
  <2>1. /\ cpc'[c] = "ask" /\ UNCHANGED <<verdict, handler, answer>>
        /\ cpc[c] = "off"
    BY <1>0, <1>3 DEF Begin, CallTo, TypeOK, handlerVars
  <2>2. result[c] # "failed" /\ answer[c] = "none" /\ handler[c] = "none"
    BY <1>0, <2>1 DEF Fit
  <2>3. ReasonOf(c)'
    BY <1>0, <1>1, <2>1, <2>2 DEF ReasonOf
  <2> QED
    BY <1>1, <1>2, <2>3, ReasonOthers
<1>4. CASE ClientStep(c) \/ ClientFault(c)
  <2>1. UNCHANGED sampleOf /\ sampleOf[c] \in Samples
    BY <1>4, HasSample
       DEF ClientStep, ClientFault, Request, ReceiveStatus, ReceiveStored, RequestRefused,
           GiveUp, Disconnected
  <2>2. ~Troubled(sampleOf[c])' => ~Troubled(sampleOf[c])
    BY <2>1, LapsesGrow DEF Troubled
  <2>3. CASE Request(c)
    <3>1. ReasonOf(c)'
      BY <1>0, <1>1, <2>1, <2>2, <2>3 DEF Request, CallTo, ReasonOf, Fit, TypeOK
    <3> QED
      BY <1>1, <1>2, <3>1, ReasonOthers
  <2>4. CASE ReceiveStatus(c)
    <3>1. ReasonOf(c)'
      BY <1>0, <1>1, <2>1, <2>2, <2>4
         DEF ReceiveStatus, CallTo, ReasonOf, Fit, TypeOK, Completed
    <3> QED
      BY <1>1, <1>2, <3>1, ReasonOthers
  <2>5. CASE ReceiveStored(c)
    <3>1. ReasonOf(c)'
      BY <1>0, <1>1, <2>1, <2>2, <2>5 DEF ReceiveStored, CallTo, ReasonOf, Fit, TypeOK
    <3> QED
      BY <1>1, <1>2, <3>1, ReasonOthers
  <2>6. CASE RequestRefused(c) \/ GiveUp(c)
    <3>1. Lapse(sampleOf[c], "net") /\ cpc' = [cpc EXCEPT ![c] = "end"]
      BY <2>6 DEF RequestRefused, GiveUp, CallTo
    <3>2. sampleOf[c] \in Samples
      BY <1>0, <2>1, <2>6, ScanAssumption DEF RequestRefused, GiveUp, Fit, TypeOK
    <3>3. "net" \in lapses'[sampleOf[c]]
      BY <1>0, <3>1, <3>2 DEF Lapse, TypeOK
    <3>4. cpc'[c] = "end"
      BY <1>0, <3>1 DEF TypeOK
    <3>5. ReasonOf(c)'
      BY <2>1, <3>3, <3>4 DEF ReasonOf, Troubled
    <3> QED
      BY <1>1, <1>2, <3>5, ReasonOthers
  <2>7. CASE Disconnected(c)
    <3>1. Troubled(sampleOf[c])
      BY <1>0, <2>1, <2>7 DEF Disconnected, ReasonOf
    <3>2. ReasonOf(c)'
      BY <1>0, <2>1, <2>2, <2>7, <3>1 DEF ReasonOf, Disconnected, CallTo, TypeOK
    <3> QED
      BY <1>1, <1>2, <3>2, ReasonOthers
  <2> QED
    BY <1>4, <2>3, <2>4, <2>5, <2>6, <2>7 DEF ClientStep, ClientFault
<1> QED
  BY <1>3, <1>4

LEMMA ReasonHandler ==
  ASSUME Books, [Next]_vars, Reasons, NEW c \in Calls, HandlerStep(c)
  PROVE  Reasons'
<1>0. TypeOK /\ Fit(c) /\ ReasonOf(c) /\ RowsReason
  BY DEF Books, Reasons
<1>1. Others(c) /\ UNCHANGED <<sampleOf, cpc, verdict, result>>
  BY <1>0, HandlerFrame DEF clientVars
<1>a. sampleOf[c] \in Samples
  BY HasSample DEF HandlerStep, Lookup, Create, Reset, Find, OpenFile, OpenFails,
                   WriteFile, Mark, Spawn
<1> DEFINE h == sampleOf[c]
<1>2. RowsReason'
  <2>1. \A g \in Samples : rows'[g] \in {rows[g], "pending", "inProgress"}
    BY <1>0 DEF HandlerStep, Lookup, Create, Reset, Find, OpenFile, OpenFails, WriteFile,
                Mark, Spawn, Update, TypeOK, dataVars
  <2> QED
    BY <1>0, <2>1, RowsReasonStill
<1>3. ~Troubled(h)' => ~Troubled(h)
  BY <1>1, <1>a, LapsesGrow DEF Troubled
<1>4. rows[h] # "none" => rows'[h] # "none"
  BY <1>a, RowsStay
(* Without trouble no statement failed.                                    *)
<1>5. ASSUME NEW fault, Lapse(h, fault) PROVE Troubled(h)'
  BY <1>0, <1>1, <1>a, <1>5 DEF Lapse, Troubled, TypeOK
<1>6. ASSUME ~Troubled(h)'
      PROVE  /\ handler'[c] # "none" \/ answer'[c] # "none" \/ cpc[c] = "end"
             /\ answer'[c] \notin {"failed", "error"}
             /\ answer'[c] = "pending" \/ handler'[c] = "find" => rows'[h] # "none"
  <2>1. CASE Lookup(c)
    <3>1. PICK row \in Statuses \cup {"none"} :
            /\ Finds(h, row)
            /\ \/ row = "none" /\ HandlerTo(c, "create") /\ UNCHANGED answer
               \/ row = "stale" /\ HandlerTo(c, "reset") /\ UNCHANGED answer
               \/ row \notin {"none", "stale"} /\ Respond(c, row)
      BY <2>1 DEF Lookup
    <3>2. row = rows[h] /\ row # "failed"
      BY <1>0, <1>3, <1>5, <1>6, <1>a, <3>1 DEF Finds, RowsReason
    <3>3. answer[c] = "none"
      BY <1>0, <2>1 DEF Lookup, Fit
    <3> QED
      BY <1>0, <1>4, <3>1, <3>2, <3>3, <2>1 DEF HandlerTo, Respond, TypeOK, Statuses, Completed
  <2>2. CASE Create(c) \/ Reset(c)
    <3>1. Respond(c, "pending")
      BY <2>2 DEF Create, Reset
    <3>2. rows'[h] # "none"
      BY <1>0, <1>4, <1>5, <1>6, <1>a, <2>2 DEF Create, Reset, Update, TypeOK
    <3> QED
      BY <1>0, <3>1, <3>2 DEF Respond, HandlerTo, TypeOK
  <2>3. CASE Find(c)
    <3>1. PICK row \in Statuses \cup {"none"} :
            /\ Finds(h, row)
            /\ \/ row = "none" /\ Respond(c, "error")
               \/ row # "none" /\ HandlerTo(c, "open") /\ UNCHANGED answer
      BY <2>3 DEF Find
    <3>2. row = rows[h] /\ row # "none"
      BY <1>0, <1>3, <1>5, <1>6, <1>a, <2>3, <3>1 DEF Finds, ReasonOf, Find
    <3>3. answer[c] = "none"
      BY <1>0, <2>3 DEF Find, Fit
    <3> QED
      BY <1>0, <3>1, <3>2, <3>3 DEF HandlerTo, TypeOK
  <2>4. CASE OpenFile(c) \/ WriteFile(c) \/ Mark(c)
    <3>1. handler'[c] \in {"write", "mark", "spawn"} /\ answer'[c] = "none"
      BY <1>0, <2>4 DEF OpenFile, WriteFile, Mark, HandlerTo, Fit, TypeOK
    <3> QED
      BY <3>1
  <2>5. CASE OpenFails(c)
    BY <1>5, <1>6, <2>5 DEF OpenFails
  <2>6. CASE Spawn(c)
    <3>1. Respond(c, "stored")
      BY <1>5, <1>6, <2>6 DEF Spawn
    <3> QED
      BY <1>0, <3>1 DEF Respond, HandlerTo, TypeOK
  <2> QED
    BY <2>1, <2>2, <2>3, <2>4, <2>5, <2>6 DEF HandlerStep
<1>7. cpc[c] # "send"
  BY <1>0 DEF HandlerStep, Lookup, Create, Reset, Find, OpenFile, OpenFails, WriteFile,
              Mark, Spawn, Fit
<1>8. ReasonOf(c)'
  BY <1>0, <1>1, <1>3, <1>6, <1>7 DEF ReasonOf
<1> QED
  BY <1>1, <1>2, <1>8, ReasonOthers

LEMMA ReasonThread ==
  ASSUME Books, [Next]_vars, Orderly, Reasons, NEW c \in Calls, ThreadMove(c)
  PROVE  Reasons'
<1>0. TypeOK /\ Fit(c) /\ ReasonOf(c) /\ RowsReason /\ WholeFor(c)
  BY DEF Books, Reasons, Orderly
<1>1. Others(c) /\ UNCHANGED <<sampleOf, cpc, verdict, handler, answer>>
  BY <1>0, ThreadFrame DEF clientVars, handlerVars
<1>a. sampleOf[c] \in Samples
  BY HasSample DEF ThreadMove, ThreadStep, StartRun, FinishRun, Hangs, RunFails, Judge,
                   Record
<1> DEFINE h == sampleOf[c]
<1>3. ~Troubled(h)' => ~Troubled(h)
  BY <1>1, <1>a, LapsesGrow DEF Troubled
<1>4. rows[h] # "none" => rows'[h] # "none"
  BY <1>a, RowsStay
<1>5. ASSUME NEW fault, Lapse(h, fault) PROVE Troubled(h)'
  BY <1>0, <1>1, <1>a, <1>5 DEF Lapse, Troubled, TypeOK
<1>6. result'[c] = "failed" => Troubled(h)'
  <2>1. CASE StartRun(c) \/ FinishRun(c) \/ Hangs(c)
    BY <1>0, <1>3, <1>a, <2>1 DEF StartRun, FinishRun, Hangs, ReasonOf, TypeOK
  <2>2. CASE RunFails(c)
    <3>1. Lapse(h, "vm") \/ Troubled(h)
      BY <2>2 DEF RunFails, Troubled
    <3> QED
      BY <1>3, <1>5, <3>1
  <2>3. CASE Judge(c)
    <3>1. Truth(h) # "failed"
      BY DEF Truth
    <3>2. result'[c] = "failed" => Lapse(h, "vm") \/ Troubled(h)
      BY <1>0, <2>3, <3>1 DEF Judge, Concludes, Troubled, TypeOK
    <3> QED
      BY <1>3, <1>5, <3>2
  <2>4. CASE Record(c)
    BY <1>0, <2>4 DEF Record, TypeOK
  <2> QED
    BY <2>1, <2>2, <2>3, <2>4 DEF ThreadMove, ThreadStep
<1>7. RowsReason'
  <2>1. CASE Record(c)
    <3>1. \A g \in Samples : rows'[g] = rows[g] \/ (g = h /\ rows'[g] = result[c])
      BY <1>0, <1>a, <2>1 DEF Record, Update, TypeOK
    <3>2. result[c] \in {"clean", "threat", "failed"}
      BY <1>0, <2>1 DEF Record, Fit, Completed
    <3>3. result[c] = "failed" => Troubled(h)
      BY <1>0, <1>a DEF ReasonOf
    <3> QED
      BY <1>0, <3>1, <3>2, <3>3, LapsesGrow DEF RowsReason, Troubled
  <2>2. CASE ~Record(c)
    <3>1. rows' = rows
      BY <2>2 DEF ThreadMove, ThreadStep, StartRun, FinishRun, Hangs, RunFails, Judge,
                  dataVars
    <3> QED
      BY <1>0, <3>1, RowsReasonStill
  <2> QED
    BY <2>1, <2>2
<1>8. ReasonOf(c)'
  BY <1>0, <1>1, <1>3, <1>4, <1>6 DEF ReasonOf
<1> QED
  BY <1>1, <1>7, <1>8, ReasonOthers

LEMMA ReasonWorld ==
  ASSUME Books, [Next]_vars, Reasons, (\E h \in Samples : Age(h)) \/ Crash \/ UNCHANGED vars
  PROVE  Reasons'
<1>0. TypeOK
  BY DEF Books
<1>1. CASE \E h \in Samples : Age(h)
  <2>1. UNCHANGED <<sampleOf, cpc, verdict, handler, answer, result, lapses>>
    BY <1>1 DEF Age, clientVars, handlerVars, threadVars
  <2>2. \A h \in Samples : rows'[h] = rows[h] \/ rows[h] = "failed"
    BY <1>0, <1>1 DEF Age, TypeOK
  <2> QED
    BY <2>1, <2>2, RowsStay DEF Reasons, RowsReason, ReasonOf, Troubled
<1>2. CASE Crash
  <2>1. \A h \in Samples : Troubled(h)'
    BY <1>0, <1>2 DEF Crash, Troubled, TypeOK
  <2>2. UNCHANGED <<sampleOf, cpc, verdict>>
    BY <1>2 DEF Crash, clientVars
  <2> QED
    BY <2>1, <2>2 DEF Reasons, RowsReason, ReasonOf
<1>3. CASE UNCHANGED vars
  BY <1>3 DEF Reasons, RowsReason, ReasonOf, Troubled, vars, clientVars, handlerVars,
              threadVars, dataVars
<1> QED
  BY <1>1, <1>2, <1>3

-----------------------------------------------------------------------------
(* The refinement.                                                         *)

ToldMap == [c \in Calls |-> Told(c)]

LEMMA ToldMove ==
  ASSUME NEW c \in Calls, NEW r, Told(c)' = r,
         \A d \in Calls \ {c} : Told(d)' = Told(d)
  PROVE  ToldMap' = [ToldMap EXCEPT ![c] = r]
BY DEF ToldMap

LEMMA ServiceTrouble ==
  ASSUME Books, [Next]_vars
  PROVE  /\ {h \in Samples : lapses[h] # {}} \subseteq {h \in Samples : lapses[h] # {}}'
         /\ {h \in Samples : Spoiled(h)} \subseteq {h \in Samples : Spoiled(h)}'
         /\ {h \in Samples : Spoiled(h)}' \subseteq {h \in Samples : lapses[h] # {}}'
BY LapsesGrow DEF Spoiled

LEMMA ServiceStill ==
  ASSUME Books, [Next]_vars, UNCHANGED <<sampleOf, cpc, verdict>>
  PROVE  Service!ServiceNext
<1>1. ToldMap' = ToldMap
  BY DEF ToldMap, Told
<1> QED
  BY <1>1, ServiceTrouble DEF Service!ServiceNext, ToldMap

LEMMA ServiceClient ==
  ASSUME Books, [Next]_vars, Exacts, Reasons, Reasons', NEW c \in Calls,
         (\E h \in Samples : Begin(c, h)) \/ ClientStep(c) \/ ClientFault(c)
  PROVE  Service!ServiceNext
<1>0. TypeOK /\ Fit(c) /\ ReasonOf(c) /\ ReasonOf(c)' /\ ExactOf(c)
  BY DEF Books, Reasons, Exacts, VerdictsAreExact, ExactOf
<1>1. Others(c)
  BY <1>0, ClientFrame
<1>2. \A d \in Calls \ {c} : Told(d)' = Told(d)
  BY <1>1 DEF Others, Told
<1>3. CASE \E h \in Samples : Begin(c, h)
  <2>1. PICK h \in Samples : Begin(c, h)
    BY <1>3
  <2>2. Told(c)' = Told(c)
    BY <1>0, <2>1 DEF Begin, CallTo, Told, Fit, TypeOK
  <2>3. ToldMap' = ToldMap
    BY <1>2, <2>2 DEF ToldMap
  <2>4. Service!Ask(c, h)
    BY <1>0, <2>1, <2>3 DEF Begin, Service!Ask, ToldMap, Fit
  <2> QED
    BY <2>4, ServiceTrouble DEF Service!ServiceNext
<1>4. CASE ClientStep(c) \/ ClientFault(c)
  <2>1. UNCHANGED sampleOf /\ sampleOf[c] \in Samples /\ cpc[c] \notin {"off", "end"}
    BY <1>4, HasSample
       DEF ClientStep, ClientFault, Request, ReceiveStatus, ReceiveStored, RequestRefused,
           GiveUp, Disconnected
  <2>2. sampleOf[c] # None /\ Told(c) = "open" /\ ToldMap[c] = "open" /\ verdict[c] = "none"
    BY <1>0, <2>1, ScanAssumption DEF Told, ToldMap, ReasonOf
  <2>3. CASE verdict'[c] # "none"
    <3>1. verdict'[c] = answer[c] /\ answer[c] \in Completed
      BY <1>0, <1>4, <2>2, <2>3 DEF ClientStep, ClientFault, Request, ReceiveStatus,
         ReceiveStored, RequestRefused, GiveUp, Disconnected, TypeOK
    <3>2. Told(c)' = answer[c]
      BY <2>3, <3>1 DEF Told
    <3>3. Service!Reply(c, answer[c])
      BY <1>2, <2>1, <2>2, <3>2, ToldMove DEF Service!Reply, ToldMap
    <3>4. answer[c] = "threat" => sampleOf[c] \in Bad
      BY <1>0 DEF ExactOf, Exact
    <3>5. answer[c] = "clean" => sampleOf[c] \notin Bad \ {h \in Samples : Spoiled(h)}
      BY <1>0, <2>1 DEF ExactOf, Exact
    <3>6. Service!Convict(c) \/ Service!Acquit(c)
      BY <3>1, <3>3, <3>4, <3>5 DEF Service!Convict, Service!Acquit, Completed
    <3> QED
      BY <3>6, ServiceTrouble DEF Service!ServiceNext
  <2>4. CASE verdict'[c] = "none" /\ cpc'[c] = "end"
    <3>1. Told(c)' = "nothing"
      BY <2>4 DEF Told
    <3>2. Service!Reply(c, "nothing")
      BY <1>2, <2>1, <2>2, <3>1, ToldMove DEF Service!Reply, ToldMap
    <3>3. sampleOf[c] \in {h \in Samples : lapses[h] # {}}'
      BY <1>0, <2>1, <2>4 DEF ReasonOf, Troubled
    <3>4. Service!Fail(c)
      BY <3>2, <3>3 DEF Service!Fail
    <3> QED
      BY <3>4, ServiceTrouble DEF Service!ServiceNext
  <2>5. CASE verdict'[c] = "none" /\ cpc'[c] # "end"
    <3>1. Told(c)' = "open"
      BY <2>5 DEF Told
    <3>2. ToldMap' = ToldMap
      BY <1>2, <2>2, <3>1 DEF ToldMap
    <3> QED
      BY <2>1, <3>2, ServiceTrouble DEF Service!ServiceNext, ToldMap
  <2> QED
    BY <2>3, <2>4, <2>5
<1> QED
  BY <1>3, <1>4

LEMMA ServiceTakes ==
  ASSUME Books, Exacts, Reasons, Reasons', [Next]_vars
  PROVE  Service!ServiceNext
<1>0. TypeOK
  BY DEF Books
<1>1. ASSUME NEW c \in Calls, HandlerStep(c) \/ ThreadMove(c) PROVE Service!ServiceNext
  BY <1>0, <1>1, HandlerFrame, ThreadFrame, ServiceStill DEF clientVars
<1>2. CASE (\E h \in Samples : Age(h)) \/ Crash \/ UNCHANGED vars
  <2>1. UNCHANGED <<sampleOf, cpc, verdict>>
    BY <1>2 DEF Age, Crash, vars, clientVars
  <2> QED
    BY <2>1, ServiceStill
<1> QED
  BY <1>1, <1>2, ServiceClient DEF Next, ThreadMove

(* The server's table, handlers and threads implement the service, for any *)
(* number of calls and samples and under every failure: a call is told     *)
(* once, a threat only of a bad sample, clean of a bad one only where its  *)
(* scan was spoiled, and nothing only once something has gone wrong.       *)
THEOREM TheServiceTells == Spec => TellsVerdicts
<1>1. Init => Orderly /\ Exacts /\ Reasons
  BY DEF Init, Orderly, Alone, Acts, WholeFor, Exacts, VerdictsAreExact, Exact, Uploading,
         Reasons, RowsReason, ReasonOf
<1>2. Books /\ Orderly /\ Exacts /\ Reasons /\ [Next]_vars => (Orderly /\ Exacts /\ Reasons)'
  BY OrderlyStep, ExactClient, ExactHandler, ExactThread, ExactWorld,
     ReasonClient, ReasonHandler, ReasonThread, ReasonWorld DEF Next, ThreadMove
<1>3. Init => Service!ServiceInit
  BY DEF Init, Service!ServiceInit, Told, Spoiled
<1>4. Books /\ Exacts /\ Reasons /\ Reasons' /\ [Next]_vars => Service!ServiceNext
  BY ServiceTakes
<1> QED
  BY <1>1, <1>2, <1>3, <1>4, BooksKept, PTL DEF Spec, TellsVerdicts, Service!ServiceSpec
=============================================================================
