----------------------------- MODULE EventStore -----------------------------
(***************************************************************************)
(* EventWriter of the guest's ProcessMonitor in its SQLite format: a       *)
(* database that an older version may have left behind is migrated when it *)
(* is opened, an event is normalised for the Sigma rules and stored in the *)
(* columns the table has, and a finding in the table Findings.             *)
(*                                                                         *)
(* A JSON object is a function from the names of its fields to what they   *)
(* hold: a value, or the marker of a property that could not be read.  A   *)
(* column is its name, a table the set of its columns, {} if it does not   *)
(* exist.  Other programs read the database, so any statement may fail.    *)
(***************************************************************************)
EXTENDS Naturals, Sequences, FiniteSets

CONSTANTS
  Records,             \* what may be written
  IndexColumns,        \* columns of Events that an index names
  CoreColumns,         \* s_coreSysmonColumns
  AttackColumns,       \* s_ensureAttackColumns
  OtherColumns,        \* the other columns of Events but InsertionTime
  SnakeCase,           \* findSnakeCase: a column's name in snake case
  MaxWrites            \* bound: events and findings per history

EventColumns == IndexColumns \cup CoreColumns \cup AttackColumns \cup OtherColumns
FindingColumns == {"Type"} \cup AttackColumns

Held == {"value", "marker"}

(* The fields that are kept under two spellings.                           *)
SpellingPairs ==
  {<<"ObjectName", "object_name">>, <<"CommandLine", "Commandline">>,
   <<"LocalPort", "localport">>, <<"State", "STATE">>,
   <<"ObjectClass", "ObjectClas">>}

ASSUME StoreAssumption ==
  /\ MaxWrites \in Nat
  /\ {"EventId", "EventTime"} \subseteq EventColumns
  /\ SnakeCase \in [EventColumns -> STRING]
  /\ \A r \in Records :
       /\ DOMAIN r = {"etw", "top", "payload", "proc", "op", "parent", "labelled"}
       /\ {r.etw, r.labelled} \subseteq BOOLEAN
       /\ \A i \in DOMAIN r.payload :
            r.payload[i].read \in {"value", "mismatch", "range"}
       /\ DOMAIN r.parent \subseteq {"ParentImage", "ParentProcessName"}

(* The labels of ATT&CK are none of them.                                  *)
ASSUME PairAssumption ==
  \A p \in SpellingPairs : {p[1], p[2]} \cap AttackColumns = {}

-----------------------------------------------------------------------------
(* The record.                                                             *)

NoFields == [n \in {} |-> "value"]

Field(n, v) == [m \in {n} |-> v]

(* The fields of f, and those of g that f lacks.                           *)
f ++ g ==
  [n \in DOMAIN f \cup DOMAIN g |-> IF n \in DOMAIN f THEN f[n] ELSE g[n]]

Has(f, n) == n \in DOMAIN f

(* _fillPropsViaTdh: once a read has left the payload, none is tried.      *)
Poisoned(payload, i) ==
  \E k \in 1..(i - 1) : ~payload[k].skip /\ payload[k].read = "range"

Props(payload) ==
  [n \in {payload[i].name : i \in DOMAIN payload} |->
     IF \E i \in DOMAIN payload :
          /\ payload[i].name = n /\ payload[i].read = "value"
          /\ ~payload[i].skip /\ ~Poisoned(payload, i)
     THEN "value" ELSE "marker"]

(* setIfFound: the first of the names that is there.                       *)
Copied(dst, names, src) ==
  LET there == {i \in DOMAIN names : Has(src, names[i])}
  IN  IF there = {} THEN NoFields
      ELSE Field(dst, src[names[CHOOSE i \in there : \A j \in there : i <= j]])

(* The objects proc, net, dns and file in the order in which they are      *)
(* searched; a process that is still there tells its own name and path.    *)
Process(r, props) ==
  LET p == Copied("name", <<"ProcessName", "ImageName", "ImageFileName">>, props)
           ++ Copied("path", <<"ImagePath", "ProcessPath", "FilePath", "ObjectName">>, props)
           ++ Copied("ppid", <<"ParentProcessId", "ParentPid", "PPID">>, props)
           ++ Copied("user_sid", <<"UserSid", "SID">>, props)
  IN  IF {"name", "path"} \subseteq DOMAIN p THEN p ELSE r.proc ++ p

Network(props) ==
  Copied("dst",
         <<"daddr", "DestAddress", "DestIp", "RemoteIP", "DestinationIp", "dstIp">>, props)
  ++ Copied("dport", <<"dport", "DestPort", "RemotePort", "DestinationPort", "dstPort">>, props)

File(r, props) ==
  Copied("path", <<"FileName", "FilePath", "ObjectName", "ImagePath", "Path">>, props)
  ++ Copied("op", <<"Operation", "IrpOp">>, props) ++ r.op
  ++ Copied("status", <<"Status", "NtStatus", "ReturnValue">>, props)

(* Where a lookup goes after the top level; a record of the Sysmon channel *)
(* has its properties only.                                                *)
Nested(r) ==
  LET props == Props(r.payload)
  IN  IF r.etw
      THEN props ++ Process(r, props) ++ Network(props) ++ File(r, props)
      ELSE props

-----------------------------------------------------------------------------
(* _enrichSigmaFields: each field is filled from the first of its sources, *)
(* in this order, and one that is there is left alone.  The two fields it  *)
(* fills in lower case, which nothing else reads or writes, are left out.  *)

Copy(dst, names) == [to |-> dst, names |-> <<dst>> \o names]

Commands == <<"CommandLineParams", "CommandLineParameters", "Parameters", "Arguments">>
Peers == <<"dst", "DestAddress", "DestIp", "RemoteIP", "DestinationIp", "dstIp">>
SourcePorts == <<"lport", "SourcePort", "SrcPort">>

ProcessFields == <<
  Copy("Computer", <<"host">>),
  Copy("Provider", <<"provider">>),
  Copy("Channel", <<"channel", "ChannelName">>),
  Copy("EventTime", <<"ts">>),
  Copy("RuleName", <<"Rule">>),
  Copy("UtcTime", <<"Timestamp">>),
  Copy("Image", <<"ImagePath", "ProcessPath", "NewProcessName", "ApplicationPath", "path",
                  "Process", "ProcessName", "ImageFileName", "ImageName">>),
  Copy("SourceImage", <<"CallerProcessName", "SourceProcessName", "Image">>),
  Copy("TargetImage", <<"TargetProcessName", "TargetProcessPath", "Image">>),
  Copy("ProcessName", <<"name", "ImageFileName", "ImageName">>),
  Copy("ProcessName", <<"Image">>),
  Copy("CommandLine", <<"Commandline">> \o Commands),
  Copy("Commandline", <<"CommandLine">> \o Commands),
  Copy("GrantedAccess", <<"DesiredAccess", "AccessMask">>),
  Copy("ParentImage", <<"ParentProcessPath", "ParentImagePath", "ParentImageName",
                        "ParentProcessName">>),
  Copy("ParentProcessName", <<"ParentImage", "ParentImageName">>),
  Copy("ParentCommandLine", <<"ParentCommandline", "ParentCommandLineParams",
                              "ParentCommandLineParameters">>),
  Copy("ProcessGuid", <<"ProcessGUID">>),
  Copy("ParentProcessGuid", <<"ParentProcessGUID">>),
  Copy("CurrentDirectory", <<>>) >>

ObjectFields == <<
  Copy("IpAddress", Peers),
  Copy("RemoteAddresses", <<"dst", "DestAddress", "RemoteIP", "DestinationIp", "dstIp">>),
  Copy("RemotePorts", <<"dport", "DestPort", "RemotePort", "DestinationPort", "dstPort">>),
  Copy("DestinationPort", <<"dport", "DestPort", "RemotePort", "dstPort">>),
  Copy("LocalPort", <<"localport">> \o SourcePorts),
  Copy("localport", <<"LocalPort">> \o SourcePorts),
  Copy("ObjectName", <<"object_name", "path", "FileName", "FilePath", "TargetFilename",
                       "TargetFileName", "TargetObject">>),
  Copy("object_name", <<"ObjectName", "path", "FileName", "FilePath">>),
  Copy("Operation", <<"op", "IrpOp">>),
  Copy("Status", <<"status", "NtStatus", "ReturnValue">>),
  Copy("UserSid", <<"user_sid", "SID", "SubjectUserSid", "TargetUserSid">>),
  Copy("SubjectUserSid", <<"UserSid", "user_sid", "SID">>),
  Copy("TargetUserSid", <<"UserSid", "user_sid", "SID">>),
  Copy("SubjectUserName", <<"UserName", "User", "user", "AccountName">>),
  Copy("TargetUserName", <<"TargetUser", "TargetAccountName", "AccountName">>),
  Copy("LogonGuid", <<"LogonGUID">>),
  Copy("LogonId", <<>>),
  Copy("TerminalSessionId", <<"SessionId">>),
  Copy("State", <<"STATE">>),
  Copy("STATE", <<"State">>),
  Copy("ObjectClass", <<"ObjectClas">>),
  Copy("ObjectClas", <<"ObjectClass">>) >>

(* Mutant: a field that another copy has filled is not seen.               *)
EnsureCopyNested(top, nested, copy) ==
  IF Has(top, copy.to) THEN top
  ELSE top ++ Copied(copy.to, copy.names, nested)

EnsureCopy(top, nested, copy) ==
  IF Has(top, copy.to) THEN top
  ELSE top ++ Copied(copy.to, copy.names, top ++ nested)

EnsureAll(top, nested, copies) ==
  LET filled[i \in 0..Len(copies)] ==
        IF i = 0 THEN top ELSE EnsureCopy(filled[i - 1], nested, copies[i])
  IN  filled[Len(copies)]

(* A parent whose id can be read, and that is still there, tells what the  *)
(* record does not; the first id found counts, readable or not.            *)
ParentSeen(r, top, nested) ==
  LET id == Copied("id", <<"ParentProcessId", "ParentPid", "PPID", "ppid">>, top ++ nested)
  IN  IF Has(id, "id") /\ id["id"] = "value" THEN top ++ r.parent ELSE top

Enriched(r) ==
  LET nested == Nested(r)
      process == EnsureAll(r.top, nested, ProcessFields)
  IN  EnsureAll(ParentSeen(r, process, nested), nested, ObjectFields)
      ++ Field("Payload", "value")

(* forEventJson adds all fields of a technique, or none.                   *)
Labelled(r) ==
  IF r.labelled THEN [c \in AttackColumns |-> "value"] ++ Enriched(r) ELSE Enriched(r)

-----------------------------------------------------------------------------
(* The row.                                                                *)

HeaderKeys ==
  [EventId |-> {"event_id", "EventId"},
   EventRecordId |-> {"EventRecordId", "event_record_id"},
   EventTime |-> {"ts", "EventTime"},
   Computer |-> {"host", "Computer"}]

(* What an event can fill, and the columns of the table it does fill.      *)
Normal == [r \in Records |-> [top |-> DOMAIN Labelled(r),
                              all |-> DOMAIN (Labelled(r) ++ Nested(r))]]

Filled(r, c) ==
  IF Has(HeaderKeys, c) THEN HeaderKeys[c] \cap Normal[r].top # {}
  ELSE {c, SnakeCase[c]} \cap Normal[r].all # {}

Row(r, cols) == {c \in cols : Filled(r, c)}

-----------------------------------------------------------------------------
VARIABLES
  tables,    \* the columns of Events and of Findings
  open,      \* m_db
  columns,   \* s_cols: the columns of Events when it was read for the handle
  writes,    \* bound counter
  stored,    \* history: the rows of Events, each with its record and the
             \* columns it was made for
  intact,    \* history: every statement of the last migration succeeded
  dropped    \* history: a finding was lost though no statement failed

storeVars == <<tables, open, columns, writes, stored, intact, dropped>>

(* The statements of the migration; the parameter ok says which succeed.   *)
Statements == {"events", "findings", "core", "attack"}

FindingsTable(t, ok) ==
  IF t.findings = {} /\ "findings" \in ok
  THEN [t EXCEPT !.findings = FindingColumns] ELSE t

(* TABLES_CREATE stops at the first statement that fails; an index on a    *)
(* column that an old table lacks is one.                                  *)
TablesCreate(t, ok) ==
  LET e == IF t.events = {} /\ "events" \in ok
           THEN [t EXCEPT !.events = EventColumns] ELSE t
  IN  IF IndexColumns \subseteq e.events THEN FindingsTable(e, ok) ELSE e

AddColumns(table, cols) == IF table = {} THEN {} ELSE table \cup cols

(* Mutant: the columns go to both tables.                                  *)
AddCoreBoth(t, ok) ==
  IF "core" \in ok
  THEN [events |-> AddColumns(t.events, CoreColumns),
        findings |-> AddColumns(t.findings, CoreColumns)]
  ELSE t

AddCore(t, ok) ==
  IF "core" \in ok THEN [t EXCEPT !.events = AddColumns(@, CoreColumns)] ELSE t

AddAttack(t, ok) ==
  IF "attack" \in ok
  THEN [events |-> AddColumns(t.events, AttackColumns),
        findings |-> AddColumns(t.findings, AttackColumns)]
  ELSE t

(* Mutant: Findings is left to the statements of TABLES_CREATE.            *)
MigrateOnce(t, ok) == AddAttack(AddCore(TablesCreate(t, ok), ok), ok)

(* _initSqliteSchema                                                       *)
Migrate(t, ok) == AddAttack(FindingsTable(AddCore(TablesCreate(t, ok), ok), ok), ok)

StoreInit ==
  /\ tables \in [events : {{}} \cup {OtherColumns \cup X : X \in SUBSET (EventColumns \ OtherColumns)},
                 findings : {{}} \cup {{"Type"} \cup X : X \in SUBSET AttackColumns}]
  /\ open = FALSE
  /\ columns = {}
  /\ writes = 0
  /\ stored = {}
  /\ intact = FALSE
  /\ dropped = FALSE

(* The constructor; it throws when the file cannot be opened.              *)
Open(ok) ==
  /\ ~open
  /\ open' = TRUE
  /\ tables' = Migrate(tables, ok)
  /\ intact' = (ok = Statements)
  /\ UNCHANGED <<columns, writes, stored, dropped>>

(* Mutant: the columns are those of the newest version.                    *)
WriteEventNewest(r, done) ==
  /\ open /\ writes < MaxWrites
  /\ writes' = writes + 1
  /\ columns' = EventColumns
  /\ UNCHANGED <<tables, open, stored, intact, dropped>>

(* writeEventJson and _writeToSqlite; what goes wrong is only logged.      *)
WriteEvent(r, done) ==
  /\ open /\ writes < MaxWrites
  /\ writes' = writes + 1
  /\ columns' = IF columns = {} THEN tables.events ELSE columns
  /\ LET row == Row(r, columns')
     IN  stored' = IF done /\ row # {}
                    /\ {"EventId", "EventTime"} \cap tables.events \subseteq row
                 THEN stored \cup {[of |-> r, given |-> columns', filled |-> row]}
                 ELSE stored
  /\ UNCHANGED <<tables, open, intact, dropped>>

(* Mutant: an INSERT that cannot be prepared is given up.                  *)
WriteFindingOnce(ok) ==
  /\ open /\ writes < MaxWrites
  /\ writes' = writes + 1
  /\ dropped' = (dropped \/ (ok = Statements /\ ~(FindingColumns \subseteq tables.findings)))
  /\ UNCHANGED <<tables, open, columns, stored, intact>>

(* writeFinding: when the INSERT cannot be prepared the table is migrated  *)
(* once more.                                                              *)
WriteFinding(ok) ==
  LET t == IF FindingColumns \subseteq tables.findings THEN tables
           ELSE AddAttack(FindingsTable(tables, ok), ok)
  IN  /\ open /\ writes < MaxWrites
      /\ writes' = writes + 1
      /\ tables' = t
      /\ dropped' = (dropped \/ (ok = Statements
                                 /\ ~(FindingColumns \subseteq t.findings)))
      /\ UNCHANGED <<open, columns, stored, intact>>

(* The columns are remembered by the address of the handle: the next one   *)
(* may get the same, unless it belongs to another process.                 *)
Close ==
  /\ open
  /\ open' = FALSE
  /\ columns' \in {columns, {}}
  /\ UNCHANGED <<tables, writes, stored, intact, dropped>>

StoreNext ==
  \/ \E ok \in SUBSET Statements : Open(ok)
  \/ \E r \in Records : \E done \in BOOLEAN : WriteEvent(r, done)
  \/ \E ok \in SUBSET Statements : WriteFinding(ok)
  \/ Close

StoreSpec == StoreInit /\ [][StoreNext]_storeVars

-----------------------------------------------------------------------------
(* TYPE: tables have columns that some version gave them.                  *)
StoreTypeOK ==
  /\ tables \in [events : SUBSET EventColumns, findings : SUBSET FindingColumns]
  /\ {open, intact, dropped} \subseteq BOOLEAN
  /\ columns \subseteq EventColumns
  /\ writes \in 0..MaxWrites
  /\ \A row \in stored :
       /\ row.of \in Records
       /\ row.filled \subseteq row.given /\ row.given \subseteq EventColumns

(* README.md:125: after a migration none of whose statements fails both    *)
(* tables have what the INSERTs name, whatever version made them; an old   *)
(* Events that no index fits does not keep Findings from being made.       *)
Migrated ==
  open /\ intact =>
    /\ CoreColumns \cup AttackColumns \subseteq tables.events
    /\ tables.findings = FindingColumns

(* The columns remembered are columns of the table, though they may be     *)
(* those of an earlier handle: no INSERT names one that is not there.      *)
InsertFits == columns \subseteq tables.events

(* A finding is lost only when a statement fails in that call: a migration *)
(* that failed before, at the opening, is made up for.                     *)
FindingKept == ~dropped

(* What an event has under either spelling of a field, wherever it carried *)
(* it, a rule finds in every column that has either name: the order of the *)
(* copies in _enrichSigmaFields lets each spelling fill the other, and no  *)
(* table has to have both.                                                 *)
PairsKept ==
  \A row \in stored : \A p \in SpellingPairs :
    {p[1], p[2]} \cap Normal[row.of].all # {} =>
      {p[1], p[2]} \cap row.given \subseteq row.filled
=============================================================================
