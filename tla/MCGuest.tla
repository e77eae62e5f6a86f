------------------------------ MODULE MCGuest ------------------------------
(* The guest for TLC: the events, the windows and the records.             *)
EXTENDS GuestProcess

(* 1 and 2 act, 3 is their target; thread 1 is a thread of 3.              *)
Blank == [name |-> None, provider |-> "Kernel", task |-> None, id |-> 0,
          pid |-> None, tid |-> None, src |-> None, tgt |-> None,
          ttid |-> None, proc |-> None, image |-> None, simage |-> None,
          timage |-> None, succeeded |-> FALSE, suspicious |-> FALSE,
          object |-> None]

Act(n, s) ==
  [Blank EXCEPT !.name = n, !.pid = s, !.src = s, !.tgt = 3, !.ttid = 1]

Accesses ==
  {[Blank EXCEPT !.provider = "KernelAudit", !.id = 5, !.pid = s, !.src = s,
                 !.tgt = 3, !.succeeded = TRUE, !.suspicious = TRUE] : s \in {1, 2}}

ThreadRecord ==
  [Blank EXCEPT !.task = "Thread", !.pid = 3, !.src = 3, !.tgt = 3,
                !.proc = 3, !.ttid = 1]

SysmonImage ==
  [Blank EXCEPT !.provider = "Sysmon", !.pid = 1, !.src = 1, !.tgt = 3,
                !.timage = CHOOSE i \in Images : i \in Lsass]

SysmonRunKey ==
  [Blank EXCEPT !.provider = "Sysmon", !.name = "SetValue", !.pid = 1,
                !.src = 1, !.object = "SoftwareRunKey"]

MCEvents ==
  Accesses
  \cup {Act(n, 1) : n \in {"CreateRemoteThread", "QueueUserAPC",
                           "SuspendThread", "SetThreadContext", "ResumeThread"}}
  \cup {ThreadRecord, SysmonImage, SysmonRunKey}

MCDedup == [d \in Detectors |-> 1]

MCSnakeCase ==
  [EventTime |-> "event_time", RuleName |-> "rule_name", AttackTactic |-> "attack_tactic",
   Prevention |-> "prevention", EventId |-> "event_id", Image |-> "image",
   ObjectName |-> "object_name", object_name |-> "object_name", localport |-> "localport",
   CommandLine |-> "command_line", State |-> "state", ObjectClass |-> "object_class"]

(* Records with the fields the Sigma normalisation is hardest on.          *)
Prop(n, s, k) == [name |-> n, skip |-> s, read |-> k]
Fields1(names) == [n \in names |-> "value"]

EtwRecord(payload, proc, op, parent, labelled) ==
  [etw |-> TRUE, top |-> Fields1({"event_id", "ts", "host", "provider"}),
   payload |-> payload, proc |-> Fields1(proc), op |-> Fields1(op),
   parent |-> Fields1(parent), labelled |-> labelled]

MCRecords == {
  EtwRecord(<<Prop("FileObject", TRUE, "range"), Prop("FileName", FALSE, "value")>>,
            {"name", "path"}, {"op"}, {}, FALSE),
  EtwRecord(<<Prop("PPID", FALSE, "value"), Prop("ObjectName", FALSE, "range"),
              Prop("localport", FALSE, "value")>>,
            {}, {}, {"ParentImage", "ParentProcessName"}, TRUE),
  EtwRecord(<<Prop("SrcPort", FALSE, "value"), Prop("TargetObject", FALSE, "value"),
              Prop("object_class", FALSE, "value"), Prop("STATE", FALSE, "value"),
              Prop("Commandline", FALSE, "mismatch")>>, {}, {}, {}, FALSE),
  [etw |-> FALSE, top |-> Fields1({"event_id", "ts", "object_name", "ObjectClas"}),
   payload |-> <<>>, proc |-> NoFields, op |-> NoFields, parent |-> NoFields,
   labelled |-> TRUE] }
=============================================================================
