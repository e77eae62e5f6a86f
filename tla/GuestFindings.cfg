\* the monitor alone, and what becomes of a finding
SPECIFICATION GuestSpec
CONSTANTS
  Events <- MCEvents
  Pids = {1, 2, 3}
  Tids = {1}
  Images = {lsassexe}
  Lsass = {lsassexe}
  None = None
  CorrelationWindow = 1
  SequenceWindow = 2
  DedupWindow <- MCDedup
  DedupRetention = 2
  XprocTTL = 2
  TidTTL = 2
  MaxLag = 1
  MaxTime = 1
  MaxEvents = 0
  Procs = {p1}
  BatchSize = 2
  MaxRecords = 2
  Records <- MCRecords
  IndexColumns = {"EventTime"}
  CoreColumns = {"RuleName"}
  AttackColumns = {"AttackTactic", "Prevention"}
  OtherColumns = {"EventId", "Image", "ObjectName", "object_name", "localport", "CommandLine", "State", "ObjectClass"}
  SnakeCase <- MCSnakeCase
  MaxWrites = 0
\* the process ends
CHECK_DEADLOCK FALSE
INVARIANTS
  StoresFindings
