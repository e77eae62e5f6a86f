\* injections and records of two channels, a monitor with its watchdog, a database an older version left behind
SPECIFICATION GuestSpec
CONSTANTS
  Events <- MCEvents
  Pids = {1, 2, 3}
  Tids = {1}
  Images = {lsassexe}
  Lsass = {lsassexe}
  None = None
  CorrelationWindow = 1
  SequenceWindow = 2
  DedupWindow <- MCDedup
  DedupRetention = 2
  XprocTTL = 2
  TidTTL = 2
  MaxLag = 1
  MaxTime = 4
  MaxEvents = 4
  Procs = {p1}
  BatchSize = 2
  MaxRecords = 2
  Records <- MCRecords
  IndexColumns = {"EventTime"}
  CoreColumns = {"RuleName"}
  AttackColumns = {"AttackTactic", "Prevention"}
  OtherColumns = {"EventId", "Image", "ObjectName", "object_name", "localport", "CommandLine", "State", "ObjectClass"}
  SnakeCase <- MCSnakeCase
  MaxWrites = 2
\* the process ends
CHECK_DEADLOCK FALSE
INVARIANTS
  AnalysisTypeOK
  NoRepeat
  HijackJustified
  HijackCaught
  LsassCaught
  MonitorTypeOK
  TargetsOnly
  SysmonOnce
  TraceOutlivesWorker
  StoppedInTime
  SuccessMeansTarget
  StoreTypeOK
  Migrated
  InsertFits
  FindingKept
  PairsKept
PROPERTIES
  ReportsHistory
  MonitorTerminates
