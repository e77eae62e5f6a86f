\* every failure of the driver and of the service, two starts, processes that share scans
SPECIFICATION Spec
CONSTANTS
  Procs = {p1, p2}
  Pids = {i1, i2}
  Images = {known, evil, grey, odd}
  Quarantined = {known}
  None = None
  Faults = {"alloc", "suspend", "path", "resume", "kill", "spawn", "crash"}
  Gui = Gui
  ScanDepths = {}
  Signed = {}
  KnownBad = {known}
  YaraKill = {evil}
  YaraNoise = {}
  HighEntropy = {grey, odd}
  SandboxBad = {grey}
  RemovesFiles = FALSE
  MaxBoots = 2
  known = known
  evil = evil
  grey = grey
  odd = odd
SYMMETRY Symm
\* every process ends, and the service may be down for good
CHECK_DEADLOCK FALSE
INVARIANTS
  TypeOK
  NoOrphan
  PendingExact
  FutureServed
  ThreatsAreReal
PROPERTIES
  KeepsGate
  KillsByPid
