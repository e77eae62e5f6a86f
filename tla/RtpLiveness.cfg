\* no failure: what the fair threads bring about
SPECIFICATION FairSpec
CONSTANTS
  Procs = {p1, p2}
  Pids = {i1, i2}
  Images = {evil, grey}
  Quarantined = {}
  None = None
  Faults = {}
  Gui = Gui
  ScanDepths = {}
  Signed = {}
  KnownBad = {}
  YaraKill = {evil}
  YaraNoise = {}
  HighEntropy = {grey}
  SandboxBad = {grey}
  RemovesFiles = FALSE
  MaxBoots = 1
  known = known
  evil = evil
  grey = grey
  odd = odd
\* every process ends, and the service may be down for good
CHECK_DEADLOCK FALSE
PROPERTIES
  OpensGate
  ConvictsAreKilled
