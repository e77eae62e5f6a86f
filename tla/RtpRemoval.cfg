\* convicted files are quarantined or deleted under running handlers and under scans on demand at both depths
SPECIFICATION Spec
CONSTANTS
  Procs = {p1, p2}
  Pids = {i1, i2}
  Images = {evil, known}
  Quarantined = {}
  None = None
  Faults = {}
  Gui = Gui
  ScanDepths = {"standard", "deep"}
  Signed = {}
  KnownBad = {known}
  YaraKill = {evil, known}
  YaraNoise = {}
  HighEntropy = {}
  SandboxBad = {}
  RemovesFiles = TRUE
  MaxBoots = 1
  known = known
  evil = evil
  grey = grey
  odd = odd
SYMMETRY Symm
\* every process ends, and the service may be down for good
CHECK_DEADLOCK FALSE
INVARIANTS
  CleanOnlyIfRemoved
  ConvictsEnded
