\* a server restart while the pool is prepared
SPECIFICATION Spec
CONSTANTS
  WarmCount = 1
  Samples = {h1}
  Scans = {s1}
  Preloaders = {p1, p2}
  Operators = {}
  None = None
  Faults = {}
  MaxBoots = 2
SYMMETRY Symm
INVARIANTS
  SoleUser
