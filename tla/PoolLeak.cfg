\* no failure at all
SPECIFICATION Spec
CONSTANTS
  WarmCount = 1
  Samples = {h1}
  Scans = {s1, s2}
  Preloaders = {p1}
  Operators = {}
  None = None
  Faults = {}
  MaxBoots = 1
SYMMETRY Symm
INVARIANTS
  BusyIsUsed
