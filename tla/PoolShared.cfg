\* one sandbox prepared by a server and by hand, vmrun commands that fail and states that are lost
SPECIFICATION Spec
CONSTANTS
  WarmCount = 1
  Samples = {h1}
  Scans = {s1}
  Preloaders = {p1}
  Operators = {o1}
  None = None
  Faults = {"lost", "vmrun"}
  MaxBoots = 1
SYMMETRY Symm
INVARIANTS
  OneCritical
  LockIsHeld
