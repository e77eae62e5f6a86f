\* scans of two samples one after another, runners that die and marks that fail, one server
SPECIFICATION Spec
CONSTANTS
  WarmCount = 1
  Samples = {h1, h2}
  Scans = {s1}
  Preloaders = {p1}
  Operators = {}
  None = None
  Faults = {"crash", "io"}
  MaxBoots = 1
SYMMETRY Symm
INVARIANTS
  TypeOK
  CleanGuest
  EvidenceOwn
PROPERTIES
  KeepsLease
