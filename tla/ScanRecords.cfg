\* two calls for one bad sample, every failure
SPECIFICATION FairSpec
CONSTANTS
  Calls = {c1, c2}
  Samples = {h1}
  Bad = {h1}
  Faults = {"net", "db", "thread", "data", "vm", "crash"}
  None = None
\* every call ends
CHECK_DEADLOCK FALSE
INVARIANTS
  TypeOK
  InProgressIsServed
  VerdictsAreExact
PROPERTIES
  TellsVerdicts
  VerdictsArrive
