\* Interrupting through the handle of a finished process.
SPECIFICATION Spec
CONSTANTS
  Addr = {a1}
  Proc = {p1, p2}
  NULL = NULL
  MaxTime = 0
  Delays = {}
  MaxGen = 2
  MaxCbs = 1
  RunModes = {"run"}
  RtModes = {}
  InterruptNew = FALSE
  StaleHandles = TRUE
SYMMETRY Symmetry
INVARIANTS
  InterruptReachesAddressee
