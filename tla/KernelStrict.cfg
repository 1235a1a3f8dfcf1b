\* A strict real-time run that falls behind, and is continued without real time.
SPECIFICATION Spec
CONSTANTS
  Addr = {a1}
  Proc = {p1}
  NULL = NULL
  MaxTime = 2
  Delays = {1}
  MaxGen = 1
  MaxCbs = 1
  RunModes = {"run", "until"}
  RtModes = {"off", "strict"}
  InterruptNew = FALSE
  StaleHandles = FALSE
SYMMETRY Symmetry
PROPERTIES
  ClockMonotonic
