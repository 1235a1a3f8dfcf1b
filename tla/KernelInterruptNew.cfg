\* Interrupting a process before it started.
SPECIFICATION Spec
CONSTANTS
  Addr = {a1}
  Proc = {p1}
  NULL = NULL
  MaxTime = 0
  Delays = {}
  MaxGen = 1
  MaxCbs = 1
  RunModes = {"run"}
  RtModes = {}
  InterruptNew = TRUE
  StaleHandles = FALSE
SYMMETRY Symmetry
INVARIANTS
  InterruptPrompt
