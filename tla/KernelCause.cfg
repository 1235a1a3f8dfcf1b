\* The cause of an interrupt, read with sim_process_interrupt_cause.
SPECIFICATION Spec
CONSTANTS
  Addr = {a1}
  Proc = {p1, p2}
  NULL = NULL
  MaxTime = 0
  Delays = {0}
  MaxGen = 1
  MaxCbs = 1
  RunModes = {"run"}
  RtModes = {}
  InterruptNew = FALSE
  StaleHandles = FALSE
SYMMETRY Symmetry
INVARIANTS
  CauseRetrievable
