\* Conditions over three events, made by the host and its callbacks, in runs
\* that may be aborted.
SPECIFICATION CondSpec
CONSTANTS
  Addr = {a1, a2, a3}
  Proc = {}
  NULL = NULL
  MaxTime = 1
  Delays = {0, 1}
  MaxGen = 1
  MaxCbs = 1
  RunModes = {"run"}
  RtModes = {"strict"}
  InterruptNew = FALSE
  StaleHandles = FALSE
  MaxInputs = 2
SYMMETRY Symmetry
INVARIANTS
  CondTypeOK
  QueuedOnce
  FiresWhenMet
  StateLifetime
