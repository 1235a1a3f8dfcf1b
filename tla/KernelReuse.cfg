\* One process, its structure used twice, in a program with conditions.
SPECIFICATION CondSpec
CONSTANTS
  Addr = {a1, a2}
  Proc = {p1}
  NULL = NULL
  MaxTime = 2
  Delays = {0, 1, 2}
  MaxGen = 2
  MaxCbs = 1
  RunModes = {"step", "until"}
  RtModes = {}
  InterruptNew = FALSE
  StaleHandles = FALSE
  MaxInputs = 2
SYMMETRY Symmetry
INVARIANTS
  TypeOK
  PoolIsFree
  NoSpuriousWakeup
  InterruptPrompt
  ResumeAtOnce
  PooledAreDead
  InterruptReachesAddressee
  DoneMeansFinished
PROPERTIES
  ClockMonotonic
