\* Three customers, three workers.
SPECIFICATION MCSpec
CONSTANTS
  Addr = {a1, a2, a3, a4, a5, a6, a7, a8, a9, a10, a11}
  Proc = {p1, p2, p3, p4}
  NULL = NULL
  MaxTime = 12
  Delays = {0, 1, 2}
  MaxGen = 4
  MaxCbs = 9
  RunModes = {"run"}
  RtModes = {}
  InterruptNew = FALSE
  StaleHandles = FALSE
  MaxInputs = 2
  Kinds = {"bank", "machine"}
  N_CUSTOMERS = 3
  N_WORKERS = 3
  capacity = 1
  Priorities = {1, 2}
  Gaps = {0, 1}
  Patience = {1, 2}
  Services = {1, 2}
INVARIANTS
  ServedAtCounter
  LeavesInTime
  WorksWithMachine
PROPERTIES
  EverybodyLeaves
CHECK_DEADLOCK FALSE
