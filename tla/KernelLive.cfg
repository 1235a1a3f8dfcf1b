\* Two processes that wait for one event, wake and interrupt each other for ever.
SPECIFICATION FairSpec
CONSTANTS
  Addr = {a1}
  Proc = {p1, p2}
  NULL = NULL
  MaxTime = 1
  Delays = {0, 1}
  MaxGen = 1
  MaxCbs = 2
  RunModes = {"run"}
  RtModes = {"strict"}
  InterruptNew = TRUE
  StaleHandles = FALSE
INVARIANTS
  QueuedOnce
  NoLostWakeup
PROPERTIES
  ResumedEventually
