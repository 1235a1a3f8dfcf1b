\* Two slots: a line forms, moves up and vanishes; holders are evicted.
SPECIFICATION MCSpec
CONSTANTS
  Kinds = {"fifo", "priority", "preemptive"}
  Event = {e1, e2, e3, e4}
  capacity = 2
  Priorities = {1, 2}
  Proc = {p}
  NULL = NULL
SYMMETRY Symmetry
INVARIANTS
  TypeOK
  RequestsRecycled
  InUseCountsHolders
  NoInversion
  EvictedIsInterrupted
  ReleaseFreesSlot
PROPERTIES
  ImplementsSemaphore
  ImplementsPrioritySemaphore
CHECK_DEADLOCK FALSE
