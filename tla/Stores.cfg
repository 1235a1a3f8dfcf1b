\* Stores with two slots and with none counted; a container with amounts that
\* fit alone but not together, and one that fits only when full.
SPECIFICATION MCSpec
CONSTANTS
  Kinds = {"store", "filter", "priority", "container"}
  Event = {e1, e2, e3, e4, e5}
  Item = {x, y}
  Priorities = {1, 2}
  Capacities = {0, 2}
  MaxItems = 4
  Amounts = {1, 2, 4}
  capacity = 4
  init = 1
SYMMETRY Symmetry
INVARIANTS
  TypesKept
  GetsWaitForItems
  PutsWaitForRoom
  ServedWhenPossible
PROPERTIES
  ImplementsChannel
  ImplementsPriorityChannel
  EarliestTaker
  OvertakesNobody
  BlockedForEver
CHECK_DEADLOCK FALSE
