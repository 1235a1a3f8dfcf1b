\* A plain get after a drained put was handed on.
SPECIFICATION MCSpec
CONSTANTS
  Kinds = {"filter"}
  Event = {e1, e2, e3, e4, e5}
  Item = {x, y}
  Priorities = {}
  Capacities = {1}
  MaxItems = 4
  Amounts = {}
  capacity = 0
  init = 0
INVARIANTS
  PlainGetsWaitForItems
CHECK_DEADLOCK FALSE
