\* Five entries of two times and two priorities: a last entry that is a left
\* and one that is a right child, on two levels, in an array that grows twice.
SPECIFICATION Spec
CONSTANTS
  Times = {0, 1}
  Priorities = {0, 1}
  MaxSeq = 5
  FirstCap = 2
INVARIANTS
  TypeOK
  HeapOrder
PROPERTIES
  ImplementsQueue
CHECK_DEADLOCK FALSE
