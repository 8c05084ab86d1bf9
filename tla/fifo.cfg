\* Two hosts with three messages each, one of which may crash, also inside the
\* loop.
SPECIFICATION Spec
CONSTANTS
  N = 2
  NumMessages = 3
  MaxCrashes = 1
INVARIANTS
  NeverPopsEmpty
  NothingLeftBehind
PROPERTY
  ImplementsFifoOrder
CHECK_DEADLOCK FALSE
