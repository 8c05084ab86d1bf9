\* The log gets longer than what makes it flush.
SPECIFICATION Spec
CONSTANTS
  Inputs <- Accepted
  NumForeign = 2
  QueueBound = 1
  MAX_LEN = 1
INVARIANT
  LoggedOnce
CHECK_DEADLOCK FALSE
