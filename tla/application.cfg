\* Started with good and bad command lines and files; up to two broadcasts and
\* two foreign messages, stopped anywhere; the last lines of the log make it
\* flush.
SPECIFICATION FairSpec
CONSTANTS
  Inputs <- AllInputs
  NumForeign = 2
  QueueBound = 2
  MAX_LEN = 3
INVARIANTS
  FilesAreReadByProcess
  StoppedWithItsLog
PROPERTIES
  BroadcastsAll
  ServedBetweenBroadcasts
CHECK_DEADLOCK FALSE
