\* A producer that pushes five items and a consumer that calls any operation,
\* woken for no reason, by time or by the producer.
SPECIFICATION FairSpec
CONSTANT MaxPushes = 5
INVARIANTS
  NoMissedNotification
PROPERTIES
  ImplementsAtomicQueue
  ItemEndsOperation
CHECK_DEADLOCK FALSE
