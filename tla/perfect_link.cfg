\* Two messages, both threads, both ends stopped anywhere, over a network that
\* loses, reorders and once repeats datagrams; what may be stopped must not stop
\* the others from getting through.
SPECIFICATION FairSpec
CONSTANTS
  MaxDuplicates = 1
  MaxSends = 2
  MaxQueued = 2
INVARIANTS
  IInv
  NotForgotten
  AckedWasDelivered
PROPERTIES
  ImplementsReliableChannel
  EverythingArrives
  RetransmissionStops
CHECK_DEADLOCK FALSE
