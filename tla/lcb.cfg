\* Three hosts with dependencies that have to be followed through a third one,
\* messages that queue up, and a host that crashes, also inside the loop.
SPECIFICATION FairSpec
CONSTANTS
  N = 3
  NumMessages = 2
  Dependencies <- Chain
  Budget <- Uneven
  MaxUpcalls <- Listeners
  MaxCrashes = 1
INVARIANTS
  IInv
  NothingLeftBehind
  MoreArrivalsMoreDeliveries
PROPERTIES
  ImplementsCausalOrder
  LoopEnds
CHECK_DEADLOCK FALSE
