\* Three hosts: the ring is complete and one of them, a minority, may crash.
SPECIFICATION FairSpec
CONSTANTS
  N = 3
  NumMessages = 1
  Originators <- TwoOriginators
  MaxCrashes = 1
INVARIANTS
  IInv
  DeliveredSurvivesMinorityCrash
PROPERTIES
  ImplementsUniformBroadcast
  Validity
  UniformAgreement
CHECK_DEADLOCK FALSE
