\* Four hosts, one of which may crash: a minority.
SPECIFICATION FairSpec
CONSTANTS
  N = 4
  NumMessages = 1
  Originators <- OneOriginator
  MaxCrashes = 1
PROPERTY
  UniformAgreement
CHECK_DEADLOCK FALSE
