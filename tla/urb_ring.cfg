\* Four hosts: each has two neighbors and one host it never talks to.
SPECIFICATION FairSpec
CONSTANTS
  N = 4
  NumMessages = 1
  Originators <- OneOriginator
  MaxCrashes = 2
INVARIANTS
  QuietMeansAgreed
PROPERTIES
  LinksAreReliableChannels
  HoldersDeliver
CHECK_DEADLOCK FALSE
