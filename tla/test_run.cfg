\* Three processes, one of which may be terminated, and two stressors.
SPECIFICATION FairSpec
CONSTANTS
  Process = {p1, p2, p3}
  Stressor = {t1, t2}
  attempts = 2
INVARIANTS
  OnlyMinorityTerminated
  BarrierHolds
  RecordedStateIsReal
PROPERTY
  RunEnds
CHECK_DEADLOCK FALSE
