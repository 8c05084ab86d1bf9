\* Every ring of two to nine hosts, with every minority of them crashed.
SPECIFICATION Spec
CONSTANT MaxHosts = 9
INVARIANTS
  RingIsWellFormed
  RunningHostsStayConnected
  NeighborsMakeQuorum
CHECK_DEADLOCK FALSE
