-------------------------------- MODULE Ring --------------------------------
(***************************************************************************)
(* The overlay on which best-effort-broadcast.cpp broadcasts: process id   *)
(* sends to NeighborsPerSide(n) processes on each side of it on a ring of  *)
(* n processes, and to no one else.                                        *)
(***************************************************************************)
EXTENDS Integers, Sequences

\* Slip: the floor instead of the ceiling.
FlooredNeighborsPerSide(n) == n \div 4

\* The code's "ceiling of division by 4".
NeighborsPerSide(n) == (n + 3) \div 4

\* Slip: the left neighbors are one off.
LopsidedRing(id, n) ==
  [i \in 1 .. 2 * NeighborsPerSide(n) |->
     LET offset == (i + 1) \div 2
     IN  IF i % 2 = 1 THEN (id + offset) % n ELSE (id + n - offset - 1) % n]

\* The vector create_n_connected_ring(id, n) returns: for every offset, the
\* right neighbor and then the left one.  With two hosts it is the other one,
\* and a single host has no neighbor.
create_n_connected_ring(id, n) ==
  IF n = 1 THEN << >>
  ELSE IF n = 2 THEN << 1 - id >>
  ELSE [i \in 1 .. 2 * NeighborsPerSide(n) |->
          LET offset == (i + 1) \div 2
          IN  IF i % 2 = 1 THEN (id + offset) % n ELSE (id + n - offset) % n]

\* The processes id sends to.
Neighbors(id, n) ==
  { create_n_connected_ring(id, n)[i] :
      i \in DOMAIN create_n_connected_ring(id, n) }

=============================================================================
