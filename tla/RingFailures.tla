---------------------------- MODULE RingFailures ----------------------------
(***************************************************************************)
(* The ring of best-effort-broadcast.cpp for every number of hosts up to   *)
(* MaxHosts, while a minority of them stops one after the other.           *)
(***************************************************************************)
EXTENDS Ring, FiniteSets

CONSTANT MaxHosts  \* bound: the largest system looked at

\* parser.hpp refuses a hosts file with fewer than two hosts.
ASSUME MaxHostsAssumption == MaxHosts \in Nat /\ MaxHosts >= 2

VARIABLES
  n,       \* number of hosts
  crashed  \* hosts that have stopped

vars == << n, crashed >>

Host == 0 .. n - 1

Init ==
  /\ n \in 2 .. MaxHosts
  /\ crashed = {}

\* One more host stops; a minority of the hosts may.
Crash(p) ==
  /\ p \notin crashed
  /\ 2 * (Cardinality(crashed) + 1) < n
  /\ crashed' = crashed \cup {p}
  /\ UNCHANGED n

Next == \E p \in Host : Crash(p)

Spec == Init /\ [][Next]_vars

-----------------------------------------------------------------------------
Running == Host \ crashed

\* The running hosts that a message of a running host in S reaches in one hop.
Reach(S) == S \cup { q \in Running : \E p \in S : q \in Neighbors(p, n) }

\* The sets of hosts that a message does not leave.
Closed(S) == Reach(S) = S

\* create_n_connected_ring lists hosts, each at most once and never id itself,
\* so that each neighbor is sent one copy; and links go both ways, so that the
\* neighbor's own copy, which is its acknowledgement, comes back.
RingIsWellFormed ==
  \A p \in Host :
    LET ring == create_n_connected_ring(p, n)
    IN  /\ Neighbors(p, n) \subseteq Host \ {p}
        /\ \A i, j \in DOMAIN ring : ring[i] = ring[j] => i = j
        /\ \A q \in Neighbors(p, n) : p \in Neighbors(q, n)

\* The relays of the running hosts carry a message from each of them to all of
\* them: no minority of crashes cuts the ring into parts.  This is what a
\* quarter of the hosts on each side, rounded up, is just enough for.
RunningHostsStayConnected ==
  \A S \in SUBSET Running : Closed(S) => S = {} \/ S = Running

\* As long as nobody crashes, neighbors and self make a quorum.
NeighborsMakeQuorum ==
  \A p \in Host : Cardinality(Neighbors(p, n) \cup {p}) > n \div 2

=============================================================================
