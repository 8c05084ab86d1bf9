----------------------------- MODULE CausalOrder -----------------------------
(***************************************************************************)
(* What localized causal broadcast promises: every process is handed each  *)
(* message at most once, and only after everything the message depends on. *)
(* A message depends on the earlier messages of its originator, on those   *)
(* its originator had been handed by the processes that affect it, and on  *)
(* what these depend on.                                                   *)
(***************************************************************************)
EXTENDS Naturals

CONSTANTS
  Process,   \* the processes of the system
  Message,   \* m.originator broadcasts m as number m.bcast_seq_num
  Affects    \* Affects[p]: the processes whose messages affect p

VARIABLES
  broadcast,  \* the messages broadcast so far
  past,       \* past[m]: what m depends on, fixed when m is broadcast
  delivered,  \* delivered[p][m]: how often p was handed m
  crashed     \* the processes that have stopped

vars == << broadcast, past, delivered, crashed >>

\* The messages the next message m of m.originator depends on by itself.
DirectDependencies(m) ==
  { k \in Message :
      \/ k.originator = m.originator /\ k.bcast_seq_num < m.bcast_seq_num
      \/ k.originator \in Affects[m.originator] /\ delivered[m.originator][k] > 0 }

Init ==
  /\ broadcast = {}
  /\ past = [m \in Message |-> {}]
  /\ delivered = [p \in Process |-> [m \in Message |-> 0]]
  /\ crashed = {}

\* Messages are broadcast in the order of their numbers.
Broadcast(m) ==
  /\ m.originator \notin crashed
  /\ m \notin broadcast
  /\ DirectDependencies(m) \subseteq broadcast
  /\ broadcast' = broadcast \cup {m}
  /\ past' = [past EXCEPT ![m] =
                DirectDependencies(m)
                  \cup UNION { past[k] : k \in DirectDependencies(m) }]
  /\ UNCHANGED << delivered, crashed >>

Deliver(p, m) ==
  /\ p \notin crashed
  /\ m \in broadcast
  /\ delivered[p][m] = 0
  /\ \A k \in past[m] : delivered[p][k] > 0
  /\ delivered' = [delivered EXCEPT ![p][m] = @ + 1]
  /\ UNCHANGED << broadcast, past, crashed >>

Crash(p) ==
  /\ p \notin crashed
  /\ crashed' = crashed \cup {p}
  /\ UNCHANGED << broadcast, past, delivered >>

Next ==
  \/ \E m \in Message : Broadcast(m)
  \/ \E p \in Process, m \in Message : Deliver(p, m)
  \/ \E p \in Process : Crash(p)

Spec == Init /\ [][Next]_vars

=============================================================================
