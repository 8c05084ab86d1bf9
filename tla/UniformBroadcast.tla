-------------------------- MODULE UniformBroadcast --------------------------
(***************************************************************************)
(* What uniform reliable broadcast promises to the layer above it,         *)
(* independently of acknowledgements, relays and links: a process          *)
(* broadcasts messages, and every process is handed each broadcast message *)
(* at most once, in no particular order.                                   *)
(***************************************************************************)
EXTENDS Naturals

CONSTANTS
  Process,    \* the processes of the system
  Message     \* the messages they may broadcast; m.originator broadcasts m

VARIABLES
  broadcast,  \* the messages broadcast so far
  upcalls,    \* upcalls[p][m]: how often the layer above p was handed m
  crashed     \* the processes that have stopped

vars == << broadcast, upcalls, crashed >>

Init ==
  /\ broadcast = {}
  /\ upcalls = [p \in Process |-> [m \in Message |-> 0]]
  /\ crashed = {}

Broadcast(m) ==
  /\ m.originator \notin crashed
  /\ m \notin broadcast
  /\ broadcast' = broadcast \cup {m}
  /\ UNCHANGED << upcalls, crashed >>

\* No creation: only a broadcast message is handed over; no duplication: once.
Deliver(p, m) ==
  /\ p \notin crashed
  /\ m \in broadcast
  /\ upcalls[p][m] = 0
  /\ upcalls' = [upcalls EXCEPT ![p][m] = @ + 1]
  /\ UNCHANGED << broadcast, crashed >>

Crash(p) ==
  /\ p \notin crashed
  /\ crashed' = crashed \cup {p}
  /\ UNCHANGED << broadcast, upcalls >>

Next ==
  \/ \E m \in Message : Broadcast(m)
  \/ \E p \in Process, m \in Message : Deliver(p, m)
  \/ \E p \in Process : Crash(p)

Spec == Init /\ [][Next]_vars

-----------------------------------------------------------------------------
(***************************************************************************)
(* The two liveness halves of the promise, stated here and asked of the    *)
(* implementation under the fairness its links justify.                    *)
(***************************************************************************)
Delivered(p, m) == upcalls[p][m] > 0

\* A process that stays up is handed its own messages.
Validity ==
  \A m \in Message :
    m \in broadcast ~> (m.originator \in crashed \/ Delivered(m.originator, m))

\* A message handed to any process, even to one that crashes right after, is
\* handed to every process that stays up.
UniformAgreement ==
  \A m \in Message : \A p, q \in Process :
    Delivered(p, m) ~> (q \in crashed \/ Delivered(q, m))

=============================================================================
