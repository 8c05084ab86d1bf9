--------------------------- MODULE ReliableChannel ---------------------------
(***************************************************************************)
(* What a perfect link promises for the messages one process sends to      *)
(* another: each is handed over at most once, in any order.                *)
(***************************************************************************)
EXTENDS Naturals

CONSTANT Num  \* the messages, by their sequence numbers

VARIABLES
  sent,     \* the messages sent
  upcalls,  \* upcalls[n]: how often the receiver's observer was handed n
  crashed   \* which of the two ends have stopped

vars == << sent, upcalls, crashed >>

Init ==
  /\ sent = {}
  /\ upcalls = [n \in Num |-> 0]
  /\ crashed = {}

Send(n) ==
  /\ "sender" \notin crashed
  /\ n \notin sent
  /\ sent' = sent \cup {n}
  /\ UNCHANGED << upcalls, crashed >>

Deliver(n) ==
  /\ "receiver" \notin crashed
  /\ n \in sent
  /\ upcalls[n] = 0
  /\ upcalls' = [upcalls EXCEPT ![n] = @ + 1]
  /\ UNCHANGED << sent, crashed >>

Crash(end) ==
  /\ end \notin crashed
  /\ crashed' = crashed \cup {end}
  /\ UNCHANGED << sent, upcalls >>

Next ==
  \/ \E n \in Num : Send(n) \/ Deliver(n)
  \/ \E end \in {"sender", "receiver"} : Crash(end)

Spec == Init /\ [][Next]_vars

-----------------------------------------------------------------------------
\* What is sent arrives, if both ends stay up.
EverythingArrives ==
  \A n \in Num : n \in sent ~> (upcalls[n] > 0 \/ crashed # {})

=============================================================================
