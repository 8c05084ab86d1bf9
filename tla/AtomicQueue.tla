----------------------------- MODULE AtomicQueue -----------------------------
(***************************************************************************)
(* What a queue between two threads promises: its operations happen at one *)
(* moment between call and return, items come out in the order they went   *)
(* in, each once, and only an empty queue makes a call return nothing.     *)
(***************************************************************************)
EXTENDS Integers, Sequences

VARIABLES
  inner,  \* the items in the queue
  pushed, \* how many were pushed: item i is the i-th
  call,   \* the operation the consumer is in, or "none"
  got     \* the items the consumer was given

vars == << inner, pushed, call, got >>

Init ==
  /\ inner = << >>
  /\ pushed = 0
  /\ call = "none"
  /\ got = << >>

Push ==
  /\ pushed' = pushed + 1
  /\ inner' = Append(inner, pushed')
  /\ UNCHANGED << call, got >>

Call(op) ==
  /\ call = "none"
  /\ call' = op
  /\ UNCHANGED << inner, pushed, got >>

ReturnItem ==
  /\ call # "none"
  /\ inner # << >>
  /\ got' = Append(got, Head(inner))
  /\ inner' = Tail(inner)
  /\ call' = "none"
  /\ UNCHANGED pushed

ReturnNothing ==
  /\ call \in {"try_pop", "try_pop_until"}
  /\ inner = << >>
  /\ call' = "none"
  /\ UNCHANGED << inner, pushed, got >>

Next ==
  \/ Push
  \/ \E op \in {"pop", "try_pop", "try_pop_until"} : Call(op)
  \/ ReturnItem
  \/ ReturnNothing

Spec == Init /\ [][Next]_vars

=============================================================================
