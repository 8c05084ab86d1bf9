--------------------------- MODULE ConcurrentQueue ---------------------------
(***************************************************************************)
(* concurrent-queue.hpp: a deque behind a mutex and a condition variable.  *)
(* Each queue of the program has one thread that pushes and one that pops: *)
(* the receiver's and the main one, or the main one and a peer's.          *)
(***************************************************************************)
EXTENDS Integers, Sequences

CONSTANT MaxPushes  \* bound: how many items are pushed; the code has none

ASSUME MaxPushesAssumption == MaxPushes \in Nat

VARIABLES
  mutex,     \* which thread has it: "producer", "consumer" or "nobody"
  inner,     \* the deque
  pushed,    \* how many items were pushed: item i is the i-th
  producer,  \* where the producer is: "away", to "lock", to "push", to "notify"
  consumer,  \* where the consumer is: "away", to "lock", "checking" the queue,
             \* or "waiting" on the condition variable
  call,      \* the operation it is in, or "none"
  late,      \* has the time point of its try_pop_until passed in the wait
  got        \* history: the items it was given

vars == << mutex, inner, pushed, producer, consumer, call, late, got >>

\* What the queue promises: to be shown.
Abstract == INSTANCE AtomicQueue

Operation == {"pop", "try_pop", "try_pop_until"}

Init ==
  /\ mutex = "nobody"
  /\ inner = << >>
  /\ pushed = 0
  /\ producer = "away"
  /\ consumer = "away"
  /\ call = "none"
  /\ late = FALSE
  /\ got = << >>

-----------------------------------------------------------------------------
(***************************************************************************)
(* push.                                                                   *)
(***************************************************************************)
BeginPush ==
  /\ producer = "away"
  /\ pushed < MaxPushes
  /\ producer' = "lock"
  /\ UNCHANGED << mutex, inner, pushed, consumer, call, late, got >>

PushLocks ==
  /\ producer = "lock"
  /\ mutex = "nobody"
  /\ mutex' = "producer"
  /\ producer' = "push"
  /\ UNCHANGED << inner, pushed, consumer, call, late, got >>

\* Slip: nobody is notified.
ForgetsNotify == "away"

\* notify_one comes after the block of the lock.
ThenNotifies == "notify"

\* push_back, and the end of the block unlocks.
PushBack ==
  /\ producer = "push"
  /\ pushed' = pushed + 1
  /\ inner' = Append(inner, pushed')
  /\ mutex' = "nobody"
  /\ producer' = ThenNotifies
  /\ UNCHANGED << consumer, call, late, got >>

\* Slip: the thread that waits is not the one that is woken.
WakesNobody == consumer

\* Where the consumer is after a notification: one that waits is to lock again.
Woken == IF consumer = "waiting" THEN "lock" ELSE consumer

notify_one ==
  /\ producer = "notify"
  /\ consumer' = Woken
  /\ producer' = "away"
  /\ UNCHANGED << mutex, inner, pushed, call, late, got >>

-----------------------------------------------------------------------------
(***************************************************************************)
(* pop, try_pop and try_pop_until.                                         *)
(***************************************************************************)
Call(op) ==
  /\ consumer = "away"
  /\ consumer' = "lock"
  /\ call' = op
  /\ late' = FALSE
  /\ UNCHANGED << mutex, inner, pushed, producer, got >>

\* The unique_lock of the operation, or the wait's before it returns.
PopLocks ==
  /\ consumer = "lock"
  /\ mutex = "nobody"
  /\ mutex' = "consumer"
  /\ consumer' = "checking"
  /\ UNCHANGED << inner, pushed, producer, call, late, got >>

\* Slip: once it is late the queue is not looked at again.
EmptyOrLate == inner = << >> \/ late

\* The predicate of the wait is looked at whenever it has the lock, even late.
Empty == inner = << >>

\* The operation returns and unlocks.
Returns ==
  /\ mutex' = "nobody"
  /\ consumer' = "away"
  /\ call' = "none"

ReturnItem ==
  /\ consumer = "checking"
  /\ ~ Empty
  /\ Returns
  /\ got' = Append(got, Head(inner))
  /\ inner' = Tail(inner)
  /\ UNCHANGED << pushed, producer, late >>

ReturnNothing ==
  /\ consumer = "checking"
  /\ Empty
  /\ call = "try_pop" \/ (call = "try_pop_until" /\ late)
  /\ Returns
  /\ UNCHANGED << inner, pushed, producer, late, got >>

\* Waiting unlocks, in one step.
Wait ==
  /\ consumer = "checking"
  /\ Empty
  /\ call = "pop" \/ (call = "try_pop_until" /\ ~ late)
  /\ mutex' = "nobody"
  /\ consumer' = "waiting"
  /\ UNCHANGED << inner, pushed, producer, call, late, got >>

\* The wait ends without a notification: for no reason, or since it is late.
WakeUp ==
  /\ consumer = "waiting"
  /\ consumer' = "lock"
  /\ late' \in IF call = "try_pop_until" THEN BOOLEAN ELSE {FALSE}
  /\ UNCHANGED << mutex, inner, pushed, producer, call, got >>

Push == PushLocks \/ PushBack \/ notify_one
Pop == PopLocks \/ ReturnItem \/ ReturnNothing \/ Wait

Next ==
  \/ BeginPush
  \/ Push
  \/ \E op \in Operation : Call(op)
  \/ Pop
  \/ WakeUp

Spec == Init /\ [][Next]_vars

\* The threads run once they are in an operation.  Nothing makes them call one,
\* and no wait ends by itself but that for a time point.
FairSpec ==
  Spec /\ WF_vars(Push) /\ WF_vars(Pop) /\ WF_vars(WakeUp /\ late')

-----------------------------------------------------------------------------
(***************************************************************************)
(* Properties.                                                             *)
(***************************************************************************)
TypeOK ==
  /\ mutex \in {"nobody", "producer", "consumer"}
  /\ inner \in Seq(Nat)
  /\ pushed \in Nat
  /\ producer \in {"away", "lock", "push", "notify"}
  /\ consumer \in {"away", "lock", "checking", "waiting"}
  /\ call \in Operation \cup {"none"}
  /\ late \in BOOLEAN
  /\ got \in Seq(Nat)

\* The consumer does not sleep on a queue that has something in it, unless the
\* producer is about to wake it: the notification, which comes after the lock
\* was given back, is never lost.
NoMissedNotification ==
  consumer = "waiting" /\ inner # << >> => producer = "notify"

\* Who is in a block of a lock has the mutex, and only who is in an operation
\* is anywhere in it.
LocksAreHeld ==
  /\ producer = "push" <=> mutex = "producer"
  /\ consumer = "checking" <=> mutex = "consumer"
  /\ consumer = "away" <=> call = "none"
  /\ consumer = "waiting" => call # "try_pop"

\* Why no wake-up is missed: the inductive invariant.
IInv == TypeOK /\ LocksAreHeld /\ NoMissedNotification

\* Locks, waiting and notifying implement a queue whose operations are atomic:
\* items come out in order, each once, and a timed wait that ends together with
\* a push does not return nothing while the item is there.
ImplementsAtomicQueue == Abstract!Spec

\* An operation on a queue that has, or gets, an item comes back.
ItemEndsOperation ==
  consumer # "away" /\ inner # << >> ~> consumer = "away"

=============================================================================
