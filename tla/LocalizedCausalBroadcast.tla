----------------------- MODULE LocalizedCausalBroadcast -----------------------
(***************************************************************************)
(* Localized causal broadcast (localized-causal-broadcast.cpp) for all N   *)
(* processes, on top of what uniform broadcast promises.                   *)
(*                                                                         *)
(* The layer below is the specification UniformBroadcast, not a model of   *)
(* its code: UniformReliableBroadcast is shown to implement it.  Its       *)
(* upcalls run deliver of this module, nested in the handler of a packet.  *)
(***************************************************************************)
EXTENDS Integers, Sequences, FiniteSets, FiniteSetsExt

CONSTANTS
  N,             \* number of hosts in the hosts file
  NumMessages,   \* num_messages of the config file
  Dependencies,  \* Dependencies[p]: the vector deps[p].depends of the config
  Budget,        \* bound: Budget[p] messages of p at most are broadcast
  MaxUpcalls,    \* bound: p is handed MaxUpcalls[p] messages at most
  MaxCrashes     \* bound: how many processes may crash

Process == 0 .. N - 1
Message == [originator : Process, bcast_seq_num : 0 .. NumMessages - 1]

\* parser.hpp refuses a hosts file with fewer than two hosts, and the config
\* file names hosts.
ASSUME NAssumption == N \in Nat /\ N >= 2
ASSUME NumMessagesAssumption == NumMessages \in Nat
ASSUME DependenciesAssumption == Dependencies \in [Process -> Seq(Process)]
ASSUME BoundsAssumption ==
  /\ Budget \in [Process -> 0 .. NumMessages]
  /\ MaxUpcalls \in [Process -> Nat]
  /\ MaxCrashes \in Nat

VARIABLES
  broadcast,      \* messages handed to the uniform broadcast
  upcalls,        \* upcalls[p][m]: how often it has handed m to p
  crashed,        \* processes that were terminated
  next_msg,       \* next_msg[p]: the sequence number p broadcasts next
  vector_clock,   \* vector_clock[m]: the clock that m carries
  current_clock,  \* current_clock[p][q]: messages of q delivered by p
  pending,        \* pending[p][q]: p's heap of messages of q
  it,             \* it[p]: where p's loop over pending is; N: not in deliver
  delivered,      \* delivered[p][m]: how often p called observer.deliver(m)
  past            \* history: what m depends on, see CausalOrder

below == << broadcast, upcalls, crashed >>
own   == << next_msg, vector_clock, current_clock, pending, it, delivered, past >>
vars  == << below, own >>

\* What the layer below promises.
Bc == INSTANCE UniformBroadcast

\* What this layer promises: to be shown.
Affects == [p \in Process |-> Range(Dependencies[p])]
Abstract == INSTANCE CausalOrder

-----------------------------------------------------------------------------
(***************************************************************************)
(* The helpers of the code.                                                *)
(***************************************************************************)

\* The top of a non-empty heap: its message with the least number.
Top(heap) ==
  CHOOSE m \in heap : \A k \in heap : m.bcast_seq_num <= k.bcast_seq_num

\* Slip: the clock that the message carries is not looked at.
CanDeliverInFifoOrder(p, m) ==
  m.bcast_seq_num <= current_clock[p][m.originator]

\* can_deliver: the clock of the originator, and those of the processes that
\* affect it, have caught up with m.
can_deliver(p, m) ==
  /\ m.bcast_seq_num <= current_clock[p][m.originator]
  /\ \A i \in DOMAIN vector_clock[m] :
       vector_clock[m][i] <= current_clock[p][Dependencies[m.originator][i]]

\* The queues of pending from p's iterator on whose top can be delivered.
Ready(p) ==
  { q \in it[p] .. N - 1 :
      pending[p][q] # {} /\ can_deliver(p, Top(pending[p][q])) }

\* p is in the main loop, not inside deliver.
Idle(p) == it[p] = N

-----------------------------------------------------------------------------
Init ==
  /\ Bc!Init
  /\ next_msg = [p \in Process |-> 0]
  /\ vector_clock = [m \in Message |-> << >>]
  /\ current_clock = [p \in Process |-> [q \in Process |-> 0]]
  /\ pending = [p \in Process |-> [q \in Process |-> {}]]
  /\ it = [p \in Process |-> N]
  /\ delivered = [p \in Process |-> [m \in Message |-> 0]]
  /\ past = [m \in Message |-> {}]

\* Slip: the clock counts p's own messages.
OutgoingClockOfOwn(p) == [i \in DOMAIN Dependencies[p] |-> current_clock[p][p]]

\* The clock a message of p carries: entry i belongs to the i-th dependency.
OutgoingClock(p) ==
  [i \in DOMAIN Dependencies[p] |-> current_clock[p][Dependencies[p][i]]]

\* send, called by the main loop with the next sequence number.
Send(p) ==
  LET m == [originator |-> p, bcast_seq_num |-> next_msg[p]]
  IN  /\ Idle(p)
      /\ next_msg[p] < Budget[p]
      /\ Bc!Broadcast(m)
      /\ next_msg' = [next_msg EXCEPT ![p] = @ + 1]
      /\ vector_clock' = [vector_clock EXCEPT ![m] = OutgoingClock(p)]
      /\ past' = [past EXCEPT ![m] =
                    Abstract!DirectDependencies(m)
                      \cup UNION { past[k] : k \in Abstract!DirectDependencies(m) }]
      /\ UNCHANGED << current_clock, pending, it, delivered >>

\* The uniform broadcast hands m to p: deliver pushes it and starts its loop.
Receive(p, m) ==
  /\ Idle(p)
  /\ Cardinality({ k \in Message : upcalls[p][k] > 0 }) < MaxUpcalls[p]
  /\ Bc!Deliver(p, m)
  /\ pending' = [pending EXCEPT ![p][m.originator] = @ \cup {m}]
  /\ it' = [it EXCEPT ![p] = 0]
  /\ UNCHANGED << next_msg, vector_clock, current_clock, delivered, past >>

\* Slip: the loop goes on instead of beginning again.
GoOn(q) == q + 1

\* Where the iterator is after a delivery from queue q, and what is left there.
Restart(q) == 0
Popped(heap) == heap \ {Top(heap)}

\* The loop finds a top it can deliver, in the first queue from the iterator
\* on that has one, delivers it and begins again.
DeliverTop(p) ==
  LET q == Min(Ready(p))
      m == Top(pending[p][q])
  IN  /\ p \notin crashed
      /\ Ready(p) # {}
      /\ current_clock' = [current_clock EXCEPT ![p][m.originator] = @ + 1]
      /\ delivered' = [delivered EXCEPT ![p][m] = @ + 1]
      /\ pending' = [pending EXCEPT ![p][q] = Popped(@)]
      /\ it' = [it EXCEPT ![p] = Restart(q)]
      /\ UNCHANGED << below, next_msg, vector_clock, past >>

\* Slip: the iterator is not advanced over queues with nothing to deliver.
NotAdvanced == 0

\* The iterator behind the last queue.
Advanced == N

\* The loop gets to the end: deliver returns.
Return(p) ==
  /\ p \notin crashed
  /\ ~ Idle(p)
  /\ Ready(p) = {}
  /\ it' = [it EXCEPT ![p] = Advanced]
  /\ UNCHANGED << below, next_msg, vector_clock, current_clock, pending,
                  delivered, past >>

\* SIGTERM or SIGINT, also between two iterations of the loop.
Crash(p) ==
  /\ Cardinality(crashed) < MaxCrashes
  /\ Bc!Crash(p)
  /\ UNCHANGED own

Next ==
  \/ \E p \in Process : Send(p) \/ DeliverTop(p) \/ Return(p) \/ Crash(p)
  \/ \E p \in Process, m \in Message : Receive(p, m)

Spec == Init /\ [][Next]_vars

\* A process that is not stopped gets on with its loop.
FairSpec == Spec /\ \A p \in Process : WF_vars(DeliverTop(p) \/ Return(p))

-----------------------------------------------------------------------------
(***************************************************************************)
(* Properties.                                                             *)
(***************************************************************************)
TypeOK ==
  /\ broadcast \subseteq Message
  /\ upcalls \in [Process -> [Message -> Nat]]
  /\ crashed \subseteq Process
  /\ next_msg \in [Process -> 0 .. NumMessages]
  /\ vector_clock \in [Message -> Seq(Nat)]
  /\ current_clock \in [Process -> [Process -> Nat]]
  /\ pending \in [Process -> [Process -> SUBSET Message]]
  /\ it \in [Process -> 0 .. N]
  /\ delivered \in [Process -> [Message -> Nat]]
  /\ past \in [Message -> SUBSET Message]

\* Heaps, clocks and the loop implement localized causal order: nothing is
\* delivered twice, out of FIFO order, or before what it depends on, even if
\* the process that delivers it crashes in the middle of the loop.
ImplementsCausalOrder == Abstract!Spec

\* Whenever deliver has returned, every message that has arrived together with
\* all it depends on has been delivered: nothing deliverable is left in a heap
\* until some later arrival, which may never come.
NothingLeftBehind ==
  \A p \in Process : Idle(p) =>
    \A m \in Message :
      upcalls[p][m] > 0 /\ (\A k \in past[m] : upcalls[p][k] > 0)
        => delivered[p][m] > 0

\* Deliveries do not depend on the order of arrivals: as soon as deliver has
\* returned at q, q has delivered whatever any process delivered of the same
\* arrivals or fewer.
MoreArrivalsMoreDeliveries ==
  \A p, q \in Process :
    Idle(q) /\ (\A m \in Message : upcalls[p][m] > 0 => upcalls[q][m] > 0)
      => \A m \in Message : delivered[p][m] > 0 => delivered[q][m] > 0

\* The clock is what other processes get to see of the deliveries of p: it
\* counts them, and they have no gaps.
ClockCountsDeliveries ==
  \A p, q \in Process :
    { m \in Message : m.originator = q /\ delivered[p][m] > 0 } =
    { m \in Message : m.originator = q /\ m.bcast_seq_num < current_clock[p][q] }

\* No message arrives to be dropped: it waits in a heap or was delivered, once.
ArrivedIsPendingOrDelivered ==
  \A p \in Process : \A m \in Message :
    upcalls[p][m] =
      delivered[p][m] + (IF m \in pending[p][m.originator] THEN 1 ELSE 0)

\* Whatever p delivered, it has delivered all that depends on before: its log
\* respects the localized causal order at every moment.
DeliveriesAreCausal ==
  \A p \in Process : \A m \in Message :
    delivered[p][m] > 0 => \A k \in past[m] : delivered[p][k] > 0

\* What m depends on by itself, read off the number and the clock it carries.
Direct(m) ==
  { k \in Message :
      \/ k.originator = m.originator /\ k.bcast_seq_num < m.bcast_seq_num
      \/ \E i \in DOMAIN vector_clock[m] :
           /\ k.originator = Dependencies[m.originator][i]
           /\ k.bcast_seq_num < vector_clock[m][i] }

\* A clock of one entry per listed process says as much as the whole history
\* of the originator, for every message that was broadcast.
ClockTellsPast ==
  \A m \in broadcast :
    /\ Direct(m) \subseteq broadcast
    /\ past[m] = Direct(m) \cup UNION { past[k] : k \in Direct(m) }

\* The numbers of the messages broadcast have no gaps.
BroadcastInOrder ==
  broadcast = { m \in Message : m.bcast_seq_num < next_msg[m.originator] }

\* The layer below hands over what was broadcast, once.
ArrivesOnce ==
  \A p \in Process : \A m \in Message :
    /\ upcalls[p][m] \in {0, 1}
    /\ upcalls[p][m] > 0 => m \in broadcast

\* A heap holds messages of the process it is for.
HeapsAreSorted ==
  \A p, q \in Process : \A m \in pending[p][q] : m.originator = q

\* Why deliveries are causal: the inductive invariant.
IInv ==
  /\ TypeOK
  /\ BroadcastInOrder
  /\ ArrivesOnce
  /\ HeapsAreSorted
  /\ ArrivedIsPendingOrDelivered
  /\ ClockCountsDeliveries
  /\ ClockTellsPast
  /\ DeliveriesAreCausal

\* The loop comes to an end: deliver returns, unless the process is stopped.
LoopEnds == \A p \in Process : ~ Idle(p) ~> (Idle(p) \/ p \in crashed)

=============================================================================
