---------------------- MODULE UniformReliableBroadcast ----------------------
(***************************************************************************)
(* Uniform reliable broadcast by majority acknowledgement                  *)
(* (uniform-reliable-broadcast.cpp) on top of best-effort broadcast on a   *)
(* ring (best-effort-broadcast.cpp), for all N processes at once.          *)
(*                                                                         *)
(* The links below are perfect: a packet is handed over at most once, in   *)
(* any order, and surely if both its ends stay up.  That is what           *)
(* perfect-link.cpp provides and what module PerfectLink is about.         *)
(*                                                                         *)
(* Everything here runs on the main thread of each process, one handler at *)
(* a time, so a handler is one action.  A process that crashes half-way    *)
(* through the sends of a handler is covered: a packet of a crashed sender *)
(* need never be received, exactly as if it had not been sent.             *)
(***************************************************************************)
EXTENDS Integers, FiniteSets, Ring

CONSTANTS
  N,            \* number of hosts in the hosts file
  NumMessages,  \* num_messages of the config file
  Originators,  \* bound: the processes that get to broadcast at all
  MaxCrashes    \* bound: how many processes may crash

\* parser.hpp refuses a hosts file with fewer than two hosts.
ASSUME NAssumption == N \in Nat /\ N >= 2
ASSUME NumMessagesAssumption == NumMessages \in Nat
ASSUME BoundsAssumption == Originators \subseteq 0 .. N - 1 /\ MaxCrashes \in Nat

Process == 0 .. N - 1
Message == [originator : Process, bcast_seq_num : 0 .. NumMessages - 1]
Packet  == [msg : Message, from : Process, to : Process]

VARIABLES
  next_msg,  \* next_msg[p]: the sequence number p broadcasts next
  urb,       \* urb[p]: the members of p's UniformReliableBroadcast object, and
             \* how often it called observer.deliver with each message
  links,     \* packets handed to the perfect links and not delivered yet
  crashed    \* processes that were terminated

vars == << next_msg, urb, links, crashed >>

-----------------------------------------------------------------------------
(***************************************************************************)
(* The handlers, as functions of the object's state s.  An absent entry of *)
(* the map ack and an empty bitset are the same thing to the code, which   *)
(* only ever reads ack[msg].                                               *)
(***************************************************************************)
InitialState ==
  [pending   |-> {},
   delivered |-> {},
   ack       |-> [m \in Message |-> {}],
   upcalls   |-> [m \in Message |-> 0]]

Acked(s, m, q) == [s EXCEPT !.ack[m] = @ \cup {q}]

\* Slips to check the properties against: a quorum of half the processes is
\* enough, and the acknowledgements of a delivered message are kept.
TryDeliverAtHalf(s, m) ==
  IF Cardinality(s.ack[m]) >= N \div 2
  THEN [s EXCEPT !.delivered = @ \cup {m},
                 !.ack[m] = {},
                 !.upcalls[m] = @ + 1]
  ELSE s

TryDeliverKeepingAcks(s, m) ==
  IF Cardinality(s.ack[m]) > N \div 2
  THEN [s EXCEPT !.delivered = @ \cup {m}, !.upcalls[m] = @ + 1]
  ELSE s

\* try_deliver: hand m over once more than half of the processes are known to
\* have it, and forget who they were.
TryDeliver(s, m) ==
  IF Cardinality(s.ack[m]) > N \div 2
  THEN [s EXCEPT !.delivered = @ \cup {m},
                 !.ack[m] = {},
                 !.upcalls[m] = @ + 1]
  ELSE s

\* The copy best-effort broadcast sends to self: the link calls deliver at
\* once, nested in the send.  m is pending already, so it is not relayed.
DeliverOwnCopy(s, p, m) ==
  IF m \in s.delivered THEN s ELSE TryDeliver(Acked(s, m, p), m)

\* Slip: the own copy of a broadcast is sent without inserting m in pending.
RelayWithoutPending(s, p, m) == DeliverOwnCopy(s, p, m)

\* Insert m in pending and best-effort broadcast it: what send does with a new
\* message and what deliver does with the first copy of somebody else's.
Relay(s, p, m) ==
  DeliverOwnCopy([s EXCEPT !.pending = @ \cup {m}], p, m)

\* deliver, for a copy of m that q sent.
Deliver(s, p, m, q) ==
  IF m \in s.delivered THEN s
  ELSE LET acked == Acked(s, m, q)
       IN  TryDeliver(IF m \in s.pending THEN acked ELSE Relay(acked, p, m), m)

\* Slip: nobody relays; a message comes from its originator alone.
RelaysOriginatorOnly(s, m) == FALSE

\* Slip: a process relays every copy until it has delivered the message.
RelaysUntilDelivered(s, m) == m \notin s.delivered

\* Whether deliver sends anything: m is neither delivered nor pending.
Relays(s, m) == m \notin s.delivered /\ m \notin s.pending

\* The packets of one best-effort broadcast of m by p, the copy to self aside.
BestEffort(p, m) == [msg : {m}, from : {p}, to : Neighbors(p, N)]

-----------------------------------------------------------------------------
Init ==
  /\ next_msg = [p \in Process |-> 0]
  /\ urb = [p \in Process |-> InitialState]
  /\ links = {}
  /\ crashed = {}

\* The main loop broadcasts the next message.
Broadcast(p) ==
  LET m == [originator |-> p, bcast_seq_num |-> next_msg[p]]
  IN  /\ p \in Originators \ crashed
      /\ next_msg[p] < NumMessages
      /\ next_msg' = [next_msg EXCEPT ![p] = @ + 1]
      /\ urb' = [urb EXCEPT ![p] = Relay(@, p, m)]
      /\ links' = links \cup BestEffort(p, m)
      /\ UNCHANGED crashed

\* The link of pkt.to hands over a packet.
Receive(pkt) ==
  LET p == pkt.to
      m == pkt.msg
  IN  /\ pkt \in links
      /\ p \notin crashed
      /\ urb' = [urb EXCEPT ![p] = Deliver(@, p, m, pkt.from)]
      /\ links' = (links \ {pkt}) \cup
                  (IF Relays(urb[p], m) THEN BestEffort(p, m) ELSE {})
      /\ UNCHANGED << next_msg, crashed >>

\* SIGTERM or SIGINT: the process stops for good (there is no restart).
Crash(p) ==
  /\ p \notin crashed
  /\ Cardinality(crashed) < MaxCrashes
  /\ crashed' = crashed \cup {p}
  /\ UNCHANGED << next_msg, urb, links >>

Next ==
  \/ \E p \in Process : Broadcast(p)
  \/ \E pkt \in links : Receive(pkt)
  \/ \E p \in Process : Crash(p)

Spec == Init /\ [][Next]_vars

\* A link hands over every packet whose sender keeps running; it owes nothing
\* to a sender that crashed, whose retransmissions stopped.  Broadcasting is
\* the application's choice and crashing nobody's duty: no fairness there.
Fairness ==
  \A pkt \in Packet : WF_vars(pkt.from \notin crashed /\ Receive(pkt))

FairSpec == Spec /\ Fairness

-----------------------------------------------------------------------------
(***************************************************************************)
(* Properties.                                                             *)
(***************************************************************************)
StateType ==
  [pending   : SUBSET Message,
   delivered : SUBSET Message,
   ack       : [Message -> SUBSET Process],
   upcalls   : [Message -> Nat]]

\* Every variable has its type; in particular each packet goes to a process of
\* the ring.
TypeOK ==
  /\ next_msg \in [Process -> 0 .. NumMessages]
  /\ urb \in [Process -> StateType]
  /\ links \subseteq Packet
  /\ crashed \subseteq Process

\* The processes that have m in pending: they have broadcast or relayed it.
Holders(m) == { q \in Process : m \in urb[q].pending }

\* A packet speaks for its sender: who sends m holds it.
PacketsComeFromHolders == \A pkt \in links : pkt.from \in Holders(pkt.msg)

\* An acknowledgement counted by try_deliver stands for a process that holds
\* the message, whatever crashed or was relayed in between.
AcksComeFromHolders ==
  \A p \in Process : \A m \in Message : urb[p].ack[m] \subseteq Holders(m)

\* The purpose of counting: once any process has handed m to the layer above,
\* more than half of all processes hold m and have sent it to their neighbors.
DeliveredIsHeldByMajority ==
  \A p \in Process : \A m \in urb[p].delivered :
    Cardinality(Holders(m)) > N \div 2

\* Uniformity: what any process delivered, even one that crashed right after,
\* is still held by a running process as long as a minority has crashed.
DeliveredSurvivesMinorityCrash ==
  2 * Cardinality(crashed) < N =>
    \A p \in Process : \A m \in urb[p].delivered : Holders(m) \ crashed # {}

\* Only broadcast messages are pending anywhere: no process invents one.
PendingWasBroadcast ==
  \A p \in Process : \A m \in urb[p].pending :
    m.bcast_seq_num < next_msg[m.originator]

\* observer.deliver was called once for the delivered messages, never for the
\* others, although the quorum can be reached in a nested delivery.
UpcallOncePerDelivery ==
  \A p \in Process : \A m \in Message :
    urb[p].upcalls[m] = IF m \in urb[p].delivered THEN 1 ELSE 0

\* try_deliver forgets the acknowledgements of what it delivers, and no later
\* one is recorded: a second quorum for the same message never builds up.
NoAcksAfterDelivery ==
  \A p \in Process : \A m \in urb[p].delivered : urb[p].ack[m] = {}

\* Why the above is always so: the inductive invariant.
IInv ==
  /\ TypeOK
  /\ PacketsComeFromHolders
  /\ AcksComeFromHolders
  /\ DeliveredIsHeldByMajority
  /\ PendingWasBroadcast
  /\ UpcallOncePerDelivery
  /\ NoAcksAfterDelivery

\* What UniformBroadcast promises, read off the objects' state.
Abstract ==
  INSTANCE UniformBroadcast
    WITH broadcast <- { m \in Message : m.bcast_seq_num < next_msg[m.originator] },
         upcalls   <- [p \in Process |-> urb[p].upcalls]

\* Relays, acknowledgements and quorums implement uniform broadcast: nothing
\* that was not broadcast is delivered, nothing is delivered twice or by a
\* crashed process, and each handler delivers at most one message.
ImplementsUniformBroadcast == Abstract!Spec

\* What perfect-link.cpp promises for the link from p to q: p sends on it what it
\* holds, and what it has sent is under way or was handed over.
Channel(p, q) ==
  INSTANCE ReliableChannel
    WITH Num     <- Message,
         sent    <- urb[p].pending,
         upcalls <- [m \in Message |->
                       IF m \in urb[p].pending /\ [msg |-> m, from |-> p, to |-> q] \notin links
                       THEN 1 ELSE 0],
         crashed <- (IF p \in crashed THEN {"sender"} ELSE {})
                      \cup (IF q \in crashed THEN {"receiver"} ELSE {})

\* The layer asks no more of its links than that, and no process ever sends the
\* same message to the same neighbor twice, however many copies it receives.
LinksAreReliableChannels ==
  /\ \A p \in Process : \A q \in Neighbors(p, N) : Channel(p, q)!Init
  /\ [][\A p \in Process : \A q \in Neighbors(p, N) :
          [Channel(p, q)!Next]_(Channel(p, q)!vars)]_vars

\* Uniform agreement and validity, as UniformBroadcast states them.
UniformAgreement == Abstract!UniformAgreement
Validity == Abstract!Validity

\* The acknowledgements a process can still count on: its neighbors' and its
\* own, those of crashed processes aside.  Nobody else ever sends to it.
AckQuorumRemains(p) ==
  Cardinality((Neighbors(p, N) \cup {p}) \ crashed) > N \div 2

\* A copy of m is with q when q has counted it or was done with m before.
IsWith(m, p, q) ==
  m \in urb[q].delivered \/ (m \in urb[q].pending /\ p \in urb[q].ack[m])

\* No hop gets lost: who holds m has a copy under way to each neighbor or with
\* it.  A holder that has not delivered m counts itself and lacks a quorum.
HopsAreAccounted ==
  \A p \in Process : \A m \in urb[p].pending :
    /\ \A q \in Neighbors(p, N) : [msg |-> m, from |-> p, to |-> q] \in links \/ IsWith(m, p, q)
    /\ IsWith(m, p, p)
DeliveredIsPending == \A p \in Process : urb[p].delivered \subseteq urb[p].pending
NoQuorumWaits ==
  \A p \in Process : \A m \in Message : Cardinality(urb[p].ack[m]) <= N \div 2

AgreementInv == HopsAreAccounted /\ DeliveredIsPending /\ NoQuorumWaits

\* The links owe nothing: an end of each packet that is left has crashed.
Quiet == \A pkt \in links : pkt.from \in crashed \/ pkt.to \in crashed

\* Agreement when all is said: if a minority has crashed and the links owe
\* nothing, a message that a running process holds, or that any process has
\* delivered, is held by all running processes, and is delivered by each that
\* could still hear from a majority.
QuietMeansAgreed ==
  Quiet /\ 2 * Cardinality(crashed) < N =>
    \A m \in Message : \A p \in Process :
      m \in urb[p].delivered \/ (m \in urb[p].pending /\ p \notin crashed) =>
        \A q \in Process \ crashed :
          /\ m \in urb[q].pending
          /\ AckQuorumRemains(q) => m \in urb[q].delivered

\* What the ring can promise: a process that holds a message delivers it, or
\* crashes, or loses so many of its neighbors that they are no majority.
HoldersDeliver ==
  \A p \in Process : \A m \in Message :
    m \in urb[p].pending ~>
      (m \in urb[p].delivered \/ p \in crashed \/ ~ AckQuorumRemains(p))

=============================================================================
