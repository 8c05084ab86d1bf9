---------------------------- MODULE FifoBroadcast ----------------------------
(***************************************************************************)
(* FIFO broadcast (fifo-broadcast.cpp) for all N processes, with the       *)
(* monotonic queues of monotonic-queue.hpp, on top of what uniform         *)
(* broadcast promises.  It has the interface of localized causal broadcast *)
(* and could be put in its place; main.cpp includes it and does not use    *)
(* it now.                                                                 *)
(***************************************************************************)
EXTENDS Integers, FiniteSets

CONSTANTS
  N,            \* number of hosts in the hosts file
  NumMessages,  \* messages of each process
  MaxCrashes    \* bound: how many processes may crash

Process == 0 .. N - 1
Message == [originator : Process, bcast_seq_num : 0 .. NumMessages - 1]

\* parser.hpp refuses a hosts file with fewer than two hosts.
ASSUME NAssumption == N \in Nat /\ N >= 2
ASSUME BoundsAssumption == NumMessages \in Nat /\ MaxCrashes \in Nat

VARIABLES
  broadcast,  \* messages handed to the uniform broadcast
  upcalls,    \* upcalls[p][m]: how often it has handed m to p
  crashed,    \* processes that were terminated
  next_msg,   \* next_msg[p]: the sequence number p broadcasts next
  ordered,    \* ordered[p][q]: p's MonotonicQueue for the messages of q
  handling,   \* handling[p]: whose queue deliver of p loops over; N: nobody's
  delivered   \* delivered[p][m]: how often p called observer.deliver(m)

below == << broadcast, upcalls, crashed >>
own   == << next_msg, ordered, handling, delivered >>
vars  == << below, own >>

\* What the layer below promises.
Bc == INSTANCE UniformBroadcast

-----------------------------------------------------------------------------
(***************************************************************************)
(* MonotonicQueue.                                                         *)
(***************************************************************************)
\* The priority queue is a heap in a vector.  front: the id in the first place of
\* the vector's storage, which queue.top() reads, whether or not the queue has an
\* entry there: reading it when it has none is undefined, and in the build, which
\* does not check, gives what the storage holds.
NoStorage == -1  \* nothing was ever added: the vector has no storage

EmptyQueue == [entries |-> {}, front |-> NoStorage, expected_next |-> 0]

\* The entry with the least number.
Top(entries) ==
  CHOOSE m \in entries : \A k \in entries : m.bcast_seq_num <= k.bcast_seq_num

add(queue, m) ==
  LET entries == queue.entries \cup {m}
  IN  [queue EXCEPT !.entries = entries, !.front = Top(entries).bcast_seq_num]

\* Slips: numbers that are over would do as well; any number would.
HasOld(queue) == queue.front <= queue.expected_next
HasAny(queue) == queue.entries # {}

has_next(queue) == queue.front = queue.expected_next

\* What pop_next leaves.  An entry that is alone is not moved when it is popped:
\* the storage keeps it.
Popped(queue) ==
  LET rest == queue.entries \ {Top(queue.entries)}
  IN  [entries |-> rest,
       front |-> IF rest = {} THEN queue.front ELSE Top(rest).bcast_seq_num,
       expected_next |-> queue.expected_next + 1]

-----------------------------------------------------------------------------
\* p is in the main loop, not inside deliver.
Idle(p) == handling[p] = N

Init ==
  /\ Bc!Init
  /\ next_msg = [p \in Process |-> 0]
  /\ ordered = [p \in Process |-> [q \in Process |-> EmptyQueue]]
  /\ handling = [p \in Process |-> N]
  /\ delivered = [p \in Process |-> [m \in Message |-> 0]]

\* send, called by a main loop with the next sequence number.
Send(p) ==
  /\ Idle(p)
  /\ next_msg[p] < NumMessages
  /\ Bc!Broadcast([originator |-> p, bcast_seq_num |-> next_msg[p]])
  /\ next_msg' = [next_msg EXCEPT ![p] = @ + 1]
  /\ UNCHANGED << ordered, handling, delivered >>

\* The uniform broadcast hands m to p: deliver adds it to its originator's queue
\* and begins the loop.
Receive(p, m) ==
  /\ Idle(p)
  /\ Bc!Deliver(p, m)
  /\ ordered' = [ordered EXCEPT ![p][m.originator] = add(@, m)]
  /\ handling' = [handling EXCEPT ![p] = m.originator]
  /\ UNCHANGED << next_msg, delivered >>

\* Slip: the loop is left after one message.
LoopOnce(q) == N

\* After a delivery the condition of the loop is looked at again.
LoopAgain(q) == q

\* One iteration: the next message of q is there and is delivered.
DeliverNext(p) ==
  LET q == handling[p]
  IN  /\ p \notin crashed
      /\ ~ Idle(p)
      /\ has_next(ordered[p][q])
      /\ delivered' = [delivered EXCEPT ![p][Top(ordered[p][q].entries)] = @ + 1]
      /\ ordered' = [ordered EXCEPT ![p][q] = Popped(@)]
      /\ handling' = [handling EXCEPT ![p] = LoopAgain(q)]
      /\ UNCHANGED << below, next_msg >>

\* The next message of q is missing: deliver returns.
Return(p) ==
  /\ p \notin crashed
  /\ ~ Idle(p)
  /\ ~ has_next(ordered[p][handling[p]])
  /\ handling' = [handling EXCEPT ![p] = N]
  /\ UNCHANGED << below, next_msg, ordered, delivered >>

\* SIGTERM or SIGINT, also between two iterations of the loop.
Crash(p) ==
  /\ Cardinality(crashed) < MaxCrashes
  /\ Bc!Crash(p)
  /\ UNCHANGED own

Next ==
  \/ \E p \in Process : Send(p) \/ DeliverNext(p) \/ Return(p) \/ Crash(p)
  \/ \E p \in Process, m \in Message : Receive(p, m)

Spec == Init /\ [][Next]_vars

-----------------------------------------------------------------------------
(***************************************************************************)
(* Properties.                                                             *)
(***************************************************************************)
Earlier(m) ==
  { k \in Message :
      k.originator = m.originator /\ k.bcast_seq_num < m.bcast_seq_num }

Queue == [entries : SUBSET Message, front : Nat \cup {NoStorage}, expected_next : Nat]

TypeOK ==
  /\ broadcast \subseteq Message
  /\ upcalls \in [Process -> [Message -> Nat]]
  /\ crashed \subseteq Process
  /\ next_msg \in [Process -> 0 .. NumMessages]
  /\ ordered \in [Process -> [Process -> Queue]]
  /\ handling \in [Process -> 0 .. N]
  /\ delivered \in [Process -> [Message -> Nat]]

\* Although the loop looks at the top of a queue that has become empty, it neither
\* reads storage that is not there nor takes the number left in it for the next
\* one and pops an entry that is not there.
NeverPopsEmpty ==
  \A p \in Process : ~ Idle(p) =>
    LET queue == ordered[p][handling[p]]
    IN  queue.front # NoStorage /\ (has_next(queue) => queue.entries # {})

\* Whenever deliver has returned, every message that has arrived together with
\* all earlier ones of its originator has been delivered.
NothingLeftBehind ==
  \A p \in Process : Idle(p) =>
    \A m \in Message :
      (\A k \in Earlier(m) \cup {m} : upcalls[p][k] > 0) => delivered[p][m] > 0

\* FIFO order is causal order where nobody is affected by others: a message
\* depends on the earlier ones of its originator.
Abstract ==
  INSTANCE CausalOrder
    WITH Affects <- [p \in Process |-> {}],
         past <- [m \in Message |-> IF m \in broadcast THEN Earlier(m) ELSE {}]

\* Queues and loop implement FIFO order: each process is handed the messages of
\* an originator in their order, without gaps, each once.
ImplementsFifoOrder == Abstract!Spec

\* The numbers of the messages broadcast have no gaps.
BroadcastInOrder ==
  broadcast = { m \in Message : m.bcast_seq_num < next_msg[m.originator] }

\* The layer below hands over what was broadcast, once, and it waits in the queue
\* of its originator or was delivered.
ArrivedIsQueuedOrDelivered ==
  \A p \in Process : \A m \in Message :
    /\ upcalls[p][m] \in {0, 1}
    /\ upcalls[p][m] > 0 => m \in broadcast
    /\ upcalls[p][m] =
         delivered[p][m] + (IF m \in ordered[p][m.originator].entries THEN 1 ELSE 0)

QueuesAreSeparate ==
  \A p, q \in Process : \A m \in ordered[p][q].entries : m.originator = q

\* What was delivered has the numbers below the expected one.
ExpectedCountsDeliveries ==
  \A p \in Process : \A m \in Message :
    delivered[p][m] > 0 <=> m.bcast_seq_num < ordered[p][m.originator].expected_next

\* Outside the loop over a queue, the next message is not in it.
NextIsMissing ==
  \A p, q \in Process : handling[p] # q =>
    \A m \in ordered[p][q].entries : m.bcast_seq_num # ordered[p][q].expected_next

\* The first place of the storage has the least entry, or one that is over; a loop
\* runs over a queue that something was added to.
FrontIsTopOrOver ==
  \A p, q \in Process :
    LET queue == ordered[p][q]
    IN  /\ queue.entries # {} => queue.front = Top(queue.entries).bcast_seq_num
        /\ queue.entries = {} => queue.front < queue.expected_next
        /\ handling[p] = q => queue.front # NoStorage

\* Why all this holds: the inductive invariant.
IInv ==
  /\ TypeOK
  /\ BroadcastInOrder
  /\ ArrivedIsQueuedOrDelivered
  /\ QueuesAreSeparate
  /\ ExpectedCountsDeliveries
  /\ NextIsMissing
  /\ FrontIsTopOrOver

=============================================================================
