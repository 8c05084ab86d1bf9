------------------------- MODULE FifoBroadcastProofs -------------------------
(***************************************************************************)
(* Theorems about FifoBroadcast, for any number of hosts and messages.     *)
(***************************************************************************)
EXTENDS FifoBroadcast, WellFoundedInduction, TLAPS

LEMMA MessageType ==
  ASSUME NEW m \in Message
  PROVE  m.originator \in Process /\ m.bcast_seq_num \in 0 .. NumMessages - 1
BY DEF Message

LEMMA MessageIdentity ==
  ASSUME NEW m \in Message, NEW k \in Message,
         m.originator = k.originator, m.bcast_seq_num = k.bcast_seq_num
  PROVE  m = k
BY DEF Message

LEMMA TopInQueue ==
  ASSUME NEW entries \in SUBSET Message, entries # {}
  PROVE  /\ Top(entries) \in entries
         /\ Top(entries).bcast_seq_num \in 0 .. NumMessages - 1
         /\ \A k \in entries : Top(entries).bcast_seq_num <= k.bcast_seq_num
<1> DEFINE T == { m.bcast_seq_num : m \in entries }
<1>1. T \in SUBSET Nat /\ T # {}
  BY MessageType, BoundsAssumption
<1>2. PICK x \in T : \A y \in T : ~ (<< y, x >> \in OpToRel(<, Nat))
  BY <1>1, NatLessThanWellFounded, WFMin
<1>3. PICK m \in entries : m.bcast_seq_num = x
  BY <1>2
<1>4. \A k \in entries : m.bcast_seq_num <= k.bcast_seq_num
  <2> TAKE k \in entries
  <2>1. k.bcast_seq_num \in T /\ k.bcast_seq_num \in Nat /\ x \in Nat
    BY <1>1, <1>2
  <2>2. ~ (k.bcast_seq_num < x)
    BY <1>2, <2>1 DEF OpToRel
  <2>3. QED
    BY <1>3, <2>1, <2>2
<1>5. Top(entries) \in entries /\ \A k \in entries : Top(entries).bcast_seq_num <= k.bcast_seq_num
  BY <1>4 DEF Top
<1>6. QED
  BY <1>5, MessageType

\* A queue is typed, and what has_next, which reads the first place of the
\* storage, says of its entries.
LEMMA QueueType ==
  ASSUME IInv, NEW p \in Process, NEW q \in Process
  PROVE  /\ ordered[p][q] \in Queue
         /\ ordered[p][q].entries \subseteq Message
         /\ ordered[p][q].expected_next \in Nat
         /\ has_next(ordered[p][q]) =>
              /\ ordered[p][q].entries # {}
              /\ Top(ordered[p][q].entries).bcast_seq_num = ordered[p][q].expected_next
         /\ ~ has_next(ordered[p][q]) /\ ordered[p][q].entries # {} =>
              Top(ordered[p][q].entries).bcast_seq_num # ordered[p][q].expected_next
<1> DEFINE queue == ordered[p][q]
<1>1. queue \in Queue
  BY DEF IInv, TypeOK
<1>2. /\ queue.entries # {} => queue.front = Top(queue.entries).bcast_seq_num
      /\ queue.entries = {} => queue.front < queue.expected_next
  BY DEF IInv, FrontIsTopOrOver
<1> HIDE DEF queue
<1>3. queue.front \in Int /\ queue.expected_next \in Nat /\ queue.entries \subseteq Message
  BY <1>1 DEF Queue, NoStorage
<1>4. queue.front < queue.expected_next => ~ has_next(queue)
  BY <1>3 DEF has_next
<1>5. QED
  BY <1>1, <1>2, <1>3, <1>4 DEF has_next, queue

\* What DeliverNext delivers: the next message of an originator, which has
\* arrived and was not delivered.
LEMMA NextMessage ==
  ASSUME IInv, NEW p \in Process, DeliverNext(p)
  PROVE  \E q \in Process, m \in Message :
           /\ q = handling[p]
           /\ m = Top(ordered[p][q].entries)
           /\ m \in ordered[p][q].entries
           /\ m.originator = q
           /\ m.bcast_seq_num = ordered[p][q].expected_next
           /\ delivered[p][m] = 0
           /\ upcalls[p][m] = 1
           /\ m \in broadcast
<1> DEFINE q == handling[p]
           m == Top(ordered[p][q].entries)
<1>1. q \in Process
  BY NAssumption DEF DeliverNext, Idle, IInv, TypeOK, Process
<1>2. ordered[p][q].entries # {} /\ ordered[p][q].entries \subseteq Message
  BY <1>1, QueueType DEF DeliverNext
<1>3. m \in ordered[p][q].entries /\ m \in Message
  BY <1>2, TopInQueue
<1>4. m.originator = q
  BY <1>1, <1>3 DEF IInv, QueuesAreSeparate
<1>5. m.bcast_seq_num = ordered[p][q].expected_next
  BY <1>1, QueueType DEF DeliverNext
<1> HIDE DEF q, m
<1>6. upcalls[p][m] = delivered[p][m] + 1 /\ upcalls[p][m] \in {0, 1}
  BY <1>3, <1>4 DEF IInv, ArrivedIsQueuedOrDelivered
<1>7. delivered[p][m] \in Nat
  BY <1>3 DEF IInv, TypeOK
<1>8. delivered[p][m] = 0 /\ upcalls[p][m] = 1
  BY <1>6, <1>7
<1>9. m \in broadcast
  BY <1>3, <1>8 DEF IInv, ArrivedIsQueuedOrDelivered
<1>10. QED
  BY <1>1, <1>3, <1>4, <1>5, <1>8, <1>9 DEF q, m

-----------------------------------------------------------------------------
LEMMA InitIInv == Init => IInv
<1> SUFFICES ASSUME Init PROVE IInv
  OBVIOUS
<1> USE DEF Init, Bc!Init, EmptyQueue
<1>1. TypeOK
  BY NAssumption, BoundsAssumption DEF TypeOK, Queue, NoStorage
<1>2. BroadcastInOrder
  BY BoundsAssumption, MessageType DEF BroadcastInOrder
<1>3. ArrivedIsQueuedOrDelivered /\ QueuesAreSeparate /\ NextIsMissing
  BY MessageType DEF ArrivedIsQueuedOrDelivered, QueuesAreSeparate, NextIsMissing
<1>4. ExpectedCountsDeliveries
  BY MessageType, BoundsAssumption DEF ExpectedCountsDeliveries
<1>5. FrontIsTopOrOver
  BY NAssumption DEF FrontIsTopOrOver, NoStorage, Process
<1>6. QED
  BY <1>1, <1>2, <1>3, <1>4, <1>5 DEF IInv

LEMMA SendPreserves ==
  ASSUME IInv, NEW p \in Process, Send(p)
  PROVE  IInv'
<1> DEFINE m == [originator |-> p, bcast_seq_num |-> next_msg[p]]
<1>1. /\ broadcast' = broadcast \cup {m}
      /\ next_msg' = [next_msg EXCEPT ![p] = @ + 1]
      /\ UNCHANGED << upcalls, crashed, ordered, handling, delivered >>
  BY DEF Send, Bc!Broadcast
<1>2. next_msg[p] \in 0 .. NumMessages - 1 /\ m \in Message
  BY BoundsAssumption DEF Send, IInv, TypeOK, Message
<1>3. TypeOK'
  BY <1>1, <1>2, BoundsAssumption DEF IInv, TypeOK
<1>4. BroadcastInOrder'
  <2>1. \A k \in Message :
          k.bcast_seq_num < next_msg'[k.originator] <=>
            k.bcast_seq_num < next_msg[k.originator] \/ k = m
    <3> TAKE k \in Message
    <3>1. CASE k.originator = p
      <4>1. next_msg'[p] = next_msg[p] + 1
        BY <1>1 DEF IInv, TypeOK
      <4>2. k.bcast_seq_num \in Nat /\ next_msg[p] \in Nat
        BY <1>2, MessageType, BoundsAssumption
      <4>3. k.bcast_seq_num = next_msg[p] <=> k = m
        BY <1>2, <3>1, MessageIdentity
      <4>4. QED
        BY <3>1, <4>1, <4>2, <4>3
    <3>2. CASE k.originator # p
      BY <1>1, <3>2, MessageType DEF IInv, TypeOK
    <3>3. QED
      BY <3>1, <3>2
  <2>2. QED
    BY <1>1, <1>2, <2>1 DEF IInv, BroadcastInOrder
<1>5. QED
  BY <1>1, <1>3, <1>4
  DEF IInv, ArrivedIsQueuedOrDelivered, QueuesAreSeparate, ExpectedCountsDeliveries,
      NextIsMissing, FrontIsTopOrOver

LEMMA ReceivePreserves ==
  ASSUME IInv, NEW p \in Process, NEW m \in Message, Receive(p, m)
  PROVE  IInv'
<1> DEFINE q == m.originator
           new == add(ordered[p][q], m)
<1>1. /\ m \in broadcast /\ upcalls[p][m] = 0
      /\ upcalls' = [upcalls EXCEPT ![p][m] = @ + 1]
      /\ ordered' = [ordered EXCEPT ![p][q] = new]
      /\ handling' = [handling EXCEPT ![p] = q]
      /\ handling[p] = N
      /\ UNCHANGED << broadcast, crashed, next_msg, delivered >>
  BY DEF Receive, Bc!Deliver, Idle
<1>2. TypeOK /\ q \in Process
  BY MessageType DEF IInv
<1>3. /\ new.entries = ordered[p][q].entries \cup {m}
      /\ new.expected_next = ordered[p][q].expected_next
      /\ new.front = Top(new.entries).bcast_seq_num
      /\ new.front \in Nat
      /\ new \in Queue
  <2> DEFINE entries == ordered[p][q].entries \cup {m}
  <2>1. ordered[p][q] \in Queue
    BY <1>2 DEF TypeOK
  <2>2. entries \in SUBSET Message /\ entries # {}
    BY <2>1 DEF Queue
  <2>3. Top(entries).bcast_seq_num \in Nat
    BY <2>2, TopInQueue, BoundsAssumption
  <2>4. new = [ordered[p][q] EXCEPT !.entries = entries, !.front = Top(entries).bcast_seq_num]
    BY DEF add
  <2> HIDE DEF new, entries
  <2>5. /\ new.entries = entries /\ new.expected_next = ordered[p][q].expected_next
        /\ new.front = Top(entries).bcast_seq_num
        /\ new \in Queue
    BY <2>1, <2>2, <2>3, <2>4 DEF Queue
  <2>6. QED
    BY <2>3, <2>5 DEF entries
<1> HIDE DEF new
<1>4. \A r, s \in Process :
        /\ ordered'[r][s].expected_next = ordered[r][s].expected_next
        /\ ordered'[r][s].entries =
             ordered[r][s].entries \cup (IF r = p /\ s = q THEN {m} ELSE {})
  <2> TAKE r, s \in Process
  <2>1. ordered'[r][s] = IF r = p /\ s = q THEN new ELSE ordered[r][s]
    BY <1>1, <1>2 DEF TypeOK
  <2>2. QED
    BY <1>3, <2>1
<1>5. TypeOK'
  <2>1. ordered' \in [Process -> [Process -> Queue]]
    BY <1>1, <1>2, <1>3 DEF TypeOK
  <2>2. upcalls' \in [Process -> [Message -> Nat]]
    <3>1. [upcalls[p] EXCEPT ![m] = @ + 1] \in [Message -> Nat]
      BY <1>2 DEF TypeOK
    <3>2. upcalls' = [upcalls EXCEPT ![p] = [upcalls[p] EXCEPT ![m] = @ + 1]]
      BY <1>1, <1>2 DEF TypeOK
    <3>3. QED
      BY <1>2, <3>1, <3>2 DEF TypeOK
  <2>3. handling' \in [Process -> 0 .. N]
    <3>1. q \in 0 .. N
      BY <1>2, NAssumption DEF Process
    <3>2. QED
      BY <1>1, <1>2, <3>1 DEF TypeOK
  <2>4. QED
    BY <1>1, <1>2, <2>1, <2>2, <2>3 DEF TypeOK
<1>6. ArrivedIsQueuedOrDelivered'
  <2> SUFFICES ASSUME NEW r \in Process, NEW k \in Message
               PROVE  /\ upcalls'[r][k] \in {0, 1}
                      /\ upcalls'[r][k] > 0 => k \in broadcast
                      /\ upcalls'[r][k] = delivered[r][k]
                           + (IF k \in ordered'[r][k.originator].entries THEN 1 ELSE 0)
    BY <1>1 DEF ArrivedIsQueuedOrDelivered
  <2>1. /\ upcalls[r][k] \in {0, 1}
        /\ upcalls[r][k] > 0 => k \in broadcast
        /\ upcalls[r][k] = delivered[r][k]
             + (IF k \in ordered[r][k.originator].entries THEN 1 ELSE 0)
        /\ delivered[r][k] \in Nat
    BY <1>2 DEF IInv, ArrivedIsQueuedOrDelivered, TypeOK
  <2>2. k.originator \in Process
    BY MessageType
  <2>3. CASE r = p /\ k = m
    <3>1. upcalls'[r][k] = 1
      BY <1>1, <1>2, <2>3 DEF TypeOK
    <3>2. delivered[r][k] = 0
      <4>1. upcalls[r][k] = 0
        BY <1>1, <2>3
      <4>2. QED
        BY <2>1, <4>1
    <3>3. k \in ordered'[r][k.originator].entries
      BY <1>4, <2>2, <2>3
    <3>4. QED
      BY <1>1, <2>3, <3>1, <3>2, <3>3
  <2>4. CASE ~ (r = p /\ k = m)
    <3>1. upcalls'[r][k] = upcalls[r][k]
      BY <1>1, <1>2, <2>4 DEF TypeOK
    <3>2. k \in ordered'[r][k.originator].entries <=> k \in ordered[r][k.originator].entries
      <4>1. CASE r = p /\ k.originator = q
        BY <1>4, <2>2, <2>4, <4>1
      <4>2. CASE ~ (r = p /\ k.originator = q)
        BY <1>4, <2>2, <4>2
      <4>3. QED
        BY <4>1, <4>2
    <3>3. QED
      BY <2>1, <3>1, <3>2
  <2>5. QED
    BY <2>3, <2>4
<1>7. QueuesAreSeparate'
  <2> SUFFICES ASSUME NEW r \in Process, NEW s \in Process, NEW k \in ordered'[r][s].entries
               PROVE  k.originator = s
    BY DEF QueuesAreSeparate
  <2>1. k \in ordered[r][s].entries \/ (s = q /\ k = m)
    BY <1>4
  <2>2. QED
    BY <2>1 DEF IInv, QueuesAreSeparate
<1>8. BroadcastInOrder' /\ ExpectedCountsDeliveries'
  BY <1>1, <1>4, MessageType DEF IInv, BroadcastInOrder, ExpectedCountsDeliveries
<1>9. NextIsMissing'
  <2> SUFFICES ASSUME NEW r \in Process, NEW s \in Process, handling'[r] # s,
                      NEW k \in ordered'[r][s].entries
               PROVE  k.bcast_seq_num # ordered'[r][s].expected_next
    BY DEF NextIsMissing
  <2>1. ~ (r = p /\ s = q)
    BY <1>1, <1>2 DEF TypeOK
  <2>2. handling[r] # s
    BY <1>1, <1>2, NAssumption DEF TypeOK, Process
  <2>3. k \in ordered[r][s].entries /\ ordered'[r][s].expected_next = ordered[r][s].expected_next
    BY <1>4, <2>1
  <2>4. QED
    BY <2>2, <2>3 DEF IInv, NextIsMissing
<1>10. FrontIsTopOrOver'
  <2> SUFFICES ASSUME NEW r \in Process, NEW s \in Process
               PROVE  LET queue == ordered'[r][s]
                      IN  /\ queue.entries # {} => queue.front = Top(queue.entries).bcast_seq_num
                          /\ queue.entries = {} => queue.front < queue.expected_next
                          /\ handling'[r] = s => queue.front # NoStorage
    BY DEF FrontIsTopOrOver
  <2>1. CASE r = p /\ s = q
    <3>1. ordered'[r][s] = new
      BY <1>1, <1>2, <2>1 DEF TypeOK
    <3>2. new.entries # {} /\ new.front # NoStorage
      BY <1>3 DEF NoStorage
    <3>3. QED
      BY <1>3, <3>1, <3>2
  <2>2. CASE ~ (r = p /\ s = q)
    <3>1. ordered'[r][s] = ordered[r][s]
      BY <1>1, <1>2, <2>2 DEF TypeOK
    <3>2. handling'[r] = s => handling[r] = s
      BY <1>1, <1>2, <2>2 DEF TypeOK
    <3>3. QED
      BY <3>1, <3>2 DEF IInv, FrontIsTopOrOver
  <2>3. QED
    BY <2>1, <2>2
<1>11. QED
  BY <1>5, <1>6, <1>7, <1>8, <1>9, <1>10 DEF IInv

LEMMA DeliverNextPreserves ==
  ASSUME IInv, NEW p \in Process, DeliverNext(p)
  PROVE  IInv'
<1>1. PICK q \in Process, m \in Message :
        /\ q = handling[p]
        /\ m = Top(ordered[p][q].entries)
        /\ m \in ordered[p][q].entries
        /\ m.originator = q
        /\ m.bcast_seq_num = ordered[p][q].expected_next
        /\ delivered[p][m] = 0
        /\ upcalls[p][m] = 1
        /\ m \in broadcast
  BY NextMessage
<1>2. /\ delivered' = [delivered EXCEPT ![p][m] = @ + 1]
      /\ ordered' = [ordered EXCEPT ![p][q] = Popped(@)]
      /\ handling' = [handling EXCEPT ![p] = q]
      /\ UNCHANGED << broadcast, upcalls, crashed, next_msg >>
  BY <1>1 DEF DeliverNext, LoopAgain, below
<1>3. TypeOK
  BY DEF IInv
<1>4. handling' = handling
  BY <1>1, <1>2, <1>3 DEF TypeOK
<1>5. \A r, s \in Process :
        /\ ordered'[r][s].expected_next =
             IF r = p /\ s = q THEN ordered[r][s].expected_next + 1
                               ELSE ordered[r][s].expected_next
        /\ ordered'[r][s].entries =
             IF r = p /\ s = q THEN ordered[r][s].entries \ {m} ELSE ordered[r][s].entries
  <2>1. Popped(ordered[p][q]).expected_next = ordered[p][q].expected_next + 1
    BY DEF Popped
  <2>2. Popped(ordered[p][q]).entries = ordered[p][q].entries \ {m}
    BY <1>1 DEF Popped
  <2>3. \A r, s \in Process :
          ordered'[r][s] = IF r = p /\ s = q THEN Popped(ordered[p][q]) ELSE ordered[r][s]
    BY <1>1, <1>2, <1>3 DEF TypeOK
  <2>4. QED
    BY <2>1, <2>2, <2>3
<1>6. TypeOK'
  <2>1. ordered' \in [Process -> [Process -> Queue]]
    <3> DEFINE rest == ordered[p][q].entries \ {m}
    <3>1. Popped(ordered[p][q]) \in Queue
      <4>1. ordered[p][q] \in Queue
        BY <1>1, <1>3 DEF TypeOK
      <4>2. rest \in SUBSET Message /\ (rest # {} => Top(rest).bcast_seq_num \in Nat)
        BY <4>1, TopInQueue, BoundsAssumption DEF Queue
      <4>3. Popped(ordered[p][q]) =
              [entries |-> rest,
               front |-> IF rest = {} THEN ordered[p][q].front ELSE Top(rest).bcast_seq_num,
               expected_next |-> ordered[p][q].expected_next + 1]
        BY <1>1 DEF Popped
      <4> HIDE DEF rest
      <4>4. QED
        BY <4>1, <4>2, <4>3 DEF Queue
    <3>2. QED
      BY <1>2, <1>3, <3>1 DEF TypeOK
  <2>2. delivered' \in [Process -> [Message -> Nat]]
    BY <1>2, <1>3 DEF TypeOK
  <2>3. QED
    BY <1>2, <1>3, <1>4, <2>1, <2>2 DEF TypeOK
<1>7. \A r \in Process, k \in Message :
        delivered'[r][k] = IF r = p /\ k = m THEN 1 ELSE delivered[r][k]
  BY <1>1, <1>2, <1>3 DEF TypeOK
<1>8. ArrivedIsQueuedOrDelivered'
  <2> SUFFICES ASSUME NEW r \in Process, NEW k \in Message
               PROVE  /\ upcalls[r][k] \in {0, 1}
                      /\ upcalls[r][k] > 0 => k \in broadcast
                      /\ upcalls[r][k] = delivered'[r][k]
                           + (IF k \in ordered'[r][k.originator].entries THEN 1 ELSE 0)
    BY <1>2 DEF ArrivedIsQueuedOrDelivered
  <2>1. /\ upcalls[r][k] \in {0, 1}
        /\ upcalls[r][k] > 0 => k \in broadcast
        /\ upcalls[r][k] = delivered[r][k]
             + (IF k \in ordered[r][k.originator].entries THEN 1 ELSE 0)
    BY DEF IInv, ArrivedIsQueuedOrDelivered
  <2>2. k.originator \in Process
    BY MessageType
  <2>3. CASE r = p /\ k = m
    <3>1. delivered'[r][k] = 1 /\ k \notin ordered'[r][k.originator].entries
      BY <1>1, <1>5, <1>7, <2>2, <2>3
    <3>2. upcalls[r][k] = 1
      BY <1>1, <2>3
    <3>3. QED
      BY <2>1, <3>1, <3>2
  <2>4. CASE ~ (r = p /\ k = m)
    <3>1. k \in ordered'[r][k.originator].entries <=> k \in ordered[r][k.originator].entries
      BY <1>5, <2>2, <2>4
    <3>2. QED
      BY <1>7, <2>1, <2>4, <3>1
  <2>5. QED
    BY <2>3, <2>4
<1>9. BroadcastInOrder' /\ QueuesAreSeparate'
  <2>1. BroadcastInOrder'
    BY <1>2 DEF IInv, BroadcastInOrder
  <2>2. \A r, s \in Process : ordered'[r][s].entries \subseteq ordered[r][s].entries
    BY <1>5
  <2>3. QueuesAreSeparate'
    BY <2>2 DEF IInv, QueuesAreSeparate
  <2>4. QED
    BY <2>1, <2>3
<1>10. ExpectedCountsDeliveries'
  <2> SUFFICES ASSUME NEW r \in Process, NEW k \in Message
               PROVE  delivered'[r][k] > 0 <=>
                        k.bcast_seq_num < ordered'[r][k.originator].expected_next
    BY DEF ExpectedCountsDeliveries
  <2>1. /\ k.originator \in Process /\ k.bcast_seq_num \in Nat
        /\ delivered[r][k] > 0 <=> k.bcast_seq_num < ordered[r][k.originator].expected_next
        /\ ordered[r][k.originator].expected_next \in Nat
    BY MessageType, BoundsAssumption, QueueType DEF IInv, ExpectedCountsDeliveries
  <2>2. CASE r = p /\ k.originator = q
    <3>1. ordered'[r][k.originator].expected_next = m.bcast_seq_num + 1
      BY <1>1, <1>5, <2>2
    <3>2. k.bcast_seq_num = m.bcast_seq_num <=> k = m
      BY <1>1, <2>2, MessageIdentity
    <3>3. QED
      BY <1>1, <1>7, <2>1, <2>2, <3>1, <3>2
  <2>3. CASE ~ (r = p /\ k.originator = q)
    BY <1>1, <1>5, <1>7, <2>1, <2>3
  <2>4. QED
    BY <2>2, <2>3
<1>11. NextIsMissing'
  <2> SUFFICES ASSUME NEW r \in Process, NEW s \in Process, handling[r] # s,
                      NEW k \in ordered'[r][s].entries
               PROVE  k.bcast_seq_num # ordered'[r][s].expected_next
    BY <1>4 DEF NextIsMissing
  <2>1. ~ (r = p /\ s = q)
    BY <1>1
  <2>2. k \in ordered[r][s].entries /\ ordered'[r][s].expected_next = ordered[r][s].expected_next
    BY <1>5, <2>1
  <2>3. QED
    BY <2>2 DEF IInv, NextIsMissing
<1>12. FrontIsTopOrOver'
  <2> SUFFICES ASSUME NEW r \in Process, NEW s \in Process
               PROVE  LET queue == ordered'[r][s]
                      IN  /\ queue.entries # {} => queue.front = Top(queue.entries).bcast_seq_num
                          /\ queue.entries = {} => queue.front < queue.expected_next
                          /\ handling[r] = s => queue.front # NoStorage
    BY <1>4 DEF FrontIsTopOrOver
  <2>1. CASE r = p /\ s = q
    <3> DEFINE old == ordered[p][q]
               rest == old.entries \ {m}
               new == Popped(old)
    <3>1. ordered'[r][s] = new
      BY <1>1, <1>2, <1>3, <2>1 DEF TypeOK
    <3>2. /\ old.front = m.bcast_seq_num /\ old.expected_next = m.bcast_seq_num
          /\ m.bcast_seq_num \in Nat
      BY <1>1, QueueType, MessageType DEF IInv, FrontIsTopOrOver, DeliverNext, has_next
    <3>3. /\ new.entries = rest
          /\ new.front = IF rest = {} THEN old.front ELSE Top(rest).bcast_seq_num
          /\ new.expected_next = old.expected_next + 1
      BY <1>1 DEF Popped
    <3>4. rest # {} => Top(rest).bcast_seq_num \in Nat
      <4>1. rest \in SUBSET Message
        BY <1>1, QueueType
      <4> HIDE DEF rest
      <4>2. QED
        BY <4>1, TopInQueue, BoundsAssumption
    <3> HIDE DEF old, rest, new
    <3>5. QED
      BY <3>1, <3>2, <3>3, <3>4 DEF NoStorage
  <2>2. CASE ~ (r = p /\ s = q)
    <3>1. ordered'[r][s] = ordered[r][s]
      BY <1>1, <1>2, <1>3, <2>2 DEF TypeOK
    <3>2. QED
      BY <3>1 DEF IInv, FrontIsTopOrOver
  <2>3. QED
    BY <2>1, <2>2
<1>13. QED
  BY <1>6, <1>8, <1>9, <1>10, <1>11, <1>12 DEF IInv

LEMMA ReturnPreserves ==
  ASSUME IInv, NEW p \in Process, Return(p)
  PROVE  IInv'
<1> DEFINE q == handling[p]
<1>1. /\ handling' = [handling EXCEPT ![p] = N]
      /\ ~ has_next(ordered[p][q])
      /\ UNCHANGED << broadcast, upcalls, crashed, next_msg, ordered, delivered >>
  BY DEF Return, below
<1>2. TypeOK /\ TypeOK'
  BY <1>1, NAssumption DEF IInv, TypeOK
<1>3. NextIsMissing'
  <2> SUFFICES ASSUME NEW r \in Process, NEW s \in Process, handling'[r] # s,
                      NEW k \in ordered[r][s].entries
               PROVE  k.bcast_seq_num # ordered[r][s].expected_next
    BY <1>1 DEF NextIsMissing
  <2>1. CASE r = p /\ s = q
    <3>1. /\ ordered[p][q].entries \subseteq Message
          /\ ordered[p][q].expected_next \in Nat
          /\ q \in Process
      BY <2>1, QueueType
    <3>2. Top(ordered[p][q].entries).bcast_seq_num # ordered[p][q].expected_next
      BY <1>1, <2>1, QueueType
    <3>3. /\ Top(ordered[p][q].entries) \in ordered[p][q].entries
          /\ Top(ordered[p][q].entries).bcast_seq_num <= k.bcast_seq_num
      BY <2>1, <3>1, TopInQueue
    <3>4. upcalls[p][k] \in {0, 1} /\ delivered[p][k] = 0
      <4>1. k \in Message /\ k.originator = q
        BY <2>1, <3>1 DEF IInv, QueuesAreSeparate
      <4>2. upcalls[p][k] = delivered[p][k] + 1 /\ upcalls[p][k] \in {0, 1}
        BY <2>1, <4>1 DEF IInv, ArrivedIsQueuedOrDelivered
      <4>3. delivered[p][k] \in Nat
        BY <1>2, <4>1 DEF TypeOK
      <4>4. QED
        BY <4>2, <4>3
    <3>5. SUFFICES ASSUME k.bcast_seq_num = ordered[p][q].expected_next
                   PROVE  FALSE
      BY <2>1
    <3> DEFINE top == Top(ordered[p][q].entries)
    <3>6. top \in Message /\ top.originator = q
      BY <3>1, <3>3 DEF IInv, QueuesAreSeparate
    <3> HIDE DEF top
    <3>7. top.bcast_seq_num \in Nat /\ top.bcast_seq_num < ordered[p][q].expected_next
      BY <3>1, <3>2, <3>3, <3>5, <3>6, MessageType, BoundsAssumption DEF top
    <3>8. delivered[p][top] > 0
      BY <3>6, <3>7 DEF IInv, ExpectedCountsDeliveries
    <3>9. /\ upcalls[p][top] = delivered[p][top] + 1 /\ upcalls[p][top] \in {0, 1}
          /\ delivered[p][top] \in Nat
      BY <1>2, <3>3, <3>6 DEF IInv, ArrivedIsQueuedOrDelivered, TypeOK, top
    <3>10. QED
      BY <3>8, <3>9
  <2>2. CASE ~ (r = p /\ s = q)
    <3>1. handling[r] # s
      BY <1>1, <1>2, <2>2 DEF TypeOK
    <3>2. QED
      BY <3>1 DEF IInv, NextIsMissing
  <2>3. QED
    BY <2>1, <2>2
<1>4. FrontIsTopOrOver'
  <2>1. \A r, s \in Process : handling'[r] = s => handling[r] = s
    BY <1>1, <1>2, NAssumption DEF TypeOK, Process
  <2>2. QED
    BY <1>1, <2>1 DEF IInv, FrontIsTopOrOver
<1>5. QED
  BY <1>1, <1>2, <1>3, <1>4
  DEF IInv, BroadcastInOrder, ArrivedIsQueuedOrDelivered, QueuesAreSeparate,
      ExpectedCountsDeliveries

LEMMA StepPreserves == IInv /\ [Next]_vars => IInv'
<1> SUFFICES ASSUME IInv, [Next]_vars PROVE IInv'
  OBVIOUS
<1>1. ASSUME NEW p \in Process, Crash(p) PROVE IInv'
  BY <1>1
  DEF Crash, Bc!Crash, own, IInv, TypeOK, BroadcastInOrder, ArrivedIsQueuedOrDelivered,
      QueuesAreSeparate, ExpectedCountsDeliveries, NextIsMissing, FrontIsTopOrOver
<1>2. CASE UNCHANGED vars
  BY <1>2
  DEF vars, below, own, IInv, TypeOK, BroadcastInOrder, ArrivedIsQueuedOrDelivered,
      QueuesAreSeparate, ExpectedCountsDeliveries, NextIsMissing, FrontIsTopOrOver
<1>3. QED
  BY <1>1, <1>2, SendPreserves, ReceivePreserves, DeliverNextPreserves, ReturnPreserves DEF Next

\* The inductive invariant holds in every reachable state.
THEOREM InductiveInvariant == Spec => []IInv
BY InitIInv, StepPreserves, PTL DEF Spec

\* The top of an empty queue, which the loop looks at, is read from storage that
\* is there and has a number that is over: has_next is false of it, and no empty
\* queue is popped.
THEOREM NeverEmpty == Spec => []NeverPopsEmpty
<1>1. ASSUME IInv, NEW p \in Process, ~ Idle(p)
      PROVE  LET queue == ordered[p][handling[p]]
             IN  queue.front # NoStorage /\ (has_next(queue) => queue.entries # {})
  <2>1. handling[p] \in Process
    BY <1>1, NAssumption DEF Idle, IInv, TypeOK, Process
  <2>2. ordered[p][handling[p]].front # NoStorage
    BY <1>1, <2>1 DEF IInv, FrontIsTopOrOver
  <2>3. QED
    BY <1>1, <2>1, <2>2, QueueType
<1>2. IInv => NeverPopsEmpty
  BY <1>1 DEF NeverPopsEmpty
<1>3. QED
  BY <1>2, InductiveInvariant, PTL

\* What has arrived without a gap before it was delivered when deliver returns.
THEOREM NoGapNoWait == Spec => []NothingLeftBehind
<1>1. ASSUME IInv, NEW p \in Process, Idle(p), NEW m \in Message,
             \A k \in Earlier(m) \cup {m} : upcalls[p][k] > 0
      PROVE  delivered[p][m] > 0
  <2> DEFINE q == m.originator
             e == ordered[p][q].expected_next
             k == [originator |-> q, bcast_seq_num |-> e]
  <2>1. /\ q \in Process /\ e \in Nat
        /\ m.bcast_seq_num \in 0 .. NumMessages - 1
        /\ handling[p] # q
    BY <1>1, MessageType, QueueType, NAssumption DEF Idle, Process
  <2>2. SUFFICES ASSUME e <= m.bcast_seq_num PROVE FALSE
    BY <1>1, <2>1 DEF IInv, ExpectedCountsDeliveries
  <2>3. k \in Message
    BY <2>1, <2>2, BoundsAssumption DEF Message
  <2>4. k \in Earlier(m) \cup {m}
    <3>1. CASE e = m.bcast_seq_num
      BY <2>3, <3>1, MessageIdentity
    <3>2. CASE e # m.bcast_seq_num
      BY <2>1, <2>2, <2>3, <3>2 DEF Earlier
    <3>3. QED
      BY <3>1, <3>2
  <2>5. /\ upcalls[p][k] > 0
        /\ upcalls[p][k] = delivered[p][k] + (IF k \in ordered[p][q].entries THEN 1 ELSE 0)
        /\ delivered[p][k] \in Nat
        /\ ~ (delivered[p][k] > 0)
    <3>1. /\ delivered[p][k] > 0 <=> e < e
          /\ upcalls[p][k] = delivered[p][k] + (IF k \in ordered[p][q].entries THEN 1 ELSE 0)
      BY <1>1, <2>3 DEF IInv, ArrivedIsQueuedOrDelivered, ExpectedCountsDeliveries
    <3>2. delivered[p][k] \in Nat
      BY <1>1, <2>3 DEF IInv, TypeOK
    <3>3. QED
      BY <1>1, <2>1, <2>4, <3>1, <3>2
  <2>6. k \in ordered[p][q].entries
    BY <2>5
  <2>7. QED
    BY <1>1, <2>1, <2>6 DEF IInv, NextIsMissing
<1>2. IInv => NothingLeftBehind
  BY <1>1 DEF NothingLeftBehind
<1>3. QED
  BY <1>2, InductiveInvariant, PTL

-----------------------------------------------------------------------------
LEMMA SendRefines ==
  ASSUME IInv, NEW p \in Process, Send(p)
  PROVE  Abstract!Next
<1> DEFINE History == [k \in Message |-> IF k \in broadcast THEN Earlier(k) ELSE {}]
<1>1. PICK m \in Message : m = [originator |-> p, bcast_seq_num |-> next_msg[p]]
  BY BoundsAssumption DEF Send, IInv, TypeOK, Message
<1>2. /\ p \notin crashed /\ m \notin broadcast
      /\ m.originator = p /\ m.bcast_seq_num = next_msg[p]
      /\ broadcast' = broadcast \cup {m}
      /\ UNCHANGED << crashed, delivered >>
  BY <1>1 DEF Send, Bc!Broadcast
<1>3. Abstract!DirectDependencies(m) = Earlier(m)
  BY MessageType DEF Abstract!DirectDependencies, Earlier
<1>4. Earlier(m) \subseteq broadcast
  BY <1>2 DEF Earlier, IInv, BroadcastInOrder
<1>5. \A k \in Earlier(m) : History[k] = Earlier(k) /\ Earlier(k) \subseteq Earlier(m)
  <2> TAKE k \in Earlier(m)
  <2>1. k \in Message /\ k \in broadcast
    BY <1>4 DEF Earlier
  <2>2. Earlier(k) \subseteq Earlier(m)
    BY MessageType, BoundsAssumption DEF Earlier
  <2>3. QED
    BY <2>1, <2>2
<1>6. History' = [History EXCEPT ![m] = Earlier(m) \cup UNION { History[k] : k \in Earlier(m) }]
  <2>1. Earlier(m) \cup UNION { History[k] : k \in Earlier(m) } = Earlier(m)
    BY <1>5
  <2>2. History' = [k \in Message |-> IF k \in broadcast' THEN Earlier(k) ELSE {}]
    BY DEF Earlier
  <2>3. QED
    BY <1>2, <2>1, <2>2
<1>7. Abstract!Broadcast(m)
  BY <1>2, <1>3, <1>4, <1>6 DEF Abstract!Broadcast
<1>8. QED
  BY <1>7 DEF Abstract!Next

LEMMA DeliverNextRefines ==
  ASSUME IInv, NEW p \in Process, DeliverNext(p)
  PROVE  Abstract!Next
<1>1. PICK q \in Process, m \in Message :
        /\ q = handling[p]
        /\ m = Top(ordered[p][q].entries)
        /\ m.originator = q
        /\ m.bcast_seq_num = ordered[p][q].expected_next
        /\ delivered[p][m] = 0
        /\ m \in broadcast
  BY NextMessage
<1>2. /\ p \notin crashed
      /\ delivered' = [delivered EXCEPT ![p][m] = @ + 1]
      /\ UNCHANGED << broadcast, crashed >>
  BY <1>1 DEF DeliverNext, below
<1>3. \A k \in Earlier(m) : delivered[p][k] > 0
  BY <1>1 DEF Earlier, IInv, ExpectedCountsDeliveries
<1>4. [k \in Message |-> IF k \in broadcast THEN Earlier(k) ELSE {}]' =
        [k \in Message |-> IF k \in broadcast THEN Earlier(k) ELSE {}]
  BY <1>2 DEF Earlier
<1>5. Abstract!Deliver(p, m)
  BY <1>1, <1>2, <1>3, <1>4 DEF Abstract!Deliver
<1>6. QED
  BY <1>5 DEF Abstract!Next

\* Queues and loop hand over the messages of each originator in order, without
\* gaps, each once.
THEOREM Refinement == Spec => ImplementsFifoOrder
<1>1. Init => Abstract!Init
  BY DEF Init, Bc!Init, Abstract!Init
<1>2. IInv /\ [Next]_vars => [Abstract!Next]_(Abstract!vars)
  <2> SUFFICES ASSUME IInv, [Next]_vars PROVE [Abstract!Next]_(Abstract!vars)
    OBVIOUS
  <2>1. ASSUME NEW p \in Process, Send(p) \/ DeliverNext(p)
        PROVE  Abstract!Next
    BY <2>1, SendRefines, DeliverNextRefines
  <2>2. CASE UNCHANGED << broadcast, delivered, crashed >>
    BY <2>2 DEF Abstract!vars
  <2>3. ASSUME NEW p \in Process, Return(p) \/ \E m \in Message : Receive(p, m)
        PROVE  UNCHANGED << broadcast, delivered, crashed >>
    BY <2>3 DEF Return, Receive, Bc!Deliver, below
  <2>4. ASSUME NEW p \in Process, Crash(p)
        PROVE  Abstract!Next
    <3>1. Abstract!Crash(p)
      BY <2>4 DEF Crash, Bc!Crash, own, Abstract!Crash
    <3>2. QED
      BY <3>1 DEF Abstract!Next
  <2>5. CASE UNCHANGED vars
    BY <2>2, <2>5 DEF vars, below, own
  <2>6. QED
    BY <2>1, <2>2, <2>3, <2>4, <2>5 DEF Next
<1>3. QED
  BY <1>1, <1>2, InductiveInvariant, PTL DEF Spec, ImplementsFifoOrder, Abstract!Spec

=============================================================================
