-------------------- MODULE LocalizedCausalBroadcastProofs --------------------
(***************************************************************************)
(* Theorems about LocalizedCausalBroadcast, for any number of hosts, any   *)
(* dependencies and any bounds.                                            *)
(***************************************************************************)
EXTENDS LocalizedCausalBroadcast, WellFoundedInduction, FiniteSetTheorems, TLAPS

-----------------------------------------------------------------------------
(***************************************************************************)
(* Minima.                                                                 *)
(***************************************************************************)
LEMMA LeastNatural ==
  ASSUME NEW T \in SUBSET Nat, T # {}
  PROVE  \E x \in T : \A y \in T : x <= y
<1>1. PICK x \in T : \A y \in T : ~ (<< y, x >> \in OpToRel(<, Nat))
  BY NatLessThanWellFounded, WFMin
<1>2. ASSUME NEW y \in T PROVE x <= y
  <2>1. ~ (y < x)
    BY <1>1 DEF OpToRel
  <2>2. x \in Nat /\ y \in Nat
    OBVIOUS
  <2>3. QED
    BY <2>1, <2>2
<1>3. QED
  BY <1>2

LEMMA MinInSet ==
  ASSUME NEW T \in SUBSET Nat, T # {}
  PROVE  Min(T) \in T
BY LeastNatural DEF Min

LEMMA TopInHeap ==
  ASSUME NEW heap \in SUBSET Message, heap # {}
  PROVE  /\ Top(heap) \in heap
         /\ \A k \in heap : Top(heap).bcast_seq_num <= k.bcast_seq_num
<1> DEFINE T == { m.bcast_seq_num : m \in heap }
<1>1. T \in SUBSET Nat /\ T # {}
  BY NumMessagesAssumption DEF Message
<1>2. PICK x \in T : \A y \in T : x <= y
  BY <1>1, LeastNatural
<1>3. PICK m \in heap : m.bcast_seq_num = x
  BY <1>2
<1>4. \A k \in heap : m.bcast_seq_num <= k.bcast_seq_num
  BY <1>2, <1>3
<1>5. QED
  BY <1>4 DEF Top

-----------------------------------------------------------------------------
(***************************************************************************)
(* The inductive invariant.                                                *)
(***************************************************************************)
LEMMA MessageType ==
  ASSUME NEW m \in Message
  PROVE  m.originator \in Process /\ m.bcast_seq_num \in Nat
BY NumMessagesAssumption DEF Message

LEMMA MessageIdentity ==
  ASSUME NEW m \in Message, NEW k \in Message,
         m.originator = k.originator, m.bcast_seq_num = k.bcast_seq_num
  PROVE  m = k
BY DEF Message

\* ClockCountsDeliveries for one message.
LEMMA ClockCounts ==
  ASSUME ClockCountsDeliveries, NEW p \in Process, NEW m \in Message
  PROVE  delivered[p][m] > 0 <=> m.bcast_seq_num < current_clock[p][m.originator]
BY MessageType DEF ClockCountsDeliveries

\* A message has not arrived, or waits in a heap, or was delivered.
LEMMA Accounting ==
  ASSUME IInv, NEW p \in Process, NEW m \in Message
  PROVE  /\ upcalls[p][m] \in {0, 1}
         /\ delivered[p][m] \in {0, 1}
         /\ upcalls[p][m] = 0 => delivered[p][m] = 0 /\ m \notin pending[p][m.originator]
         /\ m \in pending[p][m.originator] <=> upcalls[p][m] = 1 /\ delivered[p][m] = 0
         /\ upcalls[p][m] = 1 => m \in broadcast
         /\ delivered[p][m] = 1 => upcalls[p][m] = 1 /\ m \in broadcast
<1> DEFINE waiting == IF m \in pending[p][m.originator] THEN 1 ELSE 0
<1>1. upcalls[p][m] \in {0, 1} /\ (upcalls[p][m] > 0 => m \in broadcast)
  BY DEF IInv, ArrivesOnce
<1>2. delivered[p][m] \in Nat
  BY DEF IInv, TypeOK
<1>3. upcalls[p][m] = delivered[p][m] + waiting
  BY DEF IInv, ArrivedIsPendingOrDelivered
<1>4. /\ waiting \in {0, 1}
      /\ waiting = 1 <=> m \in pending[p][m.originator]
  OBVIOUS
<1> HIDE DEF waiting
<1>5. QED
  BY <1>1, <1>2, <1>3, <1>4

LEMMA InitIInv == Init => IInv
<1> SUFFICES ASSUME Init PROVE IInv
  OBVIOUS
<1> USE DEF Init, Bc!Init
<1>1. TypeOK
  BY NumMessagesAssumption, NAssumption DEF TypeOK
<1>2. BroadcastInOrder
  BY NumMessagesAssumption, MessageType DEF BroadcastInOrder
<1>3. ArrivesOnce /\ HeapsAreSorted
  BY DEF ArrivesOnce, HeapsAreSorted
<1>4. ArrivedIsPendingOrDelivered
  BY MessageType DEF ArrivedIsPendingOrDelivered
<1>5. ClockCountsDeliveries
  BY MessageType DEF ClockCountsDeliveries
<1>6. ClockTellsPast /\ DeliveriesAreCausal
  BY DEF ClockTellsPast, DeliveriesAreCausal
<1>7. QED
  BY <1>1, <1>2, <1>3, <1>4, <1>5, <1>6 DEF IInv

\* The clock a message is sent with tells exactly its direct dependencies, and
\* all of these were broadcast before.
LEMMA SendTellsPast ==
  ASSUME IInv, NEW p \in Process, NEW m \in Message,
         m = [originator |-> p, bcast_seq_num |-> next_msg[p]],
         vector_clock' = [vector_clock EXCEPT ![m] = OutgoingClock(p)]
  PROVE  /\ Direct(m)' = Abstract!DirectDependencies(m)
         /\ Direct(m)' \subseteq broadcast
<1>1. /\ m.originator = p
      /\ m.bcast_seq_num = next_msg[p]
      /\ Dependencies[p] \in Seq(Process)
  BY DependenciesAssumption
<1>2. vector_clock'[m] = OutgoingClock(p)
  BY DEF IInv, TypeOK
<1>3. ASSUME NEW k \in Message
      PROVE  (\E i \in DOMAIN vector_clock'[m] :
                /\ k.originator = Dependencies[p][i]
                /\ k.bcast_seq_num < vector_clock'[m][i])
             <=> (k.originator \in Affects[p] /\ delivered[p][k] > 0)
  <2>1. delivered[p][k] > 0 <=> k.bcast_seq_num < current_clock[p][k.originator]
    BY ClockCounts DEF IInv
  <2>2. k.originator \in Affects[p] <=>
          \E i \in DOMAIN Dependencies[p] : k.originator = Dependencies[p][i]
    BY DEF Affects, Range
  <2>3. QED
    BY <1>2, <2>1, <2>2 DEF OutgoingClock
<1>4. Direct(m)' = Abstract!DirectDependencies(m)
  BY <1>1, <1>3 DEF Direct, Abstract!DirectDependencies
<1>5. Abstract!DirectDependencies(m) \subseteq broadcast
  <2> SUFFICES ASSUME NEW k \in Message,
                      \/ k.originator = p /\ k.bcast_seq_num < next_msg[p]
                      \/ delivered[p][k] > 0
               PROVE  k \in broadcast
    BY <1>1 DEF Abstract!DirectDependencies
  <2>1. CASE k.originator = p /\ k.bcast_seq_num < next_msg[p]
    BY <2>1 DEF IInv, BroadcastInOrder
  <2>2. CASE delivered[p][k] > 0
    BY <2>2, Accounting
  <2>3. QED
    BY <2>1, <2>2
<1>6. QED
  BY <1>4, <1>5

LEMMA SendPreservesIInv ==
  ASSUME IInv, NEW p \in Process, Send(p)
  PROVE  IInv'
<1>1. TypeOK /\ next_msg[p] \in 0 .. NumMessages /\ next_msg[p] < NumMessages
  <2>1. next_msg[p] < Budget[p]
    BY DEF Send
  <2>2. Budget[p] \in 0 .. NumMessages
    BY BoundsAssumption
  <2>3. TypeOK /\ next_msg[p] \in 0 .. NumMessages
    BY DEF IInv, TypeOK
  <2>4. QED
    BY <2>1, <2>2, <2>3, NumMessagesAssumption
<1>2. PICK m \in Message : m = [originator |-> p, bcast_seq_num |-> next_msg[p]]
  <2>1. [originator |-> p, bcast_seq_num |-> next_msg[p]] \in Message
    BY <1>1, NumMessagesAssumption DEF Message
  <2>2. QED
    BY <2>1
<1>3. m.originator = p /\ m.bcast_seq_num = next_msg[p]
  BY <1>2
<1>4. /\ m \notin broadcast
      /\ broadcast' = broadcast \cup {m}
      /\ next_msg' = [next_msg EXCEPT ![p] = @ + 1]
      /\ vector_clock' = [vector_clock EXCEPT ![m] = OutgoingClock(p)]
      /\ past' = [past EXCEPT ![m] =
                    Abstract!DirectDependencies(m)
                      \cup UNION { past[k] : k \in Abstract!DirectDependencies(m) }]
  BY <1>2 DEF Send, Bc!Broadcast
<1>5. /\ upcalls' = upcalls
      /\ crashed' = crashed
      /\ current_clock' = current_clock
      /\ pending' = pending
      /\ it' = it
      /\ delivered' = delivered
  BY <1>2 DEF Send, Bc!Broadcast
<1>6. /\ Direct(m)' = Abstract!DirectDependencies(m)
      /\ Direct(m)' \subseteq broadcast
  BY <1>2, <1>4, SendTellsPast
<1>7. OutgoingClock(p) \in Seq(Nat)
  <2>1. Dependencies[p] \in Seq(Process)
    BY DependenciesAssumption
  <2>2. \A i \in DOMAIN Dependencies[p] : current_clock[p][Dependencies[p][i]] \in Nat
    BY <1>1, <2>1 DEF TypeOK
  <2>3. DOMAIN Dependencies[p] = 1 .. Len(Dependencies[p]) /\ Len(Dependencies[p]) \in Nat
    BY <2>1
  <2>4. QED
    BY <2>2, <2>3 DEF OutgoingClock
<1>8. TypeOK'
  <2>1. next_msg' \in [Process -> 0 .. NumMessages]
    BY <1>1, <1>4, NumMessagesAssumption DEF TypeOK
  <2>2. vector_clock' \in [Message -> Seq(Nat)]
    BY <1>1, <1>4, <1>7 DEF TypeOK
  <2>3. Abstract!DirectDependencies(m) \cup
          UNION { past[k] : k \in Abstract!DirectDependencies(m) } \in SUBSET Message
    BY <1>1 DEF TypeOK, Abstract!DirectDependencies
  <2>4. past' \in [Message -> SUBSET Message]
    BY <1>1, <1>4, <2>3 DEF TypeOK
  <2>5. QED
    BY <1>1, <1>4, <1>5, <2>1, <2>2, <2>4 DEF TypeOK
<1>9. BroadcastInOrder'
  <2> SUFFICES ASSUME NEW k \in Message
               PROVE  k \in broadcast' <=> k.bcast_seq_num < next_msg'[k.originator]
    BY <1>8 DEF BroadcastInOrder, TypeOK
  <2>1. k \in broadcast <=> k.bcast_seq_num < next_msg[k.originator]
    BY DEF IInv, BroadcastInOrder
  <2>2. k.originator \in Process /\ k.bcast_seq_num \in Nat
    BY MessageType
  <2>3. CASE k.originator # p
    BY <1>1, <1>3, <1>4, <2>1, <2>2, <2>3 DEF TypeOK
  <2>4. CASE k.originator = p
    <3>1. next_msg'[p] = next_msg[p] + 1
      BY <1>1, <1>4 DEF TypeOK
    <3>2. k = m <=> k.bcast_seq_num = next_msg[p]
      BY <1>3, <2>4, MessageIdentity
    <3>3. QED
      BY <1>1, <1>4, <2>1, <2>2, <2>4, <3>1, <3>2
  <2>5. QED
    BY <2>3, <2>4
<1>10. ArrivesOnce' /\ HeapsAreSorted' /\ ArrivedIsPendingOrDelivered'
  BY <1>4, <1>5 DEF IInv, ArrivesOnce, HeapsAreSorted, ArrivedIsPendingOrDelivered
<1>11. ClockCountsDeliveries'
  BY <1>5 DEF IInv, ClockCountsDeliveries
<1>12. ASSUME NEW k \in broadcast
       PROVE  Direct(k)' = Direct(k) /\ past'[k] = past[k]
  <2>1. k \in Message /\ k # m
    BY <1>1, <1>4 DEF TypeOK
  <2>2. vector_clock'[k] = vector_clock[k] /\ past'[k] = past[k]
    BY <1>1, <1>4, <2>1 DEF TypeOK
  <2>3. QED
    BY <2>2 DEF Direct
<1>13. ClockTellsPast'
  <2> SUFFICES ASSUME NEW k \in broadcast'
               PROVE  /\ Direct(k)' \subseteq broadcast'
                      /\ past'[k] = Direct(k)' \cup UNION { past'[j] : j \in Direct(k)' }
    BY DEF ClockTellsPast
  <2>1. CASE k \in broadcast
    <3>1. /\ Direct(k) \subseteq broadcast
          /\ past[k] = Direct(k) \cup UNION { past[j] : j \in Direct(k) }
      BY <2>1 DEF IInv, ClockTellsPast
    <3>2. \A j \in Direct(k) : past'[j] = past[j]
      BY <1>12, <3>1
    <3>3. Direct(k)' = Direct(k) /\ past'[k] = past[k]
      BY <1>12, <2>1
    <3>4. { past'[j] : j \in Direct(k) } = { past[j] : j \in Direct(k) }
      BY <3>2
    <3>5. QED
      BY <1>4, <3>1, <3>3, <3>4
  <2>2. CASE k = m
    <3>1. past'[m] = Direct(m)' \cup UNION { past[j] : j \in Direct(m)' }
      BY <1>1, <1>4, <1>6 DEF TypeOK
    <3>2. \A j \in Direct(m)' : past'[j] = past[j]
      BY <1>6, <1>12
    <3>3. QED
      BY <1>4, <1>6, <2>2, <3>1, <3>2
  <2>3. QED
    BY <1>4, <2>1, <2>2
<1>14. DeliveriesAreCausal'
  <2> SUFFICES ASSUME NEW q \in Process, NEW k \in Message, delivered[q][k] > 0
               PROVE  \A j \in past'[k] : delivered[q][j] > 0
    BY <1>5 DEF DeliveriesAreCausal
  <2>1. k \in broadcast
    BY Accounting
  <2>2. QED
    BY <1>12, <2>1 DEF IInv, DeliveriesAreCausal
<1>15. QED
  BY <1>8, <1>9, <1>10, <1>11, <1>13, <1>14 DEF IInv

LEMMA ReceivePreservesIInv ==
  ASSUME IInv, NEW p \in Process, NEW m \in Message, Receive(p, m)
  PROVE  IInv'
<1>1. TypeOK /\ m.originator \in Process
  BY MessageType DEF IInv
<1>2. /\ upcalls' = [upcalls EXCEPT ![p][m] = @ + 1]
      /\ pending' = [pending EXCEPT ![p][m.originator] = @ \cup {m}]
      /\ it' = [it EXCEPT ![p] = 0]
      /\ upcalls[p][m] = 0
      /\ m \in broadcast
  BY DEF Receive, Bc!Deliver
<1>3. /\ broadcast' = broadcast
      /\ crashed' = crashed
      /\ next_msg' = next_msg
      /\ vector_clock' = vector_clock
      /\ current_clock' = current_clock
      /\ delivered' = delivered
      /\ past' = past
  BY DEF Receive, Bc!Deliver
<1>4. TypeOK'
  <2>1. upcalls' \in [Process -> [Message -> Nat]]
    BY <1>1, <1>2 DEF TypeOK
  <2>2. pending' \in [Process -> [Process -> SUBSET Message]]
    BY <1>1, <1>2 DEF TypeOK
  <2>3. it' \in [Process -> 0 .. N]
    BY <1>1, <1>2, NAssumption DEF TypeOK
  <2>4. QED
    BY <1>1, <1>3, <2>1, <2>2, <2>3 DEF TypeOK
<1>5. ASSUME NEW q \in Process, NEW k \in Message
      PROVE  /\ upcalls'[q][k] = IF q = p /\ k = m THEN 1 ELSE upcalls[q][k]
             /\ k \in pending'[q][k.originator] <=>
                  (q = p /\ k = m) \/ k \in pending[q][k.originator]
  <2>1. k.originator \in Process
    BY MessageType
  <2>2. upcalls'[q][k] = IF q = p /\ k = m THEN 1 ELSE upcalls[q][k]
    <3>1. upcalls'[q][k] = IF q = p /\ k = m THEN upcalls[p][m] + 1 ELSE upcalls[q][k]
      BY <1>1, <1>2 DEF TypeOK
    <3>2. upcalls[p][m] + 1 = 1
      BY <1>2
    <3>3. QED
      BY <3>1, <3>2
  <2>3. pending'[q][k.originator] =
          IF q = p /\ k.originator = m.originator
          THEN pending[q][k.originator] \cup {m}
          ELSE pending[q][k.originator]
    BY <1>1, <1>2, <2>1 DEF TypeOK
  <2>4. QED
    BY <2>2, <2>3
<1>6. ArrivesOnce'
  BY <1>2, <1>3, <1>5 DEF IInv, ArrivesOnce
<1>7. HeapsAreSorted'
  <2> SUFFICES ASSUME NEW q \in Process, NEW r \in Process, NEW k \in pending'[q][r]
               PROVE  k.originator = r
    BY DEF HeapsAreSorted
  <2>1. pending'[q][r] = IF q = p /\ r = m.originator
                         THEN pending[q][r] \cup {m} ELSE pending[q][r]
    BY <1>1, <1>2 DEF TypeOK
  <2>2. QED
    BY <2>1 DEF IInv, HeapsAreSorted
<1>8. ArrivedIsPendingOrDelivered'
  <2> SUFFICES ASSUME NEW q \in Process, NEW k \in Message
               PROVE  upcalls'[q][k] = delivered'[q][k] +
                        (IF k \in pending'[q][k.originator] THEN 1 ELSE 0)
    BY DEF ArrivedIsPendingOrDelivered
  <2>1. CASE q = p /\ k = m
    <3>1. delivered[p][m] = 0
      BY <1>2, Accounting
    <3>2. QED
      BY <1>3, <1>5, <2>1, <3>1
  <2>2. CASE ~ (q = p /\ k = m)
    BY <1>3, <1>5, <2>2 DEF IInv, ArrivedIsPendingOrDelivered
  <2>3. QED
    BY <2>1, <2>2
<1>9. BroadcastInOrder' /\ ClockCountsDeliveries' /\ DeliveriesAreCausal'
  BY <1>3 DEF IInv, BroadcastInOrder, ClockCountsDeliveries, DeliveriesAreCausal
<1>10. ClockTellsPast'
  BY <1>3 DEF IInv, ClockTellsPast, Direct
<1>11. QED
  BY <1>4, <1>6, <1>7, <1>8, <1>9, <1>10 DEF IInv

\* What DeliverTop finds on top of the first ready queue: a message that p has
\* not delivered, that is the next one of its originator, and of whose past
\* nothing is missing.
LEMMA TopIsDeliverable ==
  ASSUME IInv, NEW p \in Process, Ready(p) # {}
  PROVE  LET q == Min(Ready(p))
             m == Top(pending[p][q])
         IN  /\ q \in Process
             /\ m \in Message
             /\ m \in pending[p][q]
             /\ m.originator = q
             /\ delivered[p][m] = 0
             /\ m \in broadcast
             /\ m.bcast_seq_num = current_clock[p][q]
             /\ \A k \in past[m] : delivered[p][k] > 0
<1> DEFINE q == Min(Ready(p))
           m == Top(pending[p][q])
<1>1. TypeOK /\ it[p] \in 0 .. N
  BY DEF IInv, TypeOK
<1>2. Ready(p) \in SUBSET Nat /\ Ready(p) \subseteq Process
  BY <1>1, NAssumption DEF Ready, Process
<1>3. q \in Ready(p)
  BY <1>2, MinInSet
<1>4. q \in Process /\ pending[p][q] # {} /\ can_deliver(p, m)
  BY <1>2, <1>3 DEF Ready
<1> HIDE DEF q
<1>5. m \in pending[p][q] /\ m \in Message
  <2>1. pending[p][q] \in SUBSET Message
    BY <1>1, <1>4 DEF TypeOK
  <2>2. QED
    BY <1>4, <2>1, TopInHeap
<1> HIDE DEF m
<1>6. m.originator = q
  BY <1>4, <1>5 DEF IInv, HeapsAreSorted
<1>7. delivered[p][m] = 0 /\ m \in broadcast
  BY <1>5, <1>6, Accounting
<1>8. m.bcast_seq_num = current_clock[p][q]
  <2>1. m.bcast_seq_num \in Nat /\ current_clock[p][q] \in Nat
    BY <1>1, <1>4, <1>5, MessageType DEF TypeOK
  <2>2. m.bcast_seq_num <= current_clock[p][q]
    BY <1>4, <1>6 DEF can_deliver
  <2>3. ~ (m.bcast_seq_num < current_clock[p][q])
    BY <1>5, <1>6, <1>7, ClockCounts DEF IInv
  <2>4. QED
    BY <2>1, <2>2, <2>3
<1>9. \A k \in Direct(m) : delivered[p][k] > 0
  <2> SUFFICES ASSUME NEW k \in Direct(m)
               PROVE  delivered[p][k] > 0
    OBVIOUS
  <2>1. k \in Message /\ k.originator \in Process /\ k.bcast_seq_num \in Nat
    BY MessageType DEF Direct
  <2>2. current_clock[p][k.originator] \in Nat
    BY <1>1, <2>1 DEF TypeOK
  <2>3. CASE k.originator = m.originator /\ k.bcast_seq_num < m.bcast_seq_num
    BY <1>6, <1>8, <2>1, <2>3, ClockCounts DEF IInv
  <2>4. CASE \E i \in DOMAIN vector_clock[m] :
               /\ k.originator = Dependencies[m.originator][i]
               /\ k.bcast_seq_num < vector_clock[m][i]
    <3>1. PICK i \in DOMAIN vector_clock[m] :
                 /\ k.originator = Dependencies[m.originator][i]
                 /\ k.bcast_seq_num < vector_clock[m][i]
      BY <2>4
    <3>2. vector_clock[m][i] <= current_clock[p][k.originator]
      BY <1>4, <3>1 DEF can_deliver
    <3>3. vector_clock[m][i] \in Nat
      BY <1>1, <1>5 DEF TypeOK
    <3>4. k.bcast_seq_num < current_clock[p][k.originator]
      BY <2>1, <2>2, <3>1, <3>2, <3>3
    <3>5. QED
      BY <2>1, <3>4, ClockCounts DEF IInv
  <2>5. QED
    BY <2>3, <2>4 DEF Direct
<1>10. \A k \in past[m] : delivered[p][k] > 0
  <2>1. past[m] = Direct(m) \cup UNION { past[k] : k \in Direct(m) }
    BY <1>7 DEF IInv, ClockTellsPast
  <2>2. \A k \in Direct(m) : k \in Message
    BY DEF Direct
  <2>3. \A k \in Direct(m) : \A j \in past[k] : delivered[p][j] > 0
    BY <1>9, <2>2 DEF IInv, DeliveriesAreCausal
  <2>4. QED
    BY <1>9, <2>1, <2>3
<1>11. QED
  BY <1>4, <1>5, <1>6, <1>7, <1>8, <1>10 DEF q, m

LEMMA DeliverTopPreservesIInv ==
  ASSUME IInv, NEW p \in Process, DeliverTop(p)
  PROVE  IInv'
<1>1. PICK q \in Process, m \in Message :
        /\ q = Min(Ready(p))
        /\ m = Top(pending[p][q])
        /\ m \in pending[p][q]
        /\ m.originator = q
        /\ delivered[p][m] = 0
        /\ m \in broadcast
        /\ m.bcast_seq_num = current_clock[p][q]
        /\ \A k \in past[m] : delivered[p][k] > 0
  BY TopIsDeliverable DEF DeliverTop
<1>2. /\ current_clock' = [current_clock EXCEPT ![p][q] = @ + 1]
      /\ delivered' = [delivered EXCEPT ![p][m] = @ + 1]
      /\ pending' = [pending EXCEPT ![p][q] = @ \ {m}]
      /\ it' = [it EXCEPT ![p] = 0]
  BY <1>1 DEF DeliverTop, Popped, Restart
<1>3. /\ broadcast' = broadcast
      /\ upcalls' = upcalls
      /\ crashed' = crashed
      /\ next_msg' = next_msg
      /\ vector_clock' = vector_clock
      /\ past' = past
  BY DEF DeliverTop, below
<1>4. TypeOK
  BY DEF IInv
<1>5. TypeOK'
  <2>1. current_clock' \in [Process -> [Process -> Nat]]
    BY <1>1, <1>2, <1>4 DEF TypeOK
  <2>2. delivered' \in [Process -> [Message -> Nat]]
    BY <1>1, <1>2, <1>4 DEF TypeOK
  <2>3. pending' \in [Process -> [Process -> SUBSET Message]]
    BY <1>1, <1>2, <1>4 DEF TypeOK
  <2>4. it' \in [Process -> 0 .. N]
    BY <1>2, <1>4, NAssumption DEF TypeOK
  <2>5. QED
    BY <1>3, <1>4, <2>1, <2>2, <2>3, <2>4 DEF TypeOK
<1>6. ASSUME NEW r \in Process, NEW k \in Message
      PROVE  /\ delivered'[r][k] = IF r = p /\ k = m THEN 1 ELSE delivered[r][k]
             /\ k \in pending'[r][k.originator] <=>
                  ~ (r = p /\ k = m) /\ k \in pending[r][k.originator]
             /\ k.bcast_seq_num < current_clock'[r][k.originator] <=>
                  (r = p /\ k = m) \/ k.bcast_seq_num < current_clock[r][k.originator]
  <2>1. k.originator \in Process /\ k.bcast_seq_num \in Nat
    BY MessageType
  <2>2. delivered'[r][k] = IF r = p /\ k = m THEN 1 ELSE delivered[r][k]
    <3>1. delivered'[r][k] = IF r = p /\ k = m THEN delivered[p][m] + 1 ELSE delivered[r][k]
      BY <1>2, <1>4 DEF TypeOK
    <3>2. delivered[p][m] + 1 = 1
      BY <1>1
    <3>3. QED
      BY <3>1, <3>2
  <2>3. pending'[r][k.originator] = IF r = p /\ k.originator = q
                                    THEN pending[r][k.originator] \ {m}
                                    ELSE pending[r][k.originator]
    BY <1>2, <1>4, <2>1 DEF TypeOK
  <2>4. k.bcast_seq_num < current_clock'[r][k.originator] <=>
          (r = p /\ k = m) \/ k.bcast_seq_num < current_clock[r][k.originator]
    <3>1. current_clock'[r][k.originator] = IF r = p /\ k.originator = q
                                            THEN current_clock[p][q] + 1
                                            ELSE current_clock[r][k.originator]
      BY <1>2, <1>4, <2>1 DEF TypeOK
    <3>2. CASE ~ (r = p /\ k.originator = q)
      BY <1>1, <3>1, <3>2
    <3>3. CASE r = p /\ k.originator = q
      <4>1. current_clock[p][q] \in Nat
        BY <1>4 DEF TypeOK
      <4>2. k = m <=> k.bcast_seq_num = current_clock[p][q]
        BY <1>1, <3>3, MessageIdentity
      <4>3. QED
        BY <2>1, <3>1, <3>3, <4>1, <4>2
    <3>4. QED
      BY <3>2, <3>3
  <2>5. QED
    BY <1>1, <2>2, <2>3, <2>4
<1>7. ClockCountsDeliveries'
  <2>1. ASSUME NEW r \in Process, NEW k \in Message
        PROVE  delivered'[r][k] > 0 <=> k.bcast_seq_num < current_clock'[r][k.originator]
    <3>1. delivered[r][k] > 0 <=> k.bcast_seq_num < current_clock[r][k.originator]
      BY ClockCounts DEF IInv
    <3>2. CASE r = p /\ k = m
      BY <1>6, <3>2
    <3>3. CASE ~ (r = p /\ k = m)
      BY <1>6, <3>1, <3>3
    <3>4. QED
      BY <3>2, <3>3
  <2>2. QED
    BY <2>1 DEF ClockCountsDeliveries
<1>8. ArrivedIsPendingOrDelivered'
  <2> SUFFICES ASSUME NEW r \in Process, NEW k \in Message
               PROVE  upcalls'[r][k] = delivered'[r][k] +
                        (IF k \in pending'[r][k.originator] THEN 1 ELSE 0)
    BY DEF ArrivedIsPendingOrDelivered
  <2>1. CASE r = p /\ k = m
    <3>1. upcalls[p][m] = 1
      BY <1>1, Accounting
    <3>2. QED
      BY <1>3, <1>6, <2>1, <3>1
  <2>2. CASE ~ (r = p /\ k = m)
    BY <1>3, <1>6, <2>2 DEF IInv, ArrivedIsPendingOrDelivered
  <2>3. QED
    BY <2>1, <2>2
<1>9. HeapsAreSorted'
  <2> SUFFICES ASSUME NEW r \in Process, NEW s \in Process, NEW k \in pending'[r][s]
               PROVE  k.originator = s
    BY DEF HeapsAreSorted
  <2>1. pending'[r][s] \subseteq pending[r][s]
    BY <1>2, <1>4 DEF TypeOK
  <2>2. QED
    BY <2>1 DEF IInv, HeapsAreSorted
<1>10. BroadcastInOrder' /\ ArrivesOnce'
  BY <1>3 DEF IInv, BroadcastInOrder, ArrivesOnce
<1>11. ClockTellsPast'
  BY <1>3 DEF IInv, ClockTellsPast, Direct
<1>12. DeliveriesAreCausal'
  <2> SUFFICES ASSUME NEW r \in Process, NEW k \in Message, delivered'[r][k] > 0,
                      NEW j \in past[k]
               PROVE  delivered'[r][j] > 0
    BY <1>3 DEF DeliveriesAreCausal
  <2>1. j \in Message
    BY <1>4 DEF TypeOK
  <2>2. delivered[r][j] > 0
    <3>1. CASE r = p /\ k = m
      BY <1>1, <3>1
    <3>2. CASE ~ (r = p /\ k = m)
      BY <1>6, <3>2 DEF IInv, DeliveriesAreCausal
    <3>3. QED
      BY <3>1, <3>2
  <2>3. QED
    BY <1>6, <2>1, <2>2
<1>13. QED
  BY <1>5, <1>7, <1>8, <1>9, <1>10, <1>11, <1>12 DEF IInv

\* Only it and crashed change, to values of their types.
LEMMA RestPreservesIInv ==
  ASSUME IInv,
         UNCHANGED << broadcast, upcalls, next_msg, vector_clock, current_clock,
                      pending, delivered, past >>,
         it' \in [Process -> 0 .. N],
         crashed' \subseteq Process
  PROVE  IInv'
<1>1. TypeOK'
  BY DEF IInv, TypeOK
<1>2. BroadcastInOrder' /\ ArrivesOnce' /\ HeapsAreSorted'
  BY DEF IInv, BroadcastInOrder, ArrivesOnce, HeapsAreSorted
<1>3. ArrivedIsPendingOrDelivered' /\ ClockCountsDeliveries' /\ DeliveriesAreCausal'
  BY DEF IInv, ArrivedIsPendingOrDelivered, ClockCountsDeliveries, DeliveriesAreCausal
<1>4. ClockTellsPast'
  BY DEF IInv, ClockTellsPast, Direct
<1>5. QED
  BY <1>1, <1>2, <1>3, <1>4 DEF IInv

LEMMA StepPreservesIInv == IInv /\ [Next]_vars => IInv'
<1> SUFFICES ASSUME IInv, [Next]_vars PROVE IInv'
  OBVIOUS
<1>0. it \in [Process -> 0 .. N] /\ crashed \subseteq Process
  BY DEF IInv, TypeOK
<1>1. ASSUME NEW p \in Process, Send(p) PROVE IInv'
  BY <1>1, SendPreservesIInv
<1>2. ASSUME NEW p \in Process, NEW m \in Message, Receive(p, m) PROVE IInv'
  BY <1>2, ReceivePreservesIInv
<1>3. ASSUME NEW p \in Process, DeliverTop(p) PROVE IInv'
  BY <1>3, DeliverTopPreservesIInv
<1>4. ASSUME NEW p \in Process, Return(p) PROVE IInv'
  <2>1. it' \in [Process -> 0 .. N]
    BY <1>0, <1>4, NAssumption DEF Return, Advanced
  <2>2. QED
    BY <1>0, <1>4, <2>1, RestPreservesIInv DEF Return, below
<1>5. ASSUME NEW p \in Process, Crash(p) PROVE IInv'
  <2>1. crashed' \subseteq Process
    BY <1>0, <1>5 DEF Crash, Bc!Crash
  <2>2. QED
    BY <1>0, <1>5, <2>1, RestPreservesIInv DEF Crash, Bc!Crash, own
<1>6. CASE UNCHANGED vars
  BY <1>0, <1>6, RestPreservesIInv DEF vars, below, own
<1>7. QED
  BY <1>1, <1>2, <1>3, <1>4, <1>5, <1>6 DEF Next

\* The inductive invariant holds in every reachable state.
THEOREM InductiveInvariant == Spec => []IInv
BY InitIInv, StepPreservesIInv, PTL DEF Spec

\* Every variable always has its type.
THEOREM TypeCorrect == Spec => []TypeOK
<1>1. IInv => TypeOK
  BY DEF IInv
<1>2. QED
  BY <1>1, InductiveInvariant, PTL

\* Nothing is delivered before what it depends on, directly or not.
THEOREM CausalDelivery == Spec => []DeliveriesAreCausal
<1>1. IInv => DeliveriesAreCausal
  BY DEF IInv
<1>2. QED
  BY <1>1, InductiveInvariant, PTL

\* The clocks count the deliveries, which have no gaps: FIFO order.
THEOREM FifoDelivery == Spec => []ClockCountsDeliveries
<1>1. IInv => ClockCountsDeliveries
  BY DEF IInv
<1>2. QED
  BY <1>1, InductiveInvariant, PTL

\* No message that arrived is lost or delivered twice.
THEOREM NoLossNoDuplication == Spec => []ArrivedIsPendingOrDelivered
<1>1. IInv => ArrivedIsPendingOrDelivered
  BY DEF IInv
<1>2. QED
  BY <1>1, InductiveInvariant, PTL

-----------------------------------------------------------------------------
(***************************************************************************)
(* The loop leaves nothing behind.                                         *)
(***************************************************************************)
\* Idle or at the beginning: DeliverTop begins the loop again at once.
LoopAtItsEnds == \A p \in Process : it[p] \in {0, N}

\* When the loop is over, no heap has a top that could be delivered.
IdleMeansNoneReady ==
  \A p \in Process : Idle(p) =>
    \A q \in Process : pending[p][q] # {} => ~ can_deliver(p, Top(pending[p][q]))

\* Dependency is an order on what was broadcast.
PastIsOrder ==
  \A m \in broadcast :
    /\ past[m] \subseteq broadcast
    /\ m \notin past[m]
    /\ \A k \in past[m] : past[k] \subseteq past[m]

\* Clocks count messages that exist, and a message has an entry of its clock
\* for each process that its originator lists.
ClocksInRange ==
  /\ \A p, q \in Process : current_clock[p][q] <= NumMessages
  /\ \A m \in broadcast :
       /\ DOMAIN vector_clock[m] = DOMAIN Dependencies[m.originator]
       /\ \A i \in DOMAIN vector_clock[m] : vector_clock[m][i] <= NumMessages

LoopInv ==
  /\ LoopAtItsEnds
  /\ IdleMeansNoneReady
  /\ PastIsOrder
  /\ ClocksInRange

LEMMA InitLoopInv == Init => LoopInv
<1> SUFFICES ASSUME Init PROVE LoopInv
  OBVIOUS
<1> USE DEF Init, Bc!Init
<1>1. LoopAtItsEnds /\ IdleMeansNoneReady /\ PastIsOrder
  BY DEF LoopAtItsEnds, IdleMeansNoneReady, PastIsOrder
<1>2. ClocksInRange
  BY NumMessagesAssumption DEF ClocksInRange
<1>3. QED
  BY <1>1, <1>2 DEF LoopInv

LEMMA SendPreservesLoopInv ==
  ASSUME IInv, LoopInv, NEW p \in Process, Send(p)
  PROVE  LoopInv'
<1>1. TypeOK
  BY DEF IInv
<1>2. PICK m \in Message : m = [originator |-> p, bcast_seq_num |-> next_msg[p]]
  <2>1. next_msg[p] < Budget[p] /\ Budget[p] \in 0 .. NumMessages /\ next_msg[p] \in Nat
    BY <1>1, BoundsAssumption DEF Send, TypeOK
  <2>2. [originator |-> p, bcast_seq_num |-> next_msg[p]] \in Message
    BY <2>1, NumMessagesAssumption DEF Message
  <2>3. QED
    BY <2>2
<1> DEFINE D == Abstract!DirectDependencies(m)
<1>3. /\ m \notin broadcast
      /\ broadcast' = broadcast \cup {m}
      /\ vector_clock' = [vector_clock EXCEPT ![m] = OutgoingClock(p)]
      /\ past' = [past EXCEPT ![m] = D \cup UNION { past[k] : k \in D }]
      /\ UNCHANGED << current_clock, pending, it >>
  BY <1>2 DEF Send, Bc!Broadcast
<1>4. D \subseteq broadcast
  <2>1. Direct(m)' = D /\ Direct(m)' \subseteq broadcast
    BY <1>2, <1>3, SendTellsPast
  <2>2. QED
    BY <2>1
<1> HIDE DEF D
<1>5. ASSUME NEW k \in broadcast
      PROVE  /\ k \in Message
             /\ k # m
             /\ vector_clock'[k] = vector_clock[k]
             /\ past'[k] = past[k]
  BY <1>1, <1>3 DEF TypeOK
<1>6. vector_clock'[m] = OutgoingClock(p) /\ past'[m] = D \cup UNION { past[k] : k \in D }
  BY <1>1, <1>3 DEF TypeOK
<1>7. LoopAtItsEnds'
  BY <1>3 DEF LoopInv, LoopAtItsEnds
<1>8. IdleMeansNoneReady'
  <2> SUFFICES ASSUME NEW r \in Process, Idle(r), NEW q \in Process, pending[r][q] # {}
               PROVE  ~ can_deliver(r, Top(pending[r][q]))'
    BY <1>3 DEF IdleMeansNoneReady, Idle
  <2> DEFINE t == Top(pending[r][q])
  <2>1. ~ can_deliver(r, t)
    BY DEF LoopInv, IdleMeansNoneReady
  <2>2. t \in pending[r][q] /\ t \in Message
    <3>1. pending[r][q] \in SUBSET Message
      BY <1>1 DEF TypeOK
    <3>2. QED
      BY <3>1, TopInHeap
  <2>3. t \in broadcast
    BY <2>2, Accounting DEF IInv, HeapsAreSorted
  <2>4. t' = t
    BY <1>3
  <2> HIDE DEF t
  <2>5. can_deliver(r, t)' <=> can_deliver(r, t)
    BY <1>3, <1>5, <2>3, <2>4 DEF can_deliver
  <2>6. QED
    BY <2>1, <2>5 DEF t
<1>9. PastIsOrder'
  <2>1. \A k \in broadcast : past[k] \subseteq broadcast /\ k \notin past[k]
                               /\ \A j \in past[k] : past[j] \subseteq past[k]
    BY DEF LoopInv, PastIsOrder
  <2>2. past'[m] \subseteq broadcast
    BY <1>4, <1>6, <2>1
  <2>3. \A k \in past'[m] : past[k] \subseteq past'[m]
    BY <1>4, <1>6, <2>1
  <2>4. QED
    BY <1>3, <1>5, <2>1, <2>2, <2>3 DEF PastIsOrder
<1>10. ClocksInRange'
  <2>1. m.originator = p /\ Dependencies[p] \in Seq(Process)
    BY <1>2, DependenciesAssumption
  <2>2. \A i \in DOMAIN Dependencies[p] : Dependencies[p][i] \in Process
    BY <2>1
  <2>3. \A i \in DOMAIN vector_clock'[m] : vector_clock'[m][i] <= NumMessages
    BY <1>6, <2>2 DEF OutgoingClock, LoopInv, ClocksInRange
  <2>4. DOMAIN vector_clock'[m] = DOMAIN Dependencies[m.originator]
    BY <1>6, <2>1 DEF OutgoingClock
  <2>5. QED
    BY <1>3, <1>5, <2>3, <2>4 DEF LoopInv, ClocksInRange
<1>11. QED
  BY <1>7, <1>8, <1>9, <1>10 DEF LoopInv

\* A step of p's loop leaves the heaps and clocks of others alone; p is in the
\* loop afterwards or has nothing to deliver.
LEMMA LoopStepPreservesLoopInv ==
  ASSUME IInv, LoopInv, NEW p \in Process,
         UNCHANGED << broadcast, vector_clock, past >>,
         NEW place \in {0, N}, it' = [it EXCEPT ![p] = place],
         \A r \in Process : r # p => /\ current_clock'[r] = current_clock[r]
                                     /\ pending'[r] = pending[r],
         \A r \in Process : current_clock'[p][r] <= NumMessages,
         place = N => (\A q \in Process : pending[p][q] # {}
                                            => ~ can_deliver(p, Top(pending[p][q])))'
  PROVE  LoopInv'
<1>1. it \in [Process -> 0 .. N]
  BY DEF IInv, TypeOK
<1>2. it'[p] = place /\ \A r \in Process : r # p => it'[r] = it[r]
  BY <1>1
<1>3. LoopAtItsEnds'
  BY <1>2 DEF LoopInv, LoopAtItsEnds
<1>4. IdleMeansNoneReady'
  <2> SUFFICES ASSUME NEW r \in Process, it'[r] = N, NEW q \in Process, pending'[r][q] # {}
               PROVE  ~ can_deliver(r, Top(pending[r][q]))'
    BY DEF IdleMeansNoneReady, Idle
  <2>1. CASE r = p
    BY <1>2, <2>1, Zenon
  <2>2. CASE r # p
    <3>1. ~ can_deliver(r, Top(pending[r][q]))
      BY <1>2, <2>2 DEF LoopInv, IdleMeansNoneReady, Idle
    <3>2. Top(pending[r][q])' = Top(pending[r][q])
      BY <2>2
    <3>3. QED
      BY <2>2, <3>1, <3>2 DEF can_deliver
  <2>3. QED
    BY <2>1, <2>2
<1>5. PastIsOrder'
  BY DEF LoopInv, PastIsOrder
<1>6. ClocksInRange'
  BY DEF LoopInv, ClocksInRange
<1>7. QED
  BY <1>3, <1>4, <1>5, <1>6 DEF LoopInv

LEMMA StepPreservesLoopInv == IInv /\ LoopInv /\ [Next]_vars => LoopInv'
<1> SUFFICES ASSUME IInv, LoopInv, [Next]_vars PROVE LoopInv'
  OBVIOUS
<1>0. TypeOK /\ \A r, q \in Process : current_clock[r][q] <= NumMessages
  BY DEF IInv, LoopInv, ClocksInRange
<1>1. ASSUME NEW p \in Process, Send(p) PROVE LoopInv'
  BY <1>1, SendPreservesLoopInv
<1>2. ASSUME NEW p \in Process, NEW m \in Message, Receive(p, m) PROVE LoopInv'
  <2>1. /\ UNCHANGED << broadcast, vector_clock, past, current_clock >>
        /\ it' = [it EXCEPT ![p] = 0]
        /\ pending' = [pending EXCEPT ![p][m.originator] = @ \cup {m}]
    BY <1>2 DEF Receive, Bc!Deliver
  <2>2. \A r \in Process : r # p => pending'[r] = pending[r]
    BY <1>0, <2>1 DEF TypeOK
  <2>3. 0 # N
    BY NAssumption
  <2>4. QED
    BY <1>0, <2>1, <2>2, <2>3, LoopStepPreservesLoopInv
<1>3. ASSUME NEW p \in Process, DeliverTop(p) PROVE LoopInv'
  <2>1. PICK q \in Process, m \in Message :
          /\ q = Min(Ready(p))
          /\ m = Top(pending[p][q])
          /\ m.originator = q
          /\ m.bcast_seq_num = current_clock[p][q]
    BY <1>3, TopIsDeliverable DEF DeliverTop
  <2>2. /\ UNCHANGED << broadcast, vector_clock, past >>
        /\ it' = [it EXCEPT ![p] = 0]
        /\ current_clock' = [current_clock EXCEPT ![p][q] = @ + 1]
        /\ pending' = [pending EXCEPT ![p][q] = Popped(@)]
    BY <1>3, <2>1 DEF DeliverTop, Restart, below
  <2>3. \A r \in Process : r # p => current_clock'[r] = current_clock[r] /\ pending'[r] = pending[r]
    BY <1>0, <2>2 DEF TypeOK
  <2>4. \A r \in Process : current_clock'[p][r] <= NumMessages
    <3>1. current_clock[p][q] + 1 <= NumMessages
      BY <2>1, NumMessagesAssumption DEF Message
    <3>2. \A r \in Process : current_clock'[p][r] = IF r = q THEN current_clock[p][q] + 1
                                                             ELSE current_clock[p][r]
      BY <1>0, <2>2 DEF TypeOK
    <3>3. QED
      BY <1>0, <3>1, <3>2
  <2>5. 0 # N
    BY NAssumption
  <2>6. QED
    BY <2>2, <2>3, <2>4, <2>5, LoopStepPreservesLoopInv
<1>4. ASSUME NEW p \in Process, Return(p) PROVE LoopInv'
  <2>1. /\ UNCHANGED << broadcast, vector_clock, past, current_clock, pending >>
        /\ it' = [it EXCEPT ![p] = N]
        /\ it[p] # N
        /\ Ready(p) = {}
    BY <1>4 DEF Return, Advanced, below, Idle
  <2>2. it[p] = 0
    BY <2>1 DEF LoopInv, LoopAtItsEnds
  <2>3. \A q \in Process : pending[p][q] # {} => ~ can_deliver(p, Top(pending[p][q]))
    BY <2>1, <2>2 DEF Ready, Process
  <2>4. (\A q \in Process : pending[p][q] # {} => ~ can_deliver(p, Top(pending[p][q])))'
    <3> SUFFICES ASSUME NEW q \in Process, pending[p][q] # {}
                 PROVE  ~ can_deliver(p, Top(pending[p][q]))'
      BY <2>1
    <3>1. Top(pending[p][q])' = Top(pending[p][q])
      BY <2>1
    <3>2. QED
      BY <2>1, <2>3, <3>1 DEF can_deliver
  <2>5. QED
    BY <1>0, <2>1, <2>4, LoopStepPreservesLoopInv
<1>5. ASSUME UNCHANGED own, UNCHANGED broadcast PROVE LoopInv'
  <2>1. LoopAtItsEnds' /\ PastIsOrder' /\ ClocksInRange'
    BY <1>5 DEF own, LoopInv, LoopAtItsEnds, PastIsOrder, ClocksInRange
  <2>2. IdleMeansNoneReady'
    BY <1>5 DEF own, LoopInv, IdleMeansNoneReady, Idle, can_deliver
  <2>3. QED
    BY <2>1, <2>2 DEF LoopInv
<1>6. ASSUME NEW p \in Process, Crash(p) PROVE LoopInv'
  BY <1>5, <1>6 DEF Crash, Bc!Crash
<1>7. CASE UNCHANGED vars
  BY <1>5, <1>7 DEF vars, below
<1>8. QED
  BY <1>1, <1>2, <1>3, <1>4, <1>6, <1>7 DEF Next

LEMMA MessagesAreFinite == IsFiniteSet(Message)
<1> DEFINE Pairs == Process \X (0 .. NumMessages - 1)
           f == [x \in Pairs |-> [originator |-> x[1], bcast_seq_num |-> x[2]]]
<1>1. IsFiniteSet(Pairs)
  <2>1. IsFiniteSet(Process) /\ IsFiniteSet(0 .. NumMessages - 1)
    BY NAssumption, NumMessagesAssumption, FS_Interval DEF Process
  <2>2. QED
    BY <2>1, FS_Product
<1>2. f \in Surjection(Pairs, Message)
  <2>1. f \in [Pairs -> Message]
    BY DEF Message
  <2>2. ASSUME NEW m \in Message PROVE \E x \in Pairs : f[x] = m
    <3>1. /\ << m.originator, m.bcast_seq_num >> \in Pairs
          /\ m = [originator |-> m.originator, bcast_seq_num |-> m.bcast_seq_num]
      BY DEF Message
    <3>2. QED
      BY <3>1
  <2>3. QED
    BY <2>1, <2>2 DEF Surjection
<1> HIDE DEF f, Pairs
<1>3. QED
  BY <1>1, <1>2, FS_Surjection

\* Of messages that were broadcast, one depends on none of the others.
LEMMA EarliestMessage ==
  ASSUME IInv, LoopInv, NEW S \in SUBSET broadcast, S # {}
  PROVE  \E k \in S : past[k] \cap S = {}
<1> DEFINE T == { Cardinality(past[k]) : k \in S }
<1>1. \A k \in S : /\ k \in broadcast
                   /\ past[k] \in SUBSET Message
                   /\ IsFiniteSet(past[k])
                   /\ Cardinality(past[k]) \in Nat
  <2> TAKE k \in S
  <2>1. k \in broadcast /\ k \in Message /\ past[k] \in SUBSET Message
    BY DEF IInv, TypeOK
  <2>2. IsFiniteSet(past[k])
    BY <2>1, MessagesAreFinite, FS_Subset
  <2>3. QED
    BY <2>1, <2>2, FS_CardinalityType
<1>2. PICK x \in T : \A y \in T : x <= y
  <2>1. T \in SUBSET Nat /\ T # {}
    BY <1>1
  <2>2. QED
    BY <2>1, LeastNatural
<1>3. PICK k \in S : Cardinality(past[k]) = x
  BY <1>2
<1>4. ASSUME NEW j \in past[k] \cap S PROVE FALSE
  <2>1. past[j] \in SUBSET past[k] /\ j \notin past[j]
    BY <1>1, <1>4 DEF LoopInv, PastIsOrder
  <2>2. Cardinality(past[j]) <= Cardinality(past[k]) /\ Cardinality(past[j]) # Cardinality(past[k])
    BY <1>1, <1>4, <2>1, FS_Subset
  <2>3. Cardinality(past[k]) <= Cardinality(past[j])
    BY <1>2, <1>3, <1>4
  <2>4. QED
    BY <1>1, <1>4, <2>2, <2>3
<1>5. QED
  BY <1>4

\* A message that waits, and of whose past nothing is missing, is on top of its
\* heap and can be delivered.
LEMMA WaitingIsReady ==
  ASSUME IInv, LoopInv, NEW p \in Process, NEW k \in Message,
         upcalls[p][k] > 0, delivered[p][k] = 0,
         \A j \in past[k] : delivered[p][j] > 0
  PROVE  LET heap == pending[p][k.originator]
         IN  heap # {} /\ can_deliver(p, Top(heap))
<1> DEFINE q == k.originator
           heap == pending[p][q]
           t == Top(heap)
<1>1. TypeOK /\ q \in Process /\ k.bcast_seq_num \in 0 .. NumMessages - 1 /\ heap \in SUBSET Message
  <2>1. q \in Process
    BY MessageType
  <2>2. TypeOK
    BY DEF IInv
  <2>3. k.bcast_seq_num \in 0 .. NumMessages - 1
    BY DEF Message
  <2>4. heap \in SUBSET Message
    BY <2>1, <2>2 DEF TypeOK
  <2>5. QED
    BY <2>1, <2>2, <2>3, <2>4
<1>2. k \in heap /\ k \in broadcast
  BY Accounting
<1>3. t \in heap /\ t \in Message /\ t.bcast_seq_num <= k.bcast_seq_num
  BY <1>1, <1>2, TopInHeap
<1>4. \A j \in Direct(k) : delivered[p][j] > 0
  BY <1>2 DEF IInv, ClockTellsPast
<1> HIDE DEF t
<1>5. t = k
  <2>1. t.originator = q
    BY <1>1, <1>3 DEF IInv, HeapsAreSorted
  <2>2. delivered[p][t] = 0
    BY <1>3, <2>1, Accounting
  <2>3. t \notin Direct(k)
    BY <1>4, <2>2
  <2>4. ~ (t.bcast_seq_num < k.bcast_seq_num)
    BY <1>3, <2>1, <2>3 DEF Direct
  <2>5. t.bcast_seq_num = k.bcast_seq_num
    BY <1>1, <1>3, <2>4, MessageType
  <2>6. QED
    BY <1>3, <2>1, <2>5, MessageIdentity
<1>6. ASSUME NEW r \in Process, NEW n \in 0 .. NumMessages,
             \A j \in Message : j.originator = r /\ j.bcast_seq_num < n => j \in Direct(k)
      PROVE  n <= current_clock[p][r]
  <2> SUFFICES ASSUME current_clock[p][r] < n PROVE FALSE
    BY <1>1, NumMessagesAssumption DEF TypeOK
  <2> DEFINE j == [originator |-> r, bcast_seq_num |-> current_clock[p][r]]
  <2>1. current_clock[p][r] \in Nat
    BY <1>1 DEF TypeOK
  <2>2. j \in Message
    BY <2>1, NumMessagesAssumption DEF Message
  <2>3. j \in Direct(k)
    BY <1>6, <2>2
  <2>4. delivered[p][j] > 0
    BY <1>4, <2>3
  <2>5. j.bcast_seq_num < current_clock[p][j.originator]
    BY <2>2, <2>4, ClockCounts DEF IInv
  <2>6. QED
    BY <2>1, <2>5
<1>7. k.bcast_seq_num <= current_clock[p][q]
  <2>1. k.bcast_seq_num \in 0 .. NumMessages
    BY <1>1, NumMessagesAssumption
  <2>2. \A j \in Message : j.originator = q /\ j.bcast_seq_num < k.bcast_seq_num => j \in Direct(k)
    BY DEF Direct
  <2>3. QED
    BY <1>1, <1>6, <2>1, <2>2
<1>8. ASSUME NEW i \in DOMAIN vector_clock[k]
      PROVE  vector_clock[k][i] <= current_clock[p][Dependencies[q][i]]
  <2>1. Dependencies[q] \in Seq(Process) /\ DOMAIN vector_clock[k] = DOMAIN Dependencies[q]
    BY <1>1, <1>2, DependenciesAssumption DEF LoopInv, ClocksInRange
  <2>2. Dependencies[q][i] \in Process
    BY <2>1
  <2>3. vector_clock[k] \in Seq(Nat) /\ vector_clock[k][i] <= NumMessages
    BY <1>1, <1>2 DEF TypeOK, LoopInv, ClocksInRange
  <2>4. vector_clock[k][i] \in 0 .. NumMessages
    BY <2>3, NumMessagesAssumption
  <2>5. \A j \in Message : j.originator = Dependencies[q][i] /\ j.bcast_seq_num < vector_clock[k][i]
                              => j \in Direct(k)
    BY DEF Direct
  <2>6. QED
    BY <1>6, <2>2, <2>4, <2>5
<1>9. can_deliver(p, t)
  BY <1>5, <1>7, <1>8 DEF can_deliver
<1>10. QED
  BY <1>2, <1>9 DEF t

LEMMA IdleLeavesNothingBehind == IInv /\ LoopInv => NothingLeftBehind
<1> SUFFICES ASSUME IInv, LoopInv, NEW p \in Process, Idle(p), NEW m \in Message,
                    upcalls[p][m] > 0, \A k \in past[m] : upcalls[p][k] > 0,
                    ~ (delivered[p][m] > 0)
             PROVE  FALSE
  BY DEF NothingLeftBehind
<1> DEFINE S == { k \in past[m] \cup {m} : delivered[p][k] = 0 }
<1>1. /\ m \in broadcast /\ delivered[p][m] = 0
      /\ past[m] \subseteq broadcast /\ broadcast \subseteq Message
      /\ \A k \in past[m] : past[k] \subseteq past[m]
  <2>1. m \in broadcast /\ delivered[p][m] = 0
    BY Accounting
  <2>2. QED
    BY <2>1 DEF LoopInv, PastIsOrder, IInv, TypeOK
<1>2. PICK k \in S : past[k] \cap S = {}
  <2>1. S \in SUBSET broadcast /\ S # {}
    BY <1>1
  <2> HIDE DEF S
  <2>2. QED
    BY <2>1, EarliestMessage
<1>3. k \in Message /\ upcalls[p][k] > 0 /\ delivered[p][k] = 0
  BY <1>1
<1>4. \A j \in past[k] : delivered[p][j] > 0
  <2> TAKE j \in past[k]
  <2>1. j \in past[m] /\ j \in Message
    BY <1>1
  <2>2. delivered[p][j] # 0
    BY <1>2, <2>1
  <2>3. QED
    BY <2>1, <2>2, Accounting
<1>5. k.originator \in Process
  BY <1>3, MessageType
<1>6. QED
  BY <1>3, <1>4, <1>5, WaitingIsReady DEF LoopInv, IdleMeansNoneReady

\* Whenever deliver has returned, every message that arrived together with all
\* it depends on was delivered: none waits for an arrival that may never come.
THEOREM NothingWaitsInVain == Spec => []NothingLeftBehind
<1>1. Spec => []LoopInv
  BY InitLoopInv, StepPreservesLoopInv, InductiveInvariant, PTL DEF Spec
<1>2. QED
  BY <1>1, IdleLeavesNothingBehind, InductiveInvariant, PTL

\* Deliveries converge: a process that has returned from deliver has delivered
\* what any other one delivered, if all that arrived there arrived here too.
THEOREM Convergence == Spec => []MoreArrivalsMoreDeliveries
<1>1. IInv /\ NothingLeftBehind => MoreArrivalsMoreDeliveries
  <2> SUFFICES ASSUME IInv, NothingLeftBehind,
                      NEW p \in Process, NEW q \in Process, Idle(q),
                      \A m \in Message : upcalls[p][m] > 0 => upcalls[q][m] > 0,
                      NEW m \in Message, delivered[p][m] > 0
               PROVE  delivered[q][m] > 0
    BY DEF MoreArrivalsMoreDeliveries
  <2>1. \A k \in Message : delivered[p][k] > 0 => upcalls[q][k] > 0
    <3> SUFFICES ASSUME NEW k \in Message, delivered[p][k] > 0
                 PROVE  upcalls[q][k] > 0
      OBVIOUS
    <3>1. upcalls[p][k] = 1
      BY Accounting
    <3>2. QED
      BY <3>1
  <2>2. \A k \in past[m] : k \in Message /\ delivered[p][k] > 0
    BY DEF IInv, TypeOK, DeliveriesAreCausal
  <2>3. QED
    BY <2>1, <2>2 DEF NothingLeftBehind
<1>2. QED
  BY <1>1, InductiveInvariant, NothingWaitsInVain, PTL

-----------------------------------------------------------------------------
(***************************************************************************)
(* Refinement.                                                             *)
(***************************************************************************)
LEMMA SendRefines ==
  ASSUME IInv, NEW p \in Process, Send(p)
  PROVE  \E m \in Message : Abstract!Broadcast(m)
<1>1. TypeOK /\ next_msg[p] \in 0 .. NumMessages /\ next_msg[p] < NumMessages
  <2>1. next_msg[p] < Budget[p]
    BY DEF Send
  <2>2. Budget[p] \in 0 .. NumMessages
    BY BoundsAssumption
  <2>3. TypeOK /\ next_msg[p] \in 0 .. NumMessages
    BY DEF IInv, TypeOK
  <2>4. QED
    BY <2>1, <2>2, <2>3, NumMessagesAssumption
<1>2. PICK m \in Message : m = [originator |-> p, bcast_seq_num |-> next_msg[p]]
  <2>1. [originator |-> p, bcast_seq_num |-> next_msg[p]] \in Message
    BY <1>1, NumMessagesAssumption DEF Message
  <2>2. QED
    BY <2>1
<1>3. /\ m.originator \notin crashed
      /\ m \notin broadcast
      /\ broadcast' = broadcast \cup {m}
      /\ vector_clock' = [vector_clock EXCEPT ![m] = OutgoingClock(p)]
      /\ past' = [past EXCEPT ![m] =
                    Abstract!DirectDependencies(m)
                      \cup UNION { past[k] : k \in Abstract!DirectDependencies(m) }]
      /\ crashed' = crashed
      /\ delivered' = delivered
  BY <1>2 DEF Send, Bc!Broadcast
<1>4. Abstract!DirectDependencies(m) \subseteq broadcast
  <2>1. Direct(m)' = Abstract!DirectDependencies(m) /\ Direct(m)' \subseteq broadcast
    BY <1>2, <1>3, SendTellsPast
  <2>2. QED
    BY <2>1
<1>5. QED
  BY <1>3, <1>4 DEF Abstract!Broadcast

LEMMA DeliverTopRefines ==
  ASSUME IInv, NEW p \in Process, DeliverTop(p)
  PROVE  \E m \in Message : Abstract!Deliver(p, m)
<1>1. PICK q \in Process, m \in Message :
        /\ q = Min(Ready(p))
        /\ m = Top(pending[p][q])
        /\ delivered[p][m] = 0
        /\ m \in broadcast
        /\ \A k \in past[m] : delivered[p][k] > 0
  BY TopIsDeliverable DEF DeliverTop
<1>2. /\ p \notin crashed
      /\ delivered' = [delivered EXCEPT ![p][m] = @ + 1]
      /\ broadcast' = broadcast
      /\ past' = past
      /\ crashed' = crashed
  BY <1>1 DEF DeliverTop, below
<1>3. Abstract!Deliver(p, m)
  BY <1>1, <1>2 DEF Abstract!Deliver
<1>4. QED
  BY <1>3

\* Heaps, clocks and the loop implement localized causal order.
THEOREM Refinement == Spec => ImplementsCausalOrder
<1>1. Init => Abstract!Init
  BY DEF Init, Bc!Init, Abstract!Init
<1>2. IInv /\ [Next]_vars => [Abstract!Next]_(Abstract!vars)
  <2> SUFFICES ASSUME IInv, [Next]_vars
               PROVE  Abstract!Next \/ UNCHANGED Abstract!vars
    OBVIOUS
  <2>1. ASSUME NEW p \in Process, Send(p) PROVE Abstract!Next
    BY <2>1, SendRefines DEF Abstract!Next
  <2>2. ASSUME NEW p \in Process, NEW m \in Message, Receive(p, m)
        PROVE  UNCHANGED Abstract!vars
    BY <2>2 DEF Receive, Bc!Deliver, Abstract!vars
  <2>3. ASSUME NEW p \in Process, DeliverTop(p) PROVE Abstract!Next
    BY <2>3, DeliverTopRefines DEF Abstract!Next
  <2>4. ASSUME NEW p \in Process, Return(p) PROVE UNCHANGED Abstract!vars
    BY <2>4 DEF Return, below, Abstract!vars
  <2>5. ASSUME NEW p \in Process, Crash(p) PROVE Abstract!Next
    <3>1. Abstract!Crash(p)
      BY <2>5 DEF Crash, Bc!Crash, own, Abstract!Crash
    <3>2. QED
      BY <3>1 DEF Abstract!Next
  <2>6. CASE UNCHANGED vars
    BY <2>6 DEF vars, below, own, Abstract!vars
  <2>7. QED
    BY <2>1, <2>2, <2>3, <2>4, <2>5, <2>6 DEF Next
<1>3. QED
  BY <1>1, <1>2, InductiveInvariant, PTL
     DEF Spec, ImplementsCausalOrder, Abstract!Spec

=============================================================================
