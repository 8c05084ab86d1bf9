-------------------- MODULE UniformReliableBroadcastProofs --------------------
(***************************************************************************)
(* Theorems about UniformReliableBroadcast, for any number of hosts,       *)
(* messages, broadcasting processes and crashes.                           *)
(***************************************************************************)
EXTENDS UniformReliableBroadcast, FiniteSetTheorems, TLAPS

(***************************************************************************)
(* The ring, of which RingFailuresProofs tells all there is to know.       *)
(***************************************************************************)
R == INSTANCE RingFailuresProofs WITH n <- N, MaxHosts <- N

LEMMA SameRing ==
  ASSUME NEW p
  PROVE  R!Neighbors(p, N) = Neighbors(p, N)
BY DEF R!Neighbors, Neighbors, R!create_n_connected_ring, create_n_connected_ring,
       R!NeighborsPerSide, NeighborsPerSide

\* The ring leads from processes to other processes, and back.
LEMMA NeighborsType ==
  ASSUME NEW id \in Process
  PROVE  Neighbors(id, N) \subseteq Process \ {id}
BY SameRing, R!DistinctOthers, NAssumption DEF Process

LEMMA NeighborsOfEachOther ==
  ASSUME NEW p \in Process, NEW q \in Neighbors(p, N)
  PROVE  p \in Neighbors(q, N)
BY SameRing, R!MutualLinks, NAssumption DEF Process

LEMMA ProcessFinite == IsFiniteSet(Process)
BY NAssumption, FS_Interval DEF Process

-----------------------------------------------------------------------------
(***************************************************************************)
(* What the handlers do to one object.                                     *)
(***************************************************************************)

\* The part of the invariant that is about one object alone.
Sound(s) ==
  /\ s \in StateType
  /\ \A m \in Message : s.upcalls[m] = IF m \in s.delivered THEN 1 ELSE 0
  /\ \A m \in s.delivered : s.ack[m] = {}

\* From s to t only m may have been acknowledged, by processes of A, and only
\* m may have been delivered, which took a quorum.
Handles(s, t, m, A) ==
  /\ \A k \in Message \ {m} : t.ack[k] = s.ack[k]
  /\ t.ack[m] \subseteq s.ack[m] \cup A
  /\ \/ t.delivered = s.delivered
     \/ /\ t.delivered = s.delivered \cup {m}
        /\ m \notin s.delivered
        /\ Cardinality(s.ack[m] \cup A) > N \div 2

LEMMA AckedLemma ==
  ASSUME NEW s, Sound(s), NEW m \in Message \ s.delivered, NEW q \in Process
  PROVE  /\ Sound(Acked(s, m, q))
         /\ Acked(s, m, q).pending = s.pending
         /\ Acked(s, m, q).delivered = s.delivered
         /\ Acked(s, m, q).ack = [s.ack EXCEPT ![m] = @ \cup {q}]
BY DEF Sound, StateType, Acked

LEMMA TryDeliverLemma ==
  ASSUME NEW s, Sound(s), NEW m \in Message
  PROVE  /\ Sound(TryDeliver(s, m))
         /\ TryDeliver(s, m).pending = s.pending
         /\ Handles(s, TryDeliver(s, m), m, {})
<1>1. CASE ~ (Cardinality(s.ack[m]) > N \div 2)
  BY <1>1 DEF TryDeliver, Handles
<1>2. CASE Cardinality(s.ack[m]) > N \div 2
  <2> DEFINE t == [s EXCEPT !.delivered = @ \cup {m},
                            !.ack[m] = {},
                            !.upcalls[m] = @ + 1]
  <2>1. TryDeliver(s, m) = t
    BY <1>2 DEF TryDeliver
  <2>2. m \notin s.delivered
    <3>1. Cardinality({}) = 0 /\ ~ (0 > N \div 2)
      BY FS_EmptySet, NAssumption
    <3>2. QED
      BY <1>2, <3>1 DEF Sound
  <2>3. t \in StateType
    <3> DEFINE t1 == [s EXCEPT !.delivered = @ \cup {m}]
               t2 == [t1 EXCEPT !.ack[m] = {}]
    <3>1. t1 \in StateType
      BY DEF Sound, StateType
    <3>2. t2 \in StateType
      BY <3>1 DEF StateType
    <3>3. t = [t2 EXCEPT !.upcalls[m] = @ + 1]
      OBVIOUS
    <3> HIDE DEF t2
    <3>4. [t2 EXCEPT !.upcalls[m] = @ + 1] \in StateType
      BY <3>2 DEF StateType
    <3>5. QED
      BY <3>3, <3>4
  <2>4. /\ t.pending = s.pending
        /\ t.delivered = s.delivered \cup {m}
        /\ t.ack = [s.ack EXCEPT ![m] = {}]
        /\ t.upcalls = [s.upcalls EXCEPT ![m] = @ + 1]
    BY DEF Sound, StateType
  <2>5. Sound(t)
    BY <2>2, <2>3, <2>4 DEF Sound, StateType
  <2>6. s.ack[m] \cup {} = s.ack[m]
    OBVIOUS
  <2>7. Handles(s, t, m, {})
    BY <1>2, <2>2, <2>4, <2>6 DEF Handles, Sound, StateType
  <2>8. QED
    BY <2>1, <2>4, <2>5, <2>7
<1>3. QED
  BY <1>1, <1>2

LEMMA RelayLemma ==
  ASSUME NEW s, Sound(s), NEW p \in Process, NEW m \in Message
  PROVE  /\ Sound(Relay(s, p, m))
         /\ Relay(s, p, m).pending = s.pending \cup {m}
         /\ Handles(s, Relay(s, p, m), m, {p})
<1> DEFINE u == [s EXCEPT !.pending = @ \cup {m}]
<1>1. /\ Sound(u)
      /\ u.pending = s.pending \cup {m}
      /\ u.delivered = s.delivered
      /\ u.ack = s.ack
  BY DEF Sound, StateType
<1>2. Relay(s, p, m) = DeliverOwnCopy(u, p, m)
  BY DEF Relay
<1>3. CASE m \in s.delivered
  BY <1>1, <1>2, <1>3 DEF DeliverOwnCopy, Handles
<1>4. CASE m \notin s.delivered
  <2> HIDE DEF u
  <2> DEFINE v == Acked(u, m, p)
  <2>1. Relay(s, p, m) = TryDeliver(v, m)
    BY <1>1, <1>2, <1>4 DEF DeliverOwnCopy
  <2>2. /\ Sound(v)
        /\ v.pending = s.pending \cup {m}
        /\ v.delivered = s.delivered
        /\ v.ack = [s.ack EXCEPT ![m] = @ \cup {p}]
    BY <1>1, <1>4, AckedLemma
  <2> HIDE DEF v
  <2>3. /\ Sound(TryDeliver(v, m))
        /\ TryDeliver(v, m).pending = v.pending
        /\ Handles(v, TryDeliver(v, m), m, {})
    BY <2>2, TryDeliverLemma
  <2>4. v.ack[m] \cup {} = s.ack[m] \cup {p}
    BY <2>2 DEF Sound, StateType
  <2>5. Handles(s, TryDeliver(v, m), m, {p})
    BY <1>4, <2>2, <2>3, <2>4 DEF Handles
  <2>6. QED
    BY <2>1, <2>2, <2>3, <2>5
<1>5. QED
  BY <1>3, <1>4

\* The acknowledgements a call of Deliver(s, p, m, q) may record.
NewAcks(s, p, m, q) == IF Relays(s, m) THEN {p, q} ELSE {q}

LEMMA DeliverLemma ==
  ASSUME NEW s, Sound(s), NEW p \in Process, NEW m \in Message, NEW q \in Process
  PROVE  /\ Sound(Deliver(s, p, m, q))
         /\ Deliver(s, p, m, q).pending =
              IF Relays(s, m) THEN s.pending \cup {m} ELSE s.pending
         /\ Handles(s, Deliver(s, p, m, q), m, NewAcks(s, p, m, q))
<1>1. CASE m \in s.delivered
  BY <1>1 DEF Deliver, Relays, Handles
<1>2. CASE m \notin s.delivered
  <2> DEFINE a == Acked(s, m, q)
             r == IF m \in s.pending THEN a ELSE Relay(a, p, m)
             B == NewAcks(s, p, m, q)
  <2>1. Deliver(s, p, m, q) = TryDeliver(r, m)
    BY <1>2 DEF Deliver
  <2>2. /\ Sound(a)
        /\ a.pending = s.pending
        /\ a.delivered = s.delivered
        /\ a.ack = [s.ack EXCEPT ![m] = @ \cup {q}]
    BY <1>2, AckedLemma
  <2> HIDE DEF a
  <2>3. Relays(s, m) <=> m \notin s.pending
    BY <1>2 DEF Relays
  <2>4. /\ Sound(r)
        /\ r.pending = IF Relays(s, m) THEN s.pending \cup {m} ELSE s.pending
        /\ Handles(s, r, m, B)
    <3>1. CASE m \in s.pending
      BY <2>2, <2>3, <3>1 DEF Handles, NewAcks, Sound, StateType
    <3>2. CASE m \notin s.pending
      <4>0. r = Relay(a, p, m)
        BY <3>2
      <4> HIDE DEF r, B
      <4>1. /\ Sound(r)
            /\ r.pending = s.pending \cup {m}
            /\ Handles(a, r, m, {p})
        BY <2>2, <4>0, RelayLemma
      <4>2. a.ack[m] \cup {p} = s.ack[m] \cup B
        BY <2>2, <2>3, <3>2 DEF B, NewAcks, Sound, StateType
      <4>3. Handles(s, r, m, B)
        <5>1. \A k \in Message \ {m} : r.ack[k] = s.ack[k]
          BY <2>2, <4>1 DEF Handles, Sound, StateType
        <5>2. QED
          BY <2>2, <4>1, <4>2, <5>1 DEF Handles
      <4>4. QED
        BY <2>3, <3>2, <4>1, <4>3
    <3>3. QED
      BY <3>1, <3>2
  <2>5. /\ Sound(TryDeliver(r, m))
        /\ TryDeliver(r, m).pending = r.pending
        /\ Handles(r, TryDeliver(r, m), m, {})
    BY <2>4, TryDeliverLemma
  <2>6. Handles(s, TryDeliver(r, m), m, B)
    <3>1. \A k \in Message \ {m} : TryDeliver(r, m).ack[k] = s.ack[k]
      BY <2>4, <2>5 DEF Handles
    <3>2. /\ r.ack[m] \subseteq s.ack[m] \cup B
          /\ TryDeliver(r, m).ack[m] \subseteq s.ack[m] \cup B
      BY <2>4, <2>5 DEF Handles
    <3>3. IsFiniteSet(s.ack[m] \cup B)
      <4>1. s.ack[m] \cup B \subseteq Process
        BY DEF Sound, StateType, NewAcks
      <4>2. QED
        BY <4>1, ProcessFinite, FS_Subset
    <3>4. Cardinality(r.ack[m]) > N \div 2 => Cardinality(s.ack[m] \cup B) > N \div 2
      <4>1. Cardinality(r.ack[m]) <= Cardinality(s.ack[m] \cup B)
        BY <3>2, <3>3, FS_Subset
      <4>2. Cardinality(r.ack[m]) \in Nat /\ Cardinality(s.ack[m] \cup B) \in Nat
        BY <3>2, <3>3, FS_Subset, FS_CardinalityType
      <4>3. N \div 2 \in Int
        BY NAssumption
      <4>4. QED
        BY <4>1, <4>2, <4>3
    <3>5. r.ack[m] \cup {} = r.ack[m]
      OBVIOUS
    <3>6. QED
      BY <1>2, <2>4, <2>5, <3>1, <3>2, <3>4, <3>5 DEF Handles
  <2>7. QED
    BY <2>1, <2>4, <2>5, <2>6
<1>3. QED
  BY <1>1, <1>2

-----------------------------------------------------------------------------
(***************************************************************************)
(* The inductive invariant.                                                *)
(***************************************************************************)
LEMMA EachObjectSound ==
  ASSUME IInv, NEW p \in Process
  PROVE  Sound(urb[p])
BY DEF IInv, TypeOK, UpcallOncePerDelivery, NoAcksAfterDelivery, Sound

LEMMA InitIInv == Init => IInv
<1> SUFFICES ASSUME Init PROVE IInv
  OBVIOUS
<1>1. TypeOK
  BY NumMessagesAssumption DEF Init, TypeOK, InitialState, StateType
<1>2. \A p \in Process : urb[p] = InitialState
  BY DEF Init
<1>3. /\ AcksComeFromHolders
      /\ DeliveredIsHeldByMajority
      /\ PendingWasBroadcast
      /\ UpcallOncePerDelivery
      /\ NoAcksAfterDelivery
  BY <1>2 DEF InitialState, AcksComeFromHolders, DeliveredIsHeldByMajority,
     PendingWasBroadcast, UpcallOncePerDelivery, NoAcksAfterDelivery
<1>4. PacketsComeFromHolders
  BY DEF Init, PacketsComeFromHolders
<1>5. QED
  BY <1>1, <1>3, <1>4 DEF IInv

\* One process p handles m and records acknowledgements of holders of m only;
\* everything else is as before, packets of p with m aside.
LEMMA HandlerPreservesIInv ==
  ASSUME IInv,
         NEW p \in Process, NEW m \in Message, NEW t, NEW A \in SUBSET Process,
         Sound(t),
         Handles(urb[p], t, m, A),
         t.pending = urb[p].pending \/ t.pending = urb[p].pending \cup {m},
         urb' = [urb EXCEPT ![p] = t],
         A \subseteq Holders(m)',
         next_msg' \in [Process -> 0 .. NumMessages],
         \A q \in Process : next_msg[q] <= next_msg'[q],
         m.bcast_seq_num < next_msg'[m.originator],
         links' \subseteq links \/ links' \subseteq links \cup BestEffort(p, m),
         links' \subseteq links \/ m \in t.pending,
         crashed' = crashed
  PROVE  IInv'
<1> DEFINE s == urb[p]
<1>0. /\ TypeOK
      /\ Sound(s)
  BY EachObjectSound DEF IInv
<1>1. /\ urb'[p] = t
      /\ \A q \in Process \ {p} : urb'[q] = urb[q]
  BY <1>0 DEF TypeOK
<1>2. TypeOK'
  <2>1. urb' \in [Process -> StateType]
    BY <1>0 DEF TypeOK, Sound
  <2>2. BestEffort(p, m) \subseteq Packet
    BY NeighborsType DEF BestEffort, Packet
  <2>3. QED
    BY <1>0, <2>1, <2>2 DEF TypeOK
<1>3. \A k \in Message : Holders(k) \subseteq Holders(k)'
  BY <1>1 DEF Holders
<1>4. PacketsComeFromHolders'
  <2>1. \A pkt \in links : pkt.from \in Holders(pkt.msg)'
    BY <1>0, <1>3 DEF IInv, PacketsComeFromHolders, TypeOK, Packet
  <2>2. ASSUME m \in t.pending, NEW pkt \in BestEffort(p, m)
        PROVE  pkt.from \in Holders(pkt.msg)'
    BY <1>1, <2>2 DEF BestEffort, Holders
  <2>3. QED
    BY <2>1, <2>2 DEF PacketsComeFromHolders
<1>5. AcksComeFromHolders'
  <2> SUFFICES ASSUME NEW q \in Process, NEW k \in Message
               PROVE  urb'[q].ack[k] \subseteq Holders(k)'
    BY DEF AcksComeFromHolders
  <2>1. urb[q].ack[k] \subseteq Holders(k)'
    BY <1>3 DEF IInv, AcksComeFromHolders
  <2>2. CASE q # p
    BY <1>1, <2>1, <2>2
  <2>3. CASE q = p /\ k # m
    BY <1>1, <2>1, <2>3 DEF Handles
  <2>4. CASE q = p /\ k = m
    BY <1>1, <2>1, <2>4 DEF Handles
  <2>5. QED
    BY <2>2, <2>3, <2>4
<1>6. DeliveredIsHeldByMajority'
  <2> SUFFICES ASSUME NEW q \in Process, NEW k \in urb'[q].delivered
               PROVE  Cardinality(Holders(k)') > N \div 2
    BY DEF DeliveredIsHeldByMajority
  <2>0. k \in Message
    BY <1>2 DEF TypeOK, StateType
  <2>1. /\ IsFiniteSet(Holders(k)')
        /\ Cardinality(Holders(k)') \in Nat
        /\ N \div 2 \in Int
    BY ProcessFinite, FS_Subset, FS_CardinalityType, NAssumption DEF Holders
  <2>2. ASSUME NEW S, S \subseteq Holders(k)', Cardinality(S) > N \div 2
        PROVE  Cardinality(Holders(k)') > N \div 2
    <3>1. Cardinality(S) <= Cardinality(Holders(k)') /\ Cardinality(S) \in Nat
      BY <2>1, <2>2, FS_Subset, FS_CardinalityType
    <3>2. QED
      BY <2>1, <2>2, <3>1
  <2>3. CASE k \in urb[q].delivered
    BY <1>3, <2>0, <2>2, <2>3 DEF IInv, DeliveredIsHeldByMajority
  <2>4. CASE k \notin urb[q].delivered
    <3>1. q = p /\ k = m /\ Cardinality(s.ack[m] \cup A) > N \div 2
      BY <1>1, <2>4 DEF Handles
    <3>2. s.ack[m] \subseteq Holders(m)'
      BY <1>3 DEF IInv, AcksComeFromHolders
    <3>3. s.ack[m] \cup A \subseteq Holders(m)'
      BY <3>2
    <3>4. QED
      BY <2>2, <3>1, <3>3
  <2>5. QED
    BY <2>3, <2>4
<1>7. PendingWasBroadcast'
  <2> SUFFICES ASSUME NEW q \in Process, NEW k \in urb'[q].pending
               PROVE  k.bcast_seq_num < next_msg'[k.originator]
    BY DEF PendingWasBroadcast
  <2>1. k \in Message
    BY <1>2 DEF TypeOK, StateType
  <2>2. CASE k = m
    BY <2>2
  <2>3. CASE k # m
    <3>1. k \in urb[q].pending
      BY <1>1, <2>3
    <3>2. k.bcast_seq_num < next_msg[k.originator]
      BY <3>1 DEF IInv, PendingWasBroadcast
    <3>3. /\ k.originator \in Process
          /\ k.bcast_seq_num \in Int
      BY <2>1 DEF Message
    <3>4. /\ next_msg[k.originator] \in Int
          /\ next_msg'[k.originator] \in Int
          /\ next_msg[k.originator] <= next_msg'[k.originator]
      BY <1>0, <3>3, NumMessagesAssumption DEF TypeOK
    <3>5. QED
      BY <3>2, <3>3, <3>4
  <2>4. QED
    BY <2>2, <2>3
<1>8. UpcallOncePerDelivery' /\ NoAcksAfterDelivery'
  <2>1. \A q \in Process : Sound(urb'[q])
    BY <1>1, EachObjectSound
  <2>2. QED
    BY <2>1 DEF Sound, UpcallOncePerDelivery, NoAcksAfterDelivery
<1>9. QED
  BY <1>2, <1>4, <1>5, <1>6, <1>7, <1>8 DEF IInv

LEMMA BroadcastPreservesIInv ==
  ASSUME IInv, NEW p \in Process, Broadcast(p)
  PROVE  IInv'
<1>1. TypeOK /\ next_msg[p] \in 0 .. NumMessages /\ next_msg[p] < NumMessages
  BY DEF IInv, TypeOK, Broadcast
<1>2. PICK m \in Message : m = [originator |-> p, bcast_seq_num |-> next_msg[p]]
  <2>1. [originator |-> p, bcast_seq_num |-> next_msg[p]] \in Message
    BY <1>1, NumMessagesAssumption DEF Message
  <2>2. QED
    BY <2>1
<1>3. m.originator = p /\ m.bcast_seq_num = next_msg[p]
  BY <1>2
<1> DEFINE t == Relay(urb[p], p, m)
<1>4. /\ next_msg' = [next_msg EXCEPT ![p] = @ + 1]
      /\ urb' = [urb EXCEPT ![p] = t]
      /\ links' = links \cup BestEffort(p, m)
      /\ crashed' = crashed
  BY <1>2 DEF Broadcast
<1>5. /\ Sound(t)
      /\ t.pending = urb[p].pending \cup {m}
      /\ Handles(urb[p], t, m, {p})
  BY EachObjectSound, RelayLemma
<1> HIDE DEF t
<1>6. {p} \subseteq Holders(m)'
  BY <1>1, <1>4, <1>5 DEF Holders, TypeOK
<1>7. /\ next_msg' \in [Process -> 0 .. NumMessages]
      /\ \A q \in Process : next_msg[q] <= next_msg'[q]
      /\ m.bcast_seq_num < next_msg'[m.originator]
  BY <1>1, <1>3, <1>4, NumMessagesAssumption DEF TypeOK
<1>8. /\ t.pending = urb[p].pending \/ t.pending = urb[p].pending \cup {m}
      /\ links' \subseteq links \/ links' \subseteq links \cup BestEffort(p, m)
      /\ links' \subseteq links \/ m \in t.pending
  BY <1>4, <1>5
<1> DEFINE A == {p}
<1>9. /\ A \in SUBSET Process
      /\ A \subseteq Holders(m)'
      /\ Handles(urb[p], t, m, A)
  BY <1>5, <1>6
<1> HIDE DEF A
<1>10. QED
  BY <1>4, <1>5, <1>7, <1>8, <1>9, HandlerPreservesIInv

LEMMA ReceivePreservesIInv ==
  ASSUME IInv, NEW pkt \in links, Receive(pkt)
  PROVE  IInv'
<1> DEFINE p == pkt.to
           q == pkt.from
           m == pkt.msg
           s == urb[p]
           t == Deliver(s, p, m, q)
           A == NewAcks(s, p, m, q)
<1>1. /\ TypeOK
      /\ p \in Process
      /\ q \in Process
      /\ m \in Message
      /\ q \in Holders(m)
  BY DEF IInv, TypeOK, Packet, PacketsComeFromHolders
<1>2. /\ urb' = [urb EXCEPT ![p] = t]
      /\ links' = (links \ {pkt}) \cup
                  (IF Relays(s, m) THEN BestEffort(p, m) ELSE {})
      /\ next_msg' = next_msg
      /\ crashed' = crashed
  BY DEF Receive
<1>3. Sound(s)
  BY <1>1, EachObjectSound
<1> HIDE DEF p, q, m, s
<1>4. /\ Sound(t)
      /\ t.pending = IF Relays(s, m) THEN s.pending \cup {m} ELSE s.pending
      /\ Handles(s, t, m, A)
  BY <1>1, <1>3, DeliverLemma
<1> HIDE DEF t
<1>5. A \subseteq Holders(m)'
  <2>1. /\ urb'[p] = t
        /\ \A r \in Process \ {p} : urb'[r] = urb[r]
    BY <1>1, <1>2 DEF TypeOK
  <2>2. q \in Holders(m)'
    BY <1>1, <1>4, <2>1 DEF Holders, s
  <2>3. Relays(s, m) => p \in Holders(m)'
    BY <1>1, <1>4, <2>1 DEF Holders
  <2>4. QED
    BY <2>2, <2>3 DEF NewAcks
<1>6. A \in SUBSET Process
  BY <1>1 DEF NewAcks
<1>7. m.bcast_seq_num < next_msg[m.originator]
  BY <1>1 DEF IInv, PendingWasBroadcast, Holders
<1>8. /\ next_msg' \in [Process -> 0 .. NumMessages]
      /\ \A r \in Process : next_msg[r] <= next_msg'[r]
      /\ m.bcast_seq_num < next_msg'[m.originator]
  BY <1>1, <1>2, <1>7, NumMessagesAssumption DEF TypeOK
<1>9. /\ t.pending = s.pending \/ t.pending = s.pending \cup {m}
      /\ links' \subseteq links \/ links' \subseteq links \cup BestEffort(p, m)
      /\ links' \subseteq links \/ m \in t.pending
  BY <1>2, <1>4
<1> HIDE DEF A
<1>10. QED
  BY <1>1, <1>2, <1>4, <1>5, <1>6, <1>8, <1>9, HandlerPreservesIInv DEF s

LEMMA StepPreservesIInv == IInv /\ [Next]_vars => IInv'
<1> SUFFICES ASSUME IInv, [Next]_vars PROVE IInv'
  OBVIOUS
<1>1. ASSUME NEW p \in Process, Broadcast(p) PROVE IInv'
  BY <1>1, BroadcastPreservesIInv
<1>2. ASSUME NEW pkt \in links, Receive(pkt) PROVE IInv'
  BY <1>2, ReceivePreservesIInv
<1>3. ASSUME NEW p \in Process, Crash(p) PROVE IInv'
  BY <1>3 DEF Crash, IInv, TypeOK, PacketsComeFromHolders, AcksComeFromHolders,
     DeliveredIsHeldByMajority, PendingWasBroadcast, UpcallOncePerDelivery,
     NoAcksAfterDelivery, Holders
<1>4. CASE UNCHANGED vars
  <2>1. UNCHANGED next_msg /\ UNCHANGED urb /\ UNCHANGED links /\ UNCHANGED crashed
    BY <1>4 DEF vars
  <2>2. \A m : Holders(m)' = Holders(m)
    BY <2>1 DEF Holders
  <2>3. TypeOK' /\ PacketsComeFromHolders' /\ AcksComeFromHolders'
    BY <2>1, <2>2 DEF IInv, TypeOK, PacketsComeFromHolders, AcksComeFromHolders
  <2>4. DeliveredIsHeldByMajority' /\ PendingWasBroadcast'
    BY <2>1, <2>2 DEF IInv, DeliveredIsHeldByMajority, PendingWasBroadcast
  <2>5. UpcallOncePerDelivery' /\ NoAcksAfterDelivery'
    BY <2>1 DEF IInv, UpcallOncePerDelivery, NoAcksAfterDelivery
  <2>6. QED
    BY <2>3, <2>4, <2>5 DEF IInv
<1>5. QED
  BY <1>1, <1>2, <1>3, <1>4 DEF Next

\* The inductive invariant holds in every reachable state.
THEOREM InductiveInvariant == Spec => []IInv
BY InitIInv, StepPreservesIInv, PTL DEF Spec

\* Every variable always has its type: no packet leaves the ring.
THEOREM TypeCorrect == Spec => []TypeOK
<1>1. IInv => TypeOK
  BY DEF IInv
<1>2. QED
  BY <1>1, InductiveInvariant, PTL

\* Whatever was delivered anywhere is held by more than half of all processes.
THEOREM MajorityHolds == Spec => []DeliveredIsHeldByMajority
<1>1. IInv => DeliveredIsHeldByMajority
  BY DEF IInv
<1>2. QED
  BY <1>1, InductiveInvariant, PTL

\* An acknowledgement always stands for a process that holds the message.
THEOREM AcksAreHonest == Spec => []AcksComeFromHolders
<1>1. IInv => AcksComeFromHolders
  BY DEF IInv
<1>2. QED
  BY <1>1, InductiveInvariant, PTL

\* Two sets that together have more than N members meet: the holders are a
\* majority, the running processes are one too.
LEMMA MajorityOutlivesMinority == IInv => DeliveredSurvivesMinorityCrash
<1> SUFFICES ASSUME IInv,
                    2 * Cardinality(crashed) < N,
                    NEW p \in Process, NEW m \in urb[p].delivered,
                    Holders(m) \subseteq crashed
             PROVE  FALSE
  BY DEF DeliveredSurvivesMinorityCrash
<1>1. crashed \subseteq Process
  BY DEF IInv, TypeOK
<1>2. IsFiniteSet(crashed) /\ Cardinality(crashed) \in Nat
  BY <1>1, ProcessFinite, FS_Subset, FS_CardinalityType
<1>3. Cardinality(Holders(m)) <= Cardinality(crashed) /\ Cardinality(Holders(m)) \in Nat
  BY <1>2, FS_Subset, FS_CardinalityType
<1>4. Cardinality(Holders(m)) > N \div 2
  BY DEF IInv, DeliveredIsHeldByMajority
<1>5. QED
  BY <1>2, <1>3, <1>4, NAssumption

\* Uniformity: a minority of crashes never takes the last running holder of a
\* delivered message away.
THEOREM UniformSurvival == Spec => []DeliveredSurvivesMinorityCrash
BY MajorityOutlivesMinority, InductiveInvariant, PTL

-----------------------------------------------------------------------------
(***************************************************************************)
(* Refinement.                                                             *)
(***************************************************************************)

\* m is delivered for the first time, and nothing else is.
FirstUpcall(s, t, m) ==
  /\ s.upcalls[m] = 0
  /\ t.upcalls = [s.upcalls EXCEPT ![m] = @ + 1]

\* How handling one message shows in the upcalls.
LEMMA UpcallsChange ==
  ASSUME NEW s, Sound(s), NEW t, Sound(t), NEW m \in Message, NEW A,
         Handles(s, t, m, A)
  PROVE  \/ t.upcalls = s.upcalls
         \/ Cardinality(s.ack[m] \cup A) > N \div 2 /\ FirstUpcall(s, t, m)
<1>1. s.upcalls \in [Message -> Nat] /\ t.upcalls \in [Message -> Nat]
  BY DEF Sound, StateType
<1>2. CASE t.delivered = s.delivered
  <2>1. \A k \in Message : t.upcalls[k] = s.upcalls[k]
    BY <1>2 DEF Sound
  <2>2. QED
    BY <1>1, <1>2, <2>1
<1>3. CASE t.delivered # s.delivered
  <2>1. /\ t.delivered = s.delivered \cup {m}
        /\ m \notin s.delivered
        /\ Cardinality(s.ack[m] \cup A) > N \div 2
    BY <1>3 DEF Handles
  <2>2. s.upcalls[m] = 0
    BY <2>1 DEF Sound
  <2>3. \A k \in Message : t.upcalls[k] = [s.upcalls EXCEPT ![m] = @ + 1][k]
    BY <1>1, <2>1, <2>2 DEF Sound
  <2>4. t.upcalls = [s.upcalls EXCEPT ![m] = @ + 1]
    BY <1>1, <2>3
  <2>5. QED
    BY <2>1, <2>2, <2>4 DEF FirstUpcall
<1>4. QED
  BY <1>2, <1>3

LEMMA BroadcastRefines ==
  ASSUME IInv, NEW p \in Process, Broadcast(p)
  PROVE  \E m \in Message : Abstract!Broadcast(m)
<1>1. TypeOK /\ next_msg[p] \in 0 .. NumMessages /\ next_msg[p] < NumMessages
  BY DEF IInv, TypeOK, Broadcast
<1>2. PICK m \in Message : m = [originator |-> p, bcast_seq_num |-> next_msg[p]]
  <2>1. [originator |-> p, bcast_seq_num |-> next_msg[p]] \in Message
    BY <1>1, NumMessagesAssumption DEF Message
  <2>2. QED
    BY <2>1
<1>3. m.originator = p /\ m.bcast_seq_num = next_msg[p]
  BY <1>2
<1> DEFINE s == urb[p]
           t == Relay(s, p, m)
<1>4. /\ next_msg' = [next_msg EXCEPT ![p] = @ + 1]
      /\ urb' = [urb EXCEPT ![p] = t]
      /\ crashed' = crashed
      /\ p \notin crashed
  BY <1>2 DEF Broadcast
<1>5. Sound(s) /\ Sound(t) /\ Handles(s, t, m, {p})
  BY EachObjectSound, RelayLemma
<1>6. t.upcalls = s.upcalls
  \* Nobody holds m yet, so its own acknowledgement is the only one.
  <2>1. s.ack[m] = {}
    <3>1. \A q \in Process : m \notin urb[q].pending
      BY <1>1, <1>3 DEF IInv, PendingWasBroadcast
    <3>2. QED
      BY <3>1 DEF IInv, AcksComeFromHolders, Holders
  <2>2. Cardinality(s.ack[m] \cup {p}) = 1
    BY <2>1, FS_Singleton
  <2>3. ~ (1 > N \div 2)
    BY NAssumption
  <2> HIDE DEF s, t
  <2>4. QED
    BY <1>5, <2>2, <2>3, UpcallsChange
<1> HIDE DEF t
<1>7. [q \in Process |-> urb[q].upcalls]' = [q \in Process |-> urb[q].upcalls]
  BY <1>1, <1>4, <1>6 DEF TypeOK
<1>8. /\ m \notin { k \in Message : k.bcast_seq_num < next_msg[k.originator] }
      /\ { k \in Message : k.bcast_seq_num < next_msg[k.originator] }' =
         { k \in Message : k.bcast_seq_num < next_msg[k.originator] } \cup {m}
  <2>1. \A k \in Message :
          k.bcast_seq_num < next_msg'[k.originator] <=>
            (k.bcast_seq_num < next_msg[k.originator] \/ k = m)
    <3> SUFFICES ASSUME NEW k \in Message
                 PROVE  k.bcast_seq_num < next_msg'[k.originator] <=>
                          (k.bcast_seq_num < next_msg[k.originator] \/ k = m)
      OBVIOUS
    <3>1. /\ k.originator \in Process
          /\ k.bcast_seq_num \in Int
          /\ k = [originator |-> k.originator, bcast_seq_num |-> k.bcast_seq_num]
      BY DEF Message
    <3>2. CASE k.originator # p
      BY <1>1, <1>3, <1>4, <3>1, <3>2 DEF TypeOK
    <3>3. CASE k.originator = p
      <4>1. next_msg'[p] = next_msg[p] + 1
        BY <1>1, <1>4 DEF TypeOK
      <4>2. k = m <=> k.bcast_seq_num = next_msg[p]
        BY <1>2, <3>1, <3>3
      <4>3. QED
        BY <1>1, <3>1, <3>3, <4>1, <4>2
    <3>4. QED
      BY <3>2, <3>3
  <2>2. QED
    BY <1>1, <1>3, <2>1
<1>9. QED
  BY <1>3, <1>4, <1>7, <1>8 DEF Abstract!Broadcast

LEMMA ReceiveRefines ==
  ASSUME IInv, NEW pkt \in links, Receive(pkt)
  PROVE  \/ \E p \in Process, m \in Message : Abstract!Deliver(p, m)
         \/ UNCHANGED Abstract!vars
<1> DEFINE p == pkt.to
           q == pkt.from
           m == pkt.msg
           s == urb[p]
           t == Deliver(s, p, m, q)
<1>1. /\ TypeOK
      /\ p \in Process
      /\ q \in Process
      /\ m \in Message
      /\ q \in Holders(m)
  BY DEF IInv, TypeOK, Packet, PacketsComeFromHolders
<1>2. /\ urb' = [urb EXCEPT ![p] = t]
      /\ next_msg' = next_msg
      /\ crashed' = crashed
      /\ p \notin crashed
  BY DEF Receive
<1>3. Sound(s)
  BY <1>1, EachObjectSound
<1> HIDE DEF p, q, m, s
<1>4. Sound(t) /\ Handles(s, t, m, NewAcks(s, p, m, q))
  BY <1>1, <1>3, DeliverLemma
<1> HIDE DEF t
<1>5. m \in { k \in Message : k.bcast_seq_num < next_msg[k.originator] }
  BY <1>1 DEF IInv, PendingWasBroadcast, Holders
<1>6. t.upcalls = s.upcalls \/ FirstUpcall(s, t, m)
  BY <1>1, <1>3, <1>4, UpcallsChange
<1>7. CASE t.upcalls = s.upcalls
  <2>1. [r \in Process |-> urb[r].upcalls]' = [r \in Process |-> urb[r].upcalls]
    BY <1>1, <1>2, <1>7 DEF TypeOK, s
  <2>2. QED
    BY <1>2, <2>1 DEF Abstract!vars
<1>8. CASE FirstUpcall(s, t, m)
  <2> DEFINE upcalls == [r \in Process |-> urb[r].upcalls]
  <2>1. upcalls' = [upcalls EXCEPT ![p] = t.upcalls]
    BY <1>1, <1>2 DEF TypeOK
  <2>2. upcalls[p] = s.upcalls
    BY <1>1 DEF s
  <2>3. upcalls' = [upcalls EXCEPT ![p][m] = @ + 1]
    BY <1>8, <2>1, <2>2 DEF FirstUpcall
  <2>4. upcalls[p][m] = 0
    BY <1>8, <2>2 DEF FirstUpcall
  <2>5. Abstract!Deliver(p, m)
    BY <1>2, <1>5, <2>3, <2>4 DEF Abstract!Deliver
  <2>6. QED
    BY <1>1, <2>5
<1>9. QED
  BY <1>6, <1>7, <1>8

\* Relays, acknowledgements and quorums implement uniform broadcast: every
\* message is delivered at most once per process, and only if it was broadcast.
THEOREM Refinement == Spec => ImplementsUniformBroadcast
<1>1. Init => Abstract!Init
  <2> SUFFICES ASSUME Init PROVE Abstract!Init
    OBVIOUS
  <2>1. { m \in Message : m.bcast_seq_num < next_msg[m.originator] } = {}
    BY NumMessagesAssumption DEF Init, Message
  <2>2. \A p \in Process : urb[p].upcalls = [m \in Message |-> 0]
    BY DEF Init, InitialState
  <2>3. QED
    BY <2>1, <2>2 DEF Init, Abstract!Init
<1>2. IInv /\ [Next]_vars => [Abstract!Next]_(Abstract!vars)
  <2> SUFFICES ASSUME IInv, [Next]_vars
               PROVE  Abstract!Next \/ UNCHANGED Abstract!vars
    OBVIOUS
  <2>1. ASSUME NEW p \in Process, Broadcast(p) PROVE Abstract!Next
    BY <2>1, BroadcastRefines DEF Abstract!Next
  <2>2. ASSUME NEW pkt \in links, Receive(pkt)
        PROVE  Abstract!Next \/ UNCHANGED Abstract!vars
    BY <2>2, ReceiveRefines DEF Abstract!Next
  <2>3. ASSUME NEW p \in Process, Crash(p) PROVE Abstract!Next
    BY <2>3 DEF Crash, Abstract!Next, Abstract!Crash
  <2>4. CASE UNCHANGED vars
    BY <2>4 DEF vars, Abstract!vars
  <2>5. QED
    BY <2>1, <2>2, <2>3, <2>4 DEF Next
<1>3. QED
  BY <1>1, <1>2, InductiveInvariant, PTL
     DEF Spec, ImplementsUniformBroadcast, Abstract!Spec

-----------------------------------------------------------------------------
(***************************************************************************)
(* Agreement: where every copy of a message is.                            *)
(***************************************************************************)
\* The part of AgreementInv that is about the object s of process p alone.
Settled(s, p) ==
  /\ s.delivered \subseteq s.pending
  /\ \A m \in s.pending : m \in s.delivered \/ p \in s.ack[m]
  /\ \A m \in Message : Cardinality(s.ack[m]) <= N \div 2

\* The handling of m, from s to t, that has counted the members of A ends with
\* m delivered, or with all of them on record and no quorum.
Counts(s, t, m, A) ==
  \/ m \in t.delivered
  \/ s.ack[m] \cup A \subseteq t.ack[m]

LEMMA NoAcksNoQuorum == Cardinality({}) <= N \div 2
BY FS_EmptySet, NAssumption

LEMMA TryDeliverCounts ==
  ASSUME NEW s, Sound(s), NEW m \in Message
  PROVE  /\ Counts(s, TryDeliver(s, m), m, {})
         /\ Cardinality(TryDeliver(s, m).ack[m]) <= N \div 2
<1>1. CASE Cardinality(s.ack[m]) > N \div 2
  <2>1. /\ TryDeliver(s, m).ack[m] = {}
        /\ m \in TryDeliver(s, m).delivered
    BY <1>1 DEF TryDeliver, Sound, StateType
  <2> QED
    BY <2>1, NoAcksNoQuorum DEF Counts
<1>2. CASE ~ (Cardinality(s.ack[m]) > N \div 2)
  <2>1. TryDeliver(s, m) = s
    BY <1>2 DEF TryDeliver
  <2>2. Cardinality(s.ack[m]) \in Nat /\ N \div 2 \in Int
    <3>1. s.ack[m] \subseteq Process
      BY DEF Sound, StateType
    <3> QED
      BY <3>1, ProcessFinite, FS_Subset, FS_CardinalityType, NAssumption
  <2>3. Cardinality(s.ack[m]) <= N \div 2
    BY <1>2, <2>2
  <2> QED
    BY <2>1, <2>3 DEF Counts
<1> QED
  BY <1>1, <1>2

LEMMA RelayCounts ==
  ASSUME NEW s, Sound(s), NEW p \in Process, NEW m \in Message
  PROVE  /\ Counts(s, Relay(s, p, m), m, {p})
         /\ Cardinality(Relay(s, p, m).ack[m]) <= N \div 2
<1> DEFINE u == [s EXCEPT !.pending = @ \cup {m}]
           v == Acked(u, m, p)
<1>1. Sound(u) /\ u.delivered = s.delivered /\ u.ack = s.ack
  BY DEF Sound, StateType
<1>2. Relay(s, p, m) = DeliverOwnCopy(u, p, m)
  BY DEF Relay
<1> HIDE DEF u
<1>3. CASE m \in s.delivered
  BY <1>1, <1>2, <1>3, NoAcksNoQuorum DEF DeliverOwnCopy, Counts, Sound
<1>4. CASE m \notin s.delivered
  <2>1. Relay(s, p, m) = TryDeliver(v, m)
    BY <1>1, <1>2, <1>4 DEF DeliverOwnCopy
  <2>2. Sound(v) /\ v.ack = [u.ack EXCEPT ![m] = @ \cup {p}]
    BY <1>1, <1>4, AckedLemma
  <2> HIDE DEF v
  <2>3. v.ack[m] = s.ack[m] \cup {p}
    BY <1>1, <2>2 DEF Sound, StateType
  <2> QED
    BY <2>1, <2>2, <2>3, TryDeliverCounts DEF Counts
<1> QED
  BY <1>3, <1>4

LEMMA DeliverCounts ==
  ASSUME NEW s, Sound(s), NEW p \in Process, Settled(s, p), NEW m \in Message, NEW q \in Process
  PROVE  /\ Counts(s, Deliver(s, p, m, q), m, {p, q})
         /\ Cardinality(Deliver(s, p, m, q).ack[m]) <= N \div 2
<1>1. CASE m \in s.delivered
  BY <1>1 DEF Deliver, Counts, Settled
<1>2. CASE m \notin s.delivered
  <2> DEFINE a == Acked(s, m, q)
             r == IF m \in s.pending THEN a ELSE Relay(a, p, m)
  <2>1. Deliver(s, p, m, q) = TryDeliver(r, m)
    BY <1>2 DEF Deliver
  <2>2. Sound(a) /\ a.ack[m] = s.ack[m] \cup {q} /\ a.delivered = s.delivered
    <3>1. /\ Sound(a)
          /\ a.ack = [s.ack EXCEPT ![m] = @ \cup {q}]
          /\ a.delivered = s.delivered
      BY <1>2, AckedLemma
    <3> HIDE DEF a
    <3> QED
      BY <3>1 DEF Sound, StateType
  <2> HIDE DEF a
  <2>3. Sound(r) /\ Counts(s, r, m, {p, q})
    <3>1. CASE m \in s.pending
      BY <1>2, <2>2, <3>1 DEF Counts, Settled
    <3>2. CASE m \notin s.pending
      BY <2>2, <3>2, RelayLemma, RelayCounts DEF Counts
    <3> QED
      BY <3>1, <3>2
  <2> HIDE DEF r
  <2>4. /\ Counts(r, TryDeliver(r, m), m, {})
        /\ Cardinality(TryDeliver(r, m).ack[m]) <= N \div 2
    BY <2>3, TryDeliverCounts
  <2>5. r.delivered \subseteq TryDeliver(r, m).delivered
    BY <2>3, TryDeliverLemma DEF Handles
  <2> QED
    BY <2>1, <2>3, <2>4, <2>5 DEF Counts
<1> QED
  BY <1>1, <1>2

\* What the handling of m by p leaves settled, if it ends with m in pending.
LEMMA StaysSettled ==
  ASSUME NEW s, Sound(s), NEW t, Sound(t), NEW p \in Process, Settled(s, p), NEW m \in Message,
         NEW A, Handles(s, t, m, A), t.pending = s.pending \cup {m},
         Counts(s, t, m, {p}), Cardinality(t.ack[m]) <= N \div 2
  PROVE  Settled(t, p)
<1>1. t.delivered \subseteq t.pending
  BY DEF Settled, Handles
<1>2. ASSUME NEW k \in t.pending PROVE k \in t.delivered \/ p \in t.ack[k]
  <2>1. CASE k = m
    BY <2>1 DEF Counts
  <2>2. CASE k # m
    <3>1. k \in s.pending /\ k \in Message
      BY <1>2, <2>2 DEF Sound, StateType
    <3>2. t.ack[k] = s.ack[k] /\ s.delivered \subseteq t.delivered
      BY <2>2, <3>1 DEF Handles
    <3> QED
      BY <3>1, <3>2 DEF Settled
  <2> QED
    BY <2>1, <2>2
<1>3. ASSUME NEW k \in Message PROVE Cardinality(t.ack[k]) <= N \div 2
  <2>1. CASE k = m
    BY <2>1
  <2>2. CASE k # m
    BY <2>2 DEF Handles, Settled
  <2> QED
    BY <2>1, <2>2
<1> QED
  BY <1>1, <1>2, <1>3 DEF Settled

LEMMA EachObjectSettled ==
  TypeOK => (AgreementInv <=> HopsAreAccounted /\ \A p \in Process : Settled(urb[p], p))
<1> SUFFICES ASSUME TypeOK
             PROVE  AgreementInv <=> HopsAreAccounted /\ \A p \in Process : Settled(urb[p], p)
  OBVIOUS
<1>1. HopsAreAccounted => \A p \in Process : \A m \in urb[p].pending :
                            m \in urb[p].delivered \/ p \in urb[p].ack[m]
  BY DEF HopsAreAccounted, IsWith
<1> QED
  BY <1>1 DEF AgreementInv, DeliveredIsPending, NoQuorumWaits, Settled

\* p handles m: the packets it takes are counted, and if m is new to it, it
\* sends m to all its neighbors.
LEMMA HandlerKeepsAgreement ==
  ASSUME IInv, IInv', AgreementInv, NEW p \in Process, NEW m \in Message, NEW t, NEW A,
         Handles(urb[p], t, m, A),
         urb' = [urb EXCEPT ![p] = t],
         t.pending = urb[p].pending \cup {m}, Settled(t, p),
         \A k \in Message : Counts(urb[p], t, k, {}),
         m \notin urb[p].pending => BestEffort(p, m) \subseteq links',
         \A pkt \in links \ links' :
           pkt.to = p /\ pkt.msg = m /\ Counts(urb[p], t, m, {pkt.from})
  PROVE  AgreementInv'
<1>1. TypeOK /\ TypeOK'
  BY DEF IInv
<1>2. /\ urb'[p] = t
      /\ \A q \in Process \ {p} : urb'[q] = urb[q]
  BY <1>1 DEF TypeOK
<1>3. \A q \in Process : Settled(urb'[q], q)
  BY <1>1, <1>2, EachObjectSettled
<1>4. ASSUME NEW k \in Message, NEW q \in Process, NEW r \in Process, IsWith(k, q, r)
      PROVE  IsWith(k, q, r)'
  <2>1. CASE r # p
    BY <1>2, <1>4, <2>1 DEF IsWith
  <2>2. CASE r = p
    <3>1. urb[p].delivered \subseteq t.delivered /\ urb[p].pending \subseteq t.pending
      BY DEF Handles
    <3>2. k \in t.delivered \/ urb[p].ack[k] \subseteq t.ack[k]
      BY DEF Counts
    <3> QED
      BY <1>2, <1>4, <2>2, <3>1, <3>2 DEF IsWith
  <2> QED
    BY <2>1, <2>2
<1>5. ASSUME NEW q \in Process, NEW k \in urb'[q].pending, NEW r \in Neighbors(q, N)
      PROVE  [msg |-> k, from |-> q, to |-> r] \in links' \/ IsWith(k, q, r)'
  <2> DEFINE pkt == [msg |-> k, from |-> q, to |-> r]
  <2>1. k \in Message /\ r \in Process
    BY <1>1, <1>5, NeighborsType DEF TypeOK, StateType
  <2>2. CASE k \in urb[q].pending
    <3>1. pkt \in links \/ IsWith(k, q, r)
      BY <2>2 DEF AgreementInv, HopsAreAccounted
    <3>2. CASE pkt \in links \ links'
      <4>1. r = p /\ k = m /\ Counts(urb[p], t, m, {q})
        BY <3>2
      <4>2. m \in t.delivered \/ (m \in t.pending /\ q \in t.ack[m])
        BY <4>1 DEF Counts
      <4> QED
        BY <1>2, <4>1, <4>2 DEF IsWith
    <3>3. CASE IsWith(k, q, r)
      BY <1>4, <2>1, <3>3
    <3> QED
      BY <3>1, <3>2, <3>3
  <2>3. CASE k \notin urb[q].pending
    <3>1. q = p /\ k = m
      BY <1>2, <1>5, <2>3
    <3>2. pkt \in BestEffort(p, m)
      BY <3>1, <1>5 DEF BestEffort
    <3> QED
      BY <2>3, <3>1, <3>2
  <2> QED
    BY <2>2, <2>3
<1>6. HopsAreAccounted'
  <2>1. ASSUME NEW q \in Process, NEW k \in urb'[q].pending PROVE IsWith(k, q, q)'
    BY <1>3, <2>1 DEF Settled, IsWith
  <2> QED
    BY <1>5, <2>1 DEF HopsAreAccounted
<1>7. DeliveredIsPending' /\ NoQuorumWaits'
  BY <1>3 DEF Settled, DeliveredIsPending, NoQuorumWaits
<1> QED
  BY <1>6, <1>7 DEF AgreementInv

\* What a handler does to the acknowledgements of the other messages: nothing.
LEMMA OthersStay ==
  ASSUME NEW s, NEW t, NEW m \in Message, NEW A, Handles(s, t, m, A), NEW B, Counts(s, t, m, B)
  PROVE  \A k \in Message : Counts(s, t, k, {})
BY DEF Handles, Counts

LEMMA BroadcastKeepsAgreement ==
  ASSUME IInv, IInv', AgreementInv, NEW p \in Process, Broadcast(p)
  PROVE  AgreementInv'
<1> DEFINE s == urb[p]
<1>1. TypeOK /\ next_msg[p] \in 0 .. NumMessages /\ next_msg[p] < NumMessages
  BY DEF IInv, TypeOK, Broadcast
<1>2. PICK m \in Message : m = [originator |-> p, bcast_seq_num |-> next_msg[p]]
  <2>1. [originator |-> p, bcast_seq_num |-> next_msg[p]] \in Message
    BY <1>1, NumMessagesAssumption DEF Message
  <2> QED
    BY <2>1
<1> DEFINE t == Relay(s, p, m)
<1>3. /\ urb' = [urb EXCEPT ![p] = t]
      /\ links' = links \cup BestEffort(p, m)
  BY <1>2 DEF Broadcast
<1>4. Sound(s) /\ Settled(s, p)
  BY <1>1, EachObjectSound, EachObjectSettled
<1> HIDE DEF s
<1>5. Sound(t) /\ t.pending = s.pending \cup {m} /\ Handles(s, t, m, {p})
  BY <1>4, RelayLemma
<1>6. Counts(s, t, m, {p}) /\ Cardinality(t.ack[m]) <= N \div 2
  BY <1>4, RelayCounts
<1> HIDE DEF t
<1>7. Settled(t, p)
  BY <1>4, <1>5, <1>6, StaysSettled
<1>8. \A k \in Message : Counts(s, t, k, {})
  BY <1>5, <1>6, OthersStay
<1> QED
  BY <1>3, <1>5, <1>7, <1>8, HandlerKeepsAgreement DEF s

LEMMA ReceiveKeepsAgreement ==
  ASSUME IInv, IInv', AgreementInv, NEW pkt \in links, Receive(pkt)
  PROVE  AgreementInv'
<1> DEFINE p == pkt.to
           q == pkt.from
           m == pkt.msg
           s == urb[p]
           t == Deliver(s, p, m, q)
<1>1. TypeOK /\ p \in Process /\ q \in Process /\ m \in Message
  BY DEF IInv, TypeOK, Packet
<1>2. /\ urb' = [urb EXCEPT ![p] = t]
      /\ links' = (links \ {pkt}) \cup (IF Relays(s, m) THEN BestEffort(p, m) ELSE {})
  BY DEF Receive
<1>3. Sound(s) /\ Settled(s, p)
  BY <1>1, EachObjectSound, EachObjectSettled
<1> HIDE DEF p, q, m, s
<1>4. /\ Sound(t)
      /\ t.pending = IF Relays(s, m) THEN s.pending \cup {m} ELSE s.pending
      /\ Handles(s, t, m, NewAcks(s, p, m, q))
  BY <1>1, <1>3, DeliverLemma
<1>5. Counts(s, t, m, {p, q}) /\ Cardinality(t.ack[m]) <= N \div 2
  BY <1>1, <1>3, DeliverCounts
<1> HIDE DEF t
<1>6. t.pending = s.pending \cup {m} /\ (m \notin s.pending => Relays(s, m))
  <2>1. m \in s.delivered => m \in s.pending
    BY <1>3 DEF Settled
  <2> QED
    BY <1>4, <2>1 DEF Relays
<1>7. Counts(s, t, m, {p}) /\ Counts(s, t, m, {q})
  BY <1>5 DEF Counts
<1>8. Settled(t, p)
  BY <1>1, <1>3, <1>4, <1>5, <1>6, <1>7, StaysSettled
<1>9. \A k \in Message : Counts(s, t, k, {})
  BY <1>1, <1>4, <1>5, OthersStay
<1>10. m \notin s.pending => BestEffort(p, m) \subseteq links'
  BY <1>2, <1>6
<1>11. \A k \in links \ links' : k.to = p /\ k.msg = m /\ Counts(s, t, m, {k.from})
  <2>1. \A k \in links \ links' : k = pkt
    BY <1>2
  <2> QED
    BY <1>7, <2>1 DEF p, q, m
<1> QED
  BY <1>1, <1>2, <1>4, <1>6, <1>8, <1>9, <1>10, <1>11, HandlerKeepsAgreement DEF s

LEMMA StepKeepsAgreement == IInv /\ IInv' /\ AgreementInv /\ [Next]_vars => AgreementInv'
<1> SUFFICES ASSUME IInv, IInv', AgreementInv, [Next]_vars PROVE AgreementInv'
  OBVIOUS
<1>1. ASSUME NEW p \in Process, Broadcast(p) PROVE AgreementInv'
  BY <1>1, BroadcastKeepsAgreement
<1>2. ASSUME NEW pkt \in links, Receive(pkt) PROVE AgreementInv'
  BY <1>2, ReceiveKeepsAgreement
<1>3. ASSUME UNCHANGED << urb, links >> PROVE AgreementInv'
  BY <1>3 DEF AgreementInv, HopsAreAccounted, IsWith, DeliveredIsPending, NoQuorumWaits
<1>4. ASSUME NEW p \in Process, Crash(p) PROVE AgreementInv'
  BY <1>3, <1>4 DEF Crash
<1>5. CASE UNCHANGED vars
  BY <1>3, <1>5 DEF vars
<1> QED
  BY <1>1, <1>2, <1>4, <1>5 DEF Next

\* Every copy of a message that a holder has sent is under way, counted or no
\* longer needed, whatever is relayed, received or crashes in between.
THEOREM CopiesAreAccounted == Spec => []AgreementInv
<1>1. Init => AgreementInv
  <2> SUFFICES ASSUME Init PROVE AgreementInv
    OBVIOUS
  <2>1. \A p \in Process : urb[p] = InitialState
    BY DEF Init
  <2>2. \A p \in Process : /\ urb[p].pending = {}
                           /\ urb[p].delivered = {}
                           /\ \A m \in Message : urb[p].ack[m] = {}
    BY <2>1 DEF InitialState
  <2> QED
    BY <2>2, NoAcksNoQuorum DEF AgreementInv, HopsAreAccounted, DeliveredIsPending, NoQuorumWaits
<1> QED
  BY <1>1, StepKeepsAgreement, InductiveInvariant, PTL DEF Spec

-----------------------------------------------------------------------------
(***************************************************************************)
(* ... and in the ring, which no minority of crashes cuts into parts.      *)
(***************************************************************************)
LEMMA MinorityHasCrashed ==
  ASSUME TypeOK, 2 * Cardinality(crashed) < N
  PROVE  R!Minority
<1>1. \A S : R!IsFiniteSet(S) = IsFiniteSet(S)
  BY DEF R!IsFiniteSet, IsFiniteSet
<1>2. \A S : R!Cardinality(S) = Cardinality(S)
  BY DEF R!Cardinality, Cardinality
<1>3. crashed \subseteq Process /\ IsFiniteSet(crashed)
  BY ProcessFinite, FS_Subset DEF TypeOK
<1> QED
  BY <1>1, <1>2, <1>3, NAssumption DEF R!Minority, R!Host, Process

\* A set of running processes that no running neighbor is missing from has all.
LEMMA ClosedIsAll ==
  ASSUME R!Minority, NEW S \in SUBSET (Process \ crashed), S # {},
         \A p \in S : \A q \in Neighbors(p, N) : q \in crashed \/ q \in S
  PROVE  S = Process \ crashed
<1>1. R!Running = Process \ crashed
  BY DEF R!Running, R!Host, Process
<1>2. \A p \in S, q \in R!Running : q \in R!Neighbors(p, N) => q \in S
  BY <1>1, SameRing
<1>3. R!Closed(S)
  BY <1>2 DEF R!Closed, R!Reach
<1>4. R!RunningHostsStayConnected
  BY R!StaysConnected, NAssumption
<1> QED
  BY <1>1, <1>3, <1>4 DEF R!RunningHostsStayConnected

\* Once the links owe nothing and while a minority has crashed: what a running
\* process holds has been relayed around the ring to all running ones, and each
\* of them has counted all its neighbors that run.
THEOREM QuietAgreement == Spec => []QuietMeansAgreed
<1>1. IInv /\ AgreementInv => QuietMeansAgreed
  <2> SUFFICES ASSUME IInv, AgreementInv, Quiet, 2 * Cardinality(crashed) < N,
                      NEW m \in Message, NEW p \in Process,
                      m \in urb[p].delivered \/ (m \in urb[p].pending /\ p \notin crashed),
                      NEW q \in Process \ crashed
               PROVE  /\ m \in urb[q].pending
                      /\ AckQuorumRemains(q) => m \in urb[q].delivered
    BY DEF QuietMeansAgreed
  <2> DEFINE S == Holders(m) \ crashed
  <2>1. TypeOK /\ R!Minority
    BY MinorityHasCrashed DEF IInv
  <2>2. ASSUME NEW r \in S, NEW k \in Neighbors(r, N), k \notin crashed
        PROVE  k \in Process /\ IsWith(m, r, k)
    <3>1. r \in Process /\ m \in urb[r].pending /\ r \notin crashed
      BY DEF Holders
    <3>2. [msg |-> m, from |-> r, to |-> k] \notin links
      BY <2>2, <3>1 DEF Quiet
    <3> QED
      BY <2>2, <3>1, <3>2, NeighborsType DEF AgreementInv, HopsAreAccounted
  <2>3. S # {}
    <3>1. CASE m \in urb[p].delivered
      BY <3>1, MajorityOutlivesMinority DEF DeliveredSurvivesMinorityCrash
    <3>2. CASE m \in urb[p].pending /\ p \notin crashed
      BY <3>2 DEF Holders
    <3> QED
      BY <3>1, <3>2
  <2>4. \A r \in S : \A k \in Neighbors(r, N) : k \in crashed \/ k \in S
    BY <2>2 DEF AgreementInv, DeliveredIsPending, IsWith, Holders
  <2>5. S = Process \ crashed
    BY <2>1, <2>3, <2>4, ClosedIsAll DEF Holders
  <2>6. m \in urb[q].pending
    BY <2>5 DEF Holders
  <2>7. ASSUME m \notin urb[q].delivered PROVE ~ AckQuorumRemains(q)
    <3> DEFINE remaining == (Neighbors(q, N) \cup {q}) \ crashed
    <3>1. remaining \subseteq urb[q].ack[m]
      <4>1. q \in urb[q].ack[m]
        BY <2>6, <2>7 DEF AgreementInv, HopsAreAccounted, IsWith
      <4>2. ASSUME NEW r \in Neighbors(q, N), r \notin crashed PROVE r \in urb[q].ack[m]
        <5>1. r \in S /\ q \in Neighbors(r, N)
          BY <2>1, <2>5, <4>2, NeighborsType, NeighborsOfEachOther
        <5> QED
          BY <2>2, <2>7, <5>1 DEF IsWith
      <4> QED
        BY <4>1, <4>2
    <3>2. urb[q].ack[m] \subseteq Process
      BY <2>1 DEF TypeOK, StateType
    <3>3. IsFiniteSet(urb[q].ack[m]) /\ Cardinality(urb[q].ack[m]) \in Nat
      BY <3>2, ProcessFinite, FS_Subset, FS_CardinalityType
    <3>4. Cardinality(remaining) <= Cardinality(urb[q].ack[m]) /\ Cardinality(remaining) \in Nat
      BY <3>1, <3>3, FS_Subset, FS_CardinalityType
    <3>5. Cardinality(urb[q].ack[m]) <= N \div 2 /\ N \div 2 \in Int
      BY NAssumption DEF AgreementInv, NoQuorumWaits
    <3> HIDE DEF remaining
    <3>6. ~ (Cardinality(remaining) > N \div 2)
      BY <3>3, <3>4, <3>5
    <3> QED
      BY <3>6 DEF AckQuorumRemains, remaining
  <2> QED
    BY <2>6, <2>7
<1> QED
  BY <1>1, InductiveInvariant, CopiesAreAccounted, PTL

-----------------------------------------------------------------------------
(***************************************************************************)
(* Each link is used as the channel that the perfect link is.              *)
(***************************************************************************)
\* The packet of m on the link from p to q.
On(p, q, m) == [msg |-> m, from |-> p, to |-> q]

\* How often q was handed m on the link from p.
HandedOver(p, q) ==
  [m \in Message |-> IF m \in urb[p].pending /\ On(p, q, m) \notin links THEN 1 ELSE 0]

Ends(p, q) ==
  (IF p \in crashed THEN {"sender"} ELSE {}) \cup (IF q \in crashed THEN {"receiver"} ELSE {})

ChannelStep(p, q) == [Channel(p, q)!Next]_(Channel(p, q)!vars)

LEMMA ChannelStutters ==
  ASSUME NEW p, NEW q,
         urb'[p].pending = urb[p].pending,
         \A m \in urb[p].pending : On(p, q, m) \in links' <=> On(p, q, m) \in links,
         crashed' = crashed
  PROVE  ChannelStep(p, q)
<1>1. HandedOver(p, q)' = HandedOver(p, q) /\ Ends(p, q)' = Ends(p, q)
  BY DEF HandedOver, Ends
<1> QED
  BY <1>1 DEF ChannelStep, Channel!vars, HandedOver, Ends, On

LEMMA ChannelSends ==
  ASSUME NEW p, NEW q, NEW m \in Message, p \notin crashed,
         m \notin urb[p].pending, urb'[p].pending = urb[p].pending \cup {m},
         On(p, q, m) \in links',
         \A k \in urb[p].pending : On(p, q, k) \in links' <=> On(p, q, k) \in links,
         crashed' = crashed
  PROVE  ChannelStep(p, q)
<1>1. HandedOver(p, q)' = HandedOver(p, q) /\ Ends(p, q)' = Ends(p, q)
  BY DEF HandedOver, Ends
<1>2. "sender" \notin Ends(p, q)
  BY DEF Ends
<1>3. Channel(p, q)!Send(m)
  BY <1>1, <1>2 DEF Channel!Send, HandedOver, Ends, On
<1> QED
  BY <1>3 DEF ChannelStep, Channel!Next

LEMMA ChannelDelivers ==
  ASSUME NEW p, NEW q, NEW m \in Message, q \notin crashed,
         m \in urb[p].pending, urb'[p].pending = urb[p].pending,
         On(p, q, m) \in links, On(p, q, m) \notin links',
         \A k \in urb[p].pending \ {m} : On(p, q, k) \in links' <=> On(p, q, k) \in links,
         crashed' = crashed
  PROVE  ChannelStep(p, q)
<1>1. Ends(p, q)' = Ends(p, q) /\ "receiver" \notin Ends(p, q)
  BY DEF Ends
<1>2. HandedOver(p, q)[m] = 0
  BY DEF HandedOver
<1>3. HandedOver(p, q)' = [HandedOver(p, q) EXCEPT ![m] = @ + 1]
  <2>1. HandedOver(p, q)'[m] = 1
    BY DEF HandedOver
  <2>2. \A k \in Message \ {m} : HandedOver(p, q)'[k] = HandedOver(p, q)[k]
    BY DEF HandedOver
  <2>3. /\ HandedOver(p, q) = [k \in Message |-> HandedOver(p, q)[k]]
        /\ HandedOver(p, q)' = [k \in Message |-> HandedOver(p, q)'[k]]
    BY DEF HandedOver
  <2> QED
    BY <1>2, <2>1, <2>2, <2>3
<1>4. Channel(p, q)!Deliver(m)
  BY <1>1, <1>2, <1>3 DEF Channel!Deliver, HandedOver, Ends, On
<1> QED
  BY <1>4 DEF ChannelStep, Channel!Next

LEMMA CrashStops ==
  ASSUME NEW p, NEW q, p # q, NEW r, Crash(r)
  PROVE  ChannelStep(p, q)
<1>1. /\ r \notin crashed /\ crashed' = crashed \cup {r}
      /\ UNCHANGED << urb, links >>
  BY DEF Crash
<1>2. HandedOver(p, q)' = HandedOver(p, q)
  BY <1>1 DEF HandedOver
<1>3. CASE r = p
  <2>1. "sender" \notin Ends(p, q) /\ Ends(p, q)' = Ends(p, q) \cup {"sender"}
    BY <1>1, <1>3 DEF Ends
  <2>2. Channel(p, q)!Crash("sender")
    BY <1>1, <1>2, <2>1 DEF Channel!Crash, HandedOver, Ends, On
  <2> QED
    BY <2>2 DEF ChannelStep, Channel!Next
<1>4. CASE r = q
  <2>1. "receiver" \notin Ends(p, q) /\ Ends(p, q)' = Ends(p, q) \cup {"receiver"}
    BY <1>1, <1>4 DEF Ends
  <2>2. Channel(p, q)!Crash("receiver")
    BY <1>1, <1>2, <2>1 DEF Channel!Crash, HandedOver, Ends, On
  <2> QED
    BY <2>2 DEF ChannelStep, Channel!Next
<1>5. CASE r # p /\ r # q
  <2>1. Ends(p, q)' = Ends(p, q)
    BY <1>1, <1>5 DEF Ends
  <2> QED
    BY <1>1, <1>2, <2>1 DEF ChannelStep, Channel!vars, HandedOver, Ends, On
<1> QED
  BY <1>3, <1>4, <1>5

LEMMA BroadcastUsesChannels ==
  ASSUME IInv, NEW p \in Process, NEW q \in Neighbors(p, N), NEW r \in Process, Broadcast(r)
  PROVE  ChannelStep(p, q)
<1>1. TypeOK /\ next_msg[r] \in 0 .. NumMessages /\ next_msg[r] < NumMessages
  BY DEF IInv, TypeOK, Broadcast
<1>2. PICK m \in Message : m = [originator |-> r, bcast_seq_num |-> next_msg[r]]
  <2>1. [originator |-> r, bcast_seq_num |-> next_msg[r]] \in Message
    BY <1>1, NumMessagesAssumption DEF Message
  <2> QED
    BY <2>1
<1>3. m \notin urb[r].pending
  BY <1>1, <1>2 DEF IInv, PendingWasBroadcast
<1> DEFINE t == Relay(urb[r], r, m)
<1>4. /\ urb' = [urb EXCEPT ![r] = t]
      /\ links' = links \cup BestEffort(r, m)
      /\ crashed' = crashed /\ r \notin crashed
  BY <1>2 DEF Broadcast
<1>5. t.pending = urb[r].pending \cup {m}
  BY EachObjectSound, RelayLemma
<1> HIDE DEF t
<1>6. CASE r = p
  <2>1. urb'[p].pending = urb[p].pending \cup {m}
    BY <1>1, <1>4, <1>5, <1>6 DEF TypeOK
  <2>2. On(p, q, m) \in BestEffort(p, m) /\ \A k \in Message : On(p, q, k) \in BestEffort(p, m) => k = m
    BY DEF On, BestEffort
  <2>3. \A k \in urb[p].pending : On(p, q, k) \in links' <=> On(p, q, k) \in links
    BY <1>1, <1>3, <1>4, <1>6, <2>2 DEF TypeOK, StateType
  <2> QED
    BY <1>3, <1>4, <1>6, <2>1, <2>2, <2>3, ChannelSends
<1>7. CASE r # p
  <2>1. \A k : On(p, q, k) \notin BestEffort(r, m)
    BY <1>7 DEF On, BestEffort
  <2>2. urb'[p].pending = urb[p].pending
    BY <1>1, <1>4, <1>7 DEF TypeOK
  <2> QED
    BY <1>4, <2>1, <2>2, ChannelStutters
<1> QED
  BY <1>6, <1>7

LEMMA ReceiveUsesChannels ==
  ASSUME IInv, NEW p \in Process, NEW q \in Neighbors(p, N), NEW pkt \in links, Receive(pkt)
  PROVE  ChannelStep(p, q)
<1> DEFINE r == pkt.to
           m == pkt.msg
           t == Deliver(urb[r], r, m, pkt.from)
           new == IF Relays(urb[r], m) THEN BestEffort(r, m) ELSE {}
<1>1. /\ TypeOK /\ r \in Process /\ pkt.from \in Process /\ m \in Message
      /\ m \in urb[pkt.from].pending
      /\ pkt = On(pkt.from, r, m)
  BY DEF IInv, TypeOK, Packet, PacketsComeFromHolders, Holders, On
<1>2. /\ urb' = [urb EXCEPT ![r] = t]
      /\ links' = (links \ {pkt}) \cup new
      /\ crashed' = crashed /\ r \notin crashed
  BY DEF Receive
<1>3. t.pending = IF Relays(urb[r], m) THEN urb[r].pending \cup {m} ELSE urb[r].pending
  BY <1>1, EachObjectSound, DeliverLemma
<1>4. q \in Process /\ q # p
  BY NeighborsType
<1>5. \A k \in Message : On(p, q, k) = pkt <=> (p = pkt.from /\ q = r /\ k = m)
  BY <1>1 DEF On
<1>6. \A k \in Message : On(p, q, k) \in new <=> (Relays(urb[r], m) /\ p = r /\ k = m)
  BY DEF On, BestEffort
<1>7. urb[p].pending \subseteq Message
  BY <1>1 DEF TypeOK, StateType
<1> HIDE DEF t, new
<1>8. /\ urb'[r].pending = t.pending
      /\ \A k \in Process \ {r} : urb'[k] = urb[k]
  BY <1>1, <1>2 DEF TypeOK
<1> HIDE DEF r, m
<1>9. CASE p = r /\ Relays(urb[r], m)
  <2>1. m \notin urb[p].pending /\ urb'[p].pending = urb[p].pending \cup {m}
    BY <1>3, <1>8, <1>9 DEF Relays
  <2>2. p \notin crashed /\ On(p, q, m) \in links'
    BY <1>1, <1>2, <1>6, <1>9
  <2>3. \A k \in urb[p].pending : On(p, q, k) \in links' <=> On(p, q, k) \in links
    BY <1>2, <1>4, <1>5, <1>6, <1>7, <1>9, <2>1
  <2> QED
    BY <1>1, <1>2, <2>1, <2>2, <2>3, ChannelSends
<1>10. CASE ~ (p = r /\ Relays(urb[r], m))
  <2>1. urb'[p].pending = urb[p].pending
    <3>1. CASE p = r
      BY <1>3, <1>8, <1>10, <3>1
    <3>2. CASE p # r
      BY <1>8, <3>2
    <3> QED
      BY <3>1, <3>2
  <2>2. \A k \in Message : On(p, q, k) \in links' <=> On(p, q, k) \in links /\ On(p, q, k) # pkt
    BY <1>2, <1>6, <1>10
  <2>3. CASE p = pkt.from /\ q = r
    <3>1. On(p, q, m) = pkt /\ \A k \in Message \ {m} : On(p, q, k) # pkt
      BY <1>1, <1>5, <2>3
    <3>2. q \notin crashed /\ m \in urb[p].pending
      BY <1>1, <1>2, <2>3
    <3>3. \A k \in urb[p].pending \ {m} : On(p, q, k) \in links' <=> On(p, q, k) \in links
      BY <1>7, <2>2, <3>1
    <3>4. On(p, q, m) \in links /\ On(p, q, m) \notin links'
      BY <1>1, <2>2, <3>1
    <3> QED
      BY <1>1, <1>2, <2>1, <3>2, <3>3, <3>4, ChannelDelivers
  <2>4. CASE ~ (p = pkt.from /\ q = r)
    <3>1. \A k \in urb[p].pending : On(p, q, k) \in links' <=> On(p, q, k) \in links
      BY <1>5, <1>7, <2>2, <2>4
    <3> QED
      BY <1>2, <2>1, <3>1, ChannelStutters
  <2> QED
    BY <2>3, <2>4
<1> QED
  BY <1>9, <1>10

\* No process sends a message twice over a link, whatever copies of it come back,
\* and the packets on each link are what ReliableChannel, and so the perfect link,
\* makes of the messages sent.
THEOREM LinksSuffice == Spec => LinksAreReliableChannels
<1>1. Init => \A p \in Process : \A q \in Neighbors(p, N) : Channel(p, q)!Init
  <2> SUFFICES ASSUME Init, NEW p \in Process, NEW q \in Neighbors(p, N)
               PROVE  Channel(p, q)!Init
    OBVIOUS
  <2>1. urb[p].pending = {} /\ crashed = {}
    BY DEF Init, InitialState
  <2> QED
    BY <2>1 DEF Channel!Init
<1>2. IInv /\ [Next]_vars => [\A p \in Process : \A q \in Neighbors(p, N) :
                                [Channel(p, q)!Next]_(Channel(p, q)!vars)]_vars
  <2> SUFFICES ASSUME IInv, Next, NEW p \in Process, NEW q \in Neighbors(p, N)
               PROVE  ChannelStep(p, q)
    BY DEF ChannelStep
  <2>1. p # q
    BY NeighborsType
  <2>2. ASSUME NEW r \in Process, Crash(r) PROVE ChannelStep(p, q)
    BY <2>1, <2>2, CrashStops
  <2> QED
    BY <2>2, BroadcastUsesChannels, ReceiveUsesChannels DEF Next
<1> QED
  BY <1>1, <1>2, InductiveInvariant, PTL DEF Spec, LinksAreReliableChannels

=============================================================================
