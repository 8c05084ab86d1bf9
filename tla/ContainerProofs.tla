-------------------------- MODULE ContainerProofs --------------------------
(***************************************************************************)
(* Theorems about the two containers the program is built from, for every  *)
(* chunk size and number, and any number of items: RollingBitset is a set, *)
(* and the operations of ConcurrentQueue are atomic.                       *)
(***************************************************************************)
EXTENDS ConcurrentQueue, RollingBitset, FiniteSetTheorems, TLAPS

-----------------------------------------------------------------------------
(***************************************************************************)
(* RollingBitset.                                                          *)
(***************************************************************************)
LEMMA Division ==
  ASSUME NEW e \in Nat
  PROVE  /\ e \div ChunkSize \in Nat
         /\ e % ChunkSize \in 0 .. ChunkSize - 1
         /\ e = ChunkSize * (e \div ChunkSize) + (e % ChunkSize)
<1>1. e \div ChunkSize \in Nat
  BY ChunkSizeAssumption
<1>2. e % ChunkSize \in 0 .. ChunkSize - 1
  BY ChunkSizeAssumption
<1>3. e = ChunkSize * (e \div ChunkSize) + (e % ChunkSize)
  BY ChunkSizeAssumption
<1>4. QED
  BY <1>1, <1>2, <1>3

LEMMA BitsFinite ==
  ASSUME NEW B \in SUBSET (0 .. ChunkSize - 1)
  PROVE  /\ IsFiniteSet(B)
         /\ Cardinality(B) \in Nat
         /\ Cardinality(B) = ChunkSize => B = 0 .. ChunkSize - 1
<1>1. /\ IsFiniteSet(0 .. ChunkSize - 1)
      /\ Cardinality(0 .. ChunkSize - 1) = ChunkSize
  <2>1. 0 <= ChunkSize - 1
    BY ChunkSizeAssumption
  <2>2. QED
    BY <2>1, ChunkSizeAssumption, FS_Interval
<1>2. IsFiniteSet(B) /\ Cardinality(B) \in Nat
  BY <1>1, FS_Subset, FS_CardinalityType
<1>3. Cardinality(B) = ChunkSize => B = 0 .. ChunkSize - 1
  BY <1>1, FS_Subset
<1>4. QED
  BY <1>2, <1>3

\* Setting a bit keeps the count exact.
LEMMA SetLemma ==
  ASSUME NEW c \in Chunk, c.count = Cardinality(c.bits), NEW b \in 0 .. ChunkSize - 1
  PROVE  /\ Set(c, b) \in Chunk
         /\ Set(c, b).bits = c.bits \cup {b}
         /\ Set(c, b).count = Cardinality(c.bits \cup {b})
<1>1. c.bits \in SUBSET (0 .. ChunkSize - 1) /\ c.count \in Nat
  BY DEF Chunk
<1>2. IsFiniteSet(c.bits)
  BY <1>1, BitsFinite
<1>3. Cardinality(c.bits \cup {b}) = IF b \in c.bits THEN c.count ELSE c.count + 1
  BY <1>2, FS_AddElement
<1>4. QED
  BY <1>1, <1>3 DEF Set, Chunk

\* The queue WithBit makes for a number that has not passed.
LEMMA WithBitLemma ==
  ASSUME BitsetInv, NEW e \in Elem, ~ has_passed(e)
  PROVE  LET i == chunk_index(e)
             w == WithBit(e)
         IN  /\ i \in Nat
             /\ w \in Seq(Chunk)
             /\ i < Len(w) /\ Len(chunks) <= Len(w)
             /\ \A j \in DOMAIN w : w[j].count = Cardinality(w[j].bits)
             /\ \A j \in DOMAIN w :
                  w[j].bits =
                    (IF j <= Len(chunks) THEN chunks[j].bits ELSE {})
                      \cup (IF j = i + 1 THEN {e % ChunkSize} ELSE {})
<1> DEFINE i == chunk_index(e)
           n == IF i < Len(chunks) THEN Len(chunks) ELSE i + 1
           g == Grown(i)
           w == WithBit(e)
<1>1. /\ offset \in Nat
      /\ chunks \in Seq(Chunk)
      /\ Len(chunks) \in Nat
      /\ \A j \in 1 .. Len(chunks) : chunks[j] \in Chunk
      /\ \A j \in 1 .. Len(chunks) : chunks[j].count = Cardinality(chunks[j].bits)
  BY DEF BitsetInv, BitsetTypeOK, CountsAreExact
<1>2. e % ChunkSize \in 0 .. ChunkSize - 1 /\ i \in Nat
  BY <1>1, Division, ElemAssumption, ChunkSizeAssumption DEF has_passed, chunk_index
<1> HIDE DEF i
<1>3. n \in Nat /\ i + 1 \in 1 .. n /\ Len(chunks) <= n
  BY <1>1, <1>2
<1>4. EmptyChunk \in Chunk /\ EmptyChunk.count = Cardinality(EmptyChunk.bits) /\ EmptyChunk.bits = {}
  BY FS_EmptySet DEF EmptyChunk, Chunk
<1>5. /\ g = [j \in 1 .. n |-> IF j <= Len(chunks) THEN chunks[j] ELSE EmptyChunk]
      /\ \A j \in 1 .. n : g[j] \in Chunk /\ g[j].count = Cardinality(g[j].bits)
      /\ \A j \in 1 .. n : g[j].bits = IF j <= Len(chunks) THEN chunks[j].bits ELSE {}
  <2>1. g = [j \in 1 .. n |-> IF j <= Len(chunks) THEN chunks[j] ELSE EmptyChunk]
    BY DEF Grown
  <2> HIDE DEF n, g
  <2>2. ASSUME NEW j \in 1 .. n
        PROVE  /\ g[j] \in Chunk
               /\ g[j].count = Cardinality(g[j].bits)
               /\ g[j].bits = IF j <= Len(chunks) THEN chunks[j].bits ELSE {}
    <3>1. CASE j <= Len(chunks)
      BY <1>1, <1>3, <2>1, <3>1
    <3>2. CASE ~ (j <= Len(chunks))
      BY <1>4, <2>1, <3>2
    <3>3. QED
      BY <3>1, <3>2
  <2>3. QED
    BY <2>1, <2>2
<1> HIDE DEF n, g
<1>6. w = [g EXCEPT ![i + 1] = Set(g[i + 1], e % ChunkSize)]
  BY DEF WithBit, i, g
<1> HIDE DEF w
<1>7. /\ DOMAIN w = 1 .. n
      /\ w[i + 1] = Set(g[i + 1], e % ChunkSize)
      /\ \A j \in 1 .. n : j # i + 1 => w[j] = g[j]
  BY <1>3, <1>5, <1>6
<1>8. /\ w[i + 1] \in Chunk
      /\ w[i + 1].bits = g[i + 1].bits \cup {e % ChunkSize}
      /\ w[i + 1].count = Cardinality(w[i + 1].bits)
  <2> DEFINE b == e % ChunkSize
             c == g[i + 1]
  <2>1. c \in Chunk /\ c.count = Cardinality(c.bits) /\ b \in 0 .. ChunkSize - 1
    BY <1>2, <1>3, <1>5
  <2>2. w[i + 1] = Set(c, b)
    BY <1>7
  <2> HIDE DEF b, c
  <2>3. /\ Set(c, b) \in Chunk
        /\ Set(c, b).bits = c.bits \cup {b}
        /\ Set(c, b).count = Cardinality(c.bits \cup {b})
    BY <2>1, SetLemma
  <2>4. QED
    BY <2>2, <2>3 DEF b, c
<1>9. \A j \in 1 .. n : w[j] \in Chunk /\ w[j].count = Cardinality(w[j].bits)
  BY <1>5, <1>7, <1>8
<1>10. w \in Seq(Chunk) /\ Len(w) = n
  <2>1. w \in [1 .. n -> Chunk]
    BY <1>5, <1>6, <1>7, <1>9
  <2>2. QED
    BY <1>3, <2>1
<1>11. \A j \in 1 .. n :
         w[j].bits = (IF j <= Len(chunks) THEN chunks[j].bits ELSE {})
                       \cup (IF j = i + 1 THEN {e % ChunkSize} ELSE {})
  BY <1>5, <1>7, <1>8
<1>12. i < Len(w)
  BY <1>2, <1>3, <1>10
<1>13. QED
  BY <1>2, <1>3, <1>7, <1>9, <1>10, <1>11, <1>12 DEF i, w

-----------------------------------------------------------------------------
\* contains, for a number that has not passed, in terms of its place.
LEMMA ContainsAt ==
  ASSUME BitsetInv, NEW k \in Elem
  PROVE  /\ chunk_index(k) \in Int
         /\ ~ has_passed(k) => chunk_index(k) \in Nat
         /\ k % ChunkSize \in 0 .. ChunkSize - 1
<1>1. /\ k \div ChunkSize \in Nat
      /\ k % ChunkSize \in 0 .. ChunkSize - 1
  BY Division, ElemAssumption
<1>2. offset \in Nat
  BY DEF BitsetInv, BitsetTypeOK
<1>3. QED
  BY <1>1, <1>2 DEF chunk_index, has_passed

\* Two numbers with the same place are one.
LEMMA SamePlace ==
  ASSUME BitsetInv, NEW k \in Elem, NEW e \in Elem,
         chunk_index(k) = chunk_index(e), k % ChunkSize = e % ChunkSize
  PROVE  k = e
<1>1. k \div ChunkSize \in Nat /\ e \div ChunkSize \in Nat /\ offset \in Nat
  BY Division, ElemAssumption DEF BitsetInv, BitsetTypeOK
<1>2. k \div ChunkSize = e \div ChunkSize
  BY <1>1 DEF chunk_index
<1>3. /\ k = ChunkSize * (k \div ChunkSize) + (k % ChunkSize)
      /\ e = ChunkSize * (e \div ChunkSize) + (e % ChunkSize)
  BY Division, ElemAssumption
<1>4. QED
  BY <1>2, <1>3

LEMMA InsertInChunkPreserves ==
  ASSUME BitsetInv, NEW e \in Elem, InsertInChunk(e)
  PROVE  BitsetInv'
<1> DEFINE i == chunk_index(e)
           w == WithBit(e)
<1>1. ~ has_passed(e) /\ chunks' = w /\ inserted' = inserted \cup {e} /\ offset' = offset
  BY DEF InsertInChunk
<1>2. /\ i \in Nat
      /\ w \in Seq(Chunk)
      /\ i < Len(w) /\ Len(chunks) <= Len(w)
      /\ \A j \in DOMAIN w : w[j].count = Cardinality(w[j].bits)
      /\ \A j \in DOMAIN w :
           w[j].bits = (IF j <= Len(chunks) THEN chunks[j].bits ELSE {})
                         \cup (IF j = i + 1 THEN {e % ChunkSize} ELSE {})
  BY <1>1, WithBitLemma
<1> HIDE DEF i, w
<1>3. BitsetTypeOK' /\ CountsAreExact'
  BY <1>1, <1>2 DEF BitsetInv, BitsetTypeOK, CountsAreExact
<1>4. ASSUME NEW k \in Elem
      PROVE  contains(k)' <=> k \in inserted'
  <2>1. contains(k) <=> k \in inserted
    BY DEF BitsetInv, ContainsExactlyInserted
  <2>2. has_passed(k)' = has_passed(k) /\ chunk_index(k)' = chunk_index(k)
    BY <1>1 DEF has_passed, chunk_index
  <2>3. CASE has_passed(k)
    BY <1>1, <2>1, <2>2, <2>3 DEF contains
  <2>4. CASE ~ has_passed(k)
    <3> DEFINE x == chunk_index(k)
               b == k % ChunkSize
    <3>1. x \in Nat /\ chunks \in Seq(Chunk)
      BY <2>4, ContainsAt DEF BitsetInv, BitsetTypeOK
    <3>2. contains(k)' <=> x < Len(w) /\ b \in w[x + 1].bits
      BY <1>1, <2>2, <2>4 DEF contains
    <3>3. contains(k) <=> x < Len(chunks) /\ b \in chunks[x + 1].bits
      BY <2>4 DEF contains
    <3>4. k = e <=> x = i /\ b = e % ChunkSize
      BY SamePlace DEF i
    <3> HIDE DEF x, b
    <3>5. x < Len(w) => x + 1 \in DOMAIN w
      BY <1>2, <3>1
    <3>6. Len(w) \in Nat /\ Len(chunks) \in Nat
      BY <1>2, <3>1
    <3>7. contains(k)' <=> contains(k) \/ k = e
      <4>1. CASE x < Len(w)
        <5>1. b \in w[x + 1].bits <=>
                (x < Len(chunks) /\ b \in chunks[x + 1].bits) \/ (x = i /\ b = e % ChunkSize)
          BY <1>2, <3>1, <3>5, <3>6, <4>1
        <5>2. QED
          BY <3>2, <3>3, <3>4, <4>1, <5>1
      <4>2. CASE ~ (x < Len(w))
        BY <1>2, <3>1, <3>2, <3>3, <3>4, <3>6, <4>2
      <4>3. QED
        BY <4>1, <4>2
    <3>8. QED
      BY <1>1, <2>1, <3>7
  <2>5. QED
    BY <2>3, <2>4
<1>5. QED
  BY <1>3, <1>4 DEF BitsetInv, ContainsExactlyInserted

LEMMA InsertAndRotatePreserves ==
  ASSUME BitsetInv, NEW e \in Elem, InsertAndRotate(e)
  PROVE  BitsetInv'
<1> DEFINE w == WithBit(e)
<1>1. /\ ~ has_passed(e)
      /\ chunk_index(e) = 0
      /\ w[1].count = ChunkSize
      /\ chunks' = Tail(w)
      /\ inserted' = inserted \cup {e}
      /\ offset' = offset + 1
  BY DEF InsertAndRotate, FillsFirstChunk
<1>2. /\ w \in Seq(Chunk)
      /\ 0 < Len(w) /\ Len(chunks) <= Len(w)
      /\ \A j \in DOMAIN w : w[j].count = Cardinality(w[j].bits)
      /\ \A j \in DOMAIN w :
           w[j].bits = (IF j <= Len(chunks) THEN chunks[j].bits ELSE {})
                         \cup (IF j = 1 THEN {e % ChunkSize} ELSE {})
  BY <1>1, WithBitLemma
<1> HIDE DEF w
<1>3. /\ w # << >>
      /\ Len(w) \in Nat
      /\ DOMAIN w = 1 .. Len(w)
      /\ Tail(w) \in Seq(Chunk)
      /\ Len(Tail(w)) = Len(w) - 1
      /\ \A j \in 1 .. Len(w) - 1 : Tail(w)[j] = w[j + 1]
  BY <1>2
<1>4. offset \in Nat /\ chunks \in Seq(Chunk) /\ Len(chunks) \in Nat
  BY DEF BitsetInv, BitsetTypeOK
<1>5. BitsetTypeOK'
  BY <1>1, <1>3, <1>4 DEF BitsetInv, BitsetTypeOK
<1>6. CountsAreExact'
  BY <1>1, <1>2, <1>3 DEF CountsAreExact
\* The chunk dropped had all its bits, so all its numbers were inserted.
<1>7. w[1].bits = 0 .. ChunkSize - 1
  <2>1. w[1] \in Chunk /\ w[1].count = Cardinality(w[1].bits)
    BY <1>2, <1>3
  <2>2. w[1].bits \in SUBSET (0 .. ChunkSize - 1)
    BY <2>1 DEF Chunk
  <2>3. QED
    BY <1>1, <2>1, <2>2, BitsFinite
<1>8. ASSUME NEW k \in Elem
      PROVE  contains(k)' <=> k \in inserted'
  <2> DEFINE x == chunk_index(k)
             b == k % ChunkSize
             d == k \div ChunkSize
  <2>1. contains(k) <=> k \in inserted
    BY DEF BitsetInv, ContainsExactlyInserted
  <2>2. /\ d \in Nat
        /\ b \in 0 .. ChunkSize - 1
        /\ x = d - offset
        /\ has_passed(k) <=> d < offset
        /\ has_passed(k)' <=> d < offset + 1
        /\ chunk_index(k)' = x - 1
    BY <1>1, <1>4, Division, ElemAssumption DEF has_passed, chunk_index
  <2>3. contains(k) <=> d < offset \/ (x < Len(chunks) /\ b \in chunks[x + 1].bits)
    BY <2>2 DEF contains
  <2>4. contains(k)' <=>
          d < offset + 1 \/ (x - 1 < Len(Tail(w)) /\ b \in Tail(w)[x - 1 + 1].bits)
    BY <1>1, <2>2 DEF contains
  <2>5. k = e <=> x = 0 /\ b = e % ChunkSize
    BY <1>1, SamePlace
  <2> HIDE DEF x, b, d
  <2>6. contains(k)' <=> contains(k) \/ k = e
    <3>1. CASE d < offset
      BY <1>4, <2>2, <2>3, <2>4, <3>1
    <3>2. CASE d = offset
      <4>1. x = 0
        BY <1>4, <2>2, <3>2
      <4>2. contains(k)'
        BY <1>4, <2>4, <3>2
      <4>3. 1 \in DOMAIN w
        BY <1>2, <1>3
      <4>4. b \in (IF 1 <= Len(chunks) THEN chunks[1].bits ELSE {}) \cup {e % ChunkSize}
        BY <1>2, <1>7, <2>2, <4>3
      <4>5. 0 < Len(chunks) <=> 1 <= Len(chunks)
        BY <1>4
      <4>6. QED
        BY <2>3, <2>5, <4>1, <4>2, <4>4, <4>5
    <3>3. CASE d > offset
      <4>1. x \in Nat /\ x >= 1 /\ k # e /\ x - 1 + 1 = x
        BY <1>4, <2>2, <2>5, <3>3
      <4>2. ~ (d < offset) /\ ~ (d < offset + 1)
        BY <1>4, <2>2, <3>3
      <4>3. x - 1 < Len(Tail(w)) <=> x < Len(w)
        BY <1>3, <4>1
      <4>4. CASE x < Len(w)
        <5>1. x \in 1 .. Len(w) - 1 /\ x + 1 \in DOMAIN w /\ x + 1 # 1
          BY <1>3, <4>1, <4>4
        <5>2. Tail(w)[x] = w[x + 1]
          BY <1>3, <5>1
        <5>3. w[x + 1].bits = IF x + 1 <= Len(chunks) THEN chunks[x + 1].bits ELSE {}
          BY <1>2, <5>1
        <5>4. x + 1 <= Len(chunks) <=> x < Len(chunks)
          BY <1>4, <4>1
        <5>5. QED
          BY <2>3, <2>4, <4>1, <4>2, <4>3, <4>4, <5>2, <5>3, <5>4
      <4>5. CASE ~ (x < Len(w))
        <5>1. ~ (x < Len(chunks))
          BY <1>2, <1>3, <1>4, <4>1, <4>5
        <5>2. QED
          BY <2>3, <2>4, <4>1, <4>2, <4>3, <4>5, <5>1
      <4>6. QED
        BY <4>4, <4>5
    <3>4. QED
      BY <1>4, <2>2, <3>1, <3>2, <3>3
  <2>7. QED
    BY <1>1, <2>1, <2>6
<1>9. QED
  BY <1>5, <1>6, <1>8 DEF BitsetInv, ContainsExactlyInserted

LEMMA InsertPassedPreserves ==
  ASSUME BitsetInv, NEW e \in Elem, InsertPassed(e)
  PROVE  BitsetInv'
<1>1. has_passed(e) /\ inserted' = inserted \cup {e} /\ chunks' = chunks /\ offset' = offset
  BY DEF InsertPassed
<1>2. e \in inserted
  BY <1>1 DEF BitsetInv, ContainsExactlyInserted, contains
<1>3. inserted' = inserted
  BY <1>1, <1>2
<1>4. QED
  BY <1>1, <1>3 DEF BitsetInv, BitsetTypeOK, CountsAreExact, ContainsExactlyInserted, contains,
     has_passed, chunk_index

LEMMA NewBitsetIsSound == NewBitset => BitsetInv
<1> SUFFICES ASSUME NewBitset PROVE BitsetInv
  OBVIOUS
<1>1. chunks = << >> /\ Len(chunks) = 0 /\ DOMAIN chunks = {} /\ offset = 0 /\ inserted = {}
  BY DEF NewBitset
<1>2. BitsetTypeOK /\ CountsAreExact
  BY <1>1 DEF BitsetTypeOK, CountsAreExact
<1>3. ASSUME NEW e \in Elem PROVE ~ contains(e)
  <2>1. e \div ChunkSize \in Nat
    BY Division, ElemAssumption
  <2>2. QED
    BY <1>1, <2>1 DEF contains, has_passed, chunk_index
<1>4. QED
  BY <1>1, <1>2, <1>3 DEF BitsetInv, ContainsExactlyInserted

\* The inductive invariant holds in every reachable state.
THEOREM BitsetInvariant == BitsetSpec => []BitsetInv
<1>1. BitsetInv /\ [Insert]_bitset => BitsetInv'
  <2> SUFFICES ASSUME BitsetInv, [Insert]_bitset PROVE BitsetInv'
    OBVIOUS
  <2>1. ASSUME NEW e \in Elem, InsertPassed(e) \/ InsertAndRotate(e) \/ InsertInChunk(e)
        PROVE  BitsetInv'
    BY <2>1, InsertPassedPreserves, InsertAndRotatePreserves, InsertInChunkPreserves
  <2>2. CASE UNCHANGED bitset
    BY <2>2 DEF bitset, BitsetInv, BitsetTypeOK, CountsAreExact, ContainsExactlyInserted, contains,
       has_passed, chunk_index
  <2>3. QED
    BY <2>1, <2>2 DEF Insert
<1>2. QED
  BY <1>1, NewBitsetIsSound, PTL DEF BitsetSpec

\* A rolling bitset is a set: it contains what was inserted and nothing else.
THEOREM IsASet == BitsetSpec => []ContainsExactlyInserted
<1>1. BitsetInv => ContainsExactlyInserted
  BY DEF BitsetInv
<1>2. QED
  BY <1>1, BitsetInvariant, PTL

\* The count kept with a chunk is the number of its bits.
THEOREM ExactCounts == BitsetSpec => []CountsAreExact
<1>1. BitsetInv => CountsAreExact
  BY DEF BitsetInv
<1>2. QED
  BY <1>1, BitsetInvariant, PTL

\* New numbers never drop a first chunk that is full already: it has no place
\* for them.
THEOREM FullChunksStay == BitsetSpec => FullFirstChunkStays
<1>1. BitsetInv /\ [Insert]_bitset =>
        [ (chunks # << >> /\ chunks[1].count = ChunkSize /\ inserted' # inserted)
            => offset' = offset ]_bitset
  <2> SUFFICES ASSUME BitsetInv, NEW e \in Elem, InsertAndRotate(e),
                      chunks # << >>, chunks[1].count = ChunkSize
               PROVE  inserted' = inserted
    BY DEF Insert, InsertPassed, InsertInChunk
  <2>1. ~ has_passed(e) /\ chunk_index(e) = 0 /\ inserted' = inserted \cup {e}
    BY DEF InsertAndRotate, FillsFirstChunk
  <2>2. chunks \in Seq(Chunk) /\ Len(chunks) > 0 /\ 1 \in DOMAIN chunks /\ chunks[1] \in Chunk
    BY DEF BitsetInv, BitsetTypeOK
  <2>3. chunks[1].bits \in SUBSET (0 .. ChunkSize - 1) /\ Cardinality(chunks[1].bits) = ChunkSize
    BY <2>2 DEF BitsetInv, CountsAreExact, Chunk
  <2>4. e % ChunkSize \in chunks[1].bits
    BY <2>3, BitsFinite, ContainsAt
  <2>5. contains(e)
    BY <2>1, <2>2, <2>4 DEF contains
  <2>6. QED
    BY <2>1, <2>5 DEF BitsetInv, ContainsExactlyInserted
<1>2. QED
  BY <1>1, BitsetInvariant, PTL DEF BitsetSpec, FullFirstChunkStays

-----------------------------------------------------------------------------
(***************************************************************************)
(* ConcurrentQueue.                                                        *)
(***************************************************************************)
LEMMA QueueInit == Init => IInv
<1> SUFFICES ASSUME Init PROVE IInv
  OBVIOUS
<1>1. inner \in Seq(Nat) /\ got \in Seq(Nat)
  BY DEF Init
<1>2. QED
  BY <1>1 DEF Init, IInv, TypeOK, LocksAreHeld, NoMissedNotification, Operation

\* Steps that leave the items alone, and those that move one.
LEMMA ItemsKeepTheirType ==
  ASSUME TypeOK, [Next]_vars
  PROVE  inner' \in Seq(Nat) /\ got' \in Seq(Nat) /\ pushed' \in Nat
<1>1. CASE PushBack
  BY <1>1 DEF PushBack, TypeOK
<1>2. CASE ReturnItem
  BY <1>2 DEF ReturnItem, Empty, TypeOK
<1>3. CASE UNCHANGED << inner, got, pushed >>
  BY <1>3 DEF TypeOK
<1>4. QED
  BY <1>1, <1>2, <1>3
  DEF Next, Push, Pop, BeginPush, PushLocks, notify_one, Call, PopLocks, ReturnNothing,
      Wait, WakeUp, vars

LEMMA QueueStep == IInv /\ [Next]_vars => IInv'
<1> SUFFICES ASSUME IInv, [Next]_vars PROVE IInv'
  OBVIOUS
<1>1. TypeOK /\ LocksAreHeld /\ NoMissedNotification
  BY DEF IInv
<1>2. inner' \in Seq(Nat) /\ got' \in Seq(Nat) /\ pushed' \in Nat
  BY <1>1, ItemsKeepTheirType
<1> USE DEF IInv, TypeOK, LocksAreHeld, NoMissedNotification, Operation
<1>3. CASE BeginPush
  BY <1>1, <1>2, <1>3 DEF BeginPush
<1>4. CASE PushLocks
  BY <1>1, <1>2, <1>4 DEF PushLocks
<1>5. CASE PushBack
  BY <1>1, <1>2, <1>5 DEF PushBack, ThenNotifies
<1>6. CASE notify_one
  BY <1>1, <1>2, <1>6 DEF notify_one, Woken
<1>7. ASSUME NEW op \in Operation, Call(op) PROVE IInv'
  BY <1>1, <1>2, <1>7 DEF Call
<1>8. CASE PopLocks
  BY <1>1, <1>2, <1>8 DEF PopLocks
<1>9. CASE ReturnItem \/ ReturnNothing
  BY <1>1, <1>2, <1>9 DEF ReturnItem, ReturnNothing, Returns
<1>10. CASE Wait
  BY <1>1, <1>2, <1>10 DEF Wait, Empty
<1>11. CASE WakeUp
  BY <1>1, <1>2, <1>11 DEF WakeUp
<1>12. CASE UNCHANGED vars
  BY <1>1, <1>2, <1>12 DEF vars
<1>13. QED
  BY <1>3, <1>4, <1>5, <1>6, <1>7, <1>8, <1>9, <1>10, <1>11, <1>12 DEF Next, Push, Pop

\* The inductive invariant holds in every reachable state.
THEOREM QueueInvariant == Spec => []IInv
BY QueueInit, QueueStep, PTL DEF Spec

\* No interleaving of push with a wait loses the notification.
THEOREM NotificationsArrive == Spec => []NoMissedNotification
<1>1. IInv => NoMissedNotification
  BY DEF IInv
<1>2. QED
  BY <1>1, QueueInvariant, PTL

\* The queue behaves as if each of its operations happened at one moment.
THEOREM QueueRefinement == Spec => ImplementsAtomicQueue
<1>1. Init => Abstract!Init
  BY DEF Init, Abstract!Init
<1>2. IInv /\ [Next]_vars => [Abstract!Next]_(Abstract!vars)
  <2> SUFFICES ASSUME IInv, [Next]_vars PROVE [Abstract!Next]_(Abstract!vars)
    OBVIOUS
  <2>1. CASE PushBack
    BY <2>1 DEF PushBack, Abstract!Next, Abstract!Push
  <2>2. ASSUME NEW op \in Operation, Call(op)
        PROVE  Abstract!Next
    BY <2>2 DEF Call, Operation, IInv, LocksAreHeld, Abstract!Next, Abstract!Call
  <2>3. CASE ReturnItem
    BY <2>3 DEF ReturnItem, Returns, Empty, IInv, LocksAreHeld, Abstract!Next, Abstract!ReturnItem
  <2>4. CASE ReturnNothing
    BY <2>4 DEF ReturnNothing, Returns, Empty, Abstract!Next, Abstract!ReturnNothing
  <2>5. CASE UNCHANGED << inner, pushed, call, got >>
    BY <2>5 DEF Abstract!vars
  <2>6. QED
    BY <2>1, <2>2, <2>3, <2>4, <2>5
    DEF Next, Push, Pop, BeginPush, PushLocks, notify_one, PopLocks, Wait, WakeUp, vars
<1>3. QED
  BY <1>1, <1>2, QueueInvariant, PTL DEF Spec, ImplementsAtomicQueue, Abstract!Spec

=============================================================================
