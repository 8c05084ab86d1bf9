-------------------------- MODULE RingFailuresProofs --------------------------
(***************************************************************************)
(* Theorems about the ring, for every number of hosts and every minority   *)
(* of them that stops.                                                     *)
(***************************************************************************)
EXTENDS RingFailures, WellFoundedInduction, FiniteSetTheorems, TLAPS

-----------------------------------------------------------------------------
(***************************************************************************)
(* The ring without modular arithmetic.                                    *)
(***************************************************************************)
Right(p, offset, m) == IF p + offset < m THEN p + offset ELSE p + offset - m
Left(p, offset, m)  == IF p >= offset THEN p - offset ELSE p - offset + m

\* On each side there is at least a quarter of the hosts, and at most a half.
LEMMA PerSide ==
  ASSUME NEW m \in Nat, m >= 2
  PROVE  /\ NeighborsPerSide(m) \in 1 .. m \div 2
         /\ 4 * NeighborsPerSide(m) >= m
         /\ m \div 2 <= 2 * NeighborsPerSide(m)
         /\ m > 2 => 2 * NeighborsPerSide(m) < m
BY DEF NeighborsPerSide

LEMMA Wrapped ==
  ASSUME NEW m \in Nat, m >= 2, NEW p \in 0 .. m - 1, NEW offset \in 1 .. m - 1
  PROVE  /\ (p + offset) % m = Right(p, offset, m)
         /\ (p + m - offset) % m = Left(p, offset, m)
         /\ Right(p, offset, m) \in 0 .. m - 1
         /\ Left(p, offset, m) \in 0 .. m - 1
<1>1. ASSUME NEW v \in 0 .. 2 * m - 1
      PROVE  v % m = IF v < m THEN v ELSE v - m
  OBVIOUS
<1>2. p + offset \in 0 .. 2 * m - 1 /\ p + m - offset \in 0 .. 2 * m - 1
  OBVIOUS
<1>3. (p + offset) % m = IF p + offset < m THEN p + offset ELSE p + offset - m
  BY <1>1, <1>2
<1>4. (p + m - offset) % m = IF p + m - offset < m THEN p + m - offset ELSE p - offset
  BY <1>1, <1>2
<1>5. QED
  BY <1>3, <1>4 DEF Right, Left

\* The entries of the vector: right and left neighbors by turns.
LEMMA Entries ==
  ASSUME NEW m \in Nat, m > 2, NEW p \in 0 .. m - 1
  PROVE  LET ring == create_n_connected_ring(p, m)
         IN  /\ DOMAIN ring = 1 .. 2 * NeighborsPerSide(m)
             /\ \A i \in DOMAIN ring :
                  /\ (i + 1) \div 2 \in 1 .. NeighborsPerSide(m)
                  /\ (i + 1) \div 2 \in 1 .. m - 1
                  /\ ring[i] = IF i % 2 = 1 THEN Right(p, (i + 1) \div 2, m)
                                            ELSE Left(p, (i + 1) \div 2, m)
<1> DEFINE k == NeighborsPerSide(m)
           ring == create_n_connected_ring(p, m)
<1>1. k \in Nat /\ 2 * k < m
  BY PerSide
<1>2. ring = [i \in 1 .. 2 * k |->
                LET offset == (i + 1) \div 2
                IN  IF i % 2 = 1 THEN (p + offset) % m ELSE (p + m - offset) % m]
  BY DEF create_n_connected_ring
<1> HIDE DEF k
<1>3. ASSUME NEW i \in 1 .. 2 * k
      PROVE  /\ (i + 1) \div 2 \in 1 .. k
             /\ (i + 1) \div 2 \in 1 .. m - 1
             /\ ring[i] = IF i % 2 = 1 THEN Right(p, (i + 1) \div 2, m)
                                       ELSE Left(p, (i + 1) \div 2, m)
  <2>1. (i + 1) \div 2 \in 1 .. k /\ (i + 1) \div 2 \in 1 .. m - 1
    BY <1>1
  <2>2. ring[i] = IF i % 2 = 1 THEN (p + ((i + 1) \div 2)) % m
                               ELSE (p + m - ((i + 1) \div 2)) % m
    BY <1>2
  <2>3. QED
    BY <2>1, <2>2, Wrapped
<1>4. QED
  BY <1>2, <1>3 DEF k

\* Neighbors are the hosts at most NeighborsPerSide away, and these only.
LEMMA NeighborIff ==
  ASSUME NEW m \in Nat, m >= 2, NEW p \in 0 .. m - 1, NEW q
  PROVE  q \in Neighbors(p, m) <=>
           \E offset \in 1 .. NeighborsPerSide(m) :
             q = Right(p, offset, m) \/ q = Left(p, offset, m)
<1> DEFINE k == NeighborsPerSide(m)
           ring == create_n_connected_ring(p, m)
<1>1. CASE m = 2
  <2>1. k = 1 /\ ring = << 1 - p >>
    BY <1>1 DEF NeighborsPerSide, create_n_connected_ring
  <2>2. Neighbors(p, m) = { 1 - p }
    BY <2>1 DEF Neighbors
  <2>3. Right(p, 1, m) = 1 - p /\ Left(p, 1, m) = 1 - p
    BY <1>1 DEF Right, Left
  <2>4. QED
    BY <2>1, <2>2, <2>3
<1>2. CASE m > 2
  <2>1. k \in Nat
    BY PerSide
  <2>2. /\ DOMAIN ring = 1 .. 2 * k
        /\ \A i \in 1 .. 2 * k :
             /\ (i + 1) \div 2 \in 1 .. k
             /\ ring[i] = IF i % 2 = 1 THEN Right(p, (i + 1) \div 2, m)
                                       ELSE Left(p, (i + 1) \div 2, m)
    BY <1>2, Entries
  <2> HIDE DEF k, ring
  <2>3. ASSUME NEW offset \in 1 .. k
        PROVE  /\ 2 * offset - 1 \in 1 .. 2 * k /\ ring[2 * offset - 1] = Right(p, offset, m)
               /\ 2 * offset \in 1 .. 2 * k /\ ring[2 * offset] = Left(p, offset, m)
    <3>1. /\ 2 * offset - 1 \in 1 .. 2 * k /\ 2 * offset \in 1 .. 2 * k
          /\ (2 * offset - 1) % 2 = 1 /\ (2 * offset) % 2 = 0
          /\ ((2 * offset - 1) + 1) \div 2 = offset /\ (2 * offset + 1) \div 2 = offset
      BY <2>1
    <3>2. QED
      BY <2>2, <3>1
  <2>4. q \in Neighbors(p, m) <=> \E i \in 1 .. 2 * k : q = ring[i]
    BY <2>2 DEF Neighbors, ring
  <2>5. QED
    BY <2>2, <2>3, <2>4 DEF k
<1>3. QED
  BY <1>1, <1>2

LEMMA CloseIsLinked ==
  ASSUME NEW m \in Nat, m >= 2, NEW p \in 0 .. m - 1, NEW q \in 0 .. m - 1,
         NEW offset \in 1 .. NeighborsPerSide(m),
         q = p + offset \/ q = p + offset - m
  PROVE  q \in Neighbors(p, m) /\ p \in Neighbors(q, m)
<1>1. NeighborsPerSide(m) \in Nat /\ offset \in Nat
  BY PerSide
<1>2. q = Right(p, offset, m) /\ p = Left(q, offset, m)
  BY <1>1 DEF Right, Left
<1>3. QED
  BY <1>2, NeighborIff

-----------------------------------------------------------------------------
(***************************************************************************)
(* The hosts that have stopped are a minority.                             *)
(***************************************************************************)
Minority ==
  /\ n \in Nat /\ n >= 2
  /\ crashed \subseteq Host
  /\ IsFiniteSet(crashed)
  /\ 2 * Cardinality(crashed) < n

THEOREM MinorityCrashes == Spec => []Minority
<1>1. Init => Minority
  BY MaxHostsAssumption, FS_EmptySet DEF Init, Minority
<1>2. Minority /\ [Next]_vars => Minority'
  <2> SUFFICES ASSUME Minority, [Next]_vars PROVE Minority'
    OBVIOUS
  <2>1. ASSUME NEW p \in Host, Crash(p) PROVE Minority'
    <3>1. /\ p \notin crashed /\ 2 * (Cardinality(crashed) + 1) < n
          /\ crashed' = crashed \cup {p} /\ n' = n
      BY <2>1 DEF Crash
    <3>2. IsFiniteSet(crashed') /\ Cardinality(crashed') = Cardinality(crashed) + 1
      BY <3>1, FS_AddElement DEF Minority
    <3>3. crashed' \subseteq Host'
      BY <2>1, <3>1 DEF Minority, Host
    <3>4. QED
      BY <3>1, <3>2, <3>3 DEF Minority
  <2>2. CASE UNCHANGED vars
    BY <2>2 DEF vars, Minority, Host
  <2>3. QED
    BY <2>1, <2>2 DEF Next
<1>3. QED
  BY <1>1, <1>2, PTL DEF Spec

-----------------------------------------------------------------------------
(***************************************************************************)
(* The ring itself.                                                        *)
(***************************************************************************)
\* No host lists itself, a host twice, or anything but hosts.
LEMMA DistinctOthers ==
  ASSUME NEW m \in Nat, m >= 2, NEW p \in 0 .. m - 1
  PROVE  LET ring == create_n_connected_ring(p, m)
         IN  /\ Neighbors(p, m) \subseteq (0 .. m - 1) \ {p}
             /\ \A i, j \in DOMAIN ring : ring[i] = ring[j] => i = j
<1> DEFINE ring == create_n_connected_ring(p, m)
<1>1. ASSUME NEW q \in Neighbors(p, m) PROVE q \in (0 .. m - 1) \ {p}
  <2>1. PICK offset \in 1 .. NeighborsPerSide(m) :
          q = Right(p, offset, m) \/ q = Left(p, offset, m)
    BY <1>1, NeighborIff
  <2>2. offset \in 1 .. m - 1
    BY PerSide
  <2>3. QED
    BY <2>1, <2>2 DEF Right, Left
<1>2. ASSUME NEW i \in DOMAIN ring, NEW j \in DOMAIN ring, ring[i] = ring[j] PROVE i = j
  <2>1. CASE m = 2
    <3>1. ring = << 1 - p >>
      BY <2>1 DEF create_n_connected_ring
    <3>2. QED
      BY <1>2, <3>1
  <2>2. CASE m > 2
    <3> DEFINE k == NeighborsPerSide(m)
               a == (i + 1) \div 2
               b == (j + 1) \div 2
    <3>1. k \in Nat /\ 2 * k < m
      BY <2>2, PerSide
    <3>2. /\ i \in 1 .. 2 * k /\ j \in 1 .. 2 * k /\ a \in 1 .. k /\ b \in 1 .. k
          /\ ring[i] = IF i % 2 = 1 THEN Right(p, a, m) ELSE Left(p, a, m)
          /\ ring[j] = IF j % 2 = 1 THEN Right(p, b, m) ELSE Left(p, b, m)
      BY <1>2, <2>2, Entries
    <3>3. i \in Nat /\ j \in Nat
      BY <3>1, <3>2
    <3>4. a = b /\ i % 2 = j % 2 => i = j
      BY <3>3
    <3>5. i % 2 \in {0, 1} /\ j % 2 \in {0, 1}
      BY <3>3
    <3> HIDE DEF k, a, b, ring
    <3>6. /\ Right(p, a, m) = Right(p, b, m) => a = b
          /\ Left(p, a, m) = Left(p, b, m) => a = b
          /\ Right(p, a, m) # Left(p, b, m)
          /\ Left(p, a, m) # Right(p, b, m)
      BY <3>1, <3>2 DEF Right, Left
    <3>7. QED
      BY <1>2, <3>2, <3>4, <3>5, <3>6
  <2>3. QED
    BY <2>1, <2>2
<1>3. QED
  BY <1>1, <1>2

\* Who is sent to sends back: acknowledgements come the way of the message.
LEMMA MutualLinks ==
  ASSUME NEW m \in Nat, m >= 2, NEW p \in 0 .. m - 1, NEW q \in Neighbors(p, m)
  PROVE  p \in Neighbors(q, m)
<1>1. q \in 0 .. m - 1
  BY DistinctOthers
<1>2. PICK offset \in 1 .. NeighborsPerSide(m) :
        q = Right(p, offset, m) \/ q = Left(p, offset, m)
  BY <1>1, NeighborIff
<1>3. offset \in 1 .. m - 1
  BY <1>1, PerSide
<1>4. p = Left(q, offset, m) \/ p = Right(q, offset, m)
  BY <1>1, <1>2, <1>3 DEF Right, Left
<1>5. QED
  BY <1>1, <1>4, NeighborIff

\* Other hosts, each once, and acknowledgements come the way of the message.
THEOREM WellFormed == Spec => []RingIsWellFormed
<1>1. Minority => RingIsWellFormed
  <2> SUFFICES ASSUME Minority, NEW p \in Host
               PROVE  LET ring == create_n_connected_ring(p, n)
                      IN  /\ Neighbors(p, n) \subseteq Host \ {p}
                          /\ \A i, j \in DOMAIN ring : ring[i] = ring[j] => i = j
                          /\ \A q \in Neighbors(p, n) : p \in Neighbors(q, n)
    BY DEF RingIsWellFormed
  <2>1. n \in Nat /\ n >= 2 /\ p \in 0 .. n - 1 /\ Host = 0 .. n - 1
    BY DEF Minority, Host
  <2>2. QED
    BY <2>1, DistinctOthers, MutualLinks
<1>2. QED
  BY <1>1, MinorityCrashes, PTL

\* Counted from the leftmost neighbor on, more than half of the hosts in a row
\* are a host's neighbors or itself.
THEOREM QuorumAround == Spec => []NeighborsMakeQuorum
<1>1. Minority => NeighborsMakeQuorum
  <2> SUFFICES ASSUME Minority, NEW p \in Host
               PROVE  Cardinality(Neighbors(p, n) \cup {p}) > n \div 2
    BY DEF NeighborsMakeQuorum
  <2> DEFINE k == NeighborsPerSide(n)
             half == n \div 2
             Row == p - k .. p - k + half
             Wrap(i) == IF i < 0 THEN i + n ELSE IF i < n THEN i ELSE i - n
             Q == Neighbors(p, n) \cup {p}
             f == [i \in Row |-> Wrap(i)]
  <2>1. n \in Nat /\ n >= 2 /\ p \in 0 .. n - 1
    BY DEF Minority, Host
  <2>2. k \in 1 .. half /\ half \in 1 .. n - 1 /\ half <= 2 * k
    BY <2>1, PerSide
  <2>3. IsFiniteSet(Row) /\ Cardinality(Row) = half + 1
    <3>1. /\ p - k \in Int /\ p - k + half \in Int /\ ~ (p - k > p - k + half)
          /\ (p - k + half) - (p - k) + 1 = half + 1
      BY <2>1, <2>2
    <3> HIDE DEF k, half
    <3>2. QED
      BY <3>1, FS_Interval
  <2>4. ASSUME NEW i \in Row PROVE Wrap(i) \in Q
    <3>1. i \in Int /\ p - k <= i /\ i <= p + k
      BY <2>1, <2>2
    <3>2. CASE i = p
      BY <2>1, <3>2
    <3>3. CASE i < p
      <4>1. p - i \in 1 .. k /\ Wrap(i) = Left(p, p - i, n)
        BY <2>1, <2>2, <3>1, <3>3 DEF Left
      <4>2. QED
        BY <2>1, <4>1, NeighborIff
    <3>4. CASE i > p
      <4>1. i - p \in 1 .. k /\ Wrap(i) = Right(p, i - p, n)
        BY <2>1, <2>2, <3>1, <3>4 DEF Right
      <4>2. QED
        BY <2>1, <4>1, NeighborIff
    <3>5. QED
      BY <2>1, <3>1, <3>2, <3>3, <3>4
  <2>5. \A i, j \in Row : Wrap(i) = Wrap(j) => i = j
    BY <2>1, <2>2
  <2>6. f \in Injection(Row, Q)
    BY <2>4, <2>5 DEF Injection, IsInjective
  <2>7. IsFiniteSet(Q)
    <3>1. Q \subseteq 0 .. n - 1
      <4> SUFFICES ASSUME NEW q \in Neighbors(p, n) PROVE q \in 0 .. n - 1
        BY <2>1
      <4>1. PICK offset \in 1 .. k : q = Right(p, offset, n) \/ q = Left(p, offset, n)
        BY <2>1, NeighborIff
      <4>2. QED
        BY <2>1, <2>2, <4>1 DEF Right, Left
    <3>2. IsFiniteSet(0 .. n - 1)
      BY <2>1, FS_Interval
    <3>3. QED
      BY <3>1, <3>2, FS_Subset
  <2> HIDE DEF f, Row, Q
  <2>8. Cardinality(Row) <= Cardinality(Q)
    BY <2>6, <2>7, FS_Injection
  <2>9. Cardinality(Q) \in Nat
    BY <2>7, FS_CardinalityType
  <2>10. QED
    BY <2>2, <2>3, <2>8, <2>9 DEF Q
<1>2. QED
  BY <1>1, MinorityCrashes, PTL

-----------------------------------------------------------------------------
(***************************************************************************)
(* Cutting the ring takes half of the hosts: a part of it that no running  *)
(* neighbor leads out of ends at two gaps, of at least NeighborsPerSide    *)
(* stopped hosts each.                                                     *)
(***************************************************************************)
LEMMA LeastInteger ==
  ASSUME NEW lo \in Int, NEW T \in SUBSET Int, T # {}, \A i \in T : lo <= i
  PROVE  \E x \in T : \A y \in T : x <= y
<1> DEFINE D == { i - lo : i \in T }
<1>1. D \in SUBSET Nat /\ D # {}
  <2>1. \A i \in T : i - lo \in Nat
    OBVIOUS
  <2>2. QED
    BY <2>1
<1>2. PICK d \in D : \A e \in D : ~ (<< e, d >> \in OpToRel(<, Nat))
  BY <1>1, NatLessThanWellFounded, WFMin
<1>3. \A e \in D : ~ (e < d)
  BY <1>1, <1>2 DEF OpToRel
<1>4. PICK x \in T : d = x - lo
  BY <1>2
<1>5. \A y \in T : ~ (y - lo < x - lo)
  BY <1>3, <1>4
<1>6. QED
  BY <1>5

\* In a row of integers, a P and a later Q with neither of them in between.
HasGap(lo, hi, P, Q) ==
  \E x, y \in lo .. hi :
    /\ x < y /\ x \in P /\ y \in Q
    /\ \A i \in x + 1 .. y - 1 : i \notin P /\ i \notin Q

LEMMA Gap ==
  ASSUME NEW lo \in Int, NEW hi \in Int, lo < hi, NEW P, NEW Q,
         lo \in P, hi \in Q, \A i \in P : i \notin Q
  PROVE  HasGap(lo, hi, P, Q)
<1> DEFINE LastP == { hi - i : i \in (lo .. hi) \cap P }
<1>1. PICK d \in LastP : \A e \in LastP : d <= e
  <2>1. LastP \in SUBSET Int /\ LastP # {} /\ \A e \in LastP : 0 <= e
    OBVIOUS
  <2> HIDE DEF LastP
  <2>2. QED
    BY <2>1, LeastInteger
<1>2. PICK x \in (lo .. hi) \cap P : d = hi - x
  BY <1>1
<1>3. \A i \in (lo .. hi) \cap P : i <= x
  <2> TAKE i \in (lo .. hi) \cap P
  <2>1. hi - i \in LastP
    OBVIOUS
  <2>2. hi - x <= hi - i
    BY <1>1, <1>2, <2>1
  <2>3. QED
    BY <2>2
<1>4. x < hi
  BY <1>2
<1> DEFINE NextQ == (x + 1 .. hi) \cap Q
<1>5. PICK y \in NextQ : \A e \in NextQ : y <= e
  <2>1. NextQ \in SUBSET Int /\ NextQ # {} /\ x + 1 \in Int /\ \A e \in NextQ : x + 1 <= e
    BY <1>2, <1>4
  <2> HIDE DEF NextQ
  <2>2. QED
    BY <2>1, LeastInteger
<1>6. \A i \in x + 1 .. y - 1 : i \notin P /\ i \notin Q
  BY <1>2, <1>3, <1>5
<1>7. QED
  BY <1>2, <1>5, <1>6 DEF HasGap

\* The host at position i, counted on around the ring.
At(i) == IF i < n THEN i ELSE i - n

LEMMA GapIsWide ==
  ASSUME Minority, NEW x \in 0 .. 2 * n - 1, NEW y \in 0 .. 2 * n - 1, x < y,
         At(x) \notin Neighbors(At(y), n), At(y) \notin Neighbors(At(x), n)
  PROVE  y - x > NeighborsPerSide(n)
<1>1. n \in Nat /\ n >= 2
  BY DEF Minority
<1> DEFINE k == NeighborsPerSide(n)
<1>2. k \in Nat /\ k < n
  BY <1>1, PerSide
<1>3. At(x) \in 0 .. n - 1 /\ At(y) \in 0 .. n - 1
  BY <1>1 DEF At
<1> HIDE DEF k
<1>4. ASSUME y - x <= k PROVE FALSE
  <2>1. /\ y - x \in 1 .. k
        /\ At(y) = At(x) + (y - x) \/ At(y) = At(x) + (y - x) - n
    BY <1>1, <1>2, <1>4 DEF At
  <2>2. QED
    BY <1>1, <1>3, <2>1, CloseIsLinked DEF k
<1>5. QED
  BY <1>1, <1>2, <1>4 DEF k

LEMMA PartsAreLinked ==
  ASSUME Minority, NEW S, NEW T, S \cup T = Running, S \cap T = {},
         \A p \in S, q \in T : q \notin Neighbors(p, n) /\ p \notin Neighbors(q, n),
         NEW a \in S, NEW b \in T, a < b
  PROVE  FALSE
<1> DEFINE k == NeighborsPerSide(n)
           SS == { i \in a .. a + n : At(i) \in S }
           TT == { i \in a .. a + n : At(i) \in T }
<1>1. /\ n \in Nat /\ n >= 2 /\ Host = 0 .. n - 1
      /\ a \in 0 .. n - 1 /\ b \in 0 .. n - 1
      /\ IsFiniteSet(crashed) /\ 2 * Cardinality(crashed) < n
  BY DEF Minority, Host, Running
<1>2. k \in Nat /\ 4 * k >= n
  BY <1>1, PerSide
<1>3. SS \cap TT = {} /\ a \in SS /\ a + n \in SS /\ b \in TT
  BY <1>1 DEF At
<1>4. \A i \in a .. a + n : At(i) \in Host /\ (At(i) \notin crashed => i \in SS \/ i \in TT)
  <2> TAKE i \in a .. a + n
  <2>1. At(i) \in Host
    BY <1>1 DEF At
  <2>2. QED
    BY <2>1 DEF Running
<1>5. ASSUME NEW x \in a .. a + n, NEW y \in a .. a + n, x < y,
             (x \in SS /\ y \in TT) \/ (x \in TT /\ y \in SS)
      PROVE  y - x > k
  <2>1. x \in 0 .. 2 * n - 1 /\ y \in 0 .. 2 * n - 1
    BY <1>1
  <2>2. At(x) \notin Neighbors(At(y), n) /\ At(y) \notin Neighbors(At(x), n)
    BY <1>5
  <2>3. QED
    BY <1>5, <2>1, <2>2, GapIsWide
<1> HIDE DEF k, SS, TT
<1>6. PICK x1, y1 \in a .. b :
        /\ x1 < y1 /\ x1 \in SS /\ y1 \in TT
        /\ \A i \in x1 + 1 .. y1 - 1 : i \notin SS /\ i \notin TT
  <2>1. a \in Int /\ b \in Int /\ \A i \in SS : i \notin TT
    BY <1>1, <1>3
  <2>2. HasGap(a, b, SS, TT)
    BY <1>3, <2>1, Gap
  <2>3. QED
    BY <2>2 DEF HasGap
<1>7. PICK x2, y2 \in b .. a + n :
        /\ x2 < y2 /\ x2 \in TT /\ y2 \in SS
        /\ \A i \in x2 + 1 .. y2 - 1 : i \notin TT /\ i \notin SS
  <2>1. b \in Int /\ a + n \in Int /\ b < a + n /\ \A i \in TT : i \notin SS
    BY <1>1, <1>3
  <2>2. HasGap(b, a + n, TT, SS)
    BY <1>3, <2>1, Gap
  <2>3. QED
    BY <2>2 DEF HasGap
<1>8. y1 - x1 > k /\ y2 - x2 > k
  <2>1. x1 \in a .. a + n /\ y1 \in a .. a + n /\ x2 \in a .. a + n /\ y2 \in a .. a + n
    BY <1>1
  <2>2. QED
    BY <1>5, <1>6, <1>7, <2>1
<1> DEFINE G1 == x1 + 1 .. y1 - 1
           G2 == x2 + 1 .. y2 - 1
           D == G1 \cup G2
           f == [i \in D |-> At(i)]
<1>9. /\ IsFiniteSet(G1) /\ Cardinality(G1) = y1 - x1 - 1
      /\ IsFiniteSet(G2) /\ Cardinality(G2) = y2 - x2 - 1
      /\ G1 \cap G2 = {}
  <2>1. /\ x1 + 1 \in Int /\ y1 - 1 \in Int /\ x2 + 1 \in Int /\ y2 - 1 \in Int
        /\ y1 <= x2
        /\ (y1 - 1) - (x1 + 1) + 1 = y1 - x1 - 1 /\ (y2 - 1) - (x2 + 1) + 1 = y2 - x2 - 1
        /\ x1 + 1 > y1 - 1 => y1 - x1 - 1 = 0
        /\ x2 + 1 > y2 - 1 => y2 - x2 - 1 = 0
    BY <1>1, <1>6, <1>7
  <2>2. G1 \cap G2 = {}
    BY <1>1, <2>1
  <2>3. /\ IsFiniteSet(G1) /\ Cardinality(G1) = y1 - x1 - 1
        /\ IsFiniteSet(G2) /\ Cardinality(G2) = y2 - x2 - 1
    BY <2>1, FS_Interval
  <2>4. QED
    BY <2>2, <2>3
<1>10. D \subseteq a + 1 .. a + n - 1
  BY <1>1, <1>6, <1>7
<1>11. \A i \in D : At(i) \in crashed
  <2> TAKE i \in D
  <2>1. i \notin SS /\ i \notin TT
    BY <1>6, <1>7
  <2>2. i \in a .. a + n
    BY <1>1, <1>10
  <2>3. QED
    BY <1>4, <2>1, <2>2
<1>12. f \in Injection(D, crashed)
  <2>1. \A i, j \in a + 1 .. a + n - 1 : At(i) = At(j) => i = j
    BY <1>1 DEF At
  <2>2. QED
    BY <1>10, <1>11, <2>1 DEF Injection, IsInjective
<1> HIDE DEF f, D
<1>13. Cardinality(D) <= Cardinality(crashed)
  BY <1>1, <1>12, FS_Injection
<1>14. Cardinality(D) = (y1 - x1 - 1) + (y2 - x2 - 1)
  <2> HIDE DEF G1, G2
  <2>1. Cardinality(D) = Cardinality(G1) + Cardinality(G2) - Cardinality({})
    BY <1>9, FS_Union DEF D
  <2>2. QED
    BY <1>9, <2>1, FS_EmptySet
<1>15. Cardinality(crashed) \in Nat
  BY <1>1, FS_CardinalityType
<1>16. QED
  BY <1>1, <1>2, <1>8, <1>13, <1>14, <1>15

LEMMA StaysConnected == Minority => RunningHostsStayConnected
<1> SUFFICES ASSUME Minority, NEW S \in SUBSET Running, Closed(S), S # {}, S # Running
             PROVE  FALSE
  BY DEF RunningHostsStayConnected
<1> DEFINE T == Running \ S
<1>1. Host = 0 .. n - 1 /\ Running \subseteq Host /\ n \in Nat
  BY DEF Minority, Host, Running
<1>2. S \cup T = Running /\ T \cup S = Running /\ S \cap T = {} /\ T \cap S = {}
  OBVIOUS
<1>3. ASSUME NEW p \in S, NEW q \in T
      PROVE  q \notin Neighbors(p, n) /\ p \notin Neighbors(q, n)
  <2>1. q \notin Neighbors(p, n)
    BY DEF Closed, Reach
  <2>2. QED
    BY <1>1, <2>1, MutualLinks
<1>4. PICK a \in S, b \in T : TRUE
  OBVIOUS
<1>5. a < b \/ b < a
  BY <1>1
<1> HIDE DEF T
<1>6. QED
  BY <1>2, <1>3, <1>5, PartsAreLinked

\* However large the ring and whichever minority of it has stopped, the relays
\* of the others lead from each of them to all of them.
THEOREM Connected == Spec => []RunningHostsStayConnected
BY StaysConnected, MinorityCrashes, PTL

=============================================================================
