---------------------------- MODULE RollingBitset ----------------------------
(***************************************************************************)
(* rolling-set.cpp: a set of numbers kept as a queue of bitsets of         *)
(* ChunkSize bits.  When the first chunk is full it is dropped, and its    *)
(* numbers are from then on known to be in the set by their size alone.    *)
(* The links keep the sequence numbers they have delivered in it, uniform  *)
(* broadcast the messages it has pending and delivered.                    *)
(***************************************************************************)
EXTENDS Integers, Sequences, FiniteSets

CONSTANTS
  ChunkSize,  \* CHUNK_SIZE, 512 in the code
  Elem        \* bound: the numbers that get inserted

ASSUME ChunkSizeAssumption == ChunkSize \in Nat /\ ChunkSize > 0
ASSUME ElemAssumption == Elem \subseteq Nat

VARIABLES
  offset,   \* number of chunks dropped
  chunks,   \* the chunks kept, in order
  inserted  \* history: the numbers insert was called with

bitset == << offset, chunks, inserted >>

Chunk == [bits : SUBSET (0 .. ChunkSize - 1), count : Nat]

EmptyChunk == [bits |-> {}, count |-> 0]

\* Chunk::set.
Set(chunk, bit) ==
  [bits  |-> chunk.bits \cup {bit},
   count |-> IF bit \in chunk.bits THEN chunk.count ELSE chunk.count + 1]

has_passed(e) == e \div ChunkSize < offset

\* Index in a queue that begins at 0, as in the code.
chunk_index(e) == e \div ChunkSize - offset

contains(e) ==
  \/ has_passed(e)
  \/ /\ chunk_index(e) < Len(chunks)
     /\ e % ChunkSize \in chunks[chunk_index(e) + 1].bits

\* The queue after as many emplace_back as it takes to have index i.
Grown(i) ==
  [j \in 1 .. (IF i < Len(chunks) THEN Len(chunks) ELSE i + 1) |->
     IF j <= Len(chunks) THEN chunks[j] ELSE EmptyChunk]

\* The queue with the bit of e set in its chunk.
WithBit(e) ==
  [Grown(chunk_index(e)) EXCEPT ![chunk_index(e) + 1] = Set(@, e % ChunkSize)]

-----------------------------------------------------------------------------
NewBitset ==
  /\ offset = 0
  /\ chunks = << >>
  /\ inserted = {}

\* insert, in its three cases: the number is known already, ...
InsertPassed(e) ==
  /\ has_passed(e)
  /\ inserted' = inserted \cup {e}
  /\ UNCHANGED << offset, chunks >>

\* Slip: any chunk that is full makes the first one go.
FillsAnyChunk(e) ==
  WithBit(e)[chunk_index(e) + 1].count = ChunkSize

\* ... or it is the last one the first chunk lacks, ...
FillsFirstChunk(e) ==
  chunk_index(e) = 0 /\ WithBit(e)[1].count = ChunkSize

InsertAndRotate(e) ==
  /\ ~ has_passed(e)
  /\ FillsFirstChunk(e)
  /\ chunks' = Tail(WithBit(e))
  /\ offset' = offset + 1
  /\ inserted' = inserted \cup {e}

\* ... or neither.
InsertInChunk(e) ==
  /\ ~ has_passed(e)
  /\ ~ FillsFirstChunk(e)
  /\ chunks' = WithBit(e)
  /\ inserted' = inserted \cup {e}
  /\ UNCHANGED offset

Insert ==
  \E e \in Elem : InsertPassed(e) \/ InsertAndRotate(e) \/ InsertInChunk(e)

BitsetSpec == NewBitset /\ [][Insert]_bitset

-----------------------------------------------------------------------------
BitsetTypeOK ==
  /\ offset \in Nat
  /\ chunks \in Seq(Chunk)
  /\ inserted \subseteq Elem

\* count is what it says: the code never counts the bits again.
CountsAreExact ==
  \A i \in DOMAIN chunks : chunks[i].count = Cardinality(chunks[i].bits)

\* It is a set: contains answers true for the numbers inserted and for no
\* other, through any insertion order and any number of dropped chunks.
ContainsExactlyInserted ==
  \A e \in Elem : contains(e) <=> e \in inserted

\* A chunk that was full before it came to the front is not dropped by the
\* numbers that are new, however many come: only the one that completes the
\* first chunk drops it, and one number drops one chunk.
FullFirstChunkStays ==
  [][ (chunks # << >> /\ chunks[1].count = ChunkSize /\ inserted' # inserted)
        => offset' = offset ]_bitset

BitsetInv == BitsetTypeOK /\ CountsAreExact /\ ContainsExactlyInserted

=============================================================================
