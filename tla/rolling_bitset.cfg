\* All insertion orders of twelve numbers, repetitions included.
SPECIFICATION BitsetSpec
CONSTANTS
  ChunkSize = 3
  Elem <- Numbers
INVARIANTS
  ContainsExactlyInserted
PROPERTIES
  FullFirstChunkStays
CHECK_DEADLOCK FALSE
