--------------------------- MODULE MCRollingBitset ---------------------------
(***************************************************************************)
(* RollingBitset with small chunks, four of them.                          *)
(***************************************************************************)
EXTENDS RollingBitset

Numbers == 0 .. 4 * ChunkSize - 1

=============================================================================
