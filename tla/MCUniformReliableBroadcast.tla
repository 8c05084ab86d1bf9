---------------------- MODULE MCUniformReliableBroadcast ----------------------
(***************************************************************************)
(* Instances of UniformReliableBroadcast for TLC.                          *)
(***************************************************************************)
EXTENDS UniformReliableBroadcast

\* Two processes broadcast, so their messages cross.
TwoOriginators == {0, 1}

\* One process broadcasts; by the symmetry of the ring it may be any of them.
OneOriginator == {0}

=============================================================================
