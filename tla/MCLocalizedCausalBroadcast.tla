---------------------- MODULE MCLocalizedCausalBroadcast ----------------------
(***************************************************************************)
(* Instances of LocalizedCausalBroadcast for TLC.                          *)
(***************************************************************************)
EXTENDS LocalizedCausalBroadcast, TLC

\* Three hosts.  0 is affected by 1 and 1 by 2: what 0 broadcasts may depend on
\* messages of 2, which 0 does not list.  1 lists both others, and not in the
\* order of their numbers.
Chain == 0 :> << 1 >> @@ 1 :> << 2, 0 >> @@ 2 :> << >>

\* 2 broadcasts twice, so that its messages queue up at the others.
Uneven == 0 :> 1 @@ 1 :> 1 @@ 2 :> 2

\* 0 is handed all messages and 1 all but one, in every order; 2, which nobody
\* affects, is not looked at as a receiver.
Listeners == 0 :> 4 @@ 1 :> 3 @@ 2 :> 0

=============================================================================
