---------------------------- MODULE MC_Listeners ----------------------------
(* Listeners on small instances. *)
EXTENDS Listeners
=============================================================================
