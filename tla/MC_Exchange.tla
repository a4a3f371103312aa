----------------------------- MODULE MC_Exchange -----------------------------
(* Exchange on a small instance. *)
EXTENDS Exchange
=============================================================================
