----------------------------- MODULE MC_Transfer ----------------------------
(* Transfer on small instances. *)
EXTENDS Transfer
=============================================================================
