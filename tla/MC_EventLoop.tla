---------------------------- MODULE MC_EventLoop ----------------------------
(***************************************************************************)
(* EventLoop on small instances.  Connections are interchangeable;         *)
(* descriptors are not, the lowest free one is always taken.               *)
(***************************************************************************)
EXTENDS ConnectionMap, TLC

Symmetry == Permutations(Conns)
=============================================================================
