--------------------------- MODULE MC_FileManager ---------------------------
(* FileManager on small instances. *)
EXTENDS FileManager

SmallBodies == { <<"x", "x">> }
Old == <<"o", "o", "o">>

\* Connections are interchangeable, and no liveness is checked.
Interchangeable == Permutations(Conns)
=============================================================================
