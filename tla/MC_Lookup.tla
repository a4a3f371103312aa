------------------------------ MODULE MC_Lookup -----------------------------
(* Lookup on small instances. *)
EXTENDS Lookup

\* All URIs of at most four characters, the empty one and those without a slash too.
ShortUris == UNION {[1..n -> {"/", "a"}] : n \in 0..4}
\* Without a location "/", with one, and with identifiers that are no paths.
SmallConfigurations ==
  { {}, {<<"/", "a">>, <<"/", "a", "/", "a">>}, {<<"/">>, <<"/", "a", "/">>, <<"a">>} }
=============================================================================
