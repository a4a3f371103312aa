------------------------------ MODULE MC_Config -----------------------------
(* Config on small instances. *)
EXTENDS Config

Line(indent, key, value) == [indent |-> indent, key |-> key, value |-> value]

SomeLines ==
  { Line(0, "server", "server"),
    Line(1, "port", 80), Line(1, "port", 0), Line(1, "name", "one"),
    Line(1, "root", "www"), Line(2, "root", "pub"), Line(2, "size", 7), Line(1, "size", 9),
    Line(1, "page", <<404, "own">>), Line(2, "page", <<500, "own">>),
    Line(1, "location", "/"), Line(1, "location", "/a"), Line(2, "location", Empty),
    Line(2, "autoindex", "on"), Line(1, "junk", "junk"),
    Line(2, "root", Empty) }
=============================================================================
