--------------------------- MODULE MC_CgiHandOff ----------------------------
(* CgiHandOff on small instances. *)
EXTENDS CgiHandOff

Header == <<"status", "type", "blank">>

\* With and without a body, one that does not fit in the first read, one without
\* a line end; no output, an unfinished header, no Status:, bare line feeds.
SomeOutputs ==
  { Header, Header \o <<"part">>, Header \o <<"text", "part">>,
    Header \o <<"text", "text", "text", "text">>,
    << >>, <<"status", "type">>, <<"type", "blank", "text">>,
    <<"status", "type", "bare", "text", "text">>,
    <<"bare", "status", "type", "blank", "text">> }
=============================================================================
