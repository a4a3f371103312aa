--------------------------- MODULE MC_HttpRequest ---------------------------
(***************************************************************************)
(* HttpRequest on a set of requests built from lines and chunks.           *)
(***************************************************************************)
EXTENDS HttpRequest

MCLengthOf == [CL0 |-> 0, CL1 |-> 1, CL2 |-> 2, CL3 |-> 3, CLMinus1 |-> -1]
MCSizeOf ==
  ("0" :> 0) @@ ("1" :> 1) @@ ("2" :> 2) @@ ("3" :> 3)
    @@ ("-1" :> -1) @@ ("-3" :> -3) @@ ("-4" :> -4) @@ ("-5" :> -5)
    @@ ("huge" :> 100) @@ ("max" :> LongLimit - 1) @@ ("min" :> -LongLimit)

Line(symbol) == <<symbol, "CR", "LF">>
Lines(symbols) == FlattenSeq([i \in 1..Len(symbols) |-> Line(symbols[i])])
Header(symbols) == Lines(symbols) \o <<"CR", "LF">>

SizeDigit == <<"1", "2", "3">>
DataChunk(data) == Line(SizeDigit[Len(data)]) \o data \o <<"CR", "LF">>
Chunks(pieces) == FlattenSeq([i \in 1..Len(pieces) |-> DataChunk(pieces[i])])
Starts(symbols, pieces) ==
  [k \in 1..(Len(pieces) + 1) |-> Len(Header(symbols)) + Len(Chunks(SubSeq(pieces, 1, k - 1))) + 1]

ByLengthOf(symbols, data) ==
  [bytes |-> Header(symbols) \o data, payload |-> data, lines |-> Len(symbols), starts |-> << >>]
ByChunksOf(symbols, pieces, rest, payload) ==
  [bytes |-> Header(symbols) \o Chunks(pieces) \o rest, payload |-> payload,
   lines |-> Len(symbols), starts |-> Starts(symbols, pieces)]
LastChunk == Line("0") \o <<"CR", "LF">>

\* Data that looks like the framing around it, and data that does not.
Pieces == {<<"d">>, <<"0">>, <<"CR", "LF">>, <<"0", "CR", "LF">>, <<"LF", "d">>}

NoBody == {ByLengthOf(<<m, "FIELD">>, << >>) : m \in {"GET", "DELETE"}}
            \cup {ByLengthOf(<<"PUT", "CL0">>, << >>)}
WithLength == {ByLengthOf(<<"POST", <<"CL1", "CL2", "CL3">>[Len(d)]>>, d) : d \in Pieces}
WithChunks ==
  {ByChunksOf(<<"POST", "CHUNKED">>, << >>, LastChunk, << >>)}
    \cup {ByChunksOf(<<"PUT", "CHUNKED">>, <<d>>, LastChunk, d) : d \in Pieces}
    \cup {ByChunksOf(<<"POST", "CHUNKED">>, <<d, e>>, LastChunk, d \o e) : d, e \in Pieces}

BadHeader(symbols, rest) ==
  [bytes |-> Lines(symbols) \o rest, payload |-> << >>, lines |-> Len(symbols), starts |-> << >>]
Broken ==
  {BadHeader(<< >>, Header(<<"JUNK", "FIELD">>)),
   BadHeader(<< >>, <<"GET", "LF">> \o Header(<<"FIELD">>)),
   BadHeader(<<"POST">>, <<"CL2", "LF">> \o Header(<<"FIELD">>) \o <<"d", "d">>),
   BadHeader(<<"GET", "FIELD", "FIELD", "FIELD">>, Header(<<"FIELD">>)),
   ByChunksOf(<<"POST", "CHUNKED">>, << >>,
              Line("JUNK") \o <<"d", "CR", "LF">> \o Chunks(<<<<"d">>>>) \o LastChunk, << >>),
   ByChunksOf(<<"POST", "CHUNKED">>, <<<<"d">>>>, Line("JUNK"), << >>)}

\* Sizes with a sign and sizes that do not fit: behind the line of "-5" stands that
\* line again (in the code, where the sign is a byte of its own, it is -6); "-4" leads
\* to the line's own CR, which is read as the last chunk, and then to an upload that
\* has no end.  After JUNK such a size is met in a request that is malformed anyway.
Signed ==
  {ByChunksOf(<<"POST", "CHUNKED">>, << >>, Line(s) \o <<"d", "CR", "LF">> \o LastChunk, << >>)
     : s \in {"-1", "-3", "-4", "-5", "huge", "max", "min"}}
    \cup {ByLengthOf(<<"PUT", "CLMinus1">>, <<"d">>)}
Astray ==
  {ByChunksOf(<<"POST", "CHUNKED">>, << >>,
              Line("JUNK") \o <<"d">> \o Line(s) \o <<"d", "CR", "LF">> \o LastChunk, << >>)
     : s \in {"-3", "-4", "-5"}}

MCRequests == NoBody \cup WithLength \cup WithChunks \cup Broken \cup Signed \cup Astray
Framed ==
  /\ \A r \in NoBody \cup WithLength \cup WithChunks : WellFormed(r) /\ ~Malformed(r)
  /\ \A r \in Broken \cup Astray : Malformed(r) /\ ~WellFormed(r)
  /\ \A r \in Signed : ~WellFormed(r) /\ ~Malformed(r)
ASSUME Framed
=============================================================================
