---------------------------- MODULE HttpRequest ----------------------------
(***************************************************************************)
(* HttpRequest and the Storage it parses from: the bytes of a request      *)
(* arrive in pieces, parseRequest runs on every piece until the header and *)
(* the whole body have been received, then uploadRequest writes the body   *)
(* to a file piece by piece.                                               *)
(*                                                                         *)
(* A byte is a symbol.  "CR" and "LF" are what they are; what else a line  *)
(* says is one symbol: the request line of a method, "CHUNKED" for         *)
(* Transfer-Encoding: chunked, one in LengthOf for a Content-Length line,  *)
(* one in SizeOf for a chunk size with its sign and all its digits, and any*)
(* other for a header without influence on the parsing or a line that is   *)
(* not what is expected there.  Any symbol can be data.                    *)
(* TIME_OUT_HTTP_PARSING, 27 hours, never expires.                         *)
(***************************************************************************)
EXTENDS Integers, Sequences, SequencesExt

CONSTANTS
  Requests,        \* what a client can send, see "What a request says"
  LengthOf,        \* the number in each Content-Length line, as >> reads it into an int
  SizeOf,          \* the number that strtol makes of each chunk size
  IntLimit,        \* an int is in -IntLimit..(IntLimit - 1)
  LongLimit,       \* and so is a long in the range of LongLimit
  ReadBufferSize,  \* READ_BUFFER_SIZE
  MaxHeaderSize    \* HTTP_MAX_HEADER_SIZE

ASSUME SizeAssumption == ReadBufferSize \in Nat \ {0} /\ MaxHeaderSize \in Nat
ASSUME WidthAssumption == IntLimit \in Nat /\ LongLimit \in Nat /\ 3 < IntLimit /\ IntLimit =< LongLimit
ASSUME SymbolAssumption ==
  /\ LengthOf \in [DOMAIN LengthOf -> (-IntLimit)..(IntLimit - 1)]
  /\ SizeOf \in [DOMAIN SizeOf -> (-LongLimit)..(LongLimit - 1)]
  /\ {"CR", "LF"} \cap DOMAIN SizeOf = {}
ASSUME RequestAssumption ==
  \A r \in Requests :
    /\ r.bytes \in Seq(STRING) /\ Len(r.bytes) < IntLimit
    /\ r.payload \in Seq(STRING) /\ r.lines \in Nat /\ r.starts \in Seq(Nat)

VARIABLES
  sent,     \* the request the client is sending
  input,    \* the bytes of it that the server has not received
  p,        \* the HttpRequest
  file      \* what uploadRequest has written
vars == <<sent, input, p, file>>

RequestLines == {"GET", "HEAD", "POST", "PUT", "DELETE", "NOT_IMPL"}

ParsingStates == {"PARSING_INIT", "PARSING_HEADER", "PARSING_BODY", "PARSING_BAD_REQUEST",
                  "PARSING_FOR_EVER", "UPLOADING_CHUNK_INIT", "UPLOADING_READ_LINE",
                  "UPLOADING_INIT", "UPLOADING_DONE"}

\* initialize() and the constructor.  bytes is what Storage holds up to its
\* _writePos, read is its _readPos, negative for a size_t that has gone below 0;
\* uploaded is _uploadedSize.  In PARSING_FOR_EVER parseRequest does not return.
NewRequest ==
  [state |-> "PARSING_INIT", storage |-> "RECEIVING", bytes |-> << >>, read |-> 0,
   headerSize |-> 0, chunkSize |-> -1, bodyExisted |-> FALSE, chunked |-> FALSE,
   length |-> 0, method |-> "NOT_IMPL", bodyFirst |-> 0, uploaded |-> 0]

HttpRequests ==
  [state : ParsingStates, storage : {"RECEIVING", "RECEIVE_DONE"}, bytes : Seq(STRING),
   read : Int, headerSize : Nat, chunkSize : Int, bodyExisted : BOOLEAN,
   chunked : BOOLEAN, length : Int, method : RequestLines, bodyFirst : Nat, uploaded : Nat]

TypeOK ==
  /\ sent \in Requests
  /\ p \in HttpRequests
  /\ p.bytes \o input = sent.bytes /\ input \in Seq(STRING)
  /\ file \in Seq(STRING)

Init ==
  /\ sent \in Requests
  /\ input = sent.bytes
  /\ p = NewRequest
  /\ file = << >>

-----------------------------------------------------------------------------
(* Storage *)

\* A number that does not fit its type, as the build's arithmetic wraps it around.
Wrapped(x, limit) ==
  IF x \in (-limit)..(limit - 1) THEN x ELSE ((x + limit) % (2 * limit)) - limit

\* remains(), and what it counts
Unread(q) == Len(q.bytes) - q.read
Remains(q) == SubSeq(q.bytes, q.read + 1, Len(q.bytes))
LineEnds(q) == {i \in 1..Len(q.bytes) : 0 =< q.read /\ q.read < i /\ q.bytes[i] = "LF"}

\* getLine: the line without its LF, the empty string if there is no LF yet.
GetLine(q) ==
  IF LineEnds(q) = {} THEN << >> ELSE SubSeq(q.bytes, q.read + 1, Min(LineEnds(q)) - 1)

\* Mutant of SkipLine: without an LF all of the memory is consumed.
SkipPartialLine(q) ==
  [q EXCEPT !.read = IF LineEnds(q) = {} THEN Len(q.bytes) ELSE Min(LineEnds(q))]

SkipLine(q) == IF LineEnds(q) = {} THEN q ELSE [q EXCEPT !.read = Min(LineEnds(q))]

\* sockToMem: recv fills at most the buffer; a full buffer means more to come.
SockToMem(q, bytes) ==
  [q EXCEPT !.bytes = @ \o bytes,
            !.storage = IF Len(bytes) = ReadBufferSize THEN "RECEIVING" ELSE "RECEIVE_DONE"]

-----------------------------------------------------------------------------
(* parseRequest *)

Bad(q) == [q EXCEPT !.state = "PARSING_BAD_REQUEST"]
IsParsingEnd(q) == q.state \in {"UPLOADING_CHUNK_INIT", "UPLOADING_INIT", "PARSING_BAD_REQUEST"}
EndsInCR(line) == line[Len(line)] = "CR"
Blank(line) == Len(line) = 1 /\ line[1] = "CR"

ParseStartLine(q, line) ==
  IF line = << >> THEN q
  ELSE IF ~EndsInCR(line) \/ Len(line) # 2 \/ line[1] \notin RequestLines THEN Bad(q)
  ELSE [q EXCEPT !.method = line[1], !.headerSize = @ + Len(line) + 1,
                 !.state = "PARSING_HEADER"]

\* Mutant of HeaderField: HTTP_MAX_HEADER_SIZE is not checked.
UnboundedField(q, line) ==
  IF ~EndsInCR(line) THEN Bad(q)
  ELSE [q EXCEPT !.headerSize = @ + Len(line) + 1,
                 !.length = IF line[1] \in DOMAIN LengthOf THEN LengthOf[line[1]] ELSE @,
                 !.chunked = @ \/ line[1] = "CHUNKED",
                 !.bodyExisted = @ \/ line[1] = "CHUNKED" \/ line[1] \in DOMAIN LengthOf]

\* _parseHeaderField of a line that is neither empty nor the end of the header
HeaderField(q, line) ==
  IF ~EndsInCR(line) \/ Len(line) + 1 + q.headerSize > MaxHeaderSize THEN Bad(q)
  ELSE [q EXCEPT !.headerSize = @ + Len(line) + 1,
                 !.length = IF line[1] \in DOMAIN LengthOf THEN LengthOf[line[1]] ELSE @,
                 !.chunked = @ \/ line[1] = "CHUNKED",
                 !.bodyExisted = @ \/ line[1] = "CHUNKED" \/ line[1] \in DOMAIN LengthOf]

\* strtol of a chunk size: a CR is white space in front of it, a line without a
\* size is read as 0 and not consumed.
SizeAt(line) ==
  {i \in 1..Len(line) : line[i] \in DOMAIN SizeOf /\ \A j \in 1..(i - 1) : line[j] = "CR"}
SizeEnd(line) == IF SizeAt(line) = {} THEN 1 ELSE Min(SizeAt(line)) + 1
SizeSaid(line) == IF SizeAt(line) = {} THEN 0 ELSE SizeOf[line[Min(SizeAt(line))]]
ParseChunkSize(q, line) ==
  IF line = << >> THEN [q EXCEPT !.chunkSize = -1]
  ELSE IF SizeEnd(line) > Len(line) \/ line[SizeEnd(line)] # "CR"
  THEN [Bad(q) EXCEPT !.chunkSize = -1]
  ELSE [q EXCEPT !.chunkSize = SizeSaid(line)]

\* A turn of parseRequest's loops: what is left of the request, and whether there
\* is another turn.
Stop(q) == [request |-> q, again |-> FALSE]
GoOn(q) == [request |-> q, again |-> TRUE]

StartLine(q) ==
  LET r == ParseStartLine(SkipLine(q), GetLine(q))
  IN IF r.state = "PARSING_HEADER" THEN GoOn(r) ELSE Stop(r)

HeaderLine(q) ==
  LET line == GetLine(q)
      s == SkipLine(q)
      r == HeaderField(s, line)
  IN IF line = << >> THEN Stop(s)
     ELSE IF Blank(line) THEN GoOn([s EXCEPT !.bodyFirst = s.read, !.state = "PARSING_BODY"])
     ELSE IF IsParsingEnd(r) THEN Stop(r) ELSE GoOn(r)

\* Mutant of AllChunksFound: the chunks that were counted are not uploaded from the first on.
NotRewound(q) == [q EXCEPT !.chunkSize = -1, !.state = "UPLOADING_CHUNK_INIT"]

AllChunksFound(q) ==
  [q EXCEPT !.chunkSize = -1, !.read = q.bodyFirst, !.state = "UPLOADING_CHUNK_INIT"]

\* _parseChunk: the chunks found are skipped; moveReadPos takes an int.  A bad size
\* does not end the loop, and a negative one moves backwards.
ChunkHeader(q) == IF q.chunkSize = -1 THEN ParseChunkSize(SkipLine(q), GetLine(q)) ELSE q
ChunkEnd(q) == Wrapped(q.chunkSize + 2, LongLimit)
SkipChunk(q) == [q EXCEPT !.read = @ + Wrapped(ChunkEnd(q), IntLimit), !.chunkSize = -1]
Chunk(q) ==
  LET r == ChunkHeader(q) IN
  IF q.chunkSize = -1 /\ GetLine(q) = << >> THEN Stop(SkipLine(q))
  ELSE IF r.chunkSize = 0
  THEN Stop(IF GetLine(r) = << >> THEN SkipLine(r) ELSE AllChunksFound(SkipLine(r)))
  ELSE IF Unread(r) > ChunkEnd(r) THEN GoOn(SkipChunk(r)) ELSE Stop(r)

Body(q) ==
  IF Unread(q) >= q.length
  THEN Stop([q EXCEPT !.chunkSize = q.length, !.state = "UPLOADING_INIT"])
  ELSE Stop(q)

\* The cases of the switch fall through: a turn of each that is reached.
Turn(q) ==
  IF q.state = "PARSING_INIT" THEN StartLine(q)
  ELSE IF q.state = "PARSING_HEADER" THEN HeaderLine(q)
  ELSE IF q.chunked THEN Chunk(q) ELSE Body(q)

\* The turns of parseRequest.  What a turn in the header does is consume a line, and
\* the turns in the chunks differ in their position only: once there have been more
\* turns than lines and positions, some position has come twice and the loop is endless.
Another(t) == IF t.again THEN Turn(t.request) ELSE t
Turns(q) ==
  LET turns[n \in Nat] == IF n = 0 THEN GoOn(q) ELSE Another(turns[n - 1])
  IN turns
LastTurn(q) == Turns(q)[2 * Len(q.bytes) + 3]
ParseRequest(q) ==
  IF q.storage # "RECEIVE_DONE" THEN q
  ELSE IF LastTurn(q).again THEN [LastTurn(q).request EXCEPT !.state = "PARSING_FOR_EVER"]
  ELSE LastTurn(q).request

-----------------------------------------------------------------------------
(* uploadRequest *)

\* A chunk's header line; the CR LF that ends the previous chunk's data is a
\* line of its own, after the last chunk it ends the body.
NextChunk(q) ==
  LET line == GetLine(q)
      r == ParseChunkSize([SkipLine(q) EXCEPT !.state = "UPLOADING_READ_LINE"], line)
  IN
  IF Blank(line)
  THEN IF q.chunkSize = 0 THEN [SkipLine(q) EXCEPT !.state = "UPLOADING_DONE"] ELSE SkipLine(q)
  ELSE IF line = << >> \/ IsParsingEnd(r) \/ r.chunkSize = 0 THEN r
  ELSE [r EXCEPT !.uploaded = 0, !.state = "UPLOADING_INIT"]

\* Mutant of Goal: all that is in memory is written.
AllOfMemory(q) == Len(Remains(q))

\* memToFile writes up to the end of the chunk, or of what is in memory; what is left
\* of a negative size is more than all of it, being a size_t.
Goal(q) == LET left == q.chunkSize - q.uploaded
           IN IF 0 =< left /\ left < Len(Remains(q)) THEN left ELSE Len(Remains(q))

Moved(q, n) ==
  LET done == q.uploaded + n = q.chunkSize IN
  [q EXCEPT !.read = @ + n, !.uploaded = @ + n,
            !.state = IF ~done THEN "UPLOADING_INIT"
                      ELSE IF q.chunked THEN "UPLOADING_READ_LINE" ELSE "UPLOADING_DONE"]

-----------------------------------------------------------------------------
(* The handlers: EventHandler calls parseRequest while the Event reads, and *)
(* VirtualServer calls uploadRequest while it uploads.                      *)

ReceiveAndParse ==
  /\ ~IsParsingEnd(p) /\ p.state \in {"PARSING_INIT", "PARSING_HEADER", "PARSING_BODY"}
  /\ \E n \in 1..Len(input) :
       /\ n =< ReadBufferSize
       /\ p' = ParseRequest(SockToMem(p, SubSeq(input, 1, n)))
       /\ input' = SubSeq(input, n + 1, Len(input))
  /\ UNCHANGED <<sent, file>>

Upload ==
  /\ p.state \in {"UPLOADING_CHUNK_INIT", "UPLOADING_READ_LINE", "UPLOADING_INIT"}
  /\ LET q == IF p.state = "UPLOADING_INIT" THEN p ELSE NextChunk(p) IN
     IF q.state # "UPLOADING_INIT" THEN p' = q /\ UNCHANGED file
     ELSE \E n \in 0..Goal(q) :
            /\ n = 0 => Goal(q) = 0
            /\ p' = Moved(q, n)
            /\ file' = file \o SubSeq(Remains(q), 1, n)
  /\ UNCHANGED <<sent, input>>

\* The response has been sent and the connection is kept: a client that waited
\* for it sends its next request.
NextRequest ==
  /\ p.state = "UPLOADING_DONE" /\ input = << >>
  /\ \E r \in Requests : sent' = r /\ input' = r.bytes
  /\ p' = [NewRequest EXCEPT !.storage = p.storage, !.bodyFirst = p.bodyFirst]
  /\ file' = << >>

Next == ReceiveAndParse \/ Upload \/ NextRequest
Spec == Init /\ [][Next]_vars
\* The client goes on sending and the server, level-triggered, goes on handling.
\* This is weak fairness of ReceiveAndParse and of Upload, with their conditions
\* written out: only ReceiveAndParse and NextRequest change the input.
CanReceive == p.state \in {"PARSING_INIT", "PARSING_HEADER", "PARSING_BODY"} /\ input # << >>
CanUpload ==
  \/ p.state \in {"UPLOADING_CHUNK_INIT", "UPLOADING_READ_LINE"} /\ NextChunk(p) # p
  \/ p.state = "UPLOADING_INIT" /\ (Goal(p) > 0 \/ p.uploaded = p.chunkSize)
FairSpec ==
  /\ Spec
  /\ []<>(~CanReceive) \/ []<><<input' # input>>_vars
  /\ []<>(~CanUpload) \/ []<><<input' = input>>_vars

-----------------------------------------------------------------------------
(* What a request says, read as a whole                                       *)
(*                                                                            *)
(* A request r is its bytes, its payload and how they are put together: the   *)
(* first r.lines lines of the header are as they should be, and r.starts are  *)
(* the places where chunks start, the last of them included.                  *)

LineEndsAt(bytes, i, e) ==
  /\ i =< e /\ e =< Len(bytes) /\ bytes[e] = "LF"
  /\ \A j \in i..(e - 1) : bytes[j] # "LF"
\* A line of one symbol starts at i.
IsLine(bytes, i) == bytes[i] # "CR" /\ bytes[i + 1] = "CR" /\ LineEndsAt(bytes, i, i + 2)

Symbol(r, n) == r.bytes[3 * n - 2]
GoodLines(r) ==
  /\ r.lines > 0 /\ \A n \in 1..r.lines : IsLine(r.bytes, 3 * n - 2)
  /\ Symbol(r, 1) \in RequestLines /\ (r.lines > 1 => 3 * r.lines =< MaxHeaderSize)
HeaderEnd(r) == 3 * r.lines + 2
GoodHeader(r) ==
  /\ GoodLines(r)
  /\ r.bytes[HeaderEnd(r) - 1] = "CR" /\ LineEndsAt(r.bytes, HeaderEnd(r) - 1, HeaderEnd(r))

\* What the first n lines say of the body.
SaysChunked(r, n) == \E i \in 2..n : Symbol(r, i) = "CHUNKED"
LengthLines(r, n) == {i \in 2..n : Symbol(r, i) \in DOMAIN LengthOf}
SaysLength(r, n) ==
  IF LengthLines(r, n) = {} THEN 0 ELSE LengthOf[Symbol(r, Max(LengthLines(r, n)))]

Size(r, k) == SizeOf[r.bytes[r.starts[k]]]
SizeLine(r, k) == IsLine(r.bytes, r.starts[k]) /\ r.bytes[r.starts[k]] \in DOMAIN SizeOf
\* Chunk k has data, and chunk k + 1 follows it.
IsChunk(r, k) ==
  LET end == r.starts[k] + 3 + Size(r, k) IN
  /\ SizeLine(r, k) /\ Size(r, k) > 0
  /\ r.bytes[end] = "CR" /\ LineEndsAt(r.bytes, end, end + 1) /\ r.starts[k + 1] = end + 2
GoodChunks(r) ==
  /\ r.starts # << >> /\ r.starts[1] = HeaderEnd(r) + 1
  /\ \A k \in 1..(Len(r.starts) - 1) : IsChunk(r, k)
\* As much of the payload stands in front of chunk k.
Offset(r, k) == r.starts[k] - r.starts[1] - 5 * (k - 1)

ByLength(r) ==
  /\ Len(r.bytes) = HeaderEnd(r) + SaysLength(r, r.lines)
  /\ r.payload = SubSeq(r.bytes, HeaderEnd(r) + 1, Len(r.bytes))
ByChunks(r) ==
  LET m == Len(r.starts) IN
  /\ GoodChunks(r) /\ SizeLine(r, m) /\ Size(r, m) = 0
  /\ r.bytes[r.starts[m] + 3] = "CR" /\ LineEndsAt(r.bytes, r.starts[m] + 3, Len(r.bytes))
  /\ Len(r.bytes) = r.starts[m] + 4
  /\ Len(r.payload) = Offset(r, m)
  /\ \A k \in 1..(m - 1) : \A i \in 1..Size(r, k) :
       r.payload[Offset(r, k) + i] = r.bytes[r.starts[k] + 2 + i]

WellFormed(r) ==
  GoodHeader(r) /\ IF SaysChunked(r, r.lines) THEN ByChunks(r) ELSE ByLength(r)

\* The line that follows what is good about the request is flawed.
FlawedStart(r, e) ==
  /\ LineEndsAt(r.bytes, 1, e) /\ e > 1
  /\ ~(e = 3 /\ r.bytes[1] \in RequestLines /\ r.bytes[2] = "CR")
FlawedField(r, e) ==
  LET i == 3 * r.lines + 1 IN
  /\ GoodLines(r) /\ LineEndsAt(r.bytes, i, e) /\ e > i /\ ~(e = i + 1 /\ r.bytes[i] = "CR")
  /\ r.bytes[e - 1] # "CR" \/ e > MaxHeaderSize
FlawedSize(r, e) ==
  LET i == r.starts[Len(r.starts)] IN
  /\ GoodHeader(r) /\ SaysChunked(r, r.lines) /\ GoodChunks(r)
  /\ LineEndsAt(r.bytes, i, e) /\ e > i
  /\ r.bytes[i] # "CR" /\ ~(r.bytes[i] \in DOMAIN SizeOf /\ r.bytes[i + 1] = "CR")
Malformed(r) ==
  \E e \in 1..Len(r.bytes) : FlawedStart(r, e) \/ FlawedField(r, e) \/ FlawedSize(r, e)

\* No byte of it can be read as a size with a sign or one that does not fit an int.
\* What a size of another kind does is in the code too: it is neither well-formed
\* nor malformed here.
PlainSizes(r) ==
  \A i \in 1..Len(r.bytes) :
    r.bytes[i] \in DOMAIN SizeOf => SizeOf[r.bytes[i]] \in 0..(IntLimit - 3)

-----------------------------------------------------------------------------
(* Properties *)

\* The read position stays inside of what has been received, unless the loop over the
\* chunks has met a size that is negative or too large.
CountsChunks(q) ==
  q.chunked /\ q.state \in {"PARSING_BODY", "PARSING_BAD_REQUEST", "PARSING_FOR_EVER"}
ReadInMemory ==
  ~CountsChunks(p) \/ WellFormed(sent) \/ PlainSizes(sent) => p.read \in 0..Len(p.bytes)

\* parseRequest returns, unless a chunk size is negative or too large.
ParsingReturns == WellFormed(sent) \/ PlainSizes(sent) => p.state # "PARSING_FOR_EVER"

\* However its bytes are split and its body is written, the file of a well-formed
\* request only ever holds the beginning of its payload, and all of it when
\* the upload is done: no chunk header, no line end, nothing twice.
UploadExact ==
  WellFormed(sent) => /\ IsPrefix(file, sent.payload)
                      /\ p.state = "UPLOADING_DONE" => file = sent.payload

\* A malformed request is never uploaded to its end.
MalformedNeverDone == Malformed(sent) => p.state # "UPLOADING_DONE"

\* What parsing finds does not depend on how the bytes were split: it is what the
\* header says; no well-formed request is taken for a malformed one, or parsed for ever.
SplitIndependent ==
  WellFormed(sent) =>
    /\ p.state \notin {"PARSING_BAD_REQUEST", "PARSING_FOR_EVER"}
    /\ p.state \notin {"PARSING_INIT", "PARSING_HEADER"} =>
         /\ p.method = Symbol(sent, 1) /\ p.length = SaysLength(sent, sent.lines)
         /\ p.chunked <=> SaysChunked(sent, sent.lines)

\* Each well-formed request is uploaded in the end, unless its last recv filled the
\* buffer exactly; then the server waits for more.
EventuallyUploaded ==
  WellFormed(sent) ~> \/ p.state = "UPLOADING_DONE"
                      \/ input = << >> /\ p.storage = "RECEIVING"
=============================================================================
