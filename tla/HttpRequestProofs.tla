------------------------- MODULE HttpRequestProofs -------------------------
(***************************************************************************)
(* Proofs about HttpRequest, for every set of requests, every reading of   *)
(* the symbols, every READ_BUFFER_SIZE, HTTP_MAX_HEADER_SIZE and width of *)
(* int and long.                                                           *)
(*                                                                         *)
(* The invariant relates the request object q to what the bytes of the     *)
(* request r say, read as a whole: where between two lines, sizes or       *)
(* chunks q stands and what it must therefore have noted (Parsed), how far *)
(* into which chunk it has written (Uploads), and that the file is the     *)
(* payload up to there (Writes).  It is kept by every turn of              *)
(* parseRequest's loops, hence by a whole call.  In the loop over chunks   *)
(* whose sizes can be negative or too large nothing is said of where q     *)
(* stands; when the loop is left q stands at the first chunk again.        *)
(***************************************************************************)
EXTENDS HttpRequest, TLAPS, WellFoundedInduction, NaturalsInduction, SequenceTheorems

Storages == {q \in HttpRequests : q.read \in 0..Len(q.bytes)}

\* Requests whose sizes take the loop over the chunks from chunk to chunk.
Harmless(r) == WellFormed(r) \/ PlainSizes(r)
\* The sizes that are found in those, and -1 for none.
Moderate == (-1)..(IntLimit - 3)

\* q holds the beginning of the bytes of r, and stands in it.
Holding(r, q) ==
  /\ q \in HttpRequests /\ Len(q.bytes) =< Len(r.bytes)
  /\ \A i \in 1..Len(q.bytes) : q.bytes[i] = r.bytes[i]
Holds(r, q) == Holding(r, q) /\ q \in Storages
\* Only the loop over the chunks leaves the memory.
Steady(r, q) ==
  /\ ~CountsChunks(q) \/ Harmless(r) => q \in Storages
  /\ Harmless(r) => q.state # "PARSING_FOR_EVER"

\* The method and what the first n lines say of the body.
Said(r, q, n) ==
  /\ q.method = Symbol(r, 1) /\ q.length = SaysLength(r, n)
  /\ q.chunked <=> SaysChunked(r, n)

\* The first n lines are parsed.
Passed(r, q, n) == q.read = 3 * n /\ q.headerSize = 3 * n /\ Said(r, q, n)
InHeader(r, q) == \E n \in 1..r.lines : Passed(r, q, n)
Known(r, q) == Said(r, q, r.lines) /\ q.bodyFirst = HeaderEnd(r)

\* _parseChunk stands in front of a size or behind it.
Counting(r, q) ==
  \E k \in 1..Len(r.starts) :
    \/ q.chunkSize = -1 /\ q.read = r.starts[k] - 1
    \/ q.chunkSize = Size(r, k) /\ q.read = r.starts[k] + 2

BadStart(r) == \E e \in 1..Len(r.bytes) : FlawedStart(r, e)
BadField(r) == \E e \in 1..Len(r.bytes) : FlawedField(r, e)
BadSize(r) == \E e \in 1..Len(r.bytes) : FlawedSize(r, e)
WithChunks(r) == WellFormed(r) /\ SaysChunked(r, r.lines)
WithLength(r) == WellFormed(r) /\ ~SaysChunked(r, r.lines)

\* parseRequest is at work, in a turn or between two calls.  A bad size does not
\* end its loop.
AtWork(q, again) ==
  \/ q.state \in {"PARSING_INIT", "PARSING_HEADER", "PARSING_BODY"}
  \/ again /\ q.state = "PARSING_BAD_REQUEST"

Begun(r, q, again) ==
  /\ AtWork(q, again) => q.uploaded = 0
  /\ q.state = "PARSING_INIT" =>
       /\ q.headerSize = 0 /\ ~q.chunked /\ q.length = 0
       /\ r.bytes[1] # "LF" => q.read = 0
  /\ q.state \in {"PARSING_INIT", "PARSING_HEADER"} => q.chunkSize = -1
  /\ AtWork(q, again) /\ q.state \notin {"PARSING_INIT", "PARSING_HEADER"}
       => q.bodyFirst =< Len(q.bytes)
  /\ AtWork(q, again) /\ PlainSizes(r) => q.chunkSize \in Moderate

HeaderSaid(r, q) ==
  /\ q.state = "PARSING_HEADER" /\ (GoodHeader(r) \/ BadField(r)) => InHeader(r, q)
  /\ q.state \notin {"PARSING_INIT", "PARSING_HEADER"} /\ GoodHeader(r) => Known(r, q)

BodyFound(r, q) ==
  /\ WellFormed(r) => q.state # "PARSING_BAD_REQUEST"
  /\ q.state = "PARSING_BODY" /\ WithLength(r) => q.read = HeaderEnd(r)
  /\ q.state = "PARSING_BODY" /\ WithChunks(r) => Counting(r, q)

FlawSeen(r, q, again) ==
  /\ BadStart(r) => q.state # "PARSING_HEADER"
  /\ BadStart(r) \/ BadField(r) =>
       \/ q.state \in {"PARSING_INIT", "PARSING_HEADER"}
       \/ q.state = "PARSING_BAD_REQUEST" /\ ~again

Parsed(r, q, again) ==
  /\ Holding(r, q) /\ Steady(r, q)
  /\ Begun(r, q, again) /\ HeaderSaid(r, q) /\ BodyFound(r, q) /\ FlawSeen(r, q, again)

\* The start of chunk k is next, or the line end behind the data of chunk k.
AtChunk(r, q, f, k) == q.read = r.starts[k] - 1 /\ Len(f) = Offset(r, k)
AtLineEnd(r, q, f, k) ==
  q.read = r.starts[k + 1] - 3 /\ q.chunkSize # 0 /\ Len(f) = Offset(r, k + 1)
AtLast(r, q, f) ==
  LET m == Len(r.starts) IN
  ByChunks(r) /\ q.chunkSize = 0 /\ q.read = r.starts[m] + 2 /\ Len(f) = Offset(r, m)
InData(r, q, f, k) ==
  /\ q.chunkSize = Size(r, k) /\ q.read = r.starts[k] + 2 + q.uploaded
  /\ Len(f) = Offset(r, k) + q.uploaded

Chunking(r, q, f) ==
  LET m == Len(r.starts) IN
  /\ q.state \in {"UPLOADING_CHUNK_INIT", "UPLOADING_READ_LINE"}
       => \/ \E k \in 1..m : AtChunk(r, q, f, k)
          \/ \E k \in 1..(m - 1) : AtLineEnd(r, q, f, k)
          \/ AtLast(r, q, f)
  /\ q.state = "UPLOADING_INIT" => \E k \in 1..(m - 1) : InData(r, q, f, k)
  /\ q.state = "UPLOADING_DONE" => ByChunks(r) /\ Len(f) = Offset(r, m)

Copying(r, q, f) ==
  /\ q.state \in {"UPLOADING_INIT", "UPLOADING_DONE"}
  /\ q.chunkSize = q.length /\ q.read = HeaderEnd(r) + q.uploaded /\ Len(f) = q.uploaded
  /\ q.state = "UPLOADING_DONE" => q.uploaded = q.length

UploadStates == {"UPLOADING_CHUNK_INIT", "UPLOADING_READ_LINE", "UPLOADING_INIT", "UPLOADING_DONE"}
Uploads(r, q, f) ==
  /\ q.state = "UPLOADING_INIT" /\ 0 =< q.chunkSize => q.uploaded =< q.chunkSize
  /\ q.state \in UploadStates /\ WellFormed(r) => Len(q.bytes) = Len(r.bytes)
  /\ q.state \in UploadStates /\ WithLength(r) => Copying(r, q, f)
  /\ q.state \in UploadStates /\ (WithChunks(r) \/ BadSize(r)) => Chunking(r, q, f)

Writes(r, q, f) ==
  /\ f \in Seq(STRING)
  /\ q.state \notin UploadStates /\ q.state # "PARSING_BAD_REQUEST" => f = << >>
  /\ WellFormed(r) => Len(f) =< Len(r.payload) /\ \A i \in 1..Len(f) : f[i] = r.payload[i]

\* What the file and the request are, of what the client sends.
Good(r, q, f) == Parsed(r, q, FALSE) /\ Uploads(r, q, f) /\ Writes(r, q, f)

-----------------------------------------------------------------------------
(* Numbers and sequences *)

LEMMA Least ==
  ASSUME NEW S \in SUBSET Nat, S # {}
  PROVE  \E i \in S : \A j \in S : i =< j
<1> DEFINE R == OpToRel(<, Nat)
<1>1. IsWellFoundedOn(R, Nat)
  BY NatLessThanWellFounded
<1>2. \A x, y \in Nat : x < y => <<x, y>> \in R
  BY DEF OpToRel
<1> HIDE DEF R
<1>3. PICK x \in S : \A y \in S : <<y, x>> \notin R
  BY <1>1, WFMin
<1>4. ASSUME NEW y \in S PROVE x =< y
  <2>1. x \in Nat /\ y \in Nat
    OBVIOUS
  <2>2. ~(y < x)
    BY <1>2, <1>3, <2>1
  <2> QED
    BY <2>1, <2>2
<1> QED
  BY <1>4

LEMMA MinIs ==
  ASSUME NEW S \in SUBSET Nat, S # {}
  PROVE  Min(S) \in S /\ \A j \in S : Min(S) =< j
BY Least DEF Min

LEMMA MaxIs ==
  ASSUME NEW S \in SUBSET Nat, S # {}, NEW b \in Nat, \A i \in S : i =< b
  PROVE  Max(S) \in S /\ \A j \in S : Max(S) >= j
<1> DEFINE T == {b - i : i \in S}
<1>1. T \in SUBSET Nat /\ T # {}
  <2>1. \A i \in S : b - i \in Nat
    OBVIOUS
  <2>2. PICK i \in S : TRUE
    OBVIOUS
  <2>3. b - i \in T
    OBVIOUS
  <2> QED
    BY <2>1, <2>3
<1>2. PICK d \in T : \A t \in T : d =< t
  BY <1>1, Least
<1>3. PICK m \in S : d = b - m
  BY <1>2
<1>4. ASSUME NEW j \in S PROVE m >= j
  <2>1. b - j \in T
    OBVIOUS
  <2>2. b - m =< b - j /\ m \in Nat /\ j \in Nat
    BY <1>2, <1>3, <2>1
  <2> QED
    BY <2>2
<1>5. \E i \in S : \A j \in S : i >= j
  BY <1>4
<1> QED
  BY <1>5 DEF Max

LEMMA Part ==
  ASSUME NEW s \in Seq(STRING), NEW m \in Nat \ {0}, NEW n \in Nat, n =< Len(s), m =< n + 1
  PROVE  /\ SubSeq(s, m, n) \in Seq(STRING) /\ Len(SubSeq(s, m, n)) = n - m + 1
         /\ \A i \in 1..(n - m + 1) : SubSeq(s, m, n)[i] = s[m + i - 1]
<1>1. Len(s) \in Nat /\ \A i \in 1..Len(s) : s[i] \in STRING
  BY LenProperties, ElementOfSeq
<1>2. \A i \in m..n : s[i] \in STRING
  BY <1>1
<1>3. SubSeq(s, m, n) \in Seq(STRING)
  BY <1>2, SubSeqProperties
<1>4. Len(SubSeq(s, m, n)) = n - m + 1
  <2>1. CASE m =< n
    BY <1>1, <1>2, <2>1, SubSeqProperties
  <2>2. CASE m = n + 1
    BY <1>1, <1>2, <2>2, SubSeqProperties
  <2> QED
    BY <2>1, <2>2
<1>5. ASSUME NEW i \in 1..(n - m + 1) PROVE SubSeq(s, m, n)[i] = s[m + i - 1]
  BY <1>2, SubSeqProperties
<1> QED
  BY <1>3, <1>4, <1>5

-----------------------------------------------------------------------------
(* Storage *)

LEMMA Fields ==
  ASSUME NEW q \in HttpRequests
  PROVE  /\ q.state \in ParsingStates /\ q.bytes \in Seq(STRING) /\ Len(q.bytes) \in Nat
         /\ q.read \in Int /\ q.headerSize \in Nat
         /\ q.chunkSize \in Int /\ q.chunked \in BOOLEAN /\ q.length \in Int
         /\ q.method \in RequestLines /\ q.bodyFirst \in Nat /\ q.uploaded \in Nat
BY LenProperties DEF HttpRequests

LEMMA FieldTypes ==
  ASSUME NEW q \in Storages
  PROVE  /\ q.state \in ParsingStates /\ q.bytes \in Seq(STRING) /\ Len(q.bytes) \in Nat
         /\ q.read \in Nat /\ q.read =< Len(q.bytes) /\ q.headerSize \in Nat
         /\ q.chunkSize \in Int /\ q.chunked \in BOOLEAN /\ q.length \in Int
         /\ q.method \in RequestLines /\ q.bodyFirst \in Nat /\ q.uploaded \in Nat
<1>1. q \in HttpRequests /\ q.read \in 0..Len(q.bytes)
  BY DEF Storages
<1> QED
  BY <1>1, Fields

\* q and s differ in the position of reading only.
Reread(q, s) == s = [q EXCEPT !.read = s.read]

LEMMA LineEndsIn ==
  ASSUME NEW q \in Storages
  PROVE  /\ q \in HttpRequests
         /\ LineEnds(q) = {i \in (q.read + 1)..Len(q.bytes) : q.bytes[i] = "LF"}
<1>1. q \in HttpRequests /\ q.read \in Nat /\ Len(q.bytes) \in Nat
  BY FieldTypes DEF Storages
<1>2. \A i : i \in 1..Len(q.bytes) /\ 0 =< q.read /\ q.read < i <=> i \in (q.read + 1)..Len(q.bytes)
  BY <1>1
<1> QED
  BY <1>1, <1>2 DEF LineEnds

LEMMA LineEndsAre ==
  ASSUME NEW q \in HttpRequests, LineEnds(q) # {}
  PROVE  /\ q \in Storages
         /\ Min(LineEnds(q)) \in (q.read + 1)..Len(q.bytes)
         /\ q.bytes[Min(LineEnds(q))] = "LF"
         /\ \A j \in (q.read + 1)..(Min(LineEnds(q)) - 1) : q.bytes[j] # "LF"
<1>0. q.read \in Int /\ Len(q.bytes) \in Nat
  BY Fields
<1>1. q.read \in Nat /\ Len(q.bytes) \in Nat /\ q \in Storages
  BY <1>0 DEF LineEnds, Storages
<1>2. /\ LineEnds(q) = {i \in (q.read + 1)..Len(q.bytes) : q.bytes[i] = "LF"}
      /\ LineEnds(q) \in SUBSET Nat
  <2>1. LineEnds(q) = {i \in (q.read + 1)..Len(q.bytes) : q.bytes[i] = "LF"}
    BY <1>1, LineEndsIn
  <2> QED
    BY <1>1, <2>1
<1>3. Min(LineEnds(q)) \in LineEnds(q) /\ \A j \in LineEnds(q) : Min(LineEnds(q)) =< j
  BY <1>2, MinIs
<1>4. Min(LineEnds(q)) \in (q.read + 1)..Len(q.bytes) /\ q.bytes[Min(LineEnds(q))] = "LF"
  BY <1>2, <1>3
<1>5. ASSUME NEW j \in (q.read + 1)..(Min(LineEnds(q)) - 1) PROVE q.bytes[j] # "LF"
  <2>1. \A i : i \in LineEnds(q) <=> i \in (q.read + 1)..Len(q.bytes) /\ q.bytes[i] = "LF"
    BY <1>2
  <2> DEFINE m == Min(LineEnds(q))
  <2>2. m \in Nat /\ j \in (q.read + 1)..(m - 1) /\ \A i \in LineEnds(q) : m =< i
    BY <1>2, <1>3, <1>5
  <2>3. m =< Len(q.bytes)
    BY <1>4
  <2> HIDE DEF m
  <2> QED
    BY <1>1, <2>1, <2>2, <2>3
<1> QED
  BY <1>1, <1>4, <1>5

\* A line ends within what is in memory, or nothing is consumed.
LEMMA SkipLineIs ==
  ASSUME NEW q \in Storages
  PROVE  /\ SkipLine(q) \in Storages /\ Reread(q, SkipLine(q)) /\ SkipLine(q).read >= q.read
         /\ SkipLine(q).read = q.read => SkipLine(q) = q
<1>1. q.read \in Nat /\ Len(q.bytes) \in Nat /\ q \in HttpRequests /\ q.read =< Len(q.bytes)
  BY FieldTypes DEF Storages
<1>2. CASE LineEnds(q) = {}
  <2>1. SkipLine(q) = q /\ q = [q EXCEPT !.read = q.read]
    BY <1>1, <1>2 DEF SkipLine, HttpRequests
  <2> QED
    BY <1>1, <2>1 DEF Reread
<1>3. CASE LineEnds(q) # {}
  <2> DEFINE e == Min(LineEnds(q))
  <2>1. e \in (q.read + 1)..Len(q.bytes)
    BY <1>3, LineEndsIn, LineEndsAre
  <2>2. SkipLine(q) = [q EXCEPT !.read = e]
    BY <1>3 DEF SkipLine
  <2> HIDE DEF e
  <2>3. SkipLine(q) \in HttpRequests /\ SkipLine(q).read = e /\ SkipLine(q).bytes = q.bytes
    <3>1. e \in Nat
      BY <1>1, <2>1
    <3>2. SkipLine(q) \in HttpRequests
      BY <1>1, <2>2, <3>1 DEF HttpRequests
    <3>3. SkipLine(q).read = e /\ SkipLine(q).bytes = q.bytes
      BY <1>1, <2>2 DEF HttpRequests
    <3> QED
      BY <3>2, <3>3
  <2>4. SkipLine(q) \in Storages
    BY <2>1, <2>3 DEF Storages
  <2>5. Reread(q, SkipLine(q))
    BY <2>2, <2>3 DEF Reread
  <2>6. e > q.read
    BY <1>1, <2>1
  <2> QED
    BY <1>1, <2>1, <2>3, <2>4, <2>5, <2>6
<1> QED
  BY <1>2, <1>3

\* Outside of the memory there is no line, and nothing is consumed.
LEMMA NoLineOutside ==
  ASSUME NEW q \in HttpRequests, q \notin Storages
  PROVE  SkipLine(q) = q /\ GetLine(q) = << >>
<1>1. LineEnds(q) = {}
  BY LineEndsAre
<1> QED
  BY <1>1 DEF SkipLine, GetLine

LEMMA GetLineIs ==
  ASSUME NEW q \in Storages
  PROVE  /\ GetLine(q) \in Seq(STRING)
         /\ GetLine(q) # << >> =>
              /\ SkipLine(q).read = q.read + Len(GetLine(q)) + 1 /\ Len(GetLine(q)) \in Nat \ {0}
              /\ \A i \in 1..Len(GetLine(q)) : GetLine(q)[i] = q.bytes[q.read + i]
<1>1. /\ q.read \in Nat /\ Len(q.bytes) \in Nat /\ q \in HttpRequests /\ q.read =< Len(q.bytes)
      /\ q.bytes \in Seq(STRING)
  BY FieldTypes DEF Storages
<1>2. CASE LineEnds(q) = {}
  BY <1>2, EmptySeq DEF GetLine
<1>3. CASE LineEnds(q) # {}
  <2> DEFINE e == Min(LineEnds(q))
             line == GetLine(q)
  <2>1. e \in (q.read + 1)..Len(q.bytes)
    BY <1>3, LineEndsIn, LineEndsAre
  <2>2. line = SubSeq(q.bytes, q.read + 1, e - 1)
    BY <1>3 DEF GetLine
  <2>3. SkipLine(q).read = e
    BY <1>1, <1>3 DEF SkipLine, HttpRequests
  <2> HIDE DEF e
  <2>4. q.read + 1 \in Nat \ {0} /\ e - 1 \in Nat /\ e - 1 =< Len(q.bytes) /\ q.read + 1 =< e - 1 + 1
    BY <1>1, <2>1
  <2> HIDE DEF line
  <2>5. /\ line \in Seq(STRING) /\ Len(line) = e - 1 - (q.read + 1) + 1
        /\ \A i \in 1..(e - 1 - (q.read + 1) + 1) : line[i] = q.bytes[q.read + 1 + i - 1]
    <3> DEFINE b == q.bytes
               a == q.read + 1
               d == e - 1
    <3>1. b \in Seq(STRING) /\ a \in Nat \ {0} /\ d \in Nat /\ d =< Len(b) /\ a =< d + 1
      BY <1>1, <2>4
    <3> HIDE DEF a, b, d
    <3>2. /\ SubSeq(b, a, d) \in Seq(STRING) /\ Len(SubSeq(b, a, d)) = d - a + 1
          /\ \A i \in 1..(d - a + 1) : SubSeq(b, a, d)[i] = b[a + i - 1]
      BY <3>1, Part
    <3> QED
      BY <2>2, <3>2 DEF a, b, d
  <2>6. Len(line) = e - q.read - 1 /\ \A i \in 1..Len(line) : line[i] = q.bytes[q.read + i]
    <3>1. Len(line) = e - q.read - 1 /\ Len(line) = e - 1 - (q.read + 1) + 1
      BY <1>1, <2>1, <2>5
    <3>2. ASSUME NEW i \in 1..Len(line) PROVE line[i] = q.bytes[q.read + i]
      <4>1. line[i] = q.bytes[q.read + 1 + i - 1]
        BY <2>5, <3>1, <3>2
      <4>2. q.read + 1 + i - 1 = q.read + i
        BY <1>1, <2>1, <3>1
      <4> QED
        BY <4>1, <4>2
    <3> QED
      BY <3>1, <3>2
  <2>7. line # << >> => Len(line) # 0
    BY <2>5, EmptySeq
  <2>8. line # << >> => e = q.read + Len(line) + 1 /\ Len(line) \in Nat \ {0}
    BY <1>1, <2>1, <2>6, <2>7
  <2>9. line \in Seq(STRING)
    BY <2>5
  <2> QED
    BY <2>3, <2>6, <2>8, <2>9 DEF line
<1> QED
  BY <1>2, <1>3

\* An empty line is one that is not there, or only its LF.
LEMMA EmptyGetLine ==
  ASSUME NEW q \in Storages, GetLine(q) = << >>
  PROVE  \/ SkipLine(q) = q
         \/ q.read + 1 =< Len(q.bytes) /\ q.bytes[q.read + 1] = "LF"
<1>1. q.read \in Nat /\ Len(q.bytes) \in Nat /\ q.read =< Len(q.bytes) /\ q.bytes \in Seq(STRING)
  BY FieldTypes
<1>2. CASE LineEnds(q) = {}
  BY <1>2 DEF SkipLine
<1>3. CASE LineEnds(q) # {}
  <2> DEFINE e == Min(LineEnds(q))
  <2>1. e \in (q.read + 1)..Len(q.bytes) /\ q.bytes[e] = "LF"
    BY <1>3, LineEndsIn, LineEndsAre
  <2>2. GetLine(q) = SubSeq(q.bytes, q.read + 1, e - 1)
    BY <1>3 DEF GetLine
  <2> HIDE DEF e
  <2>3. q.read + 1 \in Nat \ {0} /\ e - 1 \in Nat /\ e - 1 =< Len(q.bytes) /\ q.read + 1 =< e - 1 + 1
    BY <1>1, <2>1
  <2>4. Len(SubSeq(q.bytes, q.read + 1, e - 1)) = e - 1 - (q.read + 1) + 1
    BY <1>1, <2>3, Part
  <2>5. Len(GetLine(q)) = 0
    BY EmptySeq
  <2>6. e - 1 - (q.read + 1) + 1 = 0
    BY <2>2, <2>4, <2>5
  <2>7. e = q.read + 1
    BY <1>1, <2>1, <2>6
  <2> QED
    BY <2>1, <2>7
<1> QED
  BY <1>2, <1>3

LEMMA HoldsIs ==
  ASSUME NEW r \in Requests, NEW q, Holds(r, q)
  PROVE  /\ q \in Storages /\ q.read \in Nat /\ Len(q.bytes) \in Nat /\ Len(r.bytes) \in Nat
         /\ q.read =< Len(q.bytes) /\ Len(q.bytes) =< Len(r.bytes)
         /\ \A i \in 1..Len(q.bytes) : q.bytes[i] = r.bytes[i]
<1>1. q \in Storages /\ Len(q.bytes) =< Len(r.bytes) /\ \A i \in 1..Len(q.bytes) : q.bytes[i] = r.bytes[i]
  BY DEF Holds, Holding
<1>2. r.bytes \in Seq(STRING)
  BY RequestAssumption
<1>3. Len(r.bytes) \in Nat
  BY <1>2, LenProperties
<1> QED
  BY <1>1, <1>3, FieldTypes

\* A line of the request is found when its end has been received.
LEMMA LineFound ==
  ASSUME NEW r \in Requests, NEW q, Holds(r, q), NEW e \in Nat,
         LineEndsAt(r.bytes, q.read + 1, e)
  PROVE  IF Len(q.bytes) < e THEN LineEnds(q) = {}
         ELSE LineEnds(q) # {} /\ Min(LineEnds(q)) = e
<1>1. /\ q \in Storages /\ q.read \in Nat /\ Len(q.bytes) \in Nat /\ q.read =< Len(q.bytes)
      /\ \A i \in 1..Len(q.bytes) : q.bytes[i] = r.bytes[i]
  BY HoldsIs
<1>2. q.read + 1 =< e /\ r.bytes[e] = "LF" /\ \A j \in (q.read + 1)..(e - 1) : r.bytes[j] # "LF"
  BY DEF LineEndsAt
<1>3. CASE Len(q.bytes) < e
  <2>1. ASSUME NEW j \in (q.read + 1)..Len(q.bytes) PROVE q.bytes[j] # "LF"
    <3>1. j \in 1..Len(q.bytes) /\ j \in (q.read + 1)..(e - 1)
      BY <1>1, <1>3
    <3> QED
      BY <1>1, <1>2, <3>1
  <2> QED
    BY <1>1, <1>3, <2>1, LineEndsIn
<1>4. CASE ~(Len(q.bytes) < e)
  <2>1. e \in (q.read + 1)..Len(q.bytes) /\ e \in 1..Len(q.bytes)
    BY <1>1, <1>2, <1>4
  <2>2. q.bytes[e] = "LF"
    BY <1>1, <1>2, <2>1
  <2>3. LineEnds(q) # {}
    BY <1>1, <2>1, <2>2, LineEndsIn
  <2> DEFINE m == Min(LineEnds(q))
  <2>4. m \in (q.read + 1)..Len(q.bytes) /\ q.bytes[m] = "LF"
        /\ \A j \in (q.read + 1)..(m - 1) : q.bytes[j] # "LF"
    BY <1>1, <2>3, LineEndsIn, LineEndsAre
  <2> HIDE DEF m
  <2>5. ~(m < e)
    <3>1. SUFFICES ASSUME m < e PROVE FALSE
      OBVIOUS
    <3>2. m \in (q.read + 1)..(e - 1) /\ m \in 1..Len(q.bytes)
      BY <1>1, <2>1, <2>4, <3>1
    <3> QED
      BY <1>1, <1>2, <2>4, <3>2
  <2>6. ~(e < m)
    <3>1. SUFFICES ASSUME e < m PROVE FALSE
      OBVIOUS
    <3>2. e \in (q.read + 1)..(m - 1)
      BY <1>1, <2>1, <2>4, <3>1
    <3> QED
      BY <2>2, <2>4, <3>2
  <2>7. m = e
    BY <1>1, <2>1, <2>4, <2>5, <2>6
  <2> QED
    BY <1>4, <2>3, <2>7 DEF m
<1> QED
  BY <1>3, <1>4

LEMMA NextLine ==
  ASSUME NEW r \in Requests, NEW q, Holds(r, q), NEW e \in Nat,
         LineEndsAt(r.bytes, q.read + 1, e)
  PROVE  IF Len(q.bytes) < e THEN GetLine(q) = << >> /\ SkipLine(q) = q
         ELSE /\ SkipLine(q).read = e /\ Len(GetLine(q)) = e - q.read - 1
              /\ \A i \in 1..(e - q.read - 1) : GetLine(q)[i] = r.bytes[q.read + i]
<1>1. /\ q \in Storages /\ q.read \in Nat /\ Len(q.bytes) \in Nat /\ q.read =< Len(q.bytes)
      /\ \A i \in 1..Len(q.bytes) : q.bytes[i] = r.bytes[i]
  BY HoldsIs
<1>2. CASE Len(q.bytes) < e
  <2>1. LineEnds(q) = {}
    BY <1>2, LineFound
  <2> QED
    BY <1>2, <2>1 DEF GetLine, SkipLine
<1>3. CASE ~(Len(q.bytes) < e)
  <2>1. LineEnds(q) # {} /\ Min(LineEnds(q)) = e
    BY <1>3, LineFound
  <2>2. GetLine(q) = SubSeq(q.bytes, q.read + 1, e - 1)
    BY <2>1 DEF GetLine
  <2>3. SkipLine(q) = [q EXCEPT !.read = e]
    BY <2>1 DEF SkipLine
  <2>4. SkipLine(q).read = e
    BY <1>1, <2>3 DEF Storages, HttpRequests
  <2>5. q.read + 1 =< e /\ q.bytes \in Seq(STRING)
    BY <1>1, FieldTypes DEF LineEndsAt
  <2>6. q.read + 1 \in Nat \ {0} /\ e - 1 \in Nat /\ e - 1 =< Len(q.bytes) /\ q.read + 1 =< e - 1 + 1
    BY <1>1, <1>3, <2>5
  <2>7. Len(GetLine(q)) = e - 1 - (q.read + 1) + 1
        /\ \A i \in 1..(e - 1 - (q.read + 1) + 1) : GetLine(q)[i] = q.bytes[q.read + 1 + i - 1]
    BY <2>2, <2>5, <2>6, Part
  <2>8. e - 1 - (q.read + 1) + 1 = e - q.read - 1
    BY <1>1
  <2>9. ASSUME NEW i \in 1..(e - q.read - 1) PROVE GetLine(q)[i] = r.bytes[q.read + i]
    <3>1. GetLine(q)[i] = q.bytes[q.read + 1 + i - 1]
      BY <2>7, <2>8
    <3>2. q.read + 1 + i - 1 = q.read + i /\ q.read + i \in 1..Len(q.bytes)
      BY <1>1, <1>3, <2>9
    <3> QED
      BY <1>1, <3>1, <3>2
  <2> QED
    BY <1>3, <2>4, <2>7, <2>8, <2>9
<1> QED
  BY <1>2, <1>3

LEMMA NoSymbol == << >> \in Seq(STRING) /\ Len(<< >>) = 0
BY EmptySeq

LEMMA NotEmpty ==
  ASSUME NEW line, Len(line) # 0
  PROVE  line # << >>
BY NoSymbol

LEMMA SymbolLine ==
  ASSUME NEW r \in Requests, NEW q, Holds(r, q), IsLine(r.bytes, q.read + 1)
  PROVE  \/ GetLine(q) = << >> /\ SkipLine(q) = q /\ Len(q.bytes) < q.read + 3
         \/ /\ GetLine(q) # << >> /\ ~Blank(GetLine(q)) /\ Len(GetLine(q)) = 2
            /\ GetLine(q)[1] = r.bytes[q.read + 1] /\ GetLine(q)[2] = "CR" /\ GetLine(q)[1] # "CR"
            /\ SkipLine(q).read = q.read + 3
<1>1. q \in Storages /\ q.read \in Nat
  BY HoldsIs
<1>2. /\ LineEndsAt(r.bytes, q.read + 1, q.read + 3)
      /\ r.bytes[q.read + 1] # "CR" /\ r.bytes[q.read + 2] = "CR"
  <2>1. LineEndsAt(r.bytes, q.read + 1, (q.read + 1) + 2) /\ r.bytes[(q.read + 1) + 1] = "CR" /\ r.bytes[q.read + 1] # "CR"
    BY DEF IsLine
  <2>2. (q.read + 1) + 2 = q.read + 3 /\ (q.read + 1) + 1 = q.read + 2
    BY <1>1
  <2> QED
    BY <2>1, <2>2
<1>3. q.read + 3 \in Nat
  BY <1>1
<1>4. CASE Len(q.bytes) < q.read + 3
  BY <1>2, <1>3, <1>4, NextLine
<1>5. CASE ~(Len(q.bytes) < q.read + 3)
  <2>1. /\ SkipLine(q).read = q.read + 3 /\ Len(GetLine(q)) = (q.read + 3) - q.read - 1
        /\ \A i \in 1..((q.read + 3) - q.read - 1) : GetLine(q)[i] = r.bytes[q.read + i]
    BY <1>2, <1>3, <1>5, NextLine
  <2>2. (q.read + 3) - q.read - 1 = 2
    BY <1>1
  <2>3. Len(GetLine(q)) = 2 /\ GetLine(q)[1] = r.bytes[q.read + 1] /\ GetLine(q)[2] = r.bytes[q.read + 2]
    BY <2>1, <2>2
  <2>4. GetLine(q) # << >> /\ ~Blank(GetLine(q))
    <3>1. Len(GetLine(q)) # 0 /\ Len(GetLine(q)) # 1
      BY <2>3
    <3> QED
      BY <3>1, NotEmpty DEF Blank
  <2> QED
    BY <1>2, <2>1, <2>3, <2>4
<1> QED
  BY <1>4, <1>5

\* The line that ends the header, or that ends the data of a chunk.
LEMMA EmptyLine ==
  ASSUME NEW r \in Requests, NEW q, Holds(r, q), r.bytes[q.read + 1] = "CR",
         LineEndsAt(r.bytes, q.read + 1, q.read + 2)
  PROVE  \/ GetLine(q) = << >> /\ SkipLine(q) = q /\ Len(q.bytes) < q.read + 2
         \/ /\ Blank(GetLine(q)) /\ GetLine(q) # << >> /\ SkipLine(q).read = q.read + 2
            /\ q.read + 2 =< Len(q.bytes)
<1>1. q \in Storages /\ q.read \in Nat /\ Len(q.bytes) \in Nat
  BY HoldsIs
<1>2. q.read + 2 \in Nat
  BY <1>1
<1>3. CASE Len(q.bytes) < q.read + 2
  BY <1>2, <1>3, NextLine
<1>4. CASE ~(Len(q.bytes) < q.read + 2)
  <2>1. /\ SkipLine(q).read = q.read + 2 /\ Len(GetLine(q)) = (q.read + 2) - q.read - 1
        /\ \A i \in 1..((q.read + 2) - q.read - 1) : GetLine(q)[i] = r.bytes[q.read + i]
    BY <1>2, <1>4, NextLine
  <2>2. (q.read + 2) - q.read - 1 = 1
    BY <1>1
  <2>3. Len(GetLine(q)) = 1 /\ GetLine(q)[1] = "CR"
    BY <2>1, <2>2
  <2>4. Blank(GetLine(q))
    BY <2>3 DEF Blank
  <2>5. GetLine(q) # << >>
    <3>1. Len(GetLine(q)) # 0
      BY <2>3
    <3> QED
      BY <3>1, NotEmpty
  <2> QED
    BY <1>1, <1>4, <2>1, <2>4, <2>5
<1> QED
  BY <1>3, <1>4

\* A line that is not as it should be.
LEMMA OtherLine ==
  ASSUME NEW r \in Requests, NEW q, Holds(r, q), NEW e \in Nat, e > q.read + 1,
         LineEndsAt(r.bytes, q.read + 1, e)
  PROVE  \/ GetLine(q) = << >> /\ SkipLine(q) = q
         \/ /\ GetLine(q) # << >> /\ Len(GetLine(q)) = e - q.read - 1 /\ Len(GetLine(q)) \in Nat \ {0}
            /\ \A i \in 1..Len(GetLine(q)) : GetLine(q)[i] = r.bytes[q.read + i]
<1>1. q \in Storages /\ q.read \in Nat /\ Len(q.bytes) \in Nat
  BY HoldsIs
<1>2. CASE Len(q.bytes) < e
  BY <1>2, NextLine
<1>3. CASE ~(Len(q.bytes) < e)
  <2>1. /\ Len(GetLine(q)) = e - q.read - 1
        /\ \A i \in 1..(e - q.read - 1) : GetLine(q)[i] = r.bytes[q.read + i]
    BY <1>3, NextLine
  <2>2. e - q.read - 1 \in Nat \ {0}
    BY <1>1
  <2>3. GetLine(q) # << >>
    <3>1. Len(<< >>) = 0
      BY NoSymbol
    <3> QED
      BY <2>1, <2>2, <3>1
  <2> QED
    BY <2>1, <2>2, <2>3
<1> QED
  BY <1>2, <1>3

-----------------------------------------------------------------------------
(* What a turn of parseRequest does, field by field *)

LEMMA RereadAny ==
  ASSUME NEW q \in HttpRequests, NEW s \in HttpRequests, Reread(q, s)
  PROVE  /\ s.state = q.state /\ s.storage = q.storage /\ s.bytes = q.bytes
         /\ s.headerSize = q.headerSize /\ s.chunkSize = q.chunkSize /\ s.bodyExisted = q.bodyExisted
         /\ s.chunked = q.chunked /\ s.length = q.length /\ s.method = q.method
         /\ s.bodyFirst = q.bodyFirst /\ s.uploaded = q.uploaded
BY DEF HttpRequests, Reread

LEMMA RereadIs ==
  ASSUME NEW q \in Storages, NEW s \in Storages, Reread(q, s)
  PROVE  /\ s.state = q.state /\ s.storage = q.storage /\ s.bytes = q.bytes
         /\ s.headerSize = q.headerSize /\ s.chunkSize = q.chunkSize /\ s.bodyExisted = q.bodyExisted
         /\ s.chunked = q.chunked /\ s.length = q.length /\ s.method = q.method
         /\ s.bodyFirst = q.bodyFirst /\ s.uploaded = q.uploaded
BY RereadAny DEF Storages

\* The fields that reading the header does not change.
SameBody(q, x) ==
  x.bytes = q.bytes /\ x.chunkSize = q.chunkSize /\ x.uploaded = q.uploaded

Opens(line) == Len(line) = 2 /\ line[1] \in RequestLines /\ line[2] = "CR"

LEMMA StartLineIs ==
  ASSUME NEW q \in Storages, q.state = "PARSING_INIT",
         NEW t, t = StartLine(q)
  PROVE  /\ t.request \in Storages /\ t.again \in BOOLEAN /\ SameBody(q, t.request)
         /\ t.request.read = SkipLine(q).read /\ t.request.bodyFirst = q.bodyFirst
         /\ t.request.chunked = q.chunked /\ t.request.length = q.length
         /\ \/ /\ GetLine(q) = << >> /\ ~t.again /\ t.request.state = "PARSING_INIT"
               /\ t.request.headerSize = q.headerSize
            \/ /\ GetLine(q) # << >> /\ ~Opens(GetLine(q))
               /\ ~t.again /\ t.request.state = "PARSING_BAD_REQUEST"
            \/ /\ GetLine(q) # << >> /\ Opens(GetLine(q)) /\ t.again /\ t.request.state = "PARSING_HEADER"
               /\ t.request.method = GetLine(q)[1] /\ t.request.headerSize = q.headerSize + 3
<1> DEFINE s == SkipLine(q)
           line == GetLine(q)
           x == ParseStartLine(s, line)
<1>1. /\ s \in Storages /\ s \in HttpRequests /\ s.read = SkipLine(q).read /\ s.read =< Len(s.bytes)
      /\ s.state = "PARSING_INIT" /\ SameBody(q, s) /\ s.headerSize = q.headerSize
      /\ s.chunked = q.chunked /\ s.length = q.length /\ s.bodyFirst = q.bodyFirst
  BY SkipLineIs, RereadIs DEF SameBody, Storages
<1>2. line \in Seq(STRING)
  BY GetLineIs
<1>3. /\ x.state = "PARSING_HEADER" => t.request = x /\ t.again
      /\ x.state # "PARSING_HEADER" => t.request = x /\ ~t.again
      /\ t.again \in BOOLEAN
  BY DEF StartLine, GoOn, Stop
<1> HIDE DEF s
<1>4. CASE line = << >>
  <2>1. x = s
    BY <1>4 DEF ParseStartLine
  <2> QED
    BY <1>1, <1>3, <1>4, <2>1
<1>5. CASE line # << >> /\ ~Opens(line)
  <2>1. ~EndsInCR(line) \/ Len(line) # 2 \/ line[1] \notin RequestLines
    BY <1>5 DEF Opens, EndsInCR
  <2>2. x = [s EXCEPT !.state = "PARSING_BAD_REQUEST"]
    BY <1>5, <2>1 DEF ParseStartLine, Bad
  <2>3. /\ x \in HttpRequests /\ x.state = "PARSING_BAD_REQUEST" /\ x.read = s.read /\ SameBody(s, x)
        /\ x.headerSize = s.headerSize
        /\ x.chunked = s.chunked /\ x.length = s.length /\ x.bodyFirst = s.bodyFirst
    BY <1>1, <2>2 DEF HttpRequests, ParsingStates, SameBody
  <2>4. x \in Storages /\ SameBody(q, x)
    BY <1>1, <2>3 DEF Storages, SameBody
  <2> QED
    BY <1>1, <1>3, <1>5, <2>3, <2>4
<1>6. CASE line # << >> /\ Opens(line)
  <2>1. EndsInCR(line) /\ Len(line) = 2 /\ line[1] \in RequestLines
    BY <1>6 DEF Opens, EndsInCR
  <2> DEFINE h == s.headerSize + Len(line) + 1
             m == line[1]
  <2>2. x = [s EXCEPT !.method = m, !.headerSize = h, !.state = "PARSING_HEADER"]
    BY <1>6, <2>1 DEF ParseStartLine
  <2>5. h \in Nat /\ h = s.headerSize + 3 /\ m \in RequestLines /\ m = line[1]
    BY <1>1, <2>1 DEF HttpRequests
  <2> HIDE DEF x, h, m
  <2>6. x \in HttpRequests
    BY <1>1, <2>2, <2>5 DEF HttpRequests, ParsingStates
  <2>3. /\ x.state = "PARSING_HEADER" /\ x.read = s.read /\ SameBody(s, x)
        /\ x.headerSize = h /\ x.method = m
        /\ x.chunked = s.chunked /\ x.length = s.length /\ x.bodyFirst = s.bodyFirst
    BY <1>1, <2>2 DEF HttpRequests, SameBody
  <2>4. x \in Storages /\ SameBody(q, x)
    BY <1>1, <2>3, <2>6 DEF Storages, SameBody
  <2> QED
    BY <1>1, <1>3, <1>6, <2>3, <2>4, <2>5
<1> QED
  BY <1>4, <1>5, <1>6

Fits(q, line) == EndsInCR(line) /\ Len(line) + 1 + q.headerSize =< MaxHeaderSize

LEMMA HeaderFieldIs ==
  ASSUME NEW s \in Storages, s.state = "PARSING_HEADER", NEW line \in Seq(STRING), line # << >>,
         NEW x, x = HeaderField(s, line)
  PROVE  /\ x \in Storages /\ SameBody(s, x) /\ x.read = s.read /\ x.method = s.method
         /\ x.bodyFirst = s.bodyFirst
         /\ ~Fits(s, line) => x.state = "PARSING_BAD_REQUEST"
         /\ Fits(s, line) =>
              /\ x.state = "PARSING_HEADER" /\ x.headerSize = s.headerSize + Len(line) + 1
              /\ x.length = IF line[1] \in DOMAIN LengthOf THEN LengthOf[line[1]] ELSE s.length
              /\ x.chunked <=> s.chunked \/ line[1] = "CHUNKED"
<1>1. s \in HttpRequests /\ s.read =< Len(s.bytes) /\ s.headerSize \in Nat /\ Len(line) \in Nat
  BY LenProperties DEF Storages, HttpRequests
<1>2. MaxHeaderSize \in Nat
  BY SizeAssumption
<1>3. CASE ~Fits(s, line)
  <2>1. ~EndsInCR(line) \/ Len(line) + 1 + s.headerSize > MaxHeaderSize
    BY <1>1, <1>2, <1>3 DEF Fits
  <2>2. x = [s EXCEPT !.state = "PARSING_BAD_REQUEST"]
    BY <2>1 DEF HeaderField, Bad
  <2>3. /\ x \in HttpRequests /\ x.state = "PARSING_BAD_REQUEST" /\ SameBody(s, x) /\ x.read = s.read
        /\ x.method = s.method /\ x.bodyFirst = s.bodyFirst
    BY <1>1, <2>2 DEF HttpRequests, ParsingStates, SameBody
  <2> QED
    BY <1>1, <1>3, <2>3 DEF Storages, SameBody
<1>4. CASE Fits(s, line)
  <2> DEFINE l == IF line[1] \in DOMAIN LengthOf THEN LengthOf[line[1]] ELSE s.length
             c == s.chunked \/ line[1] = "CHUNKED"
             b == s.bodyExisted \/ line[1] = "CHUNKED" \/ line[1] \in DOMAIN LengthOf
             h == s.headerSize + Len(line) + 1
  <2>1. ~(~EndsInCR(line) \/ Len(line) + 1 + s.headerSize > MaxHeaderSize)
    BY <1>1, <1>2, <1>4 DEF Fits
  <2>2. x = [s EXCEPT !.headerSize = h, !.length = l, !.chunked = c, !.bodyExisted = b]
    BY <2>1 DEF HeaderField
  <2>3. l \in Int /\ c \in BOOLEAN /\ b \in BOOLEAN /\ h \in Nat
    <3>1. \A y \in DOMAIN LengthOf : LengthOf[y] \in Int
      BY SymbolAssumption, WidthAssumption
    <3>2. s.length \in Int /\ s.headerSize \in Nat /\ s.bodyExisted \in BOOLEAN /\ s.chunked \in BOOLEAN
      BY <1>1 DEF HttpRequests
    <3> QED
      BY <1>1, <3>1, <3>2
  <2> HIDE DEF l, c, b, h
  <2>7. x \in HttpRequests
    BY <1>1, <2>2, <2>3 DEF HttpRequests
  <2>4. /\ x.state = "PARSING_HEADER" /\ SameBody(s, x) /\ x.read = s.read
        /\ x.method = s.method /\ x.bodyFirst = s.bodyFirst
        /\ x.headerSize = h /\ x.length = l
    BY <1>1, <2>2 DEF HttpRequests, SameBody
  <2>5. x.chunked <=> c
    BY <1>1, <2>2, <2>3 DEF HttpRequests
  <2>6. x \in Storages
    BY <1>1, <2>4, <2>7 DEF Storages, SameBody
  <2> QED
    BY <1>4, <2>4, <2>5, <2>6 DEF l, c, h
<1> QED
  BY <1>3, <1>4

LEMMA HeaderLineIs ==
  ASSUME NEW q \in Storages, q.state = "PARSING_HEADER", NEW t, t = HeaderLine(q)
  PROVE  /\ t.request \in Storages /\ t.again \in BOOLEAN /\ SameBody(q, t.request)
         /\ t.request.read = SkipLine(q).read /\ t.request.method = q.method
         /\ \/ /\ GetLine(q) = << >> /\ ~t.again /\ t.request = SkipLine(q)
               /\ t.request.state = "PARSING_HEADER"
            \/ /\ GetLine(q) # << >> /\ Blank(GetLine(q)) /\ t.again /\ t.request.state = "PARSING_BODY"
               /\ t.request.bodyFirst = t.request.read /\ t.request.length = q.length
               /\ t.request.chunked = q.chunked
            \/ /\ GetLine(q) # << >> /\ ~Blank(GetLine(q)) /\ ~Fits(q, GetLine(q))
               /\ ~t.again /\ t.request.state = "PARSING_BAD_REQUEST"
            \/ /\ GetLine(q) # << >> /\ ~Blank(GetLine(q)) /\ Fits(q, GetLine(q))
               /\ t.again /\ t.request.state = "PARSING_HEADER"
               /\ t.request.headerSize = q.headerSize + Len(GetLine(q)) + 1
               /\ t.request.length = IF GetLine(q)[1] \in DOMAIN LengthOf
                                     THEN LengthOf[GetLine(q)[1]] ELSE q.length
               /\ t.request.chunked <=> q.chunked \/ GetLine(q)[1] = "CHUNKED"
<1> DEFINE s == SkipLine(q)
           line == GetLine(q)
           x == HeaderField(s, line)
           b == [s EXCEPT !.bodyFirst = s.read, !.state = "PARSING_BODY"]
<1>1. /\ s \in Storages /\ s \in HttpRequests /\ s.read = SkipLine(q).read /\ s.read =< Len(s.bytes)
      /\ s.state = "PARSING_HEADER" /\ SameBody(q, s) /\ s.headerSize = q.headerSize
      /\ s.chunked = q.chunked /\ s.length = q.length /\ s.method = q.method /\ s.read \in Nat
  BY SkipLineIs, RereadIs, FieldTypes DEF SameBody, Storages
<1>2. line \in Seq(STRING)
  BY GetLineIs
<1>3. HeaderLine(q) = IF line = << >> THEN Stop(s)
                      ELSE IF Blank(line) THEN GoOn(b)
                      ELSE IF IsParsingEnd(x) THEN Stop(x) ELSE GoOn(x)
  BY DEF HeaderLine
<1>s. s = SkipLine(q)
  OBVIOUS
<1>l. line = GetLine(q)
  OBVIOUS
<1> HIDE DEF s, line
<1>4. CASE line = << >>
  <2>1. t = Stop(s)
    BY <1>3, <1>4
  <2>2. t.request = s /\ t.again = FALSE
    BY <2>1 DEF Stop
  <2> QED
    BY <1>1, <1>4, <1>s, <1>l, <2>2
<1>5. CASE line # << >> /\ Blank(line)
  <2>1. t = GoOn(b)
    BY <1>3, <1>5
  <2>2. t.request = b /\ t.again = TRUE
    BY <2>1 DEF GoOn
  <2>3. /\ b \in HttpRequests /\ b.state = "PARSING_BODY" /\ b.bodyFirst = s.read /\ b.read = s.read
        /\ SameBody(s, b) /\ b.length = s.length /\ b.chunked = s.chunked /\ b.method = s.method
    BY <1>1 DEF HttpRequests, ParsingStates, SameBody
  <2> HIDE DEF b
  <2>4. b \in Storages /\ SameBody(q, b)
    BY <1>1, <2>3 DEF Storages, SameBody
  <2> QED
    BY <1>1, <1>5, <1>s, <1>l, <2>2, <2>3, <2>4
<1>6. CASE line # << >> /\ ~Blank(line)
  <2>1. t = IF IsParsingEnd(x) THEN Stop(x) ELSE GoOn(x)
    BY <1>3, <1>6
  <2>2. /\ x \in Storages /\ SameBody(s, x) /\ x.read = s.read /\ x.method = s.method
        /\ x.bodyFirst = s.bodyFirst
        /\ ~Fits(s, line) => x.state = "PARSING_BAD_REQUEST"
        /\ Fits(s, line) =>
             /\ x.state = "PARSING_HEADER" /\ x.headerSize = s.headerSize + Len(line) + 1
             /\ x.length = IF line[1] \in DOMAIN LengthOf THEN LengthOf[line[1]] ELSE s.length
             /\ x.chunked <=> s.chunked \/ line[1] = "CHUNKED"
    BY <1>1, <1>2, <1>6, HeaderFieldIs
  <2>3. Fits(s, line) <=> Fits(q, line)
    BY <1>1 DEF Fits
  <2> HIDE DEF x
  <2>4. SameBody(q, x)
    BY <1>1, <2>2 DEF SameBody
  <2>5. CASE ~Fits(q, line)
    <3>1. x.state = "PARSING_BAD_REQUEST"
      BY <2>2, <2>3, <2>5
    <3>2. t = Stop(x)
      BY <2>1, <3>1 DEF IsParsingEnd
    <3>3. t.request = x /\ t.again = FALSE
      BY <3>2 DEF Stop
    <3> QED
      BY <1>1, <1>6, <1>s, <1>l, <2>2, <2>4, <2>5, <3>1, <3>3
  <2>6. CASE Fits(q, line)
    <3>1. /\ x.state = "PARSING_HEADER" /\ x.headerSize = s.headerSize + Len(line) + 1
          /\ x.length = IF line[1] \in DOMAIN LengthOf THEN LengthOf[line[1]] ELSE s.length
          /\ x.chunked <=> s.chunked \/ line[1] = "CHUNKED"
      BY <2>2, <2>3, <2>6
    <3>2. t = GoOn(x)
      BY <2>1, <3>1 DEF IsParsingEnd
    <3>3. t.request = x /\ t.again = TRUE
      BY <3>2 DEF GoOn
    <3> QED
      BY <1>1, <1>6, <1>s, <1>l, <2>2, <2>4, <2>6, <3>1, <3>3
  <2> QED
    BY <2>5, <2>6
<1> QED
  BY <1>4, <1>5, <1>6

\* The fields that looking for the body does not change.
SameHeader(q, x) ==
  /\ x.bytes = q.bytes /\ x.method = q.method /\ x.chunked = q.chunked /\ x.length = q.length
  /\ x.bodyFirst = q.bodyFirst /\ x.uploaded = q.uploaded

LEMMA RemainsIs ==
  ASSUME NEW q \in Storages
  PROVE  /\ Remains(q) \in Seq(STRING) /\ Len(Remains(q)) = Len(q.bytes) - q.read
         /\ Len(Remains(q)) \in Nat
         /\ \A i \in 1..Len(Remains(q)) : Remains(q)[i] = q.bytes[q.read + i]
<1>1. q.bytes \in Seq(STRING) /\ q.read \in Nat /\ Len(q.bytes) \in Nat /\ q.read =< Len(q.bytes)
  BY FieldTypes
<1>2. q.read + 1 \in Nat \ {0} /\ Len(q.bytes) =< Len(q.bytes) /\ q.read + 1 =< Len(q.bytes) + 1
  BY <1>1
<1>3. /\ Remains(q) \in Seq(STRING) /\ Len(Remains(q)) = Len(q.bytes) - (q.read + 1) + 1
      /\ \A i \in 1..(Len(q.bytes) - (q.read + 1) + 1) : Remains(q)[i] = q.bytes[(q.read + 1) + i - 1]
  BY <1>1, <1>2, Part DEF Remains
<1>4. Len(q.bytes) - (q.read + 1) + 1 = Len(q.bytes) - q.read /\ Len(q.bytes) - q.read \in Nat
  BY <1>1
<1>5. ASSUME NEW i \in 1..Len(Remains(q)) PROVE Remains(q)[i] = q.bytes[q.read + i]
  <2>1. Remains(q)[i] = q.bytes[(q.read + 1) + i - 1]
    BY <1>3
  <2>2. (q.read + 1) + i - 1 = q.read + i
    BY <1>1, <1>3, <1>4
  <2> QED
    BY <2>1, <2>2
<1> QED
  BY <1>3, <1>4, <1>5

LEMMA BodyIs ==
  ASSUME NEW q \in Storages, NEW t, t = Body(q)
  PROVE  /\ t.request \in Storages /\ ~t.again /\ t.again \in BOOLEAN /\ SameHeader(q, t.request)
         /\ \/ t.request = q
            \/ /\ t.request.state = "UPLOADING_INIT" /\ t.request.chunkSize = q.length
               /\ t.request.read = q.read /\ Len(q.bytes) >= q.read + q.length
<1> DEFINE x == [q EXCEPT !.chunkSize = q.length, !.state = "UPLOADING_INIT"]
<1>1. /\ q \in HttpRequests /\ q.read \in 0..Len(q.bytes) /\ Len(q.bytes) \in Nat /\ q.length \in Int
      /\ q.read \in Nat
  BY FieldTypes DEF Storages
<1>2. CASE Unread(q) >= q.length
  <2>1. t.request = x /\ t.again = FALSE
    BY <1>2 DEF Body, Stop
  <2>2. x \in HttpRequests /\ x.state = "UPLOADING_INIT" /\ x.chunkSize = q.length /\ x.read = q.read
        /\ SameHeader(q, x)
    BY <1>1 DEF HttpRequests, ParsingStates, SameHeader
  <2>3. Len(q.bytes) >= q.read + q.length
    BY <1>1, <1>2 DEF Unread
  <2>4. x \in Storages
    BY <1>1, <2>2 DEF Storages, SameHeader
  <2> QED
    BY <2>1, <2>2, <2>3, <2>4
<1>3. CASE ~(Unread(q) >= q.length)
  BY <1>3 DEF Body, Stop, SameHeader
<1> QED
  BY <1>2, <1>3

\* strtol read a size and stopped at the CR, see SizeEnd.
HasSize(line) == SizeEnd(line) =< Len(line) /\ line[SizeEnd(line)] = "CR"

LEMMA SizesAre == \A y \in DOMAIN SizeOf : SizeOf[y] \in (-LongLimit)..(LongLimit - 1) /\ SizeOf[y] \in Int
BY SymbolAssumption, WidthAssumption

\* A line that does not start with CR has its size, if any, in the first place.
LEMMA SizeFirst ==
  ASSUME NEW line \in Seq(STRING), line # << >>, line[1] # "CR"
  PROVE  IF line[1] \in DOMAIN SizeOf THEN SizeEnd(line) = 2 /\ SizeSaid(line) = SizeOf[line[1]]
         ELSE SizeEnd(line) = 1 /\ SizeSaid(line) = 0
<1> DEFINE S == SizeAt(line)
<1>1. Len(line) \in Nat \ {0}
  BY LenProperties, EmptySeq
<1>2. \A i \in S : i = 1
  <2>1. SUFFICES ASSUME NEW i \in S, i # 1 PROVE FALSE
    OBVIOUS
  <2>2. i \in 1..Len(line) /\ \A j \in 1..(i - 1) : line[j] = "CR"
    BY <2>1 DEF SizeAt
  <2>3. 1 \in 1..(i - 1)
    BY <1>1, <2>1, <2>2
  <2> QED
    BY <2>2, <2>3
<1>3. CASE line[1] \in DOMAIN SizeOf
  <2>1. 1 \in S
    BY <1>1, <1>3 DEF SizeAt
  <2>2. S \in SUBSET Nat /\ S # {}
    BY <1>2, <2>1
  <2>3. Min(S) = 1
    BY <1>2, <2>2, MinIs
  <2>4. Min(SizeAt(line)) = 1 /\ SizeAt(line) # {}
    BY <2>2, <2>3
  <2> QED
    BY <1>3, <2>4 DEF SizeEnd, SizeSaid
<1>4. CASE line[1] \notin DOMAIN SizeOf
  <2>1. SizeAt(line) = {}
    <3>1. \A i \in S : line[i] \in DOMAIN SizeOf
      BY DEF SizeAt
    <3> QED
      BY <1>2, <1>4, <3>1
  <2> QED
    BY <1>4, <2>1 DEF SizeEnd, SizeSaid
<1> QED
  BY <1>3, <1>4

\* What is found is 0 or the size that one of the bytes is.
LEMMA SizeFound ==
  ASSUME NEW line \in Seq(STRING)
  PROVE  /\ SizeEnd(line) \in Nat \ {0} /\ SizeSaid(line) \in Int
         /\ \/ SizeSaid(line) = 0
            \/ \E i \in 1..Len(line) : line[i] \in DOMAIN SizeOf /\ SizeSaid(line) = SizeOf[line[i]]
<1> DEFINE S == SizeAt(line)
<1>1. Len(line) \in Nat
  BY LenProperties
<1>2. CASE S = {}
  BY <1>2 DEF SizeEnd, SizeSaid
<1>3. CASE S # {}
  <2>1. S \in SUBSET Nat
    BY <1>1 DEF SizeAt
  <2>2. Min(S) \in S
    BY <1>3, <2>1, MinIs
  <2> DEFINE m == Min(S)
  <2>3. SizeEnd(line) = m + 1 /\ SizeSaid(line) = SizeOf[line[m]]
    BY <1>3 DEF SizeEnd, SizeSaid
  <2>4. m \in 1..Len(line) /\ line[m] \in DOMAIN SizeOf
    BY <2>2 DEF SizeAt
  <2> HIDE DEF m
  <2>5. SizeOf[line[m]] \in Int
    BY <2>4, SizesAre
  <2> QED
    BY <1>1, <2>3, <2>4, <2>5
<1> QED
  BY <1>2, <1>3

LEMMA ParseChunkSizeIs ==
  ASSUME NEW s \in HttpRequests, NEW line \in Seq(STRING), NEW x, x = ParseChunkSize(s, line)
  PROVE  /\ x \in HttpRequests /\ SameHeader(s, x) /\ x.read = s.read
         /\ line = << >> => x.chunkSize = -1 /\ x.state = s.state
         /\ line # << >> /\ ~HasSize(line) => x.chunkSize = -1 /\ x.state = "PARSING_BAD_REQUEST"
         /\ line # << >> /\ HasSize(line) => x.chunkSize = SizeSaid(line) /\ x.state = s.state
<1>1. s \in HttpRequests /\ Len(line) \in Nat
  BY LenProperties
<1>2. SizeEnd(line) \in Nat
  BY SizeFound
<1>3. SizeSaid(line) \in Int
  BY SizeFound
<1>4. CASE line = << >>
  <2> DEFINE no == -1
  <2>1. x = [s EXCEPT !.chunkSize = no]
    BY <1>4 DEF ParseChunkSize
  <2>2. no \in Int
    OBVIOUS
  <2> HIDE DEF no
  <2>3. x \in HttpRequests /\ SameHeader(s, x) /\ x.read = s.read /\ x.chunkSize = no /\ x.state = s.state
    BY <1>1, <2>1, <2>2 DEF HttpRequests, SameHeader
  <2> QED
    BY <1>1, <1>4, <2>3 DEF SameHeader, no
<1>5. CASE line # << >> /\ ~HasSize(line)
  <2>1. SizeEnd(line) > Len(line) \/ line[SizeEnd(line)] # "CR"
    BY <1>1, <1>2, <1>5 DEF HasSize
  <2> DEFINE no == -1
  <2>2. x = [Bad(s) EXCEPT !.chunkSize = no] /\ no \in Int
    BY <1>5, <2>1 DEF ParseChunkSize
  <2> HIDE DEF no
  <2>3. /\ Bad(s) \in HttpRequests /\ SameHeader(s, Bad(s)) /\ Bad(s).read = s.read
        /\ Bad(s).state = "PARSING_BAD_REQUEST"
    BY <1>1 DEF Bad, HttpRequests, ParsingStates, SameHeader
  <2>4. /\ x \in HttpRequests /\ SameHeader(Bad(s), x) /\ x.read = Bad(s).read /\ x.chunkSize = no
        /\ x.state = Bad(s).state
    BY <2>2, <2>3 DEF HttpRequests, SameHeader
  <2>5. SameHeader(s, x) /\ x.read = s.read /\ x.state = "PARSING_BAD_REQUEST"
    BY <2>3, <2>4 DEF SameHeader
  <2> QED
    BY <1>1, <1>5, <2>4, <2>5 DEF SameHeader, no
<1>6. CASE line # << >> /\ HasSize(line)
  <2> DEFINE z == SizeSaid(line)
  <2>1. ~(SizeEnd(line) > Len(line) \/ line[SizeEnd(line)] # "CR")
    BY <1>1, <1>2, <1>6 DEF HasSize
  <2>2. x = [s EXCEPT !.chunkSize = z]
    BY <1>6, <2>1 DEF ParseChunkSize
  <2>3. z \in Int
    BY <1>3
  <2> HIDE DEF z
  <2>4. x \in HttpRequests /\ SameHeader(s, x) /\ x.read = s.read /\ x.chunkSize = z /\ x.state = s.state
    BY <1>1, <2>2, <2>3 DEF HttpRequests, SameHeader
  <2> QED
    BY <1>1, <1>6, <2>3, <2>4 DEF SameHeader, z
<1> QED
  BY <1>4, <1>5, <1>6

\* A line is read wherever the position is.
LEMMA LineIsRead ==
  ASSUME NEW q \in HttpRequests
  PROVE  /\ SkipLine(q) \in HttpRequests /\ Reread(q, SkipLine(q)) /\ GetLine(q) \in Seq(STRING)
         /\ q \in Storages => SkipLine(q) \in Storages /\ SkipLine(q).read >= q.read
         /\ SkipLine(q).bytes = q.bytes
<1>1. CASE q \in Storages
  BY <1>1, SkipLineIs, GetLineIs, RereadIs DEF Storages
<1>2. CASE q \notin Storages
  <2>1. SkipLine(q) = q /\ GetLine(q) = << >>
    BY <1>2, NoLineOutside
  <2>2. q = [q EXCEPT !.read = q.read]
    BY DEF HttpRequests
  <2> QED
    BY <1>2, <2>1, <2>2, EmptySeq DEF Reread
<1> QED
  BY <1>1, <1>2

LEMMA ChunkHeaderIs ==
  ASSUME NEW q \in HttpRequests, NEW h, h = ChunkHeader(q)
  PROVE  /\ h \in HttpRequests /\ SameHeader(q, h)
         /\ q \in Storages => h \in Storages /\ h.read >= q.read
         /\ q.chunkSize # -1 => h = q
         /\ q.chunkSize = -1 => h.read = SkipLine(q).read
         /\ q.chunkSize = -1 /\ HasSize(GetLine(q)) /\ GetLine(q) # << >>
              => h.chunkSize = SizeSaid(GetLine(q)) /\ h.state = q.state
         /\ h.chunkSize \in {q.chunkSize, -1, SizeSaid(GetLine(q))}
         /\ h.state # q.state => h.state = "PARSING_BAD_REQUEST"
<1>1. /\ SkipLine(q) \in HttpRequests /\ SameHeader(q, SkipLine(q)) /\ SkipLine(q).state = q.state
      /\ q \in Storages => SkipLine(q) \in Storages /\ SkipLine(q).read >= q.read
  BY LineIsRead, RereadAny DEF SameHeader
<1>2. GetLine(q) \in Seq(STRING)
  BY LineIsRead
<1>3. q.read \in Int
  BY Fields
<1>4. CASE q.chunkSize # -1
  BY <1>3, <1>4 DEF ChunkHeader, SameHeader
<1>5. CASE q.chunkSize = -1
  <2>1. h = ParseChunkSize(SkipLine(q), GetLine(q))
    BY <1>5 DEF ChunkHeader
  <2>2. /\ h \in HttpRequests /\ SameHeader(SkipLine(q), h) /\ h.read = SkipLine(q).read
        /\ GetLine(q) = << >> => h.chunkSize = -1 /\ h.state = SkipLine(q).state
        /\ GetLine(q) # << >> /\ ~HasSize(GetLine(q)) => h.chunkSize = -1 /\ h.state = "PARSING_BAD_REQUEST"
        /\ GetLine(q) # << >> /\ HasSize(GetLine(q))
             => h.chunkSize = SizeSaid(GetLine(q)) /\ h.state = SkipLine(q).state
    BY <1>1, <1>2, <2>1, ParseChunkSizeIs
  <2>3. SameHeader(q, h)
    BY <1>1, <2>2 DEF SameHeader
  <2>4. q \in Storages => h \in Storages
    BY <1>1, <2>2 DEF Storages, SameHeader
  <2> QED
    BY <1>1, <1>5, <2>2, <2>3, <2>4
<1> QED
  BY <1>4, <1>5

LEMMA NotWrapped ==
  ASSUME NEW q, q.chunkSize \in Moderate
  PROVE  /\ ChunkEnd(q) = q.chunkSize + 2 /\ Wrapped(ChunkEnd(q), IntLimit) = q.chunkSize + 2
         /\ q.chunkSize + 2 \in 1..(IntLimit - 1)
<1> DEFINE z == q.chunkSize + 2
<1>1. z \in 1..(IntLimit - 1) /\ z \in (-IntLimit)..(IntLimit - 1) /\ z \in (-LongLimit)..(LongLimit - 1)
  BY WidthAssumption DEF Moderate
<1> HIDE DEF z
<1>2. Wrapped(z, LongLimit) = z /\ Wrapped(z, IntLimit) = z
  BY <1>1 DEF Wrapped
<1>3. ChunkEnd(q) = z
  BY <1>2 DEF ChunkEnd, z
<1> QED
  BY <1>1, <1>2, <1>3 DEF z

LEMMA AllChunksFoundIs ==
  ASSUME NEW s \in HttpRequests, s.bodyFirst =< Len(s.bytes), NEW x, x = AllChunksFound(s)
  PROVE  /\ x \in Storages /\ SameHeader(s, x)
         /\ x.chunkSize = -1 /\ x.read = s.bodyFirst /\ x.state = "UPLOADING_CHUNK_INIT"
<1> DEFINE no == -1
           b == s.bodyFirst
           u == "UPLOADING_CHUNK_INIT"
<1>1. b \in Nat /\ b =< Len(s.bytes) /\ no \in Int /\ Len(s.bytes) \in Nat /\ u \in ParsingStates
  BY Fields DEF ParsingStates
<1>2. x = [s EXCEPT !.chunkSize = no, !.read = b, !.state = u]
  BY DEF AllChunksFound
<1> HIDE DEF no, b, u
<1>3. x \in HttpRequests
  <2> DEFINE y == [s EXCEPT !.chunkSize = no]
             z == [y EXCEPT !.read = b]
  <2>1. y = [s EXCEPT !.chunkSize = no] /\ z = [y EXCEPT !.read = b] /\ x = [z EXCEPT !.state = u]
    BY <1>2
  <2> HIDE DEF y, z
  <2>2. y \in HttpRequests
    <3>1. no \in Int /\ y = [s EXCEPT !.chunkSize = no]
      BY <1>1, <2>1
    <3> QED
      BY <3>1 DEF HttpRequests
  <2>3. z \in HttpRequests
    <3>1. b \in Int /\ z = [y EXCEPT !.read = b]
      BY <1>1, <2>1
    <3> QED
      BY <2>2, <3>1 DEF HttpRequests
  <2>4. u \in ParsingStates /\ x = [z EXCEPT !.state = u]
    BY <1>1, <2>1
  <2> QED
    BY <2>3, <2>4 DEF HttpRequests
<1>4. x.chunkSize = no /\ x.read = b /\ x.state = u /\ SameHeader(s, x)
  BY <1>2 DEF HttpRequests, SameHeader
<1>5. x.read \in 0..Len(x.bytes)
  BY <1>1, <1>4 DEF SameHeader
<1> QED
  BY <1>3, <1>4, <1>5 DEF Storages, no, b, u

\* Moved by n, in front of the next size.
LEMMA SkipChunkIs ==
  ASSUME NEW h \in HttpRequests, NEW x, x = SkipChunk(h)
  PROVE  /\ x \in HttpRequests /\ SameHeader(h, x) /\ x.chunkSize = -1 /\ x.state = h.state
         /\ x.read = h.read + Wrapped(ChunkEnd(h), IntLimit)
<1> DEFINE w == Wrapped(ChunkEnd(h), IntLimit)
           n == h.read + w
           no == -1
<1>1. \A y \in Int, l \in Nat : 0 < l => Wrapped(y, l) \in Int
  <2>1. SUFFICES ASSUME NEW y \in Int, NEW l \in Nat, 0 < l PROVE Wrapped(y, l) \in Int
    OBVIOUS
  <2> DEFINE a == y + l
             d == 2 * l
  <2>2. a \in Int /\ d \in Nat /\ 0 < d
    BY <2>1
  <2> HIDE DEF a, d
  <2>3. a % d \in Int
    BY <2>2
  <2>4. (a % d) - l \in Int
    BY <2>3
  <2> QED
    BY <2>4 DEF Wrapped, a, d
<1>2. h.chunkSize + 2 \in Int /\ h.read \in Int
  BY Fields
<1>3. ChunkEnd(h) \in Int
  BY <1>1, <1>2, WidthAssumption DEF ChunkEnd
<1>4. w \in Int
  BY <1>1, <1>3, WidthAssumption
<1> HIDE DEF w
<1>5. n \in Int /\ no \in Int
  BY <1>2, <1>4
<1>6. x = [h EXCEPT !.read = n, !.chunkSize = no]
  BY DEF SkipChunk, w
<1> HIDE DEF n, no
<1>7. x \in HttpRequests /\ x.read = n /\ x.chunkSize = no /\ SameHeader(h, x) /\ x.state = h.state
  BY <1>5, <1>6 DEF HttpRequests, SameHeader
<1> QED
  BY <1>7 DEF n, no, w

\* _parseChunk: what was counted is rewound, one chunk is skipped, or the loop
\* waits for more, in front of a size or behind it.
LEMMA ChunkIs ==
  ASSUME NEW q \in HttpRequests, q.bodyFirst =< Len(q.bytes), NEW t, t = Chunk(q), NEW h, h = ChunkHeader(q)
  PROVE  /\ t.request \in HttpRequests /\ t.again \in BOOLEAN /\ SameHeader(q, t.request)
         /\ \/ /\ q.chunkSize = -1 /\ GetLine(q) = << >> /\ ~t.again /\ t.request = SkipLine(q)
            \/ /\ h.chunkSize = 0 /\ GetLine(h) = << >> /\ ~t.again /\ t.request = SkipLine(h)
            \/ /\ h.chunkSize = 0 /\ GetLine(h) # << >> /\ ~t.again
               /\ t.request.state = "UPLOADING_CHUNK_INIT" /\ t.request.read = q.bodyFirst
               /\ t.request.chunkSize = -1
            \/ /\ h.chunkSize # 0 /\ t.again /\ Unread(h) > ChunkEnd(h)
               /\ t.request.read = h.read + Wrapped(ChunkEnd(h), IntLimit)
               /\ t.request.chunkSize = -1 /\ t.request.state = h.state
            \/ /\ h.chunkSize # 0 /\ ~t.again /\ t.request = h
         /\ q.chunkSize = -1 /\ GetLine(q) = << >> => t.request = SkipLine(q) /\ ~t.again
<1>1. h \in HttpRequests /\ SameHeader(q, h)
  BY ChunkHeaderIs
<1>2. /\ SkipLine(q) \in HttpRequests /\ SameHeader(q, SkipLine(q))
      /\ SkipLine(h) \in HttpRequests /\ SameHeader(h, SkipLine(h))
  BY <1>1, LineIsRead, RereadAny DEF SameHeader
<1>3. SameHeader(q, SkipLine(h))
  BY <1>1, <1>2 DEF SameHeader
<1>4. Chunk(q) = IF q.chunkSize = -1 /\ GetLine(q) = << >> THEN Stop(SkipLine(q))
                 ELSE IF h.chunkSize = 0
                 THEN Stop(IF GetLine(h) = << >> THEN SkipLine(h) ELSE AllChunksFound(SkipLine(h)))
                 ELSE IF Unread(h) > ChunkEnd(h) THEN GoOn(SkipChunk(h)) ELSE Stop(h)
  BY DEF Chunk
<1>5. CASE q.chunkSize = -1 /\ GetLine(q) = << >>
  BY <1>2, <1>4, <1>5 DEF Stop
<1>6. CASE ~(q.chunkSize = -1 /\ GetLine(q) = << >>) /\ h.chunkSize = 0
  <2>1. CASE GetLine(h) = << >>
    BY <1>2, <1>3, <1>4, <1>6, <2>1 DEF Stop
  <2>2. CASE GetLine(h) # << >>
    <3> DEFINE s == SkipLine(h)
               x == AllChunksFound(s)
    <3>1. t = Stop(x)
      BY <1>4, <1>6, <2>2
    <3>2. s \in HttpRequests /\ s.bodyFirst = q.bodyFirst /\ s.bytes = q.bytes /\ SameHeader(q, s)
      BY <1>2, <1>3 DEF SameHeader
    <3> HIDE DEF s
    <3>3. /\ x \in Storages /\ SameHeader(s, x)
          /\ x.chunkSize = -1 /\ x.read = s.bodyFirst /\ x.state = "UPLOADING_CHUNK_INIT"
      BY <3>2, AllChunksFoundIs
    <3>4. x \in HttpRequests /\ SameHeader(q, x) /\ x.read = q.bodyFirst
      BY <3>2, <3>3 DEF Storages, SameHeader
    <3> HIDE DEF x
    <3>5. t.request = x /\ t.again = FALSE
      BY <3>1 DEF Stop
    <3> QED
      BY <1>6, <2>2, <3>3, <3>4, <3>5
  <2> QED
    BY <2>1, <2>2
<1>7. CASE ~(q.chunkSize = -1 /\ GetLine(q) = << >>) /\ h.chunkSize # 0 /\ Unread(h) > ChunkEnd(h)
  <2> DEFINE x == SkipChunk(h)
  <2>1. t = GoOn(x)
    BY <1>4, <1>7
  <2>2. /\ x \in HttpRequests /\ SameHeader(h, x) /\ x.chunkSize = -1 /\ x.state = h.state
        /\ x.read = h.read + Wrapped(ChunkEnd(h), IntLimit)
    BY <1>1, SkipChunkIs
  <2> HIDE DEF x
  <2>3. t.request = x /\ t.again = TRUE
    BY <2>1 DEF GoOn
  <2>4. SameHeader(q, x)
    BY <1>1, <2>2 DEF SameHeader
  <2> QED
    BY <1>7, <2>2, <2>3, <2>4
<1>8. CASE ~(q.chunkSize = -1 /\ GetLine(q) = << >>) /\ h.chunkSize # 0 /\ ~(Unread(h) > ChunkEnd(h))
  <2>1. t = Stop(h)
    BY <1>4, <1>8
  <2>2. t.request = h /\ t.again = FALSE
    BY <2>1 DEF Stop
  <2> QED
    BY <1>1, <1>8, <2>2
<1> QED
  BY <1>5, <1>6, <1>7, <1>8

\* With a size that is neither negative nor too large the next one stands behind it.
LEMMA ModerateChunk ==
  ASSUME NEW q \in Storages, q.bodyFirst =< Len(q.bytes), NEW t, t = Chunk(q), NEW h, h = ChunkHeader(q),
         h.chunkSize \in Moderate
  PROVE  /\ t.request \in Storages
         /\ t.again => t.request.read = h.read + h.chunkSize + 2
<1>1. h \in Storages /\ h.read \in Nat /\ Len(h.bytes) \in Nat /\ h.read =< Len(h.bytes) /\ q \in HttpRequests
      /\ h \in HttpRequests /\ h.bytes = q.bytes /\ q.bodyFirst \in Nat
  BY ChunkHeaderIs, FieldTypes DEF Storages, SameHeader
<1>2. ChunkEnd(h) = h.chunkSize + 2 /\ Wrapped(ChunkEnd(h), IntLimit) = h.chunkSize + 2
  BY NotWrapped
<1>3. SkipLine(q) \in Storages /\ SkipLine(h) \in Storages
  BY <1>1, SkipLineIs
<1>4. /\ t.request \in HttpRequests /\ t.request.bytes = q.bytes
      /\ \/ ~t.again /\ t.request \in {SkipLine(q), SkipLine(h), h}
         \/ ~t.again /\ t.request.read = q.bodyFirst
         \/ /\ t.again /\ Unread(h) > ChunkEnd(h)
            /\ t.request.read = h.read + Wrapped(ChunkEnd(h), IntLimit)
  BY <1>1, ChunkIs DEF SameHeader
<1>5. CASE ~t.again /\ t.request \in {SkipLine(q), SkipLine(h), h}
  BY <1>1, <1>3, <1>5
<1>6. CASE ~t.again /\ t.request.read = q.bodyFirst
  BY <1>1, <1>4, <1>6 DEF Storages
<1>7. CASE t.again /\ Unread(h) > ChunkEnd(h) /\ t.request.read = h.read + Wrapped(ChunkEnd(h), IntLimit)
  <2> DEFINE z == h.chunkSize
             d == h.read
             l == Len(h.bytes)
             n == t.request.read
  <2>1. n = d + (z + 2) /\ l - d > z + 2 /\ d \in Nat /\ l \in Nat /\ z \in Int /\ -1 =< z
    BY <1>1, <1>2, <1>7, WidthAssumption DEF Unread, Moderate
  <2> HIDE DEF z, d, l, n
  <2>2. n = d + z + 2 /\ n \in 0..l
    BY <2>1
  <2> QED
    BY <1>1, <1>4, <2>2 DEF z, d, l, n, Storages
<1> QED
  BY <1>4, <1>5, <1>6, <1>7

-----------------------------------------------------------------------------
(* The turns of parseRequest on the bytes of a request *)

\* What holds after a turn.
After(r, t) ==
  /\ t.again \in BOOLEAN
  /\ Parsed(r, t.request, t.again) /\ Uploads(r, t.request, << >>)
  /\ t.again => AtWork(t.request, TRUE)

LEMMA LineEndUnique ==
  ASSUME NEW b \in Seq(STRING), NEW i \in Nat, NEW d \in Nat, NEW e \in Nat,
         LineEndsAt(b, i, d), LineEndsAt(b, i, e)
  PROVE  d = e
<1>1. d < e => d \in i..(e - 1)
  BY DEF LineEndsAt
<1>2. e < d => e \in i..(d - 1)
  BY DEF LineEndsAt
<1>3. ~(d < e) /\ ~(e < d)
  BY <1>1, <1>2 DEF LineEndsAt
<1> QED
  BY <1>3

LEMMA RequestIs ==
  ASSUME NEW r \in Requests
  PROVE  /\ r.bytes \in Seq(STRING) /\ Len(r.bytes) \in Nat /\ r.lines \in Nat
         /\ r.payload \in Seq(STRING) /\ Len(r.payload) \in Nat
         /\ r.starts \in Seq(Nat) /\ Len(r.starts) \in Nat
         /\ \A k \in 1..Len(r.starts) : r.starts[k] \in Nat
<1>1. r.bytes \in Seq(STRING) /\ r.payload \in Seq(STRING) /\ r.lines \in Nat /\ r.starts \in Seq(Nat)
  BY RequestAssumption
<1> QED
  BY <1>1, LenProperties, ElementOfSeq

LEMMA LinesAreGood ==
  ASSUME NEW r \in Requests, GoodHeader(r) \/ BadField(r)
  PROVE  GoodLines(r) /\ r.lines \in Nat \ {0}
<1>1. GoodLines(r)
  BY DEF GoodHeader, BadField, FlawedField
<1> QED
  BY <1>1, RequestIs DEF GoodLines

LEMMA HeaderOrFlaw ==
  ASSUME NEW r \in Requests
  PROVE  ~(GoodHeader(r) /\ BadField(r))
<1> SUFFICES ASSUME GoodHeader(r), BadField(r) PROVE FALSE
  OBVIOUS
<1>1. r.bytes \in Seq(STRING) /\ r.lines \in Nat /\ Len(r.bytes) \in Nat
  BY RequestIs
<1>2. PICK e \in 1..Len(r.bytes) : FlawedField(r, e)
  BY DEF BadField
<1>3. LineEndsAt(r.bytes, 3 * r.lines + 1, e) /\ ~(e = (3 * r.lines + 1) + 1 /\ r.bytes[3 * r.lines + 1] = "CR")
  BY <1>2 DEF FlawedField
<1>4. 3 * r.lines + 2 - 1 = 3 * r.lines + 1 /\ (3 * r.lines + 1) + 1 = 3 * r.lines + 2
  BY <1>1
<1>5. r.bytes[3 * r.lines + 1] = "CR" /\ LineEndsAt(r.bytes, 3 * r.lines + 1, 3 * r.lines + 2)
  BY <1>1, <1>4 DEF GoodHeader, HeaderEnd
<1>6. e \in Nat /\ 3 * r.lines + 1 \in Nat /\ 3 * r.lines + 2 \in Nat
  BY <1>1
<1>7. e = 3 * r.lines + 2
  BY <1>1, <1>3, <1>5, <1>6, LineEndUnique
<1> QED
  BY <1>3, <1>4, <1>5, <1>7

LEMMA FirstLine ==
  ASSUME NEW r \in Requests, GoodLines(r)
  PROVE  /\ IsLine(r.bytes, 1) /\ r.bytes[1] # "LF" /\ r.bytes[1] \in RequestLines
         /\ Symbol(r, 1) = r.bytes[1]
<1>1. 1 \in 1..r.lines
  BY RequestIs DEF GoodLines
<1>2. 3 * 1 - 2 = 1
  OBVIOUS
<1>3. Symbol(r, 1) = r.bytes[1]
  BY <1>2 DEF Symbol
<1>4. IsLine(r.bytes, 1)
  <2>1. IsLine(r.bytes, 3 * 1 - 2)
    BY <1>1 DEF GoodLines
  <2> QED
    BY <1>2, <2>1
<1>5. r.bytes[1] # "LF"
  BY <1>4 DEF IsLine, LineEndsAt
<1> QED
  BY <1>3, <1>4, <1>5 DEF GoodLines

LEMMA ChunkedSaid ==
  ASSUME NEW r \in Requests, NEW n \in Nat \ {0}
  PROVE  /\ ~SaysChunked(r, 1)
         /\ SaysChunked(r, n + 1) <=> SaysChunked(r, n) \/ Symbol(r, n + 1) = "CHUNKED"
<1>1. 2..(n + 1) = (2..n) \cup {n + 1} /\ 2..1 = {}
  OBVIOUS
<1> QED
  BY <1>1 DEF SaysChunked

LEMMA LengthSaid ==
  ASSUME NEW r \in Requests, NEW n \in Nat \ {0}
  PROVE  /\ SaysLength(r, 1) = 0
         /\ SaysLength(r, n + 1) = IF Symbol(r, n + 1) \in DOMAIN LengthOf
                                   THEN LengthOf[Symbol(r, n + 1)] ELSE SaysLength(r, n)
<1>1. LengthLines(r, 1) = {}
  BY DEF LengthLines
<1>2. CASE Symbol(r, n + 1) \in DOMAIN LengthOf
  <2> DEFINE S == LengthLines(r, n + 1)
  <2>1. S \in SUBSET Nat /\ n + 1 \in S /\ S # {} /\ n + 1 \in Nat /\ \A i \in S : i =< n + 1
    BY <1>2 DEF LengthLines
  <2>2. Max(S) \in S /\ \A j \in S : Max(S) >= j
    BY <2>1, MaxIs
  <2>3. Max(S) >= n + 1 /\ Max(S) =< n + 1 /\ Max(S) \in Nat
    BY <2>1, <2>2
  <2>4. Max(S) = n + 1
    BY <2>3
  <2>5. SaysLength(r, n + 1) = LengthOf[Symbol(r, Max(S))]
    BY <2>1 DEF SaysLength
  <2> QED
    BY <1>1, <1>2, <2>4, <2>5 DEF SaysLength
<1>3. CASE Symbol(r, n + 1) \notin DOMAIN LengthOf
  <2>1. LengthLines(r, n + 1) = LengthLines(r, n)
    <3>1. 2..(n + 1) = (2..n) \cup ({n + 1} \ {1})
      OBVIOUS
    <3> QED
      BY <1>3, <3>1 DEF LengthLines
  <2> QED
    BY <1>1, <1>3, <2>1 DEF SaysLength
<1> QED
  BY <1>2, <1>3

LEMMA ParsedIs ==
  ASSUME NEW r \in Requests, NEW q, NEW again \in BOOLEAN, Parsed(r, q, again)
  PROVE  /\ Holding(r, q) /\ Steady(r, q) /\ q \in HttpRequests
         /\ ~CountsChunks(q) => Holds(r, q) /\ q \in Storages
         /\ Harmless(r) => Holds(r, q) /\ q \in Storages
         /\ WellFormed(r) => Holds(r, q) /\ q \in Storages
         /\ Begun(r, q, again) /\ HeaderSaid(r, q) /\ BodyFound(r, q) /\ FlawSeen(r, q, again)
BY DEF Parsed, Holding, Holds, Steady, Harmless

\* Before the chunks are looked at, and when they have been found.
LEMMA ParsedInMemory ==
  ASSUME NEW r \in Requests, NEW q, NEW again \in BOOLEAN, Parsed(r, q, again),
         q.state # "PARSING_BODY", q.state # "PARSING_BAD_REQUEST", q.state # "PARSING_FOR_EVER"
  PROVE  /\ Holds(r, q) /\ q \in Storages
         /\ Begun(r, q, again) /\ HeaderSaid(r, q) /\ BodyFound(r, q) /\ FlawSeen(r, q, again)
<1>1. ~CountsChunks(q)
  BY DEF CountsChunks
<1> QED
  BY <1>1, ParsedIs

\* What stands in the memory is steady.
LEMMA HoldsSteady ==
  ASSUME NEW r \in Requests, NEW q, Holds(r, q), q.state # "PARSING_FOR_EVER"
  PROVE  Holding(r, q) /\ Steady(r, q)
BY DEF Holds, Steady

LEMMA NoneIsModerate == \A n : n = -1 => n \in Moderate
BY WidthAssumption DEF Moderate

LEMMA ParsedAtRest ==
  ASSUME NEW r \in Requests, NEW q, Parsed(r, q, TRUE)
  PROVE  Parsed(r, q, FALSE)
BY DEF Parsed, Begun, FlawSeen, AtWork

LEMMA HoldsNext ==
  ASSUME NEW r \in Requests, NEW q, Holds(r, q), NEW x \in Storages, x.bytes = q.bytes
  PROVE  Holds(r, x)
BY DEF Holds, Holding, Storages

LEMMA NoUpload ==
  ASSUME NEW r \in Requests, NEW q, q.state \notin UploadStates
  PROVE  Uploads(r, q, << >>)
BY DEF Uploads, UploadStates

LEMMA StartLineKeeps ==
  ASSUME NEW r \in Requests, NEW q, Parsed(r, q, TRUE), q.state = "PARSING_INIT",
         NEW t, t = StartLine(q)
  PROVE  After(r, t)
<1> DEFINE x == t.request
<1>1. Holds(r, q) /\ q \in Storages /\ Begun(r, q, TRUE)
  BY ParsedInMemory
<1>2. /\ q.uploaded = 0 /\ q.headerSize = 0 /\ ~q.chunked /\ q.length = 0 /\ q.chunkSize = -1
      /\ r.bytes[1] # "LF" => q.read = 0
  BY <1>1 DEF Begun, AtWork
<1>3. /\ x \in Storages /\ t.again \in BOOLEAN /\ SameBody(q, x)
      /\ x.read = SkipLine(q).read /\ x.bodyFirst = q.bodyFirst
      /\ x.chunked = q.chunked /\ x.length = q.length
      /\ \/ /\ GetLine(q) = << >> /\ ~t.again /\ x.state = "PARSING_INIT"
            /\ x.headerSize = q.headerSize
         \/ /\ GetLine(q) # << >> /\ ~Opens(GetLine(q))
            /\ ~t.again /\ x.state = "PARSING_BAD_REQUEST"
         \/ /\ GetLine(q) # << >> /\ Opens(GetLine(q)) /\ t.again /\ x.state = "PARSING_HEADER"
            /\ x.method = GetLine(q)[1] /\ x.headerSize = q.headerSize + 3
  BY <1>1, StartLineIs
<1> HIDE DEF x
<1>4. Holds(r, x)
  BY <1>1, <1>3, HoldsNext DEF SameBody
<1>5. x.uploaded = 0 /\ x.chunkSize = -1 /\ ~x.chunked /\ x.length = 0
  BY <1>2, <1>3 DEF SameBody
<1>6. ASSUME GoodLines(r), GetLine(q) # << >>
      PROVE  /\ Opens(GetLine(q)) /\ x.read = 3 /\ GetLine(q)[1] = Symbol(r, 1)
  <2>1. IsLine(r.bytes, 1) /\ q.read = 0 /\ r.bytes[1] \in RequestLines /\ Symbol(r, 1) = r.bytes[1]
    BY <1>2, <1>6, FirstLine
  <2>2. q.read + 1 = 1 /\ q.read + 3 = 3
    BY <2>1
  <2>3. IsLine(r.bytes, q.read + 1)
    BY <2>1, <2>2
  <2>4. /\ Len(GetLine(q)) = 2 /\ GetLine(q)[1] = r.bytes[q.read + 1] /\ GetLine(q)[2] = "CR"
        /\ SkipLine(q).read = q.read + 3
    BY <1>1, <1>6, <2>3, SymbolLine
  <2> QED
    BY <1>3, <2>1, <2>2, <2>4 DEF Opens
<1>7. Begun(r, x, t.again)
  <2>1. ASSUME x.state = "PARSING_INIT", r.bytes[1] # "LF" PROVE x.read = 0
    <3>1. q.read = 0 /\ GetLine(q) = << >>
      BY <1>2, <1>3, <2>1
    <3>2. ~(q.read + 1 =< Len(q.bytes) /\ q.bytes[q.read + 1] = "LF")
      <4>1. Len(q.bytes) \in Nat /\ \A i \in 1..Len(q.bytes) : q.bytes[i] = r.bytes[i]
        BY <1>1, HoldsIs
      <4> QED
        BY <2>1, <3>1, <4>1
    <3>3. SkipLine(q) = q
      BY <1>1, <3>1, <3>2, EmptyGetLine
    <3> QED
      BY <1>3, <3>1, <3>3
  <2>2. x.state = "PARSING_INIT" => x.headerSize = 0
    BY <1>2, <1>3
  <2>3. ~(AtWork(x, t.again) /\ x.state \notin {"PARSING_INIT", "PARSING_HEADER"})
    BY <1>3 DEF AtWork
  <2>4. x.chunkSize \in Moderate
    BY <1>5, NoneIsModerate
  <2> QED
    BY <1>5, <2>1, <2>2, <2>3, <2>4 DEF Begun
<1>8. HeaderSaid(r, x)
  <2>1. ASSUME x.state = "PARSING_HEADER", GoodHeader(r) \/ BadField(r) PROVE InHeader(r, x)
    <3>1. GoodLines(r) /\ r.lines \in Nat \ {0} /\ GetLine(q) # << >>
      BY <1>3, <2>1, LinesAreGood
    <3>2. x.read = 3 /\ x.headerSize = 3 /\ x.method = Symbol(r, 1)
      BY <1>2, <1>3, <1>6, <2>1, <3>1
    <3>3. x.length = SaysLength(r, 1) /\ ~SaysChunked(r, 1)
      BY <1>5, LengthSaid, ChunkedSaid
    <3>4. Passed(r, x, 1)
      BY <1>5, <3>2, <3>3 DEF Passed, Said
    <3>5. 1 \in 1..r.lines
      BY <3>1
    <3> QED
      BY <3>4, <3>5 DEF InHeader
  <2>2. ASSUME x.state \notin {"PARSING_INIT", "PARSING_HEADER"}, GoodHeader(r) PROVE FALSE
    BY <1>3, <1>6, <2>2, LinesAreGood
  <2> QED
    BY <2>1, <2>2 DEF HeaderSaid
<1>9. BodyFound(r, x)
  <2>1. WellFormed(r) => GoodHeader(r)
    BY DEF WellFormed
  <2>2. ASSUME WellFormed(r) PROVE x.state # "PARSING_BAD_REQUEST"
    BY <1>3, <1>6, <2>1, <2>2, LinesAreGood
  <2>3. x.state # "PARSING_BODY"
    BY <1>3
  <2> QED
    BY <2>2, <2>3 DEF BodyFound
<1>10. FlawSeen(r, x, t.again)
  <2>1. ASSUME BadStart(r), x.state = "PARSING_HEADER" PROVE FALSE
    <3>1. PICK e \in 1..Len(r.bytes) : FlawedStart(r, e)
      BY <2>1 DEF BadStart
    <3>2. LineEndsAt(r.bytes, 1, e) /\ e > 1 /\ ~(e = 3 /\ r.bytes[1] \in RequestLines /\ r.bytes[2] = "CR")
      BY <3>1 DEF FlawedStart
    <3>3. e \in Nat
      BY RequestIs
    <3>4. r.bytes[1] # "LF"
      BY <3>2, <3>3 DEF LineEndsAt
    <3>5. q.read = 0 /\ q.read + 1 = 1
      BY <1>2, <3>4
    <3>6. GetLine(q) # << >> /\ Opens(GetLine(q))
      BY <1>3, <2>1
    <3>7. LineEndsAt(r.bytes, q.read + 1, e) /\ e > q.read + 1
      BY <3>2, <3>5
    <3>8. /\ Len(GetLine(q)) = e - q.read - 1
          /\ \A i \in 1..Len(GetLine(q)) : GetLine(q)[i] = r.bytes[q.read + i]
      BY <1>1, <3>3, <3>6, <3>7, OtherLine
    <3>9. e = 3
      <4>1. Len(GetLine(q)) = 2
        BY <3>6 DEF Opens
      <4>2. e - 0 - 1 = 2
        BY <3>5, <3>8, <4>1
      <4> QED
        BY <3>3, <4>2
    <3>10. GetLine(q)[1] = r.bytes[1] /\ GetLine(q)[2] = r.bytes[2]
      BY <3>5, <3>6, <3>8 DEF Opens
    <3> QED
      BY <3>2, <3>6, <3>9, <3>10 DEF Opens
  <2> QED
    BY <1>3, <2>1 DEF FlawSeen
<1>11. Uploads(r, x, << >>)
  BY <1>3, NoUpload DEF UploadStates
<1>12. t.again => AtWork(x, TRUE)
  BY <1>3 DEF AtWork
<1>13. Holding(r, x) /\ Steady(r, x)
  BY <1>3, <1>4, HoldsSteady
<1> QED
  BY <1>3, <1>7, <1>8, <1>9, <1>10, <1>11, <1>12, <1>13 DEF After, Parsed, x

\* The line after the first n good ones is good, or it is the one that follows them all.
LEMMA GoodLine ==
  ASSUME NEW r \in Requests, GoodLines(r), NEW n \in 1..r.lines, n < r.lines
  PROVE  /\ IsLine(r.bytes, 3 * n + 1) /\ Symbol(r, n + 1) = r.bytes[3 * n + 1]
         /\ 3 * n + 3 =< MaxHeaderSize /\ n + 1 \in 1..r.lines
<1>1. r.lines \in Nat /\ MaxHeaderSize \in Nat
  BY RequestIs, SizeAssumption
<1>2. n + 1 \in 1..r.lines /\ 3 * (n + 1) - 2 = 3 * n + 1 /\ r.lines > 1 /\ 3 * n + 3 =< 3 * r.lines
  BY <1>1
<1>3. IsLine(r.bytes, 3 * (n + 1) - 2) /\ 3 * r.lines =< MaxHeaderSize
  BY <1>2 DEF GoodLines
<1>4. Symbol(r, n + 1) = r.bytes[3 * (n + 1) - 2]
  BY DEF Symbol
<1>5. 3 * n + 3 =< MaxHeaderSize
  BY <1>1, <1>2, <1>3
<1> QED
  BY <1>2, <1>3, <1>4, <1>5

LEMMA GoodHeaderEnd ==
  ASSUME NEW r \in Requests, GoodHeader(r)
  PROVE  /\ r.bytes[3 * r.lines + 1] = "CR" /\ LineEndsAt(r.bytes, 3 * r.lines + 1, 3 * r.lines + 2)
         /\ HeaderEnd(r) = 3 * r.lines + 2 /\ HeaderEnd(r) \in Nat
<1>1. r.lines \in Nat
  BY RequestIs
<1>2. HeaderEnd(r) = 3 * r.lines + 2 /\ HeaderEnd(r) - 1 = 3 * r.lines + 1 /\ HeaderEnd(r) \in Nat
  BY <1>1 DEF HeaderEnd
<1> QED
  BY <1>2 DEF GoodHeader

\* In the header of a request whose lines end as they should, or with a flaw.
LEMMA HeaderAdvances ==
  ASSUME NEW r \in Requests, NEW q, Parsed(r, q, TRUE), q.state = "PARSING_HEADER",
         GoodHeader(r) \/ BadField(r), NEW t, t = HeaderLine(q)
  PROVE  \/ t.request.state = "PARSING_HEADER" /\ InHeader(r, t.request)
         \/ /\ t.request.state = "PARSING_BODY" /\ Known(r, t.request)
            /\ t.request.read = HeaderEnd(r) /\ ~BadField(r)
         \/ t.request.state = "PARSING_BAD_REQUEST" /\ ~GoodHeader(r)
<1> DEFINE x == t.request
<1>1. Holds(r, q) /\ q \in Storages /\ HeaderSaid(r, q)
  BY ParsedInMemory
<1>2. GoodLines(r) /\ r.lines \in Nat \ {0}
  BY LinesAreGood
<1>3. PICK n \in 1..r.lines : Passed(r, q, n)
  BY <1>1 DEF HeaderSaid, InHeader
<1>4. /\ q.read = 3 * n /\ q.headerSize = 3 * n /\ q.method = Symbol(r, 1)
      /\ q.length = SaysLength(r, n) /\ (q.chunked <=> SaysChunked(r, n)) /\ n \in Nat \ {0}
  BY <1>2, <1>3 DEF Passed, Said
<1>5. /\ x \in Storages /\ t.again \in BOOLEAN /\ SameBody(q, x)
      /\ x.read = SkipLine(q).read /\ x.method = q.method
      /\ \/ /\ GetLine(q) = << >> /\ ~t.again /\ x = SkipLine(q)
            /\ x.state = "PARSING_HEADER"
         \/ /\ GetLine(q) # << >> /\ Blank(GetLine(q)) /\ t.again /\ x.state = "PARSING_BODY"
            /\ x.bodyFirst = x.read /\ x.length = q.length
            /\ x.chunked = q.chunked
         \/ /\ GetLine(q) # << >> /\ ~Blank(GetLine(q)) /\ ~Fits(q, GetLine(q))
            /\ ~t.again /\ x.state = "PARSING_BAD_REQUEST"
         \/ /\ GetLine(q) # << >> /\ ~Blank(GetLine(q)) /\ Fits(q, GetLine(q))
            /\ t.again /\ x.state = "PARSING_HEADER"
            /\ x.headerSize = q.headerSize + Len(GetLine(q)) + 1
            /\ x.length = IF GetLine(q)[1] \in DOMAIN LengthOf
                          THEN LengthOf[GetLine(q)[1]] ELSE q.length
            /\ x.chunked <=> q.chunked \/ GetLine(q)[1] = "CHUNKED"
  BY <1>1, HeaderLineIs
<1> HIDE DEF x
<1>6. CASE GetLine(q) = << >> /\ SkipLine(q) = q
  <2>1. x = q /\ x.state = "PARSING_HEADER"
    BY <1>5, <1>6
  <2> QED
    BY <1>3, <2>1 DEF InHeader, x
<1>7. CASE n < r.lines /\ GetLine(q) # << >>
  <2>1. /\ IsLine(r.bytes, 3 * n + 1) /\ Symbol(r, n + 1) = r.bytes[3 * n + 1]
        /\ 3 * n + 3 =< MaxHeaderSize /\ n + 1 \in 1..r.lines
    BY <1>2, <1>7, GoodLine
  <2>2. IsLine(r.bytes, q.read + 1) /\ Symbol(r, n + 1) = r.bytes[q.read + 1]
    BY <1>4, <2>1
  <2>3. /\ ~Blank(GetLine(q)) /\ Len(GetLine(q)) = 2 /\ GetLine(q)[1] = Symbol(r, n + 1)
        /\ GetLine(q)[2] = "CR" /\ SkipLine(q).read = q.read + 3
    BY <1>1, <1>7, <2>2, SymbolLine
  <2>4. Fits(q, GetLine(q))
    <3>1. 2 + 1 + q.headerSize =< MaxHeaderSize
      BY <1>4, <2>1
    <3>2. EndsInCR(GetLine(q))
      BY <2>3 DEF EndsInCR
    <3> QED
      BY <2>3, <3>1, <3>2 DEF Fits
  <2>5. /\ x.state = "PARSING_HEADER" /\ x.headerSize = q.headerSize + 2 + 1
        /\ x.length = IF Symbol(r, n + 1) \in DOMAIN LengthOf
                      THEN LengthOf[Symbol(r, n + 1)] ELSE q.length
        /\ x.chunked <=> q.chunked \/ Symbol(r, n + 1) = "CHUNKED"
    BY <1>5, <1>7, <2>3, <2>4
  <2>6. x.headerSize = 3 * (n + 1) /\ x.read = 3 * (n + 1)
    BY <1>4, <1>5, <2>3, <2>5
  <2>7. x.length = SaysLength(r, n + 1)
    BY <1>4, <2>5, LengthSaid
  <2>8. x.chunked <=> SaysChunked(r, n + 1)
    BY <1>4, <2>5, ChunkedSaid
  <2>9. Passed(r, x, n + 1)
    BY <1>4, <1>5, <2>6, <2>7, <2>8 DEF Passed, Said
  <2> QED
    BY <2>1, <2>5, <2>9 DEF InHeader, x
<1>8. CASE n = r.lines /\ BadField(r) /\ GetLine(q) # << >>
  <2>1. PICK e \in 1..Len(r.bytes) : FlawedField(r, e)
    BY <1>8 DEF BadField
  <2>2. /\ LineEndsAt(r.bytes, 3 * n + 1, e) /\ e > 3 * n + 1
        /\ ~(e = (3 * n + 1) + 1 /\ r.bytes[3 * n + 1] = "CR")
        /\ r.bytes[e - 1] # "CR" \/ e > MaxHeaderSize
    BY <1>8, <2>1 DEF FlawedField
  <2>3. e \in Nat
    BY RequestIs
  <2>4. LineEndsAt(r.bytes, q.read + 1, e) /\ e > q.read + 1
    BY <1>4, <2>2
  <2>5. /\ Len(GetLine(q)) = e - q.read - 1 /\ Len(GetLine(q)) \in Nat \ {0}
        /\ \A i \in 1..Len(GetLine(q)) : GetLine(q)[i] = r.bytes[q.read + i]
    BY <1>1, <1>8, <2>3, <2>4, OtherLine
  <2> DEFINE l == Len(GetLine(q))
  <2>11. l \in Nat \ {0} /\ l = e - q.read - 1
    BY <2>5
  <2> HIDE DEF l
  <2>12. l = e - 3 * n - 1
    BY <1>4, <2>11
  <2>13. 3 * n + l = e - 1 /\ l + 1 + q.headerSize = e /\ e = 3 * n + 1 + l
    BY <1>4, <2>3, <2>11, <2>12
  <2>6. 3 * n + Len(GetLine(q)) = e - 1 /\ Len(GetLine(q)) + 1 + q.headerSize = e
        /\ (Len(GetLine(q)) = 1 => e = (3 * n + 1) + 1)
    BY <2>13 DEF l
  <2>7. GetLine(q)[Len(GetLine(q))] = r.bytes[e - 1]
    BY <1>4, <2>5, <2>6
  <2>8. ~Fits(q, GetLine(q))
    BY <2>2, <2>3, <2>6, <2>7, SizeAssumption DEF Fits, EndsInCR
  <2>9. ~Blank(GetLine(q))
    <3>1. SUFFICES ASSUME Blank(GetLine(q)) PROVE FALSE
      OBVIOUS
    <3>2. Len(GetLine(q)) = 1 /\ GetLine(q)[1] = "CR"
      BY <3>1 DEF Blank
    <3>3. e = (3 * n + 1) + 1
      BY <2>6, <3>2
    <3>4. r.bytes[3 * n + 1] = "CR"
      BY <1>4, <2>5, <3>2
    <3> QED
      BY <2>2, <3>3, <3>4
  <2>10. x.state = "PARSING_BAD_REQUEST"
    BY <1>5, <1>8, <2>8, <2>9
  <2> QED
    BY <1>8, <2>10, HeaderOrFlaw DEF x
<1>9. CASE n = r.lines /\ GoodHeader(r) /\ GetLine(q) # << >>
  <2>1. /\ r.bytes[q.read + 1] = "CR" /\ LineEndsAt(r.bytes, q.read + 1, q.read + 2)
        /\ HeaderEnd(r) = q.read + 2
    BY <1>4, <1>9, GoodHeaderEnd
  <2>2. Blank(GetLine(q)) /\ SkipLine(q).read = HeaderEnd(r)
    BY <1>1, <1>9, <2>1, EmptyLine
  <2>3. /\ x.state = "PARSING_BODY" /\ x.read = HeaderEnd(r) /\ x.bodyFirst = HeaderEnd(r)
        /\ x.length = q.length /\ x.chunked = q.chunked
    BY <1>5, <1>9, <2>2
  <2>4. Known(r, x)
    BY <1>4, <1>5, <1>9, <2>3 DEF Known, Said
  <2> QED
    BY <1>9, <2>3, <2>4, HeaderOrFlaw DEF x
<1>10. GetLine(q) = << >> => SkipLine(q) = q
  <2>1. CASE n < r.lines
    <3>1. IsLine(r.bytes, q.read + 1)
      BY <1>2, <1>4, <2>1, GoodLine
    <3> QED
      BY <1>1, <3>1, SymbolLine
  <2>2. CASE n = r.lines /\ GoodHeader(r)
    <3>1. r.bytes[q.read + 1] = "CR" /\ LineEndsAt(r.bytes, q.read + 1, q.read + 2)
      BY <1>4, <2>2, GoodHeaderEnd
    <3> QED
      BY <1>1, <3>1, EmptyLine
  <2>3. CASE n = r.lines /\ BadField(r)
    <3>1. PICK e \in 1..Len(r.bytes) : FlawedField(r, e)
      BY <2>3 DEF BadField
    <3>2. LineEndsAt(r.bytes, 3 * n + 1, e) /\ e > 3 * n + 1 /\ e \in Nat
      BY <2>3, <3>1, RequestIs DEF FlawedField
    <3>3. LineEndsAt(r.bytes, q.read + 1, e) /\ e > q.read + 1
      BY <1>4, <3>2
    <3> QED
      BY <1>1, <3>2, <3>3, OtherLine
  <2> QED
    BY <1>2, <2>1, <2>2, <2>3
<1>11. n < r.lines \/ n = r.lines
  BY <1>2
<1> QED
  BY <1>6, <1>7, <1>8, <1>9, <1>10, <1>11

LEMMA StartsFirst ==
  ASSUME NEW r \in Requests, GoodHeader(r), GoodChunks(r)
  PROVE  /\ 1 \in 1..Len(r.starts) /\ r.starts[1] - 1 = HeaderEnd(r) /\ Len(r.starts) \in Nat \ {0}
         /\ Offset(r, 1) = 0
<1>1. r.starts \in Seq(Nat) /\ r.starts # << >> /\ r.starts[1] = HeaderEnd(r) + 1
  BY RequestIs DEF GoodChunks
<1>2. Len(r.starts) \in Nat \ {0}
  BY <1>1, EmptySeq
<1>3. HeaderEnd(r) \in Nat
  BY GoodHeaderEnd
<1>4. r.starts[1] - 1 = HeaderEnd(r) /\ r.starts[1] \in Nat
  BY <1>1, <1>3
<1>5. r.starts[1] - r.starts[1] - 5 * (1 - 1) = 0
  BY <1>4
<1> QED
  BY <1>2, <1>4, <1>5 DEF Offset

LEMMA HeaderLineKeeps ==
  ASSUME NEW r \in Requests, NEW q, Parsed(r, q, TRUE), q.state = "PARSING_HEADER",
         NEW t, t = HeaderLine(q)
  PROVE  After(r, t)
<1> DEFINE x == t.request
<1>1. Holds(r, q) /\ q \in Storages /\ Begun(r, q, TRUE) /\ FlawSeen(r, q, TRUE)
  BY ParsedInMemory
<1>2. q.uploaded = 0 /\ q.chunkSize = -1
  BY <1>1 DEF Begun, AtWork
<1>3. /\ x \in Storages /\ t.again \in BOOLEAN /\ SameBody(q, x)
      /\ \/ ~t.again /\ x.state = "PARSING_HEADER"
         \/ t.again /\ x.state = "PARSING_BODY" /\ x.bodyFirst = x.read
         \/ ~t.again /\ x.state = "PARSING_BAD_REQUEST"
         \/ t.again /\ x.state = "PARSING_HEADER"
  BY <1>1, HeaderLineIs
<1>4. GoodHeader(r) \/ BadField(r) =>
         \/ x.state = "PARSING_HEADER" /\ InHeader(r, x)
         \/ x.state = "PARSING_BODY" /\ Known(r, x) /\ x.read = HeaderEnd(r) /\ ~BadField(r)
         \/ x.state = "PARSING_BAD_REQUEST" /\ ~GoodHeader(r)
  BY HeaderAdvances
<1> HIDE DEF x
<1>5. Holds(r, x)
  BY <1>1, <1>3, HoldsNext DEF SameBody
<1>6. x.uploaded = 0 /\ x.chunkSize = -1
  BY <1>2, <1>3 DEF SameBody
<1>7. Begun(r, x, t.again)
  <2>1. x.read =< Len(x.bytes)
    BY <1>3, FieldTypes
  <2>2. x.chunkSize \in Moderate
    BY <1>6, NoneIsModerate
  <2> QED
    BY <1>3, <1>6, <2>1, <2>2 DEF Begun, AtWork
<1>8. HeaderSaid(r, x)
  BY <1>3, <1>4 DEF HeaderSaid
<1>9. BodyFound(r, x)
  <2>1. WellFormed(r) => GoodHeader(r)
    BY DEF WellFormed
  <2>2. WithChunks(r) => WellFormed(r) /\ GoodChunks(r)
    BY DEF WithChunks, WellFormed, ByChunks
  <2>3. WithLength(r) => WellFormed(r)
    BY DEF WithLength
  <2>4. ASSUME x.state = "PARSING_BODY", WithChunks(r) PROVE Counting(r, x)
    <3>1. x.read = HeaderEnd(r) /\ GoodHeader(r) /\ GoodChunks(r)
      BY <1>4, <2>1, <2>2, <2>4
    <3>2. 1 \in 1..Len(r.starts) /\ r.starts[1] - 1 = HeaderEnd(r)
      BY <3>1, StartsFirst
    <3> QED
      BY <1>6, <3>1, <3>2 DEF Counting
  <2> QED
    BY <1>4, <2>1, <2>3, <2>4 DEF BodyFound
<1>10. FlawSeen(r, x, t.again)
  <2>1. ~BadStart(r)
    BY <1>1 DEF FlawSeen
  <2> QED
    BY <1>3, <1>4, <2>1 DEF FlawSeen
<1>11. Uploads(r, x, << >>)
  BY <1>3, NoUpload DEF UploadStates
<1>12. t.again => AtWork(x, TRUE)
  BY <1>3 DEF AtWork
<1>13. Holding(r, x) /\ Steady(r, x)
  BY <1>3, <1>5, HoldsSteady
<1> QED
  BY <1>3, <1>7, <1>8, <1>9, <1>10, <1>11, <1>12, <1>13 DEF After, Parsed, x

\* The chunks of a request: the place of each size, and of what follows its data.
LEMMA ChunkStart ==
  ASSUME NEW r \in Requests, GoodHeader(r), GoodChunks(r), NEW k \in 1..Len(r.starts)
  PROVE  r.starts[k] \in Nat \ {0} /\ r.starts[k] - 1 \in Nat
<1>1. \A j \in 1..Len(r.starts) : r.starts[j] \in Nat
  BY RequestIs
<1>2. Len(r.starts) \in Nat
  BY RequestIs
<1>3. CASE k = 1
  BY <1>1, <1>3, StartsFirst, GoodHeaderEnd
<1>4. CASE k # 1
  <2>1. k - 1 \in 1..(Len(r.starts) - 1) /\ k - 1 \in 1..Len(r.starts) /\ (k - 1) + 1 = k
    BY <1>2, <1>4
  <2>2. IsChunk(r, k - 1)
    BY <2>1 DEF GoodChunks
  <2>3. /\ r.starts[(k - 1) + 1] = (r.starts[k - 1] + 3 + Size(r, k - 1)) + 2
        /\ Size(r, k - 1) > 0 /\ SizeLine(r, k - 1)
    BY <2>2 DEF IsChunk
  <2>4. Size(r, k - 1) \in Nat
    <3>1. Size(r, k - 1) \in Int
      BY <2>3, SizesAre DEF Size, SizeLine
    <3> QED
      BY <2>3, <3>1
  <2>5. r.starts[k - 1] \in Nat
    BY <1>1, <2>1
  <2>6. r.starts[k] = (r.starts[k - 1] + 3 + Size(r, k - 1)) + 2
    BY <2>1, <2>3
  <2> DEFINE a == r.starts[k - 1]
             b == r.starts[k]
             z == Size(r, k - 1)
  <2>7. a \in Nat /\ z \in Nat /\ b = (a + 3 + z) + 2
    BY <2>4, <2>5, <2>6
  <2> HIDE DEF a, b, z
  <2>8. b \in Nat \ {0} /\ b - 1 \in Nat
    BY <2>7
  <2> QED
    BY <2>8 DEF b
<1> QED
  BY <1>3, <1>4

LEMMA ChunkIsAt ==
  ASSUME NEW r \in Requests, GoodHeader(r), GoodChunks(r), NEW k \in 1..(Len(r.starts) - 1)
  PROVE  /\ k \in 1..Len(r.starts) /\ k + 1 \in 1..Len(r.starts) /\ SizeLine(r, k)
         /\ Size(r, k) \in Nat \ {0}
         /\ r.starts[k + 1] = r.starts[k] + 5 + Size(r, k)
         /\ r.bytes[r.starts[k + 1] - 2] = "CR"
         /\ LineEndsAt(r.bytes, r.starts[k + 1] - 2, r.starts[k + 1] - 1)
         /\ Offset(r, k + 1) = Offset(r, k) + Size(r, k)
<1>1. Len(r.starts) \in Nat
  BY RequestIs
<1>2. k \in 1..Len(r.starts) /\ k + 1 \in 1..Len(r.starts)
  BY <1>1
<1>3. IsChunk(r, k)
  BY DEF GoodChunks
<1>4. /\ SizeLine(r, k) /\ Size(r, k) > 0
      /\ r.bytes[r.starts[k] + 3 + Size(r, k)] = "CR"
      /\ LineEndsAt(r.bytes, r.starts[k] + 3 + Size(r, k), (r.starts[k] + 3 + Size(r, k)) + 1)
      /\ r.starts[k + 1] = (r.starts[k] + 3 + Size(r, k)) + 2
  BY <1>3 DEF IsChunk
<1>5. Size(r, k) \in Nat
  <2>1. Size(r, k) \in Int
    BY <1>4, SizesAre DEF Size, SizeLine
  <2> QED
    BY <1>4, <2>1
<1>6. r.starts[k] \in Nat /\ r.starts[1] \in Nat /\ r.starts[k + 1] \in Nat
  BY <1>2, ChunkStart, StartsFirst
<1>7. /\ r.starts[k] + 3 + Size(r, k) = r.starts[k + 1] - 2
      /\ (r.starts[k] + 3 + Size(r, k)) + 1 = r.starts[k + 1] - 1
      /\ r.starts[k + 1] = r.starts[k] + 5 + Size(r, k)
  <2> DEFINE a == r.starts[k]
             c == r.starts[k + 1]
             z == Size(r, k)
  <2>1. a \in Nat /\ z \in Nat /\ c = (a + 3 + z) + 2
    BY <1>4, <1>5, <1>6
  <2> HIDE DEF a, c, z
  <2>2. a + 3 + z = c - 2 /\ (a + 3 + z) + 1 = c - 1 /\ c = a + 5 + z
    BY <2>1
  <2> QED
    BY <2>2 DEF a, c, z
<1>8. r.bytes[r.starts[k + 1] - 2] = "CR" /\ LineEndsAt(r.bytes, r.starts[k + 1] - 2, r.starts[k + 1] - 1)
  BY <1>4, <1>7
<1>9. Offset(r, k + 1) = Offset(r, k) + Size(r, k)
  <2> DEFINE a == r.starts[k]
             b == r.starts[1]
             c == r.starts[k + 1]
             z == Size(r, k)
  <2>1. a \in Nat /\ b \in Nat /\ c = a + 5 + z /\ z \in Nat /\ k \in Nat
    BY <1>1, <1>5, <1>6, <1>7
  <2>2. Offset(r, k + 1) = c - b - 5 * ((k + 1) - 1) /\ Offset(r, k) = a - b - 5 * (k - 1)
    BY DEF Offset
  <2> HIDE DEF a, b, c, z
  <2>3. c - b - 5 * ((k + 1) - 1) = (a - b - 5 * (k - 1)) + z
    BY <2>1
  <2> QED
    BY <2>2, <2>3 DEF z
<1>10. Size(r, k) \in Nat \ {0}
  BY <1>4, <1>5
<1> QED
  BY <1>2, <1>4, <1>7, <1>8, <1>9, <1>10

LEMMA ByChunksIs ==
  ASSUME NEW r \in Requests, WithChunks(r)
  PROVE  /\ WellFormed(r) /\ GoodHeader(r) /\ SaysChunked(r, r.lines) /\ ByChunks(r) /\ GoodChunks(r)
         /\ SizeLine(r, Len(r.starts)) /\ Size(r, Len(r.starts)) = 0
         /\ r.bytes[r.starts[Len(r.starts)] + 3] = "CR"
         /\ LineEndsAt(r.bytes, r.starts[Len(r.starts)] + 3, r.starts[Len(r.starts)] + 4)
         /\ Len(r.bytes) = r.starts[Len(r.starts)] + 4
         /\ Len(r.payload) = Offset(r, Len(r.starts))
BY DEF WithChunks, WellFormed, ByChunks

LEMMA SizeLineIs ==
  ASSUME NEW r \in Requests, NEW q, Holds(r, q), NEW k \in 1..Len(r.starts), SizeLine(r, k),
         q.read = r.starts[k] - 1
  PROVE  \/ GetLine(q) = << >> /\ SkipLine(q) = q
         \/ /\ GetLine(q) # << >> /\ ~Blank(GetLine(q)) /\ HasSize(GetLine(q))
            /\ SizeSaid(GetLine(q)) = Size(r, k) /\ SkipLine(q).read = r.starts[k] + 2
<1>1. r.starts[k] \in Nat /\ q.read \in Nat
  BY RequestIs, HoldsIs
<1>2. q.read + 1 = r.starts[k] /\ q.read + 3 = r.starts[k] + 2
  BY <1>1
<1>3. IsLine(r.bytes, q.read + 1) /\ r.bytes[q.read + 1] \in DOMAIN SizeOf
  BY <1>2 DEF SizeLine
<1>4. CASE GetLine(q) = << >>
  BY <1>3, <1>4, SymbolLine
<1>5. CASE GetLine(q) # << >>
  <2>1. /\ ~Blank(GetLine(q)) /\ Len(GetLine(q)) = 2
        /\ GetLine(q)[1] = r.bytes[q.read + 1] /\ GetLine(q)[2] = "CR" /\ GetLine(q)[1] # "CR"
        /\ SkipLine(q).read = q.read + 3
    BY <1>3, <1>5, SymbolLine
  <2>2. GetLine(q) \in Seq(STRING)
    BY HoldsIs, GetLineIs
  <2>3. SizeEnd(GetLine(q)) = 2 /\ SizeSaid(GetLine(q)) = SizeOf[GetLine(q)[1]]
    BY <1>3, <1>5, <2>1, <2>2, SizeFirst
  <2>4. HasSize(GetLine(q))
    BY <2>1, <2>3 DEF HasSize
  <2>5. SizeSaid(GetLine(q)) = Size(r, k)
    BY <1>2, <2>1, <2>3 DEF Size
  <2> QED
    BY <1>2, <1>5, <2>1, <2>4, <2>5
<1> QED
  BY <1>4, <1>5

LEMMA CountingOn ==
  ASSUME NEW r \in Requests, NEW k \in 1..Len(r.starts), NEW x,
         \/ x.chunkSize = -1 /\ x.read = r.starts[k] - 1
         \/ x.chunkSize = Size(r, k) /\ x.read = r.starts[k] + 2
  PROVE  Counting(r, x)
BY DEF Counting

\* The data of a chunk is within the request, which is shorter than what an int holds.
LEMMA ChunkIsModerate ==
  ASSUME NEW r \in Requests, WithChunks(r), NEW k \in 1..Len(r.starts)
  PROVE  Size(r, k) \in Moderate /\ Size(r, k) \in Nat
<1> DEFINE m == Len(r.starts)
<1>1. /\ GoodHeader(r) /\ GoodChunks(r) /\ Size(r, m) = 0 /\ r.bytes \in Seq(STRING)
      /\ Len(r.bytes) < IntLimit /\ Len(r.bytes) \in Nat /\ m \in Nat
  BY ByChunksIs, RequestIs, RequestAssumption
<1>2. CASE k = m
  BY <1>1, <1>2, WidthAssumption DEF Moderate
<1>3. CASE k \in 1..(m - 1)
  <2>1. /\ Size(r, k) \in Nat /\ r.starts[k + 1] = r.starts[k] + 5 + Size(r, k)
        /\ LineEndsAt(r.bytes, r.starts[k + 1] - 2, r.starts[k + 1] - 1)
        /\ k + 1 \in 1..m
    BY <1>1, <1>3, ChunkIsAt
  <2> DEFINE a == r.starts[k]
             c == r.starts[k + 1]
             z == Size(r, k)
             l == Len(r.bytes)
  <2>2. a \in Nat /\ c \in Nat /\ c - 1 =< l
    BY <1>1, <2>1, ChunkStart DEF LineEndsAt
  <2>3. z \in Nat /\ c = a + 5 + z /\ l < IntLimit /\ l \in Nat /\ IntLimit \in Nat
    BY <1>1, <2>1, WidthAssumption
  <2> HIDE DEF a, c, z, l
  <2>4. z \in (-1)..(IntLimit - 3)
    BY <2>2, <2>3
  <2> QED
    BY <2>3, <2>4 DEF z, Moderate
<1> QED
  BY <1>1, <1>2, <1>3

\* _parseChunk walks from chunk to chunk and finds the end of the last one.
LEMMA ChunkWalks ==
  ASSUME NEW r \in Requests, WithChunks(r), NEW q, Holds(r, q), q.state = "PARSING_BODY",
         Counting(r, q), q.bodyFirst =< Len(q.bytes), NEW t, t = Chunk(q)
  PROVE  \/ t.request.state = "PARSING_BODY" /\ Counting(r, t.request)
         \/ t.request.state = "UPLOADING_CHUNK_INIT" /\ Len(q.bytes) = Len(r.bytes)
<1> DEFINE x == t.request
           h == ChunkHeader(q)
           m == Len(r.starts)
<1>1. /\ WellFormed(r) /\ GoodHeader(r) /\ GoodChunks(r) /\ SizeLine(r, m) /\ Size(r, m) = 0
      /\ r.bytes[r.starts[m] + 3] = "CR" /\ LineEndsAt(r.bytes, r.starts[m] + 3, r.starts[m] + 4)
      /\ Len(r.bytes) = r.starts[m] + 4
  BY ByChunksIs
<1>2. q \in Storages /\ q.read \in Nat
  BY HoldsIs
<1>3. m \in Nat \ {0} /\ m \in 1..m
  BY <1>1, StartsFirst
<1>4. /\ h \in Storages /\ SameHeader(q, h)
      /\ q.chunkSize # -1 => h = q
      /\ q.chunkSize = -1 => h.read = SkipLine(q).read
      /\ q.chunkSize = -1 /\ HasSize(GetLine(q)) /\ GetLine(q) # << >>
           => h.chunkSize = SizeSaid(GetLine(q)) /\ h.state = q.state
  BY <1>2, ChunkHeaderIs DEF Storages
<1>5. /\ SameHeader(q, x)
      /\ \/ q.chunkSize = -1 /\ GetLine(q) = << >> /\ x = SkipLine(q)
         \/ h.chunkSize = 0 /\ GetLine(h) = << >> /\ x = SkipLine(h)
         \/ h.chunkSize = 0 /\ GetLine(h) # << >> /\ x.state = "UPLOADING_CHUNK_INIT"
         \/ /\ h.chunkSize # 0 /\ x.read = h.read + Wrapped(ChunkEnd(h), IntLimit)
            /\ x.chunkSize = -1 /\ x.state = h.state
         \/ h.chunkSize # 0 /\ x = h
      /\ q.chunkSize = -1 /\ GetLine(q) = << >> => x = SkipLine(q)
  BY <1>2, ChunkIs DEF Storages
<1> HIDE DEF x, h
<1>6. PICK k \in 1..m :
        \/ q.chunkSize = -1 /\ q.read = r.starts[k] - 1
        \/ q.chunkSize = Size(r, k) /\ q.read = r.starts[k] + 2
  BY DEF Counting
<1>7. k \in 1..(m - 1) \/ k = m
  BY <1>3, <1>6
<1>8. SizeLine(r, k) /\ Size(r, k) \in Nat /\ r.starts[k] \in Nat
  <2>1. k = m => SizeLine(r, k)
    BY <1>1
  <2>2. k \in 1..(m - 1) => SizeLine(r, k)
    BY <1>1, ChunkIsAt
  <2>3. SizeLine(r, k)
    BY <1>7, <2>1, <2>2
  <2> QED
    BY <1>6, <2>3, ChunkIsModerate, RequestIs
<1>9. CASE q.chunkSize = -1 /\ q.read = r.starts[k] - 1 /\ GetLine(q) = << >>
  <2>1. x = q
    BY <1>5, <1>6, <1>8, <1>9, SizeLineIs
  <2> QED
    BY <2>1 DEF x
<1>10. CASE ~(q.chunkSize = -1 /\ q.read = r.starts[k] - 1 /\ GetLine(q) = << >>)
  <2>1. h.chunkSize = Size(r, k) /\ h.read = r.starts[k] + 2 /\ h.state = "PARSING_BODY"
    <3>1. CASE q.chunkSize = -1 /\ q.read = r.starts[k] - 1
      <4>1. /\ GetLine(q) # << >> /\ HasSize(GetLine(q)) /\ SizeSaid(GetLine(q)) = Size(r, k)
            /\ SkipLine(q).read = r.starts[k] + 2
        BY <1>6, <1>8, <1>10, <3>1, SizeLineIs
      <4> QED
        BY <1>4, <3>1, <4>1
    <3>2. CASE q.chunkSize = Size(r, k) /\ q.read = r.starts[k] + 2
      BY <1>4, <1>8, <3>2
    <3> QED
      BY <1>6, <3>1, <3>2
  <2>2. ~(q.chunkSize = -1 /\ GetLine(q) = << >>)
    BY <1>6, <1>8, <1>10
  <2>3. Holds(r, h)
    BY <1>4, HoldsNext DEF SameHeader
  <2>4. CASE k = m
    <3>1. h.read + 1 = r.starts[m] + 3 /\ h.read + 2 = r.starts[m] + 4
      BY <1>8, <2>1, <2>4
    <3>2. r.bytes[h.read + 1] = "CR" /\ LineEndsAt(r.bytes, h.read + 1, h.read + 2)
      BY <1>1, <3>1
    <3>3. \/ GetLine(h) = << >> /\ SkipLine(h) = h
          \/ GetLine(h) # << >> /\ h.read + 2 =< Len(h.bytes)
      BY <2>3, <3>2, EmptyLine
    <3>4. h.chunkSize = 0
      BY <1>1, <2>1, <2>4
    <3>5. CASE GetLine(h) = << >>
      <4>1. x = h
        BY <1>5, <2>2, <3>3, <3>4, <3>5
      <4>2. Counting(r, x)
        BY <1>6, <2>1, <4>1, CountingOn
      <4> QED
        BY <2>1, <4>1, <4>2 DEF x
    <3>6. CASE GetLine(h) # << >>
      <4>1. x.state = "UPLOADING_CHUNK_INIT"
        BY <1>5, <2>2, <3>4, <3>6
      <4>2. Len(q.bytes) >= Len(r.bytes)
        BY <1>1, <1>4, <3>1, <3>3, <3>6 DEF SameHeader
      <4>3. Len(q.bytes) = Len(r.bytes)
        BY <4>2, HoldsIs
      <4> QED
        BY <4>1, <4>3 DEF x
    <3> QED
      BY <3>5, <3>6
  <2>5. CASE k \in 1..(m - 1)
    <3>1. /\ Size(r, k) \in Nat \ {0} /\ r.starts[k + 1] = r.starts[k] + 5 + Size(r, k)
          /\ k + 1 \in 1..m
      BY <1>1, <2>5, ChunkIsAt
    <3>2. h.chunkSize # 0
      BY <2>1, <3>1
    <3>3. CASE x = h
      <4>1. Counting(r, x)
        BY <1>6, <2>1, <3>3, CountingOn
      <4> QED
        BY <2>1, <3>3, <4>1 DEF x
    <3>4. CASE /\ x.read = h.read + Wrapped(ChunkEnd(h), IntLimit)
               /\ x.chunkSize = -1 /\ x.state = h.state
      <4>0. x.read = h.read + (h.chunkSize + 2)
        BY <1>6, <2>1, <3>4, ChunkIsModerate, NotWrapped
      <4>1. x.read = r.starts[k + 1] - 1
        <5> DEFINE a == r.starts[k]
                   c == r.starts[k + 1]
                   z == Size(r, k)
        <5>1. x.read = (a + 2) + (z + 2) /\ a \in Nat /\ z \in Nat /\ c = a + 5 + z
          BY <1>8, <2>1, <3>1, <4>0
        <5> HIDE DEF a, c, z
        <5>2. x.read = c - 1
          BY <5>1
        <5> QED
          BY <5>2 DEF c
      <4>2. Counting(r, x)
        BY <3>1, <3>4, <4>1, CountingOn
      <4> QED
        BY <2>1, <3>4, <4>2 DEF x
    <3> QED
      BY <1>5, <2>2, <3>2, <3>3, <3>4
  <2> QED
    BY <1>7, <2>4, <2>5
<1> QED
  BY <1>9, <1>10

LEMMA LengthIs ==
  ASSUME NEW r \in Requests, WithLength(r)
  PROVE  /\ WellFormed(r) /\ GoodHeader(r) /\ ~SaysChunked(r, r.lines)
         /\ Len(r.bytes) = HeaderEnd(r) + SaysLength(r, r.lines)
         /\ r.payload = SubSeq(r.bytes, HeaderEnd(r) + 1, Len(r.bytes))
BY DEF WithLength, WellFormed, ByLength

LEMMA BadSizeIs ==
  ASSUME NEW r \in Requests, BadSize(r)
  PROVE  GoodHeader(r) /\ SaysChunked(r, r.lines) /\ GoodChunks(r)
BY DEF BadSize, FlawedSize

LEMMA BodyKeeps ==
  ASSUME NEW r \in Requests, NEW q, Parsed(r, q, TRUE),
         q.state \in {"PARSING_BODY", "PARSING_BAD_REQUEST"}, ~q.chunked, NEW t, t = Body(q)
  PROVE  After(r, t)
<1> DEFINE x == t.request
<1>1. Holds(r, q) /\ q \in Storages /\ Begun(r, q, TRUE) /\ HeaderSaid(r, q) /\ BodyFound(r, q)
      /\ FlawSeen(r, q, TRUE)
  <2>1. ~CountsChunks(q)
    BY DEF CountsChunks
  <2> QED
    BY <2>1, ParsedIs
<1>2. /\ x \in Storages /\ ~t.again /\ t.again \in BOOLEAN /\ SameHeader(q, x)
      /\ \/ x = q
         \/ /\ x.state = "UPLOADING_INIT" /\ x.chunkSize = q.length
            /\ x.read = q.read /\ Len(q.bytes) >= q.read + q.length
  BY <1>1, BodyIs
<1> HIDE DEF x
<1>3. CASE x = q
  <2>1. Parsed(r, x, FALSE)
    BY <1>3, ParsedAtRest
  <2>2. Uploads(r, x, << >>)
    BY <1>3, NoUpload DEF UploadStates
  <2>3. Parsed(r, x, t.again)
    BY <1>2, <2>1, ParsedAtRest
  <2> QED
    BY <1>2, <2>2, <2>3 DEF After, x
<1>4. CASE /\ x.state = "UPLOADING_INIT" /\ x.chunkSize = q.length
           /\ x.read = q.read /\ Len(q.bytes) >= q.read + q.length
  <2>1. Holds(r, x)
    BY <1>1, <1>2, HoldsNext DEF SameHeader
  <2>2. Begun(r, x, t.again)
    BY <1>2, <1>4 DEF Begun, AtWork
  <2>3. GoodHeader(r) => Known(r, q) /\ Known(r, x)
    BY <1>1, <1>2 DEF HeaderSaid, Known, Said, SameHeader
  <2>4. HeaderSaid(r, x)
    BY <1>4, <2>3 DEF HeaderSaid
  <2>5. BodyFound(r, x)
    BY <1>4 DEF BodyFound
  <2>6. ~BadStart(r) /\ ~BadField(r)
    BY <1>1 DEF FlawSeen
  <2>7. FlawSeen(r, x, t.again)
    BY <2>6 DEF FlawSeen
  <2>8. ~WithChunks(r) /\ ~BadSize(r)
    BY <2>3, ByChunksIs, BadSizeIs DEF Known, Said
  <2>9. WellFormed(r) => WithLength(r)
    BY <2>8 DEF WithChunks, WithLength
  <2>10. x.uploaded = 0 /\ x.length = q.length
    BY <1>1, <1>2 DEF Begun, AtWork, SameHeader
  <2>11. ASSUME WithLength(r) PROVE Len(x.bytes) = Len(r.bytes) /\ x.read = HeaderEnd(r)
    <3>1. /\ WellFormed(r) /\ GoodHeader(r) /\ Len(r.bytes) = HeaderEnd(r) + SaysLength(r, r.lines)
      BY <2>11, LengthIs
    <3>2. q.read = HeaderEnd(r) /\ q.length = SaysLength(r, r.lines)
      BY <1>1, <2>3, <2>11, <3>1 DEF BodyFound, Known, Said
    <3>3. Len(q.bytes) >= Len(r.bytes) /\ x.bytes = q.bytes
      BY <1>2, <1>4, <3>1, <3>2 DEF SameHeader
    <3>4. Len(q.bytes) = Len(r.bytes)
      BY <1>1, <3>3, HoldsIs
    <3> QED
      BY <1>4, <3>2, <3>3, <3>4
  <2>12. Uploads(r, x, << >>)
    <3>1. 0 =< x.chunkSize => x.uploaded =< x.chunkSize
      BY <2>10
    <3>2. ASSUME WithLength(r) PROVE Copying(r, x, << >>)
      <4>1. x.read = HeaderEnd(r) /\ HeaderEnd(r) \in Nat
        BY <2>11, <3>2, LengthIs, GoodHeaderEnd
      <4>2. x.read = HeaderEnd(r) + x.uploaded
        BY <2>10, <4>1
      <4> QED
        BY <1>4, <2>10, <4>2, NoSymbol DEF Copying
    <3> QED
      BY <2>8, <2>9, <2>11, <3>1, <3>2 DEF Uploads
  <2>13. Holding(r, x) /\ Steady(r, x)
    BY <1>4, <2>1, HoldsSteady
  <2> QED
    BY <1>2, <2>2, <2>4, <2>5, <2>7, <2>12, <2>13 DEF After, Parsed, x
<1> QED
  BY <1>2, <1>3, <1>4

-----------------------------------------------------------------------------
(* The loops of parseRequest *)

\* The first n turns.
FirstTurns(q, n, f) ==
  /\ f = [i \in 0..n |-> f[i]] /\ f[0] = GoOn(q)
  /\ \A i \in 1..n : f[i] = Another(f[i - 1])

LEMMA FirstTurnsExist ==
  ASSUME NEW q, NEW n \in Nat
  PROVE  \E f : FirstTurns(q, n, f)
<1> DEFINE S == {m \in Nat : ~\E f : FirstTurns(q, m, f)}
<1>1. SUFFICES ASSUME S # {} PROVE FALSE
  OBVIOUS
<1>2. PICK m \in S : \A j \in S : m =< j
  <2>1. S \in SUBSET Nat
    OBVIOUS
  <2> HIDE DEF S
  <2> QED
    BY <1>1, <2>1, Least
<1>3. CASE m = 0
  <2> DEFINE f == [i \in 0..0 |-> GoOn(q)]
  <2>1. FirstTurns(q, 0, f)
    BY DEF FirstTurns
  <2> QED
    BY <1>2, <1>3, <2>1
<1>4. CASE m # 0
  <2>1. m - 1 \in Nat /\ m \in Nat /\ m - 1 \notin S
    BY <1>2, <1>4
  <2>2. PICK f : FirstTurns(q, m - 1, f)
    BY <2>1
  <2> DEFINE g == [i \in 0..m |-> IF i = m THEN Another(f[m - 1]) ELSE f[i]]
  <2>3. g = [i \in 0..m |-> g[i]]
    OBVIOUS
  <2>4. g[0] = GoOn(q)
    BY <1>4, <2>1, <2>2 DEF FirstTurns
  <2>5. ASSUME NEW i \in 1..m PROVE g[i] = Another(g[i - 1])
    <3>1. CASE i = m
      BY <2>1, <3>1
    <3>2. CASE i # m
      <4>1. i \in 1..(m - 1) /\ i \in 0..m /\ i - 1 \in 0..m /\ i - 1 # m
        BY <2>1, <3>2
      <4>2. g[i] = f[i] /\ g[i - 1] = f[i - 1]
        BY <3>2, <4>1
      <4>3. f[i] = Another(f[i - 1])
        BY <2>2, <4>1 DEF FirstTurns
      <4> QED
        BY <4>2, <4>3
    <3> QED
      BY <3>1, <3>2
  <2> HIDE DEF g
  <2>6. FirstTurns(q, m, g)
    BY <2>3, <2>4, <2>5 DEF FirstTurns
  <2> QED
    BY <1>2, <2>6
<1> QED
  BY <1>3, <1>4

LEMMA FirstTurnsAgree ==
  ASSUME NEW q, NEW m \in Nat, NEW n \in Nat, m =< n, NEW f, FirstTurns(q, m, f),
         NEW g, FirstTurns(q, n, g), NEW i \in 0..m
  PROVE  f[i] = g[i]
<1> DEFINE S == {j \in 0..m : f[j] # g[j]}
<1>1. SUFFICES ASSUME S # {} PROVE FALSE
  OBVIOUS
<1>2. PICK j \in S : \A k \in S : j =< k
  <2>1. S \in SUBSET Nat
    OBVIOUS
  <2> HIDE DEF S
  <2> QED
    BY <1>1, <2>1, Least
<1>3. j \in 0..m /\ f[j] # g[j]
  BY <1>2
<1>4. j # 0
  BY <1>3 DEF FirstTurns
<1>5. j \in 1..m /\ j \in 1..n /\ j - 1 \in 0..m
  BY <1>3, <1>4
<1>6. j - 1 \notin S
  BY <1>2, <1>5
<1>7. f[j - 1] = g[j - 1]
  BY <1>5, <1>6
<1>8. f[j] = Another(f[j - 1]) /\ g[j] = Another(g[j - 1])
  BY <1>5 DEF FirstTurns
<1> QED
  BY <1>3, <1>7, <1>8

\* Turns is what its recursion says, since there is such a function.
LEMMA TurnsAre ==
  ASSUME NEW q
  PROVE  /\ Turns(q)[0] = GoOn(q)
         /\ \A n \in Nat : Turns(q)[n + 1] = Another(Turns(q)[n])
<1> DEFINE Of(n) == CHOOSE f : FirstTurns(q, n, f)
           D(v) == [n \in Nat |-> IF n = 0 THEN GoOn(q) ELSE Another(v[n - 1])]
           b == [n \in Nat |-> Of(n)[n]]
<1>1. \A n \in Nat : FirstTurns(q, n, Of(n))
  BY FirstTurnsExist
<1>2. ASSUME NEW n \in Nat PROVE b[n] = IF n = 0 THEN GoOn(q) ELSE Another(b[n - 1])
  <2>1. b[n] = Of(n)[n]
    OBVIOUS
  <2>2. CASE n = 0
    BY <1>1, <2>1, <2>2 DEF FirstTurns
  <2>3. CASE n # 0
    <3>1. n - 1 \in Nat /\ n \in 1..n /\ n - 1 =< n /\ n - 1 \in 0..(n - 1)
      BY <2>3
    <3>2. Of(n)[n] = Another(Of(n)[n - 1])
      BY <1>1, <3>1 DEF FirstTurns
    <3>3. Of(n - 1)[n - 1] = Of(n)[n - 1]
      <4> HIDE DEF Of
      <4> QED
        BY <1>1, <3>1, FirstTurnsAgree
    <3>4. b[n - 1] = Of(n - 1)[n - 1]
      BY <3>1
    <3> HIDE DEF b, Of
    <3> QED
      BY <2>1, <2>3, <3>2, <3>3, <3>4
  <2> QED
    BY <2>2, <2>3
<1>3. b = D(b)
  <2>1. b = [n \in Nat |-> b[n]]
    OBVIOUS
  <2> HIDE DEF b
  <2> QED
    BY <1>2, <2>1
<1> HIDE DEF b
<1>4. Turns(q) = CHOOSE turns : turns = D(turns)
  BY DEF Turns
<1>5. Turns(q) = D(Turns(q))
  BY <1>3, <1>4
<1>6. ASSUME NEW n \in Nat PROVE Turns(q)[n] = IF n = 0 THEN GoOn(q) ELSE Another(Turns(q)[n - 1])
  BY <1>5
<1>7. ASSUME NEW n \in Nat PROVE Turns(q)[n + 1] = Another(Turns(q)[n])
  <2>1. n + 1 \in Nat /\ n + 1 # 0 /\ (n + 1) - 1 = n
    OBVIOUS
  <2> QED
    BY <1>6, <2>1
<1> QED
  BY <1>6, <1>7

\* The turn ends in the memory, further on if there is another.
Forward(q, t) == t.request \in Storages /\ (t.again => t.request.read > q.read)

LEMMA ModerateForward ==
  ASSUME NEW q \in Storages, q.bodyFirst =< Len(q.bytes), NEW t, t = Chunk(q),
         ChunkHeader(q).chunkSize \in Moderate
  PROVE  Forward(q, t)
<1> DEFINE h == ChunkHeader(q)
<1>1. t.request \in Storages /\ (t.again => t.request.read = h.read + h.chunkSize + 2)
  BY ModerateChunk
<1>2. h.read >= q.read /\ h.read \in Int /\ q.read \in Int
  <2>1. q \in HttpRequests
    BY DEF Storages
  <2>2. h \in HttpRequests /\ h.read >= q.read
    BY <2>1, ChunkHeaderIs
  <2> HIDE DEF h
  <2> QED
    BY <2>1, <2>2, Fields
<1>3. h.chunkSize \in Int /\ -1 =< h.chunkSize
  BY WidthAssumption DEF Moderate
<1> HIDE DEF h
<1> QED
  BY <1>1, <1>2, <1>3 DEF Forward

\* No size that can be found in a request with plain sizes is negative or too large.
LEMMA PlainHeader ==
  ASSUME NEW r \in Requests, PlainSizes(r), NEW q, Holds(r, q), q.chunkSize \in Moderate
  PROVE  ChunkHeader(q).chunkSize \in Moderate
<1> DEFINE h == ChunkHeader(q)
           line == GetLine(q)
<1>1. /\ q \in Storages /\ q \in HttpRequests /\ q.read \in Nat /\ Len(q.bytes) \in Nat
      /\ Len(q.bytes) =< Len(r.bytes) /\ q.read =< Len(q.bytes) /\ Len(r.bytes) \in Nat
      /\ \A i \in 1..Len(q.bytes) : q.bytes[i] = r.bytes[i]
  BY HoldsIs DEF Storages
<1>2. h.chunkSize \in {q.chunkSize, -1, SizeSaid(line)}
  BY <1>1, ChunkHeaderIs
<1>3. /\ line \in Seq(STRING)
      /\ line # << >> =>
           /\ SkipLine(q).read = q.read + Len(line) + 1 /\ Len(line) \in Nat \ {0}
           /\ \A i \in 1..Len(line) : line[i] = q.bytes[q.read + i]
      /\ SkipLine(q).read =< Len(q.bytes)
  <2>1. /\ line \in Seq(STRING)
        /\ line # << >> =>
             /\ SkipLine(q).read = q.read + Len(line) + 1 /\ Len(line) \in Nat \ {0}
             /\ \A i \in 1..Len(line) : line[i] = q.bytes[q.read + i]
    BY <1>1, GetLineIs
  <2>2. SkipLine(q) \in Storages /\ SkipLine(q).bytes = q.bytes
    BY <1>1, LineIsRead
  <2>3. SkipLine(q).read =< Len(q.bytes)
    BY <2>2, FieldTypes
  <2> QED
    BY <2>1, <2>3
<1> HIDE DEF h, line
<1>4. SizeSaid(line) \in Moderate
  <2>1. 0 \in Moderate
    BY WidthAssumption DEF Moderate
  <2>2. ASSUME NEW i \in 1..Len(line), line[i] \in DOMAIN SizeOf, SizeSaid(line) = SizeOf[line[i]]
        PROVE  SizeSaid(line) \in Moderate
    <3>1. line # << >>
      BY <2>2, NoSymbol
    <3>2. q.read + i \in 1..Len(q.bytes) /\ q.read + i \in 1..Len(r.bytes)
      BY <1>1, <1>3, <2>2, <3>1
    <3>3. line[i] = r.bytes[q.read + i]
      BY <1>1, <1>3, <2>2, <3>1, <3>2
    <3>4. SizeOf[line[i]] \in 0..(IntLimit - 3)
      BY <2>2, <3>2, <3>3 DEF PlainSizes
    <3> QED
      BY <2>2, <3>4, WidthAssumption DEF Moderate
  <2> QED
    BY <1>3, <2>1, <2>2, SizeFound
<1> QED
  BY <1>2, <1>4, NoneIsModerate DEF h

\* Nor is any of the sizes of a well-formed one.
LEMMA CountingIsModerate ==
  ASSUME NEW r \in Requests, WithChunks(r), NEW q, Holds(r, q), Counting(r, q)
  PROVE  ChunkHeader(q).chunkSize \in Moderate
<1> DEFINE h == ChunkHeader(q)
           m == Len(r.starts)
<1>1. PICK k \in 1..m :
        \/ q.chunkSize = -1 /\ q.read = r.starts[k] - 1
        \/ q.chunkSize = Size(r, k) /\ q.read = r.starts[k] + 2
  BY DEF Counting
<1>2. Size(r, k) \in Moderate /\ Size(r, k) \in Nat
  BY ChunkIsModerate
<1>3. /\ q \in HttpRequests
      /\ q.chunkSize # -1 => h = q
      /\ q.chunkSize = -1 /\ HasSize(GetLine(q)) /\ GetLine(q) # << >>
           => h.chunkSize = SizeSaid(GetLine(q))
  <2>1. q \in HttpRequests
    BY HoldsIs DEF Storages
  <2> QED
    BY <2>1, ChunkHeaderIs
<1>4. CASE q.chunkSize = Size(r, k)
  <2>1. q.chunkSize # -1
    BY <1>2, <1>4
  <2> QED
    BY <1>2, <1>3, <1>4, <2>1
<1>5. CASE q.chunkSize = -1 /\ q.read = r.starts[k] - 1
  <2>1. SizeLine(r, k)
    <3>1. m \in Nat /\ (k \in 1..(m - 1) \/ k = m)
      BY RequestIs
    <3> QED
      BY <3>1, ByChunksIs, ChunkIsAt
  <2>2. \/ GetLine(q) = << >>
        \/ GetLine(q) # << >> /\ HasSize(GetLine(q)) /\ SizeSaid(GetLine(q)) = Size(r, k)
    BY <1>5, <2>1, SizeLineIs
  <2>3. CASE GetLine(q) = << >>
    <3> DEFINE s == SkipLine(q)
               line == GetLine(q)
    <3>1. h = ParseChunkSize(s, line)
      BY <1>5 DEF ChunkHeader
    <3>2. s \in HttpRequests /\ line \in Seq(STRING)
      BY <1>3, LineIsRead
    <3> HIDE DEF s, line, h
    <3>3. line = << >> => h.chunkSize = -1
      BY <3>1, <3>2, ParseChunkSizeIs
    <3> QED
      BY <2>3, <3>3, NoneIsModerate DEF line, h
  <2> QED
    BY <1>2, <1>3, <1>5, <2>2, <2>3
<1> QED
  BY <1>1, <1>4, <1>5

\* _parseChunk goes forward in a request without a size that is negative or too large.
LEMMA ChunkForward ==
  ASSUME NEW r \in Requests, NEW q, Parsed(r, q, TRUE), Harmless(r),
         q.state \in {"PARSING_BODY", "PARSING_BAD_REQUEST"}, q.chunked, NEW t, t = Chunk(q)
  PROVE  Forward(q, t)
<1>1. Holds(r, q) /\ q \in Storages /\ Begun(r, q, TRUE) /\ HeaderSaid(r, q) /\ BodyFound(r, q)
  BY ParsedIs
<1>2. q.bodyFirst =< Len(q.bytes) /\ (PlainSizes(r) => q.chunkSize \in Moderate)
  BY <1>1 DEF Begun, AtWork
<1>3. CASE WellFormed(r)
  <2>1. GoodHeader(r) /\ Known(r, q)
    BY <1>1, <1>3 DEF WellFormed, HeaderSaid
  <2>2. WithChunks(r)
    BY <1>3, <2>1 DEF WithChunks, Known, Said
  <2>3. Counting(r, q)
    BY <1>1, <1>3, <2>2 DEF BodyFound
  <2> QED
    BY <1>1, <1>2, <2>2, <2>3, CountingIsModerate, ModerateForward
<1>4. CASE PlainSizes(r)
  BY <1>1, <1>2, <1>4, PlainHeader, ModerateForward
<1> QED
  BY <1>3, <1>4 DEF Harmless

LEMMA ChunkKeeps ==
  ASSUME NEW r \in Requests, NEW q, Parsed(r, q, TRUE),
         q.state \in {"PARSING_BODY", "PARSING_BAD_REQUEST"}, q.chunked, NEW t, t = Chunk(q)
  PROVE  After(r, t)
<1> DEFINE x == t.request
           h == ChunkHeader(q)
<1>1. /\ Holding(r, q) /\ q \in HttpRequests /\ Begun(r, q, TRUE) /\ HeaderSaid(r, q)
      /\ BodyFound(r, q) /\ FlawSeen(r, q, TRUE)
      /\ WellFormed(r) \/ PlainSizes(r) => Holds(r, q)
  BY ParsedIs DEF Harmless
<1>2. /\ q.bodyFirst =< Len(q.bytes) /\ q.uploaded = 0
      /\ PlainSizes(r) => q.chunkSize \in Moderate
  BY <1>1 DEF Begun, AtWork
<1>3. h \in HttpRequests /\ (h.state # q.state => h.state = "PARSING_BAD_REQUEST")
  BY <1>1, ChunkHeaderIs
<1>4. /\ x \in HttpRequests /\ t.again \in BOOLEAN /\ SameHeader(q, x)
      /\ \/ ~t.again /\ x = SkipLine(q)
         \/ ~t.again /\ x = SkipLine(h)
         \/ /\ ~t.again /\ x.state = "UPLOADING_CHUNK_INIT" /\ x.read = q.bodyFirst
            /\ x.chunkSize = -1
         \/ t.again /\ x.state = h.state /\ x.chunkSize = -1
         \/ ~t.again /\ x = h
  BY <1>1, <1>2, ChunkIs
<1>5. /\ SkipLine(q).state = q.state /\ SkipLine(h).state = h.state
      /\ SkipLine(q).chunkSize = q.chunkSize /\ SkipLine(h).chunkSize = h.chunkSize
  BY <1>1, <1>3, LineIsRead, RereadAny
<1> HIDE DEF x
<1>6. /\ x.state \in {"PARSING_BODY", "PARSING_BAD_REQUEST", "UPLOADING_CHUNK_INIT"}
      /\ x.state = "UPLOADING_CHUNK_INIT" => x.read = q.bodyFirst /\ ~t.again
  <2> HIDE DEF h
  <2> QED
    BY <1>3, <1>4, <1>5
<1>7. Holding(r, x) /\ x.uploaded = 0 /\ x.bodyFirst =< Len(x.bytes)
  BY <1>1, <1>2, <1>4 DEF SameHeader, Holding
<1>8. Begun(r, x, t.again)
  <2>1. ASSUME PlainSizes(r) PROVE x.chunkSize \in Moderate
    <3>1. q.chunkSize \in Moderate /\ h.chunkSize \in Moderate
      BY <1>1, <1>2, <2>1, PlainHeader
    <3> HIDE DEF h
    <3> QED
      BY <1>4, <1>5, <3>1, NoneIsModerate
  <2> QED
    BY <1>6, <1>7, <2>1 DEF Begun
<1> HIDE DEF h
<1>9. GoodHeader(r) => Known(r, x) /\ SaysChunked(r, r.lines)
  <2>1. GoodHeader(r) => Known(r, q)
    BY <1>1 DEF HeaderSaid
  <2> QED
    BY <1>4, <2>1 DEF Known, Said, SameHeader
<1>10. HeaderSaid(r, x)
  BY <1>6, <1>9 DEF HeaderSaid
<1>11. ~WithLength(r)
  BY <1>9, LengthIs
<1>12. ASSUME WellFormed(r)
       PROVE  \/ x.state = "PARSING_BODY" /\ Counting(r, x)
              \/ x.state = "UPLOADING_CHUNK_INIT" /\ Len(x.bytes) = Len(r.bytes)
  <2>1. WithChunks(r)
    BY <1>11, <1>12 DEF WithLength, WithChunks
  <2>2. q.state = "PARSING_BODY" /\ Counting(r, q)
    BY <1>1, <1>12, <2>1 DEF BodyFound
  <2>3. \/ x.state = "PARSING_BODY" /\ Counting(r, x)
        \/ x.state = "UPLOADING_CHUNK_INIT" /\ Len(q.bytes) = Len(r.bytes)
    BY <1>1, <1>2, <1>12, <2>1, <2>2, ChunkWalks DEF x
  <2> QED
    BY <1>4, <2>3 DEF SameHeader
<1>13. BodyFound(r, x)
  <2>1. WithChunks(r) => WellFormed(r)
    BY DEF WithChunks
  <2> QED
    BY <1>11, <1>12, <2>1 DEF BodyFound
<1>14. FlawSeen(r, x, t.again)
  <2>1. ~BadStart(r) /\ ~BadField(r)
    BY <1>1 DEF FlawSeen
  <2> QED
    BY <2>1 DEF FlawSeen
<1>15. Uploads(r, x, << >>)
  <2>1. ASSUME x.state = "UPLOADING_CHUNK_INIT", WithChunks(r) \/ BadSize(r)
        PROVE  Chunking(r, x, << >>)
    <3>1. GoodHeader(r) /\ GoodChunks(r)
      BY <2>1, ByChunksIs, BadSizeIs
    <3>2. x.read = HeaderEnd(r)
      BY <1>4, <1>6, <1>9, <2>1, <3>1 DEF Known, SameHeader
    <3>3. 1 \in 1..Len(r.starts) /\ AtChunk(r, x, << >>, 1)
      BY <3>1, <3>2, StartsFirst, NoSymbol DEF AtChunk
    <3> QED
      BY <2>1, <3>3 DEF Chunking
  <2> QED
    BY <1>6, <1>11, <1>12, <2>1 DEF Uploads, UploadStates
<1>16. t.again => AtWork(x, TRUE)
  BY <1>6 DEF AtWork
<1>17. Steady(r, x)
  <2>1. ASSUME Harmless(r) PROVE x \in Storages
    BY <2>1, ChunkForward DEF Forward, x
  <2>2. ASSUME ~CountsChunks(x) PROVE x \in Storages
    <3>1. q.chunked /\ x.chunked = q.chunked /\ x.bodyFirst = q.bodyFirst
      BY <1>4 DEF SameHeader
    <3>2. x.read = x.bodyFirst
      BY <1>6, <2>2, <3>1 DEF CountsChunks
    <3>3. x.bodyFirst \in Nat /\ Len(x.bytes) \in Nat
      BY <1>4, Fields
    <3> QED
      BY <1>4, <1>7, <3>2, <3>3 DEF Storages
  <2> QED
    BY <1>6, <2>1, <2>2 DEF Steady
<1> QED
  BY <1>4, <1>7, <1>8, <1>10, <1>13, <1>14, <1>15, <1>16, <1>17 DEF After, Parsed, x

LEMMA TurnKeeps ==
  ASSUME NEW r \in Requests, NEW q, Parsed(r, q, TRUE), AtWork(q, TRUE)
  PROVE  After(r, Turn(q))
<1>1. CASE q.state = "PARSING_INIT"
  BY <1>1, StartLineKeeps DEF Turn
<1>2. CASE q.state = "PARSING_HEADER"
  BY <1>2, HeaderLineKeeps DEF Turn
<1>3. CASE q.state \in {"PARSING_BODY", "PARSING_BAD_REQUEST"} /\ q.chunked
  <2>1. Turn(q) = Chunk(q)
    BY <1>3 DEF Turn
  <2> QED
    BY <1>3, <2>1, ChunkKeeps
<1>4. CASE q.state \in {"PARSING_BODY", "PARSING_BAD_REQUEST"} /\ ~q.chunked
  <2>1. Turn(q) = Body(q)
    BY <1>4 DEF Turn
  <2> QED
    BY <1>4, <2>1, BodyKeeps
<1> QED
  BY <1>1, <1>2, <1>3, <1>4 DEF AtWork

LEMMA TurnBytes ==
  ASSUME NEW r \in Requests, NEW q, Parsed(r, q, TRUE), AtWork(q, TRUE)
  PROVE  Turn(q).request.bytes = q.bytes
<1>1. q \in HttpRequests /\ Begun(r, q, TRUE) /\ (~CountsChunks(q) => q \in Storages)
  BY ParsedIs
<1>2. CASE q.state = "PARSING_INIT"
  <2>1. SameBody(q, StartLine(q).request)
    BY <1>1, <1>2, StartLineIs DEF CountsChunks
  <2> QED
    BY <1>2, <2>1 DEF Turn, SameBody
<1>3. CASE q.state = "PARSING_HEADER"
  <2>1. SameBody(q, HeaderLine(q).request)
    BY <1>1, <1>3, HeaderLineIs DEF CountsChunks
  <2> QED
    BY <1>3, <2>1 DEF Turn, SameBody
<1>4. CASE q.state \notin {"PARSING_INIT", "PARSING_HEADER"} /\ q.chunked
  <2>1. q.bodyFirst =< Len(q.bytes)
    BY <1>1, <1>4 DEF Begun
  <2>2. SameHeader(q, Chunk(q).request)
    BY <1>1, <2>1, ChunkIs
  <2> QED
    BY <1>4, <2>2 DEF Turn, SameHeader
<1>5. CASE q.state \notin {"PARSING_INIT", "PARSING_HEADER"} /\ ~q.chunked
  <2>1. SameHeader(q, Body(q).request)
    BY <1>1, <1>5, BodyIs DEF CountsChunks
  <2> QED
    BY <1>5, <2>1 DEF Turn, SameHeader
<1> QED
  BY <1>2, <1>3, <1>4, <1>5

LEMMA TurnsKeep ==
  ASSUME NEW r \in Requests, NEW q, Parsed(r, q, FALSE),
         q.state \in {"PARSING_INIT", "PARSING_HEADER", "PARSING_BODY"}, NEW n \in Nat
  PROVE  After(r, Turns(q)[n]) /\ Turns(q)[n].request.bytes = q.bytes
<1> DEFINE T == Turns(q)
           S == {m \in Nat : ~(After(r, T[m]) /\ T[m].request.bytes = q.bytes)}
<1>1. SUFFICES ASSUME S # {} PROVE FALSE
  OBVIOUS
<1>2. PICK m \in S : \A j \in S : m =< j
  <2>1. S \in SUBSET Nat
    OBVIOUS
  <2> HIDE DEF S
  <2> QED
    BY <1>1, <2>1, Least
<1>3. m \in Nat /\ ~(After(r, T[m]) /\ T[m].request.bytes = q.bytes)
  BY <1>2
<1>4. After(r, T[0]) /\ T[0].request.bytes = q.bytes
  <2>1. T[0] = GoOn(q)
    BY TurnsAre
  <2>2. T[0].request = q /\ T[0].again = TRUE
    BY <2>1 DEF GoOn
  <2>3. Parsed(r, q, TRUE)
    BY DEF Parsed, Begun, FlawSeen, AtWork
  <2>4. Uploads(r, q, << >>)
    BY NoUpload DEF UploadStates
  <2> HIDE DEF T
  <2> QED
    BY <2>2, <2>3, <2>4 DEF After, AtWork
<1>5. m - 1 \in Nat /\ (m - 1) + 1 = m
  BY <1>3, <1>4
<1>6. After(r, T[m - 1]) /\ T[m - 1].request.bytes = q.bytes
  BY <1>2, <1>5
<1>7. T[m] = Another(T[m - 1])
  BY <1>5, TurnsAre
<1> HIDE DEF T
<1>8. CASE T[m - 1].again
  <2>1. Parsed(r, T[m - 1].request, TRUE) /\ AtWork(T[m - 1].request, TRUE)
    BY <1>6, <1>8 DEF After
  <2>2. T[m] = Turn(T[m - 1].request)
    BY <1>7, <1>8 DEF Another
  <2> QED
    BY <1>3, <1>6, <2>1, <2>2, TurnKeeps, TurnBytes
<1>9. CASE ~T[m - 1].again
  BY <1>3, <1>6, <1>7, <1>9 DEF Another
<1> QED
  BY <1>8, <1>9

\* A turn that is not the last one consumes a byte or more, but for the loop over the
\* chunks of a request that has a size of another kind.
LEMMA TurnAdvances ==
  ASSUME NEW r \in Requests, NEW q, Parsed(r, q, TRUE), AtWork(q, TRUE),
         ~CountsChunks(q) \/ Harmless(r), Turn(q).again
  PROVE  Turn(q).request.read > q.read
<1>1. q \in Storages
  BY ParsedIs
<1>2. q.read \in Nat /\ (GetLine(q) # << >> => SkipLine(q).read > q.read)
  <2>1. q.read \in Nat
    BY <1>1, FieldTypes
  <2>2. GetLine(q) # << >> => SkipLine(q).read = q.read + Len(GetLine(q)) + 1 /\ Len(GetLine(q)) \in Nat \ {0}
    BY <1>1, GetLineIs
  <2> QED
    BY <2>1, <2>2
<1>3. CASE q.state = "PARSING_INIT"
  <2>1. Turn(q) = StartLine(q)
    BY <1>3 DEF Turn
  <2> QED
    BY <1>1, <1>2, <1>3, <2>1, StartLineIs DEF SameBody
<1>4. CASE q.state = "PARSING_HEADER"
  <2>1. Turn(q) = HeaderLine(q)
    BY <1>4 DEF Turn
  <2> QED
    BY <1>1, <1>2, <1>4, <2>1, HeaderLineIs
<1>5. CASE q.state \in {"PARSING_BODY", "PARSING_BAD_REQUEST"} /\ q.chunked
  <2>1. Turn(q) = Chunk(q)
    BY <1>5 DEF Turn
  <2>2. Harmless(r)
    BY <1>5 DEF CountsChunks
  <2> QED
    BY <1>5, <2>1, <2>2, ChunkForward DEF Forward
<1>6. CASE q.state \in {"PARSING_BODY", "PARSING_BAD_REQUEST"} /\ ~q.chunked
  <2>1. Turn(q) = Body(q)
    BY <1>6 DEF Turn
  <2> QED
    BY <1>1, <2>1, BodyIs
<1> QED
  BY <1>3, <1>4, <1>5, <1>6 DEF AtWork

\* The loop over the chunks of such a request, once in it.
Astray(r, t) == CountsChunks(t.request) /\ ~Harmless(r)

LEMMA StaysAstray ==
  ASSUME NEW r \in Requests, NEW q, Parsed(r, q, TRUE), AtWork(q, TRUE), CountsChunks(q), Turn(q).again
  PROVE  CountsChunks(Turn(q).request)
<1>1. q.chunked /\ q.state \in {"PARSING_BODY", "PARSING_BAD_REQUEST"}
  BY DEF CountsChunks, AtWork
<1>2. Turn(q) = Chunk(q)
  BY <1>1 DEF Turn
<1>3. q \in HttpRequests /\ Begun(r, q, TRUE)
  BY ParsedIs
<1>4. q.bodyFirst =< Len(q.bytes)
  BY <1>1, <1>3 DEF Begun
<1> DEFINE t == Turn(q)
           h == ChunkHeader(q)
<1>5. SameHeader(q, t.request) /\ t.request.state = h.state
  BY <1>2, <1>3, <1>4, ChunkIs
<1>6. h.state # q.state => h.state = "PARSING_BAD_REQUEST"
  BY <1>3, ChunkHeaderIs
<1> HIDE DEF t, h
<1>7. t.request.chunked /\ t.request.state \in {"PARSING_BODY", "PARSING_BAD_REQUEST"}
  BY <1>1, <1>5, <1>6 DEF SameHeader
<1> QED
  BY <1>7 DEF CountsChunks, t

\* So after n turns n bytes are consumed, and there is an end to it.
LEMMA TurnsGoOn ==
  ASSUME NEW r \in Requests, NEW q, Parsed(r, q, FALSE),
         q.state \in {"PARSING_INIT", "PARSING_HEADER", "PARSING_BODY"}, NEW n \in Nat,
         Turns(q)[n].again
  PROVE  Turns(q)[n].request.read >= n \/ Astray(r, Turns(q)[n])
<1> DEFINE T == Turns(q)
           Fine(m) == T[m].again => T[m].request.read >= m \/ Astray(r, T[m])
           S == {m \in Nat : ~Fine(m)}
<1>1. SUFFICES ASSUME S # {} PROVE FALSE
  OBVIOUS
<1>2. PICK m \in S : \A j \in S : m =< j
  <2>1. S \in SUBSET Nat
    OBVIOUS
  <2> HIDE DEF S
  <2> QED
    BY <1>1, <2>1, Least
<1>3. m \in Nat /\ ~Fine(m)
  BY <1>2
<1>4. Fine(0)
  <2>1. T[0] = GoOn(q)
    BY TurnsAre
  <2>2. T[0].request = q
    BY <2>1 DEF GoOn
  <2>3. ~CountsChunks(q) \/ Harmless(r) => q \in Storages
    BY ParsedIs
  <2>4. q \in Storages => q.read \in Nat
    BY FieldTypes
  <2> HIDE DEF T
  <2> QED
    BY <2>2, <2>3, <2>4 DEF Astray
<1>5. m - 1 \in Nat /\ (m - 1) + 1 = m
  BY <1>3, <1>4
<1>6. Fine(m - 1)
  BY <1>2, <1>5
<1>7. T[m] = Another(T[m - 1]) /\ After(r, T[m - 1]) /\ After(r, T[m])
  <2>1. T[m] = Another(T[m - 1])
    BY <1>5, TurnsAre
  <2>2. \A j \in Nat : After(r, T[j])
    BY TurnsKeep
  <2> QED
    BY <1>3, <1>5, <2>1, <2>2
<1> HIDE DEF T
<1>8. T[m].again
  BY <1>3
<1>9. T[m - 1].again
  BY <1>7, <1>8 DEF Another
<1> DEFINE y == T[m - 1].request
<1>10. T[m] = Turn(y) /\ Parsed(r, y, TRUE) /\ AtWork(y, TRUE) /\ Parsed(r, T[m].request, TRUE)
  BY <1>7, <1>8, <1>9 DEF Another, After
<1>11. y.read \in Int /\ T[m].request.read \in Int
  BY <1>10, ParsedIs, Fields
<1>12. CASE Astray(r, T[m - 1])
  <2>1. CountsChunks(y) /\ ~Harmless(r)
    BY <1>12 DEF Astray
  <2> HIDE DEF y
  <2> QED
    BY <1>3, <1>8, <1>10, <2>1, StaysAstray DEF Astray
<1>13. CASE ~Astray(r, T[m - 1])
  <2>1. ~CountsChunks(y) \/ Harmless(r)
    BY <1>13 DEF Astray
  <2>2. y.read >= m - 1
    BY <1>6, <1>9, <1>13
  <2> HIDE DEF y
  <2>3. T[m].request.read > y.read
    BY <1>8, <1>10, <2>1, TurnAdvances
  <2>4. T[m].request.read >= m
    BY <1>3, <1>11, <2>2, <2>3
  <2> QED
    BY <1>3, <2>4
<1> QED
  BY <1>12, <1>13

\* Only there the loop can be endless.
LEMMA LastTurnIs ==
  ASSUME NEW r \in Requests, NEW q, Parsed(r, q, FALSE),
         q.state \in {"PARSING_INIT", "PARSING_HEADER", "PARSING_BODY"}
  PROVE  /\ After(r, LastTurn(q)) /\ LastTurn(q).request.bytes = q.bytes
         /\ LastTurn(q).again => Astray(r, LastTurn(q))
<1> DEFINE N == 2 * Len(q.bytes) + 3
           t == Turns(q)[N]
<1>1. Len(q.bytes) \in Nat
  BY ParsedIs, Fields
<1>2. N \in Nat /\ N > Len(q.bytes)
  BY <1>1
<1>3. LastTurn(q) = t
  BY DEF LastTurn
<1> HIDE DEF N
<1>4. After(r, t) /\ t.request.bytes = q.bytes
  BY <1>2, TurnsKeep
<1>5. ASSUME t.again, ~Astray(r, t) PROVE FALSE
  <2>1. t.request.read >= N
    BY <1>2, <1>5, TurnsGoOn
  <2> DEFINE y == t.request
  <2>2. Parsed(r, y, TRUE)
    BY <1>4, <1>5 DEF After
  <2>3. ~CountsChunks(y) \/ Harmless(r)
    BY <1>5 DEF Astray
  <2>4. y.bytes = q.bytes /\ y.read >= N
    BY <1>4, <2>1
  <2> HIDE DEF t, y
  <2>5. y \in Storages
    BY <2>2, <2>3, ParsedIs
  <2>6. y.read \in Nat /\ y.read =< Len(y.bytes)
    BY <2>5, FieldTypes
  <2> QED
    BY <1>1, <1>2, <2>4, <2>6
<1> QED
  BY <1>3, <1>4, <1>5

\* Where the loop is endless.
LEMMA EndlessIs ==
  ASSUME NEW r \in Requests, NEW y, Parsed(r, y, TRUE), AtWork(y, TRUE), CountsChunks(y), ~Harmless(r),
         NEW x, x = [y EXCEPT !.state = "PARSING_FOR_EVER"]
  PROVE  Parsed(r, x, FALSE) /\ Uploads(r, x, << >>) /\ x.bytes = y.bytes
<1>1. Holding(r, y) /\ y \in HttpRequests /\ HeaderSaid(r, y) /\ FlawSeen(r, y, TRUE)
  BY ParsedIs
<1>2. y.state \in {"PARSING_BODY", "PARSING_BAD_REQUEST"} /\ y.chunked
  BY DEF AtWork, CountsChunks
<1>3. x \in HttpRequests /\ x.state = "PARSING_FOR_EVER" /\ SameHeader(y, x)
  BY <1>1 DEF HttpRequests, ParsingStates, SameHeader
<1>4. Holding(r, x)
  BY <1>1, <1>3 DEF Holding, SameHeader
<1>5. Steady(r, x)
  <2>1. CountsChunks(x)
    BY <1>2, <1>3 DEF CountsChunks, SameHeader
  <2> QED
    BY <2>1 DEF Steady
<1>6. Begun(r, x, FALSE) /\ BodyFound(r, x)
  BY <1>3 DEF Begun, BodyFound, AtWork
<1>7. HeaderSaid(r, x)
  BY <1>1, <1>2, <1>3 DEF HeaderSaid, Known, Said, SameHeader
<1>8. FlawSeen(r, x, FALSE)
  BY <1>1, <1>2, <1>3 DEF FlawSeen
<1>9. Uploads(r, x, << >>)
  BY <1>3, NoUpload DEF UploadStates
<1> QED
  BY <1>3, <1>4, <1>5, <1>6, <1>7, <1>8, <1>9 DEF Parsed, SameHeader

LEMMA ParseRequestKeeps ==
  ASSUME NEW r \in Requests, NEW q, Parsed(r, q, FALSE),
         q.state \in {"PARSING_INIT", "PARSING_HEADER", "PARSING_BODY"}
  PROVE  /\ Parsed(r, ParseRequest(q), FALSE) /\ Uploads(r, ParseRequest(q), << >>)
         /\ ParseRequest(q).bytes = q.bytes
<1>1. CASE q.storage # "RECEIVE_DONE"
  <2>1. ParseRequest(q) = q
    BY <1>1 DEF ParseRequest
  <2> QED
    BY <2>1, NoUpload DEF UploadStates
<1>2. CASE q.storage = "RECEIVE_DONE"
  <2> DEFINE t == LastTurn(q)
             y == t.request
             x == ParseRequest(q)
  <2>1. After(r, t) /\ y.bytes = q.bytes /\ (t.again => Astray(r, t))
    BY LastTurnIs
  <2>2. x = IF t.again THEN [y EXCEPT !.state = "PARSING_FOR_EVER"] ELSE y
    BY <1>2 DEF ParseRequest
  <2> HIDE DEF t
  <2>3. t.again \in BOOLEAN /\ Parsed(r, y, t.again) /\ Uploads(r, y, << >>)
    BY <2>1 DEF After
  <2>4. CASE ~t.again
    <3>1. x = y
      BY <2>2, <2>4
    <3>2. Parsed(r, y, FALSE)
      BY <2>3, <2>4, ParsedAtRest
    <3> HIDE DEF x, y
    <3> QED
      BY <2>1, <2>3, <3>1, <3>2 DEF x
  <2>5. CASE t.again
    <3>1. CountsChunks(y) /\ ~Harmless(r) /\ Parsed(r, y, TRUE) /\ AtWork(y, TRUE)
      BY <2>1, <2>3, <2>5 DEF Astray, After
    <3>2. x = [y EXCEPT !.state = "PARSING_FOR_EVER"]
      BY <2>2, <2>5
    <3> HIDE DEF x, y
    <3> QED
      BY <2>1, <3>1, <3>2, EndlessIs DEF x
  <2> QED
    BY <2>4, <2>5
<1> QED
  BY <1>1, <1>2

-----------------------------------------------------------------------------
(* uploadRequest *)

\* The fields that looking for the next chunk does not change.
SameRequest(q, x) ==
  /\ x.bytes = q.bytes /\ x.method = q.method /\ x.chunked = q.chunked /\ x.length = q.length
  /\ x.bodyFirst = q.bodyFirst

LEMMA SkippedIs ==
  ASSUME NEW q \in Storages, NEW s, s = [SkipLine(q) EXCEPT !.state = "UPLOADING_READ_LINE"]
  PROVE  /\ s \in Storages /\ SameRequest(q, s) /\ s.read = SkipLine(q).read
         /\ s.state = "UPLOADING_READ_LINE" /\ s.chunkSize = q.chunkSize
<1> DEFINE k == SkipLine(q)
<1>1. k \in Storages /\ SameRequest(q, k) /\ k.chunkSize = q.chunkSize
  BY SkipLineIs, RereadIs DEF SameRequest
<1>2. k \in HttpRequests /\ k.read =< Len(k.bytes)
  BY <1>1 DEF Storages
<1> HIDE DEF k
<1>3. s = [k EXCEPT !.state = "UPLOADING_READ_LINE"]
  BY DEF k
<1>4. /\ s \in HttpRequests /\ SameRequest(k, s) /\ s.read = k.read
      /\ s.state = "UPLOADING_READ_LINE" /\ s.chunkSize = k.chunkSize
  BY <1>2, <1>3 DEF HttpRequests, ParsingStates, SameRequest
<1>5. s.read =< Len(s.bytes)
  BY <1>2, <1>4 DEF SameRequest
<1> QED
  BY <1>1, <1>4, <1>5 DEF Storages, SameRequest, k

LEMMA StartedIs ==
  ASSUME NEW q \in Storages, NEW x, x = [q EXCEPT !.uploaded = 0, !.state = "UPLOADING_INIT"]
  PROVE  /\ x \in Storages /\ SameRequest(q, x) /\ x.read = q.read
         /\ x.state = "UPLOADING_INIT" /\ x.uploaded = 0 /\ x.chunkSize = q.chunkSize
<1>1. q \in HttpRequests /\ q.read =< Len(q.bytes)
  BY DEF Storages
<1>2. x \in HttpRequests
  BY <1>1 DEF HttpRequests, ParsingStates
<1>3. /\ SameRequest(q, x) /\ x.read = q.read
      /\ x.state = "UPLOADING_INIT" /\ x.uploaded = 0 /\ x.chunkSize = q.chunkSize
  BY <1>1 DEF HttpRequests, SameRequest
<1> QED
  BY <1>1, <1>2, <1>3 DEF Storages, SameRequest

LEMMA DoneIs ==
  ASSUME NEW q \in Storages, NEW x, x = [SkipLine(q) EXCEPT !.state = "UPLOADING_DONE"]
  PROVE  /\ x \in Storages /\ SameRequest(q, x) /\ x.read = SkipLine(q).read
         /\ x.state = "UPLOADING_DONE"
<1> DEFINE k == SkipLine(q)
<1>1. k \in Storages /\ SameRequest(q, k)
  BY SkipLineIs, RereadIs DEF SameRequest
<1>2. k \in HttpRequests /\ k.read =< Len(k.bytes)
  BY <1>1 DEF Storages
<1> HIDE DEF k
<1>3. x = [k EXCEPT !.state = "UPLOADING_DONE"]
  BY DEF k
<1>4. x \in HttpRequests /\ SameRequest(k, x) /\ x.read = k.read /\ x.state = "UPLOADING_DONE"
  BY <1>2, <1>3 DEF HttpRequests, ParsingStates, SameRequest
<1>5. x.read =< Len(x.bytes)
  BY <1>2, <1>4 DEF SameRequest
<1> QED
  BY <1>1, <1>4, <1>5 DEF Storages, SameRequest, k

\* The end of the body or of a chunk's data, no line yet, a bad size, the last
\* size, or the size of a chunk with data.
LEMMA NextChunkIs ==
  ASSUME NEW q \in Storages, NEW x, x = NextChunk(q), NEW line, line = GetLine(q)
  PROVE  /\ x \in Storages /\ SameRequest(q, x) /\ x.read = SkipLine(q).read
         /\ \/ Blank(line) /\ q.chunkSize = 0 /\ x.state = "UPLOADING_DONE"
            \/ Blank(line) /\ q.chunkSize # 0 /\ x = SkipLine(q)
            \/ ~Blank(line) /\ line = << >> /\ x.state = "UPLOADING_READ_LINE" /\ x.chunkSize = -1
            \/ ~Blank(line) /\ line # << >> /\ ~HasSize(line) /\ x.state = "PARSING_BAD_REQUEST"
            \/ /\ ~Blank(line) /\ line # << >> /\ HasSize(line) /\ SizeSaid(line) = 0
               /\ x.state = "UPLOADING_READ_LINE" /\ x.chunkSize = 0
            \/ /\ ~Blank(line) /\ line # << >> /\ HasSize(line) /\ SizeSaid(line) # 0
               /\ x.state = "UPLOADING_INIT" /\ x.uploaded = 0 /\ x.chunkSize = SizeSaid(line)
<1> DEFINE s == [SkipLine(q) EXCEPT !.state = "UPLOADING_READ_LINE"]
           z == ParseChunkSize(s, line)
<1>1. /\ s \in Storages /\ SameRequest(q, s) /\ s.read = SkipLine(q).read
      /\ s.state = "UPLOADING_READ_LINE"
  BY SkippedIs
<1>2. x = IF Blank(line)
          THEN IF q.chunkSize = 0 THEN [SkipLine(q) EXCEPT !.state = "UPLOADING_DONE"] ELSE SkipLine(q)
          ELSE IF line = << >> \/ IsParsingEnd(z) \/ z.chunkSize = 0 THEN z
          ELSE [z EXCEPT !.uploaded = 0, !.state = "UPLOADING_INIT"]
  BY DEF NextChunk
<1>3. line \in Seq(STRING)
  BY GetLineIs
<1> HIDE DEF s
<1>4. /\ z \in Storages /\ SameHeader(s, z) /\ z.read = s.read
      /\ line = << >> => z.chunkSize = -1 /\ z.state = s.state
      /\ line # << >> /\ ~HasSize(line) => z.chunkSize = -1 /\ z.state = "PARSING_BAD_REQUEST"
      /\ line # << >> /\ HasSize(line)
           => z.chunkSize = SizeSaid(line) /\ z.state = s.state
  <2>1. s \in HttpRequests
    BY <1>1 DEF Storages
  <2>2. /\ z \in HttpRequests /\ SameHeader(s, z) /\ z.read = s.read
        /\ line = << >> => z.chunkSize = -1 /\ z.state = s.state
        /\ line # << >> /\ ~HasSize(line) => z.chunkSize = -1 /\ z.state = "PARSING_BAD_REQUEST"
        /\ line # << >> /\ HasSize(line) => z.chunkSize = SizeSaid(line) /\ z.state = s.state
    BY <1>3, <2>1, ParseChunkSizeIs
  <2>3. z \in Storages
    BY <1>1, <2>2 DEF Storages, SameHeader
  <2> QED
    BY <2>2, <2>3
<1> HIDE DEF z
<1>5. SameRequest(q, z) /\ z.read = SkipLine(q).read
  BY <1>1, <1>4 DEF SameRequest, SameHeader
<1>6. CASE Blank(line) /\ q.chunkSize = 0
  <2>1. x = [SkipLine(q) EXCEPT !.state = "UPLOADING_DONE"]
    BY <1>2, <1>6
  <2> QED
    BY <1>6, <2>1, DoneIs
<1>7. CASE Blank(line) /\ q.chunkSize # 0
  <2>1. x = SkipLine(q)
    BY <1>2, <1>7
  <2>2. x \in Storages /\ SameRequest(q, x)
    BY <2>1, SkipLineIs, RereadIs DEF SameRequest
  <2> QED
    BY <1>7, <2>1, <2>2
<1>8. CASE ~Blank(line) /\ line = << >>
  <2>1. x = z
    BY <1>2, <1>8
  <2> QED
    BY <1>1, <1>4, <1>5, <1>8, <2>1
<1>9. CASE ~Blank(line) /\ line # << >> /\ ~HasSize(line)
  <2>1. IsParsingEnd(z)
    BY <1>4, <1>9 DEF IsParsingEnd
  <2>2. x = z
    BY <1>2, <1>9, <2>1
  <2> QED
    BY <1>4, <1>5, <1>9, <2>2
<1>10. CASE ~Blank(line) /\ line # << >> /\ HasSize(line) /\ SizeSaid(line) = 0
  <2>1. x = z
    BY <1>2, <1>4, <1>10
  <2> QED
    BY <1>1, <1>4, <1>5, <1>10, <2>1
<1>11. CASE ~Blank(line) /\ line # << >> /\ HasSize(line) /\ SizeSaid(line) # 0
  <2>1. ~IsParsingEnd(z) /\ z.chunkSize # 0
    BY <1>1, <1>4, <1>11 DEF IsParsingEnd
  <2>2. x = [z EXCEPT !.uploaded = 0, !.state = "UPLOADING_INIT"]
    BY <1>2, <1>11, <2>1
  <2>3. /\ x \in Storages /\ SameRequest(z, x) /\ x.read = z.read
        /\ x.state = "UPLOADING_INIT" /\ x.uploaded = 0 /\ x.chunkSize = z.chunkSize
    BY <1>4, <2>2, StartedIs
  <2>4. SameRequest(q, x) /\ x.read = SkipLine(q).read
    BY <1>5, <2>3 DEF SameRequest
  <2> QED
    BY <1>4, <1>11, <2>3, <2>4
<1> QED
  BY <1>6, <1>7, <1>8, <1>9, <1>10, <1>11

\* memToFile and what becomes of the state.
LEMMA MovedIs ==
  ASSUME NEW q \in Storages, q.state = "UPLOADING_INIT", 0 =< q.chunkSize => q.uploaded =< q.chunkSize,
         NEW n \in 0..Goal(q), NEW x, x = Moved(q, n)
  PROVE  /\ n \in Nat /\ n =< Len(Remains(q)) /\ q.read + n =< Len(q.bytes)
         /\ 0 =< q.chunkSize => q.uploaded + n =< q.chunkSize
         /\ x \in Storages /\ SameRequest(q, x) /\ x.read = q.read + n /\ x.chunkSize = q.chunkSize
         /\ x.uploaded = q.uploaded + n
         /\ x.state = IF q.uploaded + n # q.chunkSize THEN "UPLOADING_INIT"
                      ELSE IF q.chunked THEN "UPLOADING_READ_LINE" ELSE "UPLOADING_DONE"
<1>1. /\ q.read \in Nat /\ q.uploaded \in Nat /\ q.chunkSize \in Int /\ Len(q.bytes) \in Nat
      /\ q.read =< Len(q.bytes)
  BY FieldTypes
<1>2. Len(Remains(q)) \in Nat /\ Len(Remains(q)) = Len(q.bytes) - q.read
  BY RemainsIs
<1>3. /\ Goal(q) \in Nat /\ Goal(q) =< Len(Remains(q))
      /\ 0 =< q.chunkSize => Goal(q) =< q.chunkSize - q.uploaded
  BY <1>1, <1>2 DEF Goal
<1>4. /\ n \in Nat /\ n =< Len(Remains(q)) /\ q.read + n =< Len(q.bytes)
      /\ q.read + n \in Nat /\ q.uploaded + n \in Nat
      /\ 0 =< q.chunkSize => q.uploaded + n =< q.chunkSize
  <2> DEFINE d == q.read
             v == q.uploaded
             c == q.chunkSize
             l == Len(q.bytes)
             s == Len(Remains(q))
             o == Goal(q)
  <2>1. /\ d \in Nat /\ v \in Nat /\ c \in Int /\ l \in Nat /\ s = l - d
        /\ o \in Nat /\ o =< s /\ n \in 0..o
        /\ 0 =< c => o =< c - v
    BY <1>1, <1>2, <1>3
  <2> HIDE DEF d, v, c, l, s, o
  <2>2. /\ n \in Nat /\ n =< s /\ d + n =< l /\ d + n \in Nat /\ v + n \in Nat
        /\ 0 =< c => v + n =< c
    BY <2>1
  <2> QED
    BY <2>2 DEF d, v, c, l, s
<1> DEFINE a == q.read + n
           u == q.uploaded + n
           w == IF u # q.chunkSize THEN "UPLOADING_INIT"
                ELSE IF q.chunked THEN "UPLOADING_READ_LINE" ELSE "UPLOADING_DONE"
<1>5. x = [q EXCEPT !.read = a, !.uploaded = u, !.state = w]
  BY DEF Moved
<1>6. a \in Nat /\ u \in Nat /\ w \in ParsingStates /\ a =< Len(q.bytes)
  BY <1>4 DEF ParsingStates
<1> HIDE DEF a, u, w
<1>7. q \in HttpRequests
  BY DEF Storages
<1>8. x \in HttpRequests
  <2>1. a \in Int /\ u \in Nat /\ w \in ParsingStates
    BY <1>6
  <2> QED
    BY <1>5, <1>7, <2>1 DEF HttpRequests
<1>9. SameRequest(q, x) /\ x.read = a /\ x.chunkSize = q.chunkSize /\ x.uploaded = u /\ x.state = w
  BY <1>5, <1>7 DEF HttpRequests, SameRequest
<1>10. x \in Storages
  BY <1>6, <1>8, <1>9 DEF Storages, SameRequest
<1> QED
  BY <1>1, <1>4, <1>9, <1>10 DEF a, u, w

\* What parsing found stays, unless a size is bad.
LEMMA UploadParsed ==
  ASSUME NEW r \in Requests, NEW q, Parsed(r, q, FALSE), q.state \in UploadStates,
         NEW x \in Storages, SameRequest(q, x), x.state \in UploadStates \cup {"PARSING_BAD_REQUEST"},
         WellFormed(r) => x.state # "PARSING_BAD_REQUEST"
  PROVE  Parsed(r, x, FALSE)
<1>1. Holds(r, q) /\ HeaderSaid(r, q) /\ FlawSeen(r, q, FALSE)
  BY ParsedInMemory DEF UploadStates
<1>2. Holding(r, x) /\ Steady(r, x)
  <2>1. Holds(r, x)
    BY <1>1, HoldsNext DEF SameRequest
  <2>2. x.state # "PARSING_FOR_EVER"
    BY DEF UploadStates
  <2> QED
    BY <2>1, <2>2, HoldsSteady
<1>3. x.state \notin {"PARSING_INIT", "PARSING_HEADER", "PARSING_BODY"}
  BY DEF UploadStates
<1>4. Begun(r, x, FALSE)
  BY <1>3 DEF Begun, AtWork
<1>5. GoodHeader(r) => Known(r, x)
  BY <1>1 DEF HeaderSaid, Known, Said, SameRequest, UploadStates
<1>6. HeaderSaid(r, x)
  BY <1>3, <1>5 DEF HeaderSaid
<1>7. BodyFound(r, x)
  BY <1>3 DEF BodyFound
<1>8. ~BadStart(r) /\ ~BadField(r)
  BY <1>1 DEF FlawSeen, UploadStates
<1>9. FlawSeen(r, x, FALSE)
  BY <1>8 DEF FlawSeen
<1> QED
  BY <1>2, <1>4, <1>6, <1>7, <1>9 DEF Parsed

\* In front of a chunk: its size is read, or found bad.
LEMMA AtChunkWalks ==
  ASSUME NEW r \in Requests, WithChunks(r) \/ BadSize(r), NEW q, Holds(r, q), NEW f,
         NEW k \in 1..Len(r.starts), AtChunk(r, q, f, k), NEW x, x = NextChunk(q)
  PROVE  Chunking(r, x, f) /\ x.state \in UploadStates \cup {"PARSING_BAD_REQUEST"}
         /\ (WithChunks(r) => x.state # "PARSING_BAD_REQUEST")
<1> DEFINE m == Len(r.starts)
           line == GetLine(q)
<1>1. GoodHeader(r) /\ GoodChunks(r)
  BY ByChunksIs, BadSizeIs
<1>2. /\ q \in Storages /\ q.read \in Nat /\ m \in Nat \ {0} /\ r.starts[k] \in Nat
      /\ q.read = r.starts[k] - 1 /\ Len(f) = Offset(r, k)
  BY <1>1, HoldsIs, StartsFirst, RequestIs DEF AtChunk
<1>3. /\ x.read = SkipLine(q).read
      /\ \/ Blank(line)
         \/ ~Blank(line) /\ line = << >> /\ x.state = "UPLOADING_READ_LINE" /\ x.chunkSize = -1
         \/ ~Blank(line) /\ line # << >> /\ ~HasSize(line) /\ x.state = "PARSING_BAD_REQUEST"
         \/ /\ ~Blank(line) /\ line # << >> /\ HasSize(line) /\ SizeSaid(line) = 0
            /\ x.state = "UPLOADING_READ_LINE" /\ x.chunkSize = 0
         \/ /\ ~Blank(line) /\ line # << >> /\ HasSize(line) /\ SizeSaid(line) # 0
            /\ x.state = "UPLOADING_INIT" /\ x.uploaded = 0 /\ x.chunkSize = SizeSaid(line)
  BY <1>2, NextChunkIs
<1> HIDE DEF line
<1>4. ASSUME line = << >>, SkipLine(q) = q, ~Blank(line)
      PROVE  Chunking(r, x, f) /\ x.state = "UPLOADING_READ_LINE"
  <2>1. x.state = "UPLOADING_READ_LINE" /\ x.read = r.starts[k] - 1
    BY <1>2, <1>3, <1>4
  <2>2. AtChunk(r, x, f, k)
    BY <1>2, <2>1 DEF AtChunk
  <2> QED
    BY <2>1, <2>2 DEF Chunking
<1>5. Blank(<< >>) = FALSE
  BY NoSymbol DEF Blank
<1>6. CASE SizeLine(r, k)
  <2>1. \/ line = << >> /\ SkipLine(q) = q
        \/ /\ line # << >> /\ ~Blank(line) /\ HasSize(line)
           /\ SizeSaid(line) = Size(r, k) /\ SkipLine(q).read = r.starts[k] + 2
    BY <1>2, <1>6, SizeLineIs DEF line
  <2>2. CASE line = << >> /\ SkipLine(q) = q
    <3>1. ~Blank(line)
      BY <1>5, <2>2
    <3> QED
      BY <1>4, <2>2, <3>1 DEF UploadStates
  <2>3. CASE /\ line # << >> /\ ~Blank(line) /\ HasSize(line)
             /\ SizeSaid(line) = Size(r, k) /\ SkipLine(q).read = r.starts[k] + 2
    <3>1. CASE Size(r, k) = 0
      <4>1. x.state = "UPLOADING_READ_LINE" /\ x.chunkSize = 0 /\ x.read = r.starts[k] + 2
        BY <1>3, <2>3, <3>1
      <4>2. k = m
        BY <1>1, <1>2, <3>1, ChunkIsAt
      <4>3. ~BadSize(r)
        <5>1. SUFFICES ASSUME BadSize(r) PROVE FALSE
          OBVIOUS
        <5>2. PICK e \in 1..Len(r.bytes) : FlawedSize(r, e)
          BY <5>1 DEF BadSize
        <5>3. ~(r.bytes[r.starts[m]] \in DOMAIN SizeOf /\ r.bytes[r.starts[m] + 1] = "CR")
          BY <5>2 DEF FlawedSize
        <5> QED
          BY <1>6, <4>2, <5>3 DEF SizeLine, IsLine
      <4>4. ByChunks(r)
        BY <4>3, ByChunksIs
      <4>5. AtLast(r, x, f)
        BY <1>2, <4>1, <4>2, <4>4 DEF AtLast
      <4> QED
        BY <4>1, <4>5 DEF Chunking, UploadStates
    <3>2. CASE Size(r, k) # 0
      <4>1. /\ x.state = "UPLOADING_INIT" /\ x.uploaded = 0 /\ x.chunkSize = Size(r, k)
            /\ x.read = r.starts[k] + 2
        BY <1>3, <2>3, <3>2
      <4>2. k # m
        <5>1. SUFFICES ASSUME k = m PROVE FALSE
          OBVIOUS
        <5>2. ~WithChunks(r)
          BY <3>2, <5>1, ByChunksIs
        <5>3. PICK e \in 1..Len(r.bytes) : FlawedSize(r, e)
          BY <5>2 DEF BadSize
        <5>4. ~(r.bytes[r.starts[m]] \in DOMAIN SizeOf /\ r.bytes[r.starts[m] + 1] = "CR")
          BY <5>3 DEF FlawedSize
        <5> QED
          BY <1>6, <5>1, <5>4 DEF SizeLine, IsLine
      <4>3. k \in 1..(m - 1)
        BY <1>2, <4>2
      <4>4. Offset(r, k) \in Int /\ r.starts[k] + 2 = r.starts[k] + 2 + 0
        BY <1>1, <1>2, StartsFirst, ChunkStart DEF Offset
      <4>5. InData(r, x, f, k)
        BY <1>2, <4>1, <4>4 DEF InData
      <4> QED
        BY <4>1, <4>3, <4>5 DEF Chunking, UploadStates
    <3> QED
      BY <3>1, <3>2
  <2> QED
    BY <2>1, <2>2, <2>3
<1>7. CASE ~SizeLine(r, k)
  <2>1. k = m /\ ~WithChunks(r)
    BY <1>1, <1>2, <1>7, ChunkIsAt, ByChunksIs
  <2>2. PICK e \in 1..Len(r.bytes) : FlawedSize(r, e)
    BY <2>1 DEF BadSize
  <2>3. /\ LineEndsAt(r.bytes, r.starts[k], e) /\ e > r.starts[k] /\ r.bytes[r.starts[k]] # "CR"
        /\ ~(r.bytes[r.starts[k]] \in DOMAIN SizeOf /\ r.bytes[r.starts[k] + 1] = "CR")
    BY <2>1, <2>2 DEF FlawedSize
  <2>4. q.read + 1 = r.starts[k] /\ q.read + 2 = r.starts[k] + 1 /\ e \in Nat
    <3> DEFINE a == r.starts[k]
               b == q.read
               l == Len(r.bytes)
    <3>1. a \in Nat /\ b \in Nat /\ b = a - 1 /\ l \in Nat /\ e \in 1..l
      BY <1>2, RequestIs
    <3> HIDE DEF a, b, l
    <3>2. b + 1 = a /\ b + 2 = a + 1 /\ e \in Nat
      BY <3>1
    <3> QED
      BY <3>2 DEF a, b
  <2>5. LineEndsAt(r.bytes, q.read + 1, e) /\ e > q.read + 1
    BY <2>3, <2>4
  <2>6. \/ line = << >> /\ SkipLine(q) = q
        \/ /\ line # << >> /\ Len(line) \in Nat \ {0}
           /\ \A i \in 1..Len(line) : line[i] = r.bytes[q.read + i]
    BY <2>4, <2>5, OtherLine DEF line
  <2>7. CASE line = << >> /\ SkipLine(q) = q
    <3>1. ~Blank(line)
      BY <1>5, <2>7
    <3> QED
      BY <1>4, <2>7, <3>1 DEF UploadStates
  <2>8. CASE /\ line # << >> /\ Len(line) \in Nat \ {0}
             /\ \A i \in 1..Len(line) : line[i] = r.bytes[q.read + i]
    <3>1. line[1] = r.bytes[r.starts[k]] /\ (Len(line) >= 2 => line[2] = r.bytes[r.starts[k] + 1])
      BY <2>4, <2>8
    <3>2. ~Blank(line)
      BY <2>3, <3>1 DEF Blank
    <3>3. ~HasSize(line)
      <4>0. line \in Seq(STRING) /\ line[1] # "CR"
        BY <1>2, <2>3, <3>1, GetLineIs DEF line
      <4>1. CASE line[1] \in DOMAIN SizeOf
        <5>1. SizeEnd(line) = 2
          BY <2>8, <4>0, <4>1, SizeFirst
        <5> QED
          BY <2>3, <2>8, <3>1, <4>1, <5>1 DEF HasSize
      <4>2. CASE line[1] \notin DOMAIN SizeOf
        <5>1. SizeEnd(line) = 1
          BY <2>8, <4>0, <4>2, SizeFirst
        <5> QED
          BY <4>0, <5>1 DEF HasSize
      <4> QED
        BY <4>1, <4>2
    <3>4. x.state = "PARSING_BAD_REQUEST"
      BY <1>3, <2>8, <3>2, <3>3
    <3> QED
      BY <2>1, <3>4 DEF Chunking
  <2> QED
    BY <2>6, <2>7, <2>8
<1> QED
  BY <1>6, <1>7

BetweenChunks == {"UPLOADING_CHUNK_INIT", "UPLOADING_READ_LINE"}

\* Behind the data of a chunk: its line end is skipped.
LEMMA AtLineEndWalks ==
  ASSUME NEW r \in Requests, WithChunks(r) \/ BadSize(r), NEW q, Holds(r, q), NEW f,
         q.state \in BetweenChunks,
         NEW k \in 1..(Len(r.starts) - 1), AtLineEnd(r, q, f, k), NEW x, x = NextChunk(q)
  PROVE  Chunking(r, x, f) /\ x.state \in BetweenChunks
<1> DEFINE m == Len(r.starts)
           line == GetLine(q)
<1>0. BetweenChunks = {"UPLOADING_CHUNK_INIT", "UPLOADING_READ_LINE"}
  BY DEF BetweenChunks
<1>1. GoodHeader(r) /\ GoodChunks(r)
  BY ByChunksIs, BadSizeIs
<1>2. /\ q \in Storages /\ q.read \in Nat /\ k + 1 \in 1..m /\ r.starts[k + 1] \in Nat
      /\ q.read = r.starts[k + 1] - 3 /\ Len(f) = Offset(r, k + 1) /\ q.chunkSize # 0
      /\ r.bytes[r.starts[k + 1] - 2] = "CR"
      /\ LineEndsAt(r.bytes, r.starts[k + 1] - 2, r.starts[k + 1] - 1)
  BY <1>1, HoldsIs, ChunkIsAt, RequestIs DEF AtLineEnd
<1>3. q.read + 1 = r.starts[k + 1] - 2 /\ q.read + 2 = r.starts[k + 1] - 1
  BY <1>2
<1>4. \/ line = << >> /\ SkipLine(q) = q
      \/ Blank(line) /\ line # << >> /\ SkipLine(q).read = q.read + 2
  BY <1>2, <1>3, EmptyLine
<1>5. /\ x.read = SkipLine(q).read
      /\ \/ Blank(line) /\ x = SkipLine(q)
         \/ ~Blank(line) /\ line = << >> /\ x.state = "UPLOADING_READ_LINE" /\ x.chunkSize = -1
         \/ ~Blank(line) /\ line # << >>
  BY <1>2, NextChunkIs
<1>6. Blank(<< >>) = FALSE
  BY NoSymbol DEF Blank
<1>7. SkipLine(q).state = q.state
  BY <1>2, SkipLineIs, RereadIs
<1> HIDE DEF line
<1>8. CASE line = << >> /\ SkipLine(q) = q
  <2>1. x.state = "UPLOADING_READ_LINE" /\ x.chunkSize = -1 /\ x.read = q.read
    BY <1>5, <1>6, <1>8
  <2>2. AtLineEnd(r, x, f, k)
    BY <1>2, <2>1 DEF AtLineEnd
  <2> QED
    BY <1>0, <2>1, <2>2 DEF Chunking
<1>9. CASE Blank(line) /\ line # << >> /\ SkipLine(q).read = q.read + 2
  <2>1. x.state = q.state /\ x.read = r.starts[k + 1] - 1
    BY <1>3, <1>5, <1>7, <1>9
  <2>2. AtChunk(r, x, f, k + 1)
    BY <1>2, <2>1 DEF AtChunk
  <2>3. \E j \in 1..m : AtChunk(r, x, f, j)
    BY <1>2, <2>2
  <2> QED
    BY <1>0, <2>1, <2>3 DEF Chunking
<1> QED
  BY <1>4, <1>8, <1>9

\* Behind the last size: the line end that ends the body has been received.
LEMMA AtLastWalks ==
  ASSUME NEW r \in Requests, WithChunks(r) \/ BadSize(r), NEW q, Holds(r, q), NEW f,
         WellFormed(r) => Len(q.bytes) = Len(r.bytes), AtLast(r, q, f), NEW x, x = NextChunk(q)
  PROVE  Chunking(r, x, f) /\ x.state = "UPLOADING_DONE"
<1> DEFINE m == Len(r.starts)
           line == GetLine(q)
<1>1. ByChunks(r) /\ q.chunkSize = 0 /\ q.read = r.starts[m] + 2 /\ Len(f) = Offset(r, m)
  BY DEF AtLast
<1>2. GoodHeader(r) /\ SaysChunked(r, r.lines)
  BY ByChunksIs, BadSizeIs
<1>3. WithChunks(r) /\ WellFormed(r)
  BY <1>1, <1>2 DEF WithChunks, WellFormed
<1>4. /\ r.bytes[r.starts[m] + 3] = "CR"
      /\ LineEndsAt(r.bytes, r.starts[m] + 3, r.starts[m] + 4)
      /\ Len(r.bytes) = r.starts[m] + 4 /\ GoodChunks(r)
  BY <1>3, ByChunksIs
<1>5. r.starts[m] \in Nat /\ q \in Storages /\ Len(q.bytes) = r.starts[m] + 4
  BY <1>2, <1>3, <1>4, HoldsIs, StartsFirst, RequestIs
<1>6. q.read + 1 = r.starts[m] + 3 /\ q.read + 2 = r.starts[m] + 4
  BY <1>1, <1>5
<1>7. Blank(line)
  <2>1. ~(Len(q.bytes) < q.read + 2)
    BY <1>5, <1>6
  <2>2. r.bytes[q.read + 1] = "CR" /\ LineEndsAt(r.bytes, q.read + 1, q.read + 2)
    BY <1>4, <1>6
  <2> QED
    BY <2>1, <2>2, EmptyLine
<1>8. x.state = "UPLOADING_DONE"
  BY <1>1, <1>5, <1>7, NextChunkIs
<1> QED
  BY <1>1, <1>8 DEF Chunking

LEMMA NextChunkKeeps ==
  ASSUME NEW r \in Requests, NEW q, NEW f, Good(r, q, f),
         q.state \in {"UPLOADING_CHUNK_INIT", "UPLOADING_READ_LINE"}, NEW x, x = NextChunk(q)
  PROVE  Good(r, x, f)
<1>1. Parsed(r, q, FALSE) /\ Uploads(r, q, f) /\ Writes(r, q, f)
  BY DEF Good
<1>2. Holds(r, q) /\ q \in Storages /\ q.state \in UploadStates
  BY <1>1, ParsedInMemory DEF UploadStates
<1>3. /\ x \in Storages /\ SameRequest(q, x)
      /\ x.state \in UploadStates \cup {"PARSING_BAD_REQUEST"}
      /\ x.state = "UPLOADING_INIT" => x.uploaded = 0
  <2>1. SkipLine(q).state = q.state
    BY <1>2, SkipLineIs, RereadIs
  <2> QED
    BY <1>2, <2>1, NextChunkIs DEF UploadStates
<1>4. ~WithLength(r)
  BY <1>1, <1>2 DEF Uploads, Copying
<1>5. ASSUME WithChunks(r) \/ BadSize(r)
      PROVE  Chunking(r, x, f) /\ (WithChunks(r) => x.state # "PARSING_BAD_REQUEST")
  <2>1. \/ \E k \in 1..Len(r.starts) : AtChunk(r, q, f, k)
        \/ \E k \in 1..(Len(r.starts) - 1) : AtLineEnd(r, q, f, k)
        \/ AtLast(r, q, f)
    BY <1>1, <1>2, <1>5 DEF Uploads, Chunking
  <2>2. ASSUME NEW k \in 1..Len(r.starts), AtChunk(r, q, f, k)
        PROVE  Chunking(r, x, f) /\ (WithChunks(r) => x.state # "PARSING_BAD_REQUEST")
    BY <1>2, <1>5, <2>2, AtChunkWalks
  <2>3. ASSUME NEW k \in 1..(Len(r.starts) - 1), AtLineEnd(r, q, f, k)
        PROVE  Chunking(r, x, f) /\ x.state # "PARSING_BAD_REQUEST"
    <3>1. q.state \in BetweenChunks
      BY DEF BetweenChunks
    <3>2. Chunking(r, x, f) /\ x.state \in BetweenChunks
      BY <1>2, <1>5, <2>3, <3>1, AtLineEndWalks
    <3> QED
      BY <3>2 DEF BetweenChunks
  <2>4. ASSUME AtLast(r, q, f) PROVE Chunking(r, x, f) /\ x.state # "PARSING_BAD_REQUEST"
    <3>1. WellFormed(r) => Len(q.bytes) = Len(r.bytes)
      BY <1>1, <1>2 DEF Uploads
    <3> QED
      BY <1>2, <1>5, <2>4, <3>1, AtLastWalks
  <2> QED
    BY <2>1, <2>2, <2>3, <2>4
<1>6. WellFormed(r) => x.state # "PARSING_BAD_REQUEST"
  BY <1>4, <1>5 DEF WithChunks, WithLength
<1>7. Parsed(r, x, FALSE)
  BY <1>1, <1>2, <1>3, <1>6, UploadParsed
<1>8. Uploads(r, x, f)
  <2>1. WellFormed(r) => Len(x.bytes) = Len(r.bytes)
    BY <1>1, <1>2, <1>3 DEF Uploads, SameRequest
  <2> QED
    BY <1>3, <1>4, <1>5, <2>1 DEF Uploads
<1>9. Writes(r, x, f)
  BY <1>1, <1>3 DEF Writes
<1> QED
  BY <1>7, <1>8, <1>9 DEF Good

LEMMA OffsetBound ==
  ASSUME NEW r \in Requests, GoodHeader(r), GoodChunks(r), NEW k \in 1..Len(r.starts)
  PROVE  Offset(r, k) \in Int /\ Offset(r, k) =< Offset(r, Len(r.starts))
<1> DEFINE m == Len(r.starts)
           S == {d \in Nat : d < m /\ ~(Offset(r, m - d) =< Offset(r, m))}
<1>1. m \in Nat \ {0}
  BY StartsFirst
<1>2. \A j \in 1..m : Offset(r, j) \in Int
  <2>1. TAKE j \in 1..m
  <2>2. r.starts[j] \in Nat /\ r.starts[1] \in Nat
    BY <1>1, ChunkStart
  <2> QED
    BY <2>2 DEF Offset
<1>3. S = {}
  <2>1. SUFFICES ASSUME S # {} PROVE FALSE
    OBVIOUS
  <2>2. PICK d \in S : \A j \in S : d =< j
    <3>1. S \in SUBSET Nat
      OBVIOUS
    <3> HIDE DEF S
    <3> QED
      BY <2>1, <3>1, Least
  <2>3. d \in Nat /\ d < m /\ ~(Offset(r, m - d) =< Offset(r, m))
    BY <2>2
  <2>4. d # 0
    BY <1>1, <1>2, <2>3
  <2>5. d - 1 \in Nat /\ ~(d - 1 \in S) /\ d - 1 < m
    BY <1>1, <2>2, <2>3, <2>4
  <2>6. Offset(r, m - (d - 1)) =< Offset(r, m)
    BY <2>5
  <2>7. m - d \in 1..(m - 1) /\ (m - d) + 1 = m - (d - 1) /\ m - (d - 1) \in 1..m
    BY <1>1, <2>3, <2>4
  <2>8. /\ Size(r, m - d) \in Nat \ {0}
        /\ Offset(r, (m - d) + 1) = Offset(r, m - d) + Size(r, m - d)
    BY <2>7, ChunkIsAt
  <2>9. Offset(r, m - d) \in Int /\ Offset(r, m) \in Int /\ Offset(r, m - (d - 1)) \in Int
    BY <1>1, <1>2, <2>7
  <2>10. Offset(r, m - (d - 1)) = Offset(r, m - d) + Size(r, m - d)
    BY <2>7, <2>8
  <2> QED
    BY <2>3, <2>6, <2>8, <2>9, <2>10
<1>4. m - k \in Nat /\ m - k < m /\ m - (m - k) = k
  BY <1>1
<1>5. m - k \notin S
  BY <1>3
<1>6. Offset(r, m - (m - k)) =< Offset(r, m)
  BY <1>4, <1>5
<1> QED
  BY <1>2, <1>4, <1>6

LEMMA FileGrows ==
  ASSUME NEW f \in Seq(STRING), NEW t \in Seq(STRING), NEW w \in Seq(STRING),
         Len(f) + Len(t) =< Len(w), \A i \in 1..Len(f) : f[i] = w[i],
         \A j \in 1..Len(t) : t[j] = w[Len(f) + j]
  PROVE  /\ f \o t \in Seq(STRING) /\ Len(f \o t) = Len(f) + Len(t) /\ Len(f \o t) =< Len(w)
         /\ \A i \in 1..Len(f \o t) : (f \o t)[i] = w[i]
<1> DEFINE a == Len(f)
           b == Len(t)
           c == Len(w)
           g == f \o t
<1>1. a \in Nat /\ b \in Nat /\ c \in Nat
  BY LenProperties
<1>2. /\ g \in Seq(STRING) /\ Len(g) = a + b
      /\ \A i \in 1..(a + b) : g[i] = IF i =< a THEN f[i] ELSE t[i - a]
  BY ConcatProperties
<1>3. /\ a + b =< c /\ \A i \in 1..a : f[i] = w[i]
      /\ \A j \in 1..b : t[j] = w[a + j]
  OBVIOUS
<1> HIDE DEF a, b, c, g
<1>4. ASSUME NEW i \in 1..(a + b) PROVE g[i] = w[i]
  <2>1. CASE i =< a
    BY <1>1, <1>2, <1>3, <2>1
  <2>2. CASE ~(i =< a)
    <3>1. i - a \in 1..b /\ a + (i - a) = i
      BY <1>1, <2>2
    <3>2. g[i] = t[i - a] /\ t[i - a] = w[a + (i - a)]
      BY <1>2, <1>3, <2>2, <3>1
    <3> QED
      BY <3>1, <3>2
  <2> QED
    BY <2>1, <2>2
<1> QED
  BY <1>2, <1>3, <1>4 DEF a, b, c, g

\* What a well-formed request has to be uploaded is not negative.
LEMMA UploadSize ==
  ASSUME NEW r \in Requests, WellFormed(r), NEW q, NEW f, Good(r, q, f), q.state = "UPLOADING_INIT"
  PROVE  q.chunkSize \in Nat /\ q.uploaded =< q.chunkSize
<1>1. /\ Parsed(r, q, FALSE) /\ Uploads(r, q, f) /\ q.state \in UploadStates
      /\ q \in HttpRequests /\ (GoodHeader(r) => Known(r, q))
  BY ParsedIs DEF Good, UploadStates, HeaderSaid
<1>2. q.chunkSize \in Int /\ q.length \in Int
  BY <1>1, Fields
<1>3. q.chunkSize \in Nat
  <2>1. CASE WithLength(r)
    <3>1. q.chunkSize = q.length
      BY <1>1, <2>1 DEF Uploads, Copying
    <3>2. GoodHeader(r) /\ Len(r.bytes) = HeaderEnd(r) + SaysLength(r, r.lines)
      BY <2>1, LengthIs
    <3>3. q.length = SaysLength(r, r.lines)
      BY <1>1, <3>2 DEF Known, Said
    <3>4. HeaderEnd(r) \in Nat /\ HeaderEnd(r) =< Len(r.bytes) /\ Len(r.bytes) \in Nat
      BY <3>2, GoodHeaderEnd, RequestIs DEF LineEndsAt
    <3> QED
      BY <1>2, <3>1, <3>2, <3>3, <3>4
  <2>2. CASE WithChunks(r)
    <3>1. PICK k \in 1..(Len(r.starts) - 1) : InData(r, q, f, k)
      BY <1>1, <2>2 DEF Uploads, Chunking
    <3>2. Size(r, k) \in Nat \ {0}
      BY <2>2, <3>1, ByChunksIs, ChunkIsAt
    <3> QED
      BY <3>1, <3>2 DEF InData
  <2> QED
    BY <2>1, <2>2 DEF WithLength, WithChunks
<1> QED
  BY <1>1, <1>3 DEF Uploads

\* Where the data that uploadRequest writes next belongs in the payload.
LEMMA DataIsPayload ==
  ASSUME NEW r \in Requests, WellFormed(r), NEW q, NEW f, Good(r, q, f), q.state = "UPLOADING_INIT",
         NEW j \in Nat \ {0}, q.uploaded + j =< q.chunkSize, q.read + j =< Len(q.bytes)
  PROVE  q.bytes[q.read + j] = r.payload[Len(f) + j] /\ Len(f) + j =< Len(r.payload)
<1>1. Parsed(r, q, FALSE) /\ Uploads(r, q, f) /\ Writes(r, q, f)
  BY DEF Good
<1>2. Holds(r, q) /\ q \in Storages /\ q.state \in UploadStates
  BY <1>1, ParsedInMemory DEF UploadStates
<1>3. /\ q.read \in Nat /\ q.uploaded \in Nat /\ Len(q.bytes) \in Nat /\ q.uploaded =< q.chunkSize
      /\ q.chunkSize \in Nat
  BY <1>2, UploadSize, FieldTypes
<1>4. q.bytes[q.read + j] = r.bytes[q.read + j]
  BY <1>2, <1>3, HoldsIs
<1>5. GoodHeader(r) => Known(r, q)
  BY <1>1, ParsedIs DEF HeaderSaid
<1>6. CASE WithLength(r)
  <2>1. q.chunkSize = q.length /\ q.read = HeaderEnd(r) + q.uploaded /\ Len(f) = q.uploaded
    BY <1>1, <1>2, <1>6 DEF Uploads, Copying
  <2>2. /\ GoodHeader(r) /\ Len(r.bytes) = HeaderEnd(r) + SaysLength(r, r.lines)
        /\ r.payload = SubSeq(r.bytes, HeaderEnd(r) + 1, Len(r.bytes))
    BY <1>6, LengthIs
  <2>3. q.length = SaysLength(r, r.lines)
    BY <1>5, <2>2 DEF Known, Said
  <2> DEFINE a == HeaderEnd(r)
             n == Len(r.bytes)
             u == q.uploaded
             z == q.length
  <2>4. a \in Nat /\ n \in Nat /\ r.bytes \in Seq(STRING) /\ z \in Nat /\ u \in Nat
    BY <1>3, <2>1, <2>2, GoodHeaderEnd, RequestIs
  <2>5. n = a + z /\ u + j =< z /\ q.read + j = a + (u + j) /\ Len(f) + j = u + j
    BY <1>3, <2>1, <2>2, <2>3, <2>4
  <2>6. /\ Len(r.payload) = n - (a + 1) + 1
        /\ \A i \in 1..(n - (a + 1) + 1) : r.payload[i] = r.bytes[(a + 1) + i - 1]
    <3>1. r.payload = SubSeq(r.bytes, a + 1, n) /\ n =< Len(r.bytes)
      BY <2>2, <2>4
    <3> HIDE DEF a, n
    <3>2. a + 1 \in Nat \ {0} /\ a + 1 =< n + 1
      BY <2>4, <2>5
    <3>3. /\ Len(SubSeq(r.bytes, a + 1, n)) = n - (a + 1) + 1
          /\ \A i \in 1..(n - (a + 1) + 1) : SubSeq(r.bytes, a + 1, n)[i] = r.bytes[(a + 1) + i - 1]
      BY <2>4, <3>1, <3>2, Part
    <3> QED
      BY <3>1, <3>3
  <2> HIDE DEF a, n, u, z
  <2>7. /\ n - (a + 1) + 1 = z /\ u + j \in 1..(n - (a + 1) + 1)
        /\ (a + 1) + (u + j) - 1 = a + (u + j)
    BY <2>4, <2>5
  <2>8. r.payload[u + j] = r.bytes[(a + 1) + (u + j) - 1]
    BY <2>6, <2>7
  <2> QED
    BY <1>4, <2>5, <2>6, <2>7, <2>8
<1>7. CASE WithChunks(r)
  <2> DEFINE m == Len(r.starts)
  <2>1. /\ GoodHeader(r) /\ GoodChunks(r) /\ Len(r.payload) = Offset(r, m) /\ ByChunks(r)
    BY <1>7, ByChunksIs
  <2>2. PICK k \in 1..(m - 1) : InData(r, q, f, k)
    BY <1>1, <1>2, <1>7 DEF Uploads, Chunking
  <2>3. /\ q.chunkSize = Size(r, k) /\ q.read = r.starts[k] + 2 + q.uploaded
        /\ Len(f) = Offset(r, k) + q.uploaded
    BY <2>2 DEF InData
  <2>4. /\ k \in 1..m /\ k + 1 \in 1..m /\ Size(r, k) \in Nat
        /\ Offset(r, k + 1) = Offset(r, k) + Size(r, k)
    BY <2>1, ChunkIsAt
  <2>5. /\ Offset(r, k) \in Int /\ Offset(r, k + 1) \in Int
        /\ Offset(r, k + 1) =< Offset(r, m) /\ Offset(r, m) \in Int
    BY <2>1, <2>4, OffsetBound, StartsFirst
  <2>6. r.starts[k] \in Nat
    BY <2>4, RequestIs
  <2> DEFINE i == q.uploaded + j
             o == Offset(r, k)
             z == Size(r, k)
             s == r.starts[k]
             l == Len(r.payload)
  <2>7. \A h \in 1..z : r.payload[o + h] = r.bytes[s + 2 + h]
    BY <2>1 DEF ByChunks
  <2>8. /\ i \in 1..z /\ q.read + j = s + 2 + i /\ Len(f) + j = o + i /\ o + i =< l
    <3> DEFINE u == q.uploaded
               a == q.read
               b == Len(f)
               c == q.chunkSize
               o2 == Offset(r, k + 1)
               o3 == Offset(r, m)
    <3>1. /\ c = z /\ a = s + 2 + u /\ b = o + u /\ o2 = o + z /\ o2 =< o3 /\ l = o3
          /\ u \in Nat /\ s \in Nat /\ o \in Int /\ o2 \in Int /\ o3 \in Int /\ z \in Nat
          /\ u + j =< c /\ i = u + j
      BY <1>3, <2>1, <2>3, <2>4, <2>5, <2>6
    <3> HIDE DEF u, a, b, c, o2, o3, i, o, z, s, l
    <3>2. i \in 1..z /\ a + j = s + 2 + i /\ b + j = o + i /\ o + i =< l
      BY <3>1
    <3> QED
      BY <3>2 DEF a, b
  <2> HIDE DEF i, o, z, s, l
  <2>9. r.payload[o + i] = r.bytes[s + 2 + i]
    BY <2>7, <2>8
  <2> QED
    BY <1>4, <2>8, <2>9 DEF l
<1> QED
  BY <1>6, <1>7 DEF WithLength, WithChunks

LEMMA MovedKeeps ==
  ASSUME NEW r \in Requests, NEW q, NEW f, Good(r, q, f), q.state = "UPLOADING_INIT",
         NEW n \in 0..Goal(q), NEW x, x = Moved(q, n), NEW g, g = f \o SubSeq(Remains(q), 1, n)
  PROVE  Good(r, x, g)
<1>1. Parsed(r, q, FALSE) /\ Uploads(r, q, f) /\ Writes(r, q, f)
  BY DEF Good
<1>2. Holds(r, q) /\ q \in Storages /\ q.state \in UploadStates
  BY <1>1, ParsedInMemory DEF UploadStates
<1>3. 0 =< q.chunkSize => q.uploaded =< q.chunkSize
  BY <1>1 DEF Uploads
<1>4. /\ n \in Nat /\ n =< Len(Remains(q)) /\ q.read + n =< Len(q.bytes)
      /\ 0 =< q.chunkSize => q.uploaded + n =< q.chunkSize
      /\ x \in Storages /\ SameRequest(q, x) /\ x.read = q.read + n /\ x.chunkSize = q.chunkSize
      /\ x.uploaded = q.uploaded + n
      /\ x.state = IF q.uploaded + n # q.chunkSize THEN "UPLOADING_INIT"
                   ELSE IF q.chunked THEN "UPLOADING_READ_LINE" ELSE "UPLOADING_DONE"
  BY <1>2, <1>3, MovedIs
<1>5. /\ q.read \in Nat /\ q.uploaded \in Nat /\ Len(q.bytes) \in Nat
      /\ f \in Seq(STRING) /\ Len(f) \in Nat
  BY <1>1, <1>2, FieldTypes, LenProperties DEF Writes
<1> DEFINE t == SubSeq(Remains(q), 1, n)
<1>6. t \in Seq(STRING) /\ Len(t) = n /\ \A j \in 1..n : t[j] = q.bytes[q.read + j]
  <2>1. /\ Remains(q) \in Seq(STRING) /\ Len(Remains(q)) \in Nat
        /\ \A i \in 1..Len(Remains(q)) : Remains(q)[i] = q.bytes[q.read + i]
    BY <1>2, RemainsIs
  <2>2. 1 \in Nat \ {0} /\ 1 =< n + 1
    BY <1>4
  <2>3. /\ t \in Seq(STRING) /\ Len(t) = n - 1 + 1
        /\ \A j \in 1..(n - 1 + 1) : t[j] = Remains(q)[1 + j - 1]
    BY <1>4, <2>1, <2>2, Part
  <2> HIDE DEF t
  <2>4. ASSUME NEW j \in 1..n PROVE t[j] = q.bytes[q.read + j]
    <3>1. j \in 1..(n - 1 + 1) /\ 1 + j - 1 = j /\ j \in 1..Len(Remains(q))
      BY <1>4, <2>1
    <3>2. t[j] = Remains(q)[1 + j - 1]
      BY <2>3, <3>1
    <3> QED
      BY <2>1, <3>1, <3>2
  <2>5. n - 1 + 1 = n
    BY <1>4
  <2> QED
    BY <2>3, <2>4, <2>5
<1>7. g \in Seq(STRING) /\ Len(g) = Len(f) + n
  <2> HIDE DEF t
  <2>1. f \o t \in Seq(STRING) /\ Len(f \o t) = Len(f) + Len(t)
    BY <1>5, <1>6, ConcatProperties
  <2> QED
    BY <1>6, <2>1 DEF t
<1> HIDE DEF t
<1>8. x.state \in UploadStates /\ x.state # "PARSING_BAD_REQUEST"
  BY <1>4 DEF UploadStates
<1>9. Parsed(r, x, FALSE)
  BY <1>1, <1>2, <1>4, <1>8, UploadParsed
<1>10. Writes(r, x, g)
  <2>1. ASSUME WellFormed(r)
        PROVE  Len(g) =< Len(r.payload) /\ \A i \in 1..Len(g) : g[i] = r.payload[i]
    <3>1. r.payload \in Seq(STRING) /\ Len(r.payload) \in Nat
      BY RequestIs
    <3>2. Len(f) =< Len(r.payload) /\ \A i \in 1..Len(f) : f[i] = r.payload[i]
      BY <1>1, <2>1 DEF Writes
    <3>3. ASSUME NEW j \in 1..n
          PROVE  t[j] = r.payload[Len(f) + j] /\ Len(f) + j =< Len(r.payload)
      <4>1. j \in Nat \ {0} /\ q.uploaded + j =< q.chunkSize /\ q.read + j =< Len(q.bytes)
        <5> DEFINE a == q.read
                   u == q.uploaded
                   c == q.chunkSize
                   l == Len(q.bytes)
        <5>1. /\ a \in Nat /\ u \in Nat /\ c \in Nat /\ l \in Nat /\ n \in Nat
              /\ a + n =< l /\ u + n =< c
          BY <1>4, <1>5, <2>1, UploadSize
        <5> HIDE DEF a, u, c, l
        <5>2. j \in Nat \ {0} /\ u + j =< c /\ a + j =< l
          BY <5>1
        <5> QED
          BY <5>2 DEF a, u, c, l
      <4>2. q.bytes[q.read + j] = r.payload[Len(f) + j] /\ Len(f) + j =< Len(r.payload)
        BY <2>1, <4>1, DataIsPayload
      <4> QED
        BY <1>6, <4>2
    <3>4. Len(f) + Len(t) =< Len(r.payload)
      <4>1. CASE n = 0
        BY <1>5, <1>6, <3>2, <4>1
      <4>2. CASE n # 0
        BY <1>4, <1>6, <3>3, <4>2
      <4> QED
        BY <4>1, <4>2
    <3>5. \A j \in 1..Len(t) : t[j] = r.payload[Len(f) + j]
      BY <1>6, <3>3
    <3>6. /\ Len(f \o t) =< Len(r.payload)
          /\ \A i \in 1..Len(f \o t) : (f \o t)[i] = r.payload[i]
      BY <1>5, <1>6, <3>1, <3>2, <3>4, <3>5, FileGrows
    <3> QED
      BY <3>6 DEF t
  <2> QED
    BY <1>7, <1>8, <2>1 DEF Writes
<1>11. GoodHeader(r) => (q.chunked <=> SaysChunked(r, r.lines))
  BY <1>1, <1>2, ParsedIs DEF HeaderSaid, Known, Said, UploadStates
<1>12. ASSUME WithLength(r) PROVE Copying(r, x, g)
  <2>1. q.chunkSize = q.length /\ q.read = HeaderEnd(r) + q.uploaded /\ Len(f) = q.uploaded
    BY <1>1, <1>2, <1>12 DEF Uploads, Copying
  <2>2. ~q.chunked /\ HeaderEnd(r) \in Nat
    BY <1>11, <1>12, LengthIs, GoodHeaderEnd
  <2>3. x.length = q.length
    BY <1>4 DEF SameRequest
  <2>4. x.read = HeaderEnd(r) + x.uploaded /\ Len(g) = x.uploaded
    BY <1>4, <1>5, <1>7, <2>1, <2>2
  <2>5. /\ x.state \in {"UPLOADING_INIT", "UPLOADING_DONE"} /\ x.chunkSize = x.length
        /\ x.state = "UPLOADING_DONE" => x.uploaded = x.length
    BY <1>4, <2>1, <2>2, <2>3
  <2> QED
    BY <2>4, <2>5 DEF Copying
<1>13. ASSUME WithChunks(r) \/ BadSize(r) PROVE Chunking(r, x, g)
  <2> DEFINE m == Len(r.starts)
  <2>1. GoodHeader(r) /\ GoodChunks(r) /\ SaysChunked(r, r.lines)
    BY <1>13, ByChunksIs, BadSizeIs
  <2>2. PICK k \in 1..(m - 1) : InData(r, q, f, k)
    BY <1>1, <1>2, <1>13 DEF Uploads, Chunking
  <2>3. /\ q.chunkSize = Size(r, k) /\ q.read = r.starts[k] + 2 + q.uploaded
        /\ Len(f) = Offset(r, k) + q.uploaded
    BY <2>2 DEF InData
  <2>4. /\ k \in 1..m /\ k + 1 \in 1..m /\ Size(r, k) \in Nat \ {0}
        /\ r.starts[k + 1] = r.starts[k] + 5 + Size(r, k)
        /\ Offset(r, k + 1) = Offset(r, k) + Size(r, k)
    BY <2>1, ChunkIsAt
  <2>5. Offset(r, k) \in Int /\ r.starts[k] \in Nat
    BY <2>1, <2>4, OffsetBound, RequestIs
  <2>6. x.read = r.starts[k] + 2 + x.uploaded /\ Len(g) = Offset(r, k) + x.uploaded
    <3> DEFINE u == q.uploaded
               v == x.uploaded
               a == q.read
               b == Len(f)
               o == Offset(r, k)
               s == r.starts[k]
    <3>1. /\ a = s + 2 + u /\ b = o + u /\ v = u + n
          /\ u \in Nat /\ s \in Nat /\ o \in Int /\ n \in Nat
      BY <1>4, <1>5, <2>3, <2>5
    <3>2. x.read = a + n /\ Len(g) = b + n
      BY <1>4, <1>7
    <3> HIDE DEF u, v, a, b, o, s
    <3>3. a + n = s + 2 + v /\ b + n = o + v
      BY <3>1
    <3> QED
      BY <3>2, <3>3 DEF v, o, s
  <2>7. CASE q.uploaded + n # q.chunkSize
    <3>1. InData(r, x, g, k)
      BY <1>4, <2>3, <2>6 DEF InData
    <3> QED
      BY <1>4, <2>7, <3>1 DEF Chunking
  <2>8. CASE q.uploaded + n = q.chunkSize
    <3>1. x.state = "UPLOADING_READ_LINE" /\ x.uploaded = Size(r, k) /\ x.chunkSize # 0
      BY <1>4, <1>11, <2>1, <2>3, <2>4, <2>8
    <3>2. x.read = r.starts[k + 1] - 3 /\ Len(g) = Offset(r, k + 1)
      <4> DEFINE a == r.starts[k]
                 c == r.starts[k + 1]
                 z == Size(r, k)
                 d == x.read
      <4>1. a \in Nat /\ z \in Nat /\ c = a + 5 + z /\ d = a + 2 + z
        BY <2>4, <2>5, <2>6, <3>1
      <4> HIDE DEF a, c, z, d
      <4>2. d = c - 3
        BY <4>1
      <4>3. Len(g) = Offset(r, k) + Size(r, k)
        BY <2>6, <3>1
      <4> QED
        BY <2>4, <4>2, <4>3 DEF c, d
    <3>3. AtLineEnd(r, x, g, k)
      BY <3>1, <3>2 DEF AtLineEnd
    <3> QED
      BY <3>1, <3>3 DEF Chunking
  <2> QED
    BY <2>7, <2>8
<1>14. Uploads(r, x, g)
  <2>1. WellFormed(r) => Len(x.bytes) = Len(r.bytes)
    BY <1>1, <1>2, <1>4 DEF Uploads, SameRequest
  <2>2. 0 =< x.chunkSize => x.uploaded =< x.chunkSize
    BY <1>4
  <2> QED
    BY <1>12, <1>13, <2>1, <2>2 DEF Uploads
<1> QED
  BY <1>9, <1>10, <1>14 DEF Good

-----------------------------------------------------------------------------
(* The handlers *)

LEMMA Extended ==
  ASSUME NEW a \in Seq(STRING), NEW b \in Seq(STRING)
  PROVE  /\ a \o b \in Seq(STRING) /\ Len(a \o b) = Len(a) + Len(b)
         /\ Len(a) \in Nat /\ Len(b) \in Nat /\ \A i \in 1..Len(a) : (a \o b)[i] = a[i]
<1>1. Len(a) \in Nat /\ Len(b) \in Nat
  BY LenProperties
<1> DEFINE c == a \o b
           k == Len(a)
           l == Len(b)
<1>2. /\ c \in Seq(STRING) /\ Len(c) = k + l
      /\ \A i \in 1..(k + l) : c[i] = IF i =< k THEN a[i] ELSE b[i - k]
  BY ConcatProperties
<1> HIDE DEF c, k, l
<1>3. ASSUME NEW i \in 1..k PROVE c[i] = a[i]
  BY <1>1, <1>2 DEF k, l
<1> QED
  BY <1>1, <1>2, <1>3 DEF c, k, l

LEMMA Joined ==
  ASSUME NEW a \in Seq(STRING), NEW b \in Seq(STRING), NEW c \in Seq(STRING)
  PROVE  (a \o b) \o c = a \o (b \o c)
<1> DEFINE S == STRING
<1>1. a \in Seq(S) /\ b \in Seq(S) /\ c \in Seq(S)
  OBVIOUS
<1> HIDE DEF S
<1> QED
  BY <1>1, ConcatAssociative

LEMMA SplitInput ==
  ASSUME NEW b \in Seq(STRING), NEW s \in Seq(STRING), NEW n \in 1..Len(s)
  PROVE  /\ SubSeq(s, 1, n) \in Seq(STRING) /\ SubSeq(s, n + 1, Len(s)) \in Seq(STRING)
         /\ (b \o SubSeq(s, 1, n)) \o SubSeq(s, n + 1, Len(s)) = b \o s
<1> DEFINE l == Len(s)
           u == SubSeq(s, 1, n)
           v == SubSeq(s, n + 1, l)
<1>1. l \in Nat /\ n \in Nat /\ n =< l /\ 1 =< n
  BY LenProperties
<1>2. u \in Seq(STRING) /\ Len(u) = n /\ \A i \in 1..n : u[i] = s[i]
  <2>1. 1 \in Nat \ {0} /\ 1 =< n + 1
    BY <1>1
  <2>2. /\ u \in Seq(STRING) /\ Len(u) = n - 1 + 1 /\ \A i \in 1..(n - 1 + 1) : u[i] = s[1 + i - 1]
    BY <1>1, <2>1, Part
  <2> HIDE DEF u, l
  <2>3. ASSUME NEW i \in 1..n PROVE u[i] = s[i]
    <3>1. i \in 1..(n - 1 + 1) /\ 1 + i - 1 = i
      BY <1>1
    <3> QED
      BY <2>2, <3>1
  <2>4. n - 1 + 1 = n
    BY <1>1
  <2> QED
    BY <2>2, <2>3, <2>4
<1>3. /\ v \in Seq(STRING) /\ Len(v) = l - n /\ \A i \in 1..(l - n) : v[i] = s[n + i]
  <2>1. n + 1 \in Nat \ {0} /\ n + 1 =< l + 1 /\ l =< Len(s)
    BY <1>1
  <2>2. /\ v \in Seq(STRING) /\ Len(v) = l - (n + 1) + 1
        /\ \A i \in 1..(l - (n + 1) + 1) : v[i] = s[(n + 1) + i - 1]
    BY <1>1, <2>1, Part
  <2> HIDE DEF v, l
  <2>3. ASSUME NEW i \in 1..(l - n) PROVE v[i] = s[n + i]
    <3>1. i \in 1..(l - (n + 1) + 1) /\ (n + 1) + i - 1 = n + i
      BY <1>1
    <3> QED
      BY <2>2, <3>1
  <2>4. l - (n + 1) + 1 = l - n
    BY <1>1
  <2> QED
    BY <2>2, <2>3, <2>4
<1>4. u \o v = s
  <2> HIDE DEF u, v
  <2>1. /\ u \o v \in Seq(STRING) /\ Len(u \o v) = Len(u) + Len(v)
        /\ \A i \in 1..(Len(u) + Len(v)) : (u \o v)[i] = IF i =< Len(u) THEN u[i] ELSE v[i - Len(u)]
    BY <1>2, <1>3, ConcatProperties
  <2> DEFINE w == u \o v
  <2> HIDE DEF w
  <2>2. /\ w \in Seq(STRING) /\ Len(w) = n + (l - n)
        /\ \A i \in 1..(n + (l - n)) : w[i] = IF i =< n THEN u[i] ELSE v[i - n]
    BY <1>2, <1>3, <2>1 DEF w
  <2>3. n + (l - n) = l
    BY <1>1
  <2>4. ASSUME NEW i \in 1..l PROVE w[i] = s[i]
    <3> HIDE DEF l
    <3>1. CASE i =< n
      BY <1>1, <1>2, <2>2, <2>3, <3>1
    <3>2. CASE ~(i =< n)
      <4>1. i - n \in 1..(l - n) /\ n + (i - n) = i
        BY <1>1, <3>2
      <4> QED
        BY <1>3, <2>2, <2>3, <3>2, <4>1
    <3> QED
      BY <3>1, <3>2
  <2>5. w = s
    BY <2>2, <2>3, <2>4, SeqEqual
  <2> QED
    BY <2>5 DEF w
<1>5. (b \o u) \o v = b \o (u \o v)
  <2> HIDE DEF u, v
  <2>1. u \in Seq(STRING) /\ v \in Seq(STRING)
    BY <1>2, <1>3
  <2> QED
    BY <2>1, Joined
<1> QED
  BY <1>2, <1>3, <1>4, <1>5

LEMMA NewIs ==
  ASSUME NEW r \in Requests, NEW q \in Storages, q.state = "PARSING_INIT", q.bytes = << >>,
         q.read = 0, q.headerSize = 0, q.chunkSize = -1, ~q.chunked, q.length = 0, q.uploaded = 0
  PROVE  Good(r, q, << >>) /\ q.bytes \o r.bytes = r.bytes
<1>1. r.bytes \in Seq(STRING) /\ Len(r.bytes) \in Nat
  BY RequestIs
<1>2. Len(q.bytes) = 0
  BY NoSymbol
<1>3. Holds(r, q)
  BY <1>1, <1>2 DEF Holds, Holding, Storages
<1>4. Begun(r, q, FALSE)
  BY NoneIsModerate DEF Begun, AtWork
<1>5. HeaderSaid(r, q) /\ BodyFound(r, q) /\ FlawSeen(r, q, FALSE)
  BY DEF HeaderSaid, BodyFound, FlawSeen
<1>6. Uploads(r, q, << >>)
  BY NoUpload DEF UploadStates
<1>7. Writes(r, q, << >>)
  BY NoSymbol, RequestIs DEF Writes, UploadStates
<1>8. q.bytes \o r.bytes = r.bytes
  BY <1>1, ConcatEmptySeq
<1>9. Holding(r, q) /\ Steady(r, q)
  BY <1>3, HoldsSteady
<1> QED
  BY <1>9, <1>4, <1>5, <1>6, <1>7, <1>8 DEF Good, Parsed

\* A request at its start, with the storage and the start of the body it is left with.
Made(storage, bodyFirst, b, c, no) ==
  [state |-> "PARSING_INIT", storage |-> storage, bytes |-> b, read |-> 0,
   headerSize |-> 0, chunkSize |-> c, bodyExisted |-> no, chunked |-> no,
   length |-> 0, method |-> "NOT_IMPL", bodyFirst |-> bodyFirst, uploaded |-> 0]
Parts(storage, bodyFirst, b, c, no) ==
  /\ storage \in {"RECEIVING", "RECEIVE_DONE"} /\ bodyFirst \in Nat
  /\ b \in Seq(STRING) /\ c \in Nat \cup {-1} /\ no \in BOOLEAN
Renewed(storage, bodyFirst) == Made(storage, bodyFirst, << >>, -1, FALSE)

LEMMA MadeIs ==
  ASSUME NEW storage, NEW bodyFirst, NEW b, NEW c, NEW no, Parts(storage, bodyFirst, b, c, no),
         NEW q, q = Made(storage, bodyFirst, b, c, no)
  PROVE  /\ q \in HttpRequests /\ q.state = "PARSING_INIT" /\ q.bytes = b
         /\ q.read = 0 /\ q.headerSize = 0 /\ q.chunkSize = c /\ q.chunked = no /\ q.length = 0
         /\ q.uploaded = 0
<1>1. q \in HttpRequests
  BY DEF Made, Parts, HttpRequests, ParsingStates, RequestLines
<1>2. /\ q.state = "PARSING_INIT" /\ q.bytes = b
      /\ q.read = 0 /\ q.headerSize = 0 /\ q.chunkSize = c /\ q.chunked = no /\ q.length = 0
      /\ q.uploaded = 0
  BY DEF Made
<1> QED
  BY <1>1, <1>2

LEMMA RenewedIs ==
  ASSUME NEW storage, storage \in {"RECEIVING", "RECEIVE_DONE"}, NEW bodyFirst \in Nat, NEW q,
         q = Renewed(storage, bodyFirst)
  PROVE  /\ q \in Storages /\ q.state = "PARSING_INIT" /\ q.bytes = << >>
         /\ q.read = 0 /\ q.headerSize = 0 /\ q.chunkSize = -1 /\ ~q.chunked /\ q.length = 0
         /\ q.uploaded = 0
<1> DEFINE b == << >>
           c == -1
           no == FALSE
<1>1. q = Made(storage, bodyFirst, b, c, no)
  BY DEF Renewed
<1>2. b \in Seq(STRING) /\ Len(b) = 0 /\ c \in Nat \cup {-1} /\ no \in BOOLEAN
  BY NoSymbol
<1> HIDE DEF b, c, no
<1>3. Parts(storage, bodyFirst, b, c, no)
  BY <1>2 DEF Parts
<1>4. /\ q \in HttpRequests /\ q.state = "PARSING_INIT" /\ q.bytes = b
      /\ q.read = 0 /\ q.headerSize = 0 /\ q.chunkSize = c /\ q.chunked = no /\ q.length = 0
      /\ q.uploaded = 0
  BY <1>1, <1>3, MadeIs
<1>5. q.read =< Len(q.bytes)
  BY <1>2, <1>4
<1> QED
  BY <1>4, <1>5 DEF Storages, b, c, no

Receiving == {"PARSING_INIT", "PARSING_HEADER", "PARSING_BODY"}

\* The bytes s are still to come, and n of them come next.
ToCome(r, q, s, n) == s \in Seq(STRING) /\ q.bytes \o s = r.bytes /\ n \in 1..Len(s)
Took(q, s, n) == SockToMem(q, SubSeq(s, 1, n))
Settled(r, q) == Parsed(r, q, FALSE)
Longer(q, s, n) == q.bytes \o SubSeq(s, 1, n)

LEMMA SockToMemKeeps ==
  ASSUME NEW r \in Requests, NEW q, Settled(r, q), NEW s, NEW n, ToCome(r, q, s, n),
         q.state \in Receiving
  PROVE  /\ Settled(r, Took(q, s, n)) /\ Took(q, s, n).state = q.state
         /\ Took(q, s, n).bytes = Longer(q, s, n)
<1> DEFINE x == Took(q, s, n)
           u == SubSeq(s, 1, n)
           v == SubSeq(s, n + 1, Len(s))
           b == q.bytes \o u
           w == IF Len(u) = ReadBufferSize THEN "RECEIVING" ELSE "RECEIVE_DONE"
<1>1. /\ Holding(r, q) /\ Steady(r, q) /\ q \in HttpRequests
      /\ Begun(r, q, FALSE) /\ HeaderSaid(r, q) /\ BodyFound(r, q) /\ FlawSeen(r, q, FALSE)
  BY ParsedIs DEF Settled
<1>2. /\ q \in HttpRequests /\ q.read \in Int /\ Len(q.bytes) \in Nat /\ q.chunkSize \in Int
      /\ q.bytes \in Seq(STRING)
      /\ q \in Storages => q.read \in Nat /\ q.read =< Len(q.bytes)
  BY <1>1, Fields, FieldTypes
<1>0. s \in Seq(STRING) /\ q.bytes \o s = r.bytes /\ n \in 1..Len(s)
  BY DEF ToCome
<1>3. u \in Seq(STRING) /\ v \in Seq(STRING) /\ b \o v = q.bytes \o s
  BY <1>0, <1>2, SplitInput
<1>4. x = [q EXCEPT !.bytes = b, !.storage = w]
  BY DEF SockToMem, Took
<1>5. w \in {"RECEIVING", "RECEIVE_DONE"}
  OBVIOUS
<1> HIDE DEF u, v, w, x
<1>6. /\ b \in Seq(STRING) /\ Len(b) = Len(q.bytes) + Len(u) /\ Len(u) \in Nat
      /\ \A i \in 1..Len(q.bytes) : b[i] = q.bytes[i]
  BY <1>2, <1>3, Extended
<1>7. Len(b) =< Len(r.bytes) /\ \A i \in 1..Len(b) : b[i] = r.bytes[i]
  <2> HIDE DEF b
  <2>1. /\ Len(b \o v) = Len(b) + Len(v) /\ Len(v) \in Nat /\ Len(b) \in Nat
        /\ \A i \in 1..Len(b) : (b \o v)[i] = b[i]
    BY <1>3, <1>6, Extended
  <2>2. b \o v = r.bytes
    BY <1>0, <1>3
  <2> QED
    BY <2>1, <2>2
<1> HIDE DEF b
<1>8. x \in HttpRequests
  BY <1>2, <1>4, <1>5, <1>6 DEF HttpRequests
<1>9. /\ x.state = q.state /\ x.bytes = b /\ x.read = q.read /\ x.headerSize = q.headerSize
      /\ x.chunkSize = q.chunkSize /\ x.chunked = q.chunked /\ x.length = q.length
      /\ x.method = q.method /\ x.bodyFirst = q.bodyFirst /\ x.uploaded = q.uploaded
  BY <1>2, <1>4 DEF HttpRequests
<1>10. /\ Len(q.bytes) =< Len(x.bytes) /\ Len(x.bytes) \in Nat
       /\ q \in Storages => x.read \in 0..Len(x.bytes)
  BY <1>2, <1>6, <1>9
<1>11. Holding(r, x) /\ Steady(r, x)
  <2>1. Holding(r, x)
    BY <1>7, <1>8, <1>9 DEF Holding
  <2>2. CountsChunks(x) <=> CountsChunks(q)
    BY <1>9 DEF CountsChunks
  <2>3. q \in Storages => x \in Storages
    BY <1>8, <1>10 DEF Storages
  <2> QED
    BY <1>1, <1>9, <2>1, <2>2, <2>3 DEF Steady
<1>12. Begun(r, x, FALSE)
  <2>1. AtWork(x, FALSE) <=> AtWork(q, FALSE)
    BY <1>9 DEF AtWork
  <2>2. ASSUME q.bodyFirst =< Len(q.bytes) PROVE x.bodyFirst =< Len(x.bytes)
    <3>1. q.bodyFirst \in Nat /\ Len(x.bytes) \in Nat
      BY <1>1, <1>10, Fields
    <3> QED
      BY <1>2, <1>9, <1>10, <2>2, <3>1
  <2> QED
    BY <1>1, <1>9, <2>1, <2>2 DEF Begun
<1>13. HeaderSaid(r, x)
  <2>1. InHeader(r, q) => InHeader(r, x)
    BY <1>9 DEF InHeader, Passed, Said
  <2>2. Known(r, q) => Known(r, x)
    BY <1>9 DEF Known, Said
  <2> QED
    BY <1>1, <1>9, <2>1, <2>2 DEF HeaderSaid
<1>14. BodyFound(r, x)
  <2>1. Counting(r, q) => Counting(r, x)
    BY <1>9 DEF Counting
  <2> QED
    BY <1>1, <1>9, <2>1 DEF BodyFound
<1>15. FlawSeen(r, x, FALSE)
  BY <1>1, <1>9 DEF FlawSeen
<1>16. Settled(r, x)
  BY <1>11, <1>12, <1>13, <1>14, <1>15 DEF Parsed, Settled
<1> QED
  BY <1>9, <1>16 DEF Longer, b, u, x

\* The inductive invariant.
IInv ==
  /\ sent \in Requests /\ input \in Seq(STRING) /\ p.bytes \o input = sent.bytes
  /\ Good(sent, p, file)

LEMMA ReceiveAndParseKeeps ==
  ASSUME IInv, ReceiveAndParse
  PROVE  IInv'
<1>1. /\ sent \in Requests /\ input \in Seq(STRING) /\ p.bytes \o input = sent.bytes
      /\ Parsed(sent, p, FALSE) /\ Writes(sent, p, file)
  BY DEF IInv, Good
<1>2. /\ p.state \in {"PARSING_INIT", "PARSING_HEADER", "PARSING_BODY"}
      /\ sent' = sent /\ file' = file
  BY DEF ReceiveAndParse
<1>3. PICK n \in 1..Len(input) :
        /\ p' = ParseRequest(SockToMem(p, SubSeq(input, 1, n)))
        /\ input' = SubSeq(input, n + 1, Len(input))
  BY DEF ReceiveAndParse
<1> DEFINE q == Took(p, input, n)
<1>4. Parsed(sent, q, FALSE) /\ q.state = p.state /\ q.bytes = p.bytes \o SubSeq(input, 1, n)
  <2>1. p.state \in Receiving
    BY <1>2 DEF Receiving
  <2>2. ToCome(sent, p, input, n)
    BY <1>1 DEF ToCome
  <2>3. sent \in Requests /\ Settled(sent, p)
    BY <1>1 DEF Settled
  <2>4. Settled(sent, q) /\ q.state = p.state /\ q.bytes = Longer(p, input, n)
    BY <2>1, <2>2, <2>3, SockToMemKeeps
  <2> QED
    BY <2>4 DEF Longer, Settled
<1> HIDE DEF q
<1>5. /\ Parsed(sent, p', FALSE) /\ Uploads(sent, p', << >>) /\ p'.bytes = q.bytes
  <2>1. p' = ParseRequest(q)
    BY <1>3 DEF q, Took
  <2> QED
    BY <1>1, <1>2, <1>4, <2>1, ParseRequestKeeps
<1>6. file = << >>
  BY <1>1, <1>2 DEF Writes, UploadStates
<1>7. Writes(sent, p', << >>)
  BY <1>1, NoSymbol, RequestIs DEF Writes
<1>8. p.bytes \in Seq(STRING)
  BY <1>1, ParsedIs, Fields
<1>9. input' \in Seq(STRING) /\ p'.bytes \o input' = sent.bytes
  BY <1>1, <1>3, <1>4, <1>5, <1>8, SplitInput
<1>10. Good(sent, p', << >>)
  BY <1>5, <1>7 DEF Good
<1> QED
  BY <1>1, <1>2, <1>6, <1>9, <1>10 DEF IInv

LEMMA UploadKeeps ==
  ASSUME IInv, Upload
  PROVE  IInv'
<1>1. /\ sent \in Requests /\ input \in Seq(STRING) /\ p.bytes \o input = sent.bytes
      /\ Good(sent, p, file)
  BY DEF IInv
<1>2. sent' = sent /\ input' = input
      /\ p.state \in {"UPLOADING_CHUNK_INIT", "UPLOADING_READ_LINE", "UPLOADING_INIT"}
  BY DEF Upload
<1> DEFINE q == IF p.state = "UPLOADING_INIT" THEN p ELSE NextChunk(p)
<1>3. Good(sent, q, file) /\ q.bytes = p.bytes
  <2>1. CASE p.state = "UPLOADING_INIT"
    BY <1>1, <2>1
  <2>2. CASE p.state # "UPLOADING_INIT"
    <3>1. q = NextChunk(p)
      BY <2>2
    <3>2. p \in Storages
      BY <1>1, <1>2, ParsedInMemory DEF Good
    <3> HIDE DEF q
    <3> QED
      BY <1>1, <1>2, <2>2, <3>1, <3>2, NextChunkKeeps, NextChunkIs DEF SameRequest
  <2> QED
    BY <2>1, <2>2
<1>4. \/ p' = q /\ file' = file
      \/ /\ q.state = "UPLOADING_INIT"
         /\ \E n \in 0..Goal(q) : p' = Moved(q, n) /\ file' = file \o SubSeq(Remains(q), 1, n)
  BY DEF Upload
<1> HIDE DEF q
<1>5. Good(sent, p', file') /\ p'.bytes = p.bytes
  <2>1. CASE p' = q /\ file' = file
    BY <1>3, <2>1
  <2>2. CASE /\ q.state = "UPLOADING_INIT"
             /\ \E n \in 0..Goal(q) : p' = Moved(q, n) /\ file' = file \o SubSeq(Remains(q), 1, n)
    <3>1. PICK n \in 0..Goal(q) : p' = Moved(q, n) /\ file' = file \o SubSeq(Remains(q), 1, n)
      BY <2>2
    <3>2. Good(sent, p', file')
      BY <1>1, <1>3, <2>2, <3>1, MovedKeeps
    <3>3. q \in Storages /\ (0 =< q.chunkSize => q.uploaded =< q.chunkSize)
      BY <1>1, <1>3, <2>2, ParsedInMemory DEF Good, Uploads
    <3>4. SameRequest(q, p')
      BY <2>2, <3>1, <3>3, MovedIs
    <3> QED
      BY <1>3, <3>2, <3>4 DEF SameRequest
  <2> QED
    BY <1>4, <2>1, <2>2
<1> QED
  BY <1>1, <1>2, <1>5 DEF IInv

LEMMA NextRequestKeeps ==
  ASSUME IInv, NextRequest
  PROVE  IInv'
<1>1. p \in HttpRequests
  BY ParsedIs DEF IInv, Good
<1>2. PICK r \in Requests : sent' = r /\ input' = r.bytes
  BY DEF NextRequest
<1>3. /\ p' = [NewRequest EXCEPT !.storage = p.storage, !.bodyFirst = p.bodyFirst]
      /\ file' = << >>
  BY DEF NextRequest
<1>4. /\ p.storage \in {"RECEIVING", "RECEIVE_DONE"} /\ p.bodyFirst \in Nat
      /\ p' = Renewed(p.storage, p.bodyFirst)
  BY <1>1, <1>3 DEF HttpRequests, NewRequest, Renewed, Made
<1>5. /\ p' \in Storages /\ p'.state = "PARSING_INIT" /\ p'.bytes = << >>
      /\ p'.read = 0 /\ p'.headerSize = 0 /\ p'.chunkSize = -1 /\ ~p'.chunked /\ p'.length = 0
      /\ p'.uploaded = 0
  BY <1>4, RenewedIs
<1>6. Good(r, p', << >>) /\ p'.bytes \o r.bytes = r.bytes
  BY <1>5, NewIs
<1>7. r.bytes \in Seq(STRING)
  BY RequestIs
<1> QED
  BY <1>2, <1>3, <1>6, <1>7 DEF IInv

-----------------------------------------------------------------------------
(* The theorems *)

\* For every set of requests, what the request object holds, counts and has
\* written is at each point what its bytes say, and nothing the client sent is lost.
THEOREM Invariant == Spec => []IInv
<1>1. Init => IInv
  <2>1. SUFFICES ASSUME Init PROVE IInv
    OBVIOUS
  <2>2. sent \in Requests /\ input = sent.bytes /\ p = NewRequest /\ file = << >>
    BY <2>1 DEF Init
  <2>3. p = Renewed("RECEIVING", 0)
    BY <2>2 DEF NewRequest, Renewed, Made
  <2>4. /\ p \in Storages /\ p.state = "PARSING_INIT" /\ p.bytes = << >>
        /\ p.read = 0 /\ p.headerSize = 0 /\ p.chunkSize = -1 /\ ~p.chunked /\ p.length = 0
        /\ p.uploaded = 0
    BY <2>3, RenewedIs
  <2>5. Good(sent, p, << >>) /\ p.bytes \o sent.bytes = sent.bytes
    BY <2>2, <2>4, NewIs
  <2>6. sent.bytes \in Seq(STRING)
    BY <2>2, RequestIs
  <2> QED
    BY <2>2, <2>5, <2>6 DEF IInv
<1>2. IInv /\ [Next]_vars => IInv'
  <2>1. SUFFICES ASSUME IInv, [Next]_vars PROVE IInv'
    OBVIOUS
  <2>2. CASE ReceiveAndParse
    BY <2>1, <2>2, ReceiveAndParseKeeps
  <2>3. CASE Upload
    BY <2>1, <2>3, UploadKeeps
  <2>4. CASE NextRequest
    BY <2>1, <2>4, NextRequestKeeps
  <2>5. CASE UNCHANGED vars
    BY <2>1, <2>5 DEF vars, IInv
  <2> QED
    BY <2>1, <2>2, <2>3, <2>4, <2>5 DEF Next
<1> QED
  BY <1>1, <1>2, PTL DEF Spec

\* The variables have their types, and what Storage holds and what is still to come are
\* the request.  The reading position is within what Storage holds, but for the loop over
\* the chunks of a request that has a size which is negative or too large.
THEOREM Typed == Spec => [](TypeOK /\ ReadInMemory)
<1>1. IInv => TypeOK /\ ReadInMemory
  <2>1. SUFFICES ASSUME IInv PROVE TypeOK /\ ReadInMemory
    OBVIOUS
  <2>2. p \in HttpRequests /\ file \in Seq(STRING) /\ Steady(sent, p)
    BY <2>1, ParsedIs DEF IInv, Good, Writes
  <2>3. ReadInMemory
    BY <2>2 DEF Steady, ReadInMemory, Harmless, Storages
  <2> QED
    BY <2>1, <2>2, <2>3 DEF IInv, TypeOK
<1> QED
  BY <1>1, Invariant, PTL

\* parseRequest returns: its loops have an end on whatever has been received, but for the
\* loop over the chunks of a request that has a size which is negative or too large.
THEOREM LoopsEnd == Spec => []ParsingReturns
<1>1. IInv => ParsingReturns
  <2>1. SUFFICES ASSUME IInv PROVE ParsingReturns
    OBVIOUS
  <2>2. Steady(sent, p)
    BY <2>1, ParsedIs DEF IInv, Good
  <2> QED
    BY <2>2 DEF Steady, ParsingReturns, Harmless
<1> QED
  BY <1>1, Invariant, PTL

\* The file of a well-formed request only ever holds the beginning of its payload,
\* and all of it when the upload is done: however recv splits the bytes, however
\* little memToFile writes, and for every size of the buffer.
THEOREM Exact == Spec => []UploadExact
<1>1. IInv => UploadExact
  <2>1. SUFFICES ASSUME IInv, WellFormed(sent)
                 PROVE  IsPrefix(file, sent.payload) /\ (p.state = "UPLOADING_DONE" => file = sent.payload)
    BY DEF UploadExact
  <2> DEFINE r == sent
             w == sent.payload
  <2>2. /\ r \in Requests /\ Parsed(r, p, FALSE) /\ Uploads(r, p, file) /\ Writes(r, p, file)
        /\ p \in HttpRequests
    BY <2>1, ParsedIs DEF IInv, Good
  <2>3. /\ file \in Seq(STRING) /\ w \in Seq(STRING) /\ Len(file) \in Nat /\ Len(w) \in Nat
        /\ Len(file) =< Len(w) /\ \A i \in 1..Len(file) : file[i] = w[i]
    BY <2>1, <2>2, RequestIs, LenProperties DEF Writes
  <2> HIDE DEF w
  <2>4. IsPrefix(file, w)
    <3> DEFINE n == Len(file)
               a == SubSeq(file, 1, n)
               b == SubSeq(w, 1, n)
    <3>1. 1 \in Nat \ {0} /\ 1 =< n + 1 /\ n \in Nat /\ n =< Len(file) /\ n =< Len(w)
      BY <2>3
    <3>2. /\ a \in Seq(STRING) /\ Len(a) = n - 1 + 1
          /\ \A i \in 1..(n - 1 + 1) : a[i] = file[1 + i - 1]
      BY <2>3, <3>1, Part
    <3>3. /\ b \in Seq(STRING) /\ Len(b) = n - 1 + 1
          /\ \A i \in 1..(n - 1 + 1) : b[i] = w[1 + i - 1]
      BY <2>3, <3>1, Part
    <3>4. ASSUME NEW i \in 1..n PROVE file[i] = w[i]
      BY <2>3
    <3> HIDE DEF a, b, n
    <3>5. ASSUME NEW i \in 1..(n - 1 + 1) PROVE a[i] = b[i]
      <4>1. i \in 1..n /\ 1 + i - 1 = i
        BY <3>1
      <4> QED
        BY <3>2, <3>3, <3>4, <4>1
    <3>6. a = b
      BY <3>2, <3>3, <3>5, SeqEqual
    <3> QED
      BY <2>3, <3>6 DEF IsPrefix, a, b, n
  <2>5. ASSUME p.state = "UPLOADING_DONE" PROVE file = w
    <3>1. p.state \in UploadStates
      BY <2>5 DEF UploadStates
    <3>2. Len(file) = Len(w)
      <4>1. CASE WithLength(r)
        <5>1. /\ p.chunkSize = p.length /\ Len(file) = p.uploaded /\ p.uploaded = p.length
          BY <2>2, <2>5, <3>1, <4>1 DEF Uploads, Copying
        <5>2. /\ GoodHeader(r) /\ Len(r.bytes) = HeaderEnd(r) + SaysLength(r, r.lines)
              /\ w = SubSeq(r.bytes, HeaderEnd(r) + 1, Len(r.bytes))
          BY <2>2, <4>1, LengthIs DEF w
        <5>3. p.length = SaysLength(r, r.lines)
          BY <2>2, <2>5, <5>2, ParsedIs DEF HeaderSaid, Known, Said
        <5> DEFINE a == HeaderEnd(r)
                   n == Len(r.bytes)
                   z == p.length
        <5>4. a \in Nat /\ n \in Nat /\ z \in Nat /\ r.bytes \in Seq(STRING) /\ n = a + z
          <6>1. p.uploaded \in Nat
            BY <2>2, Fields
          <6> QED
            BY <2>2, <5>1, <5>2, <5>3, <6>1, GoodHeaderEnd, RequestIs
        <5>5. n =< Len(r.bytes) /\ w = SubSeq(r.bytes, a + 1, n)
          BY <5>2, <5>4
        <5> HIDE DEF a, n, z
        <5>6. a + 1 \in Nat \ {0} /\ a + 1 =< n + 1
          BY <5>4
        <5>7. Len(w) = n - (a + 1) + 1
          BY <5>4, <5>5, <5>6, Part
        <5>8. Len(w) = z
          BY <5>4, <5>7
        <5> QED
          BY <5>1, <5>8 DEF z
      <4>2. CASE WithChunks(r)
        <5>1. Len(file) = Offset(r, Len(r.starts))
          BY <2>2, <2>5, <3>1, <4>2 DEF Uploads, Chunking
        <5> QED
          BY <2>2, <4>2, <5>1, ByChunksIs DEF w
      <4> QED
        BY <2>1, <4>1, <4>2 DEF WithLength, WithChunks
    <3> QED
      BY <2>3, <3>2, SeqEqual
  <2> QED
    BY <2>4, <2>5 DEF w
<1> QED
  BY <1>1, Invariant, PTL

\* A request whose request line, header field or chunk size is flawed is never
\* uploaded to its end, wherever in it the flaw is.
THEOREM NeverDone == Spec => []MalformedNeverDone
<1>1. IInv => MalformedNeverDone
  <2>1. SUFFICES ASSUME IInv, Malformed(sent), p.state = "UPLOADING_DONE" PROVE FALSE
    BY DEF MalformedNeverDone
  <2> DEFINE r == sent
  <2>2. r \in Requests /\ Parsed(r, p, FALSE) /\ Uploads(r, p, file)
    BY <2>1 DEF IInv, Good
  <2>3. ~BadStart(r) /\ ~BadField(r)
    BY <2>1, <2>2, ParsedIs DEF FlawSeen
  <2>4. PICK e \in 1..Len(r.bytes) : FlawedSize(r, e)
    BY <2>1, <2>3 DEF Malformed, BadStart, BadField
  <2>5. BadSize(r) /\ p.state \in UploadStates
    BY <2>1, <2>4 DEF BadSize, UploadStates
  <2>6. ByChunks(r)
    BY <2>1, <2>2, <2>5 DEF Uploads, Chunking
  <2>7. SizeLine(r, Len(r.starts))
    BY <2>6 DEF ByChunks
  <2> QED
    BY <2>4, <2>7 DEF FlawedSize, SizeLine, IsLine
<1> QED
  BY <1>1, Invariant, PTL

\* No well-formed request is taken for a malformed one, and once its header is
\* parsed its method, length and coding are those it says, however it was split.
THEOREM Independent == Spec => []SplitIndependent
<1>1. IInv => SplitIndependent
  <2>1. SUFFICES ASSUME IInv, WellFormed(sent)
                 PROVE  /\ p.state # "PARSING_BAD_REQUEST" /\ p.state # "PARSING_FOR_EVER"
                        /\ p.state \notin {"PARSING_INIT", "PARSING_HEADER"} =>
                             /\ p.method = Symbol(sent, 1) /\ p.length = SaysLength(sent, sent.lines)
                             /\ p.chunked <=> SaysChunked(sent, sent.lines)
    BY DEF SplitIndependent
  <2>2. sent \in Requests /\ HeaderSaid(sent, p) /\ BodyFound(sent, p) /\ Steady(sent, p)
    BY <2>1, ParsedIs DEF IInv, Good
  <2>3. GoodHeader(sent)
    BY <2>1 DEF WellFormed
  <2>4. p.state \notin {"PARSING_INIT", "PARSING_HEADER"} => Known(sent, p)
    BY <2>2, <2>3 DEF HeaderSaid
  <2> QED
    BY <2>1, <2>2, <2>4 DEF BodyFound, Known, Said, Steady, Harmless
<1> QED
  BY <1>1, Invariant, PTL
=============================================================================
