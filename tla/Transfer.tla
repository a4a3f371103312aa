------------------------------ MODULE Transfer ------------------------------
(***************************************************************************)
(* One HttpResponse from its making to its end: how many bytes it          *)
(* announces, how they get into memory (Storage) and how they get out      *)
(* again.  EventLoop says which connection does what and when; here are    *)
(* the sizes and positions it leaves out.                                  *)
(*                                                                         *)
(* A byte is abstracted to its place: 0 is a byte of the header, n > 0 the *)
(* n-th byte of the body that the client should get.                       *)
(***************************************************************************)
EXTENDS Integers, Sequences

CONSTANTS Header,     \* the length of the header that _makeHeader writes
          Buffer,     \* READ_BUFFER_SIZE
          MaxBody,    \* bound: the longest body
          CgiHeaders, \* the lengths of the headers that CGI programs write
          IntMax,     \* the largest value of an int
          SizeSpan    \* 2^(width of size_t)

ASSUME SizeAssumption ==
  /\ Header \in Nat \ {0} /\ Buffer \in Nat \ {0} /\ MaxBody \in Nat
  /\ CgiHeaders \subseteq Nat \ {0}
  /\ IntMax \in Nat /\ SizeSpan \in Nat /\ SizeSpan > 2 * (IntMax + 1)

VARIABLES
  resp,       \* what is fixed when the response is made
  state,      \* _sendingState
  waits,      \* what the Event is registered for: its file, its client, nothing
  file,       \* the file: its length, the position in it, and where the body starts
  mem,        \* the bytes of _storage, from the first one sent to _writePos
  downloaded, \* _downloadedSize
  sent,       \* _sentSize
  touched     \* another request has written to the file since
vars == <<resp, state, waits, file, mem, downloaded, sent, touched>>

\* "file" a file of GET; "page" an error page; "memory" a header alone;
\* "listing" a directory; "cgi" a program's answer; "old" 505 instead of one
Kinds == {"none", "file", "page", "memory", "listing", "cgi", "old"}

\* content is _contentLength, goal is _goalSize, carried counts the bytes of the
\* body that came with the program's header; length is that of the body.
Answer(kind, announced, content, goal, carried, length) ==
  [kind |-> kind, head |-> FALSE, announced |-> announced, content |-> content,
   goal |-> goal, carried |-> carried, length |-> length]

File(start, size) == [start |-> start, pos |-> start, size |-> size]
NoFile == File(0, 0)

Least(a, b) == IF a =< b THEN a ELSE b

\* Storage::insert: n bytes of the body from place from + 1 on.
Insert(m, from, n) ==
  [i \in 1..(Len(m) + n) |-> IF i =< Len(m) THEN m[i] ELSE from + (i - Len(m))]
HeaderBytes == [i \in 1..Header |-> 0]

\* Mutant of Stored: the storage given to the constructor comes before the header.
BodyFirst(n) == [i \in 1..(Header + n) |-> IF i =< n THEN i ELSE 0]

\* The memory of a new response: its header and the first n bytes of the body.
Stored(n) == Insert(HeaderBytes, 0, n)

\* Mutant of GoalSize: only the body is counted.
HeaderForgotten(n) == n

\* _goalSize of a response that announces n bytes.
GoalSize(n) == n + Header

TypeOK ==
  /\ resp \in [kind : Kinds, head : BOOLEAN, announced : Nat, content : Nat,
               goal : Nat, carried : Nat, length : Nat]
  /\ state \in {"HTTP_DOWNLOADING_INIT", "HTTP_SENDING_STORAGE", "HTTP_SENDING_DONE",
                "HTTP_SENDING_CONNECTION_CLOSED"}
  /\ waits \in {"request", "file", "client", "over"}
  /\ file \in [start : Nat, pos : Nat, size : Nat]
  /\ mem \in Seq(Nat)
  /\ downloaded \in Nat /\ sent \in Nat /\ touched \in BOOLEAN

Init ==
  /\ resp = Answer("none", 0, 0, 0, 0, 0)
  /\ state = "HTTP_DOWNLOADING_INIT" /\ waits = "request"
  /\ file = NoFile /\ mem = << >>
  /\ downloaded = 0 /\ sent = 0 /\ touched = FALSE

-----------------------------------------------------------------------------
(* The constructors of HttpResponse, as ResponseFactory uses them *)

Make(r, s, w, f, m) ==
  /\ waits = "request"
  /\ resp' = r /\ state' = s /\ waits' = w /\ file' = f /\ mem' = m
  /\ UNCHANGED <<downloaded, sent, touched>>

\* _getResponse: n is what lseek says; an empty file is not downloaded at all.
GetFile(n) ==
  IF n = 0
  THEN Make(Answer("file", 0, 0, GoalSize(0), 0, 0), "HTTP_SENDING_STORAGE", "client", NoFile, Stored(0))
  ELSE Make(Answer("file", n, n, GoalSize(n), 0, n), "HTTP_DOWNLOADING_INIT", "file",
            File(0, n), Stored(0))

\* errorResponse: the page is downloaded, whatever its length is.
ErrorPage(n) ==
  Make(Answer("page", n, n, GoalSize(n), 0, n), "HTTP_DOWNLOADING_INIT", "file",
       File(0, n), Stored(0))

\* A header alone: POST, PUT, DELETE, redirections, and HEAD but for directories.
HeaderOnly ==
  \E head \in BOOLEAN :
    Make([Answer("memory", 0, 0, GoalSize(0), 0, 0) EXCEPT !.head = head],
         "HTTP_SENDING_STORAGE", "client", NoFile, Stored(0))

\* _autoIndexResponse: GET or HEAD of a directory; header and listing are given
\* to the constructor as one string, with content_length 0.
Listing(n) ==
  \E head \in BOOLEAN :
    Make([Answer("listing", n, 0, GoalSize(n), 0, n) EXCEPT !.head = head],
         "HTTP_SENDING_STORAGE", "client", NoFile, Stored(n))

\* CgiResponse::parseRequest has read whole buffers until it had the header, h
\* bytes; what else they held are the first bytes of the body, b bytes in all.
Reads(h) == (h + Buffer - 1) \div Buffer
Carried(h, b) == Least(h + b, Reads(h) * Buffer) - h

\* A number in an int.
AsInt(n) == ((n + IntMax + 1) % (2 * (IntMax + 1))) - (IntMax + 1)

\* An int as a size_t.
AsSize(n) == IF n < 0 THEN n + SizeSpan ELSE n

\* The length of the body is computed in ints, which wrap around: what
\* lseek(SEEK_END) returns, less the position, back at the start of the body.
BodySize(h, b) == AsSize(AsInt(AsInt(h + b) - h))

\* Mutant of Output: the position stays behind what has been read.
NotBack(h, b) == [start |-> h, pos |-> h + Carried(h, b), size |-> h + b]

\* The program's output, the position being back at the start of the body.
Output(h, b) == File(h, h + b)

\* makeResponse(CgiResponse&) puts the carried bytes into the response, behind
\* its header, although the position is back and they are downloaded again.
CgiAnswer(h, b) ==
  LET n == BodySize(h, b)
      r == Answer("cgi", n, n, GoalSize(n), Carried(h, b), b)
      m == Stored(Carried(h, b))
  IN IF n = 0 THEN Make(r, "HTTP_SENDING_STORAGE", "client", NoFile, m)
     ELSE Make(r, "HTTP_DOWNLOADING_INIT", "file", Output(h, b), m)

\* errorResponse(505) for a program that was asked in another HTTP version: p is
\* the length of the page, but the bytes come from the program's file, if it
\* has a body; if not, the response waits for its client in HTTP_DOWNLOADING_INIT.
OldCgi(h, b, p) ==
  Make(Answer("old", p, p, GoalSize(p), 0, p), "HTTP_DOWNLOADING_INIT",
       IF BodySize(h, b) = 0 THEN "client" ELSE "file", Output(h, b), Stored(0))

-----------------------------------------------------------------------------
(* downloadResponse and sendResponse *)

\* kqueue reports a regular file as readable when the position is not at its end.
Readable == waits = "file" /\ file.pos < file.size

\* Mutant of Downloaded: the response is sent as soon as there is something to send.
Streamed(n) == TRUE

\* The file has given all that was announced.
Downloaded(n) == n = resp.content

Download ==
  /\ Readable /\ state = "HTTP_DOWNLOADING_INIT"
  /\ LET n == Least(Buffer, file.size - file.pos) IN
     /\ file' = [file EXCEPT !.pos = @ + n]
     /\ mem' = Insert(mem, file.pos - file.start, n)
     /\ downloaded' = downloaded + n
     /\ IF Downloaded(downloaded + n)
        THEN state' = "HTTP_SENDING_STORAGE" /\ waits' = "client"
        ELSE UNCHANGED <<state, waits>>
  /\ UNCHANGED <<resp, sent, touched>>

\* memToSock sends no more than is left of _goalSize and of the memory.
Remaining == Least(resp.goal - sent, Len(mem) - sent)

Send ==
  /\ waits = "client" /\ state = "HTTP_SENDING_STORAGE"
  /\ \E n \in 1..Remaining :
       /\ sent' = sent + n
       /\ IF sent + n = resp.goal
          THEN state' = "HTTP_SENDING_DONE" /\ waits' = "over"
          ELSE UNCHANGED <<state, waits>>
  /\ UNCHANGED <<resp, file, mem, downloaded, touched>>

\* read or send returns -1
Fail ==
  /\ \/ Readable /\ state = "HTTP_DOWNLOADING_INIT"
     \/ waits = "client" /\ state = "HTTP_SENDING_STORAGE"
  /\ state' = "HTTP_SENDING_CONNECTION_CLOSED" /\ waits' = "over"
  /\ UNCHANGED <<resp, file, mem, downloaded, sent, touched>>

\* Another request uploads to the file (O_TRUNC, then more and more bytes).
Touch ==
  /\ waits = "file" /\ resp.kind \in {"file", "page"}
  /\ \E n \in 0..MaxBody : file' = [file EXCEPT !.size = n]
  /\ touched' = TRUE
  /\ UNCHANGED <<resp, state, waits, mem, downloaded, sent>>

MakeResponse ==
  \/ HeaderOnly
  \/ \E n \in 0..MaxBody : GetFile(n) \/ ErrorPage(n)
  \/ \E n \in 1..MaxBody : Listing(n)
  \/ \E h \in CgiHeaders, b \in 0..MaxBody : CgiAnswer(h, b)
  \/ \E h \in CgiHeaders, b \in 0..MaxBody, p \in 1..MaxBody : OldCgi(h, b, p)

Next == MakeResponse \/ Download \/ Send \/ Fail \/ Touch

Spec == Init /\ [][Next]_vars
\* What is ready is reported by kevent and served.
FairSpec == Spec /\ WF_vars(Download) /\ WF_vars(Send)

-----------------------------------------------------------------------------
(* Properties *)

\* The length of the program's body does not fit an int.
TooLong == resp.kind = "cgi" /\ resp.announced # resp.length

\* Not one byte is sent before all that will be sent is in memory: a file that
\* cannot be read to its end is never answered with a part of it.
NothingPartial == sent > 0 => resp.goal =< Len(mem) /\ sent =< resp.goal

\* What a finished response sent behind its header is what it announced; only
\* HEAD of a directory sends the listing that it should only announce.
FramingAgrees ==
  state = "HTTP_SENDING_DONE" =>
    /\ sent = Header + resp.announced
    /\ resp.head => resp.announced = 0 \/ resp.kind = "listing"

\* The client gets the bytes of the body, each in its place, unless the file was
\* written to or the 505 is made of a program's output.  But if more of a program's
\* body follows than came with its header, the first bytes come twice and as many
\* of the last are missing: nothing but a body of a few buffers shows it.
Exact == \A i \in 1..sent : mem[i] = IF i =< Header THEN 0 ELSE i - Header
Repeated == resp.kind = "cgi" /\ resp.carried \notin {0, resp.length}
BodyExact ==
  ~touched /\ resp.kind # "old" /\ ~TooLong =>
    /\ ~Repeated => Exact
    /\ Repeated /\ state = "HTTP_SENDING_DONE" => ~Exact

\* A response waits for a file that never becomes readable, or for its client
\* without sending, for these reasons only; nothing ever ends such a wait.
Stuck ==
  \/ waits = "file" /\ file.pos >= file.size
  \/ waits = "client" /\ state = "HTTP_DOWNLOADING_INIT"
StuckCauses ==
  Stuck => \/ touched
           \/ resp.kind = "old"
           \/ resp.kind = "page" /\ resp.content = 0
           \/ TooLong

\* Every other response ends.
Delivered == resp.kind # "none" ~> (waits = "over" \/ Stuck)
=============================================================================
