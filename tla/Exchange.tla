------------------------------- MODULE Exchange -------------------------------
(***************************************************************************)
(* What is said in an exchange: the fields of a request, as HttpRequest    *)
(* collects them; the environment that a CGI program is given; and the     *)
(* header that ResponseFactory writes from its static members, which all   *)
(* connections share.  A connection keeps its request and its CgiResponse  *)
(* objects from one exchange to the next, and resets them by hand.         *)
(***************************************************************************)
EXTENDS Naturals

CONSTANTS Conns,
          Methods,   \* those that clients ask for
          Versions, Cookies, Secrets, Types,
          Statuses,  \* those that programs give, other numbers than zero
          Allowed    \* allowed_method of the locations

ASSUME ExchangeAssumption ==
  /\ Methods \cup Allowed \subseteq {"GET", "HEAD", "POST", "PUT", "DELETE", "NOT_IMPL"}
  /\ "NOT_IMPL" \notin Allowed /\ Secrets \subseteq Nat \ {0} /\ Statuses \subseteq Nat \ {0}
  /\ "none" \notin Versions \cup Cookies \cup Types

VARIABLES
  up,         \* the process has not been ended by an exception nobody catches
  request,    \* HttpRequest of each connection
  program,    \* CgiResponse of each connection
  factory,    \* the static members of ResponseFactory
  response,   \* the header that each connection is sent
  env,        \* the environment of the program that each connection has started
  said,       \* what the client has said in this exchange
  spoken,     \* and what its program has
  before      \* the last cookies and version it has said in an earlier one
vars == <<up, request, program, factory, response, env, said, spoken, before>>

NewRequest ==
  [phase |-> "init", method |-> "NOT_IMPL", target |-> "none", version |-> "none",
   cookies |-> "none", secret |-> 0, keepAlive |-> TRUE]
NewProgram ==
  [version |-> "none", method |-> "NOT_IMPL", status |-> 404, message |-> "none",
   type |-> "none", cookies |-> "none"]
NoHeader ==
  [version |-> "none", status |-> 0, type |-> "none", location |-> "none", cookies |-> "none"]
NoEnv == [method |-> "none", version |-> "none", cookies |-> "none", secret |-> 0]
NothingSaid == [NewRequest EXCEPT !.phase = "said"]
NothingSpoken == [status |-> 0, type |-> "none", cookies |-> "none"]

Requests ==
  [phase : {"init", "header", "bad", "parsed", "program", "answered", "said"},
   method : Methods \cup {"NOT_IMPL"}, target : {"none", "file", "program", "moved"},
   version : Versions \cup {"none"}, cookies : Cookies \cup {"none"},
   secret : Secrets \cup {0}, keepAlive : BOOLEAN]
Headers ==
  [version : Versions \cup {"none"},
   status : {0, 200, 201, 301, 400, 404, 405, 409, 413, 500, 501, 505} \cup Statuses,
   type : Types \cup {"none"}, location : {"none", "moved"}, cookies : Cookies \cup {"none"}]

Programs ==
  [version : Versions \cup {"none"}, method : Methods \cup {"NOT_IMPL"},
   status : Statuses \cup {0, 404}, message : {"none", "text"},
   type : Types \cup {"none"}, cookies : Cookies \cup {"none"}]
Environments ==
  [method : Methods \cup {"none", "NOT_IMPL"}, version : Versions \cup {"none"},
   cookies : Cookies \cup {"none"}, secret : Secrets \cup {0}]
Outputs == [status : Statuses \cup {0}, type : Types \cup {"none"}, cookies : Cookies \cup {"none"}]
Earlier == [cookies : Cookies \cup {"none"}, version : Versions \cup {"none"}]

TypeOK ==
  /\ up \in BOOLEAN /\ factory \in Headers
  /\ request \in [Conns -> Requests] /\ said \in [Conns -> Requests]
  /\ program \in [Conns -> Programs] /\ env \in [Conns -> Environments]
  /\ spoken \in [Conns -> Outputs] /\ before \in [Conns -> Earlier]
  /\ response \in [Conns -> Headers]

Init ==
  /\ up = TRUE /\ factory = NoHeader
  /\ request = [c \in Conns |-> NewRequest] /\ program = [c \in Conns |-> NewProgram]
  /\ response = [c \in Conns |-> NoHeader] /\ env = [c \in Conns |-> NoEnv]
  /\ said = [c \in Conns |-> NothingSaid] /\ spoken = [c \in Conns |-> NothingSpoken]
  /\ before = [c \in Conns |-> [cookies |-> "none", version |-> "none"]]

\* The program of c was given an environment: it does not exit at once.
Started(c) == env[c].method # "none"

-----------------------------------------------------------------------------
(* The request *)

\* A field is said, and kept.
Says(c, r, s) ==
  /\ up /\ request' = [request EXCEPT ![c] = r] /\ said' = [said EXCEPT ![c] = s]
  /\ UNCHANGED <<up, program, factory, response, env, spoken, before>>

StartLine(c, m, t, v) ==
  /\ request[c].phase = "init"
  /\ Says(c, [request[c] EXCEPT !.phase = "header", !.method = m, !.target = t, !.version = v],
          [said[c] EXCEPT !.method = m, !.target = t, !.version = v])

HeaderField(c) ==
  /\ request[c].phase = "header"
  /\ \/ \E k \in Cookies :
          Says(c, [request[c] EXCEPT !.cookies = k], [said[c] EXCEPT !.cookies = k])
     \/ \E n \in Secrets :
          Says(c, [request[c] EXCEPT !.secret = n], [said[c] EXCEPT !.secret = n])
     \/ \E b \in BOOLEAN :
          Says(c, [request[c] EXCEPT !.keepAlive = b], [said[c] EXCEPT !.keepAlive = b])

\* A start line without two blanks, a line without \r, a header that is too large.
BadLine(c) ==
  /\ request[c].phase \in {"init", "header"}
  /\ Says(c, [request[c] EXCEPT !.phase = "bad"], said[c])

HeaderEnds(c) ==
  /\ request[c].phase = "header"
  /\ Says(c, [request[c] EXCEPT !.phase = "parsed"], said[c])

-----------------------------------------------------------------------------
(* The response *)

\* Mutant of Initialized: one member is forgotten.
CookiesKept(f) == [NoHeader EXCEPT !.cookies = f.cookies]

\* ResponseFactory::_initialize
Initialized(f) == NoHeader

\* _makeHeader writes what the members are by then.
Answer(c, header) ==
  /\ factory' = header /\ response' = [response EXCEPT ![c] = header]
  /\ request' = [request EXCEPT ![c].phase = "answered"]

\* errorResponse starts anew.
Error(status, version) ==
  [Initialized(factory) EXCEPT !.status = status, !.version = version]

\* The answers of the methods' functions to a request that has passed the checks.
Answers(r) ==
  LET h == [Initialized(factory) EXCEPT !.version = r.version]
      Found == {[h EXCEPT !.status = 200, !.type = t] : t \in Types}
      Plain(status) == {[h EXCEPT !.status = status]}
      Missing == {Error(404, r.version)}
  IN CASE r.method = "GET"    -> Found \cup Plain(200) \cup Missing \cup {Error(413, r.version)}
       [] r.method = "HEAD"   -> Found \cup Plain(200) \cup Missing
       [] r.method = "POST"   -> Plain(201) \cup {Error(409, r.version)}
                                 \cup {[h EXCEPT !.status = 301, !.location = "moved"]}
       [] r.method = "PUT"    -> Plain(200) \cup Plain(201) \cup {Error(409, r.version)}
       [] r.method = "DELETE" -> Plain(200) \cup Missing

\* Mutant of Refused: whatever the version is.
AnyVersion(r) ==
  {status \in {400, 501, 405} :
     \/ status = 400 /\ r.phase = "bad"
     \/ status = 501 /\ r.method = "NOT_IMPL"
     \/ status = 405 /\ r.method \notin Allowed}

\* The checks of makeResponse that a request fails.
Refused(r) ==
  {status \in {400, 505, 501, 405} :
     \/ status = 400 /\ r.phase = "bad"
     \/ status = 505 /\ r.version # "HTTP/1.1"
     \/ status = 501 /\ r.method = "NOT_IMPL"
     \/ status = 405 /\ r.method \notin Allowed}

\* The first of them, in the order of the code, is answered.
Order == <<400, 505, 501, 405>>
FirstOf(set) ==
  {Order[i] : i \in {n \in 1..4 : Order[n] \in set /\ \A m \in 1..(n - 1) : Order[m] \notin set}}

Redirected(r) == r.target = "moved"

ForProgram(r) == r.target = "program" /\ r.method \in {"GET", "POST", "PUT"}

\* makeResponse(HttpRequest&), and 413 of a POST or PUT whose body is too large.
Respond(c) ==
  LET r == request[c] IN
  /\ up /\ r.phase \in {"bad", "parsed"} /\ ~ForProgram(r)
  /\ \E h \in
       IF Refused(r) # {} THEN {Error(status, r.version) : status \in FirstOf(Refused(r))}
       ELSE (IF Redirected(r)
             THEN {[Initialized(factory) EXCEPT
                      !.version = r.version, !.status = 301, !.location = "moved"]}
             ELSE Answers(r)) \cup {Error(413, r.version)} : Answer(c, h)
  /\ UNCHANGED <<up, program, env, said, spoken, before>>

\* Uploading a malformed request for a program fails, and so may fork: for a GET the
\* error page has a type that leads to an exception which nobody catches.
ProgramError(c, status) ==
  LET r == request[c] IN
  /\ up /\ ForProgram(r) /\ r.phase \in {"bad", "parsed"} /\ (status = 400 <=> r.phase = "bad")
  /\ IF r.method = "GET"
     THEN up' = FALSE /\ UNCHANGED <<request, factory, response>>
     ELSE Answer(c, Error(status, r.version)) /\ UNCHANGED up
  /\ UNCHANGED <<program, env, said, spoken, before>>

\* _setEnv, which exits for a PUT.
Environment(r) ==
  IF r.method = "PUT" THEN NoEnv
  ELSE [method |-> r.method, version |-> r.version, cookies |-> r.cookies, secret |-> r.secret]

\* fork; the child sets up the environment, unless the method is PUT: then it exits.
CallCgi(c) ==
  LET r == request[c] IN
  /\ up /\ ForProgram(r) /\ r.phase = "parsed"
  /\ request' = [request EXCEPT ![c].phase = "program"]
  /\ program' = [program EXCEPT ![c].version = r.version, ![c].method = r.method]
  /\ env' = [env EXCEPT ![c] = Environment(r)]
  /\ UNCHANGED <<up, factory, response, said, spoken, before>>

\* CgiResponse::_parseLine on what the program writes, if it runs: a status line may be
\* without a number or a message, and a field without a value.
ProgramSays(c) ==
  /\ up /\ request[c].phase = "program" /\ Started(c)
  /\ \/ \E n \in Statuses \cup {0}, text \in {"none", "text"} :
          /\ program' = [program EXCEPT ![c].status = n,
                                        ![c].message = IF text = "none" THEN @ ELSE text]
          /\ spoken' = [spoken EXCEPT ![c].status = n]
     \/ \E t \in Types \cup {"none"} :
                         /\ program' = [program EXCEPT ![c].type = t]
                         /\ spoken' = [spoken EXCEPT ![c].type = t]
     \/ \E k \in Cookies \cup {"none"} :
                           /\ program' = [program EXCEPT ![c].cookies = k]
                           /\ spoken' = [spoken EXCEPT ![c].cookies = k]
  /\ UNCHANGED <<up, request, factory, response, env, said, before>>

\* makeResponse(CgiResponse&): the header is complete, or waitpid has failed.
CgiRespond(c) ==
  LET p == program[c] IN
  /\ up /\ request[c].phase = "program"
  /\ \/ Answer(c, Error(500, p.version))
     \/ /\ p.status # 0 /\ p.message # "none" /\ p.type # "none"
        /\ Answer(c, IF p.version # "HTTP/1.1" THEN Error(505, p.version) ELSE
             [Initialized(factory) EXCEPT !.version = p.version, !.status = p.status,
                                          !.type = p.type, !.cookies = p.cookies])
  /\ UNCHANGED <<up, program, env, said, spoken, before>>

-----------------------------------------------------------------------------
\* Mutant of Reset: the secret stays.
SecretKept(r) ==
  [NewRequest EXCEPT !.cookies = r.cookies, !.version = r.version, !.secret = r.secret]

\* HttpRequest::initialize leaves _cookies and _httpVersion as they are.
Reset(r) == [NewRequest EXCEPT !.cookies = r.cookies, !.version = r.version]

\* CgiResponse::initialize
ProgramReset(p) == [NewProgram EXCEPT !.status = 0]

\* _finishResponse: the next exchange of the same connection.
KeepAlive(c) ==
  /\ up /\ request[c].phase = "answered" /\ request[c].keepAlive /\ response[c].status # 400
  /\ request' = [request EXCEPT ![c] = Reset(@)]
  /\ program' = [program EXCEPT ![c] = ProgramReset(@)]
  /\ before' = [before EXCEPT
       ![c].cookies = IF said[c].cookies # "none" THEN said[c].cookies ELSE @,
       ![c].version = IF said[c].version # "none" THEN said[c].version ELSE @]
  /\ response' = [response EXCEPT ![c] = NoHeader] /\ env' = [env EXCEPT ![c] = NoEnv]
  /\ said' = [said EXCEPT ![c] = NothingSaid] /\ spoken' = [spoken EXCEPT ![c] = NothingSpoken]
  /\ UNCHANGED <<up, factory>>

\* The connection is closed, and the next one has an Event of its own.
Close(c) ==
  /\ up /\ request[c].phase = "answered" /\ (~request[c].keepAlive \/ response[c].status = 400)
  /\ request' = [request EXCEPT ![c] = NewRequest] /\ program' = [program EXCEPT ![c] = NewProgram]
  /\ before' = [before EXCEPT ![c] = [cookies |-> "none", version |-> "none"]]
  /\ response' = [response EXCEPT ![c] = NoHeader] /\ env' = [env EXCEPT ![c] = NoEnv]
  /\ said' = [said EXCEPT ![c] = NothingSaid] /\ spoken' = [spoken EXCEPT ![c] = NothingSpoken]
  /\ UNCHANGED <<up, factory>>

Parse(c) ==
  \/ \E m \in Methods, t \in {"file", "program", "moved"}, v \in Versions : StartLine(c, m, t, v)
  \/ HeaderField(c) \/ BadLine(c) \/ HeaderEnds(c)

Next ==
  \E c \in Conns :
    \/ Parse(c) \/ Respond(c) \/ CallCgi(c) \/ ProgramSays(c) \/ CgiRespond(c)
    \/ ProgramError(c, 400) \/ ProgramError(c, 500) \/ KeepAlive(c) \/ Close(c)

Spec == Init /\ [][Next]_vars

-----------------------------------------------------------------------------
(* Properties *)

\* A program is told what its own request said; cookies of an earlier request of the
\* same connection when this one has none (HttpRequest.cpp:14-32 keeps them), and
\* never those of another connection.
EnvIsOwn ==
  \A c \in Conns : Started(c) =>
    /\ env[c].method = said[c].method /\ env[c].version = said[c].version
    /\ env[c].secret = said[c].secret
    /\ env[c].cookies = (IF said[c].cookies # "none" THEN said[c].cookies ELSE before[c].cookies)

\* The header of a response is about this exchange, although its fields are static:
\* the version is the request's, or an earlier one's when the start line is malformed;
\* the answer of the program that this request has started has the status, type and
\* cookie that it has said last, all three of them, or is an error page; without a program
\* there is no cookie, a type is that of a file that was found, and a location comes
\* with a redirection.
ResponseIsOwn ==
  \A c \in Conns : request[c].phase = "answered" =>
    LET h == response[c] IN
    /\ h.version = (IF said[c].version # "none" THEN said[c].version ELSE before[c].version)
    /\ Started(c) =>
         /\ h.location = "none"
         /\ \/ h.type = "none" /\ h.cookies = "none" /\ h.status \in {500, 505}
            \/ h.type = spoken[c].type /\ h.cookies = spoken[c].cookies /\ h.status = spoken[c].status
    /\ ~Started(c) =>
         /\ h.cookies = "none" /\ (h.type # "none" => h.status = 200)
         /\ h.location # "none" <=> h.status = 301

\* Success needs a method that is allowed here, and a location that is not redirected,
\* unless a program answers: then neither is ever looked at (VirtualServer.cpp:255-263),
\* and the program says what is a success; HTTP/1.1 it always needs.
SuccessCauses ==
  \A c \in Conns : response[c].status \in {200, 201} =>
    /\ said[c].version = "HTTP/1.1"
    /\ ~Started(c) => said[c].method \in Allowed /\ said[c].target # "moved"
=============================================================================
