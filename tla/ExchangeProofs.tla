--------------------------- MODULE ExchangeProofs ---------------------------
(***************************************************************************)
(* What Exchange promises, for every set of connections and of values.     *)
(* The invariant speaks of one connection at a time, and of its records    *)
(* only: a step replaces the records of one connection.                    *)
(***************************************************************************)
EXTENDS Exchange, TLAPS

\* What the client has said, or has said last.
Last(now, earlier) == IF now # "none" THEN now ELSE earlier

\* The request r holds what the client has said, s, or has said last, b.
Told(r, s, b) ==
  /\ r.version = Last(s.version, b.version) /\ r.cookies = Last(s.cookies, b.cookies)
  /\ r.secret = s.secret /\ r.method = s.method /\ r.target = s.target
  /\ r.phase \in {"header", "parsed", "program"} => s.version # "none"

\* The environment e, if there is one, was given by this request, and the program p
\* holds the output o.
Programmed(r, s, b, p, o, e) ==
  /\ e.method # "none" =>
       /\ r.phase \in {"program", "answered"}
       /\ e.method = s.method /\ e.version = s.version /\ e.secret = s.secret
       /\ e.cookies = Last(s.cookies, b.cookies)
  /\ e.method = "none" => p.message = "none"
  /\ p.message # "none" => p.status = o.status
  /\ r.phase = "program" => p.version = s.version /\ s.version # "none"
  /\ p.type = o.type /\ p.cookies = o.cookies

\* The header h is that of an error page which a program's request gets, or says what
\* the program has, o.
Page(h) == h.type = "none" /\ h.cookies = "none" /\ h.status \in {500, 505}
OfProgram(h, o) == h.type = o.type /\ h.cookies = o.cookies /\ h.status = o.status

\* The header h is about them.
About(h, s, b, o, e) ==
  /\ h.version = Last(s.version, b.version)
  /\ e.method # "none" => h.location = "none" /\ (Page(h) \/ OfProgram(h, o))
  /\ e.method = "none" =>
       /\ h.cookies = "none" /\ (h.type # "none" => h.status = 200)
       /\ h.status = 301 => h.location # "none"
       /\ h.status # 301 => h.location = "none"
  /\ h.status \in {200, 201} =>
       /\ s.version = "HTTP/1.1"
       /\ e.method = "none" => s.method \in Allowed /\ s.target # "moved"

\* There is one when the request is answered.
Answered(r, h, s, b, o, e) ==
  /\ r.phase # "answered" => h.status = 0
  /\ r.phase = "answered" => About(h, s, b, o, e)

Fits(r, s, b, p, o, e, h) ==
  Told(r, s, b) /\ Programmed(r, s, b, p, o, e) /\ Answered(r, h, s, b, o, e)

Good(c) ==
  Fits(request[c], said[c], before[c], program[c], spoken[c], env[c], response[c])

XInv == TypeOK /\ \A c \in Conns : Good(c)

LEMMA NewTyped ==
  /\ NewRequest \in Requests /\ NothingSaid \in Requests /\ NoHeader \in Headers
  /\ NewProgram \in Programs /\ ProgramReset(NewProgram) \in Programs
  /\ NoEnv \in Environments /\ NothingSpoken \in Outputs
  /\ [cookies |-> "none", version |-> "none"] \in Earlier
<1>1. NewRequest \in Requests /\ NothingSaid \in Requests
  BY DEF NewRequest, NothingSaid, Requests
<1>2. NoHeader \in Headers
  BY DEF NoHeader, Headers
<1>3. NewProgram \in Programs
  BY DEF NewProgram, Programs
<1>4. ProgramReset(NewProgram) \in Programs
  BY <1>3 DEF ProgramReset, Programs
<1>5. NoEnv \in Environments /\ NothingSpoken \in Outputs
  BY DEF NoEnv, NothingSpoken, Environments, Outputs
<1>6. [cookies |-> "none", version |-> "none"] \in Earlier
  BY DEF Earlier
<1> QED
  BY <1>1, <1>2, <1>3, <1>4, <1>5, <1>6

LEMMA NewFits ==
  Fits(NewRequest, NothingSaid, [cookies |-> "none", version |-> "none"], NewProgram, NothingSpoken,
       NoEnv, NoHeader)
BY DEF Fits, Told, Programmed, Answered, Last, NewRequest, NothingSaid, NewProgram,
       NothingSpoken, NoEnv, NoHeader

LEMMA InitGood == Init => XInv
<1> SUFFICES ASSUME Init PROVE XInv
  OBVIOUS
<1>1. TypeOK
  BY NewTyped DEF Init, TypeOK
<1>2. ASSUME NEW c \in Conns PROVE Good(c)
  <2>1. /\ request[c] = NewRequest /\ said[c] = NothingSaid /\ program[c] = NewProgram
        /\ spoken[c] = NothingSpoken /\ env[c] = NoEnv /\ response[c] = NoHeader
        /\ before[c] = [cookies |-> "none", version |-> "none"]
    BY DEF Init
  <2> QED
    BY <2>1, NewFits DEF Good
<1> QED
  BY <1>1, <1>2 DEF XInv

\* A step replaces the records of one connection, c.
Replaces(c, r, s, b, p, o, e, h) ==
  /\ r \in Requests /\ s \in Requests /\ b \in Earlier /\ p \in Programs
  /\ o \in Outputs /\ e \in Environments /\ h \in Headers
  /\ request' = [request EXCEPT ![c] = r] /\ said' = [said EXCEPT ![c] = s]
  /\ before' = [before EXCEPT ![c] = b] /\ program' = [program EXCEPT ![c] = p]
  /\ spoken' = [spoken EXCEPT ![c] = o] /\ env' = [env EXCEPT ![c] = e]
  /\ response' = [response EXCEPT ![c] = h]
  /\ up' \in BOOLEAN /\ factory' \in Headers

LEMMA Replaced ==
  ASSUME XInv, NEW c \in Conns, NEW r, NEW s, NEW b, NEW p, NEW o, NEW e, NEW h,
         Replaces(c, r, s, b, p, o, e, h), Fits(r, s, b, p, o, e, h)
  PROVE  XInv'
<1>1. TypeOK'
  BY DEF XInv, TypeOK, Replaces
<1>2. ASSUME NEW d \in Conns PROVE Good(d)'
  <2>1. CASE d = c
    <3>1. /\ request'[c] = r /\ said'[c] = s /\ before'[c] = b /\ program'[c] = p
          /\ spoken'[c] = o /\ env'[c] = e /\ response'[c] = h
      BY DEF XInv, TypeOK, Replaces
    <3> QED
      BY <2>1, <3>1 DEF Good
  <2>2. CASE d # c
    <3>1. /\ request'[d] = request[d] /\ said'[d] = said[d] /\ before'[d] = before[d]
          /\ program'[d] = program[d] /\ spoken'[d] = spoken[d] /\ env'[d] = env[d]
          /\ response'[d] = response[d]
      BY <2>2 DEF XInv, TypeOK, Replaces
    <3>2. Good(d)
      BY DEF XInv
    <3> QED
      BY <3>1, <3>2 DEF Good
  <2> QED
    BY <2>1, <2>2
<1> QED
  BY <1>1, <1>2 DEF XInv

LEMMA Kept ==
  ASSUME XInv, NEW c \in Conns
  PROVE  /\ request[c] \in Requests /\ said[c] \in Requests /\ before[c] \in Earlier
         /\ program[c] \in Programs /\ spoken[c] \in Outputs /\ env[c] \in Environments
         /\ response[c] \in Headers /\ Good(c) /\ up \in BOOLEAN /\ factory \in Headers
         /\ request = [request EXCEPT ![c] = request[c]] /\ said = [said EXCEPT ![c] = said[c]]
         /\ before = [before EXCEPT ![c] = before[c]]
         /\ program = [program EXCEPT ![c] = program[c]]
         /\ spoken = [spoken EXCEPT ![c] = spoken[c]] /\ env = [env EXCEPT ![c] = env[c]]
         /\ response = [response EXCEPT ![c] = response[c]]
BY DEF XInv, TypeOK

\* Reading a request: what is said is kept.
LEMMA SaysGood ==
  ASSUME XInv, NEW c \in Conns, NEW r \in Requests, NEW s \in Requests, Says(c, r, s),
         request[c].phase \in {"init", "header"}, Told(r, s, before[c]),
         r.phase \in {"header", "bad", "parsed"}
  PROVE  XInv'
<1>1. Fits(r, s, before[c], program[c], spoken[c], env[c], response[c])
  BY Kept DEF Good, Fits, Programmed, Answered
<1>2. Replaces(c, r, s, before[c], program[c], spoken[c], env[c], response[c])
  BY Kept DEF Says, Replaces
<1> QED
  BY <1>1, <1>2, Replaced

LEMMA ParseGood ==
  ASSUME XInv, NEW c \in Conns, Parse(c)
  PROVE  XInv'
<1> DEFINE q == request[c]
           a == said[c]
<1>1. q \in Requests /\ a \in Requests /\ before[c] \in Earlier /\ Told(q, a, before[c])
  BY Kept DEF Good, Fits
<1>2. ASSUME NEW m \in Methods, NEW t \in {"file", "program", "moved"}, NEW v \in Versions,
             StartLine(c, m, t, v)
      PROVE  XInv'
  <2> DEFINE r == [q EXCEPT !.phase = "header", !.method = m, !.target = t, !.version = v]
             s == [a EXCEPT !.method = m, !.target = t, !.version = v]
  <2>1. r \in Requests /\ s \in Requests
    <3> DEFINE r0 == [q EXCEPT !.phase = "header"]
               r1 == [r0 EXCEPT !.method = m]
               s1 == [a EXCEPT !.method = m]
    <3>0. r0 \in Requests
      BY <1>1 DEF Requests
    <3>1. r1 \in Requests /\ s1 \in Requests
      <4>1. s1 \in Requests
        BY <1>1 DEF Requests
      <4> HIDE DEF r0
      <4>2. r1 \in Requests
        BY <3>0 DEF Requests
      <4> QED
        BY <4>1, <4>2
    <3>2. r = [r1 EXCEPT !.target = t, !.version = v] /\ s = [s1 EXCEPT !.target = t, !.version = v]
      OBVIOUS
    <3> HIDE DEF r1, s1, r, s
    <3>3. r \in Requests
      BY <3>1, <3>2 DEF Requests
    <3>4. s \in Requests
      BY <3>1, <3>2 DEF Requests
    <3> QED
      BY <3>3, <3>4
  <2>2. Told(r, s, before[c]) /\ r.phase = "header"
    BY <1>1, ExchangeAssumption DEF Told, Last, Requests
  <2>3. Says(c, r, s) /\ q.phase = "init"
    BY <1>2 DEF StartLine
  <2> QED
    BY <2>1, <2>2, <2>3, SaysGood
<1>3. CASE HeaderField(c)
  <2>1. q.phase = "header"
    BY <1>3 DEF HeaderField
  <2>2. ASSUME NEW k \in Cookies, Says(c, [q EXCEPT !.cookies = k], [a EXCEPT !.cookies = k])
        PROVE  XInv'
    <3>1. [q EXCEPT !.cookies = k] \in Requests /\ [a EXCEPT !.cookies = k] \in Requests
      BY <1>1 DEF Requests
    <3>2. /\ Told([q EXCEPT !.cookies = k], [a EXCEPT !.cookies = k], before[c])
          /\ [q EXCEPT !.cookies = k].phase = "header"
      BY <1>1, <2>1, ExchangeAssumption DEF Told, Last, Requests
    <3> QED
      BY <2>1, <2>2, <3>1, <3>2, SaysGood
  <2>3. ASSUME NEW n \in Secrets, Says(c, [q EXCEPT !.secret = n], [a EXCEPT !.secret = n])
        PROVE  XInv'
    <3>1. [q EXCEPT !.secret = n] \in Requests /\ [a EXCEPT !.secret = n] \in Requests
      BY <1>1 DEF Requests
    <3>2. /\ Told([q EXCEPT !.secret = n], [a EXCEPT !.secret = n], before[c])
          /\ [q EXCEPT !.secret = n].phase = "header"
      BY <1>1, <2>1 DEF Told, Requests
    <3> QED
      BY <2>1, <2>3, <3>1, <3>2, SaysGood
  <2>4. ASSUME NEW b \in BOOLEAN,
               Says(c, [q EXCEPT !.keepAlive = b], [a EXCEPT !.keepAlive = b])
        PROVE  XInv'
    <3>1. [q EXCEPT !.keepAlive = b] \in Requests /\ [a EXCEPT !.keepAlive = b] \in Requests
      BY <1>1 DEF Requests
    <3>2. /\ Told([q EXCEPT !.keepAlive = b], [a EXCEPT !.keepAlive = b], before[c])
          /\ [q EXCEPT !.keepAlive = b].phase = "header"
      BY <1>1, <2>1 DEF Told, Requests
    <3> QED
      BY <2>1, <2>4, <3>1, <3>2, SaysGood
  <2> QED
    BY <1>3, <2>2, <2>3, <2>4 DEF HeaderField
<1>4. ASSUME NEW ph \in {"bad", "parsed"}, Says(c, [q EXCEPT !.phase = ph], a),
             q.phase \in {"init", "header"}, ph = "parsed" => q.phase = "header"
      PROVE  XInv'
  <2>1. [q EXCEPT !.phase = ph] \in Requests
    BY <1>1 DEF Requests
  <2>2. Told([q EXCEPT !.phase = ph], a, before[c]) /\ [q EXCEPT !.phase = ph].phase = ph
    BY <1>1, <1>4 DEF Told, Requests
  <2> QED
    BY <1>1, <1>4, <2>1, <2>2, SaysGood
<1> QED
  BY <1>2, <1>3, <1>4 DEF Parse, BadLine, HeaderEnds

\* An answer about the records of its connection.
LEMMA AnswerGood ==
  ASSUME XInv, NEW c \in Conns, NEW h \in Headers, Answer(c, h),
         UNCHANGED <<up, program, env, said, spoken, before>>,
         About(h, said[c], before[c], spoken[c], env[c])
  PROVE  XInv'
<1> DEFINE r == [request[c] EXCEPT !.phase = "answered"]
<1>1. /\ r \in Requests /\ r.phase = "answered" /\ r.version = request[c].version
      /\ r.cookies = request[c].cookies /\ r.secret = request[c].secret
      /\ r.method = request[c].method /\ r.target = request[c].target
  BY Kept DEF Requests
<1>2. Fits(r, said[c], before[c], program[c], spoken[c], env[c], h)
  <2> HIDE DEF r
  <2> QED
    BY <1>1, Kept DEF Good, Fits, Told, Programmed, Answered
<1>3. /\ request' = [request EXCEPT ![c] = r] /\ response' = [response EXCEPT ![c] = h]
      /\ factory' \in Headers /\ up' \in BOOLEAN
  BY Kept DEF Answer
<1> HIDE DEF r
<1>4. Replaces(c, r, said[c], before[c], program[c], spoken[c], env[c], h)
  BY <1>1, <1>3, Kept DEF Replaces
<1> QED
  BY <1>2, <1>4, Replaced

\* The statuses that the server gives by itself.
OwnStatuses == {200, 201, 301, 400, 404, 405, 409, 413, 500, 501, 505}

LEMMA NoHeaderIs ==
  /\ NoHeader \in Headers /\ NoHeader.version = "none" /\ NoHeader.status = 0
  /\ NoHeader.type = "none" /\ NoHeader.location = "none" /\ NoHeader.cookies = "none"
BY DEF NoHeader, Headers

LEMMA HeaderUpdated ==
  ASSUME NEW n \in Headers, NEW status \in OwnStatuses
  PROVE  LET h == [n EXCEPT !.status = status] IN
         /\ h \in Headers /\ h.status = status /\ h.version = n.version /\ h.type = n.type
         /\ h.location = n.location /\ h.cookies = n.cookies
BY DEF Headers, OwnStatuses

LEMMA ErrorTyped ==
  ASSUME NEW status \in OwnStatuses, NEW v \in Versions \cup {"none"}
  PROVE  /\ Error(status, v) \in Headers /\ Error(status, v).version = v
         /\ Error(status, v).status = status /\ Error(status, v).cookies = "none"
         /\ Error(status, v).type = "none" /\ Error(status, v).location = "none"
<1>1. Error(status, v) = [NoHeader EXCEPT !.status = status, !.version = v]
  BY DEF Error, Initialized
<1> DEFINE n == [NoHeader EXCEPT !.status = status]
<1>2. /\ n \in Headers /\ n.status = status /\ n.type = "none" /\ n.location = "none"
      /\ n.cookies = "none"
  BY NoHeaderIs, HeaderUpdated
<1>3. Error(status, v) = [n EXCEPT !.version = v]
  BY <1>1
<1> HIDE DEF n
<1> QED
  BY <1>2, <1>3 DEF Headers

LEMMA ErrorIsAbout ==
  ASSUME NEW status \in OwnStatuses, status \notin {200, 201, 301}, NEW s, NEW b, NEW o, NEW e,
         e.method # "none" => status \in {500, 505},
         NEW v \in Versions \cup {"none"}, v = Last(s.version, b.version)
  PROVE  Error(status, v) \in Headers /\ About(Error(status, v), s, b, o, e)
<1> DEFINE h == Error(status, v)
<1>1. /\ h \in Headers /\ h.version = v /\ h.status = status /\ h.cookies = "none"
      /\ h.type = "none" /\ h.location = "none"
  BY ErrorTyped
<1> HIDE DEF h
<1>2. About(h, s, b, o, e)
  BY <1>1 DEF About, Page
<1> QED
  BY <1>1, <1>2 DEF h

\* What the methods' functions, or a redirection, answer.
LEMMA AnswersTyped ==
  ASSUME NEW r \in Requests, NEW h, Refused(r) = {},
         \/ Redirected(r) /\ h = [Initialized(factory) EXCEPT
                                  !.version = r.version, !.status = 301, !.location = "moved"]
         \/ ~Redirected(r) /\ h \in Answers(r)
         \/ h = Error(413, r.version)
  PROVE  /\ h \in Headers /\ h.version = r.version /\ h.cookies = "none"
         /\ h.status = 301 => h.location # "none"
         /\ h.status # 301 => h.location = "none"
         /\ h.type # "none" => h.status = 200
         /\ h.status \in {200, 201} =>
              r.version = "HTTP/1.1" /\ r.method \in Allowed /\ r.target # "moved"
<1>1. r.version = "HTTP/1.1" /\ r.method \in Allowed
  BY DEF Refused
<1>2. r.version \in Versions \cup {"none"}
  BY DEF Requests
<1> DEFINE n == [Initialized(factory) EXCEPT !.version = r.version]
<1>3. /\ n \in Headers /\ n.version = r.version /\ n.status = 0 /\ n.type = "none"
      /\ n.location = "none" /\ n.cookies = "none"
  <2>1. n = [NoHeader EXCEPT !.version = r.version]
    BY DEF Initialized
  <2> QED
    BY <1>2, <2>1, NoHeaderIs DEF Headers
<1>4. ASSUME NEW status \in OwnStatuses, h = Error(status, r.version),
             status \notin {200, 201, 301}
      PROVE  /\ h \in Headers /\ h.version = r.version /\ h.cookies = "none"
             /\ h.location = "none" /\ h.type = "none" /\ h.status \notin {200, 201, 301}
  BY <1>2, <1>4, ErrorTyped
<1>5. ASSUME h = [n EXCEPT !.status = 301, !.location = "moved"]
      PROVE  /\ h \in Headers /\ h.version = r.version /\ h.cookies = "none"
             /\ h.location = "moved" /\ h.type = "none" /\ h.status = 301
  <2> HIDE DEF n
  <2> DEFINE m == [n EXCEPT !.status = 301]
  <2>1. /\ m \in Headers /\ m.version = r.version /\ m.status = 301
        /\ m.cookies = "none" /\ m.type = "none"
    BY <1>3 DEF Headers
  <2>2. h = [m EXCEPT !.location = "moved"]
    BY <1>5
  <2> HIDE DEF m
  <2> QED
    BY <2>1, <2>2 DEF Headers
<1>6. CASE h = Error(413, r.version)
  BY <1>4, <1>6 DEF OwnStatuses
<1>7. CASE Redirected(r) /\ h # Error(413, r.version)
  <2>1. h = [n EXCEPT !.status = 301, !.location = "moved"]
    BY <1>7 DEF Initialized
  <2> QED
    BY <2>1, <1>5
<1>8. CASE ~Redirected(r) /\ h \in Answers(r)
  <2>1. r.method \in {"GET", "HEAD", "POST", "PUT", "DELETE"} /\ r.target # "moved"
    BY <1>1, <1>8, ExchangeAssumption DEF Redirected
  <2>2. \/ \E t \in Types : h = [n EXCEPT !.status = 200, !.type = t]
        \/ h = [n EXCEPT !.status = 200]
        \/ h = [n EXCEPT !.status = 201]
        \/ h = Error(404, r.version)
        \/ h = Error(409, r.version)
        \/ h = Error(413, r.version)
        \/ h = [n EXCEPT !.status = 301, !.location = "moved"]
    <3>1. CASE r.method = "GET"
      <4>1. Answers(r) = {[n EXCEPT !.status = 200, !.type = t] : t \in Types}
                           \cup {[n EXCEPT !.status = 200]}
                           \cup {Error(404, r.version)} \cup {Error(413, r.version)}
        BY <3>1 DEF Answers
      <4> HIDE DEF n
      <4> DEFINE Found == {[n EXCEPT !.status = 200, !.type = t] : t \in Types}
      <4>2. \/ h \in Found
            \/ h = [n EXCEPT !.status = 200]
            \/ h = Error(404, r.version)
            \/ h = Error(413, r.version)
        BY <1>8, <4>1
      <4>3. CASE h \in Found
        BY <4>3
      <4> HIDE DEF Found
      <4> QED
        BY <4>2, <4>3
    <3>2. CASE r.method = "HEAD"
      BY <1>8, <3>2 DEF Answers
    <3>3. CASE r.method = "POST"
      BY <1>8, <3>3 DEF Answers
    <3>4. CASE r.method = "PUT"
      BY <1>8, <3>4 DEF Answers
    <3>5. CASE r.method = "DELETE"
      BY <1>8, <3>5 DEF Answers
    <3> QED
      BY <2>1, <3>1, <3>2, <3>3, <3>4, <3>5
  <2> HIDE DEF n
  <2>3. CASE h = Error(404, r.version) \/ h = Error(409, r.version)
    BY <1>4, <2>3 DEF OwnStatuses
  <2>4. CASE h = [n EXCEPT !.status = 301, !.location = "moved"]
    BY <1>5, <2>4
  <2>5. CASE h = [n EXCEPT !.status = 200] \/ h = [n EXCEPT !.status = 201]
    BY <1>1, <1>3, <2>1, <2>5 DEF Headers
  <2>6. ASSUME NEW t \in Types, h = [n EXCEPT !.status = 200, !.type = t]
        PROVE  /\ h \in Headers /\ h.version = r.version /\ h.cookies = "none"
               /\ h.location = "none" /\ h.status = 200
    <3> DEFINE m == [n EXCEPT !.status = 200]
    <3>1. /\ m \in Headers /\ m.version = r.version /\ m.status = 200 /\ m.cookies = "none"
          /\ m.location = "none"
      BY <1>3 DEF Headers
    <3>2. h = [m EXCEPT !.type = t]
      BY <2>6
    <3> HIDE DEF m
    <3> QED
      BY <3>1, <3>2 DEF Headers
  <2>7. CASE \E t \in Types : h = [n EXCEPT !.status = 200, !.type = t]
    <3>1. /\ h \in Headers /\ h.version = r.version /\ h.cookies = "none"
          /\ h.location = "none" /\ h.status = 200
      BY <2>6, <2>7
    <3> QED
      BY <1>1, <2>1, <3>1
  <2> QED
    BY <1>6, <2>2, <2>3, <2>4, <2>5, <2>7
<1> QED
  BY <1>6, <1>7, <1>8

LEMMA RespondGood ==
  ASSUME XInv, NEW c \in Conns, Respond(c)
  PROVE  XInv'
<1> DEFINE r == request[c]
<1>1. /\ r \in Requests /\ said[c] \in Requests /\ env[c] \in Environments
      /\ r.phase \in {"bad", "parsed"} /\ r.version = Last(said[c].version, before[c].version)
      /\ r.method = said[c].method /\ env[c].method = "none" /\ r.target = said[c].target
      /\ r.phase = "parsed" => r.version = said[c].version
  <2>1. /\ r \in Requests /\ said[c] \in Requests /\ env[c] \in Environments
        /\ r.phase \in {"bad", "parsed"} /\ Good(c)
    BY Kept DEF Respond
  <2> QED
    BY <2>1 DEF Good, Fits, Told, Programmed, Last
<1>2. UNCHANGED <<up, program, env, said, spoken, before>>
  BY DEF Respond
<1>3. CASE Refused(r) # {}
  <2>1. PICK status \in FirstOf(Refused(r)) : Answer(c, Error(status, r.version))
    BY <1>3 DEF Respond
  <2>2. status \in {400, 505, 501, 405}
    BY DEF FirstOf, Order
  <2>3. /\ Error(status, r.version) \in Headers
        /\ About(Error(status, r.version), said[c], before[c], spoken[c], env[c])
    <3>1. r.version \in Versions \cup {"none"}
      BY <1>1 DEF Requests
    <3>2. status \in OwnStatuses /\ status \notin {200, 201, 301}
      BY <2>2 DEF OwnStatuses
    <3> HIDE DEF r
    <3> QED
      BY <1>1, <3>1, <3>2, ErrorIsAbout
  <2> QED
    BY <1>2, <2>1, <2>3, AnswerGood
<1>4. CASE Refused(r) = {}
  <2>1. PICK h :
          /\ Answer(c, h)
          /\ \/ Redirected(r) /\ h = [Initialized(factory) EXCEPT
                                     !.version = r.version, !.status = 301, !.location = "moved"]
             \/ ~Redirected(r) /\ h \in Answers(r)
             \/ h = Error(413, r.version)
    BY <1>4 DEF Respond
  <2>2. /\ h \in Headers /\ h.version = r.version /\ h.cookies = "none"
        /\ h.status = 301 => h.location # "none"
        /\ h.status # 301 => h.location = "none"
        /\ h.type # "none" => h.status = 200
        /\ h.status \in {200, 201} =>
             r.version = "HTTP/1.1" /\ r.method \in Allowed /\ r.target # "moved"
    BY <1>1, <1>4, <2>1, AnswersTyped
  <2>3. r.phase = "parsed"
    BY <1>1, <1>4 DEF Refused
  <2>4. About(h, said[c], before[c], spoken[c], env[c])
    BY <1>1, <2>2, <2>3 DEF About
  <2> QED
    BY <1>2, <2>1, <2>2, <2>4, AnswerGood
<1> QED
  BY <1>3, <1>4

LEMMA ProgramErrorGood ==
  ASSUME XInv, NEW c \in Conns, NEW status \in {400, 500}, ProgramError(c, status)
  PROVE  XInv'
<1> DEFINE r == request[c]
<1>1. CASE r.method = "GET"
  <2>1. up' = FALSE /\ UNCHANGED <<request, program, factory, response, env, said, spoken, before>>
    BY <1>1 DEF ProgramError
  <2>2. up' \in BOOLEAN /\ factory' \in Headers
    BY <2>1, Kept
  <2>3. Replaces(c, r, said[c], before[c], program[c], spoken[c], env[c], response[c])
    BY <2>1, <2>2, Kept DEF Replaces
  <2> QED
    BY <2>3, Kept, Replaced DEF Good
<1>2. CASE r.method # "GET"
  <2>1. /\ Answer(c, Error(status, r.version))
        /\ UNCHANGED <<up, program, env, said, spoken, before>>
    BY <1>2 DEF ProgramError
  <2>2. /\ r.version \in Versions \cup {"none"} /\ env[c].method = "none"
        /\ r.version = Last(said[c].version, before[c].version)
    <3>1. r \in Requests /\ r.phase \in {"bad", "parsed"} /\ Good(c)
      BY Kept DEF ProgramError
    <3> QED
      BY <3>1 DEF Requests, Good, Fits, Told, Programmed
  <2>3. /\ Error(status, r.version) \in Headers
        /\ About(Error(status, r.version), said[c], before[c], spoken[c], env[c])
    <3>1. status \in OwnStatuses /\ status \notin {200, 201, 301}
      BY DEF OwnStatuses
    <3>2. env[c].method # "none" => status \in {500, 505}
      BY <2>2
    <3> HIDE DEF r
    <3> QED
      BY <2>2, <3>1, <3>2, ErrorIsAbout
  <2> QED
    BY <2>1, <2>3, AnswerGood
<1> QED
  BY <1>1, <1>2

LEMMA CallCgiGood ==
  ASSUME XInv, NEW c \in Conns, CallCgi(c)
  PROVE  XInv'
<1> DEFINE q == request[c]
           r == [q EXCEPT !.phase = "program"]
           p == [program[c] EXCEPT !.version = q.version, !.method = q.method]
           e == Environment(q)
<1>1. /\ q \in Requests /\ said[c] \in Requests /\ program[c] \in Programs
      /\ spoken[c] \in Outputs /\ before[c] \in Earlier /\ response[c] \in Headers
      /\ q.phase = "parsed" /\ q.method \in {"GET", "POST", "PUT"}
      /\ Fits(q, said[c], before[c], program[c], spoken[c], env[c], response[c])
  BY Kept DEF CallCgi, ForProgram, Good
<1>2. /\ r \in Requests /\ r.phase = "program" /\ r.version = q.version /\ r.cookies = q.cookies
      /\ r.secret = q.secret /\ r.method = q.method /\ r.target = q.target
  BY <1>1 DEF Requests
<1>3. /\ p \in Programs /\ p.version = q.version /\ p.status = program[c].status /\ p.message = program[c].message
      /\ p.type = program[c].type /\ p.cookies = program[c].cookies
  <2> DEFINE p1 == [program[c] EXCEPT !.version = q.version]
  <2>1. /\ p1 \in Programs /\ p1.version = q.version /\ p1.status = program[c].status
        /\ p1.message = program[c].message
        /\ p1.type = program[c].type /\ p1.cookies = program[c].cookies
        /\ q.method \in Methods \cup {"NOT_IMPL"}
    BY <1>1 DEF Programs, Requests
  <2>2. p = [p1 EXCEPT !.method = q.method]
    OBVIOUS
  <2> HIDE DEF p1, p
  <2> QED
    BY <2>1, <2>2 DEF Programs
<1>4. /\ e \in Environments
      /\ e.method # "none" => /\ e.method = q.method /\ e.version = q.version
                              /\ e.cookies = q.cookies /\ e.secret = q.secret
  <2>1. CASE q.method = "PUT"
    BY <2>1, NewTyped DEF Environment, NoEnv
  <2>2. CASE q.method # "PUT"
    BY <1>1, <2>2 DEF Environment, Environments, Requests
  <2> QED
    BY <2>1, <2>2
<1>5. Fits(r, said[c], before[c], p, spoken[c], e, response[c])
  <2> HIDE DEF r, p, e
  <2>1. program[c].message = "none"
    BY <1>1 DEF Fits, Programmed
  <2>2. Told(r, said[c], before[c])
    BY <1>1, <1>2 DEF Fits, Told
  <2>3. Programmed(r, said[c], before[c], p, spoken[c], e)
    BY <1>1, <1>2, <1>3, <1>4, <2>1 DEF Fits, Told, Programmed, Last
  <2>4. Answered(r, response[c], said[c], before[c], spoken[c], e)
    BY <1>1, <1>2 DEF Fits, Answered
  <2> QED
    BY <2>2, <2>3, <2>4 DEF Fits
<1>6. /\ request' = [request EXCEPT ![c] = r] /\ program' = [program EXCEPT ![c] = p]
      /\ env' = [env EXCEPT ![c] = e]
  <2>1. /\ program' = [program EXCEPT ![c].version = q.version, ![c].method = q.method]
        /\ program \in [Conns -> Programs]
    BY DEF CallCgi, XInv, TypeOK
  <2>2. [program EXCEPT ![c].version = q.version][c] = [program[c] EXCEPT !.version = q.version]
    BY <2>1
  <2>3. program' = [program EXCEPT ![c] = p]
    BY <2>1, <2>2
  <2> QED
    BY <2>3 DEF CallCgi
<1> HIDE DEF r, p, e
<1>7. Replaces(c, r, said[c], before[c], p, spoken[c], e, response[c])
  BY <1>2, <1>3, <1>4, <1>6, Kept DEF CallCgi, Replaces
<1> QED
  BY <1>5, <1>7, Replaced

LEMMA ProgramSaysGood ==
  ASSUME XInv, NEW c \in Conns, ProgramSays(c)
  PROVE  XInv'
<1>1. /\ program[c] \in Programs /\ spoken[c] \in Outputs /\ request[c].phase = "program"
      /\ env[c].method # "none" /\ program[c].type = spoken[c].type
      /\ program[c].cookies = spoken[c].cookies
      /\ program[c].message # "none" => program[c].status = spoken[c].status
      /\ Fits(request[c], said[c], before[c], program[c], spoken[c], env[c], response[c])
  BY Kept DEF ProgramSays, Started, Good, Fits, Programmed
<1>2. ASSUME NEW p \in Programs, NEW o \in Outputs, p.version = program[c].version,
             p.type = o.type, p.cookies = o.cookies, p.message # "none" => p.status = o.status,
             program' = [program EXCEPT ![c] = p], spoken' = [spoken EXCEPT ![c] = o]
      PROVE  XInv'
  <2>1. Fits(request[c], said[c], before[c], p, o, env[c], response[c])
    BY <1>1, <1>2 DEF Fits, Programmed, Answered
  <2>2. UNCHANGED <<up, request, factory, response, env, said, before>>
    BY DEF ProgramSays
  <2>3. Replaces(c, request[c], said[c], before[c], p, o, env[c], response[c])
    BY <1>2, <2>2, Kept DEF Replaces
  <2> QED
    BY <2>1, <2>3, Replaced
<1>3. ASSUME NEW n \in Statuses \cup {0}, NEW text \in {"none", "text"},
             program' = [program EXCEPT ![c].status = n, ![c].message = IF text = "none" THEN @ ELSE text],
             spoken' = [spoken EXCEPT ![c].status = n]
      PROVE  XInv'
  <2> DEFINE m == IF text = "none" THEN program[c].message ELSE text
             p1 == [program[c] EXCEPT !.status = n]
             p == [p1 EXCEPT !.message = m]
             o == [spoken[c] EXCEPT !.status = n]
  <2>1. /\ p1 \in Programs /\ p1.version = program[c].version /\ p1.status = n
        /\ p1.type = program[c].type /\ p1.cookies = program[c].cookies
        /\ p1.message = program[c].message
    BY <1>1 DEF Programs
  <2>2. o \in Outputs /\ o.status = n /\ o.type = spoken[c].type /\ o.cookies = spoken[c].cookies
    BY <1>1 DEF Outputs
  <2>3. m \in {"none", "text"}
    BY <1>1 DEF Programs
  <2>4. /\ spoken' = [spoken EXCEPT ![c] = o]
        /\ program' = [program EXCEPT ![c] = p]
    <3>1. spoken' = [spoken EXCEPT ![c] = o]
      BY <1>3
    <3>2. [program EXCEPT ![c].status = n][c] = p1 /\ program \in [Conns -> Programs]
      BY DEF XInv, TypeOK
    <3>3. p1.message = program[c].message
      BY <2>1
    <3>4. program' = [program EXCEPT ![c] = p]
      BY <1>3, <3>2, <3>3
    <3> QED
      BY <3>1, <3>4
  <2> HIDE DEF m, p1, o
  <2>5. /\ p \in Programs /\ p.version = program[c].version /\ p.status = n
        /\ p.type = program[c].type /\ p.cookies = program[c].cookies
    BY <2>1, <2>3 DEF Programs
  <2> HIDE DEF p
  <2> QED
    BY <1>1, <1>2, <2>2, <2>4, <2>5
<1>4. ASSUME NEW t \in Types \cup {"none"}, program' = [program EXCEPT ![c].type = t],
             spoken' = [spoken EXCEPT ![c].type = t]
      PROVE  XInv'
  <2> DEFINE p == [program[c] EXCEPT !.type = t]
             o == [spoken[c] EXCEPT !.type = t]
  <2>1. /\ p \in Programs /\ o \in Outputs /\ p.version = program[c].version
        /\ p.type = o.type /\ p.cookies = o.cookies /\ p.status = program[c].status
        /\ o.status = spoken[c].status /\ p.message = program[c].message
    BY <1>1 DEF Programs, Outputs
  <2>2. program' = [program EXCEPT ![c] = p] /\ spoken' = [spoken EXCEPT ![c] = o]
    BY <1>4
  <2> HIDE DEF p, o
  <2> QED
    BY <1>1, <1>2, <2>1, <2>2
<1>5. ASSUME NEW k \in Cookies \cup {"none"}, program' = [program EXCEPT ![c].cookies = k],
             spoken' = [spoken EXCEPT ![c].cookies = k]
      PROVE  XInv'
  <2> DEFINE p == [program[c] EXCEPT !.cookies = k]
             o == [spoken[c] EXCEPT !.cookies = k]
  <2>1. /\ p \in Programs /\ o \in Outputs /\ p.version = program[c].version
        /\ p.type = o.type /\ p.cookies = o.cookies /\ p.status = program[c].status
        /\ o.status = spoken[c].status /\ p.message = program[c].message
    BY <1>1 DEF Programs, Outputs
  <2>2. program' = [program EXCEPT ![c] = p] /\ spoken' = [spoken EXCEPT ![c] = o]
    BY <1>5
  <2> HIDE DEF p, o
  <2> QED
    BY <1>1, <1>2, <2>1, <2>2
<1> QED
  BY <1>3, <1>4, <1>5 DEF ProgramSays

LEMMA CgiRespondGood ==
  ASSUME XInv, NEW c \in Conns, CgiRespond(c)
  PROVE  XInv'
<1> DEFINE p == program[c]
<1>1. /\ p \in Programs /\ spoken[c] \in Outputs /\ said[c] \in Requests
      /\ p.version = said[c].version /\ said[c].version # "none"
      /\ p.type = spoken[c].type /\ p.cookies = spoken[c].cookies
      /\ env[c].method = "none" => p.message = "none"
      /\ p.message # "none" => p.status = spoken[c].status
      /\ UNCHANGED <<up, program, env, said, spoken, before>>
  BY Kept DEF CgiRespond, Good, Fits, Programmed
<1>2. p.version \in Versions \cup {"none"} /\ p.version = Last(said[c].version, before[c].version)
  BY <1>1 DEF Programs, Last
<1>3. ASSUME NEW status \in {500, 505}, Answer(c, Error(status, p.version))
      PROVE  XInv'
  <2>1. /\ Error(status, p.version) \in Headers
        /\ About(Error(status, p.version), said[c], before[c], spoken[c], env[c])
    BY <1>2, ErrorIsAbout DEF OwnStatuses
  <2> QED
    BY <1>1, <1>3, <2>1, AnswerGood
<1>4. CASE /\ p.status # 0 /\ p.message # "none" /\ p.version = "HTTP/1.1"
           /\ Answer(c, [Initialized(factory) EXCEPT !.version = p.version, !.status = p.status,
                                                    !.type = p.type, !.cookies = p.cookies])
  <2> DEFINE n1 == [NoHeader EXCEPT !.version = p.version]
             n2 == [n1 EXCEPT !.status = p.status]
             n3 == [n2 EXCEPT !.type = p.type]
             h == [n3 EXCEPT !.cookies = p.cookies]
  <2>1. p.type \in Types \cup {"none"} /\ p.cookies \in Cookies \cup {"none"}
    BY <1>1 DEF Programs
  <2>2. Answer(c, h)
    BY <1>4 DEF Initialized
  <2>3. n1 \in Headers /\ n1.version = p.version /\ n1.location = "none"
    BY <1>2, NoHeaderIs DEF Headers
  <2> HIDE DEF n1
  <2>4. n2 \in Headers /\ n2.version = p.version /\ n2.location = "none" /\ n2.status = p.status
    <3>1. p.status \in Statuses \cup {0, 404}
      BY <1>1 DEF Programs
    <3> QED
      BY <3>1, <2>3 DEF Headers
  <2> HIDE DEF n2
  <2>5. /\ n3 \in Headers /\ n3.version = p.version /\ n3.location = "none" /\ n3.status = p.status
        /\ n3.type = p.type
    BY <2>1, <2>4 DEF Headers
  <2> HIDE DEF n3
  <2>6. /\ h \in Headers /\ h.version = p.version /\ h.location = "none" /\ h.status = p.status
        /\ h.type = p.type /\ h.cookies = p.cookies
    BY <2>1, <2>5 DEF Headers
  <2> HIDE DEF h
  <2>7. About(h, said[c], before[c], spoken[c], env[c])
    <3>1. p.message # "none"
      BY <1>1, <1>4 DEF Programs
    <3>2. env[c].method # "none" /\ OfProgram(h, spoken[c])
      BY <1>1, <2>6, <3>1 DEF OfProgram
    <3> QED
      BY <1>1, <1>2, <1>4, <2>6, <3>2 DEF About
  <2> QED
    BY <1>1, <2>2, <2>7, <2>6, AnswerGood
<1> QED
  BY <1>3, <1>4 DEF CgiRespond

NothingBefore == [cookies |-> "none", version |-> "none"]

\* The next exchange: with what is left of this one, or as a new connection.
LEMMA AgainGood ==
  ASSUME XInv, NEW c \in Conns, NEW r \in Requests, NEW p \in Programs, NEW b \in Earlier,
         request' = [request EXCEPT ![c] = r], program' = [program EXCEPT ![c] = p],
         before' = [before EXCEPT ![c] = b], said' = [said EXCEPT ![c] = NothingSaid],
         spoken' = [spoken EXCEPT ![c] = NothingSpoken], env' = [env EXCEPT ![c] = NoEnv],
         response' = [response EXCEPT ![c] = NoHeader], UNCHANGED <<up, factory>>,
         r.version = b.version, r.cookies = b.cookies, r.secret = 0, r.method = "NOT_IMPL",
         r.phase = "init", r.target = "none", p.message = "none", p.type = "none", p.cookies = "none"
  PROVE  XInv'
<1>1. Fits(r, NothingSaid, b, p, NothingSpoken, NoEnv, NoHeader)
  BY DEF Fits, Told, Programmed, Answered, Last, NothingSaid, NewRequest, NothingSpoken, NoEnv,
         NoHeader
<1>2. Replaces(c, r, NothingSaid, b, p, NothingSpoken, NoEnv, NoHeader)
  BY Kept, NewTyped DEF Replaces
<1> QED
  BY <1>1, <1>2, Replaced

LEMMA KeepAliveGood ==
  ASSUME XInv, NEW c \in Conns, KeepAlive(c)
  PROVE  XInv'
<1> DEFINE q == request[c]
           b == [cookies |-> Last(said[c].cookies, before[c].cookies),
                 version |-> Last(said[c].version, before[c].version)]
<1>1. /\ q \in Requests /\ said[c] \in Requests /\ before[c] \in Earlier
      /\ q.version = b.version /\ q.cookies = b.cookies
  BY Kept DEF Good, Fits, Told
<1>2. b \in Earlier
  BY <1>1 DEF Earlier, Requests
<1>3. /\ Reset(q) \in Requests /\ Reset(q).version = q.version /\ Reset(q).cookies = q.cookies
      /\ Reset(q).secret = 0 /\ Reset(q).method = "NOT_IMPL" /\ Reset(q).phase = "init"
      /\ Reset(q).target = "none"
  <2>1. /\ NewRequest \in Requests /\ NewRequest.secret = 0 /\ NewRequest.method = "NOT_IMPL"
        /\ NewRequest.phase = "init" /\ NewRequest.target = "none"
    BY NewTyped DEF NewRequest
  <2>2. q.version \in Versions \cup {"none"} /\ q.cookies \in Cookies \cup {"none"}
    BY <1>1 DEF Requests
  <2> QED
    BY <2>1, <2>2 DEF Reset, Requests
<1>4. /\ ProgramReset(program[c]) \in Programs /\ ProgramReset(program[c]).message = "none"
      /\ ProgramReset(program[c]).type = "none" /\ ProgramReset(program[c]).cookies = "none"
  <2>1. NewProgram \in Programs /\ NewProgram.type = "none" /\ NewProgram.cookies = "none"
        /\ NewProgram.message = "none"
    BY NewTyped DEF NewProgram
  <2> QED
    BY <2>1 DEF ProgramReset, Programs
<1>5. /\ request' = [request EXCEPT ![c] = Reset(q)]
      /\ program' = [program EXCEPT ![c] = ProgramReset(program[c])]
      /\ said' = [said EXCEPT ![c] = NothingSaid]
      /\ spoken' = [spoken EXCEPT ![c] = NothingSpoken] /\ env' = [env EXCEPT ![c] = NoEnv]
      /\ response' = [response EXCEPT ![c] = NoHeader] /\ UNCHANGED <<up, factory>>
  BY DEF KeepAlive
<1>6. before' = [before EXCEPT ![c] = b]
  <2> DEFINE k == b.cookies
             v == b.version
             n == [[before[c] EXCEPT !.cookies = k] EXCEPT !.version = v]
  <2>1. k = Last(said[c].cookies, before[c].cookies) /\ v = Last(said[c].version, before[c].version)
    OBVIOUS
  <2>2. /\ before \in [Conns -> Earlier]
        /\ before' = [before EXCEPT ![c].cookies = k, ![c].version = v]
    BY <2>1 DEF KeepAlive, Last, XInv, TypeOK
  <2>3. [before EXCEPT ![c].cookies = k][c] = [before[c] EXCEPT !.cookies = k]
    BY <2>2
  <2>4. before' = [before EXCEPT ![c] = n]
    BY <2>2, <2>3
  <2>5. before[c] \in Earlier /\ b \in Earlier
    BY <1>1, <1>2
  <2> HIDE DEF b
  <2>6. n = b
    BY <2>5 DEF Earlier
  <2> QED
    BY <2>4, <2>6
<1> HIDE DEF b
<1> QED
  BY <1>1, <1>2, <1>3, <1>4, <1>5, <1>6, AgainGood

LEMMA CloseGood ==
  ASSUME XInv, NEW c \in Conns, Close(c)
  PROVE  XInv'
<1>1. /\ NewRequest.version = "none" /\ NewRequest.cookies = "none" /\ NewRequest.secret = 0
      /\ NewRequest.method = "NOT_IMPL" /\ NewRequest.phase = "init" /\ NewRequest.target = "none"
      /\ NewProgram.message = "none" /\ NewProgram.type = "none" /\ NewProgram.cookies = "none"
  BY DEF NewRequest, NewProgram
<1>2. NothingBefore \in Earlier /\ NothingBefore.version = "none" /\ NothingBefore.cookies = "none"
  BY NewTyped DEF NothingBefore
<1>3. before' = [before EXCEPT ![c] = NothingBefore]
  BY DEF Close, NothingBefore
<1> QED
  BY <1>1, <1>2, <1>3, NewTyped, AgainGood DEF Close

LEMMA NextGood == XInv /\ [Next]_vars => XInv'
<1> SUFFICES ASSUME XInv, [Next]_vars PROVE XInv'
  OBVIOUS
<1>1. CASE UNCHANGED vars
  BY <1>1 DEF vars, XInv, TypeOK, Good
<1>2. ASSUME NEW c \in Conns,
             \/ Parse(c) \/ Respond(c) \/ CallCgi(c) \/ ProgramSays(c) \/ CgiRespond(c)
             \/ ProgramError(c, 400) \/ ProgramError(c, 500) \/ KeepAlive(c) \/ Close(c)
      PROVE  XInv'
  BY <1>2, ParseGood, RespondGood, CallCgiGood, ProgramSaysGood, CgiRespondGood,
     ProgramErrorGood, KeepAliveGood, CloseGood
<1> QED
  BY <1>1, <1>2 DEF Next

-----------------------------------------------------------------------------
\* The inductive invariant: what is kept of a connection is what its client and its
\* program have said.
THEOREM ExchangeInvariant == Spec => []XInv
BY InitGood, NextGood, PTL DEF Spec

\* Types, in every reachable state.
THEOREM ExchangeTyped == Spec => []TypeOK
<1>1. XInv => TypeOK
  BY DEF XInv
<1> QED
  BY <1>1, ExchangeInvariant, PTL

\* A program is told what its own request said, or an earlier one of its connection.
THEOREM EnvironmentIsOwn == Spec => []EnvIsOwn
<1>1. XInv => EnvIsOwn
  BY DEF XInv, Good, Fits, Programmed, Last, EnvIsOwn, Started
<1> QED
  BY <1>1, ExchangeInvariant, PTL

\* The static members of ResponseFactory carry nothing from one response to another.
THEOREM HeaderIsOwn == Spec => []ResponseIsOwn
<1>1. XInv => ResponseIsOwn
  <2> SUFFICES ASSUME XInv, NEW c \in Conns, request[c].phase = "answered"
               PROVE  LET h == response[c] IN
                      /\ h.version = (IF said[c].version # "none" THEN said[c].version
                                      ELSE before[c].version)
                      /\ Started(c) => h.location = "none" /\ (Page(h) \/ OfProgram(h, spoken[c]))
                      /\ ~Started(c) =>
                           /\ h.cookies = "none" /\ (h.type # "none" => h.status = 200)
                           /\ h.location # "none" <=> h.status = 301
    BY DEF ResponseIsOwn, Page, OfProgram
  <2>1. About(response[c], said[c], before[c], spoken[c], env[c])
    BY DEF XInv, Good, Fits, Answered
  <2> QED
    BY <2>1 DEF About, Last, Started
<1> QED
  BY <1>1, ExchangeInvariant, PTL

\* Success needs HTTP/1.1, and without a program a method that is allowed and a location
\* that is not redirected.
THEOREM SuccessIsExplained == Spec => []SuccessCauses
<1>1. XInv => SuccessCauses
  <2> SUFFICES ASSUME XInv, NEW c \in Conns, response[c].status \in {200, 201}
               PROVE  /\ said[c].version = "HTTP/1.1"
                      /\ ~Started(c) => said[c].method \in Allowed /\ said[c].target # "moved"
    BY DEF SuccessCauses
  <2>1. Answered(request[c], response[c], said[c], before[c], spoken[c], env[c])
    BY DEF XInv, Good, Fits
  <2>2. request[c].phase = "answered"
    BY <2>1 DEF Answered
  <2> QED
    BY <2>1, <2>2 DEF Answered, About, Started
<1> QED
  BY <1>1, ExchangeInvariant, PTL
=============================================================================
