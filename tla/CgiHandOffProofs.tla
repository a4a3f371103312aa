-------------------------- MODULE CgiHandOffProofs --------------------------
(***************************************************************************)
(* Proofs about CgiHandOff: the files of a name have one program at a      *)
(* time, an answer is made of its own program's output, and what can go    *)
(* wrong does so for the named reasons only.                               *)
(***************************************************************************)
EXTENDS CgiHandOff, WellFoundedInduction, NaturalsInduction, SequenceTheorems, TLAPS

\* The programs that have been started are those up to run; one that may still open
\* its files or write is the last, and it is waited for.
Programs ==
  /\ phase = "upload" => run < MaxRuns
  /\ \A r \in 1..MaxRuns :
       /\ proc[r].pc = "none" <=> r > run
       /\ r > run => proc[r] = NoProcess
       /\ proc[r].pc \in {"forked", "writing"} => r = run /\ phase \in {"forking", "waiting"}

\* How far a program can be, by what its state says.
Progress ==
  run > 0 => LET p == proc[run] IN
    /\ p.off =< Len(out[run])
    /\ p.pc \in {"forked", "failed"} => p.off = 0
    /\ p.pc \in {"exited", "reaped"} => p.off = Len(out[run])

\* While there is a response file, it is the one that the program writes, and,
\* unless it was truncated too late, holds what has been written.
HasAnswer == phase \in {"waiting", "parsing", "parsed"} \/ (phase = "answer" /\ pid)
SameFile ==
  HasAnswer => LET p == proc[run] IN
    /\ run > 0 /\ pid /\ cgi.ino \in 1..Len(data)
    /\ p.pc \in {"forked", "failed"} => data[cgi.ino] = << >>
    /\ p.pc = "forked" => name = cgi.ino
    /\ p.pc \in {"writing", "exited", "reaped"} => p.ino = cgi.ino /\ name = cgi.ino /\ request
    /\ p.pc \in {"writing", "exited", "reaped"} /\ ~late =>
         Len(data[cgi.ino]) = p.off /\ \A i \in 1..p.off : data[cgi.ino][i] = out[run][i]
Forking ==
  phase = "forking" =>
    /\ run > 0 /\ pid /\ proc[run].pc # "reaped"
    /\ proc[run].pc \in {"writing", "exited"} => proc[run].ino = name /\ name # 0 /\ request

\* Nothing is left of an exchange when it is over.
Fresh ==
  ~HasAnswer => cgi = NewCgiResponse /\ ~late /\ ~dropped /\ (pid => phase = "forking")

\* How the state of the CgiResponse goes with that of the Event and its program.
Stages ==
  /\ HasAnswer => (cgi.state = "CGI_RUNNING" <=> proc[run].pc # "reaped")
  /\ cgi.state = "CGI_RUNNING" =>
       cgi.pos = 0 /\ cgi.mem = << >> /\ cgi.read = 0 /\ ~cgi.status /\ ~cgi.type
  /\ phase = "parsing" => cgi.state = "CGI_PARSING_HEADER"
  /\ phase \in {"parsed", "answer"} /\ HasAnswer => cgi.state = "CGI_PARSING_DONE"
  /\ dropped => cgi.state = "CGI_PARSING_DONE"
  /\ phase = "waiting" /\ cgi.state = "CGI_PARSING_DONE" => dropped
  /\ looping => phase = "waiting" /\ dropped

\* Up to the end of the header the file's position is the end of the memory.
Position == cgi.state = "CGI_PARSING_HEADER" => cgi.pos = Len(cgi.mem)

\* What has been parsed is a beginning of the program's output, and the header ends
\* where it should.
Parsed ==
  cgi.state # "CGI_RUNNING" /\ ~late => LET o == out[run] IN
    /\ Len(cgi.mem) =< Len(o) /\ \A i \in 1..Len(cgi.mem) : cgi.mem[i] = o[i]
    /\ cgi.status <=> \E i \in 1..cgi.read : o[i] = "status"
    /\ cgi.type <=> \E i \in 1..cgi.read : o[i] = "type"
    /\ \A i \in 1..(cgi.read - 1) : ~EndsHeader(o, i)
    /\ EndsHeader(o, cgi.read) <=> cgi.state = "CGI_PARSING_DONE"
    /\ phase = "waiting" /\ cgi.state = "CGI_PARSING_HEADER" => HeaderLength(o) = 0

\* A parsed header leaves the file at the start of the body; every reboot takes it
\* back by what was read too much.
Placed ==
  cgi.state = "CGI_PARSING_DONE" =>
    /\ cgi.pos =< cgi.read /\ (cgi.read = Len(cgi.mem) => cgi.pos = cgi.read)
    /\ ~dropped => cgi.pos = cgi.read
    /\ dropped /\ phase # "waiting" => cgi.pos =< cgi.read - (Len(cgi.mem) - cgi.read)

CInv ==
  /\ TypeOK /\ Programs /\ Progress /\ SameFile /\ Forking /\ Fresh /\ Stages /\ Position
  /\ Parsed /\ Placed

-----------------------------------------------------------------------------
(* Lemmas about the operators *)

LEMMA Least ==
  ASSUME NEW S \in SUBSET Nat, S # {}
  PROVE  \E i \in S : \A j \in S : i =< j
<1> DEFINE R == OpToRel(<, Nat)
<1>1. IsWellFoundedOn(R, Nat)
  BY NatLessThanWellFounded
<1>2. \A x, y \in Nat : x < y => <<x, y>> \in R
  BY DEF OpToRel
<1> HIDE DEF R
<1>3. PICK x \in S : \A y \in S : <<y, x>> \notin R
  BY <1>1, WFMin
<1>4. ASSUME NEW y \in S PROVE x =< y
  <2>1. x \in Nat /\ y \in Nat
    OBVIOUS
  <2>2. ~(y < x)
    BY <1>2, <1>3, <2>1
  <2> QED
    BY <2>1, <2>2
<1> QED
  BY <1>4

\* The line that getLineFile returns from memory ends at the first end of a line.
LEMMA LineEndIs ==
  ASSUME NEW c \in CgiResponses, c.read =< Len(c.mem)
  PROVE  /\ LineEnd(c) # 0 => LineEnd(c) \in (c.read + 1)..Len(c.mem)
         /\ \A i \in (c.read + 1)..Len(c.mem) :
              LineEnd(c) = 0 \/ i < LineEnd(c) => c.mem[i] \in {"part", "hole"}
<1> DEFINE S == {i \in (c.read + 1)..Len(c.mem) : c.mem[i] \notin {"part", "hole"}}
           E(i) == i \in S /\ \A j \in S : i =< j
<1>1. c.read \in Nat /\ Len(c.mem) \in Nat
  BY LenProperties DEF CgiResponses
<1>2. S \in SUBSET Nat
  BY <1>1
<1>3. CASE S = {}
  BY <1>3 DEF LineEnd
<1>4. CASE S # {}
  <2>1. \E i : E(i)
    BY <1>2, <1>4, Least
  <2>2. E(CHOOSE i : E(i))
    BY <2>1
  <2>3. LineEnd(c) = CHOOSE i \in S : \A j \in S : i =< j
    BY <1>4 DEF LineEnd
  <2>4. LineEnd(c) \in S /\ \A j \in S : LineEnd(c) =< j
    BY <2>1, <2>3
  <2> QED
    BY <1>1, <1>2, <2>4
<1> QED
  BY <1>3, <1>4

\* One read appends to the memory what comes next in the file.
LEMMA FilledIs ==
  ASSUME NEW c \in CgiResponses, NEW file \in Seq(Lines), c.pos =< Len(file)
  PROVE  /\ Filled(c, file) \in CgiResponses
         /\ Filled(c, file) = [c EXCEPT !.mem = Filled(c, file).mem, !.pos = Filled(c, file).pos]
         /\ \E n \in Nat :
              /\ Filled(c, file).pos = c.pos + n /\ c.pos + n =< Len(file)
              /\ Len(Filled(c, file).mem) = Len(c.mem) + n
              /\ \A i \in 1..Len(c.mem) : Filled(c, file).mem[i] = c.mem[i]
              /\ \A i \in 1..n : Filled(c, file).mem[Len(c.mem) + i] = file[c.pos + i]
<1> DEFINE n == IF Len(file) - c.pos < Buffer THEN Len(file) - c.pos ELSE Buffer
           s == SubSeq(file, c.pos + 1, c.pos + n)
           m == c.mem \o s
<1>1. c.pos \in Nat /\ Len(file) \in Nat /\ Buffer \in Nat /\ c.mem \in Seq(Lines)
  BY CgiAssumption, LenProperties DEF CgiResponses
<1>2. n \in Nat /\ c.pos + n =< Len(file)
  BY <1>1
<1> HIDE DEF n
<1>3. s \in Seq(Lines) /\ Len(s) = n /\ \A i \in 1..n : s[i] = file[c.pos + i]
  <2>1. c.pos + 1 \in 1..(Len(file) + 1) /\ c.pos + n \in (c.pos + 1 - 1)..Len(file)
    BY <1>1, <1>2
  <2> DEFINE a == c.pos + 1
             b == c.pos + n
  <2>2. a \in Nat /\ b \in Nat /\ b - a + 1 = n /\ a \in 1..(Len(file) + 1) /\ b \in (a - 1)..Len(file)
    BY <1>1, <1>2
  <2>3. \A i \in 1..n : a + i - 1 = c.pos + i
    BY <1>1, <1>2
  <2>7. \A i \in a..b : file[i] \in Lines
    BY <2>2, ElementOfSeq, LenProperties
  <2> HIDE DEF a, b
  <2>4. SubSeq(file, a, b) \in Seq(Lines)
    BY <2>2, <2>7, SubSeqProperties
  <2>5. Len(SubSeq(file, a, b)) = n
    BY <1>2, <2>2, <2>7, SubSeqProperties
  <2>6. \A i \in 1..n : SubSeq(file, a, b)[i] = file[a + i - 1]
    BY <1>2, <2>2, <2>7, SubSeqProperties
  <2> QED
    BY <2>3, <2>4, <2>5, <2>6 DEF a, b
<1> HIDE DEF s
<1>4. /\ m \in Seq(Lines) /\ Len(m) = Len(c.mem) + n
      /\ \A i \in 1..Len(c.mem) : m[i] = c.mem[i]
      /\ \A i \in 1..n : m[Len(c.mem) + i] = s[i]
  <2>1. Len(c.mem) \in Nat
    BY <1>1, LenProperties
  <2>2. m \in Seq(Lines) /\ Len(m) = Len(c.mem) + n
    BY <1>1, <1>3, ConcatProperties
  <2>3. \A i \in 1..(Len(c.mem) + n) : m[i] = IF i =< Len(c.mem) THEN c.mem[i] ELSE s[i - Len(c.mem)]
    BY <1>1, <1>3, ConcatProperties
  <2> HIDE DEF m
  <2>4. \A i \in 1..n : /\ Len(c.mem) + i \in 1..(Len(c.mem) + n) /\ ~(Len(c.mem) + i =< Len(c.mem))
                       /\ (Len(c.mem) + i) - Len(c.mem) = i
    BY <1>2, <2>1
  <2>5. \A i \in 1..n : m[Len(c.mem) + i] = s[i]
    BY <2>3, <2>4
  <2>6. \A i \in 1..Len(c.mem) : m[i] = c.mem[i]
    BY <1>2, <2>1, <2>3
  <2> QED
    BY <2>2, <2>5, <2>6
<1> DEFINE p == c.pos + n
<1>5. Filled(c, file) = [c EXCEPT !.mem = m, !.pos = p]
  <2>1. Filled(c, file) = [c EXCEPT !.mem = @ \o s, !.pos = @ + n]
    BY DEF Filled, n, s
  <2> QED
    BY <2>1 DEF CgiResponses
<1>6. p \in Nat /\ p = c.pos + n
  BY <1>1, <1>2
<1> HIDE DEF m, p
<1>7. [c EXCEPT !.mem = m, !.pos = p] \in CgiResponses
  BY <1>4, <1>6 DEF CgiResponses
<1>8. Filled(c, file).mem = m /\ Filled(c, file).pos = p
  BY <1>5 DEF CgiResponses
<1>9. \E k \in Nat :
        /\ p = c.pos + k /\ c.pos + k =< Len(file) /\ Len(m) = Len(c.mem) + k
        /\ \A i \in 1..Len(c.mem) : m[i] = c.mem[i]
        /\ \A i \in 1..k : m[Len(c.mem) + i] = file[c.pos + i]
  <2>1. \A i \in 1..n : m[Len(c.mem) + i] = file[c.pos + i]
    BY <1>3, <1>4
  <2>2. /\ p = c.pos + n /\ c.pos + n =< Len(file) /\ Len(m) = Len(c.mem) + n
        /\ \A i \in 1..Len(c.mem) : m[i] = c.mem[i]
    BY <1>2, <1>4, <1>6
  <2> QED
    BY <1>2, <2>1, <2>2
<1> QED
  BY <1>5, <1>7, <1>8, <1>9

LEMMA OpensIs ==
  ASSUME TypeOK, NEW ino \in 1..(Len(data) + 1), OpensTruncated(ino)
  PROVE  /\ data' \in Seq(Seq(Lines)) /\ name' = ino /\ ino \in 1..Len(data')
         /\ Len(data) =< Len(data') /\ data'[ino] = << >>
         /\ \A i \in 1..Len(data) : i # ino => data'[i] = data[i]
         /\ name # 0 => ino = name
<1>1. data \in Seq(Seq(Lines)) /\ Len(data) \in Nat /\ name \in 0..Len(data) /\ << >> \in Seq(Lines)
  BY LenProperties, EmptySeq DEF TypeOK
<1>2. CASE name = 0
  <2>1. ino = Len(data) + 1 /\ data' = Append(data, << >>) /\ name' = ino
    BY <1>2 DEF OpensTruncated
  <2> QED
    BY <1>1, <1>2, <2>1, AppendProperties
<1>3. CASE name # 0
  <2>1. ino = name /\ data' = [data EXCEPT ![name] = << >>] /\ name' = name
    BY <1>3 DEF OpensTruncated
  <2>2. name \in 1..Len(data)
    BY <1>1, <1>3
  <2> QED
    BY <1>1, <1>3, <2>1, <2>2, ExceptSeq
<1> QED
  BY <1>2, <1>3

\* A write at the end of a file appends to it.
LEMMA WrittenIs ==
  ASSUME NEW s \in Seq(Lines), NEW off \in Nat, NEW line \in Lines
  PROVE  /\ Written(s, off, line) \in Seq(Lines) /\ Len(Written(s, off, line)) = off + 1
         /\ Written(s, off, line)[off + 1] = line
         /\ \A i \in 1..off : i =< Len(s) => Written(s, off, line)[i] = s[i]
<1> DEFINE w == Written(s, off, line)
<1>1. w \in [1..(off + 1) -> Lines]
  <2>1. ASSUME NEW i \in 1..(off + 1) PROVE w[i] \in Lines
    BY <2>1, LenProperties, ElementOfSeq DEF Written, Lines
  <2> QED
    BY <2>1 DEF Written
<1>2. w \in Seq(Lines) /\ Len(w) = off + 1
  BY <1>1, IsASeq, LenProperties
<1> QED
  BY <1>2 DEF Written

\* A header that ends at an empty line, but not as it should, and not before
\* either, is no well-formed header.
LEMMA NoHeader ==
  ASSUME NEW o \in Seq(Lines), NEW e \in 1..Len(o), o[e] \in {"blank", "bare"},
         \A j \in 1..e : ~EndsHeader(o, j)
  PROVE  HeaderLength(o) = 0
<1> DEFINE S == {i \in 1..Len(o) : o[i] \in {"blank", "bare"}}
           end == CHOOSE i \in S : \A j \in S : i =< j
<1>1. S \in SUBSET Nat /\ e \in S /\ Len(o) \in Nat
  BY LenProperties
<1>2. \E i \in S : \A j \in S : i =< j
  BY <1>1, Least
<1>3. end \in S /\ \A k \in S : end =< k
  BY <1>2
<1>4. HeaderLength(o) = IF S = {} THEN 0
                        ELSE IF o[end] = "bare" \/ ~({"status", "type"} \subseteq {o[i] : i \in 1..end})
                        THEN 0 ELSE end
  BY Zenon DEF HeaderLength
<1> HIDE DEF end
<1>5. end \in 1..e /\ end \in 1..Len(o) /\ o[end] \in {"blank", "bare"}
  BY <1>1, <1>3
<1>6. o[end] = "bare" \/ ~({"status", "type"} \subseteq {o[i] : i \in 1..end})
  BY <1>5 DEF EndsHeader
<1> QED
  BY <1>4, <1>1, <1>6

\* A well-formed header is followed by the body.
LEMMA HeaderEndsOnce ==
  ASSUME NEW o \in Seq(Lines), NEW e \in 1..Len(o), BodyAt(o, e)
  PROVE  HeaderLength(o) \in {0, e}
<1> DEFINE S == {i \in 1..Len(o) : o[i] \in {"blank", "bare"}}
           end == CHOOSE i \in S : \A j \in S : i =< j
<1>1. S \in SUBSET Nat /\ e \in S /\ Len(o) \in Nat
  BY LenProperties DEF BodyAt, EndsHeader
<1>2. \E i \in S : \A j \in S : i =< j
  BY <1>1, Least
<1>3. end \in S /\ \A k \in S : end =< k
  BY <1>2
<1>4. HeaderLength(o) = IF S = {} THEN 0
                        ELSE IF o[end] = "bare" \/ ~({"status", "type"} \subseteq {o[i] : i \in 1..end})
                        THEN 0 ELSE end
  BY Zenon DEF HeaderLength
<1> HIDE DEF end
<1>5. end \in 1..e /\ end \in 1..Len(o) /\ o[end] \in {"blank", "bare"}
  BY <1>1, <1>3
<1>6. CASE end = e
  BY <1>4, <1>1, <1>6
<1>7. CASE end # e
  <2>1. ~EndsHeader(o, end)
    BY <1>5, <1>7 DEF BodyAt
  <2>2. o[end] = "bare" \/ ~({"status", "type"} \subseteq {o[i] : i \in 1..end})
    BY <1>5, <2>1 DEF EndsHeader
  <2> QED
    BY <1>4, <1>1, <2>2
<1> QED
  BY <1>6, <1>7
-----------------------------------------------------------------------------
(* An action, conjunct by conjunct *)

LEMMA BeginCgiKeeps ==
  ASSUME CInv, BeginCgi
  PROVE  CInv'
<1>1. TypeOK'
  BY DEF CInv, BeginCgi, TypeOK
<1>2. Programs'
  BY DEF CInv, BeginCgi, Programs
<1>3. Progress'
  BY DEF CInv, BeginCgi, Progress
<1>4. SameFile'
  BY DEF CInv, BeginCgi, SameFile, HasAnswer
<1>5. Forking'
  BY DEF CInv, BeginCgi, Forking, Fresh, HasAnswer
<1>6. Fresh'
  BY DEF CInv, BeginCgi, Fresh, HasAnswer, NewCgiResponse
<1>7. Stages'
  BY DEF CInv, BeginCgi, Stages, HasAnswer, NewCgiResponse, Fresh
<1>8. Position'
  BY DEF CInv, BeginCgi, Position
<1>9. Parsed'
  BY DEF CInv, BeginCgi, Parsed
<1>10. Placed'
  BY DEF CInv, BeginCgi, Placed
<1> QED
  BY <1>1, <1>2, <1>3, <1>4, <1>5, <1>6, <1>7, <1>8, <1>9, <1>10 DEF CInv

LEMMA PlainKeeps ==
  ASSUME CInv, PlainRequest
  PROVE  CInv'
<1>1. TypeOK'
  BY DEF CInv, PlainRequest, TypeOK
<1>2. Programs'
  BY DEF CInv, PlainRequest, Programs
<1>3. Progress'
  BY DEF CInv, PlainRequest, Progress
<1>4. SameFile'
  BY DEF CInv, PlainRequest, SameFile, HasAnswer, Fresh
<1>5. Forking'
  BY DEF CInv, PlainRequest, Forking, Fresh, HasAnswer
<1>6. Fresh'
  BY DEF CInv, PlainRequest, Fresh, HasAnswer, NewCgiResponse
<1>7. Stages'
  BY DEF CInv, PlainRequest, Stages, HasAnswer, NewCgiResponse, Fresh
<1>8. Position'
  BY DEF CInv, PlainRequest, Position
<1>9. Parsed'
  BY DEF CInv, PlainRequest, Parsed
<1>10. Placed'
  BY DEF CInv, PlainRequest, Placed
<1> QED
  BY <1>1, <1>2, <1>3, <1>4, <1>5, <1>6, <1>7, <1>8, <1>9, <1>10 DEF CInv

LEMMA UploadFailsKeeps ==
  ASSUME CInv, UploadFails
  PROVE  CInv'
<1>1. TypeOK'
  BY DEF CInv, UploadFails, TypeOK
<1>2. Programs'
  BY DEF CInv, UploadFails, Programs
<1>3. Progress'
  BY DEF CInv, UploadFails, Progress
<1>4. SameFile'
  BY DEF CInv, UploadFails, SameFile, HasAnswer
<1>5. Forking'
  BY DEF CInv, UploadFails, Forking, Fresh, HasAnswer
<1>6. Fresh'
  BY DEF CInv, UploadFails, Fresh, HasAnswer, NewCgiResponse
<1>7. Stages'
  BY DEF CInv, UploadFails, Stages, HasAnswer, NewCgiResponse, Fresh
<1>8. Position'
  BY DEF CInv, UploadFails, Position
<1>9. Parsed'
  BY DEF CInv, UploadFails, Parsed
<1>10. Placed'
  BY DEF CInv, UploadFails, Placed
<1> QED
  BY <1>1, <1>2, <1>3, <1>4, <1>5, <1>6, <1>7, <1>8, <1>9, <1>10 DEF CInv

LEMMA ServeKeeps ==
  ASSUME CInv, Serve
  PROVE  CInv'
<1>1. TypeOK'
  BY DEF CInv, Serve, TypeOK
<1>2. Programs'
  BY DEF CInv, Serve, Programs
<1>3. Progress'
  BY DEF CInv, Serve, Progress
<1>4. SameFile'
  BY DEF CInv, Serve, SameFile, HasAnswer
<1>5. Forking'
  BY DEF CInv, Serve, Forking, Fresh, HasAnswer
<1>6. Fresh'
  BY DEF CInv, Serve, Fresh, HasAnswer, SameFile
<1>7. Stages'
  BY DEF CInv, Serve, Stages, HasAnswer, NewCgiResponse, Fresh
<1>8. Position'
  BY DEF CInv, Serve, Position
<1>9. Parsed'
  BY DEF CInv, Serve, Parsed
<1>10. Placed'
  BY DEF CInv, Serve, Placed
<1> QED
  BY <1>1, <1>2, <1>3, <1>4, <1>5, <1>6, <1>7, <1>8, <1>9, <1>10 DEF CInv

LEMMA RebootKeeps ==
  ASSUME CInv, Reboot
  PROVE  CInv'
<1>1. TypeOK'
  BY DEF CInv, Reboot, TypeOK
<1>2. Programs'
  BY DEF CInv, Reboot, Programs
<1>3. Progress'
  BY DEF CInv, Reboot, Progress
<1>4. SameFile'
  BY DEF CInv, Reboot, SameFile, HasAnswer
<1>5. Forking'
  BY DEF CInv, Reboot, Forking, Fresh, HasAnswer
<1>6. Fresh'
  BY DEF CInv, Reboot, Fresh, HasAnswer, NewCgiResponse
<1>7. Stages'
  BY DEF CInv, Reboot, Stages, HasAnswer, NewCgiResponse, Fresh
<1>8. Position'
  BY DEF CInv, Reboot, Position
<1>9. Parsed'
  BY DEF CInv, Reboot, Parsed, HasAnswer, Stages
<1>10. Placed'
  BY DEF CInv, Reboot, Placed
<1> QED
  BY <1>1, <1>2, <1>3, <1>4, <1>5, <1>6, <1>7, <1>8, <1>9, <1>10 DEF CInv

LEMMA ForkKeeps ==
  ASSUME CInv, Fork
  PROVE  CInv'
<1>1. /\ run + 1 \in 1..MaxRuns /\ proc[run + 1] = NoProcess
      /\ \A r \in 1..MaxRuns : r # run + 1 => proc'[r] = proc[r]
      /\ proc'[run + 1] = [NoProcess EXCEPT !.pc = "forked"]
      /\ out[run + 1] \in Outputs
  BY CgiAssumption DEF CInv, Fork, Programs, TypeOK
<1>2. TypeOK'
  BY <1>1 DEF CInv, Fork, TypeOK
<1>3. Programs'
  BY <1>1 DEF CInv, Fork, Programs, TypeOK, NoProcess
<1>4. Progress'
  BY <1>1 DEF CInv, Fork, Progress, TypeOK, NoProcess, Programs
<1>5. SameFile'
  BY DEF CInv, Fork, SameFile, HasAnswer
<1>6. Forking'
  BY <1>1 DEF CInv, Fork, Forking, TypeOK, Programs, HasAnswer, Fresh
<1>7. Fresh'
  BY DEF CInv, Fork, Fresh, HasAnswer, NewCgiResponse
<1>8. Stages'
  BY DEF CInv, Fork, Stages, HasAnswer, NewCgiResponse, Fresh
<1>9. Position'
  BY DEF CInv, Fork, Position
<1>10. Parsed'
  BY DEF CInv, Fork, Parsed, Fresh, HasAnswer, NewCgiResponse
<1>11. Placed'
  BY DEF CInv, Fork, Placed
<1> QED
  BY <1>2, <1>3, <1>4, <1>5, <1>6, <1>7, <1>8, <1>9, <1>10, <1>11 DEF CInv

LEMMA ServerOpensKeeps ==
  ASSUME CInv, ServerOpens
  PROVE  CInv'
<1>1. PICK ino \in 1..(Len(data) + 1) :
        OpensTruncated(ino) /\ cgi' = [cgi EXCEPT !.ino = ino, !.pos = 0]
  BY DEF ServerOpens
<1>2. /\ data' \in Seq(Seq(Lines)) /\ name' = ino /\ ino \in 1..Len(data')
      /\ Len(data) =< Len(data') /\ data'[ino] = << >> /\ (name # 0 => ino = name)
  BY <1>1, OpensIs DEF CInv
<1>3. cgi = NewCgiResponse /\ ~late /\ ~dropped /\ ~looping
  BY DEF CInv, Fresh, HasAnswer, ServerOpens, Stages
<1>4. /\ cgi'.ino = ino /\ cgi'.pos = 0 /\ cgi'.state = "CGI_RUNNING" /\ cgi'.mem = << >> /\ cgi'.read = 0
      /\ ~cgi'.status /\ ~cgi'.type /\ cgi.pos = 0 /\ cgi' \in CgiResponses
  <2>1. cgi.pos = 0 /\ cgi.state = "CGI_RUNNING" /\ cgi.mem = << >> /\ cgi.read = 0 /\ ~cgi.status /\ ~cgi.type
    BY <1>3 DEF NewCgiResponse
  <2>2. cgi \in CgiResponses /\ ino \in Nat
    BY <1>2 DEF CInv, TypeOK
  <2> DEFINE g == [cgi EXCEPT !.ino = ino, !.pos = 0]
  <2>3. /\ g.ino = ino /\ g.pos = 0 /\ g.state = cgi.state /\ g.mem = cgi.mem /\ g.read = cgi.read
        /\ g.status = cgi.status /\ g.type = cgi.type /\ g \in CgiResponses
    BY <2>2 DEF CgiResponses
  <2>4. cgi' = g
    BY <1>1
  <2> HIDE DEF g
  <2> QED
    BY <2>1, <2>3, <2>4
<1>5. run \in 1..MaxRuns /\ proc' = proc /\ (~late' => proc[run].off = 0)
  <2>1. run \in 1..MaxRuns /\ proc' = proc
    BY CgiAssumption DEF CInv, TypeOK, Forking, ServerOpens
  <2>2. proc[run].off \in Nat
    BY <2>1 DEF CInv, TypeOK
  <2>3. proc[run].off > 0 => late'
    BY DEF ServerOpens
  <2> QED
    BY <2>1, <2>2, <2>3
<1>6. TypeOK'
  BY SMTT(40), <1>1, <1>2, <1>3, <1>4, <1>5 DEF CInv, ServerOpens, TypeOK, NewCgiResponse
<1>7. Programs'
  BY <1>1, <1>2, <1>3, <1>4, <1>5 DEF CInv, ServerOpens, Programs
<1>8. Progress'
  BY <1>1, <1>2, <1>3, <1>4, <1>5 DEF CInv, ServerOpens, Progress
<1>9. SameFile'
  <2>1. HasAnswer' /\ run' = run /\ pid' = pid /\ out' = out /\ request' = request
    BY DEF ServerOpens, HasAnswer
  <2>2. run > 0 /\ pid /\ (proc[run].pc \in {"writing", "exited"} => proc[run].ino = name /\ name # 0 /\ request)
    BY DEF CInv, Forking, ServerOpens
  <2>3. proc[run].pc # "reaped"
    BY DEF CInv, Forking, ServerOpens
  <2>4. Len(data'[ino]) = 0
    BY <1>2, EmptySeq
  <2> QED
    BY SMTT(40), <1>2, <1>4, <1>5, <2>1, <2>2, <2>3, <2>4 DEF SameFile
<1>10. Forking'
  BY <1>1, <1>2, <1>3, <1>4, <1>5 DEF CInv, ServerOpens, Forking, Fresh, HasAnswer
<1>11. Fresh'
  BY <1>1, <1>2, <1>3, <1>4, <1>5 DEF CInv, ServerOpens, Fresh, HasAnswer, NewCgiResponse
<1>12. Stages'
  BY <1>1, <1>2, <1>3, <1>4, <1>5 DEF CInv, ServerOpens, Stages, HasAnswer, Forking, NewCgiResponse
<1>13. Position'
  BY <1>1, <1>2, <1>3, <1>4, <1>5 DEF CInv, ServerOpens, Position, NewCgiResponse
<1>14. Parsed'
  BY <1>1, <1>2, <1>3, <1>4, <1>5 DEF CInv, ServerOpens, Parsed, NewCgiResponse
<1>15. Placed'
  BY <1>1, <1>2, <1>3, <1>4, <1>5 DEF CInv, ServerOpens, Placed, NewCgiResponse
<1> QED
  BY <1>6, <1>7, <1>8, <1>9, <1>10, <1>11, <1>12, <1>13, <1>14, <1>15 DEF CInv

LEMMA ProgramOpensKeeps ==
  ASSUME CInv, NEW r \in 1..MaxRuns, ProgramOpens(r)
  PROVE  CInv'
<1>1. r = run /\ phase \in {"forking", "waiting"} /\ run \in 1..MaxRuns /\ cgi.state = "CGI_RUNNING"
  BY DEF CInv, Programs, Stages, HasAnswer, Fresh, NewCgiResponse, ProgramOpens
<1>2. PICK ino \in 1..(Len(data) + 1) :
        OpensTruncated(ino) /\ proc' = [proc EXCEPT ![r].pc = "writing", ![r].ino = ino]
  BY DEF ProgramOpens
<1>3. /\ data' \in Seq(Seq(Lines)) /\ name' = ino /\ ino \in 1..Len(data')
      /\ Len(data) =< Len(data') /\ data'[ino] = << >> /\ (name # 0 => ino = name)
      /\ \A i \in 1..Len(data) : i # ino => data'[i] = data[i]
  BY <1>2, OpensIs DEF CInv
<1>4. /\ \A q \in 1..MaxRuns : q # r => proc'[q] = proc[q]
      /\ proc'[r] = [proc[r] EXCEPT !.pc = "writing", !.ino = ino]
      /\ proc'[r].pc = "writing" /\ proc'[r].ino = ino /\ proc'[r].off = proc[r].off
      /\ proc'[r] \in [pc : {"writing"}, ino : {ino}, off : Nat]
  <2> DEFINE g == [proc[r] EXCEPT !.pc = "writing", !.ino = ino]
  <2>1. proc' = [proc EXCEPT ![r] = g] /\ \A q \in 1..MaxRuns : q # r => proc'[q] = proc[q]
    BY <1>2 DEF CInv, TypeOK
  <2>2. proc[r] \in [pc : {"none", "forked", "writing", "failed", "exited", "reaped"}, ino : 0..Len(data), off : Nat]
    BY DEF CInv, TypeOK
  <2>3. g.pc = "writing" /\ g.ino = ino /\ g.off = proc[r].off /\ g \in [pc : {"writing"}, ino : {ino}, off : Nat]
    BY <2>2
  <2> HIDE DEF g
  <2>4. proc'[r] = g
    BY <2>1 DEF CInv, TypeOK
  <2> QED
    BY <2>1, <2>3, <2>4 DEF g
<1>5. cgi.pos = 0 /\ run > 0
  BY <1>1 DEF CInv, Stages, NewCgiResponse
<1>6. TypeOK'
  <2>1. proc' \in [1..MaxRuns -> [pc : {"none", "forked", "writing", "failed", "exited", "reaped"},
                                ino : 0..Len(data'), off : Nat]]
    <3>1. proc \in [1..MaxRuns -> [pc : {"none", "forked", "writing", "failed", "exited", "reaped"},
                                  ino : 0..Len(data), off : Nat]] /\ Len(data) \in Nat
      BY LenProperties DEF CInv, TypeOK
    <3>2. ASSUME NEW q \in 1..MaxRuns PROVE proc'[q] \in [pc : {"none", "forked", "writing", "failed", "exited", "reaped"},
                                           ino : 0..Len(data'), off : Nat]
      <4>1. Len(data') \in Nat
        BY <1>3, LenProperties
      <4>2. CASE q = r
        <5>1. ino \in 0..Len(data')
          BY <1>3, <4>1
        <5> QED
          BY <1>4, <4>2, <5>1
      <4>3. CASE q # r
        BY SMTT(40), <1>3, <1>4, <3>1, <4>1, <4>3
      <4> QED
        BY <4>2, <4>3
    <3> QED
      BY <1>2, <3>1, <3>2
  <2>2. cgi' = cgi /\ (cgi.ino # 0 => cgi.pos =< Len(data'[cgi.ino]))
    <3>1. cgi.ino # 0 => data'[cgi.ino] \in Seq(Lines)
      BY SMTT(40), <1>1, <1>3, ElementOfSeq DEF CInv, SameFile, HasAnswer, Fresh, NewCgiResponse
    <3> QED
      BY <1>5, <3>1, LenProperties DEF ProgramOpens
  <2>3. name' \in 0..Len(data')
    BY <1>3
  <2> QED
    BY <1>3, <2>1, <2>2, <2>3 DEF CInv, TypeOK, ProgramOpens
<1>7. Programs'
  BY <1>1, <1>2, <1>3, <1>4 DEF CInv, ProgramOpens, Programs, TypeOK
<1>8. Progress'
  BY <1>1, <1>2, <1>3, <1>4 DEF CInv, ProgramOpens, Progress, TypeOK, Programs
<1>9. SameFile'
  <2>1. CASE phase = "waiting"
    <3>1. name = cgi.ino /\ cgi.ino \in 1..Len(data) /\ pid /\ proc[r].off = 0
      BY <1>1, <1>5, <2>1 DEF CInv, SameFile, HasAnswer, Progress, ProgramOpens
    <3>2. ino = cgi.ino /\ Len(data'[ino]) = 0
      BY <1>3, <3>1, EmptySeq
    <3>3. run' = run /\ pid' = pid /\ request' = TRUE /\ cgi' = cgi /\ out' = out
      BY DEF ProgramOpens
    <3>4. /\ proc'[run'].pc = "writing" /\ proc'[run'].off = 0 /\ proc'[run'].ino = cgi'.ino /\ name' = cgi'.ino
          /\ cgi'.ino \in 1..Len(data') /\ Len(data'[cgi'.ino]) = 0 /\ run' > 0 /\ pid' /\ request'
      BY <1>1, <1>3, <1>4, <1>5, <3>1, <3>2, <3>3
    <3> QED
      BY <3>4 DEF SameFile
  <2>2. CASE phase = "forking"
    BY <2>2 DEF SameFile, HasAnswer, ProgramOpens
  <2> QED
    BY <1>1, <2>1, <2>2
<1>10. Forking'
  BY <1>1, <1>2, <1>3, <1>4 DEF CInv, ProgramOpens, Forking, TypeOK, Programs
<1>11. Fresh'
  BY <1>1, <1>2, <1>3, <1>4 DEF CInv, ProgramOpens, Fresh, HasAnswer
<1>12. Stages'
  BY <1>1, <1>2, <1>3, <1>4 DEF CInv, ProgramOpens, Stages, TypeOK, HasAnswer, Programs
<1>13. Position'
  BY <1>1, <1>2, <1>3, <1>4 DEF CInv, ProgramOpens, Position
<1>14. Parsed'
  BY <1>1, <1>2, <1>3, <1>4 DEF CInv, ProgramOpens, Parsed, Stages, HasAnswer
<1>15. Placed'
  BY <1>1, <1>2, <1>3, <1>4 DEF CInv, ProgramOpens, Placed
<1> QED
  BY <1>6, <1>7, <1>8, <1>9, <1>10, <1>11, <1>12, <1>13, <1>14, <1>15 DEF CInv

LEMMA OpenFailsKeeps ==
  ASSUME CInv, NEW r \in 1..MaxRuns, ProgramOpenFails(r)
  PROVE  CInv'
<1>1. r = run /\ phase \in {"forking", "waiting"} /\ run \in 1..MaxRuns /\ cgi.state = "CGI_RUNNING"
  BY DEF CInv, Programs, Stages, HasAnswer, Fresh, NewCgiResponse, ProgramOpenFails
<1>2. /\ \A q \in 1..MaxRuns : q # r => proc'[q] = proc[q]
      /\ proc'[r] = [proc[r] EXCEPT !.pc = "failed"]
      /\ proc'[r].pc = "failed" /\ proc'[r].ino = proc[r].ino /\ proc'[r].off = proc[r].off
  BY DEF CInv, TypeOK, ProgramOpenFails
<1>3. TypeOK'
  <2>1. proc' \in [1..MaxRuns -> [pc : {"none", "forked", "writing", "failed", "exited", "reaped"},
                                ino : 0..Len(data), off : Nat]]
    BY DEF CInv, TypeOK, ProgramOpenFails
  <2>2. name' \in 0..Len(data)
    BY LenProperties DEF CInv, TypeOK, ProgramOpenFails
  <2> QED
    BY <2>1, <2>2 DEF CInv, TypeOK, ProgramOpenFails
<1>4. Programs'
  BY <1>1, <1>2 DEF CInv, ProgramOpenFails, Programs, TypeOK
<1>5. Progress'
  BY <1>1, <1>2 DEF CInv, ProgramOpenFails, Progress, TypeOK, Programs
<1>6. SameFile'
  BY <1>1, <1>2 DEF CInv, ProgramOpenFails, SameFile, TypeOK, HasAnswer, Programs, Progress, Stages
<1>7. Forking'
  BY <1>1, <1>2 DEF CInv, ProgramOpenFails, Forking, TypeOK, Programs
<1>8. Fresh'
  BY <1>1, <1>2 DEF CInv, ProgramOpenFails, Fresh, HasAnswer
<1>9. Stages'
  BY <1>1, <1>2 DEF CInv, ProgramOpenFails, Stages, TypeOK, HasAnswer, Programs
<1>10. Position'
  BY <1>1, <1>2 DEF CInv, ProgramOpenFails, Position
<1>11. Parsed'
  BY <1>1, <1>2 DEF CInv, ProgramOpenFails, Parsed, Stages, HasAnswer
<1>12. Placed'
  BY <1>1, <1>2 DEF CInv, ProgramOpenFails, Placed
<1> QED
  BY <1>3, <1>4, <1>5, <1>6, <1>7, <1>8, <1>9, <1>10, <1>11, <1>12 DEF CInv

LEMMA ExitsKeeps ==
  ASSUME CInv, NEW r \in 1..MaxRuns, ProgramExits(r)
  PROVE  CInv'
<1>1. TypeOK'
  BY DEF CInv, ProgramExits, TypeOK
<1>2. Programs'
  BY DEF CInv, ProgramExits, Programs
<1>3. Progress'
  BY DEF CInv, ProgramExits, Progress
<1>4. SameFile'
  BY DEF CInv, ProgramExits, SameFile, HasAnswer
<1>5. Forking'
  BY DEF CInv, ProgramExits, Forking, Fresh, HasAnswer
<1>6. Fresh'
  BY DEF CInv, ProgramExits, Fresh, HasAnswer, NewCgiResponse
<1>7. Stages'
  BY DEF CInv, ProgramExits, Stages, HasAnswer, NewCgiResponse, Fresh
<1>8. Position'
  BY DEF CInv, ProgramExits, Position
<1>9. Parsed'
  BY DEF CInv, ProgramExits, Parsed
<1>10. Placed'
  BY DEF CInv, ProgramExits, Placed
<1> QED
  BY <1>1, <1>2, <1>3, <1>4, <1>5, <1>6, <1>7, <1>8, <1>9, <1>10 DEF CInv

LEMMA WritesKeeps ==
  ASSUME CInv, NEW r \in 1..MaxRuns, ProgramWrites(r)
  PROVE  CInv'
<1>1. r = run /\ phase \in {"forking", "waiting"} /\ run \in 1..MaxRuns /\ cgi.state = "CGI_RUNNING"
  BY DEF CInv, Programs, Stages, HasAnswer, Fresh, NewCgiResponse, ProgramWrites
<1>2. /\ proc[r].pc = "writing" /\ proc[r].off \in Nat /\ proc[r].off < Len(out[r]) /\ Len(out[r]) \in Nat
      /\ out[r] \in Seq(Lines) /\ proc[r].ino \in 1..Len(data) /\ data \in Seq(Seq(Lines))
      /\ Len(data) \in Nat /\ cgi.pos = 0
  <2>1. out[r] \in Seq(Lines \ {"hole"})
    BY OutputAssumption DEF CInv, TypeOK
  <2>2. out[r] \in Seq(Lines)
    BY <2>1, SeqMonotonic
  <2>3. proc[r].ino \in 1..Len(data)
    BY <1>1, LenProperties DEF CInv, TypeOK, SameFile, Forking, HasAnswer, ProgramWrites
  <2> QED
    BY <1>1, <2>2, <2>3, LenProperties DEF CInv, TypeOK, Stages, ProgramWrites
<1>3. /\ \A q \in 1..MaxRuns : q # r => proc'[q] = proc[q]
      /\ proc'[r] = [proc[r] EXCEPT !.off = @ + 1]
      /\ proc'[r].pc = "writing" /\ proc'[r].ino = proc[r].ino /\ proc'[r].off = proc[r].off + 1
  BY <1>2 DEF CInv, TypeOK, ProgramWrites
<1>4. /\ data' \in Seq(Seq(Lines)) /\ Len(data') = Len(data) /\ Len(data'[proc[r].ino]) = proc[r].off + 1
      /\ \A i \in 1..Len(data) : i # proc[r].ino => data'[i] = data[i]
      /\ data'[proc[r].ino][proc[r].off + 1] = out[r][proc[r].off + 1]
      /\ \A i \in 1..proc[r].off :
           i =< Len(data[proc[r].ino]) => data'[proc[r].ino][i] = data[proc[r].ino][i]
  <2> DEFINE line == out[r][proc[r].off + 1]
             w == Written(data[proc[r].ino], proc[r].off, line)
  <2>1. line \in Lines /\ data[proc[r].ino] \in Seq(Lines)
    BY SMTT(40), <1>2, ElementOfSeq
  <2> DEFINE off == proc[r].off
             s == data[proc[r].ino]
  <2>0. w = Written(s, off, line) /\ off \in Nat /\ s \in Seq(Lines)
    BY <1>2, <2>1
  <2> HIDE DEF line, w, off, s
  <2>6. /\ w \in Seq(Lines) /\ Len(w) = off + 1 /\ w[off + 1] = line
        /\ \A i \in 1..off : i =< Len(s) => w[i] = s[i]
    BY <2>0, <2>1, WrittenIs
  <2>2. /\ w \in Seq(Lines) /\ Len(w) = proc[r].off + 1 /\ w[proc[r].off + 1] = line
        /\ \A i \in 1..proc[r].off : i =< Len(data[proc[r].ino]) => w[i] = data[proc[r].ino][i]
    BY <2>6 DEF off, s
  <2>3. data' = [data EXCEPT ![proc[r].ino] = w]
    BY DEF ProgramWrites, w, line
  <2>4. /\ data' \in Seq(Seq(Lines)) /\ Len(data') = Len(data) /\ data'[proc[r].ino] = w
        /\ \A i \in 1..Len(data) : i # proc[r].ino => data'[i] = data[i]
    BY <1>2, <2>2, <2>3, ExceptSeq
  <2> QED
    BY <2>2, <2>4 DEF line
<1>5. TypeOK'
  <2>1. proc' \in [1..MaxRuns -> [pc : {"none", "forked", "writing", "failed", "exited", "reaped"},
                                ino : 0..Len(data), off : Nat]]
    <3>1. \A q \in 1..MaxRuns : proc[q] \in [pc : {"none", "forked", "writing", "failed", "exited", "reaped"},
                                          ino : 0..Len(data), off : Nat]
      BY DEF CInv, TypeOK
    <3>2. \A q \in 1..MaxRuns : proc'[q] \in [pc : {"none", "forked", "writing", "failed", "exited", "reaped"},
                                           ino : 0..Len(data), off : Nat]
      <4>1. ASSUME NEW f \in [pc : {"none", "forked", "writing", "failed", "exited", "reaped"},
                               ino : 0..Len(data), off : Nat]
            PROVE  [f EXCEPT !.off = @ + 1] \in [pc : {"none", "forked", "writing", "failed", "exited", "reaped"},
                                                  ino : 0..Len(data), off : Nat]
        OBVIOUS
      <4> QED
        BY <1>3, <3>1, <4>1
    <3>3. proc' = [q \in 1..MaxRuns |-> proc'[q]]
      BY DEF CInv, TypeOK, ProgramWrites
    <3> QED
      BY <3>2, <3>3
  <2>2. cgi' = cgi /\ name' = name /\ (cgi.ino # 0 => cgi.pos =< Len(data'[cgi.ino]))
    <3>1. cgi.ino # 0 => data'[cgi.ino] \in Seq(Lines)
      BY <1>1, <1>4, ElementOfSeq DEF CInv, SameFile, HasAnswer, Fresh, NewCgiResponse
    <3> QED
      BY <1>2, <3>1, LenProperties DEF ProgramWrites
  <2> QED
    BY <1>4, <2>1, <2>2 DEF CInv, TypeOK, ProgramWrites
<1>6. Programs'
  BY <1>1, <1>2, <1>3, <1>4 DEF CInv, ProgramWrites, Programs, TypeOK
<1>7. Progress'
  BY <1>1, <1>2, <1>3, <1>4 DEF CInv, ProgramWrites, Progress, TypeOK, Programs
<1>8. SameFile'
  <2>1. CASE phase = "waiting"
    <3>1. /\ cgi.ino = proc[r].ino /\ pid /\ name = cgi.ino /\ request /\ run > 0
          /\ ~late => Len(data[cgi.ino]) = proc[r].off /\ \A i \in 1..proc[r].off : data[cgi.ino][i] = out[r][i]
      BY <1>1, <1>2, <2>1 DEF CInv, SameFile, HasAnswer
    <3>2. run' = run /\ pid' = pid /\ request' = request /\ cgi' = cgi /\ out' = out /\ late' = late /\ name' = name
      BY DEF ProgramWrites
    <3>3. ~late => \A i \in 1..(proc[r].off + 1) : data'[cgi.ino][i] = out[r][i]
      <4>1. ASSUME ~late, NEW i \in 1..(proc[r].off + 1) PROVE data'[cgi.ino][i] = out[r][i]
        <5>1. CASE i = proc[r].off + 1
          BY <1>4, <3>1, <5>1
        <5>2. CASE i # proc[r].off + 1
          <6>1. i \in 1..proc[r].off /\ i =< Len(data[proc[r].ino])
            <7>1. i \in 1..proc[r].off
              <8> DEFINE n == proc[r].off
              <8>1. n \in Nat /\ i \in 1..(n + 1) /\ i # n + 1
                BY <1>2, <5>2
              <8> HIDE DEF n
              <8>2. i \in 1..n
                BY <8>1
              <8> QED
                BY <8>2 DEF n
            <7>2. Len(data[proc[r].ino]) = proc[r].off
              BY <3>1, <4>1
            <7> QED
              BY <1>2, <7>1, <7>2
          <6> QED
            BY <1>2, <1>4, <3>1, <4>1, <6>1
        <5> QED
          BY <5>1, <5>2
      <4> QED
        BY <4>1
    <3>4. /\ proc'[run'].pc = "writing" /\ proc'[run'].off = proc[r].off + 1 /\ proc'[run'].ino = cgi'.ino
          /\ name' = cgi'.ino /\ cgi'.ino \in 1..Len(data') /\ Len(data'[cgi'.ino]) = proc[r].off + 1
      BY <1>1, <1>2, <1>3, <1>4, <3>1, <3>2
    <3> QED
      BY <1>1, <3>1, <3>2, <3>3, <3>4 DEF SameFile
  <2>2. CASE phase = "forking"
    BY <2>2 DEF SameFile, HasAnswer, ProgramWrites
  <2> QED
    BY <1>1, <2>1, <2>2
<1>9. Forking'
  BY <1>1, <1>2, <1>3, <1>4 DEF CInv, ProgramWrites, Forking, TypeOK, Programs
<1>10. Fresh'
  BY <1>1, <1>2, <1>3, <1>4 DEF CInv, ProgramWrites, Fresh, HasAnswer
<1>11. Stages'
  BY <1>1, <1>2, <1>3, <1>4 DEF CInv, ProgramWrites, Stages, TypeOK, HasAnswer, Programs
<1>12. Position'
  BY <1>1, <1>2, <1>3, <1>4 DEF CInv, ProgramWrites, Position
<1>13. Parsed'
  BY <1>1, <1>2, <1>3, <1>4 DEF CInv, ProgramWrites, Parsed, Stages, HasAnswer
<1>14. Placed'
  BY <1>1, <1>2, <1>3, <1>4 DEF CInv, ProgramWrites, Placed
<1> QED
  BY <1>5, <1>6, <1>7, <1>8, <1>9, <1>10, <1>11, <1>12, <1>13, <1>14 DEF CInv

LEMMA OutputIs ==
  ASSUME CInv, run > 0
  PROVE  /\ run \in 1..MaxRuns /\ out[run] \in Seq(Lines) /\ Len(out[run]) \in Nat
         /\ \A i \in 1..Len(out[run]) : out[run][i] # "hole" /\ (out[run][i] = "part" => i = Len(out[run]))
<1>1. run \in 1..MaxRuns
  BY CgiAssumption DEF CInv, TypeOK
<1>2. out[run] \in Outputs
  BY <1>1 DEF CInv, TypeOK
<1>3. out[run] \in Seq(Lines \ {"hole"}) /\ \A i \in 1..Len(out[run]) : out[run][i] = "part" => i = Len(out[run])
  BY <1>2, OutputAssumption
<1>4. \A i \in 1..Len(out[run]) : out[run][i] # "hole"
  BY <1>3, ElementOfSeq
<1>5. out[run] \in Seq(Lines)
  BY <1>3, SeqMonotonic
<1> QED
  BY <1>1, <1>3, <1>4, <1>5, LenProperties

LEMMA StartParseKeeps ==
  ASSUME CInv, StartParse
  PROVE  CInv'
<1>1. /\ phase = "waiting" /\ ~looping /\ phase' = "parsing" /\ run \in 1..MaxRuns /\ pid
      /\ cgi.ino \in 1..Len(data) /\ cgi.pos < Len(data[cgi.ino]) /\ data[cgi.ino] # << >>
  <2>1. /\ phase = "waiting" /\ ~looping /\ phase' = "parsing" /\ run \in 1..MaxRuns /\ pid
        /\ cgi.ino \in 1..Len(data) /\ cgi.pos < Len(data[cgi.ino]) /\ cgi.pos \in Nat
    BY CgiAssumption DEF CInv, TypeOK, CgiResponses, SameFile, HasAnswer, StartParse, Readable
  <2> QED
    BY <2>1, EmptySeq
<1>2. /\ cgi' = [cgi EXCEPT !.state = "CGI_PARSING_HEADER"] /\ cgi'.state = "CGI_PARSING_HEADER"
      /\ cgi'.ino = cgi.ino /\ cgi'.pos = cgi.pos /\ cgi'.mem = cgi.mem /\ cgi'.read = cgi.read
      /\ cgi'.status = cgi.status /\ cgi'.type = cgi.type
  BY DEF CInv, TypeOK, CgiResponses, StartParse
<1>3. /\ proc[run].pc \in {"exited", "reaped"} /\ proc'[run].pc = "reaped"
      /\ proc'[run].ino = proc[run].ino /\ proc'[run].off = proc[run].off
      /\ \A r \in 1..MaxRuns : r # run => proc'[r] = proc[r]
      /\ cgi.state = "CGI_RUNNING" \/ (cgi.state = "CGI_PARSING_HEADER" /\ proc' = proc)
  <2>1. CASE cgi.state = "CGI_RUNNING" /\ Exited(run) /\ Reaped
    BY <1>1, <2>1 DEF CInv, TypeOK, SameFile, HasAnswer, Exited, Reaped
  <2>2. CASE cgi.state = "CGI_PARSING_HEADER" /\ UNCHANGED proc
    BY <1>1, <2>2 DEF CInv, Stages, HasAnswer
  <2> QED
    BY <2>1, <2>2 DEF StartParse
<1>4. TypeOK'
  <2>1. cgi' \in CgiResponses
    BY <1>2 DEF CInv, TypeOK, CgiResponses
  <2>2. proc' \in [1..MaxRuns -> [pc : {"none", "forked", "writing", "failed", "exited", "reaped"},
                                ino : 0..Len(data), off : Nat]]
    <3>1. \A q \in 1..MaxRuns : proc[q] \in [pc : {"none", "forked", "writing", "failed", "exited", "reaped"},
                                          ino : 0..Len(data), off : Nat]
      BY DEF CInv, TypeOK
    <3>2. CASE Reaped
      <4>1. proc' = [proc EXCEPT ![run] = [proc[run] EXCEPT !.pc = IF @ \in {"exited", "failed"} THEN "reaped" ELSE @]]
        BY <3>2 DEF Reaped
      <4>2. proc'[run] \in [pc : {"none", "forked", "writing", "failed", "exited", "reaped"},
                            ino : 0..Len(data), off : Nat]
        BY <1>1, <3>1, <4>1
      <4> QED
        BY <1>1, <3>1, <4>1, <4>2 DEF CInv, TypeOK
    <3>3. CASE UNCHANGED proc
      BY <3>3 DEF CInv, TypeOK
    <3> QED
      BY <3>2, <3>3 DEF StartParse
  <2> QED
    BY <1>1, <1>2, <2>1, <2>2 DEF CInv, TypeOK, StartParse
<1>5. Programs'
  BY <1>1, <1>2, <1>3 DEF CInv, StartParse, Programs
<1>6. Progress'
  BY <1>1, <1>2, <1>3 DEF CInv, StartParse, Progress
<1>7. SameFile'
  BY <1>1, <1>2, <1>3 DEF CInv, StartParse, SameFile, HasAnswer
<1>8. Forking'
  BY <1>1, <1>2, <1>3 DEF CInv, StartParse, Forking, Fresh, HasAnswer
<1>9. Fresh'
  BY <1>1, <1>2, <1>3 DEF CInv, StartParse, Fresh, HasAnswer, NewCgiResponse
<1>10. Stages'
  BY <1>1, <1>2, <1>3 DEF CInv, StartParse, Stages, HasAnswer
<1>11. Position'
  BY <1>2, <1>3, EmptySeq DEF CInv, Position, Stages
<1>12. Parsed'
  <2>1. run' = run /\ out' = out /\ late' = late
    BY DEF StartParse
  <2>2. CASE cgi.state = "CGI_RUNNING"
    <3>1. cgi.mem = << >> /\ cgi.read = 0 /\ ~cgi.status /\ ~cgi.type
      BY <2>2 DEF CInv, Stages
    <3>2. Len(cgi.mem) = 0 /\ Len(out[run]) \in Nat
      BY <1>1, <3>1, EmptySeq, OutputIs
    <3> QED
      BY <1>1, <1>2, <2>1, <3>1, <3>2 DEF Parsed, EndsHeader
  <2>3. CASE cgi.state = "CGI_PARSING_HEADER"
    BY <1>1, <1>2, <2>1, <2>3 DEF CInv, Parsed
  <2> QED
    BY <1>3, <2>2, <2>3
<1>13. Placed'
  BY <1>1, <1>2, <1>3 DEF CInv, StartParse, Placed
<1> QED
  BY <1>4, <1>5, <1>6, <1>7, <1>8, <1>9, <1>10, <1>11, <1>12, <1>13 DEF CInv

LEMMA ParseFailsKeeps ==
  ASSUME CInv, ParseFails
  PROVE  CInv'
<1>1. /\ phase' = "idle" /\ pid' = FALSE /\ cgi' = NewCgiResponse /\ late' = FALSE /\ dropped' = FALSE /\ looping' = looping
      /\ ~looping
  BY DEF CInv, Stages, Forgotten, ParseFails
<1>2. /\ NewCgiResponse \in CgiResponses /\ Len(NewCgiResponse.mem) = 0 /\ NewCgiResponse.read = 0
      /\ NewCgiResponse.ino = 0 /\ Len(data) \in Nat
  BY EmptySeq, LenProperties DEF NewCgiResponse, CgiResponses, CInv, TypeOK
<1>3. TypeOK'
  <2>1. /\ run' = run /\ out' = out /\ proc' = proc /\ data' = data
        /\ name' \in {0, name} /\ request' \in BOOLEAN
    BY DEF CInv, TypeOK, ParseFails
  <2>2. cgi' \in CgiResponses /\ cgi'.read =< Len(cgi'.mem) /\ cgi'.ino = 0
    BY <1>1, <1>2
  <2>3. {pid', request', late', dropped', looping'} \subseteq BOOLEAN
    <3>1. looping' \in BOOLEAN
      BY <1>1 DEF CInv, TypeOK
    <3> QED
      BY <1>1, <2>1, <3>1
  <2>4. name' \in 0..Len(data')
    BY <1>2, <2>1 DEF CInv, TypeOK
  <2> QED
    BY <1>1, <1>2, <2>1, <2>2, <2>3, <2>4 DEF CInv, TypeOK
<1>4. Programs'
  BY <1>1 DEF CInv, ParseFails, Programs
<1>5. Progress'
  BY <1>1 DEF CInv, ParseFails, Progress
<1>6. SameFile'
  BY <1>1 DEF SameFile, HasAnswer
<1>7. Forking'
  BY <1>1 DEF Forking
<1>8. Fresh'
  BY <1>1 DEF Fresh, HasAnswer
<1>9. Stages'
  BY <1>1 DEF Stages, HasAnswer, NewCgiResponse
<1>10. Position'
  BY <1>1 DEF Position, NewCgiResponse
<1>11. Parsed'
  BY <1>1 DEF Parsed, NewCgiResponse
<1>12. Placed'
  BY <1>1 DEF Placed, NewCgiResponse
<1> QED
  BY <1>3, <1>4, <1>5, <1>6, <1>7, <1>8, <1>9, <1>10, <1>11, <1>12 DEF CInv

LEMMA KeepAliveKeeps ==
  ASSUME CInv, KeepAlive
  PROVE  CInv'
<1>1. /\ phase' = "idle" /\ pid' = FALSE /\ cgi' = NewCgiResponse /\ late' = FALSE /\ dropped' = FALSE /\ looping' = looping
      /\ ~looping
  BY DEF CInv, Stages, Forgotten, KeepAlive
<1>2. /\ NewCgiResponse \in CgiResponses /\ Len(NewCgiResponse.mem) = 0 /\ NewCgiResponse.read = 0
      /\ NewCgiResponse.ino = 0 /\ Len(data) \in Nat
  BY EmptySeq, LenProperties DEF NewCgiResponse, CgiResponses, CInv, TypeOK
<1>3. TypeOK'
  <2>1. /\ run' = run /\ out' = out /\ proc' = proc /\ data' = data
        /\ name' \in {0, name} /\ request' \in BOOLEAN
    BY DEF CInv, TypeOK, KeepAlive
  <2>2. cgi' \in CgiResponses /\ cgi'.read =< Len(cgi'.mem) /\ cgi'.ino = 0
    BY <1>1, <1>2
  <2>3. {pid', request', late', dropped', looping'} \subseteq BOOLEAN
    <3>1. looping' \in BOOLEAN
      BY <1>1 DEF CInv, TypeOK
    <3> QED
      BY <1>1, <2>1, <3>1
  <2>4. name' \in 0..Len(data')
    BY <1>2, <2>1 DEF CInv, TypeOK
  <2> QED
    BY <1>1, <1>2, <2>1, <2>2, <2>3, <2>4 DEF CInv, TypeOK
<1>4. Programs'
  BY <1>1 DEF CInv, KeepAlive, Programs
<1>5. Progress'
  BY <1>1 DEF CInv, KeepAlive, Progress
<1>6. SameFile'
  BY <1>1 DEF SameFile, HasAnswer
<1>7. Forking'
  BY <1>1 DEF Forking
<1>8. Fresh'
  BY <1>1 DEF Fresh, HasAnswer
<1>9. Stages'
  BY <1>1 DEF Stages, HasAnswer, NewCgiResponse
<1>10. Position'
  BY <1>1 DEF Position, NewCgiResponse
<1>11. Parsed'
  BY <1>1 DEF Parsed, NewCgiResponse
<1>12. Placed'
  BY <1>1 DEF Placed, NewCgiResponse
<1> QED
  BY <1>3, <1>4, <1>5, <1>6, <1>7, <1>8, <1>9, <1>10, <1>11, <1>12 DEF CInv

LEMMA CloseKeeps ==
  ASSUME CInv, CloseAndAccept
  PROVE  CInv'
<1>1. /\ phase' = "idle" /\ pid' = FALSE /\ cgi' = NewCgiResponse /\ late' = FALSE /\ dropped' = FALSE /\ looping' = looping
      /\ ~looping
  BY DEF CInv, Stages, Forgotten, CloseAndAccept
<1>2. /\ NewCgiResponse \in CgiResponses /\ Len(NewCgiResponse.mem) = 0 /\ NewCgiResponse.read = 0
      /\ NewCgiResponse.ino = 0 /\ Len(data) \in Nat
  BY EmptySeq, LenProperties DEF NewCgiResponse, CgiResponses, CInv, TypeOK
<1>3. TypeOK'
  <2>1. /\ run' = run /\ out' = out /\ proc' = proc /\ data' = data
        /\ name' \in {0, name} /\ request' \in BOOLEAN
    BY DEF CInv, TypeOK, CloseAndAccept
  <2>2. cgi' \in CgiResponses /\ cgi'.read =< Len(cgi'.mem) /\ cgi'.ino = 0
    BY <1>1, <1>2
  <2>3. {pid', request', late', dropped', looping'} \subseteq BOOLEAN
    <3>1. looping' \in BOOLEAN
      BY <1>1 DEF CInv, TypeOK
    <3> QED
      BY <1>1, <2>1, <3>1
  <2>4. name' \in 0..Len(data')
    BY <1>2, <2>1 DEF CInv, TypeOK
  <2> QED
    BY <1>1, <1>2, <2>1, <2>2, <2>3, <2>4 DEF CInv, TypeOK
<1>4. Programs'
  BY <1>1 DEF CInv, CloseAndAccept, Programs
<1>5. Progress'
  BY <1>1 DEF CInv, CloseAndAccept, Progress
<1>6. SameFile'
  BY <1>1 DEF SameFile, HasAnswer
<1>7. Forking'
  BY <1>1 DEF Forking
<1>8. Fresh'
  BY <1>1 DEF Fresh, HasAnswer
<1>9. Stages'
  BY <1>1 DEF Stages, HasAnswer, NewCgiResponse
<1>10. Position'
  BY <1>1 DEF Position, NewCgiResponse
<1>11. Parsed'
  BY <1>1 DEF Parsed, NewCgiResponse
<1>12. Placed'
  BY <1>1 DEF Placed, NewCgiResponse
<1> QED
  BY <1>3, <1>4, <1>5, <1>6, <1>7, <1>8, <1>9, <1>10, <1>11, <1>12 DEF CInv

LEMMA RewindIs ==
  ASSUME NEW c \in CgiResponses, c.read =< Len(c.mem), c.pos =< Len(c.mem), Rewind(c)
  PROVE  \/ Rewound(c) < 0 /\ cgi' = c /\ looping' = TRUE /\ phase' = "waiting"
         \/ /\ Rewound(c) >= 0 /\ cgi' \in CgiResponses /\ cgi'.state = "CGI_PARSING_DONE"
            /\ cgi'.pos = Rewound(c) /\ cgi'.pos =< c.pos
            /\ cgi'.ino = c.ino /\ cgi'.mem = c.mem /\ cgi'.read = c.read
            /\ cgi'.status = c.status /\ cgi'.type = c.type
            /\ phase' = "parsed" /\ looping' = looping
<1>1. c.pos \in Nat /\ c.read \in Nat /\ Len(c.mem) \in Nat
  BY LenProperties DEF CgiResponses
<1>2. CASE Rewound(c) < 0
  BY <1>2 DEF Rewind
<1>3. CASE ~(Rewound(c) < 0)
  <2> DEFINE p == Rewound(c)
             g == [c EXCEPT !.state = "CGI_PARSING_DONE", !.pos = p]
  <2>1. p \in Nat /\ p >= 0 /\ p =< c.pos
    BY <1>1, <1>3 DEF Rewound
  <2>2. cgi' = g /\ phase' = "parsed" /\ looping' = looping
    BY <1>3 DEF Rewind
  <2> HIDE DEF p
  <2>3. /\ g.state = "CGI_PARSING_DONE" /\ g.pos = p /\ g.ino = c.ino /\ g.mem = c.mem /\ g.read = c.read
        /\ g.status = c.status /\ g.type = c.type /\ g \in CgiResponses
    BY <2>1 DEF CgiResponses
  <2> HIDE DEF g
  <2> QED
    BY <2>1, <2>2, <2>3 DEF p
<1> QED
  BY <1>2, <1>3

LEMMA ParseAgainKeeps ==
  ASSUME CInv, ParseAgain
  PROVE  CInv'
<1>1. /\ phase = "waiting" /\ cgi.state = "CGI_PARSING_DONE" /\ ~looping /\ cgi.ino \in 1..Len(data)
      /\ cgi \in CgiResponses /\ cgi.read =< Len(cgi.mem) /\ Rewind(cgi) /\ dropped
      /\ cgi.pos =< cgi.read /\ (cgi.read = Len(cgi.mem) => cgi.pos = cgi.read)
      /\ proc[run].pc = "reaped" /\ cgi.pos =< Len(data[cgi.ino]) /\ pid
  BY DEF CInv, TypeOK, SameFile, HasAnswer, Stages, Placed, Readable, ParseAgain
<1>2. cgi.pos \in Nat /\ cgi.read \in Nat /\ Len(cgi.mem) \in Nat /\ cgi.pos =< Len(cgi.mem) /\ Len(data[cgi.ino]) \in Nat
  <2>1. data[cgi.ino] \in Seq(Lines)
    BY <1>1, ElementOfSeq DEF CInv, TypeOK
  <2> QED
    BY <1>1, <2>1, LenProperties DEF CgiResponses
<1>3. /\ cgi' \in CgiResponses /\ cgi'.state = "CGI_PARSING_DONE" /\ phase' \in {"waiting", "parsed"}
      /\ cgi'.ino = cgi.ino /\ cgi'.mem = cgi.mem /\ cgi'.read = cgi.read
      /\ cgi'.status = cgi.status /\ cgi'.type = cgi.type /\ cgi'.pos =< cgi.pos
      /\ looping' \in BOOLEAN /\ (looping' => phase' = "waiting")
      /\ phase' = "waiting" => cgi' = cgi
      /\ phase' = "parsed" => cgi'.pos = cgi.pos - (Len(cgi.mem) - cgi.read)
  <2> DEFINE Back == Rewound(cgi)
  <2>1. Back = cgi.pos - (Len(cgi.mem) - cgi.read) /\ looping \in BOOLEAN
    BY DEF Rewound, CInv, TypeOK
  <2>2. \/ cgi' = cgi /\ looping' = TRUE /\ phase' = "waiting"
        \/ /\ cgi' \in CgiResponses /\ cgi'.state = "CGI_PARSING_DONE"
           /\ cgi'.pos = Back /\ cgi'.pos =< cgi.pos
           /\ cgi'.ino = cgi.ino /\ cgi'.mem = cgi.mem /\ cgi'.read = cgi.read
           /\ cgi'.status = cgi.status /\ cgi'.type = cgi.type
           /\ phase' = "parsed" /\ looping' = looping
    BY <1>1, <1>2, RewindIs
  <2> HIDE DEF Back
  <2>3. CASE phase' = "waiting"
    BY <1>1, <1>2, <2>2, <2>3
  <2>4. CASE phase' = "parsed"
    BY <1>1, <2>1, <2>2, <2>4
  <2> QED
    BY <2>2, <2>3, <2>4
<1>4. /\ run' = run /\ pid' = pid /\ proc' = proc /\ out' = out /\ request' = request /\ name' = name
      /\ data' = data /\ late' = late /\ dropped' = dropped
  BY DEF ParseAgain
<1>5. TypeOK'
  <2>1. cgi'.pos =< Len(data[cgi.ino])
    BY <1>1, <1>2, <1>3 DEF CgiResponses
  <2> QED
    BY <1>1, <1>3, <1>4, <2>1 DEF CInv, TypeOK
<1>6. Programs'
  BY <1>1, <1>3, <1>4 DEF CInv, Programs
<1>7. Progress'
  BY <1>4 DEF CInv, Progress
<1>8. SameFile'
  BY <1>1, <1>3, <1>4 DEF CInv, SameFile, HasAnswer
<1>9. Forking'
  BY <1>3 DEF Forking
<1>10. Fresh'
  BY <1>3 DEF Fresh, HasAnswer
<1>11. Stages'
  BY <1>1, <1>3, <1>4 DEF CInv, Stages, HasAnswer
<1>12. Position'
  BY <1>3 DEF Position
<1>13. Parsed'
  BY <1>1, <1>3, <1>4 DEF CInv, Parsed
<1>14. Placed'
  <2>1. CASE phase' = "waiting"
    BY <1>1, <1>3, <1>4, <2>1 DEF Placed
  <2>2. CASE phase' = "parsed"
    BY <1>1, <1>2, <1>3, <1>4, <2>2 DEF Placed
  <2> QED
    BY <1>3, <2>1, <2>2
<1> QED
  BY <1>5, <1>6, <1>7, <1>8, <1>9, <1>10, <1>11, <1>12, <1>13, <1>14 DEF CInv

\* What getLineFile looks at: the position has moved with what was read.
LEMMA FetchedIs ==
  ASSUME CInv, phase = "parsing"
  PROVE  /\ Fetched \in CgiResponses /\ Fetched.state = "CGI_PARSING_HEADER" /\ Fetched.ino = cgi.ino
         /\ Fetched.read = cgi.read /\ Fetched.status = cgi.status /\ Fetched.type = cgi.type
         /\ cgi.read =< Len(Fetched.mem) /\ Fetched.pos = Len(Fetched.mem)
         /\ Fetched.pos =< Len(data[cgi.ino])
         /\ ~late => /\ Len(Fetched.mem) =< Len(out[run])
                     /\ \A i \in 1..Len(Fetched.mem) : Fetched.mem[i] = out[run][i]
<1>1. /\ cgi \in CgiResponses /\ cgi.state = "CGI_PARSING_HEADER" /\ cgi.pos = Len(cgi.mem)
      /\ cgi.read =< Len(cgi.mem) /\ cgi.ino \in 1..Len(data) /\ cgi.pos =< Len(data[cgi.ino])
      /\ run > 0 /\ proc[run].pc = "reaped" /\ data[cgi.ino] \in Seq(Lines)
  BY ElementOfSeq DEF CInv, TypeOK, Stages, SameFile, HasAnswer, Position
<1>2. /\ run \in 1..MaxRuns /\ Len(out[run]) \in Nat /\ Len(cgi.mem) \in Nat /\ cgi.read \in Nat
      /\ Len(data[cgi.ino]) \in Nat
  BY <1>1, OutputIs, LenProperties DEF CgiResponses
<1>3. ~late => /\ Len(data[cgi.ino]) = Len(out[run])
               /\ \A i \in 1..Len(out[run]) : data[cgi.ino][i] = out[run][i]
               /\ Len(cgi.mem) =< Len(out[run]) /\ \A i \in 1..Len(cgi.mem) : cgi.mem[i] = out[run][i]
  BY <1>1, <1>2 DEF CInv, SameFile, HasAnswer, Progress, Parsed
<1>4. CASE LineEnd(cgi) # 0
  BY <1>1, <1>2, <1>3, <1>4 DEF Fetched
<1>5. CASE LineEnd(cgi) = 0
  <2> DEFINE file == data[cgi.ino]
             d == Filled(cgi, file)
  <2>1. Fetched = d
    BY <1>5 DEF Fetched
  <2>2. file \in Seq(Lines) /\ cgi.pos =< Len(file) /\ file = data[cgi.ino]
    BY <1>1
  <2> HIDE DEF file
  <2>3. /\ d \in CgiResponses /\ d = [cgi EXCEPT !.mem = d.mem, !.pos = d.pos]
        /\ \E n \in Nat :
             /\ d.pos = cgi.pos + n /\ cgi.pos + n =< Len(file)
             /\ Len(d.mem) = Len(cgi.mem) + n
             /\ \A i \in 1..Len(cgi.mem) : d.mem[i] = cgi.mem[i]
             /\ \A i \in 1..n : d.mem[Len(cgi.mem) + i] = file[cgi.pos + i]
    BY <1>1, <2>2, FilledIs
  <2> HIDE DEF d
  <2>4. PICK n \in Nat :
          /\ d.pos = cgi.pos + n /\ cgi.pos + n =< Len(file)
          /\ Len(d.mem) = Len(cgi.mem) + n
          /\ \A i \in 1..Len(cgi.mem) : d.mem[i] = cgi.mem[i]
          /\ \A i \in 1..n : d.mem[Len(cgi.mem) + i] = file[cgi.pos + i]
    BY <2>3
  <2>5. d.state = cgi.state /\ d.ino = cgi.ino /\ d.read = cgi.read /\ d.status = cgi.status /\ d.type = cgi.type
    <3> DEFINE m == d.mem
               p == d.pos
    <3>1. d = [cgi EXCEPT !.mem = m, !.pos = p]
      BY <2>3
    <3> HIDE DEF m, p
    <3> QED
      BY <1>1, <3>1 DEF CgiResponses
  <2>6. ASSUME ~late, NEW i \in 1..Len(d.mem) PROVE d.mem[i] = out[run][i]
    <3>1. CASE i =< Len(cgi.mem)
      BY <1>2, <1>3, <2>4, <2>6, <3>1
    <3>2. CASE i > Len(cgi.mem)
      <4>1. i - Len(cgi.mem) \in 1..n /\ Len(cgi.mem) + (i - Len(cgi.mem)) = i
        BY <1>2, <2>4, <3>2
      <4>2. d.mem[i] = file[i]
        BY <1>1, <2>4, <4>1
      <4>3. i \in 1..Len(out[run])
        BY <1>1, <1>2, <1>3, <2>2, <2>4, <2>6
      <4> QED
        BY <1>3, <2>2, <2>6, <4>2, <4>3
    <3> QED
      BY <1>2, <2>4, <3>1, <3>2
  <2>7. cgi.read =< Len(d.mem) /\ d.pos = Len(d.mem) /\ d.pos =< Len(file)
    BY <1>1, <1>2, <2>4
  <2> QED
    BY <1>1, <1>2, <1>3, <2>1, <2>2, <2>3, <2>5, <2>6, <2>7
<1> QED
  BY <1>4, <1>5

\* The next line is the next line of the program's output.
LEMMA LineIs ==
  ASSUME CInv, phase = "parsing", LineEnd(Fetched) # 0
  PROVE  /\ LineEnd(Fetched) \in (cgi.read + 1)..Len(Fetched.mem)
         /\ ~late => LineEnd(Fetched) = cgi.read + 1
<1> DEFINE c == Fetched
           e == LineEnd(c)
<1>1. c \in CgiResponses /\ c.read = cgi.read /\ c.read =< Len(c.mem)
  BY FetchedIs
<1>2. /\ ~late => Len(c.mem) =< Len(out[run]) /\ \A i \in 1..Len(c.mem) : c.mem[i] = out[run][i]
      /\ run > 0
  BY FetchedIs DEF CInv, SameFile, HasAnswer
<1>3. c.read \in Nat /\ Len(c.mem) \in Nat /\ Len(out[run]) \in Nat
  BY <1>1, <1>2, OutputIs, LenProperties DEF CgiResponses
<1>7. e # 0
  OBVIOUS
<1> HIDE DEF c
<1>4. /\ e \in (c.read + 1)..Len(c.mem)
      /\ \A i \in (c.read + 1)..Len(c.mem) : i < e => c.mem[i] \in {"part", "hole"}
  BY <1>1, <1>7, LineEndIs
<1> HIDE DEF e
<1>5. ASSUME ~late, e # c.read + 1 PROVE FALSE
  <2> DEFINE i == c.read + 1
  <2>1. i \in (c.read + 1)..Len(c.mem) /\ i < e /\ i \in 1..Len(c.mem) /\ i \in 1..Len(out[run]) /\ i # Len(out[run])
    BY <1>2, <1>3, <1>4, <1>5
  <2>2. out[run][i] \in {"part", "hole"}
    BY <1>2, <1>4, <1>5, <2>1
  <2> QED
    BY <1>2, <2>1, <2>2, OutputIs
<1> QED
  BY <1>1, <1>4, <1>5 DEF c, e

\* What _parseLine makes of a line.
LEMMA NextIs ==
  ASSUME NEW c \in CgiResponses, NEW e \in Nat, NEW line
  PROVE  LET next == [c EXCEPT !.read = e, !.status = @ \/ line = "status", !.type = @ \/ line = "type"]
         IN /\ next \in CgiResponses /\ next.state = c.state /\ next.ino = c.ino /\ next.pos = c.pos
            /\ next.mem = c.mem /\ next.read = e
            /\ next.status <=> (c.status \/ line = "status")
            /\ next.type <=> (c.type \/ line = "type")
<1> DEFINE st == c.status \/ line = "status"
           ty == c.type \/ line = "type"
           next == [c EXCEPT !.read = e, !.status = st, !.type = ty]
<1>1. st \in BOOLEAN /\ ty \in BOOLEAN
  OBVIOUS
<1>2. next = [c EXCEPT !.read = e, !.status = @ \/ line = "status", !.type = @ \/ line = "type"]
  BY DEF CgiResponses
<1>3. (st <=> c.status \/ line = "status") /\ (ty <=> c.type \/ line = "type")
  OBVIOUS
<1> HIDE DEF st, ty
<1>4. /\ next \in CgiResponses /\ next.state = c.state /\ next.ino = c.ino /\ next.pos = c.pos
      /\ next.mem = c.mem /\ next.read = e /\ next.status = st /\ next.type = ty
  BY <1>1 DEF CgiResponses
<1> HIDE DEF next
<1> QED
  BY <1>2, <1>3, <1>4

\* What the beginning of the output up to the end of a line says, by what it said
\* up to the line before.
LEMMA HeaderGrows ==
  ASSUME NEW o \in Seq(Lines), NEW n \in Nat, n + 1 =< Len(o), ~EndsHeader(o, n),
         \A i \in 1..(n - 1) : ~EndsHeader(o, i)
  PROVE  /\ \A i \in 1..n : ~EndsHeader(o, i)
         /\ \A l \in {"status", "type"} :
              (\E i \in 1..(n + 1) : o[i] = l) <=> (\E i \in 1..n : o[i] = l) \/ o[n + 1] = l
         /\ EndsHeader(o, n + 1) <=> /\ o[n + 1] = "blank"
                                     /\ \E i \in 1..(n + 1) : o[i] = "status"
                                     /\ \E i \in 1..(n + 1) : o[i] = "type"
<1>1. Len(o) \in Nat /\ n + 1 \in 1..Len(o)
  BY LenProperties
<1>2. \A i \in 1..n : i = n \/ i \in 1..(n - 1)
  OBVIOUS
<1>3. \A i \in 1..(n + 1) : i = n + 1 \/ i \in 1..n
  OBVIOUS
<1>4. 1..n \subseteq 1..(n + 1) /\ n + 1 \in 1..(n + 1)
  OBVIOUS
<1>5. \A i \in 1..n : ~EndsHeader(o, i)
  BY <1>2
<1>6. ASSUME NEW l \in {"status", "type"}
      PROVE  (\E i \in 1..(n + 1) : o[i] = l) <=> (\E i \in 1..n : o[i] = l) \/ o[n + 1] = l
  BY <1>3, <1>4
<1>7. EndsHeader(o, n + 1) <=> /\ o[n + 1] = "blank"
                               /\ \E i \in 1..(n + 1) : o[i] = "status"
                               /\ \E i \in 1..(n + 1) : o[i] = "type"
  BY <1>1 DEF EndsHeader
<1> QED
  BY <1>5, <1>6, <1>7

LEMMA ParseLineKeeps ==
  ASSUME CInv, ParseLine
  PROVE  CInv'
<1> DEFINE c == Fetched
           e == LineEnd(Fetched)
           o == out[run]
           line == IF e = c.read + 1 THEN c.mem[e] ELSE "text"
           next == [c EXCEPT !.read = e, !.status = @ \/ line = "status", !.type = @ \/ line = "type"]
<1>1. /\ c \in CgiResponses /\ c.state = "CGI_PARSING_HEADER" /\ c.ino = cgi.ino
      /\ c.read = cgi.read /\ c.status = cgi.status /\ c.type = cgi.type
      /\ cgi.read =< Len(c.mem) /\ c.pos = Len(c.mem) /\ c.pos =< Len(data[cgi.ino])
      /\ ~late => Len(c.mem) =< Len(o) /\ \A i \in 1..Len(c.mem) : c.mem[i] = o[i]
  BY FetchedIs DEF ParseLine
<1>2. e \in (cgi.read + 1)..Len(c.mem) /\ (~late => e = cgi.read + 1) /\ TookLine(c, e)
  BY LineIs DEF ParseLine
<1> HIDE DEF c, e
<1>3. /\ phase = "parsing" /\ run > 0 /\ pid /\ proc[run].pc = "reaped" /\ cgi.ino \in 1..Len(data)
      /\ ~looping /\ cgi.state = "CGI_PARSING_HEADER" /\ ~dropped /\ looping \in BOOLEAN
  BY DEF CInv, TypeOK, SameFile, Stages, HasAnswer, ParseLine
<1>4. /\ run' = run /\ pid' = pid /\ proc' = proc /\ out' = out /\ request' = request /\ name' = name
      /\ data' = data /\ late' = late /\ dropped' = dropped
  BY DEF ParseLine
<1>5. o \in Seq(Lines) /\ Len(o) \in Nat /\ Len(c.mem) \in Nat /\ cgi.read \in Nat /\ e \in Nat /\ Len(data[cgi.ino]) \in Nat
  <2>1. data[cgi.ino] \in Seq(Lines)
    BY <1>3, ElementOfSeq DEF CInv, TypeOK
  <2> QED
    BY <1>1, <1>2, <1>3, <2>1, OutputIs, LenProperties DEF CInv, TypeOK, CgiResponses
<1>6. /\ next \in CgiResponses /\ next.state = c.state /\ next.ino = c.ino /\ next.pos = c.pos
      /\ next.mem = c.mem /\ next.read = e
      /\ next.status <=> (c.status \/ line = "status")
      /\ next.type <=> (c.type \/ line = "type")
  <2> HIDE DEF line
  <2> QED
    BY <1>1, <1>5, NextIs
<1>7. \/ line \notin {"bare", "blank"} /\ cgi' = next /\ phase' = phase /\ looping' = looping
      \/ /\ line = "bare" \/ (line = "blank" /\ ~HeaderComplete(next))
         /\ cgi' = next /\ phase' = "waiting" /\ looping' = looping
      \/ line = "blank" /\ HeaderComplete(next) /\ Rewind(next)
  BY <1>2 DEF TookLine
<1> HIDE DEF line, next, o
<1>8. ~late => /\ \A i \in 1..(e - 1) : ~EndsHeader(o, i)
               /\ next.status <=> \E i \in 1..e : o[i] = "status"
               /\ next.type <=> \E i \in 1..e : o[i] = "type"
               /\ EndsHeader(o, e) <=> line = "blank" /\ HeaderComplete(next)
               /\ line = o[e] /\ e \in 1..Len(o)
  <2>1. SUFFICES ASSUME ~late
        PROVE  /\ \A i \in 1..(e - 1) : ~EndsHeader(o, i)
               /\ next.status <=> \E i \in 1..e : o[i] = "status"
               /\ next.type <=> \E i \in 1..e : o[i] = "type"
               /\ EndsHeader(o, e) <=> line = "blank" /\ HeaderComplete(next)
               /\ line = o[e] /\ e \in 1..Len(o)
    OBVIOUS
  <2> DEFINE n == cgi.read
  <2>2. e = n + 1 /\ n \in Nat /\ n + 1 =< Len(o) /\ e - 1 = n /\ e \in 1..Len(o) /\ e \in 1..Len(c.mem)
    BY <1>1, <1>2, <1>5, <2>1
  <2>3. line = o[e]
    BY <1>1, <2>1, <2>2 DEF line
  <2>4. /\ ~EndsHeader(o, n) /\ \A i \in 1..(n - 1) : ~EndsHeader(o, i)
        /\ cgi.status <=> \E i \in 1..n : o[i] = "status"
        /\ cgi.type <=> \E i \in 1..n : o[i] = "type"
    <3>1. Parsed /\ cgi.state # "CGI_RUNNING" /\ cgi.state # "CGI_PARSING_DONE"
      BY <1>3 DEF CInv
    <3>2. /\ cgi.status <=> \E i \in 1..cgi.read : o[i] = "status"
          /\ cgi.type <=> \E i \in 1..cgi.read : o[i] = "type"
          /\ \A i \in 1..(cgi.read - 1) : ~EndsHeader(o, i)
          /\ EndsHeader(o, cgi.read) <=> cgi.state = "CGI_PARSING_DONE"
      BY <2>1, <3>1 DEF Parsed, o
    <3> QED
      BY <3>1, <3>2
  <2> HIDE DEF n
  <2>5. /\ \A i \in 1..n : ~EndsHeader(o, i)
        /\ \A l \in {"status", "type"} :
             (\E i \in 1..(n + 1) : o[i] = l) <=> (\E i \in 1..n : o[i] = l) \/ o[n + 1] = l
        /\ EndsHeader(o, n + 1) <=> /\ o[n + 1] = "blank"
                                    /\ \E i \in 1..(n + 1) : o[i] = "status"
                                    /\ \E i \in 1..(n + 1) : o[i] = "type"
    BY <1>5, <2>2, <2>4, HeaderGrows
  <2>6. next.status <=> \E i \in 1..(n + 1) : o[i] = "status"
    BY <1>1, <1>6, <2>2, <2>3, <2>4, <2>5
  <2>7. next.type <=> \E i \in 1..(n + 1) : o[i] = "type"
    BY <1>1, <1>6, <2>2, <2>3, <2>4, <2>5
  <2>8. EndsHeader(o, e) <=> line = "blank" /\ HeaderComplete(next)
    BY <2>2, <2>3, <2>5, <2>6, <2>7 DEF HeaderComplete
  <2> QED
    BY <2>2, <2>3, <2>5, <2>6, <2>7, <2>8
<1>9. /\ cgi' \in CgiResponses /\ cgi'.ino = cgi.ino /\ cgi'.mem = c.mem /\ cgi'.read = e
      /\ (cgi'.status <=> next.status) /\ (cgi'.type <=> next.type) /\ looping' = looping
      /\ \/ /\ phase' \in {"parsing", "waiting"} /\ cgi'.state = "CGI_PARSING_HEADER" /\ cgi'.pos = Len(c.mem)
            /\ ~(line = "blank" /\ HeaderComplete(next))
            /\ phase' = "waiting" => line \in {"blank", "bare"}
         \/ /\ phase' = "parsed" /\ cgi'.state = "CGI_PARSING_DONE" /\ cgi'.pos = e
            /\ line = "blank" /\ HeaderComplete(next)
  <2>1. CASE line \notin {"bare", "blank"} /\ cgi' = next /\ phase' = phase /\ looping' = looping
    BY <1>1, <1>3, <1>6, <2>1
  <2>2. CASE /\ line = "bare" \/ (line = "blank" /\ ~HeaderComplete(next))
             /\ cgi' = next /\ phase' = "waiting" /\ looping' = looping
    BY <1>1, <1>6, <2>2
  <2>3. CASE line = "blank" /\ HeaderComplete(next) /\ Rewind(next)
    <3> DEFINE p == Rewound(next)
    <3>1. p = e
      BY <1>1, <1>5, <1>6 DEF Rewound
    <3>2. next.read =< Len(next.mem) /\ next.pos =< Len(next.mem) /\ ~(p < 0)
      BY <1>1, <1>2, <1>5, <1>6, <3>1
    <3>3. /\ cgi' \in CgiResponses /\ cgi'.state = "CGI_PARSING_DONE" /\ cgi'.pos = p
          /\ cgi'.ino = next.ino /\ cgi'.mem = next.mem /\ cgi'.read = next.read
          /\ cgi'.status = next.status /\ cgi'.type = next.type
          /\ phase' = "parsed" /\ looping' = looping
      BY <1>6, <2>3, <3>2, RewindIs
    <3> HIDE DEF p
    <3> QED
      BY <1>1, <1>6, <2>3, <3>1, <3>3
  <2> QED
    BY <1>7, <2>1, <2>2, <2>3
<1>10. TypeOK'
  <2>1. cgi'.pos =< Len(data[cgi.ino]) /\ cgi'.read =< Len(cgi'.mem)
    BY <1>1, <1>2, <1>5, <1>9
  <2>2. phase' \in {"parsing", "waiting", "parsed"}
    BY <1>9
  <2> QED
    BY <1>3, <1>4, <1>9, <2>1, <2>2 DEF CInv, TypeOK
<1>11. Programs'
  BY <1>3, <1>4, <1>9 DEF CInv, Programs
<1>12. Progress'
  BY <1>4 DEF CInv, Progress
<1>13. SameFile'
  BY <1>3, <1>4, <1>9 DEF CInv, SameFile, HasAnswer
<1>14. Forking'
  BY <1>9 DEF Forking
<1>15. Fresh'
  BY <1>9 DEF Fresh, HasAnswer
<1>16. Stages'
  BY <1>3, <1>4, <1>9 DEF Stages, HasAnswer
<1>17. Position'
  BY <1>9 DEF Position
<1>18. Parsed'
  <2>1. SUFFICES ASSUME ~late PROVE Parsed'
    BY <1>4 DEF Parsed
  <2>2. /\ \A i \in 1..(e - 1) : ~EndsHeader(o, i)
        /\ next.status <=> \E i \in 1..e : o[i] = "status"
        /\ next.type <=> \E i \in 1..e : o[i] = "type"
        /\ EndsHeader(o, e) <=> line = "blank" /\ HeaderComplete(next)
        /\ line = o[e] /\ e \in 1..Len(o)
    BY <1>8, <2>1
  <2>3. ASSUME phase' = "waiting" PROVE HeaderLength(o) = 0
    <3>1. o[e] \in {"blank", "bare"} /\ ~EndsHeader(o, e)
      BY <1>9, <2>2, <2>3
    <3>2. \A i \in 1..e : ~EndsHeader(o, i)
      <4>1. \A i \in 1..e : i = e \/ i \in 1..(e - 1)
        BY <1>5
      <4> QED
        BY <2>2, <3>1, <4>1
    <3> QED
      BY <1>5, <2>2, <3>1, <3>2, NoHeader
  <2>4. Len(c.mem) =< Len(o) /\ \A i \in 1..Len(c.mem) : c.mem[i] = o[i]
    BY <1>1, <2>1
  <2>5. EndsHeader(o, e) <=> cgi'.state = "CGI_PARSING_DONE"
    BY <1>9, <2>2
  <2>6. run' = run /\ out'[run] = o
    BY <1>4 DEF o
  <2>7. (cgi'.status <=> \E i \in 1..e : o[i] = "status") /\ (cgi'.type <=> \E i \in 1..e : o[i] = "type")
    BY <1>9, <2>2
  <2>8. cgi'.mem = c.mem /\ cgi'.read = e
    BY <1>9
  <2> HIDE DEF o, c, e
  <2> QED
    BY <2>2, <2>3, <2>4, <2>5, <2>6, <2>7, <2>8 DEF Parsed
<1>19. Placed'
  <2>1. CASE cgi'.state = "CGI_PARSING_DONE"
    <3>1. cgi'.pos = e /\ cgi'.read = e /\ e =< e
      BY <1>5, <1>9, <2>1
    <3>2. ~dropped'
      BY <1>3, <1>4
    <3> QED
      BY <3>1, <3>2 DEF Placed
  <2> QED
    BY <2>1 DEF Placed
<1> QED
  BY <1>10, <1>11, <1>12, <1>13, <1>14, <1>15, <1>16, <1>17, <1>18, <1>19 DEF CInv

-----------------------------------------------------------------------------
(* The theorems *)

LEMMA InitHolds == Init => CInv
<1> SUFFICES ASSUME Init PROVE CInv
  OBVIOUS
<1>1. /\ NewCgiResponse \in CgiResponses /\ Len(NewCgiResponse.mem) = 0 /\ NewCgiResponse.read = 0
      /\ NewCgiResponse.ino = 0 /\ data \in Seq(Seq(Lines)) /\ Len(data) = 0
  BY EmptySeq DEF NewCgiResponse, CgiResponses, Init
<1>2. proc \in [1..MaxRuns -> [pc : {"none", "forked", "writing", "failed", "exited", "reaped"},
                              ino : 0..Len(data), off : Nat]]
  BY <1>1 DEF Init, NoProcess
<1>3. TypeOK
  <2>1. {pid, request, late, dropped, looping} \subseteq BOOLEAN
    BY DEF Init
  <2>2. run \in 0..MaxRuns /\ name \in 0..Len(data) /\ phase \in {"idle"}
    BY <1>1, CgiAssumption DEF Init
  <2>3. out \in [1..MaxRuns -> Outputs] /\ cgi = NewCgiResponse
    BY DEF Init
  <2>4. cgi.read =< Len(cgi.mem) /\ (cgi.ino # 0 => cgi.pos =< Len(data[cgi.ino]))
    BY <1>1, <2>3
  <2> QED
    BY <1>1, <1>2, <2>1, <2>2, <2>3, <2>4 DEF TypeOK
<1>4. Programs
  BY CgiAssumption DEF Init, Programs, NoProcess
<1>5. Progress /\ SameFile /\ Forking /\ Fresh
  BY DEF Init, Progress, SameFile, Forking, Fresh, HasAnswer
<1>6. Stages /\ Position /\ Parsed /\ Placed
  BY DEF Init, Stages, Position, Parsed, Placed, HasAnswer, NewCgiResponse
<1> QED
  BY <1>3, <1>4, <1>5, <1>6 DEF CInv

LEMMA StepKeeps == CInv /\ [Next]_vars => CInv'
<1> SUFFICES ASSUME CInv, [Next]_vars PROVE CInv'
  OBVIOUS
<1>1. CASE UNCHANGED vars
  BY <1>1 DEF vars, CInv, TypeOK, Programs, Progress, SameFile, Forking, Fresh, Stages, Position,
              Parsed, Placed, HasAnswer
<1>2. CASE BeginCgi \/ PlainRequest \/ UploadFails \/ Reboot
  BY <1>2, BeginCgiKeeps, PlainKeeps, UploadFailsKeeps, RebootKeeps
<1>3. CASE Server
  BY <1>3, ForkKeeps, ServerOpensKeeps, StartParseKeeps, ParseLineKeeps, ParseFailsKeeps, ParseAgainKeeps,
     ServeKeeps, KeepAliveKeeps, CloseKeeps DEF Server
<1>4. CASE \E r \in 1..MaxRuns : Program(r)
  BY <1>4, ProgramOpensKeeps, OpenFailsKeeps, WritesKeeps, ExitsKeeps DEF Program
<1> QED
  BY <1>1, <1>2, <1>3, <1>4 DEF Next

\* The inductive invariant: a program and the connection that waits for it use one
\* file, what has been parsed is the beginning of its output, and the file is left
\* where the body begins.
THEOREM CgiInvariant == Spec => []CInv
  BY InitHolds, StepKeeps, PTL DEF Spec

\* The types are part of it.
THEOREM CgiTyped == Spec => []TypeOK
  BY CgiInvariant, PTL DEF CInv

\* Descriptor numbers are used again and again, and so are the names of the files
\* made of them; still no two programs ever have the files of a name.
THEOREM ProgramsAreAlone == Spec => []OneProgram
<1>1. CInv => OneProgram
  BY DEF CInv, OneProgram, Programs, SameFile, HasAnswer, Stages, TypeOK
<1> QED
  BY <1>1, CgiInvariant, PTL

\* A client is given the output of its own program, and its body from the right
\* place, with the two exceptions that OwnOutput names.
THEOREM AnswersAreOwn == Spec => []OwnOutput
<1>1. ASSUME CInv PROVE OwnOutput
  <2> SUFFICES ASSUME phase \in {"parsed", "answer"}, cgi.ino # 0, ~late
               PROVE  /\ data[cgi.ino] = out[run]
                      /\ BodyAt(out[run], cgi.pos) <=> (~dropped \/ cgi.read = Len(cgi.mem))
    BY DEF OwnOutput
  <2> DEFINE o == out[run]
  <2>1. HasAnswer
    BY <1>1 DEF CInv, Fresh, NewCgiResponse
  <2>2. /\ cgi.state = "CGI_PARSING_DONE" /\ proc[run].pc = "reaped" /\ run > 0 /\ cgi.ino \in 1..Len(data)
        /\ Len(data[cgi.ino]) = Len(o) /\ \A i \in 1..Len(o) : data[cgi.ino][i] = o[i]
    BY <1>1, <2>1 DEF CInv, Stages, SameFile, Progress
  <2>3. data[cgi.ino] \in Seq(Lines) /\ o \in Seq(Lines)
    BY <1>1, <2>2, OutputIs, ElementOfSeq DEF CInv, TypeOK
  <2>4. data[cgi.ino] = o
    BY <2>2, <2>3, SeqEqual
  <2>5. /\ EndsHeader(o, cgi.read) /\ \A i \in 1..(cgi.read - 1) : ~EndsHeader(o, i)
        /\ cgi.read =< Len(cgi.mem) /\ cgi.read \in Nat /\ cgi.pos \in Nat /\ Len(cgi.mem) \in Nat
    BY <1>1, <2>2, LenProperties DEF CInv, Parsed, TypeOK, CgiResponses
  <2>6. /\ (cgi.read = Len(cgi.mem) => cgi.pos = cgi.read) /\ (~dropped => cgi.pos = cgi.read)
        /\ dropped => cgi.pos =< cgi.read - (Len(cgi.mem) - cgi.read)
    BY <1>1, <2>2 DEF CInv, Placed
  <2> HIDE DEF o
  <2>7. ASSUME ~dropped \/ cgi.read = Len(cgi.mem) PROVE BodyAt(o, cgi.pos)
    <3>1. cgi.pos = cgi.read
      BY <2>6, <2>7
    <3> QED
      BY <2>5, <3>1 DEF BodyAt
  <2>8. ASSUME dropped, cgi.read # Len(cgi.mem) PROVE ~BodyAt(o, cgi.pos)
    <3>1. cgi.pos < cgi.read
      BY <2>5, <2>6, <2>8
    <3>2. ~EndsHeader(o, cgi.pos)
      <4>1. CASE cgi.pos = 0
        BY <4>1 DEF EndsHeader
      <4>2. CASE cgi.pos # 0
        <5>1. cgi.pos \in 1..(cgi.read - 1)
          BY <2>5, <3>1, <4>2
        <5> QED
          BY <2>5, <5>1
      <4> QED
        BY <4>1, <4>2
    <3> QED
      BY <3>2 DEF BodyAt
  <2>9. dropped \in BOOLEAN
    BY <1>1 DEF CInv, TypeOK
  <2> QED
    BY <2>4, <2>7, <2>8, <2>9 DEF o
<1> QED
  BY <1>1, CgiInvariant, PTL

\* The parsing throws for ever only after a reboot has dropped an answer: before
\* that the position is never less than what lseek goes back by.
THEOREM LoopIsExplained == Spec => []LoopCauses
<1>1. CInv => LoopCauses
  BY DEF CInv, Stages, LoopCauses
<1> QED
  BY <1>1, CgiInvariant, PTL

\* A client that waits for a program that is gone does so for one of the reasons
\* that StuckCauses lists.
THEOREM WaitIsExplained == Spec => []StuckCauses
<1>1. ASSUME CInv PROVE StuckCauses
  <2> SUFFICES ASSUME Stuck, ~late, proc[run].pc # "failed"
               PROVE  \/ out[run] = << >> \/ HeaderLength(out[run]) = 0
                      \/ dropped /\ HeaderLength(out[run]) = Len(out[run])
    BY DEF StuckCauses
  <2> DEFINE o == out[run]
  <2>1. /\ phase = "waiting" /\ HasAnswer /\ proc[run].pc \in {"exited", "reaped"} /\ run > 0
        /\ cgi.ino \in 1..Len(data) /\ Len(data[cgi.ino]) = Len(o) /\ ~(cgi.pos < Len(data[cgi.ino]))
    BY <1>1 DEF CInv, SameFile, HasAnswer, Progress, Stuck, Readable
  <2>2. o \in Seq(Lines) /\ Len(o) \in Nat
    BY <1>1, <2>1, OutputIs
  <2>3. CASE cgi.state = "CGI_RUNNING"
    <3>1. Len(o) = 0
      BY <1>1, <2>1, <2>2, <2>3 DEF CInv, Stages
    <3> QED
      BY <2>2, <3>1, EmptySeq
  <2>4. CASE cgi.state = "CGI_PARSING_HEADER"
    BY <1>1, <2>1, <2>4 DEF CInv, Parsed
  <2>5. CASE cgi.state = "CGI_PARSING_DONE"
    <3>1. /\ EndsHeader(o, cgi.read) /\ \A i \in 1..(cgi.read - 1) : ~EndsHeader(o, i)
          /\ cgi.read =< Len(cgi.mem) /\ Len(cgi.mem) =< Len(o)
          /\ cgi.read \in Nat /\ cgi.pos \in Nat /\ Len(cgi.mem) \in Nat
      BY <1>1, <2>5, LenProperties DEF CInv, Parsed, TypeOK, CgiResponses
    <3>2. dropped /\ cgi.pos =< cgi.read
      BY <1>1, <2>1, <2>5 DEF CInv, Stages, Placed
    <3>3. cgi.read = Len(o)
      BY <2>1, <2>2, <3>1, <3>2
    <3>4. BodyAt(o, cgi.read) /\ cgi.read \in 1..Len(o)
      BY <3>1 DEF BodyAt, EndsHeader
    <3> HIDE DEF o
    <3>5. HeaderLength(o) \in {0, cgi.read}
      BY <2>2, <3>4, HeaderEndsOnce
    <3> QED
      BY <3>2, <3>3, <3>5 DEF o
  <2> QED
    BY <1>1, <2>3, <2>4, <2>5 DEF CInv, TypeOK, CgiResponses
<1> QED
  BY <1>1, CgiInvariant, PTL
=============================================================================
