----------------------------- MODULE CgiHandOff -----------------------------
(***************************************************************************)
(* How the output of a CGI program reaches the server: through a file that *)
(* both open, named after the client's descriptor, and that the server     *)
(* reads when kqueue reports it and the program has exited.  One name is   *)
(* modelled: a program is started for it by one request after another, on  *)
(* one connection or on those that are given the descriptor later.         *)
(*                                                                         *)
(* A program's output is a sequence of lines, and a position in the file   *)
(* counts lines:                                                           *)
(*   "status", "type"  Status: and Content-Type: of its header             *)
(*   "blank", "bare"   an empty line, ended by CR LF, or by LF alone       *)
(*   "text", "part"    any other line; a last one without a line end       *)
(***************************************************************************)
EXTENDS Integers, Sequences

CONSTANTS Outputs, \* what programs write
          Buffer,  \* READ_BUFFER_SIZE, in lines
          MaxRuns  \* bound: how many programs are started

Lines == {"status", "type", "blank", "bare", "text", "part", "hole"}

ASSUME CgiAssumption == Buffer \in Nat \ {0} /\ MaxRuns \in Nat \ {0}
\* Nobody writes a hole, and only the last line may lack its end.
ASSUME OutputAssumption ==
  \A o \in Outputs :
    o \in Seq(Lines \ {"hole"}) /\ \A i \in 1..Len(o) : o[i] = "part" => i = Len(o)

VARIABLES
  phase,   \* of the Event: "idle", "upload", "forking", "waiting", "parsing", "parsed", "answer"
  run,     \* the number of programs started
  pid,     \* cgiResponse.pid() is not -1
  proc,    \* the programs: how far they are, and their standard output
  out,     \* what they write
  request, \* whether the file temp/request<fd> exists
  name,    \* the inode that is called temp/response<fd>, 0 for none
  data,    \* the content of the inodes
  cgi,     \* the CgiResponse and its descriptor toRecvFd
  late,    \* the server opened the file after the program had written to it
  dropped, \* a reboot came between the parsing of the output and its serving
  looping  \* the parsing throws, whenever it is called
vars == <<phase, run, pid, proc, out, request, name, data, cgi, late, dropped, looping>>

NoProcess == [pc |-> "none", ino |-> 0, off |-> 0]
CgiResponses ==
  [state : {"CGI_RUNNING", "CGI_PARSING_HEADER", "CGI_PARSING_DONE"}, ino : Nat, pos : Nat,
   mem : Seq(Lines), read : Nat, status : BOOLEAN, type : BOOLEAN]
NewCgiResponse == [state |-> "CGI_RUNNING", ino |-> 0, pos |-> 0, mem |-> << >>, read |-> 0,
                   status |-> FALSE, type |-> FALSE]

TypeOK ==
  /\ phase \in {"idle", "upload", "forking", "waiting", "parsing", "parsed", "answer"}
  /\ run \in 0..MaxRuns /\ {pid, request, late, dropped, looping} \subseteq BOOLEAN
  /\ data \in Seq(Seq(Lines)) /\ name \in 0..Len(data)
  /\ proc \in [1..MaxRuns -> [pc : {"none", "forked", "writing", "failed", "exited", "reaped"},
                              ino : 0..Len(data), off : Nat]]
  /\ out \in [1..MaxRuns -> Outputs]
  /\ cgi \in CgiResponses
  /\ cgi.read =< Len(cgi.mem) /\ (cgi.ino # 0 => cgi.pos =< Len(data[cgi.ino]))

Init ==
  /\ phase = "idle" /\ run = 0 /\ pid = FALSE
  /\ proc = [r \in 1..MaxRuns |-> NoProcess] /\ out \in [1..MaxRuns -> Outputs]
  /\ request = FALSE /\ name = 0 /\ data = << >>
  /\ cgi = NewCgiResponse
  /\ late = FALSE /\ dropped = FALSE /\ looping = FALSE

-----------------------------------------------------------------------------
(* The server, up to the fork, and the program *)

\* A request for a program: its body is uploaded to temp/request<fd>.
BeginCgi ==
  /\ phase = "idle" /\ run < MaxRuns
  /\ phase' = "upload" /\ request' = TRUE
  /\ UNCHANGED <<run, pid, proc, out, name, data, cgi, late, dropped, looping>>

\* A request that needs no program, up to its answer.
PlainRequest ==
  /\ phase = "idle" /\ phase' = "answer"
  /\ UNCHANGED <<run, pid, proc, out, request, name, data, cgi, late, dropped, looping>>

\* The peer closes before, or while, its request is uploaded.
UploadFails ==
  /\ phase = "upload" /\ phase' = "idle"
  /\ UNCHANGED <<run, pid, proc, out, request, name, data, cgi, late, dropped, looping>>

Fork ==
  /\ phase = "upload" /\ phase' = "forking"
  /\ run' = run + 1 /\ pid' = TRUE
  /\ proc' = [proc EXCEPT ![run + 1].pc = "forked"]
  /\ UNCHANGED <<out, request, name, data, cgi, late, dropped, looping>>

\* open(temp/response<fd>, O_TRUNC | O_CREAT)
OpensTruncated(ino) ==
  IF name = 0
  THEN ino = Len(data) + 1 /\ data' = Append(data, << >>) /\ name' = ino
  ELSE ino = name /\ data' = [data EXCEPT ![name] = << >>] /\ UNCHANGED name

\* _callCgi after the fork, in the server.
ServerOpens ==
  /\ phase = "forking" /\ phase' = "waiting"
  /\ \E ino \in 1..(Len(data) + 1) :
       /\ OpensTruncated(ino)
       /\ cgi' = [cgi EXCEPT !.ino = ino, !.pos = 0]
  /\ late' = (proc[run].off > 0)
  /\ UNCHANGED <<run, pid, proc, out, request, dropped, looping>>

\* _execveCgi, in the child, up to execve.
ProgramOpens(r) ==
  /\ proc[r].pc = "forked"
  /\ \E ino \in 1..(Len(data) + 1) :
       /\ OpensTruncated(ino)
       /\ proc' = [proc EXCEPT ![r].pc = "writing", ![r].ino = ino]
  /\ request' = TRUE
  /\ UNCHANGED <<phase, run, pid, out, cgi, late, dropped, looping>>

\* If it cannot open its files it removes both.
ProgramOpenFails(r) ==
  /\ proc[r].pc = "forked"
  /\ proc' = [proc EXCEPT ![r].pc = "failed"]
  /\ request' = FALSE /\ name' = 0
  /\ UNCHANGED <<phase, run, pid, out, data, cgi, late, dropped, looping>>

\* write(2) at an offset behind the end leaves a hole.
Written(s, off, line) ==
  [i \in 1..(off + 1) |-> IF i = off + 1 THEN line ELSE IF i =< Len(s) THEN s[i] ELSE "hole"]

ProgramWrites(r) ==
  /\ proc[r].pc = "writing" /\ proc[r].off < Len(out[r])
  /\ data' = [data EXCEPT ![proc[r].ino] = Written(@, proc[r].off, out[r][proc[r].off + 1])]
  /\ proc' = [proc EXCEPT ![r].off = @ + 1]
  /\ UNCHANGED <<phase, run, pid, out, request, name, cgi, late, dropped, looping>>

ProgramExits(r) ==
  /\ proc[r].pc = "writing" /\ proc[r].off = Len(out[r])
  /\ proc' = [proc EXCEPT ![r].pc = "exited"]
  /\ UNCHANGED <<phase, run, pid, out, request, name, data, cgi, late, dropped, looping>>

-----------------------------------------------------------------------------
(* CgiResponse::parseRequest *)

\* The end of the first line that has not been read, 0 if it has no end yet.
LineEnd(c) ==
  LET ends == {i \in (c.read + 1)..Len(c.mem) : c.mem[i] \notin {"part", "hole"}}
  IN IF ends = {} THEN 0 ELSE CHOOSE i \in ends : \A j \in ends : i =< j

Filled(c, file) ==
  LET n == IF Len(file) - c.pos < Buffer THEN Len(file) - c.pos ELSE Buffer
  IN [c EXCEPT !.mem = @ \o SubSeq(file, c.pos + 1, c.pos + n), !.pos = @ + n]

\* Mutant of HeaderComplete: the optional Set-Cookie is asked for, too.
CookieToo(c) == FALSE

\* The members without which the header is not complete.
HeaderComplete(c) == c.status /\ c.type

\* Mutants of Rewound: the bytes that remain in memory are forgotten; the file is
\* rewound from its start.
PositionKept(c) == c.pos
FromStart(c)    == 0 - (Len(c.mem) - c.read)

\* The position of the body: back by what remains in memory.
Rewound(c) == c.pos - (Len(c.mem) - c.read)

\* Mutants of Exited: the program may still be running; its end is not noticed.
NotAwaited(r)   == TRUE
NeverNoticed(r) == FALSE

\* waitpid returns the pid of the program.
Exited(r) == proc[r].pc \in {"exited", "failed"}

Readable == phase = "waiting" /\ cgi.ino # 0 /\ cgi.pos < Len(data[cgi.ino])
Reaped == proc' = [proc EXCEPT ![run].pc = IF @ \in {"exited", "failed"} THEN "reaped" ELSE @]

StartParse ==
  /\ Readable /\ ~looping /\ phase' = "parsing"
  /\ \/ cgi.state = "CGI_RUNNING" /\ Exited(run) /\ Reaped
     \/ cgi.state = "CGI_PARSING_HEADER" /\ UNCHANGED proc
  /\ cgi' = [cgi EXCEPT !.state = "CGI_PARSING_HEADER"]
  /\ UNCHANGED <<run, pid, out, request, name, data, late, dropped, looping>>

\* lseek back by what remains, which throws if that is before the file's start.
Rewind(c) ==
  IF Rewound(c) < 0
  THEN cgi' = c /\ looping' = TRUE /\ phase' = "waiting"
  ELSE /\ cgi' = [c EXCEPT !.state = "CGI_PARSING_DONE", !.pos = Rewound(c)]
       /\ phase' = "parsed" /\ UNCHANGED looping

\* What getLineFile has in memory when it looks for a line the last time.
Fetched == IF LineEnd(cgi) = 0 THEN Filled(cgi, data[cgi.ino]) ELSE cgi

\* _parseLine and the end of the loop.  A line that starts with a hole is no
\* Status: and no Content-Type:, and no empty line.
TookLine(c, end) ==
  LET line == IF end = c.read + 1 THEN c.mem[end] ELSE "text"
      next == [c EXCEPT !.read = end, !.status = @ \/ line = "status", !.type = @ \/ line = "type"]
      over == line = "bare" \/ (line = "blank" /\ ~HeaderComplete(next))
  IN \/ line \notin {"bare", "blank"} /\ cgi' = next /\ UNCHANGED <<phase, looping>>
     \/ over /\ cgi' = next /\ phase' = "waiting" /\ UNCHANGED looping
     \/ line = "blank" /\ HeaderComplete(next) /\ Rewind(next)

ParseLine ==
  /\ phase = "parsing"
  /\ LineEnd(Fetched) # 0 /\ TookLine(Fetched, LineEnd(Fetched))
  /\ UNCHANGED <<run, pid, proc, out, request, name, data, late, dropped>>

\* There is no line: the Storage is in CONNECTION_CLOSED, and the Event is removed.
ParseFails ==
  /\ phase = "parsing" /\ LineEnd(Fetched) = 0
  /\ phase' = "idle" /\ pid' = FALSE
  /\ cgi' = NewCgiResponse /\ late' = FALSE /\ dropped' = FALSE
  /\ UNCHANGED <<run, proc, out, request, name, data, looping>>

\* Parsed before, but dropped by a reboot: parseRequest goes back once more.
ParseAgain ==
  /\ Readable /\ ~looping /\ cgi.state = "CGI_PARSING_DONE"
  /\ Rewind(cgi)
  /\ UNCHANGED <<run, pid, proc, out, request, name, data, late, dropped>>

\* An exception ends the round before the routed Event is served.
Reboot ==
  /\ phase = "parsed" /\ phase' = "waiting" /\ dropped' = TRUE
  /\ UNCHANGED <<run, pid, proc, out, request, name, data, cgi, late, looping>>

Serve ==
  /\ phase = "parsed" /\ phase' = "answer"
  /\ UNCHANGED <<run, pid, proc, out, request, name, data, cgi, late, dropped, looping>>

-----------------------------------------------------------------------------
(* The end of the answer *)

\* cgiResponse.initialize, or a new Event.
Forgotten == pid' = FALSE

\* Event::initialize removes both files if a program was started; it throws if
\* one is missing.
KeepAlive ==
  /\ phase = "answer" /\ (pid => request /\ name # 0)
  /\ phase' = "idle" /\ Forgotten
  /\ IF pid THEN request' = FALSE /\ name' = 0 ELSE UNCHANGED <<request, name>>
  /\ cgi' = NewCgiResponse /\ late' = FALSE /\ dropped' = FALSE
  /\ UNCHANGED <<run, proc, out, data, looping>>

\* removeConnection leaves them behind, for the next owner of the descriptor.
CloseAndAccept ==
  /\ phase = "answer" /\ phase' = "idle"
  /\ pid' = FALSE /\ cgi' = NewCgiResponse /\ late' = FALSE /\ dropped' = FALSE
  /\ UNCHANGED <<run, proc, out, request, name, data, looping>>

Program(r) == ProgramOpens(r) \/ ProgramOpenFails(r) \/ ProgramWrites(r) \/ ProgramExits(r)
Server ==
  \/ Fork \/ ServerOpens \/ StartParse \/ ParseLine \/ ParseFails \/ ParseAgain
  \/ Serve \/ KeepAlive \/ CloseAndAccept
Next ==
  \/ BeginCgi \/ PlainRequest \/ UploadFails \/ Server \/ Reboot
  \/ \E r \in 1..MaxRuns : Program(r)

Spec == Init /\ [][Next]_vars
\* The server's thread runs, and the programs come to their end.
FairSpec ==
  /\ Spec
  /\ WF_vars(ServerOpens) /\ WF_vars(StartParse) /\ WF_vars(ParseLine) /\ WF_vars(ParseFails)
  /\ WF_vars(ParseAgain) /\ WF_vars(Serve)
  /\ \A r \in 1..MaxRuns : WF_vars(Program(r))

-----------------------------------------------------------------------------
(* Properties *)

\* The length of a well-formed header, 0 if there is none: its first empty line
\* ends in CR LF, and it has what the server asks for.
HeaderLength(o) ==
  LET ends == {i \in 1..Len(o) : o[i] \in {"blank", "bare"}}
      end  == CHOOSE i \in ends : \A j \in ends : i =< j
  IN IF ends = {} THEN 0
     ELSE IF o[end] = "bare" \/ ~({"status", "type"} \subseteq {o[i] : i \in 1..end}) THEN 0
     ELSE end

\* Where the server takes the body to begin: behind the first empty line that ends
\* in CR LF and comes after what it asks for.
EndsHeader(o, i) ==
  i \in 1..Len(o) /\ o[i] = "blank" /\ {"status", "type"} \subseteq {o[j] : j \in 1..i}
BodyAt(o, pos) == EndsHeader(o, pos) /\ \A i \in 1..(pos - 1) : ~EndsHeader(o, i)

\* The files of a name are never used by two programs: a program that may still
\* write is the one that the connection with this descriptor waits for; and both
\* files are still there when Event::initialize removes them.
OneProgram ==
  /\ \A r \in 1..MaxRuns :
       proc[r].pc \in {"forked", "writing"} => r = run /\ phase \in {"forking", "waiting"}
  /\ phase = "answer" /\ pid => request /\ name # 0

\* Unless the program was faster than the server's open, an answer is made of all
\* the output of its own program; and its body starts behind the header if, and
\* only if, no reboot came between its parsing and its serving (or no byte of the
\* body had been read with the header).
OwnOutput ==
  phase \in {"parsed", "answer"} /\ cgi.ino # 0 /\ ~late =>
    /\ data[cgi.ino] = out[run]
    /\ BodyAt(out[run], cgi.pos) <=> (~dropped \/ cgi.read = Len(cgi.mem))

\* A reboot that drops an answer may make every later round throw; nothing else does.
LoopCauses == looping => dropped /\ cgi.state = "CGI_PARSING_DONE"

\* A connection waits for a program that is gone and for a file that has nothing
\* more to read, for one of these reasons only; nothing ever ends this wait.
Stuck == phase = "waiting" /\ proc[run].pc \in {"failed", "exited", "reaped"} /\ ~Readable
StuckCauses ==
  Stuck => \/ late
           \/ proc[run].pc = "failed"
           \/ out[run] = << >>
           \/ HeaderLength(out[run]) = 0
           \/ dropped /\ HeaderLength(out[run]) = Len(out[run])

\* Otherwise, and unless a reboot drops the answer, the client of a program gets
\* it or is closed: the wait for the program and the parsing come to an end.
Answered == phase = "forking" ~> (phase \in {"answer", "idle"} \/ Stuck \/ dropped)
=============================================================================
