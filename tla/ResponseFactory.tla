-------------------------- MODULE ResponseFactory --------------------------
(***************************************************************************)
(* ResponseFactory: which response a request gets, and which descriptors   *)
(* making it opens.  A response is abstracted to the three fields the      *)
(* event loop reads: its type, its sending state and its file descriptor.  *)
(*                                                                         *)
(* An operator returns the set of outcomes [resp, opened, closing]:        *)
(* "opened" are the descriptors it opened and "closing" those of them it   *)
(* registered to be closed.  Its argument F is the set of free             *)
(* descriptors; open(2) returns the lowest.                                *)
(***************************************************************************)
EXTENDS Kqueue

CONSTANT Faults     \* what the environment may do wrong, see EventLoop

LowestOf(F) == {f \in F : \A g \in F : f <= g}

Response(type, state, file) == [type |-> type, state |-> state, file |-> file]
NoResponse == Response("NULL", "HTTP_DOWNLOADING_INIT", NoFd)
FreedResponse == Response("FREED", "HTTP_DOWNLOADING_INIT", NoFd)
Responses ==
    [type  : {"NULL", "FREED", "POST", "GET", "DEL", "FLUSH", "FLUSH_ERR", "CGI"},
     state : {"HTTP_DOWNLOADING_INIT", "HTTP_SENDING_STORAGE",
              "HTTP_SENDING_DONE"},
     file  : Fds \cup {NoFd}]

Outcome(r, opened, closing) ==
    [resp |-> r, opened |-> opened, closing |-> closing]

\* A response whose bytes are all in memory.
InMemory(type) == Outcome(Response(type, "HTTP_SENDING_STORAGE", NoFd), {}, {})

\* The page of an error: opened for everyone, closed at once for HEAD.
errorResponse(m, f) ==
    IF m = "HEAD"
    THEN Outcome(Response("DEL", "HTTP_SENDING_STORAGE", NoFd), {f}, {f})
    ELSE Outcome(Response(IF m \in {"POST", "PUT"} THEN "FLUSH_ERR" ELSE "GET",
                          "HTTP_DOWNLOADING_INIT", f), {f}, {})
errorResponses(m, F) == {errorResponse(m, f) : f \in LowestOf(F)}

redirResponse(m) == InMemory(IF m = "POST" THEN "FLUSH" ELSE "DEL")

\* GET: the file, an empty file (answered without it), the listing of a
\* directory, or a file above maxBodySize, whose descriptor is forgotten.
fileResponses(F) ==
    {Outcome(Response("GET", "HTTP_DOWNLOADING_INIT", f), {f}, {}) : f \in LowestOf(F)}

\* Mutant of emptyFileResponses: the descriptor is not registered to be closed.
EmptyFileForgotten(F) ==
    {Outcome(Response("DEL", "HTTP_SENDING_STORAGE", NoFd), {f}, {}) : f \in LowestOf(F)}

emptyFileResponses(F) ==
    {Outcome(Response("DEL", "HTTP_SENDING_STORAGE", NoFd), {f}, {f}) : f \in LowestOf(F)}
tooLargeResponses(F) ==
    IF "big" \notin Faults THEN {}
    ELSE UNION {{[o EXCEPT !.opened = @ \cup {f}] : o \in errorResponses("GET", F \ {f})}
                  : f \in LowestOf(F)}
getResponses(F) == UNION {fileResponses(F), emptyFileResponses(F),
                          tooLargeResponses(F), {InMemory("DEL")}}

\* POST to a new file and PUT: the body is uploaded to the file.
uploadResponses(F) ==
    {Outcome(Response("POST", "HTTP_SENDING_STORAGE", f), {f}, {}) : f \in LowestOf(F)}

\* DELETE: of the directories that removeFile descends into, one the first entry of
\* the other, only the last is closed.
Lowest(F) == {S \in SUBSET F : \A f \in S, g \in F \ S : f < g}
deleteResponses(F) ==
    {InMemory("DEL")} \cup
      (IF "nested" \notin Faults THEN {}
       ELSE {Outcome(Response("DEL", "HTTP_SENDING_STORAGE", NoFd), S, {}) : S \in Lowest(F) \ {F}})

\* makeResponse(HttpRequest&): every method can also be answered with an
\* error page (400, 404, 405, 409, 413, 501, 505) or a redirection.
makeResponse(m, bad, F) ==
    errorResponses(m, F) \cup
    CASE bad \/ m = "NOT_IMPL"  -> {}
      [] ~bad /\ m = "GET"      -> getResponses(F) \cup {redirResponse(m)}
      [] ~bad /\ m \in {"POST", "PUT"} -> uploadResponses(F) \cup {redirResponse(m)}
      [] ~bad /\ m = "DELETE"   -> deleteResponses(F) \cup {redirResponse(m)}
      [] OTHER                  -> {InMemory("DEL"), redirResponse(m)}
=============================================================================
