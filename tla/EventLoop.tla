----------------------------- MODULE EventLoop -----------------------------
(***************************************************************************)
(* The server's single thread: EventHandler (kqueue, accept, routing),     *)
(* VirtualServer (the handlers of routed Events), FileManager's deferred   *)
(* closing of file descriptors, and main's reboot after an exception.      *)
(*                                                                         *)
(* One round of Router::start is                                           *)
(*   kevent: the kernel applies the change list       ApplyChanges         *)
(*           and returns a batch                      Kevent, KeventTimeout*)
(*   routing, one kevent of the batch at a time       Route..., Accept     *)
(*   serving, one routed Event at a time              Begin... to CgiReply *)
(* Bytes are not modelled: a read or a write finds more to do, is complete *)
(* or fails.                                                               *)
(***************************************************************************)
EXTENDS ResponseFactory, FiniteSets

CONSTANTS Ports,    \* how many listening sockets can be ready in one batch
          Methods   \* the request methods that clients use

\* "recv"  receiving from a client fails or the request times out
\* "write" writing an uploaded body fails or the upload times out
\* "read"  reading a file to be sent fails        "send" sending fails
\* "open"  open(2) or opendir(3) fails            "fork" fork(2) fails
\* "cgi"   a CGI program ends without a complete header, or removes its files
\* "bad"   malformed requests                     "big"  over maxBodySize
\* "old"   CGI requests that are not HTTP/1.1     "accept" accept(2) fails
\* "uri"   a URI is empty, or has no slash
\* "nested" a directory to be deleted has a directory as its first entry
AllFaults == {"recv", "write", "read", "send", "open", "fork", "cgi", "bad",
              "big", "old", "accept", "uri", "nested"}

ASSUME InputAssumption ==
    /\ Ports \in Nat
    /\ Methods \subseteq {"GET", "HEAD", "POST", "PUT", "DELETE", "NOT_IMPL"}
    /\ Faults \subseteq AllFaults

VARIABLES
  server,   \* "up", an exception being handled, or how the process ended
  ev,       \* the Event objects
  kq,       \* the kernel's registrations
  pending,  \* _changeList
  errs,     \* the changes the kernel could not apply, not yet returned
  batch,    \* the kevents of connections that this round has still to route
  accepts,  \* the kevents of listening sockets that it has still to route
  routed,   \* how often an Event is in _routedEvents, still to be served
  fds,      \* the descriptor table
  closing,  \* FileManager::_fileFdSet
  trash     \* whether the file TEMP_TRASH exists
vars == <<server, ev, kq, pending, errs, batch, accepts, routed, fds, closing, trash>>

\* What main catches: accept(2) or open(2) failed, TEMP_TRASH or the files of a
\* CGI program are missing, the location is cut off an empty URI, lseek(2) failed.
Exceptions == {"accept_failed", "open_failed", "no_trash", "no_files", "empty_uri", "bad_seek"}
\* "endless" is a loop in a handler that never ends.
Halts == {"wrong_routine", "unexpected_type", "null_udata", "freed_event",
          "freed_stamp", "double_free", "sigpipe", "null_directory", "endless"}
Types == {"HTTP_REQUEST_READABLE", "HTTP_REQUEST_UPLOAD", "HTTP_RESPONSE_DOWNLOAD",
          "HTTP_RESPONSE_WRITABLE", "CGI_RESPONSE_READABLE", "BUFFER_FLUSH"}

\* parse: the parsing state of httpRequest ("parsing" up to the end of the
\* header, "uploading" from HTTP_UPLOADING_INIT on, "unending" if a malformed size
\* makes that upload endless), then "answered", cgiResponse's CGI_PARSING_DONE;
\* cgi: isCgi(); pid: a CGI process was forked; stale: timestamp is
\* CONNECTION_TIMEOUT_MILISEC old.
Events ==
  [state : {"none", "live", "freed"}, type : Types,
   clientFd : Fds \cup {NoFd}, toSendFd : Fds \cup {NoFd}, toRecvFd : Fds \cup {NoFd},
   method : Methods \cup {"NOT_IMPL"}, cgi : BOOLEAN,
   parse : {"parsing", "uploading", "unending", "bad", "uploaded", "closed", "answered"},
   resp : Responses, pid : BOOLEAN, stale : BOOLEAN]

\* An Event of state st that reads requests from fd.
NewEvent(st, fd) ==
  [state |-> st, type |-> "HTTP_REQUEST_READABLE",
   clientFd |-> fd, toSendFd |-> fd, toRecvFd |-> fd,
   method |-> "NOT_IMPL", cgi |-> FALSE, parse |-> "parsing",
   resp |-> NoResponse, pid |-> FALSE, stale |-> FALSE]

TypeOK ==
  /\ server \in {"up"} \cup Exceptions \cup Halts
  /\ ev \in [Conns -> Events]
  /\ \A c \in Conns :
       /\ ev[c].state = "live" => {ev[c].clientFd, ev[c].toSendFd, ev[c].toRecvFd} \subseteq Fds
       /\ ev[c].resp.type = "FLUSH_ERR" => ev[c].resp.file \in Fds
  /\ kq \in [Keys -> Registration]
  /\ pending \in [Keys -> Seq(Change)]
  /\ errs \subseteq [key : Keys, ev : Conns \cup {Null}]
  /\ batch \subseteq [key : Keys, ev : Conns, eof : BOOLEAN]
  /\ accepts \in Nat
  /\ routed \in [Conns -> Nat]
  /\ fds \in [Fds -> {"free", "socket", "file"}]
  /\ closing \subseteq Fds
  /\ trash \in BOOLEAN

Init ==
  /\ server = "up"
  /\ ev = [c \in Conns |-> NewEvent("none", NoFd)]
  /\ kq = [k \in Keys |-> NoReg]
  /\ pending = EmptyList
  /\ errs = {} /\ batch = {} /\ accepts = 0
  /\ routed = [c \in Conns |-> 0]
  /\ fds = [f \in Fds |-> "free"]
  /\ closing = {}
  /\ trash = FALSE

-----------------------------------------------------------------------------
Live(c) == ev[c].state = "live"
FreeFds == {f \in Fds : fds[f] = "free"}
Client(c, filter) == <<ev[c].clientFd, filter>>

\* Descriptor tables and registrations after descriptors are opened or closed;
\* closing a descriptor removes its registrations.
Opened(S) == [f \in Fds |-> IF f \in S THEN "file" ELSE fds[f]]
Closed(table, S) == [f \in Fds |-> IF f \in S THEN "free" ELSE table[f]]
Dropped(S) == [k \in Keys |-> IF k[1] \in S THEN NoReg ELSE kq[k]]

\* What the handlers append to the change list for the client's socket.
StopReceiving(c) == Queue(pending, Client(c, "read"), "disable", c)

\* Mutant of StartSending: enableWriteEvent is forgotten.
NeverSending(c, p) == p

StartSending(c, p) == Queue(p, Client(c, "write"), "enable", c)

\* Mutant of BackToReceiving: enableReadEvent is forgotten.
OnlyStopSending(c) == Queue(pending, Client(c, "write"), "disable", c)

BackToReceiving(c) == Queue(Queue(pending, Client(c, "write"), "disable", c),
                            Client(c, "read"), "enable", c)

\* Mutant of NewConnection: the write registration starts enabled.
BothEnabled(c, f) == Queue(Queue(pending, <<f, "read">>, "add", c), <<f, "write">>, "add", c)

\* The registrations of a new connection: the write one starts disabled.
NewConnection(c, f) ==
  Queue(Queue(Queue(pending, <<f, "read">>, "add", c),
              <<f, "write">>, "add", c), <<f, "write">>, "disable", c)

\* Mutant of Initialized: the parsing state of the old request is kept.
StateKept(c) == [NewEvent("live", ev[c].clientFd) EXCEPT !.parse = ev[c].parse]

\* Event::initialize
Initialized(c) == NewEvent("live", ev[c].clientFd)

\* open(TEMP_TRASH, O_CREAT) and removeFile(TEMP_TRASH), which throws without it.
CreateTrash == trash' = TRUE
RemoveTrash == trash' = FALSE

Routing == server = "up" /\ (batch # {} \/ accepts > 0)
Waiting == server = "up" /\ batch = {} /\ accepts = 0 /\ \A c \in Conns : routed[c] = 0

\* Mutant of RemovedFile: the client's socket, which is closed at once, is deleted too.
SocketToo(c) ==
  CASE ev[c].type = "HTTP_REQUEST_UPLOAD"    -> {<<ev[c].toSendFd, "write">>, <<ev[c].clientFd, "read">>}
    [] ev[c].type = "HTTP_RESPONSE_DOWNLOAD" -> {<<ev[c].toRecvFd, "read">>, <<ev[c].clientFd, "read">>}
    [] OTHER -> {<<ev[c].clientFd, "read">>}

\* The file that an Event removed in the middle of a transfer is registered for.
RemovedFile(c) ==
  CASE ev[c].type = "HTTP_REQUEST_UPLOAD"    -> {<<ev[c].toSendFd, "write">>}
    [] ev[c].type = "HTTP_RESPONSE_DOWNLOAD" -> {<<ev[c].toRecvFd, "read">>}
    [] OTHER -> {}
Unregister(p, S) ==
  [k \in Keys |-> IF k \in S THEN Append(p[k], [flag |-> "delete", ev |-> Null]) ELSE p[k]]

\* removeConnection(event): the client's socket is closed here and now; its file
\* is deleted from the kqueue and closed one round later.  p and cl are what the
\* caller has made of pending and closing.
removeConnection(c, p, cl) ==
  /\ fds' = Closed(fds, {ev[c].clientFd})
  /\ kq' = Dropped({ev[c].clientFd})
  /\ closing' = cl \cup {k[1] : k \in RemovedFile(c)}
  /\ pending' = Unregister(p, RemovedFile(c))
  /\ ev' = [ev EXCEPT ![c] = NewEvent("freed", NoFd)]

-----------------------------------------------------------------------------
(* kevent(2) and the start of routeEvents *)

\* Time passes while kevent waits, the change list having been applied.
Age(c) ==
  /\ Waiting /\ pending = EmptyList /\ Live(c) /\ ev[c].type = "HTTP_REQUEST_READABLE" /\ ~ev[c].stale
  /\ ev' = [ev EXCEPT ![c].stale = TRUE]
  /\ UNCHANGED <<server, kq, pending, errs, batch, accepts, routed, fds, closing, trash>>

\* The kernel applies the change list; here the first change of every key.
ApplyChanges ==
  /\ Waiting /\ pending # EmptyList
  /\ LET failed == {k \in Keys : pending[k] # << >> /\ Fails(kq[k], fds[k[1]] # "free", Head(pending[k]))}
     IN /\ kq' = [k \in Keys |-> IF pending[k] = << >> \/ k \in failed THEN kq[k]
                                 ELSE Applied(kq[k], Head(pending[k]))]
        /\ errs' = errs \cup {[key |-> k, ev |-> Head(pending[k]).ev] : k \in failed}
  /\ pending' = Rest(pending)
  /\ UNCHANGED <<server, ev, batch, accepts, routed, fds, closing, trash>>

\* What kevent returns: registrations that are ready, sockets whose peer has
\* gone among them (hups), and the changes that failed.
Returned(ready, hups) ==
  {[key |-> k, ev |-> kq[k].ev, eof |-> k \in hups] : k \in ready}
    \cup {[key |-> e.key, ev |-> e.ev, eof |-> FALSE] : e \in errs}

\* Mutant of Touched: the kevent of a change that failed is handled like any other.
ErrorsIgnored(got) == "up"

\* _updateEventsTimestamp dereferences the udata of every kevent.
Touched(got) ==
  CASE \E b \in got : b.ev = Null -> "null_udata"
    [] \A b \in got : b.ev # Null /\ ev[b.ev].state = "live" -> "up"
    [] OTHER -> "freed_event"

\* Mutant of Stamped: only a handler that has run updates the timestamp.
NotStamped(got) == ev

Stamped(got) ==
  [c \in Conns |-> IF \E b \in got : b.ev = c THEN [ev[c] EXCEPT !.stale = FALSE] ELSE ev[c]]

clearFileFds ==
  /\ fds' = Closed(fds, closing)
  /\ kq' = Dropped(closing)
  /\ closing' = {}

Kevent ==
  /\ Waiting /\ pending = EmptyList
  /\ \E ready \in SUBSET {k \in Keys : kq[k].st = "on"}, n \in 0..Ports :
     \E hups \in SUBSET {k \in ready : fds[k[1]] = "socket"} :
       LET got == Returned(ready, hups) IN
       /\ got # {} \/ n > 0
       /\ n <= Cardinality({c \in Conns : ev[c].state = "none"})
       /\ server' = Touched(got)
       /\ batch' = IF Touched(got) = "up" THEN got ELSE {}
       /\ accepts' = n
       /\ ev' = IF Touched(got) = "up" THEN Stamped(got) ELSE ev
  /\ errs' = {}
  /\ clearFileFds
  /\ UNCHANGED <<pending, routed, trash>>

\* _checkConnectionTimeout: all connections that have been idle too long are
\* removed; they read requests, so removeConnection only closes sockets.
Idle == {c \in Conns : Live(c) /\ ev[c].type = "HTTP_REQUEST_READABLE" /\ ev[c].stale}

\* Mutant of Evicted: the socket is closed but the Event stays in _connections.
NotErased == ev

Evicted == [c \in Conns |-> IF c \in Idle THEN NewEvent("freed", NoFd) ELSE ev[c]]
IdleFds == {ev[c].clientFd : c \in Idle}

KeventTimeout ==
  /\ Waiting /\ pending = EmptyList /\ errs = {}
  /\ Idle # {} \/ closing # {}
  /\ ev' = Evicted
  /\ fds' = Closed(fds, IdleFds \cup closing)
  /\ kq' = Dropped(IdleFds \cup closing)
  /\ closing' = {}
  /\ UNCHANGED <<server, pending, errs, batch, accepts, routed, trash>>

-----------------------------------------------------------------------------
(* routeEvents: one kevent of the batch.  (A kevent whose Event an earlier  *)
(* kevent of the batch has freed is never routed here: see LiveDispatch.)   *)

Route(b) ==
  /\ server = "up" /\ b \in batch /\ Live(b.ev)
  /\ batch' = batch \ {b}
  /\ UNCHANGED <<errs, accepts, trash>>

RouteEof(b) ==
  /\ Route(b) /\ b.eof
  /\ removeConnection(b.ev, pending, closing)
  /\ UNCHANGED <<server, routed>>

\* _routeRecvEvent: parseRequest needs more bytes, or the CGI program runs on
StillReceiving(b) ==
  /\ Route(b) /\ ~b.eof
  /\ \/ ev[b.ev].type = "HTTP_REQUEST_READABLE" /\ ev[b.ev].parse = "parsing"
     \/ ev[b.ev].type = "CGI_RESPONSE_READABLE" /\ ev[b.ev].parse # "answered"
  /\ UNCHANGED <<server, ev, kq, pending, routed, fds, closing>>

\* isRecvError: the Event is deleted, and _routeEvent then writes its timestamp;
\* the sanitizer of the default build stops the process there.
ReceiveError(b) ==
  /\ Route(b) /\ ~b.eof
  /\ \/ ev[b.ev].type = "HTTP_REQUEST_READABLE" /\ "recv" \in Faults
     \/ ev[b.ev].type = "CGI_RESPONSE_READABLE" /\ ev[b.ev].parse # "answered" /\ "cgi" \in Faults
  /\ removeConnection(b.ev, pending, closing)
  /\ server' \in {"up", "freed_stamp"}
  /\ UNCHANGED routed

\* isParsingEnd of a request: its method (NOT_IMPL if the start line is broken),
\* whether it names a CGI program, and whether it is malformed are now known.  A
\* request that was parsed in a round that ended in a reboot is routed as it is.
RequestParsed(c) ==
  \/ /\ ev[c].parse # "parsing" /\ UNCHANGED ev
  \/ /\ ev[c].parse = "parsing"
     /\ \E m \in Methods \cup {"NOT_IMPL"}, cgi \in BOOLEAN, p \in {"uploading", "unending", "bad"} :
          /\ cgi => m \in {"GET", "POST", "PUT"}
          /\ p \in {"unending", "bad"} => "bad" \in Faults
          /\ p # "bad" => m \in Methods
          /\ ev' = [ev EXCEPT ![c].method = m, ![c].cgi = cgi, ![c].parse = p]

ReceiveDone(b) ==
  /\ Route(b) /\ ~b.eof
  /\ \/ ev[b.ev].type = "HTTP_REQUEST_READABLE" /\ RequestParsed(b.ev)
     \/ ev[b.ev].type = "CGI_RESPONSE_READABLE" /\ ev' = [ev EXCEPT ![b.ev].parse = "answered"]
  /\ routed' = [routed EXCEPT ![b.ev] = @ + 1]
  /\ UNCHANGED <<server, kq, pending, fds, closing>>

\* parseRequest does not return normally: the loop over the chunks of a malformed
\* body stands still; or a CGI response is parsed again, which happens after a round
\* that ended in a reboot, and lseek is asked to go back beyond the file's beginning.
ParsingFails(b) ==
  /\ Route(b) /\ ~b.eof
  /\ \/ /\ ev[b.ev].type = "HTTP_REQUEST_READABLE" /\ ev[b.ev].parse = "parsing"
        /\ "bad" \in Faults /\ server' = "endless"
     \/ /\ ev[b.ev].type = "CGI_RESPONSE_READABLE" /\ ev[b.ev].parse = "answered"
        /\ server' = "bad_seek"
  /\ UNCHANGED <<ev, kq, pending, routed, fds, closing>>

RouteOther(b) ==
  /\ Route(b) /\ ~b.eof
  /\ ev[b.ev].type \notin {"HTTP_REQUEST_READABLE", "CGI_RESPONSE_READABLE"}
  /\ routed' = [routed EXCEPT ![b.ev] = @ + 1]
  /\ UNCHANGED <<server, ev, kq, pending, fds, closing>>

\* A listening socket: idle connections are removed first, then one is accepted.
CheckTimeoutAndAccept ==
  /\ server = "up" /\ accepts > 0
  /\ accepts' = accepts - 1
  /\ kq' = Dropped(IdleFds)
  /\ UNCHANGED <<errs, batch, routed, closing, trash>>

addConnection ==
  /\ CheckTimeoutAndAccept
  /\ \E c \in Conns : \E f \in LowestOf(FreeFds \cup IdleFds) :
       /\ ev[c].state = "none"
       /\ ev' = [Evicted EXCEPT ![c] = NewEvent("live", f)]
       /\ fds' = [Closed(fds, IdleFds) EXCEPT ![f] = "socket"]
       /\ pending' = NewConnection(c, f)
  /\ UNCHANGED server

AcceptFails ==
  /\ CheckTimeoutAndAccept /\ "accept" \in Faults
  /\ ev' = Evicted
  /\ fds' = Closed(fds, IdleFds)
  /\ server' = "accept_failed"
  /\ UNCHANGED pending

-----------------------------------------------------------------------------
(* VirtualServer::start: one routed Event *)

Serve(c, type) ==
  /\ server = "up" /\ ~Routing /\ routed[c] > 0
  /\ Live(c) /\ ev[c].type = type
  /\ routed' = [routed EXCEPT ![c] = @ - 1]
  /\ UNCHANGED <<errs, batch, accepts>>

\* _processHttpRequestReadable, CGI: the body goes to a temporary file first.
BeginCgi(c) ==
  /\ Serve(c, "HTTP_REQUEST_READABLE") /\ ev[c].cgi
  /\ \/ \E f \in LowestOf(FreeFds) :
          /\ fds' = Opened({f})
          /\ ev' = [ev EXCEPT ![c].type = "HTTP_REQUEST_UPLOAD", ![c].toSendFd = f]
          /\ pending' = Queue(StopReceiving(c), <<f, "write">>, "add", c)
          /\ UNCHANGED server
     \/ /\ "open" \in Faults /\ server' = "open_failed"
        /\ UNCHANGED <<ev, pending, fds>>
  /\ UNCHANGED <<kq, closing, trash>>

\* _processHttpRequestReadable, the response is made at once.  Where its bytes
\* come from and go to decides the Event's next type; a request body nobody
\* wants is flushed to TEMP_TRASH first.
NextType(r) ==
  CASE r.type = "POST" -> "HTTP_REQUEST_UPLOAD"
    [] r.type = "GET"  -> "HTTP_RESPONSE_DOWNLOAD"
    [] r.type = "DEL"  -> "HTTP_RESPONSE_WRITABLE"
    [] OTHER           -> "BUFFER_FLUSH"
BeginResponse(c, o) ==
  LET p == StopReceiving(c)
      e == [ev EXCEPT ![c].resp = o.resp, ![c].type = NextType(o.resp)]
  IN
  /\ closing' = closing \cup o.closing
  /\ UNCHANGED kq
  /\ \/ /\ o.resp.type = "POST"
        /\ ev' = [e EXCEPT ![c].toSendFd = o.resp.file]
        /\ pending' = Queue(p, <<o.resp.file, "write">>, "add", c)
        /\ fds' = Opened(o.opened) /\ UNCHANGED <<server, trash>>
     \/ /\ o.resp.type = "GET"
        /\ ev' = [e EXCEPT ![c].toRecvFd = o.resp.file]
        /\ pending' = Queue(p, <<o.resp.file, "read">>, "add", c)
        /\ fds' = Opened(o.opened) /\ UNCHANGED <<server, trash>>
     \/ /\ o.resp.type = "DEL"
        /\ ev' = [e EXCEPT ![c].toSendFd = ev[c].clientFd]
        /\ pending' = StartSending(c, p)
        /\ fds' = Opened(o.opened) /\ UNCHANGED <<server, trash>>
     \/ /\ o.resp.type \in {"FLUSH", "FLUSH_ERR"}
        /\ \E f \in LowestOf(FreeFds \ o.opened) :
             /\ ev' = [e EXCEPT ![c].toSendFd = f]
             /\ pending' = Queue(p, <<f, "write">>, "add", c)
             /\ fds' = Opened(o.opened \cup {f})
        /\ CreateTrash /\ UNCHANGED server
     \/ /\ o.resp.type \in {"FLUSH", "FLUSH_ERR"} /\ "open" \in Faults
        /\ ev' = e /\ pending' = p /\ fds' = Opened(o.opened)
        /\ server' = "open_failed" /\ UNCHANGED trash

ProcessRequest(c) ==
  /\ Serve(c, "HTTP_REQUEST_READABLE") /\ ~ev[c].cgi
  /\ \E o \in makeResponse(ev[c].method, ev[c].parse = "bad", FreeFds) : BeginResponse(c, o)

\* No response is made: open(2) fails, and what a 413 opened stays open; readdir(3)
\* is given the NULL that opendir(3) returned; the location is cut off an empty URI.
NoResponseMade(c) ==
  \/ /\ "open" \in Faults /\ server' = "open_failed"
     /\ \/ UNCHANGED fds
        \/ /\ ev[c].method = "GET" /\ ev[c].parse # "bad" /\ "big" \in Faults
           /\ \E f \in LowestOf(FreeFds) : fds' = Opened({f})
  \/ /\ ev[c].method \in {"GET", "HEAD", "DELETE"} /\ ev[c].parse # "bad" /\ "open" \in Faults
     /\ server' = "null_directory" /\ UNCHANGED fds
  \/ /\ ev[c].method # "NOT_IMPL" /\ ev[c].parse # "bad" /\ "uri" \in Faults
     /\ server' = "empty_uri" /\ UNCHANGED fds
ProcessRequestThrows(c) ==
  /\ Serve(c, "HTTP_REQUEST_READABLE") /\ ~ev[c].cgi
  /\ NoResponseMade(c)
  /\ UNCHANGED <<ev, kq, pending, closing, trash>>

\* _findLocationInfo cuts a URI at its last slash until there is none left.
LookupNeverEnds(c) ==
  /\ Serve(c, "HTTP_REQUEST_READABLE") /\ "uri" \in Faults
  /\ server' = "endless"
  /\ UNCHANGED <<ev, kq, pending, fds, closing, trash>>

\* The parsing states that uploadRequest can leave behind ("closed" stands for
\* HTTP_PARSING_CONNECTION_CLOSED and HTTP_PARSING_TIME_OUT).
UploadingStates == {"uploading", "unending"}
UploadRequest(c) ==
  (IF ev[c].parse # "uploading" THEN {ev[c].parse}
   ELSE {"uploading", "uploaded"} \cup (IF "bad" \in Faults THEN {"bad"} ELSE {}))
    \cup (IF ev[c].parse \in UploadingStates /\ "write" \in Faults THEN {"closed"} ELSE {})

\* delete event.httpResponse: undefined if it was deleted before.
Deleted(r) == IF r.type = "NULL" THEN r ELSE FreedResponse
\* The first half of `delete event.httpResponse; event.httpResponse =
\* errorResponse(...)` has been executed and the second half throws.
ErrorResponseThrows(c, parse) ==
  /\ "open" \in Faults
  /\ ev' = [ev EXCEPT ![c].resp = Deleted(ev[c].resp), ![c].parse = parse]
  /\ server' = "open_failed"

\* Mutant of SentFileDeleted: deleteWriteEvent is forgotten.
SentFileKept(c) == pending

SentFileDeleted(c) == Queue(pending, <<ev[c].toSendFd, "write">>, "delete", Null)

\* _redirectUploadError, with the response r already made.
redirectUploadError(c, r, parse) ==
  LET p == SentFileDeleted(c)
      e == [ev EXCEPT ![c].resp = r, ![c].parse = parse]
  IN
  \/ /\ r.type = "FLUSH"
     /\ ev' = [e EXCEPT ![c].type = "HTTP_RESPONSE_WRITABLE", ![c].toSendFd = ev[c].clientFd]
     /\ pending' = StartSending(c, p)
     /\ UNCHANGED server
  \/ /\ r.type = "FLUSH_ERR"
     /\ ev' = [e EXCEPT ![c].type = "HTTP_RESPONSE_DOWNLOAD", ![c].toRecvFd = r.file]
     /\ pending' = Queue(p, <<r.file, "read">>, "add", c)
     /\ UNCHANGED server
  \/ /\ r.type \notin {"FLUSH", "FLUSH_ERR"}
     /\ ev' = e /\ pending' = p
     /\ server' = "wrong_routine"

\* _uploadFile
Upload(c) == Serve(c, "HTTP_REQUEST_UPLOAD") /\ UNCHANGED trash

UploadMore(c) ==
  /\ Upload(c) /\ ev[c].parse \in UploadingStates
  /\ UNCHANGED <<server, ev, kq, pending, fds, closing>>

UploadClosed(c) ==
  /\ Upload(c) /\ "closed" \in UploadRequest(c)
  /\ removeConnection(c, pending, closing)
  /\ UNCHANGED server

UploadBad(c) ==
  /\ Upload(c) /\ "bad" \in UploadRequest(c) /\ ev[c].resp.type # "FREED"
  /\ \/ \E o \in errorResponses(ev[c].method, FreeFds) :
          /\ redirectUploadError(c, o.resp, "bad")
          /\ fds' = Opened(o.opened)
     \/ ErrorResponseThrows(c, "bad") /\ UNCHANGED <<pending, fds>>
  /\ UNCHANGED <<kq, closing>>

\* The handlers that delete the response a second time.
DeletesTwice(c) ==
  /\ server = "up" /\ ~Routing /\ routed[c] > 0 /\ Live(c)
  /\ ev[c].type \in {"HTTP_REQUEST_UPLOAD", "BUFFER_FLUSH"} /\ ev[c].resp.type = "FREED"
  /\ server' = "double_free"
  /\ UNCHANGED <<ev, kq, pending, errs, batch, accepts, routed, fds, closing, trash>>

\* HTTP_UPLOADING_DONE: the file is registered to be closed and deleted from the
\* kqueue, then _callCgi is tried.
Uploaded(c) == [ev EXCEPT ![c].parse = "uploaded"]
UploadDone(c) ==
  /\ Upload(c) /\ "uploaded" \in UploadRequest(c)
  /\ closing' = closing \cup {ev[c].toSendFd}
  /\ UNCHANGED kq

UploadedFile(c) ==
  /\ UploadDone(c) /\ ~ev[c].cgi /\ ev[c].resp.type = "POST"
  /\ ev' = [Uploaded(c) EXCEPT ![c].type = "HTTP_RESPONSE_WRITABLE",
                               ![c].toSendFd = ev[c].clientFd]
  /\ pending' = StartSending(c, SentFileDeleted(c))
  /\ UNCHANGED <<server, fds>>

\* The CGI program runs; its output is read from the response file.
CgiStarted(c) ==
  /\ UploadDone(c) /\ ev[c].cgi
  /\ \/ \E f \in LowestOf(FreeFds) :
          /\ fds' = Opened({f})
          /\ ev' = [Uploaded(c) EXCEPT ![c].type = "CGI_RESPONSE_READABLE",
                                       ![c].toRecvFd = f, ![c].pid = TRUE]
          /\ pending' = Queue(SentFileDeleted(c), <<f, "read">>, "add", c)
          /\ UNCHANGED server
     \/ /\ "open" \in Faults /\ server' = "open_failed"
        /\ ev' = [Uploaded(c) EXCEPT ![c].pid = TRUE]
        /\ pending' = SentFileDeleted(c) /\ UNCHANGED fds

\* fork() fails: an error page is sent, if its type is TYPE_FLUSH_ERR.
CgiForkFails(c) ==
  /\ UploadDone(c) /\ ev[c].cgi /\ "fork" \in Faults
  /\ \/ \E o \in errorResponses(ev[c].method, FreeFds) :
          /\ fds' = Opened(o.opened)
          /\ \/ /\ o.resp.type = "FLUSH_ERR"
                /\ ev' = [Uploaded(c) EXCEPT ![c].type = "HTTP_RESPONSE_DOWNLOAD",
                                             ![c].toRecvFd = o.resp.file, ![c].resp = o.resp]
                /\ pending' = Queue(SentFileDeleted(c), <<o.resp.file, "read">>, "add", c)
                /\ UNCHANGED server
             \/ /\ o.resp.type # "FLUSH_ERR" /\ server' = "unexpected_type"
                /\ ev' = [Uploaded(c) EXCEPT ![c].resp = o.resp]
                /\ pending' = SentFileDeleted(c)
     \/ /\ "open" \in Faults /\ server' = "open_failed"
        /\ ev' = Uploaded(c) /\ pending' = SentFileDeleted(c) /\ UNCHANGED fds

\* _flushBuffer: a body nobody wants.  FileManager::removeFile(TEMP_TRASH)
\* throws when another connection has already removed the file.
Flush(c) == Serve(c, "BUFFER_FLUSH") /\ UNCHANGED kq

FlushMore(c) ==
  /\ Flush(c) /\ ev[c].parse \in UploadingStates
  /\ UNCHANGED <<server, ev, pending, fds, closing, trash>>

FlushClosed(c) ==
  /\ Serve(c, "BUFFER_FLUSH") /\ "closed" \in UploadRequest(c)
  /\ RemoveTrash
  /\ \/ /\ trash
        /\ removeConnection(c, SentFileDeleted(c), closing \cup {ev[c].toSendFd})
        /\ UNCHANGED server
     \/ /\ ~trash /\ server' = "no_trash"
        /\ ev' = [ev EXCEPT ![c].parse = "closed"]
        /\ UNCHANGED <<kq, pending, fds, closing>>

FlushBad(c) ==
  /\ Flush(c) /\ "bad" \in UploadRequest(c) /\ ev[c].resp.type # "FREED"
  /\ \/ \E o \in errorResponses(ev[c].method, FreeFds) :
          /\ fds' = Opened(o.opened) /\ RemoveTrash
          /\ \/ trash /\ redirectUploadError(c, o.resp, "bad")
             \/ /\ ~trash /\ server' = "no_trash"
                /\ ev' = [ev EXCEPT ![c].parse = "bad", ![c].resp = o.resp]
                /\ UNCHANGED pending
     \/ ErrorResponseThrows(c, "bad") /\ UNCHANGED <<pending, fds, trash>>
  /\ UNCHANGED closing

\* HTTP_UPLOADING_DONE: a body over maxBodySize turns the answer into a 413.
FlushAnswers(c) ==
  {Outcome(ev[c].resp, {}, {})} \cup
    (IF "big" \in Faults THEN errorResponses(ev[c].method, FreeFds) ELSE {})
FlushDone(c) ==
  /\ Flush(c) /\ "uploaded" \in UploadRequest(c) /\ ev[c].resp.type # "FREED"
  /\ \/ \E o \in FlushAnswers(c) :
          /\ fds' = Opened(o.opened) /\ RemoveTrash
          /\ \/ /\ trash /\ redirectUploadError(c, o.resp, "uploaded")
                /\ closing' = closing \cup {ev[c].toSendFd}
             \/ /\ ~trash /\ server' = "no_trash"
                /\ ev' = [ev EXCEPT ![c].parse = "uploaded", ![c].resp = o.resp]
                /\ UNCHANGED <<pending, closing>>
     \/ /\ "big" \in Faults /\ ErrorResponseThrows(c, "uploaded")
        /\ UNCHANGED <<pending, fds, closing, trash>>

\* Mutant of ReceivedFileDeleted: deleteReadEvent is called twice.
DeletedTwice(c) == Queue(Queue(pending, <<ev[c].toRecvFd, "read">>, "delete", Null),
                         <<ev[c].toRecvFd, "read">>, "delete", Null)

\* _downloadFile: a file is read into the response.
ReceivedFileDeleted(c) == Queue(pending, <<ev[c].toRecvFd, "read">>, "delete", Null)
Download(c) == Serve(c, "HTTP_RESPONSE_DOWNLOAD") /\ UNCHANGED trash

DownloadMore(c) ==
  /\ Download(c)
  /\ UNCHANGED <<server, ev, kq, pending, fds, closing>>

\* The file is deleted from the kqueue here and, once more, by removeConnection.
DownloadFails(c) ==
  /\ Download(c) /\ "read" \in Faults
  /\ removeConnection(c, ReceivedFileDeleted(c), closing \cup {ev[c].toRecvFd})
  /\ UNCHANGED server

DownloadDone(c) ==
  /\ Download(c)
  /\ closing' = closing \cup {ev[c].toRecvFd}
  /\ ev' = [ev EXCEPT ![c].type = "HTTP_RESPONSE_WRITABLE", ![c].toSendFd = ev[c].clientFd,
                      ![c].resp.state = "HTTP_SENDING_STORAGE"]
  /\ pending' = StartSending(c, ReceivedFileDeleted(c))
  /\ UNCHANGED <<server, kq, fds>>

\* _cgiResponseToHttpResponse.  An error page made here keeps its own length and
\* state, but the bytes are read from the CGI program's file.
CgiAnswers ==
  {Outcome(Response("CGI", s, NoFd), {}, {}) : s \in {"HTTP_DOWNLOADING_INIT", "HTTP_SENDING_STORAGE"}}
CgiReply(c) ==
  /\ Serve(c, "CGI_RESPONSE_READABLE")
  /\ \E body \in BOOLEAN,
        o \in CgiAnswers \cup (IF "old" \in Faults THEN errorResponses(ev[c].method, FreeFds) ELSE {}) :
       /\ o.resp.type = "CGI" => (body <=> o.resp.state = "HTTP_DOWNLOADING_INIT")
       /\ fds' = Opened(o.opened)
       /\ \/ /\ body
             /\ ev' = [ev EXCEPT ![c].type = "HTTP_RESPONSE_DOWNLOAD",
                                 ![c].resp = [o.resp EXCEPT !.file = ev[c].toRecvFd]]
             /\ UNCHANGED <<pending, closing>>
          \/ /\ ~body
             /\ closing' = closing \cup {ev[c].toRecvFd}
             /\ ev' = [ev EXCEPT ![c].type = "HTTP_RESPONSE_WRITABLE",
                                 ![c].toSendFd = ev[c].clientFd, ![c].resp = o.resp]
             /\ pending' = StartSending(c, ReceivedFileDeleted(c))
  /\ UNCHANGED <<server, kq, trash>>

\* _sendResponse; a response still in HTTP_DOWNLOADING_INIT sends nothing.
Send(c) == Serve(c, "HTTP_RESPONSE_WRITABLE") /\ UNCHANGED trash

SendMore(c) ==
  /\ Send(c) /\ ev[c].resp.state # "HTTP_SENDING_DONE"
  /\ UNCHANGED <<server, ev, kq, pending, fds, closing>>

\* The peer is gone: send fails, or SIGPIPE, which nobody handles, ends the server.
SendFails(c) ==
  /\ Send(c) /\ ev[c].resp.state = "HTTP_SENDING_STORAGE" /\ "send" \in Faults
  /\ \/ removeConnection(c, pending, closing) /\ UNCHANGED server
     \/ server' = "sigpipe" /\ UNCHANGED <<ev, kq, pending, fds, closing>>

\* _finishResponse: close the connection ...
FinishAndClose(c) ==
  /\ Send(c) /\ ev[c].resp.state = "HTTP_SENDING_STORAGE"
  /\ removeConnection(c, pending, closing)
  /\ UNCHANGED server

\* ... or keep it alive, which a 400 never is.  Event::initialize first removes
\* the files of the CGI program, and throws as long as it finds one missing.
FinishAndKeepAlive(c) ==
  /\ Send(c) /\ ev[c].resp.state # "HTTP_DOWNLOADING_INIT" /\ ev[c].parse # "bad"
  /\ \/ /\ ev[c].resp.state = "HTTP_SENDING_STORAGE"
        /\ ev' = [ev EXCEPT ![c] = Initialized(c)]
        /\ pending' = BackToReceiving(c)
        /\ UNCHANGED server
     \/ /\ ev[c].pid /\ "cgi" \in Faults
        /\ ev' = [ev EXCEPT ![c].resp.state = "HTTP_SENDING_DONE"]
        /\ server' = "no_files"
        /\ UNCHANGED pending
  /\ UNCHANGED <<kq, fds, closing>>

\* main catches the exception and starts the router again: what the round had
\* still to route and to serve is dropped, the change list is kept.
Reboot ==
  /\ server \in Exceptions
  /\ server' = "up"
  /\ batch' = {} /\ accepts' = 0
  /\ routed' = [c \in Conns |-> 0]
  /\ UNCHANGED <<ev, kq, pending, errs, fds, closing, trash>>

-----------------------------------------------------------------------------
ServeReadable(c) ==
  BeginCgi(c) \/ ProcessRequest(c) \/ ProcessRequestThrows(c) \/ LookupNeverEnds(c)
ServeUpload(c) == \/ UploadMore(c) \/ UploadClosed(c) \/ UploadBad(c)
                  \/ UploadedFile(c) \/ CgiStarted(c) \/ CgiForkFails(c)
ServeFlush(c) == FlushMore(c) \/ FlushClosed(c) \/ FlushBad(c) \/ FlushDone(c)
ServeDownload(c) == DownloadMore(c) \/ DownloadFails(c) \/ DownloadDone(c)
ServeWritable(c) == SendMore(c) \/ SendFails(c) \/ FinishAndClose(c) \/ FinishAndKeepAlive(c)

RouteOne(b) == \/ RouteEof(b) \/ StillReceiving(b) \/ ReceiveError(b) \/ ReceiveDone(b)
               \/ ParsingFails(b) \/ RouteOther(b)
ServeOne(c) == \/ ServeReadable(c) \/ ServeUpload(c) \/ ServeFlush(c) \/ ServeDownload(c)
               \/ CgiReply(c) \/ ServeWritable(c) \/ DeletesTwice(c)

Next ==
  \/ \E c \in Conns : Age(c)
  \/ ApplyChanges \/ Kevent \/ KeventTimeout
  \/ \E b \in batch : RouteOne(b)
  \/ addConnection \/ AcceptFails
  \/ \E c \in Conns : ServeOne(c)
  \/ Reboot

Spec == Init /\ [][Next]_vars

\* The loop never stops by itself; kqueue is level-triggered and returns what is
\* ready, again and again: a file being written to always is, a client's socket is
\* because clients read their responses.  A body is finite, unless its sizes are
\* malformed, and so is a response: no upload and no sending has more to do for ever.
\* Nothing is assumed of a client's next bytes, of a CGI program, or of a file being read.
Writes(c) == ev[c].type \in {"HTTP_REQUEST_UPLOAD", "BUFFER_FLUSH", "HTTP_RESPONSE_WRITABLE"}
ReportsToRoute(c) == Writes(c) /\ Kevent /\ \E b \in batch' : b.ev = c
Completes(c) == \/ UploadedFile(c) \/ CgiStarted(c) \/ FlushDone(c)
                \/ FinishAndClose(c) \/ FinishAndKeepAlive(c)
Fairness ==
  /\ WF_vars(ApplyChanges)
  /\ WF_vars(\E b \in batch : RouteOne(b))
  /\ WF_vars(addConnection \/ AcceptFails)
  /\ WF_vars(Reboot)
  /\ WF_vars(\E c \in Conns : ServeOne(c))
  /\ \A c \in Conns : SF_vars(ReportsToRoute(c)) /\ SF_vars(Completes(c))
FairSpec == Spec /\ Fairness

-----------------------------------------------------------------------------
(* Properties *)

\* The registration that should wake Event c up.
Active(c) ==
  CASE ev[c].type = "HTTP_REQUEST_READABLE"  -> Client(c, "read")
    [] ev[c].type = "HTTP_RESPONSE_WRITABLE" -> Client(c, "write")
    [] ev[c].type \in {"HTTP_REQUEST_UPLOAD", "BUFFER_FLUSH"} -> <<ev[c].toSendFd, "write">>
    [] OTHER -> <<ev[c].toRecvFd, "read">>

\* The registration of k once the change list is applied: its last change decides.
Effective(k) ==
  IF pending[k] = << >> THEN kq[k] ELSE Applied(kq[k], pending[k][Len(pending[k])])

\* What is being routed or waits to be served is alive, and occurs once: no
\* handler of a round can be given an Event that an earlier one has deleted.
Dispatched(c) == routed[c] > 0 \/ \E b \in batch : b.ev = c
LiveDispatch ==
  /\ \A b \in batch : Live(b.ev)
  /\ \A c \in Conns : routed[c] > 0 => Live(c)
DispatchOnce ==
  /\ \A b1, b2 \in batch : b1.ev = b2.ev => b1 = b2
  /\ \A c \in Conns : routed[c] =< 1
  /\ \A b \in batch : routed[b.ev] = 0

\* At most one enabled registration leads to an Event, the one its type reads
\* or writes: this is what DispatchOnce rests on.
OneInterest ==
  \A k \in Keys : LET r == Effective(k) IN
    r.st = "on" /\ r.ev # Null /\ Live(r.ev) => k = Active(r.ev)

\* As long as open(2) never fails, a connection that is not being dispatched is
\* registered for what it waits for: it cannot be forgotten while it is open.
NeverDeaf ==
  "open" \notin Faults /\ server \in {"up"} \cup Exceptions =>
    \A c \in Conns : Live(c) /\ ~Dispatched(c) =>
      Effective(Active(c)) = [st |-> "on", ev |-> c]

\* A descriptor that waits to be closed is an open file whose registration the
\* next kevent deletes before clearFileFds closes it: close never fails, and
\* never takes a registration away from under an Event.
CloseDiscipline ==
  \A f \in closing :
    /\ fds[f] = "file"
    /\ Effective(<<f, "read">>) = NoReg /\ Effective(<<f, "write">>) = NoReg

\* A descriptor number that can be given out again has nothing in the change
\* list: a new connection or file never inherits the changes of an old one.
NoStaleChange ==
  \A k \in Keys : fds[k[1]] = "free" => pending[k] = << >> /\ kq[k] = NoReg

\* No two Events use one descriptor, and what an Event uses is open: its client's
\* socket, and the file it moves bytes to or from.
Moves(c) == {k[1] : k \in {j \in {Active(c)} : Effective(j) = [st |-> "on", ev |-> c]}}
Uses(c) == {ev[c].clientFd} \cup Moves(c)
FdOwnership ==
  \A c \in Conns : Live(c) =>
    /\ fds[ev[c].clientFd] = "socket"
    /\ \A f \in Moves(c) : f = ev[c].clientFd \/ fds[f] = "file"
    /\ \A d \in Conns \ {c} : Live(d) => Uses(c) \cap Uses(d) = {}

\* Without the failures listed here no descriptor is lost: every open one is
\* used by a live Event, kept in its response, or about to be closed.
LeakCauses == {"open", "bad", "big", "old", "cgi", "write", "nested"}
Reachable ==
  closing \cup UNION {Uses(c) \cup {ev[c].resp.file} : c \in {d \in Conns : Live(d)}}
NoLeak == Faults \cap LeakCauses = {} => \A f \in Fds : fds[f] # "free" => f \in Reachable

\* What each end, standstill and reboot of the model takes.  With none of the
\* failures that throw, TEMP_TRASH is missing only because of two connections that
\* flushed their bodies to that one file, and a CGI response is parsed again only
\* after another connection caused a reboot.
Malformed == {"bad", "uri"}
Throwing == {"accept", "open", "cgi", "uri"}
Flushing(c) == Live(c) /\ ev[c].type = "BUFFER_FLUSH"
HaltCauses ==
  /\ server = "null_udata"  => "read" \in Faults
  /\ server = "freed_event" => "cgi" \in Faults
  /\ server = "freed_stamp" => Faults \cap {"recv", "cgi"} # {}
  /\ server = "double_free" => "open" \in Faults
  /\ server = "wrong_routine" => "bad" \in Faults /\ "GET" \in Methods
  /\ server = "unexpected_type" => "fork" \in Faults /\ "GET" \in Methods
  /\ server = "sigpipe" =>
       "send" \in Faults /\ \E c \in Conns : Live(c) /\ ev[c].type = "HTTP_RESPONSE_WRITABLE"
  /\ server = "null_directory" => "open" \in Faults /\ Methods \cap {"GET", "HEAD", "DELETE"} # {}
  /\ server = "endless" => Faults \cap Malformed # {}
  /\ server = "accept_failed" => "accept" \in Faults
  /\ server = "open_failed" => "open" \in Faults
  /\ server = "no_files" => "cgi" \in Faults
  /\ server = "empty_uri" => "uri" \in Faults
  /\ server = "no_trash" /\ "open" \notin Faults =>
       ~trash /\ \E c \in Conns : Flushing(c) /\ \E d \in Conns \ {c} : ev[d].state # "none"
  /\ server = "bad_seek" /\ Faults \cap Throwing = {} =>
       \E c, d \in Conns : c # d /\ ev[c].state # "none" /\ ev[d].state # "none"

\* The text of the string that _redirectUploadError throws: it is for a FLUSH response.
NeverWrongRoutine == server # "wrong_routine"

\* A parsed request that nobody will ever answer: a step that should follow an
\* open(2) that failed, on a file that is not registered; or a response that still
\* waits for a body that no file will give it, and has nothing to send.
FileSteps ==
  {"HTTP_REQUEST_UPLOAD", "BUFFER_FLUSH", "HTTP_RESPONSE_DOWNLOAD", "CGI_RESPONSE_READABLE"}
Lost(c) ==
  \/ ev[c].type \in FileSteps /\ Effective(Active(c)) # [st |-> "on", ev |-> c]
  \/ ev[c].type = "HTTP_RESPONSE_WRITABLE" /\ ev[c].resp.state = "HTTP_DOWNLOADING_INIT"

\* The CGI program and the file being read decide whether it goes on.
AwaitsFile(c) == ev[c].type \in {"CGI_RESPONSE_READABLE", "HTTP_RESPONSE_DOWNLOAD"}

\* A reboot has dropped the parsed request: it is only looked at when the client
\* sends more.
Forgotten(c) == ev[c].type = "HTTP_REQUEST_READABLE" /\ ~Dispatched(c)

\* A parsed request is answered in the end (the Event is back at the start of a
\* request) or its connection is closed, unless it is lost, forgotten, has a body
\* that never ends, waits for a CGI program or a file for ever (StuckCauses in
\* CgiHandOff and in Transfer say when they make it do so), or the server reboots
\* or ends.
EveryRequestAnswered ==
  \A c \in Conns : (Live(c) /\ ev[c].parse # "parsing")
    ~> \/ ~Live(c) \/ ev[c].parse = "parsing" \/ ev[c].parse = "unending"
       \/ Lost(c) \/ Forgotten(c) \/ server # "up" \/ []AwaitsFile(c)
=============================================================================
