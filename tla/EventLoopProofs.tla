-------------------------- MODULE EventLoopProofs --------------------------
(***************************************************************************)
(* Proofs about EventLoop, for every set of connections and descriptors    *)
(* and every combination of failures.                                      *)
(*                                                                         *)
(* First, type correctness, and that the steps keep IInv: the handlers of  *)
(* VirtualServer, removeConnection, then the kernel, the routing and time. *)
(* A handler of connection c only touches descriptors that are c's own     *)
(* (Mine), so what IInv says of the other connections and of the files     *)
(* that wait to be closed is undisturbed (OthersKeep); what remains for    *)
(* each handler is what IInv says of c itself (OwnOK).                     *)
(*                                                                         *)
(* Then the same for the second layer of the invariant, JInv: why the      *)
(* process ends or reboots, and that no descriptor is lost.  The last part *)
(* proves that EventLoop implements Connection: every connection goes      *)
(* through the phases of its requests in order and gets one response for   *)
(* each.                                                                   *)
(***************************************************************************)
EXTENDS ConnectionMap, TLAPS

-----------------------------------------------------------------------------
(* The inductive invariant, from which it is derived that no handler is    *)
(* given a deleted Event, that none is dispatched twice and that           *)
(* descriptors have one owner.  It holds whatever goes wrong (for every    *)
(* value of Faults).                                                       *)

\* These changes need a registration.  Only a page whose read(2) fails is
\* unregistered twice.
Demanding == {"enable", "disable"} \cup {flag \in {"delete"} : "read" \notin Faults}

\* Every change of the list can be applied when its turn comes, a second EV_DELETE
\* excepted.
ChangesApplicable ==
  \A k \in Keys : \A i \in 1..Len(pending[k]) : LET ch == pending[k][i] IN
    /\ ch.flag = "delete" <=> ch.ev = Null
    /\ ch.flag \in Demanding =>
         IF i = 1 THEN kq[k].st # "none" ELSE pending[k][i - 1].flag # "delete"

\* EV_DELETE carries no Event.
ErrorsAreDeletes == \A e \in errs : e.ev = Null /\ "read" \in Faults

\* A registration has an Event if and only if it exists, and that Event lives;
\* only a CGI program that fails leaves a freed one behind.
StillThere(c) == ev[c].state = "live" \/ (ev[c].state = "freed" /\ "cgi" \in Faults)
RegistrationsBorn ==
  \A k \in Keys : LET r == Effective(k) IN
    /\ kq[k].st = "none" <=> kq[k].ev = Null
    /\ r.ev # Null => StillThere(r.ev)

\* A connection's socket is open, its own, and registered for reading and writing.
ClientsRegistered ==
  \A c \in Conns : Live(c) =>
    /\ ev[c].clientFd \in Fds /\ fds[ev[c].clientFd] = "socket"
    /\ \A filter \in Filters : Effective(Client(c, filter)).ev = c
    /\ \A d \in Conns : Live(d) /\ d # c => ev[d].clientFd # ev[c].clientFd

\* Apart from its socket an Event is registered for the file its type uses only,
\* and only what it waits for is enabled.
InterestOfType ==
  \A c \in Conns : \A k \in Keys : Live(c) /\ Effective(k).ev = c =>
    /\ k[1] = ev[c].clientFd \/ k = Active(c)
    /\ Effective(k).st = "on" => k = Active(c)

\* That file is an open file, registered with one filter.
UsesFile(c) == ev[c].type \notin {"HTTP_REQUEST_READABLE", "HTTP_RESPONSE_WRITABLE"}
ActiveFile ==
  \A c \in Conns : Live(c) /\ UsesFile(c) /\ Active(c) \in Keys
                     /\ Effective(Active(c)) = [st |-> "on", ev |-> c] =>
    /\ fds[Active(c)[1]] = "file"
    /\ \A filter \in Filters : <<Active(c)[1], filter>> = Active(c)
                                 \/ Effective(<<Active(c)[1], filter>>) = NoReg

\* While open(2) does not fail, a connection is registered for what it waits for,
\* also while it is dispatched (NeverDeaf); a request that ends the process may have
\* given its file up.
Running == server \in {"up"} \cup Exceptions
Hears(c) == Active(c) \in Keys /\ Effective(Active(c)) = [st |-> "on", ev |-> c]
GaveUp(c) == ~Running /\ (server = "wrong_routine" \/ Active(c)[1] \in closing)
Heard == "open" \notin Faults => \A c \in Conns : Live(c) => Hears(c) \/ GaveUp(c)

\* The page of an error is kept open and unregistered while the body is flushed.
HoldsPage(c) == Live(c) /\ ev[c].type = "BUFFER_FLUSH" /\ ev[c].resp.type = "FLUSH_ERR"
PageHeld ==
  \A c \in Conns : HoldsPage(c) =>
    /\ ev[c].resp.file \in Fds /\ fds[ev[c].resp.file] = "file"
    /\ ev[c].resp.file \notin closing
    /\ \A filter \in Filters : Effective(<<ev[c].resp.file, filter>>) = NoReg
    /\ \A d \in Conns : HoldsPage(d) /\ d # c => ev[d].resp.file # ev[c].resp.file

\* What is dispatched is alive, recently used and enabled, and the change list
\* says nothing about it until it is served.
NoChange(c) == /\ \A filter \in Filters : pending[Client(c, filter)] = << >>
               /\ pending[Active(c)] = << >>
DispatchSettled ==
  \A c \in Conns :
    /\ Dispatched(c) => /\ Live(c) /\ ~ev[c].stale /\ Active(c) \in Keys
                        /\ kq[Active(c)] = [st |-> "on", ev |-> c]
                        /\ NoChange(c)
    /\ Live(c) /\ ev[c].stale => NoChange(c) /\ ev[c].type = "HTTP_REQUEST_READABLE"

\* EV_EOF is returned for sockets: no file is removed because of it.
HangupsAreSockets == \A b \in batch : b.eof => ~UsesFile(b.ev)

IInv ==
  /\ TypeOK
  /\ NoStaleChange
  /\ ChangesApplicable
  /\ ErrorsAreDeletes
  /\ RegistrationsBorn
  /\ ClientsRegistered
  /\ InterestOfType
  /\ ActiveFile
  /\ Heard
  /\ PageHeld
  /\ DispatchSettled
  /\ HangupsAreSockets
  /\ DispatchOnce
  /\ CloseDiscipline

-----------------------------------------------------------------------------
(* What follows on top of IInv: why the process ends, and that no          *)
(* descriptor is lost.                                                     *)

\* Only a request with a body waits for it, a body is uploaded for a CGI program
\* whatever the method, and only a body that is flushed has a response that
\* _redirectUploadError knows.
FitOK(e) ==
  /\ e.parse = "bad" => "bad" \in Faults
  /\ e.parse = "closed" => "write" \in Faults
  /\ e.resp.type = "FREED" => "open" \in Faults
  /\ e.type = "HTTP_REQUEST_READABLE" /\ e.cgi => e.method \in {"GET", "POST", "PUT"}
  /\ e.type = "HTTP_REQUEST_UPLOAD" => e.method \in {"POST", "PUT"} \/ (e.cgi /\ e.method = "GET")
  /\ e.type = "BUFFER_FLUSH" => /\ e.method \in {"POST", "PUT"}
                                /\ e.resp.type \in {"FLUSH", "FLUSH_ERR", "FREED"}
MethodsFit == \A c \in Conns : FitOK(ev[c])

\* The file TEMP_TRASH is there for a body that is flushed, unless another
\* connection has removed it.
TrashThere ==
  "open" \notin Faults /\ ~trash =>
    \A c \in Conns : Live(c) /\ ev[c].type = "BUFFER_FLUSH" =>
      \E d \in Conns \ {c} : ev[d].state # "none"

\* What an Event will close: its socket, the file it is registered for, and the
\* page it keeps while a body is flushed; and the page the process was making when
\* it ended.
FileOf(e) ==
  CASE e.type \in {"HTTP_REQUEST_UPLOAD", "BUFFER_FLUSH"} -> e.toSendFd
    [] e.type \in {"HTTP_RESPONSE_DOWNLOAD", "CGI_RESPONSE_READABLE"} -> e.toRecvFd
    [] OTHER -> e.clientFd
Holds(e) ==
  {e.clientFd, FileOf(e)}
    \cup {f \in {e.resp.file} : e.type = "BUFFER_FLUSH" /\ e.resp.type = "FLUSH_ERR"}
LeftOver(c) == IF Running THEN {} ELSE {ev[c].resp.file}
LeakFree == Faults \cap LeakCauses = {}
Reached ==
  LeakFree =>
    \A f \in Fds : fds[f] # "free" =>
      f \in closing \/ \E c \in Conns : Live(c) /\ f \in Holds(ev[c]) \cup LeftOver(c)

\* A CGI response that was parsed to its end waits to be served, so that it is not
\* parsed again, unless a reboot came in between; without the failures of Throwing
\* that takes another connection.
Replied(c) == Live(c) /\ ev[c].type = "CGI_RESPONSE_READABLE" /\ ev[c].parse = "answered"
RepliesServed ==
  Faults \cap Throwing = {} =>
    \A c \in Conns : Replied(c) => routed[c] > 0 \/ \E d \in Conns \ {c} : ev[d].state # "none"

JInv == IInv /\ MethodsFit /\ TrashThere /\ Reached /\ RepliesServed /\ HaltCauses

-----------------------------------------------------------------------------
(* Responses *)

\* What ResponseFactory hands over: a response of its type that names only
\* descriptors it opened among the free ones.
Made(o, F) ==
  /\ o.resp \in Responses
  /\ o.opened \subseteq F /\ o.closing \subseteq o.opened
  /\ o.resp.type \in {"POST", "GET", "FLUSH_ERR"} => o.resp.file \in o.opened \ o.closing
  /\ o.resp.type \in {"POST", "GET", "DEL", "FLUSH", "FLUSH_ERR"}

LEMMA LowestFree == \A F : LowestOf(F) \subseteq F
  BY DEF LowestOf

LEMMA ErrorPages ==
  ASSUME NEW F \in SUBSET Fds, NEW m
  PROVE  \A o \in errorResponses(m, F) : Made(o, F)
  BY LowestFree DEF errorResponses, errorResponse, Made, Outcome, Response, Responses

LEMMA GetResponses ==
  ASSUME NEW F \in SUBSET Fds
  PROVE  \A o \in getResponses(F) : Made(o, F)
<1>1. \A o \in fileResponses(F) : Made(o, F)
  BY LowestFree DEF fileResponses, Made, Outcome, Response, Responses
<1>2. \A o \in emptyFileResponses(F) : Made(o, F)
  BY LowestFree DEF emptyFileResponses, Made, Outcome, Response, Responses
<1>3. \A o \in tooLargeResponses(F) : Made(o, F)
  <2> TAKE o \in tooLargeResponses(F)
  <2>1. PICK f \in LowestOf(F) :
          o \in {[e EXCEPT !.opened = @ \cup {f}] : e \in errorResponses("GET", F \ {f})}
    BY Zenon DEF tooLargeResponses
  <2>2. PICK e \in errorResponses("GET", F \ {f}) : o = [e EXCEPT !.opened = @ \cup {f}]
    BY <2>1
  <2>3. PICK g \in LowestOf(F \ {f}) : e = errorResponse("GET", g)
    BY DEF errorResponses
  <2>4. f \in F /\ g \in F \ {f}
    BY LowestFree
  <2> QED
    BY <2>2, <2>3, <2>4 DEF errorResponse, Made, Outcome, Response, Responses
<1>4. Made(InMemory("DEL"), F)
  BY DEF InMemory, Made, Outcome, Response, Responses
<1> QED
  BY <1>1, <1>2, <1>3, <1>4 DEF getResponses

LEMMA Responses_Made ==
  ASSUME NEW F \in SUBSET Fds, NEW m, NEW bad \in BOOLEAN
  PROVE  \A o \in makeResponse(m, bad, F) : Made(o, F)
<1>1. Made(redirResponse(m), F) /\ Made(InMemory("DEL"), F)
  BY DEF redirResponse, InMemory, Made, Outcome, Response, Responses
<1>2. \A o \in uploadResponses(F) : Made(o, F)
  BY LowestFree DEF uploadResponses, Made, Outcome, Response, Responses
<1>3. \A o \in deleteResponses(F) : Made(o, F)
  BY <1>1 DEF deleteResponses, Lowest, Made, Outcome, Response, Responses
<1> QED
  BY <1>1, <1>2, <1>3, ErrorPages, GetResponses DEF makeResponse

-----------------------------------------------------------------------------
(* Type correctness *)

LEMMA AppendType ==
  ASSUME NEW S, NEW s \in Seq(S), NEW e \in S
  PROVE  Append(s, e) \in Seq(S)
  OBVIOUS

LEMMA QueueType ==
  ASSUME NEW p \in [Keys -> Seq(Change)], NEW k, NEW flag \in Flags,
         NEW c \in Conns \cup {Null}
  PROVE  Queue(p, k, flag, c) \in [Keys -> Seq(Change)]
<1>1. [flag |-> flag, ev |-> c] \in Change
  BY DEF Change
<1> DEFINE ch == [flag |-> flag, ev |-> c]
<1>2. CASE k \in Keys
  <2>1. Append(p[k], ch) \in Seq(Change)
    BY <1>1, <1>2, AppendType
  <2> HIDE DEF ch
  <2>2. [p EXCEPT ![k] = Append(p[k], ch)] \in [Keys -> Seq(Change)]
    BY <2>1, Zenon
  <2> QED
    BY <2>2 DEF Queue, ch
<1>3. CASE k \notin Keys
  <2>1. Queue(p, k, flag, c) = p
    BY <1>3 DEF Queue
  <2> QED
    BY <2>1
<1> QED
  BY <1>2, <1>3

LEMMA UnregisterType ==
  ASSUME NEW p \in [Keys -> Seq(Change)], NEW S
  PROVE  Unregister(p, S) \in [Keys -> Seq(Change)]
<1>1. [flag |-> "delete", ev |-> Null] \in Change
  BY DEF Change, Flags
<1> DEFINE ch == [flag |-> "delete", ev |-> Null]
<1> HIDE DEF ch
<1>2. \A k \in Keys : Append(p[k], ch) \in Seq(Change)
  BY <1>1, AppendType DEF ch
<1>3. [k \in Keys |-> IF k \in S THEN Append(p[k], ch) ELSE p[k]] \in [Keys -> Seq(Change)]
  BY <1>2
<1> QED
  BY <1>3 DEF Unregister, ch

LEMMA NewEventType ==
  ASSUME NEW st \in {"none", "live", "freed"}, NEW fd \in Fds \cup {NoFd}
  PROVE  NewEvent(st, fd) \in Events
  BY DEF NewEvent, Events, Types, NoResponse, Response, Responses

LEMMA RemoveType ==
  ASSUME TypeOK, NEW c \in Conns, Live(c),
         NEW p \in [Keys -> Seq(Change)], NEW cl \in SUBSET Fds,
         removeConnection(c, p, cl),
         server' \in {"up"} \cup Exceptions \cup Halts,
         errs' \subseteq [key : Keys, ev : Conns \cup {Null}],
         batch' \subseteq [key : Keys, ev : Conns, eof : BOOLEAN],
         accepts' \in Nat, routed' \in [Conns -> Nat], trash' \in BOOLEAN
  PROVE  TypeOK'
<1>1. NewEvent("freed", NoFd) \in Events
  BY NewEventType
<1>2. RemovedFile(c) \subseteq Keys
  BY DEF RemovedFile, Keys, Filters, TypeOK, Live
<1>3. pending' \in [Keys -> Seq(Change)]
  BY UnregisterType DEF removeConnection
<1>4. closing' \subseteq Fds
  BY <1>2 DEF removeConnection, Keys
<1>5. kq' \in [Keys -> Registration]
  BY DEF removeConnection, Dropped, TypeOK, Registration, NoReg
<1>6. fds' \in [Fds -> {"free", "socket", "file"}]
  BY DEF removeConnection, Closed, TypeOK
<1>7. ev' \in [Conns -> Events]
  BY <1>1 DEF removeConnection, TypeOK
<1>8. \A d \in Conns :
        /\ ev'[d].state = "live" => {ev'[d].clientFd, ev'[d].toSendFd, ev'[d].toRecvFd} \subseteq Fds
        /\ ev'[d].resp.type = "FLUSH_ERR" => ev'[d].resp.file \in Fds
  BY DEF removeConnection, TypeOK, NewEvent, NoResponse, Response
<1> QED
  BY <1>3, <1>4, <1>5, <1>6, <1>7, <1>8 DEF TypeOK

LEMMA TablesType ==
  ASSUME TypeOK, NEW S
  PROVE  /\ Opened(S) \in [Fds -> {"free", "socket", "file"}]
         /\ Closed(fds, S) \in [Fds -> {"free", "socket", "file"}]
         /\ Dropped(S) \in [Keys -> Registration]
  BY DEF TypeOK, Opened, Closed, Dropped, Registration, NoReg

LEMMA FreeType == FreeFds \subseteq Fds
  BY DEF FreeFds

\* TypeOK, one Event and the other variables apart.
EventOK(e) ==
  /\ e \in Events
  /\ e.state = "live" => {e.clientFd, e.toSendFd, e.toRecvFd} \subseteq Fds
  /\ e.resp.type = "FLUSH_ERR" => e.resp.file \in Fds
TablesOK ==
  /\ server \in {"up"} \cup Exceptions \cup Halts
  /\ kq \in [Keys -> Registration]
  /\ pending \in [Keys -> Seq(Change)]
  /\ errs \subseteq [key : Keys, ev : Conns \cup {Null}]
  /\ batch \subseteq [key : Keys, ev : Conns, eof : BOOLEAN]
  /\ accepts \in Nat
  /\ routed \in [Conns -> Nat]
  /\ fds \in [Fds -> {"free", "socket", "file"}]
  /\ closing \subseteq Fds
  /\ trash \in BOOLEAN

LEMMA EventsTyped ==
  ASSUME TypeOK
  PROVE  ev = [c \in Conns |-> ev[c]] /\ \A c \in Conns : EventOK(ev[c])
  BY DEF TypeOK, EventOK

LEMMA TypeFromParts ==
  ASSUME ev' = [c \in Conns |-> ev'[c]], \A c \in Conns : EventOK(ev'[c]), TablesOK'
  PROVE  TypeOK'
<1>1. ev' \in [Conns -> Events]
  BY DEF EventOK
<1> QED
  BY <1>1 DEF EventOK, TablesOK, TypeOK

LEMMA UpdateType ==
  ASSUME TypeOK, NEW c \in Conns, NEW e, EventOK(e), ev' = [ev EXCEPT ![c] = e], TablesOK'
  PROVE  TypeOK'
<1>1. ev' = [d \in Conns |-> ev'[d]] /\ \A d \in Conns : EventOK(ev'[d])
  BY EventsTyped
<1> QED
  BY <1>1, TypeFromParts

LEMMA StampedOK ==
  ASSUME NEW e, EventOK(e), NEW b \in BOOLEAN
  PROVE  EventOK([e EXCEPT !.stale = b])
  BY DEF EventOK, Events

LEMMA KernelType ==
  ASSUME TypeOK, ApplyChanges
  PROVE  TypeOK'
<1>1. \A k \in Keys : pending[k] # << >> => Head(pending[k]) \in Change /\ Tail(pending[k]) \in Seq(Change)
  BY DEF TypeOK
<1>2. pending' \in [Keys -> Seq(Change)]
  BY <1>1 DEF ApplyChanges, Rest, TypeOK
<1>3. \A k \in Keys : pending[k] # << >> => Applied(kq[k], Head(pending[k])) \in Registration
  BY <1>1 DEF Applied, Registration, NoReg, Change
<1>4. kq' \in [Keys -> Registration]
  BY <1>1, <1>3 DEF ApplyChanges, TypeOK
<1>5. errs' \subseteq [key : Keys, ev : Conns \cup {Null}]
  BY <1>1 DEF ApplyChanges, TypeOK, Change
<1> QED
  BY <1>2, <1>4, <1>5 DEF ApplyChanges, TypeOK

LEMMA EvictedType ==
  ASSUME TypeOK
  PROVE  /\ Evicted \in [Conns -> Events]
         /\ \A c \in Conns :
              /\ Evicted[c].state = "live" => Evicted[c] = ev[c]
              /\ Evicted[c].resp.type = "FLUSH_ERR" => Evicted[c] = ev[c]
         /\ IdleFds \subseteq Fds
<1>1. NewEvent("freed", NoFd) \in Events
  BY NewEventType
<1>2. /\ NewEvent("freed", NoFd).state = "freed"
      /\ NewEvent("freed", NoFd).resp.type = "NULL"
  BY DEF NewEvent, NoResponse, Response
<1>3. IdleFds \subseteq Fds
  BY DEF IdleFds, Idle, Live, TypeOK
<1> QED
  BY <1>1, <1>2, <1>3 DEF Evicted, TypeOK

LEMMA KeventType ==
  ASSUME TypeOK, Kevent
  PROVE  TypeOK'
<1>1. PICK ready \in SUBSET {k \in Keys : kq[k].st = "on"}, n \in 0..Ports :
        \E hups \in SUBSET {k \in ready : fds[k[1]] = "socket"} :
          LET got == Returned(ready, hups) IN
          /\ server' = Touched(got)
          /\ batch' = IF Touched(got) = "up" THEN got ELSE {}
          /\ accepts' = n
          /\ ev' = IF Touched(got) = "up" THEN Stamped(got) ELSE ev
  BY DEF Kevent
<1>2. PICK hups \in SUBSET {k \in ready : fds[k[1]] = "socket"} :
          /\ server' = Touched(Returned(ready, hups))
          /\ batch' = IF Touched(Returned(ready, hups)) = "up" THEN Returned(ready, hups) ELSE {}
          /\ accepts' = n
          /\ ev' = IF Touched(Returned(ready, hups)) = "up" THEN Stamped(Returned(ready, hups)) ELSE ev
  BY <1>1
<1> DEFINE got == Returned(ready, hups)
<1>3. got \subseteq [key : Keys, ev : Conns \cup {Null}, eof : BOOLEAN]
  <2>1. \A k \in Keys : kq[k].ev \in Conns \cup {Null}
    BY DEF TypeOK, Registration
  <2>2. \A e \in errs : e.key \in Keys /\ e.ev \in Conns \cup {Null}
    BY DEF TypeOK
  <2>3. \A k \in ready : [key |-> k, ev |-> kq[k].ev, eof |-> k \in hups]
                            \in [key : Keys, ev : Conns \cup {Null}, eof : BOOLEAN]
    <3> TAKE k \in ready
    <3>1. (k \in hups) \in BOOLEAN
      OBVIOUS
    <3>2. \A x \in BOOLEAN : [key |-> k, ev |-> kq[k].ev, eof |-> x]
                            \in [key : Keys, ev : Conns \cup {Null}, eof : BOOLEAN]
      BY <2>1
    <3> QED
      BY <3>1, <3>2, Zenon
  <2>4. \A e \in errs : [key |-> e.key, ev |-> e.ev, eof |-> FALSE]
                            \in [key : Keys, ev : Conns \cup {Null}, eof : BOOLEAN]
    BY <2>2
  <2> QED
    BY <2>3, <2>4, Zenon DEF Returned
<1> HIDE DEF got
<1>4. server' \in {"up"} \cup Exceptions \cup Halts
  BY <1>2 DEF Touched, Halts
<1>5. batch' \subseteq [key : Keys, ev : Conns, eof : BOOLEAN]
  <2>1. Touched(got) = "up" => \A b \in got : b.ev # Null
    BY DEF Touched
  <2>2. got \in SUBSET [key : Keys, ev : Conns \cup {Null}, eof : BOOLEAN]
    BY <1>3
  <2>4. CASE Touched(got) = "up"
    <3>1. batch' = got
      BY <1>2, <2>4 DEF got
    <3>2. \A b \in got : b \in [key : Keys, ev : Conns, eof : BOOLEAN]
      BY <2>1, <2>2, <2>4
    <3> QED
      BY <3>1, <3>2
  <2>5. CASE Touched(got) # "up"
    BY <1>2, <2>5 DEF got
  <2> QED
    BY <2>4, <2>5
<1>6. ev' = [c \in Conns |-> ev'[c]] /\ \A c \in Conns : EventOK(ev'[c])
  <2>1. \A c \in Conns : EventOK(ev[c]) /\ EventOK([ev[c] EXCEPT !.stale = FALSE])
    BY EventsTyped, StampedOK
  <2>2. CASE Touched(got) = "up"
    BY <1>2, <2>1, <2>2 DEF Stamped, got
  <2>3. CASE Touched(got) # "up"
    BY <1>2, <2>1, <2>3, EventsTyped DEF got
  <2> QED
    BY <2>2, <2>3
<1>8. accepts' \in Nat
  BY <1>2, InputAssumption
<1>9. /\ fds' \in [Fds -> {"free", "socket", "file"}] /\ kq' \in [Keys -> Registration]
      /\ closing' = {} /\ errs' = {} /\ UNCHANGED <<pending, routed, trash>>
  BY TablesType DEF Kevent, clearFileFds
<1> QED
  <2>1. TablesOK'
    BY <1>4, <1>5, <1>8, <1>9 DEF TypeOK, TablesOK
  <2> QED
    BY <1>6, <2>1, TypeFromParts

LEMMA TimeType ==
  ASSUME TypeOK
  PROVE  /\ \A c \in Conns : Age(c) => TypeOK'
         /\ KeventTimeout => TypeOK'
         /\ Reboot => TypeOK'
<1>1. ASSUME NEW c \in Conns, Age(c) PROVE TypeOK'
  <2>1. EventOK([ev[c] EXCEPT !.stale = TRUE])
    BY EventsTyped, StampedOK
  <2>2. ev' = [ev EXCEPT ![c] = [ev[c] EXCEPT !.stale = TRUE]]
    BY <1>1, EventsTyped DEF Age
  <2>3. TablesOK'
    BY <1>1 DEF Age, TypeOK, TablesOK
  <2> QED
    BY <2>1, <2>2, <2>3, UpdateType
<1>2. ASSUME KeventTimeout PROVE TypeOK'
  BY <1>2, EvictedType, TablesType DEF KeventTimeout, TypeOK
<1>3. ASSUME Reboot PROVE TypeOK'
  BY <1>3 DEF Reboot, TypeOK
<1> QED
  BY <1>1, <1>2, <1>3

\* Routing one kevent.
LEMMA RouteTables ==
  ASSUME TypeOK, NEW b, Route(b), server' \in {"up"} \cup Exceptions \cup Halts,
         kq' \in [Keys -> Registration], pending' \in [Keys -> Seq(Change)],
         fds' \in [Fds -> {"free", "socket", "file"}], closing' \subseteq Fds,
         routed' \in [Conns -> Nat]
  PROVE  TablesOK' /\ b \in batch /\ b.ev \in Conns /\ Live(b.ev)
  BY DEF Route, TypeOK, TablesOK

LEMMA RouteType ==
  ASSUME TypeOK, NEW b \in batch, RouteOne(b)
  PROVE  TypeOK'
<1>1. b.ev \in Conns /\ pending \in [Keys -> Seq(Change)] /\ closing \in SUBSET Fds
  BY DEF TypeOK
<1>2. routed' \in [Conns -> Nat] \/ UNCHANGED routed
  <2>1. UNCHANGED routed \/ routed' = [routed EXCEPT ![b.ev] = @ + 1]
    BY DEF RouteOne, RouteEof, StillReceiving, ReceiveError, ReceiveDone, ParsingFails, RouteOther
  <2>2. routed \in [Conns -> Nat]
    BY DEF TypeOK
  <2> QED
    BY <1>1, <2>1, <2>2
<1>3. routed' \in [Conns -> Nat]
  BY <1>2 DEF TypeOK
<1>4. CASE Live(b.ev) /\ Route(b) /\ removeConnection(b.ev, pending, closing)
                      /\ server' \in {"up"} \cup Exceptions \cup Halts
  <2>1. /\ errs' \subseteq [key : Keys, ev : Conns \cup {Null}]
        /\ batch' \subseteq [key : Keys, ev : Conns, eof : BOOLEAN]
        /\ accepts' \in Nat /\ trash' \in BOOLEAN
    BY <1>4 DEF Route, TypeOK
  <2> QED
    BY <1>1, <1>3, <1>4, <2>1, RemoveType
<1>5. CASE RouteEof(b)
  BY <1>4, <1>5 DEF RouteEof, Route, TypeOK
<1>6. CASE ReceiveError(b)
  BY <1>4, <1>6 DEF ReceiveError, Route, Halts
<1>9. CASE ReceiveDone(b) /\ ev' = [ev EXCEPT ![b.ev].parse = "answered"]
  <2> DEFINE c == b.ev
  <2>2. EventOK(ev[c])
    BY <1>1, EventsTyped
  <2>3. EventOK([ev[c] EXCEPT !.parse = "answered"])
    BY ZenonT(60), <2>2 DEF EventOK, Events
  <2>4. TablesOK'
    BY <1>3, <1>9 DEF ReceiveDone, Route, TypeOK, TablesOK
  <2> HIDE DEF c
  <2>5. ev' = [ev EXCEPT ![c] = [ev[c] EXCEPT !.parse = "answered"]]
    BY <1>9, EventsTyped DEF c
  <2> QED
    BY <1>1, <2>3, <2>4, <2>5, UpdateType DEF c
<1>7. CASE ReceiveDone(b) /\ RequestParsed(b.ev) /\ ~UNCHANGED ev
  <2> DEFINE c == b.ev
  <2>1. PICK m \in Methods \cup {"NOT_IMPL"}, cgi \in BOOLEAN, q \in {"uploading", "unending", "bad"} :
          ev' = [ev EXCEPT ![c].method = m, ![c].cgi = cgi, ![c].parse = q]
    BY <1>7 DEF RequestParsed
  <2>2. EventOK(ev[c])
    BY <1>1, EventsTyped
  <2>3. EventOK([ev[c] EXCEPT !.method = m, !.cgi = cgi, !.parse = q])
    BY ZenonT(60), <2>2 DEF EventOK, Events
  <2>4. TablesOK'
    BY <1>3, <1>7 DEF ReceiveDone, Route, TypeOK, TablesOK
  <2> HIDE DEF c
  <2>5. ev' = [ev EXCEPT ![c] = [ev[c] EXCEPT !.method = m, !.cgi = cgi, !.parse = q]]
    BY <2>1, EventsTyped
  <2> QED
    BY <1>1, <2>3, <2>4, <2>5, UpdateType DEF c
<1>8. CASE UNCHANGED ev /\ (StillReceiving(b) \/ ReceiveDone(b) \/ ParsingFails(b) \/ RouteOther(b))
  <2>1. server' \in {"up"} \cup Exceptions \cup Halts
    BY <1>8 DEF StillReceiving, ReceiveDone, ParsingFails, RouteOther, TypeOK, Exceptions, Halts
  <2>2. TablesOK'
    BY <1>3, <1>8, <2>1 DEF StillReceiving, ReceiveDone, ParsingFails, RouteOther, Route, TypeOK, TablesOK
  <2> QED
    BY <1>8, <2>2, EventsTyped, TypeFromParts
<1> QED
  BY <1>5, <1>6, <1>7, <1>8, <1>9 DEF RouteOne, ReceiveDone, ParsingFails, StillReceiving, RouteOther

LEMMA NewConnectionType ==
  ASSUME TypeOK, NEW c \in Conns, NEW f
  PROVE  NewConnection(c, f) \in [Keys -> Seq(Change)]
<1>1. pending \in [Keys -> Seq(Change)] /\ {"add", "disable"} \subseteq Flags
  BY DEF TypeOK, Flags
<1> QED
  BY <1>1, QueueType DEF NewConnection

LEMMA AcceptType ==
  ASSUME TypeOK, addConnection \/ AcceptFails
  PROVE  TypeOK'
<1>1. /\ accepts' \in Nat /\ kq' \in [Keys -> Registration]
      /\ UNCHANGED <<errs, batch, routed, closing, trash>>
  BY TablesType DEF addConnection, AcceptFails, CheckTimeoutAndAccept, TypeOK
<1>2. /\ Evicted = [c \in Conns |-> Evicted[c]]
      /\ \A c \in Conns : EventOK(Evicted[c])
  BY EvictedType, EventsTyped DEF EventOK
<1>3. CASE addConnection
  <2>1. PICK c \in Conns, f \in LowestOf(FreeFds \cup IdleFds) :
          /\ ev' = [Evicted EXCEPT ![c] = NewEvent("live", f)]
          /\ fds' = [Closed(fds, IdleFds) EXCEPT ![f] = "socket"]
          /\ pending' = NewConnection(c, f)
    BY <1>3 DEF addConnection
  <2>2. f \in Fds
    BY LowestFree, FreeType, EvictedType
  <2>3. EventOK(NewEvent("live", f))
    BY <2>2, NewEventType DEF EventOK, NewEvent, NoResponse, Response
  <2>4. fds' \in [Fds -> {"free", "socket", "file"}] /\ pending' \in [Keys -> Seq(Change)]
    BY <2>1, <2>2, TablesType, NewConnectionType
  <2>5. TablesOK'
    BY <1>1, <1>3, <2>4 DEF addConnection, TypeOK, TablesOK
  <2>6. ev' = [d \in Conns |-> ev'[d]] /\ \A d \in Conns : EventOK(ev'[d])
    BY <1>2, <2>1, <2>3
  <2> QED
    BY <2>5, <2>6, TypeFromParts
<1>4. CASE AcceptFails
  <2>1. fds' \in [Fds -> {"free", "socket", "file"}]
    BY <1>4, TablesType DEF AcceptFails
  <2>2. TablesOK'
    BY <1>1, <1>4, <2>1 DEF Exceptions, AcceptFails, TypeOK, TablesOK
  <2>3. ev' = [d \in Conns |-> ev'[d]] /\ \A d \in Conns : EventOK(ev'[d])
    BY <1>2, <1>4 DEF AcceptFails
  <2> QED
    BY <2>2, <2>3, TypeFromParts
<1> QED
  BY <1>3, <1>4

\* Serving one Event.
LEMMA ServeTables ==
  ASSUME TypeOK, NEW c \in Conns, NEW t, Serve(c, t),
         server' \in {"up"} \cup Exceptions \cup Halts,
         kq' \in [Keys -> Registration], pending' \in [Keys -> Seq(Change)],
         fds' \in [Fds -> {"free", "socket", "file"}], closing' \subseteq Fds,
         trash' \in BOOLEAN
  PROVE  TablesOK'
<1>1. routed' \in [Conns -> Nat]
  BY DEF Serve, TypeOK
<1> QED
  BY <1>1 DEF Serve, TypeOK, TablesOK

LEMMA ListsType ==
  ASSUME TypeOK, NEW c \in Conns
  PROVE  /\ pending \in [Keys -> Seq(Change)]
         /\ StopReceiving(c) \in [Keys -> Seq(Change)]
         /\ SentFileDeleted(c) \in [Keys -> Seq(Change)]
         /\ ReceivedFileDeleted(c) \in [Keys -> Seq(Change)]
         /\ BackToReceiving(c) \in [Keys -> Seq(Change)]
         /\ \A p \in [Keys -> Seq(Change)] : StartSending(c, p) \in [Keys -> Seq(Change)]
         /\ \A p \in [Keys -> Seq(Change)] : \A k : Queue(p, k, "add", c) \in [Keys -> Seq(Change)]
<1>1. pending \in [Keys -> Seq(Change)] /\ {"add", "enable", "disable", "delete"} \subseteq Flags
  BY DEF TypeOK, Flags
<1> QED
  BY <1>1, QueueType
     DEF StopReceiving, SentFileDeleted, ReceivedFileDeleted, BackToReceiving, StartSending

LEMMA FieldsOfLive ==
  ASSUME TypeOK, NEW c \in Conns, Live(c)
  PROVE  /\ EventOK(ev[c]) /\ ev[c] \in Events /\ ev[c].state = "live"
         /\ {ev[c].clientFd, ev[c].toSendFd, ev[c].toRecvFd} \subseteq Fds
  BY DEF TypeOK, EventOK, Live

LEMMA BeginCgiType ==
  ASSUME TypeOK, NEW c \in Conns, BeginCgi(c)
  PROVE  TypeOK'
<1>1. /\ Live(c) /\ Serve(c, "HTTP_REQUEST_READABLE")
      /\ UNCHANGED <<kq, closing, trash>>
  BY DEF BeginCgi, Serve
<1>2. CASE \E f \in LowestOf(FreeFds) :
          /\ fds' = Opened({f})
          /\ ev' = [ev EXCEPT ![c].type = "HTTP_REQUEST_UPLOAD", ![c].toSendFd = f]
          /\ pending' = Queue(StopReceiving(c), <<f, "write">>, "add", c)
          /\ UNCHANGED server
  <2>1. PICK f \in LowestOf(FreeFds) :
          /\ fds' = Opened({f})
          /\ ev' = [ev EXCEPT ![c].type = "HTTP_REQUEST_UPLOAD", ![c].toSendFd = f]
          /\ pending' = Queue(StopReceiving(c), <<f, "write">>, "add", c)
          /\ UNCHANGED server
    BY <1>2
  <2>2. f \in Fds
    BY LowestFree, FreeType
  <2>3. EventOK([ev[c] EXCEPT !.type = "HTTP_REQUEST_UPLOAD", !.toSendFd = f])
    BY ZenonT(60), <1>1, <2>2, FieldsOfLive DEF EventOK, Events, Types
  <2>4. ev' = [ev EXCEPT ![c] = [ev[c] EXCEPT !.type = "HTTP_REQUEST_UPLOAD", !.toSendFd = f]]
    BY <2>1, EventsTyped
  <2>5. server' \in {"up"} \cup Exceptions \cup Halts /\ kq' \in [Keys -> Registration]
        /\ closing' \subseteq Fds /\ trash' \in BOOLEAN
    BY <1>1, <2>1 DEF TypeOK
  <2>6. TablesOK'
    BY <1>1, <2>1, <2>5, TablesType, ListsType, ServeTables
  <2> QED
    BY <2>3, <2>4, <2>6, UpdateType
<1>3. CASE server' = "open_failed" /\ UNCHANGED <<ev, pending, fds>>
  <2>1. TablesOK'
    BY <1>1, <1>3 DEF Serve, TypeOK, TablesOK, Exceptions
  <2> QED
    BY <1>3, <2>1, EventsTyped, TypeFromParts
<1> QED
  BY <1>2, <1>3 DEF BeginCgi

\* A handler that changes the Event it serves, the change list and the
\* descriptors it opens, and leaves the kernel alone.
LEMMA ServeType ==
  ASSUME TypeOK, NEW c \in Conns, NEW t, Serve(c, t),
         NEW e, EventOK(e), ev' = [ev EXCEPT ![c] = e],
         server' \in {"up"} \cup Exceptions \cup Halts, UNCHANGED kq,
         pending' \in [Keys -> Seq(Change)],
         UNCHANGED fds \/ \E S : fds' = Opened(S),
         closing' \subseteq Fds, trash' \in BOOLEAN
  PROVE  TypeOK'
<1>1. kq' \in [Keys -> Registration] /\ fds' \in [Fds -> {"free", "socket", "file"}]
  BY TablesType DEF TypeOK
<1> QED
  BY <1>1, ServeTables, UpdateType

LEMMA ServeSameType ==
  ASSUME TypeOK, NEW c \in Conns, NEW t, Serve(c, t), UNCHANGED ev,
         server' \in {"up"} \cup Exceptions \cup Halts, UNCHANGED kq,
         pending' \in [Keys -> Seq(Change)],
         UNCHANGED fds \/ \E S : fds' = Opened(S),
         closing' \subseteq Fds, trash' \in BOOLEAN
  PROVE  TypeOK'
<1>1. ev' = [ev EXCEPT ![c] = ev[c]] /\ EventOK(ev[c])
  BY EventsTyped
<1> QED
  BY <1>1, ServeType

LEMMA BeginResponseType ==
  ASSUME TypeOK, NEW c \in Conns, Serve(c, "HTTP_REQUEST_READABLE"),
         NEW o, Made(o, FreeFds), BeginResponse(c, o)
  PROVE  TypeOK'
<1>1. Live(c) /\ UNCHANGED kq
  BY DEF Serve, BeginResponse
<1>2. o.resp \in Responses /\ NextType(o.resp) \in Types
  BY DEF Made, NextType, Types
<1>3. o.resp.type \in {"POST", "GET", "FLUSH_ERR"} => o.resp.file \in Fds
  BY FreeType DEF Made
<1>4. closing' \subseteq Fds
  BY FreeType DEF BeginResponse, Made, TypeOK
<1>5. server \in {"up"} \cup Exceptions \cup Halts /\ trash \in BOOLEAN
  BY DEF TypeOK
<1> DEFINE r == [ev[c] EXCEPT !.resp = o.resp, !.type = NextType(o.resp)]
<1>6. /\ r \in Events /\ r.resp = o.resp /\ r.clientFd = ev[c].clientFd
      /\ r.toSendFd = ev[c].toSendFd /\ r.toRecvFd = ev[c].toRecvFd /\ r.state = ev[c].state
      /\ EventOK(r)
  BY <1>1, <1>2, <1>3, FieldsOfLive DEF EventOK, Events
<1>7. [ev EXCEPT ![c].resp = o.resp, ![c].type = NextType(o.resp)] = [ev EXCEPT ![c] = r]
  BY EventsTyped
<1> HIDE DEF r
<1>8. \A f \in Fds : EventOK([r EXCEPT !.toSendFd = f]) /\ EventOK([r EXCEPT !.toRecvFd = f])
  BY <1>6, <1>1, FieldsOfLive DEF EventOK, Events
<1>9. \A f : /\ [[ev EXCEPT ![c] = r] EXCEPT ![c].toSendFd = f] = [ev EXCEPT ![c] = [r EXCEPT !.toSendFd = f]]
             /\ [[ev EXCEPT ![c] = r] EXCEPT ![c].toRecvFd = f] = [ev EXCEPT ![c] = [r EXCEPT !.toRecvFd = f]]
  BY EventsTyped
<1>10. CASE /\ o.resp.type = "POST"
            /\ ev' = [[ev EXCEPT ![c] = r] EXCEPT ![c].toSendFd = o.resp.file]
            /\ pending' = Queue(StopReceiving(c), <<o.resp.file, "write">>, "add", c)
            /\ fds' = Opened(o.opened) /\ UNCHANGED <<server, trash>>
  BY <1>1, <1>3, <1>4, <1>5, <1>8, <1>9, <1>10, ListsType, ServeType
<1>11. CASE /\ o.resp.type = "GET"
            /\ ev' = [[ev EXCEPT ![c] = r] EXCEPT ![c].toRecvFd = o.resp.file]
            /\ pending' = Queue(StopReceiving(c), <<o.resp.file, "read">>, "add", c)
            /\ fds' = Opened(o.opened) /\ UNCHANGED <<server, trash>>
  BY <1>1, <1>3, <1>4, <1>5, <1>8, <1>9, <1>11, ListsType, ServeType
<1>12. CASE /\ o.resp.type = "DEL"
            /\ ev' = [[ev EXCEPT ![c] = r] EXCEPT ![c].toSendFd = ev[c].clientFd]
            /\ pending' = StartSending(c, StopReceiving(c))
            /\ fds' = Opened(o.opened) /\ UNCHANGED <<server, trash>>
  <2>1. ev[c].clientFd \in Fds
    BY <1>1, FieldsOfLive
  <2> QED
    BY <2>1, <1>1, <1>4, <1>5, <1>8, <1>9, <1>12, ListsType, ServeType
<1>13. CASE /\ \E f \in LowestOf(FreeFds \ o.opened) :
                 /\ ev' = [[ev EXCEPT ![c] = r] EXCEPT ![c].toSendFd = f]
                 /\ pending' = Queue(StopReceiving(c), <<f, "write">>, "add", c)
                 /\ fds' = Opened(o.opened \cup {f})
            /\ CreateTrash /\ UNCHANGED server
  <2>1. PICK f \in LowestOf(FreeFds \ o.opened) :
                 /\ ev' = [[ev EXCEPT ![c] = r] EXCEPT ![c].toSendFd = f]
                 /\ pending' = Queue(StopReceiving(c), <<f, "write">>, "add", c)
                 /\ fds' = Opened(o.opened \cup {f})
    BY <1>13
  <2>2. f \in Fds /\ trash' \in BOOLEAN
    BY <1>13, LowestFree, FreeType DEF CreateTrash
  <2> QED
    BY <2>1, <2>2, <1>1, <1>4, <1>5, <1>8, <1>9, <1>13, ListsType, ServeType
<1>14. CASE /\ ev' = [ev EXCEPT ![c] = r] /\ pending' = StopReceiving(c) /\ fds' = Opened(o.opened)
            /\ server' = "open_failed" /\ UNCHANGED trash
  BY <1>1, <1>4, <1>5, <1>6, <1>14, ListsType, ServeType DEF Exceptions
<1> QED
  BY <1>7, <1>10, <1>11, <1>12, <1>13, <1>14 DEF BeginResponse

LEMMA ReadableType ==
  ASSUME TypeOK, NEW c \in Conns, ServeReadable(c)
  PROVE  TypeOK'
<1>1. CASE BeginCgi(c)
  BY <1>1, BeginCgiType
<1>2. CASE ProcessRequest(c)
  <2>1. PICK o \in makeResponse(ev[c].method, ev[c].parse = "bad", FreeFds) : BeginResponse(c, o)
    BY <1>2 DEF ProcessRequest
  <2>2. (ev[c].parse = "bad") \in BOOLEAN
    OBVIOUS
  <2>3. Made(o, FreeFds)
    BY <2>2, FreeType, Responses_Made
  <2> QED
    BY <1>2, <2>1, <2>3, BeginResponseType DEF ProcessRequest
<1>3. CASE ProcessRequestThrows(c) \/ LookupNeverEnds(c)
  <2>1. /\ Serve(c, "HTTP_REQUEST_READABLE") /\ server' \in Exceptions \cup Halts
        /\ UNCHANGED <<ev, kq, pending, closing, trash>>
        /\ UNCHANGED fds \/ \E S : fds' = Opened(S)
    BY <1>3 DEF ProcessRequestThrows, NoResponseMade, LookupNeverEnds, Exceptions, Halts
  <2>2. closing \subseteq Fds /\ trash \in BOOLEAN /\ pending \in [Keys -> Seq(Change)]
    BY DEF TypeOK
  <2> QED
    BY <2>1, <2>2, ServeSameType
<1> QED
  BY <1>1, <1>2, <1>3 DEF ServeReadable

LEMMA ServeRemoveType ==
  ASSUME TypeOK, NEW c \in Conns, NEW t, Serve(c, t),
         NEW p \in [Keys -> Seq(Change)], NEW cl \in SUBSET Fds, removeConnection(c, p, cl),
         server' \in {"up"} \cup Exceptions \cup Halts, trash' \in BOOLEAN
  PROVE  TypeOK'
<1>1. /\ Live(c) /\ routed' \in [Conns -> Nat]
      /\ errs' \subseteq [key : Keys, ev : Conns \cup {Null}]
      /\ batch' \subseteq [key : Keys, ev : Conns, eof : BOOLEAN]
      /\ accepts' \in Nat
  BY DEF Serve, TypeOK
<1> QED
  BY <1>1, RemoveType

\* The parts of the state that most handlers leave alone, and what they file.
LEMMA Kept ==
  ASSUME TypeOK, NEW c \in Conns, Live(c)
  PROVE  /\ server \in {"up"} \cup Exceptions \cup Halts /\ trash \in BOOLEAN
         /\ closing \in SUBSET Fds /\ pending \in [Keys -> Seq(Change)]
         /\ closing \cup {ev[c].toSendFd} \in SUBSET Fds
         /\ closing \cup {ev[c].toRecvFd} \in SUBSET Fds
  BY FieldsOfLive DEF TypeOK

ParseStates == {"parsing", "uploading", "bad", "uploaded", "closed"}
Answerable(r) == r \in Responses /\ (r.type = "FLUSH_ERR" => r.file \in Fds)

LEMMA ErrorAnswers ==
  ASSUME NEW m
  PROVE  \A o \in errorResponses(m, FreeFds) : Answerable(o.resp) /\ o.opened \subseteq Fds
  BY ErrorPages, FreeType DEF Made, Answerable

LEMMA AnsweredOK ==
  ASSUME NEW e \in Events, EventOK(e), NEW q \in ParseStates, NEW r, Answerable(r)
  PROVE  EventOK([e EXCEPT !.resp = r, !.parse = q])
  BY ZenonT(60) DEF EventOK, Events, ParseStates, Answerable

LEMMA RedirectType ==
  ASSUME TypeOK, NEW c \in Conns, NEW t, Serve(c, t), NEW q \in ParseStates,
         NEW r, Answerable(r), redirectUploadError(c, r, q), UNCHANGED kq,
         \E S : fds' = Opened(S), closing' \subseteq Fds, trash' \in BOOLEAN
  PROVE  TypeOK'
<1>1. Live(c)
  BY DEF Serve
<1> DEFINE e == [ev[c] EXCEPT !.resp = r, !.parse = q]
<1>2. [ev EXCEPT ![c].resp = r, ![c].parse = q] = [ev EXCEPT ![c] = e]
  BY EventsTyped
<1>3. EventOK(e)
  BY <1>1, FieldsOfLive, AnsweredOK
<1> HIDE DEF e
<1>4. \A x : /\ [[ev EXCEPT ![c] = e] EXCEPT ![c].type = "HTTP_RESPONSE_WRITABLE", ![c].toSendFd = x]
                 = [ev EXCEPT ![c] = [e EXCEPT !.type = "HTTP_RESPONSE_WRITABLE", !.toSendFd = x]]
             /\ [[ev EXCEPT ![c] = e] EXCEPT ![c].type = "HTTP_RESPONSE_DOWNLOAD", ![c].toRecvFd = x]
                 = [ev EXCEPT ![c] = [e EXCEPT !.type = "HTTP_RESPONSE_DOWNLOAD", !.toRecvFd = x]]
  BY EventsTyped
<1>5. \A x \in Fds : /\ EventOK([e EXCEPT !.type = "HTTP_RESPONSE_WRITABLE", !.toSendFd = x])
                     /\ EventOK([e EXCEPT !.type = "HTTP_RESPONSE_DOWNLOAD", !.toRecvFd = x])
  BY ZenonT(60), <1>3 DEF EventOK, Events, Types
<1>6. ev[c].clientFd \in Fds
  BY <1>1, FieldsOfLive
<1>7. server \in {"up"} \cup Exceptions \cup Halts
  BY <1>1, Kept
<1>8. CASE /\ ev' = [[ev EXCEPT ![c] = e] EXCEPT ![c].type = "HTTP_RESPONSE_WRITABLE", ![c].toSendFd = ev[c].clientFd]
           /\ pending' = StartSending(c, SentFileDeleted(c))
           /\ UNCHANGED server
  BY <1>4, <1>5, <1>6, <1>7, <1>8, ListsType, ServeType
<1>9. CASE /\ r.type = "FLUSH_ERR"
           /\ ev' = [[ev EXCEPT ![c] = e] EXCEPT ![c].type = "HTTP_RESPONSE_DOWNLOAD", ![c].toRecvFd = r.file]
           /\ pending' = Queue(SentFileDeleted(c), <<r.file, "read">>, "add", c)
           /\ UNCHANGED server
  BY <1>4, <1>5, <1>7, <1>9, ListsType, ServeType DEF Answerable
<1>10. CASE ev' = [ev EXCEPT ![c] = e] /\ pending' = SentFileDeleted(c) /\ server' = "wrong_routine"
  BY <1>3, <1>10, ListsType, ServeType DEF Halts
<1> QED
  BY <1>2, <1>8, <1>9, <1>10 DEF redirectUploadError

LEMMA ErrorThrowsType ==
  ASSUME TypeOK, NEW c \in Conns, NEW t, Serve(c, t), NEW q \in ParseStates,
         ErrorResponseThrows(c, q), UNCHANGED <<kq, pending, fds, closing, trash>>
  PROVE  TypeOK'
<1>1. Live(c)
  BY DEF Serve
<1>2. Answerable(Deleted(ev[c].resp))
  BY <1>1, FieldsOfLive DEF EventOK, Events, Answerable, Deleted, FreedResponse, Response, Responses
<1>3. EventOK([ev[c] EXCEPT !.resp = Deleted(ev[c].resp), !.parse = q])
  BY <1>1, <1>2, FieldsOfLive, AnsweredOK
<1>4. ev' = [ev EXCEPT ![c] = [ev[c] EXCEPT !.resp = Deleted(ev[c].resp), !.parse = q]]
  BY EventsTyped DEF ErrorResponseThrows
<1>5. server' \in {"up"} \cup Exceptions \cup Halts
  BY DEF ErrorResponseThrows, Exceptions
<1> QED
  BY <1>1, <1>3, <1>4, <1>5, Kept, ServeType

LEMMA UploadType ==
  ASSUME TypeOK, NEW c \in Conns, UploadMore(c) \/ UploadClosed(c) \/ UploadBad(c) \/ UploadedFile(c)
  PROVE  TypeOK'
<1>1. Live(c) /\ Serve(c, "HTTP_REQUEST_UPLOAD") /\ UNCHANGED trash
  BY DEF UploadMore, UploadClosed, UploadBad, UploadedFile, UploadDone, Upload, Serve
<1>2. CASE UploadMore(c)
  BY <1>1, <1>2, Kept, ServeSameType DEF UploadMore
<1>3. CASE UploadClosed(c)
  BY <1>1, <1>3, Kept, ServeRemoveType DEF UploadClosed
<1>4. CASE UploadBad(c)
  <2>1. "bad" \in ParseStates
    BY DEF ParseStates
  <2>2. CASE \E o \in errorResponses(ev[c].method, FreeFds) :
               redirectUploadError(c, o.resp, "bad") /\ fds' = Opened(o.opened)
    BY <1>1, <1>4, <2>1, <2>2, Kept, ErrorAnswers, RedirectType DEF UploadBad
  <2>3. CASE ErrorResponseThrows(c, "bad") /\ UNCHANGED <<pending, fds>>
    BY <1>1, <1>4, <2>1, <2>3, ErrorThrowsType DEF UploadBad
  <2> QED
    BY <1>4, <2>2, <2>3 DEF UploadBad
<1>5. CASE UploadedFile(c)
  <2> DEFINE e == [ev[c] EXCEPT !.parse = "uploaded", !.type = "HTTP_RESPONSE_WRITABLE",
                                !.toSendFd = ev[c].clientFd]
  <2>1. EventOK(e)
    BY ZenonT(60), <1>1, FieldsOfLive DEF EventOK, Events, Types
  <2>2. ev' = [ev EXCEPT ![c] = e]
    BY <1>5, EventsTyped DEF UploadedFile, Uploaded
  <2> HIDE DEF e
  <2>3. /\ pending' = StartSending(c, SentFileDeleted(c)) /\ UNCHANGED <<server, fds, kq>>
        /\ closing' = closing \cup {ev[c].toSendFd}
    BY <1>5 DEF UploadedFile, UploadDone
  <2> QED
    BY <1>1, <2>1, <2>2, <2>3, Kept, ListsType, ServeType
<1> QED
  BY <1>2, <1>3, <1>4, <1>5

LEMMA ReceivingOK ==
  ASSUME NEW e \in Events, EventOK(e), NEW f \in Fds
  PROVE  EventOK([e EXCEPT !.type = "CGI_RESPONSE_READABLE", !.toRecvFd = f])
<1> DEFINE g == [e EXCEPT !.type = "CGI_RESPONSE_READABLE", !.toRecvFd = f]
<1>1. "CGI_RESPONSE_READABLE" \in Types
  BY DEF Types
<1>2. g \in Events
  BY <1>1 DEF Events
<1>3. /\ g.state = e.state /\ g.resp = e.resp /\ g.toRecvFd = f
      /\ g.clientFd = e.clientFd /\ g.toSendFd = e.toSendFd
  BY DEF Events
<1> QED
  BY <1>2, <1>3 DEF EventOK

LEMMA CgiForkType ==
  ASSUME TypeOK, NEW c \in Conns, CgiStarted(c) \/ CgiForkFails(c)
  PROVE  TypeOK'
<1>1. /\ Live(c) /\ Serve(c, "HTTP_REQUEST_UPLOAD") /\ UNCHANGED <<trash, kq>>
      /\ closing' = closing \cup {ev[c].toSendFd}
  BY DEF CgiStarted, CgiForkFails, UploadDone, Upload, Serve
<1> DEFINE e == [ev[c] EXCEPT !.parse = "uploaded"]
<1>2. Uploaded(c) = [ev EXCEPT ![c] = e]
  BY EventsTyped DEF Uploaded
<1>3. EventOK(e) /\ e \in Events
  BY <1>1, FieldsOfLive DEF EventOK, Events
<1> HIDE DEF e
<1>4. CASE \E f \in LowestOf(FreeFds) :
             /\ fds' = Opened({f})
             /\ ev' = [[ev EXCEPT ![c] = e] EXCEPT ![c].type = "CGI_RESPONSE_READABLE",
                                                   ![c].toRecvFd = f, ![c].pid = TRUE]
             /\ pending' = Queue(SentFileDeleted(c), <<f, "read">>, "add", c)
             /\ UNCHANGED server
  <2>1. PICK f \in LowestOf(FreeFds) :
             /\ fds' = Opened({f})
             /\ ev' = [[ev EXCEPT ![c] = e] EXCEPT ![c].type = "CGI_RESPONSE_READABLE",
                                                   ![c].toRecvFd = f, ![c].pid = TRUE]
             /\ pending' = Queue(SentFileDeleted(c), <<f, "read">>, "add", c)
             /\ UNCHANGED server
    BY <1>4
  <2>2. f \in Fds
    BY LowestFree, FreeType
  <2>3. EventOK([e EXCEPT !.type = "CGI_RESPONSE_READABLE", !.toRecvFd = f, !.pid = TRUE])
    <3> DEFINE g == [e EXCEPT !.pid = TRUE]
    <3>1. EventOK(g) /\ g \in Events
      BY ZenonT(60), <1>3 DEF EventOK, Events
    <3>2. [e EXCEPT !.type = "CGI_RESPONSE_READABLE", !.toRecvFd = f, !.pid = TRUE]
            = [g EXCEPT !.type = "CGI_RESPONSE_READABLE", !.toRecvFd = f]
      BY <1>3 DEF Events
    <3> HIDE DEF g
    <3>3. EventOK([g EXCEPT !.type = "CGI_RESPONSE_READABLE", !.toRecvFd = f])
      BY <3>1, <2>2, ReceivingOK
    <3> QED
      BY <3>2, <3>3
  <2>4. ev' = [ev EXCEPT ![c] = [e EXCEPT !.type = "CGI_RESPONSE_READABLE",
                                          !.toRecvFd = f, !.pid = TRUE]]
    BY <2>1, EventsTyped
  <2> QED
    BY <1>1, <2>1, <2>3, <2>4, Kept, ListsType, ServeType
<1>5. CASE /\ server' = "open_failed" /\ UNCHANGED fds
           /\ ev' = [[ev EXCEPT ![c] = e] EXCEPT ![c].pid = TRUE] \/ ev' = [ev EXCEPT ![c] = e]
           /\ pending' = SentFileDeleted(c)
  <2>1. EventOK([e EXCEPT !.pid = TRUE])
    BY <1>3 DEF EventOK, Events
  <2>2. [[ev EXCEPT ![c] = e] EXCEPT ![c].pid = TRUE] = [ev EXCEPT ![c] = [e EXCEPT !.pid = TRUE]]
    BY EventsTyped
  <2> QED
    BY <1>1, <1>3, <1>5, <2>1, <2>2, Kept, ListsType, ServeType DEF Exceptions
<1>6. CASE \E o \in errorResponses(ev[c].method, FreeFds) :
             /\ fds' = Opened(o.opened)
             /\ \/ /\ o.resp.type = "FLUSH_ERR"
                   /\ ev' = [[ev EXCEPT ![c] = e] EXCEPT ![c].type = "HTTP_RESPONSE_DOWNLOAD",
                                  ![c].toRecvFd = o.resp.file, ![c].resp = o.resp]
                   /\ pending' = Queue(SentFileDeleted(c), <<o.resp.file, "read">>, "add", c)
                   /\ UNCHANGED server
                \/ /\ server' = "unexpected_type"
                   /\ ev' = [[ev EXCEPT ![c] = e] EXCEPT ![c].resp = o.resp]
                   /\ pending' = SentFileDeleted(c)
  <2>1. PICK o \in errorResponses(ev[c].method, FreeFds) :
             /\ fds' = Opened(o.opened)
             /\ \/ /\ o.resp.type = "FLUSH_ERR"
                   /\ ev' = [[ev EXCEPT ![c] = e] EXCEPT ![c].type = "HTTP_RESPONSE_DOWNLOAD",
                                  ![c].toRecvFd = o.resp.file, ![c].resp = o.resp]
                   /\ pending' = Queue(SentFileDeleted(c), <<o.resp.file, "read">>, "add", c)
                   /\ UNCHANGED server
                \/ /\ server' = "unexpected_type"
                   /\ ev' = [[ev EXCEPT ![c] = e] EXCEPT ![c].resp = o.resp]
                   /\ pending' = SentFileDeleted(c)
    BY <1>6
  <2>2. Answerable(o.resp)
    BY ErrorAnswers
  <2>3. EventOK([e EXCEPT !.resp = o.resp])
    BY <1>3, <2>2 DEF EventOK, Events, Answerable
  <2>4. o.resp.type = "FLUSH_ERR" =>
          EventOK([e EXCEPT !.type = "HTTP_RESPONSE_DOWNLOAD", !.toRecvFd = o.resp.file, !.resp = o.resp])
    BY <1>3, <2>2 DEF EventOK, Events, Types, Answerable
  <2>5. /\ [[ev EXCEPT ![c] = e] EXCEPT ![c].resp = o.resp] = [ev EXCEPT ![c] = [e EXCEPT !.resp = o.resp]]
        /\ [[ev EXCEPT ![c] = e] EXCEPT ![c].type = "HTTP_RESPONSE_DOWNLOAD",
                                  ![c].toRecvFd = o.resp.file, ![c].resp = o.resp]
            = [ev EXCEPT ![c] = [e EXCEPT !.type = "HTTP_RESPONSE_DOWNLOAD", !.toRecvFd = o.resp.file, !.resp = o.resp]]
    BY EventsTyped
  <2>6. CASE server' = "unexpected_type" /\ pending' = SentFileDeleted(c)
             /\ ev' = [[ev EXCEPT ![c] = e] EXCEPT ![c].resp = o.resp]
    BY <1>1, <2>1, <2>3, <2>5, <2>6, Kept, ListsType, ServeType DEF Halts
  <2>7. CASE /\ o.resp.type = "FLUSH_ERR"
             /\ ev' = [[ev EXCEPT ![c] = e] EXCEPT ![c].type = "HTTP_RESPONSE_DOWNLOAD",
                                  ![c].toRecvFd = o.resp.file, ![c].resp = o.resp]
             /\ pending' = Queue(SentFileDeleted(c), <<o.resp.file, "read">>, "add", c)
             /\ UNCHANGED server
    BY <1>1, <2>1, <2>4, <2>5, <2>7, Kept, ListsType, ServeType
  <2> QED
    BY <2>1, <2>6, <2>7
<1>7. CASE CgiStarted(c)
  BY <1>2, <1>4, <1>5, <1>7 DEF CgiStarted
<1>8. CASE CgiForkFails(c)
  BY <1>2, <1>5, <1>6, <1>8 DEF CgiForkFails
<1> QED
  BY <1>7, <1>8

LEMMA FlushType ==
  ASSUME TypeOK, NEW c \in Conns, ServeFlush(c)
  PROVE  TypeOK'
<1>1. Live(c) /\ Serve(c, "BUFFER_FLUSH") /\ trash' \in BOOLEAN
  BY DEF ServeFlush, FlushMore, FlushClosed, FlushBad, FlushDone, Flush, Serve, RemoveTrash, TypeOK
<1>2. {"bad", "uploaded", "closed"} \subseteq ParseStates
  BY DEF ParseStates
<1>3. \A q \in ParseStates : EventOK([ev[c] EXCEPT !.parse = q])
  BY <1>1, FieldsOfLive DEF EventOK, Events, ParseStates
<1>4. \A q, r : /\ [ev EXCEPT ![c].parse = q] = [ev EXCEPT ![c] = [ev[c] EXCEPT !.parse = q]]
                /\ [ev EXCEPT ![c].parse = q, ![c].resp = r]
                     = [ev EXCEPT ![c] = [ev[c] EXCEPT !.resp = r, !.parse = q]]
  BY EventsTyped
<1>5. \A q \in ParseStates : \A r : Answerable(r) => EventOK([ev[c] EXCEPT !.resp = r, !.parse = q])
  BY <1>1, FieldsOfLive, AnsweredOK
<1>6. \A o \in FlushAnswers(c) : Answerable(o.resp)
  <2>1. Answerable(ev[c].resp)
    BY <1>1, FieldsOfLive DEF EventOK, Events, Answerable
  <2> QED
    BY <2>1, ErrorAnswers DEF FlushAnswers, Outcome
<1>7. CASE FlushMore(c)
  BY <1>1, <1>7, Kept, ServeSameType DEF FlushMore, Flush
<1>8. CASE FlushClosed(c)
  <2>1. CASE removeConnection(c, SentFileDeleted(c), closing \cup {ev[c].toSendFd}) /\ UNCHANGED server
    BY <1>1, <2>1, Kept, ListsType, ServeRemoveType
  <2>2. CASE /\ server' = "no_trash" /\ ev' = [ev EXCEPT ![c].parse = "closed"]
             /\ UNCHANGED <<kq, pending, fds, closing>>
    BY <1>1, <1>2, <1>3, <1>4, <2>2, Kept, ServeType DEF Exceptions
  <2> QED
    BY <1>8, <2>1, <2>2 DEF FlushClosed
<1>9. CASE FlushBad(c)
  <2>1. CASE ErrorResponseThrows(c, "bad") /\ UNCHANGED <<pending, fds, trash>>
    BY <1>1, <1>2, <1>9, <2>1, ErrorThrowsType DEF FlushBad, Flush
  <2>2. CASE \E o \in errorResponses(ev[c].method, FreeFds) :
               fds' = Opened(o.opened) /\ redirectUploadError(c, o.resp, "bad")
    BY <1>1, <1>2, <1>9, <2>2, ErrorAnswers, Kept, RedirectType DEF FlushBad, Flush
  <2>3. CASE \E o \in errorResponses(ev[c].method, FreeFds) :
               /\ fds' = Opened(o.opened) /\ server' = "no_trash"
               /\ ev' = [ev EXCEPT ![c].parse = "bad", ![c].resp = o.resp]
               /\ UNCHANGED pending
    <3>1. PICK o \in errorResponses(ev[c].method, FreeFds) :
               /\ fds' = Opened(o.opened) /\ server' = "no_trash"
               /\ ev' = [ev EXCEPT ![c].parse = "bad", ![c].resp = o.resp]
               /\ UNCHANGED pending
      BY <2>3
    <3>2. EventOK([ev[c] EXCEPT !.resp = o.resp, !.parse = "bad"])
      BY <1>2, <1>5, <1>6, ErrorAnswers
    <3>3. ev' = [ev EXCEPT ![c] = [ev[c] EXCEPT !.resp = o.resp, !.parse = "bad"]]
      BY <1>4, <3>1
    <3>4. UNCHANGED kq /\ closing' \subseteq Fds /\ pending' \in [Keys -> Seq(Change)]
      BY <1>9, <1>1, <3>1, Kept DEF FlushBad, Flush
    <3>5. server' \in {"up"} \cup Exceptions \cup Halts
      BY <3>1 DEF Exceptions
    <3> QED
      BY <1>1, <3>1, <3>2, <3>3, <3>4, <3>5, ServeType
  <2> QED
    BY <1>9, <2>1, <2>2, <2>3 DEF FlushBad
<1>10. CASE FlushDone(c)
  <2>1. CASE ErrorResponseThrows(c, "uploaded") /\ UNCHANGED <<pending, fds, closing, trash>>
    BY <1>1, <1>2, <1>10, <2>1, ErrorThrowsType DEF FlushDone, Flush
  <2>2. CASE \E o \in FlushAnswers(c) :
               /\ fds' = Opened(o.opened) /\ redirectUploadError(c, o.resp, "uploaded")
               /\ closing' = closing \cup {ev[c].toSendFd}
    BY <1>1, <1>2, <1>6, <1>10, <2>2, Kept, RedirectType DEF FlushDone, Flush
  <2>3. CASE \E o \in FlushAnswers(c) :
               /\ fds' = Opened(o.opened) /\ server' = "no_trash"
               /\ ev' = [ev EXCEPT ![c].parse = "uploaded", ![c].resp = o.resp]
               /\ UNCHANGED <<pending, closing>>
    <3>1. PICK o \in FlushAnswers(c) :
               /\ fds' = Opened(o.opened) /\ server' = "no_trash"
               /\ ev' = [ev EXCEPT ![c].parse = "uploaded", ![c].resp = o.resp]
               /\ UNCHANGED <<pending, closing>>
      BY <2>3
    <3>2. EventOK([ev[c] EXCEPT !.resp = o.resp, !.parse = "uploaded"])
      BY <1>2, <1>5, <1>6, ErrorAnswers
    <3>3. ev' = [ev EXCEPT ![c] = [ev[c] EXCEPT !.resp = o.resp, !.parse = "uploaded"]]
      BY <1>4, <3>1
    <3>4. UNCHANGED kq /\ closing' \subseteq Fds /\ pending' \in [Keys -> Seq(Change)]
      BY <1>10, <1>1, <3>1, Kept DEF FlushDone, Flush
    <3>5. server' \in {"up"} \cup Exceptions \cup Halts
      BY <3>1 DEF Exceptions
    <3> QED
      BY <1>1, <3>1, <3>2, <3>3, <3>4, <3>5, ServeType
  <2> QED
    BY <1>10, <2>1, <2>2, <2>3 DEF FlushDone
<1> QED
  BY <1>7, <1>8, <1>9, <1>10 DEF ServeFlush

LEMMA DownloadType ==
  ASSUME TypeOK, NEW c \in Conns, ServeDownload(c)
  PROVE  TypeOK'
<1>1. Live(c) /\ Serve(c, "HTTP_RESPONSE_DOWNLOAD") /\ UNCHANGED trash
  BY DEF ServeDownload, DownloadMore, DownloadFails, DownloadDone, Download, Serve
<1>2. CASE DownloadMore(c)
  BY <1>1, <1>2, Kept, ServeSameType DEF DownloadMore
<1>3. CASE DownloadFails(c)
  BY <1>1, <1>3, Kept, ListsType, ServeRemoveType DEF DownloadFails
<1>4. CASE DownloadDone(c)
  <2> DEFINE e == [ev[c] EXCEPT !.type = "HTTP_RESPONSE_WRITABLE", !.toSendFd = ev[c].clientFd,
                                !.resp.state = "HTTP_SENDING_STORAGE"]
  <2>1. EventOK(e)
    <3> DEFINE r == [ev[c].resp EXCEPT !.state = "HTTP_SENDING_STORAGE"]
    <3>1. Answerable(r)
      BY <1>1, FieldsOfLive DEF EventOK, Events, Answerable, Responses
    <3>2. e = [ev[c] EXCEPT !.type = "HTTP_RESPONSE_WRITABLE", !.toSendFd = ev[c].clientFd, !.resp = r]
      BY <1>1, FieldsOfLive DEF Events
    <3> HIDE DEF r, e
    <3>3. EventOK([ev[c] EXCEPT !.type = "HTTP_RESPONSE_WRITABLE", !.toSendFd = ev[c].clientFd, !.resp = r])
      BY ZenonT(60), <1>1, <3>1, FieldsOfLive DEF EventOK, Events, Types, Answerable
    <3> QED
      BY <3>2, <3>3
  <2>2. ev' = [ev EXCEPT ![c] = e]
    BY <1>4, EventsTyped DEF DownloadDone
  <2> HIDE DEF e
  <2>3. /\ pending' = StartSending(c, ReceivedFileDeleted(c)) /\ UNCHANGED <<server, kq, fds>>
        /\ closing' = closing \cup {ev[c].toRecvFd}
    BY <1>4 DEF DownloadDone
  <2> QED
    BY <1>1, <2>1, <2>2, <2>3, Kept, ListsType, ServeType
<1> QED
  BY <1>2, <1>3, <1>4 DEF ServeDownload

LEMMA CgiReplyType ==
  ASSUME TypeOK, NEW c \in Conns, CgiReply(c)
  PROVE  TypeOK'
<1>1. Live(c) /\ Serve(c, "CGI_RESPONSE_READABLE") /\ UNCHANGED <<server, kq, trash>>
  BY DEF CgiReply, Serve
<1>2. PICK body \in BOOLEAN,
           o \in CgiAnswers \cup (IF "old" \in Faults THEN errorResponses(ev[c].method, FreeFds) ELSE {}) :
        /\ fds' = Opened(o.opened)
        /\ \/ /\ ev' = [ev EXCEPT ![c].type = "HTTP_RESPONSE_DOWNLOAD",
                                  ![c].resp = [o.resp EXCEPT !.file = ev[c].toRecvFd]]
              /\ UNCHANGED <<pending, closing>>
           \/ /\ closing' = closing \cup {ev[c].toRecvFd}
              /\ ev' = [ev EXCEPT ![c].type = "HTTP_RESPONSE_WRITABLE",
                                  ![c].toSendFd = ev[c].clientFd, ![c].resp = o.resp]
              /\ pending' = StartSending(c, ReceivedFileDeleted(c))
  BY DEF CgiReply
<1>3. Answerable(o.resp)
  <2>1. \A a \in CgiAnswers : Answerable(a.resp)
    BY DEF CgiAnswers, Outcome, Response, Responses, Answerable
  <2> QED
    BY <2>1, ErrorAnswers
<1>4. ev[c].toRecvFd \in Fds /\ ev[c].clientFd \in Fds
  BY <1>1, FieldsOfLive
<1>5. Answerable([o.resp EXCEPT !.file = ev[c].toRecvFd])
  BY <1>3, <1>4 DEF Answerable, Responses
<1>6. \A r : Answerable(r) =>
        /\ EventOK([ev[c] EXCEPT !.type = "HTTP_RESPONSE_DOWNLOAD", !.resp = r])
        /\ EventOK([ev[c] EXCEPT !.type = "HTTP_RESPONSE_WRITABLE", !.toSendFd = ev[c].clientFd, !.resp = r])
  BY ZenonT(60), <1>1, <1>4, FieldsOfLive DEF EventOK, Events, Types, Answerable
<1>7. \A r : /\ [ev EXCEPT ![c].type = "HTTP_RESPONSE_DOWNLOAD", ![c].resp = r]
                  = [ev EXCEPT ![c] = [ev[c] EXCEPT !.type = "HTTP_RESPONSE_DOWNLOAD", !.resp = r]]
             /\ [ev EXCEPT ![c].type = "HTTP_RESPONSE_WRITABLE", ![c].toSendFd = ev[c].clientFd, ![c].resp = r]
                  = [ev EXCEPT ![c] = [ev[c] EXCEPT !.type = "HTTP_RESPONSE_WRITABLE",
                                                    !.toSendFd = ev[c].clientFd, !.resp = r]]
  BY EventsTyped
<1>8. CASE /\ ev' = [ev EXCEPT ![c].type = "HTTP_RESPONSE_DOWNLOAD",
                               ![c].resp = [o.resp EXCEPT !.file = ev[c].toRecvFd]]
           /\ UNCHANGED <<pending, closing>>
  <2>1. fds' = Opened(o.opened)
    BY <1>2
  <2> DEFINE e == [ev[c] EXCEPT !.type = "HTTP_RESPONSE_DOWNLOAD",
                                !.resp = [o.resp EXCEPT !.file = ev[c].toRecvFd]]
  <2>2. EventOK(e) /\ ev' = [ev EXCEPT ![c] = e]
    BY <1>5, <1>6, <1>7, <1>8
  <2> HIDE DEF e
  <2> QED
    BY <1>1, <1>8, <2>1, <2>2, Kept, ServeType
<1>9. CASE /\ closing' = closing \cup {ev[c].toRecvFd}
           /\ ev' = [ev EXCEPT ![c].type = "HTTP_RESPONSE_WRITABLE",
                               ![c].toSendFd = ev[c].clientFd, ![c].resp = o.resp]
           /\ pending' = StartSending(c, ReceivedFileDeleted(c))
  <2>1. fds' = Opened(o.opened)
    BY <1>2
  <2> DEFINE e == [ev[c] EXCEPT !.type = "HTTP_RESPONSE_WRITABLE",
                                !.toSendFd = ev[c].clientFd, !.resp = o.resp]
  <2>2. EventOK(e) /\ ev' = [ev EXCEPT ![c] = e]
    BY <1>3, <1>6, <1>7, <1>9
  <2> HIDE DEF e
  <2> QED
    BY <1>1, <1>9, <2>1, <2>2, Kept, ListsType, ServeType
<1> QED
  BY <1>2, <1>8, <1>9

LEMMA WritableType ==
  ASSUME TypeOK, NEW c \in Conns, ServeWritable(c)
  PROVE  TypeOK'
<1>1. Live(c) /\ Serve(c, "HTTP_RESPONSE_WRITABLE") /\ UNCHANGED trash
  BY DEF ServeWritable, SendMore, SendFails, FinishAndClose, FinishAndKeepAlive, Send, Serve
<1>2. CASE UNCHANGED <<ev, kq, pending, fds, closing>> /\ (UNCHANGED server \/ server' = "sigpipe")
  BY <1>1, <1>2, Kept, ServeSameType DEF Halts
<1>3. CASE removeConnection(c, pending, closing) /\ UNCHANGED server
  BY <1>1, <1>3, Kept, ServeRemoveType
<1>4. CASE FinishAndKeepAlive(c)
  <2>1. EventOK(Initialized(c))
    BY <1>1, FieldsOfLive, NewEventType DEF Initialized, EventOK, NewEvent, NoResponse, Response
  <2>2. EventOK([ev[c] EXCEPT !.resp.state = "HTTP_SENDING_DONE"])
    BY <1>1, FieldsOfLive DEF EventOK, Events, Responses
  <2>3. [ev EXCEPT ![c].resp.state = "HTTP_SENDING_DONE"]
          = [ev EXCEPT ![c] = [ev[c] EXCEPT !.resp.state = "HTTP_SENDING_DONE"]]
    BY EventsTyped
  <2> QED
    BY <1>1, <1>4, <2>1, <2>2, <2>3, Kept, ListsType, ServeType DEF FinishAndKeepAlive, Exceptions
<1> QED
  BY <1>2, <1>3, <1>4 DEF ServeWritable, SendMore, SendFails, FinishAndClose

LEMMA TypeStep ==
  ASSUME TypeOK, [Next]_vars
  PROVE  TypeOK'
<1>2. CASE UNCHANGED vars
  BY <1>2 DEF TypeOK, vars
<1>3. CASE \E c \in Conns : Age(c)
  BY <1>3, TimeType
<1>4. CASE ApplyChanges
  BY <1>4, KernelType
<1>5. CASE Kevent
  BY <1>5, KeventType
<1>6. CASE KeventTimeout \/ Reboot
  BY <1>6, TimeType
<1>7. CASE \E b \in batch : RouteOne(b)
  BY <1>7, RouteType
<1>8. CASE addConnection \/ AcceptFails
  BY <1>8, AcceptType
<1>9. ASSUME NEW c \in Conns, ServeOne(c) PROVE TypeOK'
  <2>1. CASE ServeReadable(c)
    BY <2>1, ReadableType
  <2>2. CASE ServeUpload(c)
    BY <2>2, UploadType, CgiForkType DEF ServeUpload
  <2>3. CASE ServeFlush(c)
    BY <2>3, FlushType
  <2>4. CASE ServeDownload(c)
    BY <2>4, DownloadType
  <2>5. CASE CgiReply(c)
    BY <2>5, CgiReplyType
  <2>6. CASE ServeWritable(c)
    BY <2>6, WritableType
  <2>7. CASE DeletesTwice(c)
    BY <2>7 DEF DeletesTwice, TypeOK, Halts
  <2> QED
    BY <1>9, <2>1, <2>2, <2>3, <2>4, <2>5, <2>6, <2>7 DEF ServeOne
<1> QED
  BY <1>2, <1>3, <1>4, <1>5, <1>6, <1>7, <1>8, <1>9 DEF Next

\* TypeCorrect: whichever of the Faults happen and however many connections there are, every
\* Event that is alive has three valid descriptors, every registration and
\* every change names an Event or NULL, and no response is flushed without a page.
THEOREM TypeCorrect == Spec => []TypeOK
<1>1. Init => TypeOK
  <2>1. SUFFICES ASSUME Init PROVE TypeOK
    OBVIOUS
  <2>2. NewEvent("none", NoFd) \in Events
    BY NewEventType
  <2>3. pending \in [Keys -> Seq(Change)]
    BY <2>1 DEF Init, EmptyList
  <2> QED
    BY <2>1, <2>2, <2>3 DEF Init, TypeOK, NewEvent, NoResponse, Response, Registration, NoReg
<1>2. TypeOK /\ [Next]_vars => TypeOK'
  BY TypeStep
<1> QED
  BY <1>1, <1>2, PTL DEF Spec

-----------------------------------------------------------------------------
(* The change list *)

\* Effective and ChangesApplicable for given registrations q and changes p.
EffectiveIn(q, p, k) == IF p[k] = << >> THEN q[k] ELSE Applied(q[k], p[k][Len(p[k])])
ApplicableIn(q, p, k) ==
  \A i \in 1..Len(p[k]) :
    /\ p[k][i].flag = "delete" <=> p[k][i].ev = Null
    /\ p[k][i].flag \in Demanding =>
         IF i = 1 THEN q[k].st # "none" ELSE p[k][i - 1].flag # "delete"
ListsOK(q, p) ==
  /\ q \in [Keys -> Registration] /\ p \in [Keys -> Seq(Change)]
  /\ \A k \in Keys : (q[k].st = "none" <=> q[k].ev = Null) /\ ApplicableIn(q, p, k)

LEMMA EffectiveShape ==
  ASSUME NEW q, NEW p, ListsOK(q, p), NEW k \in Keys
  PROVE  /\ EffectiveIn(q, p, k) \in Registration
         /\ \/ EffectiveIn(q, p, k) = NoReg
            \/ EffectiveIn(q, p, k).st \in {"on", "off"} /\ EffectiveIn(q, p, k).ev \in Conns
<1>1. q[k] \in Registration /\ p[k] \in Seq(Change) /\ (q[k].st = "none" <=> q[k].ev = Null)
  BY DEF ListsOK
<1>2. CASE p[k] = << >>
  BY <1>1, <1>2 DEF EffectiveIn, Registration, NoReg
<1>3. CASE p[k] # << >>
  <2> DEFINE ch == p[k][Len(p[k])]
  <2>1. ch \in Change /\ Len(p[k]) \in 1..Len(p[k])
    BY <1>1, <1>3
  <2>2. ch.flag = "delete" <=> ch.ev = Null
    BY <2>1 DEF ListsOK, ApplicableIn
  <2>3. EffectiveIn(q, p, k) = Applied(q[k], ch)
    BY <1>3 DEF EffectiveIn
  <2> QED
    BY <2>1, <2>2, <2>3 DEF Applied, NoReg, Registration, Change
<1> QED
  BY <1>2, <1>3

\* One change more: its own key gets the registration it asks for, the other
\* keys keep theirs.
LEMMA QueueStep ==
  ASSUME NEW q, NEW p, ListsOK(q, p), NEW k \in Keys, NEW flag \in Flags,
         NEW c \in Conns \cup {Null}, flag = "delete" <=> c = Null,
         flag \in Demanding => EffectiveIn(q, p, k).st # "none"
  PROVE  /\ ListsOK(q, Queue(p, k, flag, c))
         /\ EffectiveIn(q, Queue(p, k, flag, c), k) = Applied(q[k], [flag |-> flag, ev |-> c])
         /\ \A j \in Keys : j # k =>
              /\ Queue(p, k, flag, c)[j] = p[j]
              /\ EffectiveIn(q, Queue(p, k, flag, c), j) = EffectiveIn(q, p, j)
<1> DEFINE ch == [flag |-> flag, ev |-> c]
           r  == Queue(p, k, flag, c)
<1>1. r \in [Keys -> Seq(Change)]
  BY QueueType DEF ListsOK
<1>2. ch \in Change /\ p[k] \in Seq(Change) /\ q[k] \in Registration /\ ch.flag = flag /\ ch.ev = c
  BY DEF Change, ListsOK
<1>3. r[k] = Append(p[k], ch) /\ \A j \in Keys : j # k => r[j] = p[j]
  BY DEF ListsOK, Queue
<1> HIDE DEF ch, r
<1>4. /\ r[k] # << >> /\ Len(r[k]) = Len(p[k]) + 1 /\ r[k][Len(r[k])] = ch
      /\ \A i \in 1..Len(p[k]) : r[k][i] = p[k][i]
  BY <1>2, <1>3
<1>5. \A j \in Keys : j # k => EffectiveIn(q, r, j) = EffectiveIn(q, p, j) /\ ApplicableIn(q, r, j)
  BY <1>3 DEF EffectiveIn, ApplicableIn, ListsOK
<1>6. EffectiveIn(q, r, k) = Applied(q[k], ch)
  BY <1>4 DEF EffectiveIn
<1>7. ApplicableIn(q, r, k)
  <2> SUFFICES ASSUME NEW i \in 1..Len(r[k])
               PROVE /\ r[k][i].flag = "delete" <=> r[k][i].ev = Null
                     /\ r[k][i].flag \in Demanding =>
                          IF i = 1 THEN q[k].st # "none" ELSE r[k][i - 1].flag # "delete"
    BY DEF ApplicableIn
  <2>1. CASE i \in 1..Len(p[k])
    <3>1. ApplicableIn(q, p, k) /\ r[k][i] = p[k][i] /\ (i # 1 => r[k][i - 1] = p[k][i - 1])
      BY <1>2, <1>4, <2>1 DEF ListsOK
    <3> QED
      BY <2>1, <3>1 DEF ApplicableIn
  <2>2. CASE i = Len(p[k]) + 1
    <3>1. r[k][i] = ch
      BY <1>4, <2>2
    <3>2. CASE p[k] = << >>
      <4>1. i = 1 /\ EffectiveIn(q, p, k) = q[k]
        BY <2>2, <3>2 DEF EffectiveIn
      <4> QED
        BY <1>2, <3>1, <4>1
    <3>3. CASE p[k] # << >>
      <4>1. Len(p[k]) \in 1..Len(p[k]) /\ i # 1 /\ i - 1 = Len(p[k])
        BY <1>2, <2>2, <3>3
      <4>2. r[k][i - 1] = p[k][Len(p[k])] /\ EffectiveIn(q, p, k) = Applied(q[k], p[k][Len(p[k])])
        BY <1>4, <3>3, <4>1 DEF EffectiveIn
      <4>3. p[k][Len(p[k])].flag = "delete" => EffectiveIn(q, p, k).st = "none"
        BY <4>2 DEF Applied, NoReg
      <4> QED
        BY <1>2, <3>1, <4>1, <4>2, <4>3
    <3> QED
      BY <3>2, <3>3
  <2> QED
    BY <1>2, <1>4, <2>1, <2>2
<1> QED
  BY <1>1, <1>3, <1>5, <1>6, <1>7 DEF ListsOK, r, ch

LEMMA EffectiveIs ==
  /\ \A k \in Keys : Effective(k) = EffectiveIn(kq, pending, k)
  /\ \A k \in Keys : Effective(k)' = EffectiveIn(kq', pending', k)
  BY DEF Effective, EffectiveIn

-----------------------------------------------------------------------------
(* The invariant, connection by connection *)

BornOK == \A k \in Keys : Effective(k).ev # Null => StillThere(Effective(k).ev)

FileOK(k) ==
  /\ fds[k[1]] = "file"
  /\ \A filter \in Filters : <<k[1], filter>> = k \/ Effective(<<k[1], filter>>) = NoReg
PageOK(f) ==
  /\ f \in Fds /\ fds[f] = "file" /\ f \notin closing
  /\ \A filter \in Filters : Effective(<<f, filter>>) = NoReg
On(c) == [st |-> "on", ev |-> c]

\* What IInv says of a live connection's own registrations.
OwnOK(c) ==
  /\ ev[c].clientFd \in Fds /\ fds[ev[c].clientFd] = "socket"
  /\ \A filter \in Filters : Effective(Client(c, filter)).ev = c
  /\ \A k \in Keys : Effective(k).ev = c =>
       /\ k[1] = ev[c].clientFd \/ k = Active(c)
       /\ Effective(k).st = "on" => k = Active(c)
  /\ UsesFile(c) /\ Active(c) \in Keys /\ Effective(Active(c)) = On(c) => FileOK(Active(c))
  /\ HoldsPage(c) => PageOK(ev[c].resp.file)
  /\ "open" \notin Faults => Hears(c) \/ GaveUp(c)

\* ... and of two connections.
ApartOK(c, d) ==
  /\ Live(c) /\ Live(d) => ev[c].clientFd # ev[d].clientFd
  /\ HoldsPage(c) /\ HoldsPage(d) => ev[c].resp.file # ev[d].resp.file

IParts ==
  /\ TypeOK /\ NoStaleChange /\ ListsOK(kq, pending) /\ ErrorsAreDeletes /\ BornOK
  /\ \A c \in Conns : Live(c) => OwnOK(c)
  /\ \A c, d \in Conns : c # d => ApartOK(c, d)
  /\ DispatchSettled /\ HangupsAreSockets /\ DispatchOnce /\ CloseDiscipline

LEMMA InvIsParts == IInv <=> IParts
<1>1. ASSUME IInv PROVE IParts
  <2>1. ListsOK(kq, pending) /\ BornOK
    BY <1>1 DEF IInv, TypeOK, ListsOK, ApplicableIn, ChangesApplicable, RegistrationsBorn, BornOK
  <2>2. ASSUME NEW c \in Conns, Live(c) PROVE OwnOK(c)
    <3>1. HoldsPage(c) => PageOK(ev[c].resp.file)
      BY <1>1 DEF IInv, PageHeld, PageOK
    <3>2. UsesFile(c) /\ Active(c) \in Keys /\ Effective(Active(c)) = On(c) => FileOK(Active(c))
      BY <1>1, <2>2 DEF IInv, ActiveFile, FileOK, On
    <3> QED
      BY <1>1, <2>2, <3>1, <3>2 DEF IInv, ClientsRegistered, InterestOfType, Heard, OwnOK
  <2>3. ASSUME NEW c \in Conns, NEW d \in Conns, c # d PROVE ApartOK(c, d)
    BY <1>1, <2>3 DEF IInv, ClientsRegistered, PageHeld, ApartOK
  <2> QED
    BY <1>1, <2>1, <2>2, <2>3 DEF IInv, IParts
<1>2. ASSUME IParts PROVE IInv
  <2>1. ChangesApplicable /\ RegistrationsBorn
    BY <1>2 DEF IParts, ListsOK, ApplicableIn, ChangesApplicable, RegistrationsBorn, BornOK
  <2>2. ClientsRegistered /\ InterestOfType
    BY <1>2 DEF IParts, OwnOK, ApartOK, ClientsRegistered, InterestOfType
  <2>3. ActiveFile
    BY <1>2 DEF IParts, OwnOK, ActiveFile, FileOK, On
  <2>4. PageHeld
    BY <1>2 DEF IParts, OwnOK, ApartOK, PageHeld, PageOK, HoldsPage
  <2>5. Heard
    BY <1>2 DEF IParts, OwnOK, Heard
  <2> QED
    BY <1>2, <2>1, <2>2, <2>3, <2>4, <2>5 DEF IInv, IParts
<1> QED
  BY <1>1, <1>2

\* The descriptors that a handler of c may touch: c's socket, the file it moves
\* bytes to or from, the page it holds, and what the handler opens.
Spare(c, opened) == opened \cup {f \in {ev[c].resp.file} : HoldsPage(c)}
Mine(c, opened) == {ev[c].clientFd, Active(c)[1]} \cup Spare(c, opened)

\* c is being served or routed: its Event is live and its interest enabled.
AtWork(c) == Live(c) /\ Active(c) \in Keys /\ Effective(Active(c)) = On(c)

LEMMA KeysOf ==
  /\ \A k \in Keys : k[1] \in Fds /\ k[2] \in Filters /\ k = <<k[1], k[2]>>
  /\ \A f \in Fds, filter \in Filters : <<f, filter>> \in Keys
  BY DEF Keys

\* Nobody else has anything to do with them, and none waits to be closed.
LEMMA Foreign ==
  ASSUME IParts, NEW c \in Conns, AtWork(c), NEW opened \in SUBSET FreeFds,
         NEW f \in Mine(c, opened)
  PROVE  /\ f \in Fds /\ f \notin closing
         /\ f \notin opened => fds[f] # "free"
         /\ \A k \in Keys : k[1] = f => Effective(k).ev \in {c, Null}
         /\ \A d \in Conns : d # c /\ HoldsPage(d) => ev[d].resp.file # f
<1>1. OwnOK(c) /\ Live(c) /\ \A d \in Conns : d # c => ApartOK(c, d)
  BY DEF IParts, AtWork
<1>2. \A g \in closing : fds[g] = "file" /\ \A filter \in Filters : Effective(<<g, filter>>) = NoReg
  BY DEF IParts, CloseDiscipline, Filters
<1>3. \A d \in Conns : HoldsPage(d) => PageOK(ev[d].resp.file)
  BY DEF IParts, OwnOK, HoldsPage
<1>4. NoReg.ev = Null /\ On(c) # NoReg /\ Null \notin Conns
  BY ConstAssumption DEF NoReg, On
<1>5. CASE f = ev[c].clientFd
  <2>1. \A k \in Keys : k[1] = f => Effective(k).ev = c
    BY <1>1, <1>5, KeysOf DEF OwnOK, Client
  <2> QED
    BY <1>1, <1>2, <1>3, <1>5, <2>1 DEF OwnOK, PageOK
<1>6. CASE f = Active(c)[1] /\ UsesFile(c)
  <2>1. FileOK(Active(c)) /\ Active(c) \in Keys /\ Effective(Active(c)) = On(c)
    BY <1>1, <1>6 DEF OwnOK, AtWork
  <2>2. f \in Fds /\ fds[f] = "file" /\ Active(c) = <<f, Active(c)[2]>> /\ Active(c)[2] \in Filters
    BY <1>6, <2>1, KeysOf DEF FileOK
  <2>3. \A k \in Keys : k[1] = f => Effective(k).ev \in {c, Null}
    BY <1>4, <1>6, <2>1, KeysOf DEF FileOK, On
  <2>4. f \notin closing
    BY <1>2, <1>4, <2>1, <2>2
  <2>5. \A d \in Conns : HoldsPage(d) => ev[d].resp.file # f
    BY <1>3, <1>4, <2>1, <2>2 DEF PageOK
  <2> QED
    BY <2>2, <2>3, <2>4, <2>5
<1>7. CASE f \in opened
  <2>1. f \in Fds /\ fds[f] = "free"
    BY <1>7 DEF FreeFds
  <2>2. \A k \in Keys : k[1] = f => Effective(k) = NoReg
    BY <2>1 DEF IParts, NoStaleChange, Effective
  <2> QED
    BY <1>2, <1>3, <1>4, <1>7, <2>1, <2>2 DEF PageOK
<1>8. CASE f = ev[c].resp.file /\ HoldsPage(c)
  <2>1. PageOK(f)
    BY <1>3, <1>8
  <2>2. \A k \in Keys : k[1] = f => Effective(k) = NoReg
    BY <2>1, KeysOf DEF PageOK
  <2>3. \A d \in Conns : d # c /\ HoldsPage(d) => ev[d].resp.file # f
    BY <1>1, <1>8 DEF ApartOK
  <2> QED
    BY <1>4, <2>1, <2>2, <2>3 DEF PageOK
<1>9. UsesFile(c) \/ Active(c)[1] = ev[c].clientFd
  BY DEF UsesFile, Active, Client
<1> QED
  BY <1>5, <1>6, <1>7, <1>8, <1>9 DEF Mine, Spare

-----------------------------------------------------------------------------
(* Serving an Event *)

\* What is dispatched is at work.
LEMMA DispatchedWorks ==
  ASSUME IParts, NEW c \in Conns, Dispatched(c)
  PROVE  AtWork(c) /\ ~ev[c].stale /\ NoChange(c)
  BY DEF IParts, DispatchSettled, AtWork, NoChange, Effective, On

LEMMA ServedWorks ==
  ASSUME IParts, NEW c \in Conns, NEW t, Serve(c, t)
  PROVE  AtWork(c) /\ ~ev[c].stale /\ NoChange(c) /\ OwnOK(c) /\ TypeOK /\ ListsOK(kq, pending)
<1>1. Dispatched(c)
  BY DEF Serve, Dispatched
<1> QED
  BY <1>1, DispatchedWorks DEF IParts, AtWork

\* A step that changes the Events of C and the descriptors of M only, which were
\* and are registered for nobody else, leaves the other connections as they are.
Same(d) ==
  /\ ev'[d].state = ev[d].state /\ ev'[d].type = ev[d].type /\ ev'[d].resp = ev[d].resp
  /\ ev'[d].clientFd = ev[d].clientFd
  /\ ev'[d].toSendFd = ev[d].toSendFd /\ ev'[d].toRecvFd = ev[d].toRecvFd

LEMMA OthersKeep ==
  ASSUME IParts, NEW C \in SUBSET Conns, NEW M,
         \A x \in Conns \ C : Same(x),
         \A k \in Keys : k[1] \notin M => kq'[k] = kq[k] /\ pending'[k] = pending[k],
         \A k \in Keys : k[1] \in M => /\ Effective(k).ev \in C \cup {Null}
                                       /\ EffectiveIn(kq', pending', k).ev \in C \cup {Null},
         \A f \in Fds : f \notin M => fds'[f] = fds[f],
         \A x \in Conns \ C : HoldsPage(x) => ev[x].resp.file \notin M,
         \A f \in closing' : f \in closing \/ f \in M, Running,
         NEW d \in Conns \ C, Live(d)
  PROVE  /\ OwnOK(d)' /\ Live(d)' /\ Active(d)' = Active(d)
         /\ (HoldsPage(d)' <=> HoldsPage(d))
         /\ Dispatched(d) \/ ev[d].stale => NoChange(d)'
         /\ Dispatched(d) => kq'[Active(d)] = kq[Active(d)]
<1>1. OwnOK(d) /\ d \in Conns /\ d \notin C /\ Same(d) /\ d # Null
  BY ConstAssumption DEF IParts
<1>2. /\ Active(d)' = Active(d) /\ Live(d)' /\ (UsesFile(d)' <=> UsesFile(d))
      /\ (HoldsPage(d)' <=> HoldsPage(d)) /\ \A filter : Client(d, filter)' = Client(d, filter)
  BY <1>1 DEF Same, Active, Live, UsesFile, HoldsPage, Client
<1>3. \A k \in Keys : k[1] \notin M => EffectiveIn(kq', pending', k) = Effective(k)
  BY EffectiveIs DEF EffectiveIn
<1>4. ASSUME NEW k \in Keys, Effective(k).ev = d \/ EffectiveIn(kq', pending', k).ev = d
      PROVE  k[1] \notin M /\ EffectiveIn(kq', pending', k) = Effective(k)
  BY <1>1, <1>3, <1>4
<1>5. \A k \in Keys : Effective(k)' = EffectiveIn(kq', pending', k)
  BY EffectiveIs
<1>6. \A filter \in Filters : /\ Client(d, filter) \in Keys /\ Client(d, filter)[1] = ev[d].clientFd
                              /\ Client(d, filter)[1] \notin M
                              /\ Effective(Client(d, filter)).ev = d
                              /\ EffectiveIn(kq', pending', Client(d, filter)).ev = d
  <2> TAKE filter \in Filters
  <2>1. Client(d, filter) \in Keys /\ Client(d, filter)[1] = ev[d].clientFd /\ Effective(Client(d, filter)).ev = d
    BY <1>1, KeysOf DEF OwnOK, Client
  <2> QED
    BY <2>1, <1>4
<1>7. ev[d].clientFd \notin M /\ ev[d].clientFd \in Fds
  BY <1>1, <1>6 DEF Filters, OwnOK
<1>8. ev'[d].clientFd \in Fds /\ fds'[ev'[d].clientFd] = "socket" /\ ev'[d].clientFd = ev[d].clientFd
  BY <1>1, <1>7 DEF OwnOK, Same
<1>9. \A filter \in Filters : Effective(Client(d, filter))'.ev = d
  BY <1>2, <1>6 DEF Effective, EffectiveIn
<1>10. \A k \in Keys : Effective(k)'.ev = d => /\ k[1] = ev'[d].clientFd \/ k = Active(d)'
                                               /\ Effective(k)'.st = "on" => k = Active(d)'
  BY <1>1, <1>2, <1>4, <1>5, <1>8 DEF OwnOK
<1>11. UsesFile(d) /\ Active(d) \in Keys /\ EffectiveIn(kq', pending', Active(d)) = On(d) =>
         /\ fds'[Active(d)[1]] = "file"
         /\ \A filter \in Filters : <<Active(d)[1], filter>> = Active(d)
                                      \/ EffectiveIn(kq', pending', <<Active(d)[1], filter>>) = NoReg
  <2> SUFFICES ASSUME UsesFile(d), Active(d) \in Keys, EffectiveIn(kq', pending', Active(d)) = On(d)
               PROVE  /\ fds'[Active(d)[1]] = "file"
                      /\ \A filter \in Filters : <<Active(d)[1], filter>> = Active(d)
                                      \/ EffectiveIn(kq', pending', <<Active(d)[1], filter>>) = NoReg
    OBVIOUS
  <2> DEFINE k == Active(d)
  <2>1. k \in Keys /\ EffectiveIn(kq', pending', k).ev = d
    BY DEF On
  <2>2. k[1] \notin M /\ Effective(k) = On(d)
    BY <2>1, <1>4
  <2>3. FileOK(k)
    BY <2>2, <1>1 DEF OwnOK
  <2> HIDE DEF k
  <2>4. \A filter \in Filters : EffectiveIn(kq', pending', <<k[1], filter>>) = Effective(<<k[1], filter>>)
    BY <2>1, <2>2, <1>3, KeysOf
  <2>5. fds'[k[1]] = "file"
    BY <2>1, <2>2, <2>3, KeysOf DEF FileOK
  <2> QED
    BY <2>3, <2>4, <2>5 DEF FileOK, k
<1>12. UsesFile(d)' /\ Active(d)' \in Keys /\ Effective(Active(d))' = On(d) => FileOK(Active(d))'
  BY <1>2, <1>11 DEF FileOK, Effective, EffectiveIn
<1>13. HoldsPage(d)' => PageOK(ev[d].resp.file)'
  <2> SUFFICES ASSUME HoldsPage(d) PROVE PageOK(ev[d].resp.file)'
    BY <1>2
  <2> DEFINE f == ev[d].resp.file
  <2>1. PageOK(f) /\ f \notin M /\ f' = f
    BY <1>1 DEF OwnOK, Same
  <2>2. f \in Fds /\ fds'[f] = "file" /\ f \notin closing'
    BY <2>1 DEF PageOK
  <2>3. \A filter \in Filters : EffectiveIn(kq', pending', <<f, filter>>) = NoReg
    BY <2>1, <1>3, KeysOf DEF PageOK
  <2> QED
    BY <2>1, <2>2, <2>3 DEF PageOK, Effective, EffectiveIn
<1>14. OwnOK(d)'
  <2>1. ASSUME "open" \notin Faults PROVE Hears(d)'
    <3>1. Active(d) \in Keys /\ Effective(Active(d)) = On(d)
      BY <1>1, <2>1 DEF OwnOK, Hears, GaveUp, On
    <3>2. EffectiveIn(kq', pending', Active(d)) = On(d)
      BY <3>1, <1>4 DEF On
    <3> QED
      BY <1>2, <3>1, <3>2 DEF Hears, On, Effective, EffectiveIn
  <2> HIDE DEF On
  <2> QED
    BY <1>8, <1>9, <1>10, <1>12, <1>13, <2>1 DEF OwnOK, On
<1>15. ASSUME Dispatched(d) PROVE Active(d) \in Keys /\ Active(d)[1] \notin M /\ pending[Active(d)] = << >>
  <2>1. Active(d) \in Keys /\ Effective(Active(d)).ev = d /\ NoChange(d)
    BY <1>1, <1>15, DispatchedWorks DEF AtWork, On
  <2> QED
    BY <2>1, <1>4 DEF NoChange
<1>16. ASSUME Dispatched(d) \/ ev[d].stale PROVE NoChange(d)'
  <2>1. NoChange(d) /\ (ev[d].stale => ev[d].type = "HTTP_REQUEST_READABLE")
    BY <1>1, <1>16, DispatchedWorks DEF IParts, DispatchSettled
  <2>2. \A filter \in Filters : pending'[Client(d, filter)] = << >>
    BY <1>6, <2>1 DEF NoChange
  <2>3. pending'[Active(d)] = << >>
    <3>1. CASE ev[d].type = "HTTP_REQUEST_READABLE"
      BY <3>1, <2>2 DEF Active, Filters
    <3>2. CASE Dispatched(d)
      BY <3>2, <1>15
    <3> QED
      BY <3>1, <3>2, <1>16, <2>1
  <2> QED
    BY <2>2, <2>3, <1>2 DEF NoChange
<1> QED
  BY <1>2, <1>14, <1>15, <1>16

\* A handler of c that stays with its own descriptors disturbs nobody else, and
\* c is not dispatched again.
LEMMA ServeKeeps ==
  ASSUME IParts, TypeOK', NEW c \in Conns, NEW t, Serve(c, t),
         NEW e, ev' = [ev EXCEPT ![c] = e], e.state = "live", e.clientFd = ev[c].clientFd, ~e.stale,
         NEW opened \in SUBSET FreeFds, fds' = Opened(opened),
         UNCHANGED kq, ListsOK(kq, pending'),
         \A k \in Keys : k[1] \notin Mine(c, opened) => pending'[k] = pending[k],
         \A k \in Keys : k[1] \in Mine(c, opened) => EffectiveIn(kq, pending', k).ev \in {c, Null},
         OwnOK(c)', HoldsPage(c)' => e.resp.file \in Mine(c, opened),
         NEW cl \in SUBSET Mine(c, opened), closing' = closing \cup cl,
         \A f \in cl : fds'[f] = "file"
                         /\ \A filter \in Filters : EffectiveIn(kq, pending', <<f, filter>>) = NoReg
  PROVE  IParts'
<1> DEFINE M == Mine(c, opened)
<1>1. AtWork(c)
  BY ServedWorks
<1>2. \A f \in M : /\ f \in Fds /\ f \notin closing
                   /\ f \notin opened => fds[f] # "free"
                   /\ \A k \in Keys : k[1] = f => Effective(k).ev \in {c, Null}
                   /\ \A d \in Conns : d # c /\ HoldsPage(d) => ev[d].resp.file # f
  BY <1>1, Foreign
<1>3. \A k \in Keys : Effective(k)' = EffectiveIn(kq, pending', k)
  BY EffectiveIs
<1>4. \A k \in Keys : k[1] \notin M => Effective(k)' = Effective(k) /\ pending'[k] = pending[k]
  BY <1>3, EffectiveIs DEF EffectiveIn
<1>5. \A k \in Keys : k[1] \in M => Effective(k).ev \in {c, Null} /\ Effective(k)'.ev \in {c, Null}
  BY <1>2, <1>3
<1>6. /\ ev'[c] = e /\ Live(c) /\ Live(c)'
      /\ \A d \in Conns : d # c => ev'[d] = ev[d]
  BY DEF TypeOK, IParts, Live, Serve
<1>7. \A d \in Conns : d # c => /\ Active(d)' = Active(d) /\ (Live(d)' <=> Live(d))
                                /\ (UsesFile(d)' <=> UsesFile(d)) /\ (HoldsPage(d)' <=> HoldsPage(d))
                                /\ \A filter : Client(d, filter)' = Client(d, filter)
  BY <1>6 DEF Active, Live, UsesFile, HoldsPage, Client
<1>8. \A f \in Fds : fds[f] = "file" \/ f \in opened => fds'[f] = "file"
  BY DEF Opened
<1>9. \A f \in Fds : f \notin opened => fds'[f] = fds[f]
  BY DEF Opened
<1>10. opened \subseteq M /\ Null \notin Conns
  BY ConstAssumption DEF Mine, Spare
<1>11. \A d \in Conns : Live(d) => OwnOK(d)
  BY DEF IParts
<1> HIDE DEF M
<1>12. NoStaleChange'
  <2> SUFFICES ASSUME NEW k \in Keys, fds'[k[1]] = "free" PROVE pending'[k] = << >> /\ kq'[k] = NoReg
    BY DEF NoStaleChange
  <2>1. k[1] \in Fds
    BY KeysOf
  <2>2. k[1] \notin opened /\ fds[k[1]] = "free"
    BY <2>1, <1>8, <1>9
  <2>3. k[1] \notin M
    BY <2>2, <1>2
  <2> QED
    BY <2>2, <2>3, <1>4 DEF IParts, NoStaleChange
<1>13. ListsOK(kq, pending)' /\ ErrorsAreDeletes'
  BY DEF IParts, ListsOK, ErrorsAreDeletes, Serve
<1>14. BornOK'
  <2> DEFINE Stays(d) == ev'[d].state = "live" \/ (ev'[d].state = "freed" /\ "cgi" \in Faults)
  <2>0. \A d \in Conns : StillThere(d) => Stays(d)
    BY <1>6 DEF StillThere, Live
  <2> SUFFICES ASSUME NEW k \in Keys, Effective(k)'.ev # Null PROVE Stays(Effective(k)'.ev)
    BY DEF BornOK, StillThere
  <2>1. CASE k[1] \in M
    <3>1. Effective(k)'.ev = c /\ Stays(c)
      BY <1>5, <1>6, <2>1 DEF Live
    <3> QED
      BY <3>1
  <2>2. CASE k[1] \notin M
    <3>1. StillThere(Effective(k).ev) /\ Effective(k).ev \in Conns
      BY <1>4, <2>2, EffectiveShape, EffectiveIs DEF IParts, BornOK, NoReg
    <3> QED
      BY <1>4, <2>0, <2>2, <3>1
  <2> QED
    BY <2>1, <2>2
<1>15. ASSUME NEW d \in Conns \ {c}, Live(d)
       PROVE  /\ OwnOK(d)' /\ Active(d)' = Active(d)
              /\ Dispatched(d) \/ ev[d].stale => NoChange(d)'
              /\ Dispatched(d) => kq'[Active(d)] = kq[Active(d)]
  <2>1. \A x \in Conns \ {c} : Same(x)
    BY <1>6 DEF Same
  <2>2. \A k \in Keys : k[1] \in M => /\ Effective(k).ev \in {c} \cup {Null}
                                      /\ EffectiveIn(kq', pending', k).ev \in {c} \cup {Null}
    BY <1>5, EffectiveIs
  <2>3. \A k \in Keys : k[1] \notin M => kq'[k] = kq[k] /\ pending'[k] = pending[k]
    BY <1>4
  <2>4. \A f \in Fds : f \notin M => fds'[f] = fds[f]
    BY <1>9, <1>10
  <2>5. \A x \in Conns \ {c} : HoldsPage(x) => ev[x].resp.file \notin M
    BY <1>2
  <2>6. \A f \in closing' : f \in closing \/ f \in M
    BY DEF M
  <2>7. {c} \in SUBSET Conns
    OBVIOUS
  <2>8. Running
    BY DEF Serve, Running
  <2> QED
    BY <1>15, <2>1, <2>2, <2>3, <2>4, <2>5, <2>6, <2>7, <2>8, OthersKeep
<1>16. ASSUME NEW d \in Conns, Live(d)' PROVE OwnOK(d)'
  <2>1. CASE d = c
    BY <2>1
  <2>2. CASE d # c
    BY <1>7, <1>15, <1>16, <2>2
  <2> QED
    BY <2>1, <2>2
<1>17. \A x, y \in Conns : x # y => ApartOK(x, y)'
  <2> SUFFICES ASSUME NEW x \in Conns, NEW y \in Conns, x # y PROVE ApartOK(x, y)'
    OBVIOUS
  <2>1. ApartOK(x, y)
    BY DEF IParts
  <2>2. CASE x # c /\ y # c
    BY <2>1, <2>2, <1>6, <1>7 DEF ApartOK
  <2>3. ASSUME NEW d \in Conns, d # c
        PROVE  /\ Live(d)' => ev'[d].clientFd # ev'[c].clientFd
               /\ HoldsPage(d)' /\ HoldsPage(c)' => ev'[d].resp.file # ev'[c].resp.file
    <3>1. ApartOK(d, c)
      BY <2>3 DEF IParts
    <3>2. ev'[d] = ev[d] /\ (Live(d)' <=> Live(d)) /\ (HoldsPage(d)' <=> HoldsPage(d)) /\ ev'[c] = e
      BY <2>3, <1>6, <1>7
    <3>3. HoldsPage(c)' => e.resp.file \in M
      BY DEF M
    <3> QED
      BY <3>1, <3>2, <3>3, <1>2, <1>6, <2>3 DEF ApartOK
  <2> QED
    BY <2>2, <2>3 DEF ApartOK
<1>18. /\ batch = {} /\ batch' = {} /\ routed'[c] = 0
       /\ \A d \in Conns : d # c => routed'[d] = routed[d]
       /\ \A d \in Conns : routed'[d] =< 1
  BY DEF Serve, Routing, IParts, DispatchOnce, TypeOK
<1>19. DispatchOnce'
  BY <1>18 DEF DispatchOnce
<1>20. DispatchSettled'
  <2>1. ~Dispatched(c)' /\ ~ev'[c].stale
    BY <1>6, <1>18 DEF Dispatched
  <2>2. ASSUME NEW d \in Conns, d # c, Dispatched(d) \/ (Live(d) /\ ev[d].stale)
        PROVE  NoChange(d)'
    BY <2>2, <1>15 DEF IParts, DispatchSettled
  <2>3. ASSUME NEW d \in Conns, d # c
        PROVE  /\ Dispatched(d)' <=> Dispatched(d)
               /\ Active(d)' = Active(d) /\ ev'[d] = ev[d]
    BY <2>3, <1>6, <1>7, <1>18 DEF Dispatched
  <2>4. ASSUME NEW d \in Conns, d # c
        PROVE  /\ Dispatched(d)' => /\ Live(d)' /\ ~ev'[d].stale /\ Active(d)' \in Keys
                                    /\ kq'[Active(d)'] = [st |-> "on", ev |-> d]
                                    /\ NoChange(d)'
               /\ Live(d)' /\ ev'[d].stale => NoChange(d)' /\ ev'[d].type = "HTTP_REQUEST_READABLE"
    BY <2>2, <2>3, <2>4, <1>7 DEF IParts, DispatchSettled
  <2> QED
    BY <2>1, <2>4 DEF DispatchSettled
<1>21. CloseDiscipline'
  <2> SUFFICES ASSUME NEW f \in closing'
               PROVE  /\ fds'[f] = "file" /\ f \in Fds
                      /\ \A filter \in Filters : EffectiveIn(kq', pending', <<f, filter>>) = NoReg
    BY DEF CloseDiscipline, Effective, EffectiveIn, Filters
  <2>1. CASE f \in cl
    BY <2>1, <1>2 DEF M
  <2>2. CASE f \in closing
    <3>1. f \in Fds /\ fds[f] = "file" /\ \A filter \in Filters : Effective(<<f, filter>>) = NoReg
      BY <2>2 DEF IParts, CloseDiscipline, TypeOK, Filters
    <3>2. f \notin M
      BY <2>2, <1>2
    <3> QED
      BY <3>1, <3>2, <1>4, <1>8, KeysOf, EffectiveIs
  <2> QED
    BY <2>1, <2>2
<1>22. HangupsAreSockets'
  BY <1>18 DEF HangupsAreSockets
<1> QED
  BY <1>12, <1>13, <1>14, <1>16, <1>17, <1>19, <1>20, <1>21, <1>22 DEF IParts

-----------------------------------------------------------------------------
(* What the handlers file in the change list: first the interest of c is    *)
(* disabled or deleted, then another one may be enabled or added.           *)

Asleep(c) == [st |-> "off", ev |-> c]

\* With the list p, c is registered for its socket only and waits for nothing.
Quiet(c, p) ==
  /\ ListsOK(kq, p)
  /\ \A k \in Keys : k[1] \notin {ev[c].clientFd, Active(c)[1]} => p[k] = pending[k]
  /\ \A k \in Keys : k[1] = ev[c].clientFd => EffectiveIn(kq, p, k) = Asleep(c)
  /\ \A k \in Keys : k[1] = Active(c)[1] /\ k[1] # ev[c].clientFd => EffectiveIn(kq, p, k) = NoReg

\* Before: the two registrations of the socket are c's, the one that is not
\* active is disabled.
LEMMA SocketKeys ==
  ASSUME IParts, NEW c \in Conns, AtWork(c)
  PROVE  /\ ListsOK(kq, pending) /\ ev[c].clientFd \in Fds
         /\ \A k \in Keys : k[1] = ev[c].clientFd /\ k # Active(c) => EffectiveIn(kq, pending, k) = Asleep(c)
         /\ EffectiveIn(kq, pending, Active(c)) = On(c) /\ Active(c) \in Keys
         /\ ~UsesFile(c) => Active(c)[1] = ev[c].clientFd
         /\ UsesFile(c) => Active(c)[1] # ev[c].clientFd /\ FileOK(Active(c))
<1>1. OwnOK(c) /\ ListsOK(kq, pending) /\ Active(c) \in Keys /\ Effective(Active(c)) = On(c)
  BY DEF IParts, AtWork
<1>2. ASSUME NEW k \in Keys, k[1] = ev[c].clientFd, k # Active(c)
      PROVE  EffectiveIn(kq, pending, k) = Asleep(c)
  <2>1. Effective(k).ev = c
    BY <1>1, <1>2, KeysOf DEF OwnOK, Client
  <2>2. Effective(k).st # "on"
    BY <1>1, <1>2, <2>1 DEF OwnOK
  <2>3. EffectiveIn(kq, pending, k) \in Registration /\ EffectiveIn(kq, pending, k).st = "off"
    BY <1>1, <2>1, <2>2, EffectiveShape, EffectiveIs, ConstAssumption DEF NoReg
  <2> QED
    BY <2>1, <2>3, EffectiveIs DEF Registration, Asleep
<1>3. ~UsesFile(c) => Active(c)[1] = ev[c].clientFd
  BY DEF UsesFile, Active, Client
<1>4. UsesFile(c) => Active(c)[1] # ev[c].clientFd /\ FileOK(Active(c))
  BY <1>1 DEF OwnOK, FileOK
<1> QED
  BY <1>1, <1>2, <1>3, <1>4, EffectiveIs DEF OwnOK

LEMMA QuietSocket ==
  ASSUME IParts, NEW c \in Conns, AtWork(c), ~UsesFile(c)
  PROVE  Quiet(c, Queue(pending, Active(c), "disable", c))
<1> DEFINE p == Queue(pending, Active(c), "disable", c)
<1>1. /\ ListsOK(kq, p)
      /\ EffectiveIn(kq, p, Active(c)) = Applied(kq[Active(c)], [flag |-> "disable", ev |-> c])
      /\ \A k \in Keys : k # Active(c) => p[k] = pending[k] /\ EffectiveIn(kq, p, k) = EffectiveIn(kq, pending, k)
  <2>1. "disable" \in Flags /\ EffectiveIn(kq, pending, Active(c)).st # "none" /\ c # Null
    BY SocketKeys, ConstAssumption DEF Flags, On
  <2> QED
    BY <2>1, SocketKeys, QueueStep
<1>2. EffectiveIn(kq, p, Active(c)) = Asleep(c)
  BY <1>1 DEF Applied, Asleep
<1> HIDE DEF p
<1> QED
  BY <1>1, <1>2, SocketKeys DEF Quiet, p

LEMMA QuietFile ==
  ASSUME IParts, NEW c \in Conns, AtWork(c), UsesFile(c)
  PROVE  Quiet(c, Queue(pending, Active(c), "delete", Null))
<1> DEFINE p == Queue(pending, Active(c), "delete", Null)
<1>1. /\ ListsOK(kq, p)
      /\ EffectiveIn(kq, p, Active(c)) = Applied(kq[Active(c)], [flag |-> "delete", ev |-> Null])
      /\ \A k \in Keys : k # Active(c) => p[k] = pending[k] /\ EffectiveIn(kq, p, k) = EffectiveIn(kq, pending, k)
  BY SocketKeys, QueueStep DEF Flags, On
<1>2. EffectiveIn(kq, p, Active(c)) = NoReg
  BY <1>1 DEF Applied
<1> HIDE DEF p
<1>3. \A k \in Keys : k[1] = Active(c)[1] /\ k # Active(c) => EffectiveIn(kq, p, k) = NoReg
  BY <1>1, SocketKeys, KeysOf, EffectiveIs DEF FileOK
<1> QED
  BY <1>1, <1>2, <1>3, SocketKeys DEF Quiet, p

\* A descriptor just opened, or the page kept for c, is registered for nothing.
LEMMA SpareIs ==
  ASSUME IParts, NEW c \in Conns, AtWork(c), NEW opened \in SUBSET FreeFds,
         fds' = Opened(opened), NEW f \in Spare(c, opened)
  PROVE  /\ f \in Fds /\ f \notin closing /\ f # ev[c].clientFd /\ f # Active(c)[1]
         /\ \A k \in Keys : k[1] = f => EffectiveIn(kq, pending, k) = NoReg
         /\ fds'[f] = "file" /\ f \in Mine(c, opened)
<1>1. f \in Mine(c, opened)
  BY DEF Mine
<1>2. \A k \in Keys : k[1] = f => EffectiveIn(kq, pending, k) = NoReg
  <2>1. CASE f \in opened
    BY <2>1, EffectiveIs DEF FreeFds, IParts, NoStaleChange, Effective
  <2>2. CASE f = ev[c].resp.file /\ HoldsPage(c)
    <3>1. PageOK(f)
      BY <2>2 DEF IParts, OwnOK, AtWork
    <3> QED
      BY <3>1, KeysOf, EffectiveIs DEF PageOK
  <2> QED
    BY <2>1, <2>2 DEF Spare
<1>3. f \in Fds /\ f \notin closing
  BY <1>1, Foreign
<1>4. fds'[f] = "file"
  <2>1. CASE f \in opened
    BY <1>3, <2>1 DEF Opened
  <2>2. CASE f = ev[c].resp.file /\ HoldsPage(c)
    BY <1>3, <2>2 DEF IParts, OwnOK, AtWork, PageOK, Opened
  <2> QED
    BY <2>1, <2>2 DEF Spare
<1>5. f # Active(c)[1]
  BY <1>2, SocketKeys DEF On, NoReg
<1>6. f # ev[c].clientFd
  <2>1. Client(c, "read") \in Keys /\ Effective(Client(c, "read")).ev = c
    BY KeysOf DEF IParts, OwnOK, AtWork, Client, Filters
  <2> QED
    BY <2>1, <1>2, EffectiveIs, ConstAssumption DEF NoReg, Client
<1> QED
  BY <1>1, <1>2, <1>3, <1>4, <1>5, <1>6

\* What every handler that keeps its connection does: Event c becomes e, what is
\* to be closed (cl) was c's, and an error page that it keeps is not closed.
Handled(c, e, opened, cl) ==
  /\ ev' = [ev EXCEPT ![c] = e] /\ e.state = "live" /\ e.clientFd = ev[c].clientFd /\ ~e.stale
  /\ opened \subseteq FreeFds /\ fds' = Opened(opened)
  /\ closing' = closing \cup cl
  /\ UNCHANGED kq
  /\ e.type = "BUFFER_FLUSH" /\ e.resp.type = "FLUSH_ERR" => e.resp.file \in Spare(c, opened) \ cl
Files(c, opened) == {f \in {Active(c)[1]} : UsesFile(c)} \cup opened

\* Facts of the next state that ServeQuiet, ServeWake and ServeSame share.
LEMMA ServeCommon ==
  ASSUME IParts, TypeOK', NEW c \in Conns, NEW t, Serve(c, t),
         NEW e, NEW opened, NEW cl, Handled(c, e, opened, cl), cl \subseteq Files(c, opened)
  PROVE  /\ AtWork(c) /\ opened \in SUBSET FreeFds /\ cl \in SUBSET Mine(c, opened)
         /\ ev'[c] = e /\ (HoldsPage(c)' => e.resp.file \in Spare(c, opened) \ cl)
         /\ ev[c].clientFd \in Fds /\ fds'[ev[c].clientFd] = "socket"
         /\ \A f \in cl : f \in Fds /\ fds'[f] = "file"
         /\ (UsesFile(c) => fds'[Active(c)[1]] = "file" /\ Active(c)[1] \in Fds)
         /\ Spare(c, opened) \subseteq Mine(c, opened)
<1>1. AtWork(c) /\ opened \in SUBSET FreeFds /\ c \in DOMAIN ev
  BY ServedWorks DEF Handled, IParts, TypeOK
<1>2. ev'[c] = e
  BY <1>1 DEF Handled
<1>3. HoldsPage(c)' => e.resp.file \in Spare(c, opened) \ cl
  BY <1>2 DEF HoldsPage, Handled
<1>4. UsesFile(c) => fds'[Active(c)[1]] = "file" /\ Active(c)[1] \in Fds
  BY <1>1, SocketKeys, KeysOf DEF FileOK, Opened, Handled
<1>5. ev[c].clientFd \in Fds /\ fds'[ev[c].clientFd] = "socket"
  BY <1>1 DEF IParts, OwnOK, AtWork, Opened, Handled, FreeFds
<1>6. \A f \in opened : f \in Fds /\ fds'[f] = "file"
  BY DEF Handled, Opened, FreeFds
<1> QED
  BY <1>1, <1>2, <1>3, <1>4, <1>5, <1>6 DEF Files, Mine, Spare

\* The handler gives up its interest and gets no other.
LEMMA ServeQuiet ==
  ASSUME IParts, TypeOK', NEW c \in Conns, NEW t, Serve(c, t),
         NEW e, NEW opened, NEW cl, Handled(c, e, opened, cl), cl \subseteq Files(c, opened),
         Quiet(c, pending'), "open" \in Faults \/ GaveUp(c)'
  PROVE  IParts'
<1> DEFINE E(k) == EffectiveIn(kq, pending', k)
<1>1. /\ AtWork(c) /\ opened \in SUBSET FreeFds /\ cl \in SUBSET Mine(c, opened)
      /\ ev'[c] = e /\ (HoldsPage(c)' => e.resp.file \in Spare(c, opened) \ cl)
      /\ ev[c].clientFd \in Fds /\ fds'[ev[c].clientFd] = "socket"
      /\ \A f \in cl : f \in Fds /\ fds'[f] = "file"
      /\ Spare(c, opened) \subseteq Mine(c, opened)
  BY ServeCommon
<1>2. /\ ListsOK(kq, pending')
      /\ \A k \in Keys : k[1] \notin Mine(c, opened) => pending'[k] = pending[k]
  BY DEF Quiet, Mine
<1>3. \A k \in Keys : k[1] = ev[c].clientFd => E(k) = Asleep(c)
  BY DEF Quiet
<1>4. \A k \in Keys : k[1] = Active(c)[1] /\ k[1] # ev[c].clientFd => E(k) = NoReg
  BY DEF Quiet
<1>5. \A f \in Spare(c, opened) : /\ \A k \in Keys : k[1] = f => E(k) = NoReg
                                  /\ f \in Fds /\ f \notin closing /\ fds'[f] = "file"
                                  /\ f # ev[c].clientFd
  BY <1>1, SpareIs DEF Quiet, EffectiveIn, Handled
<1>6. \A k \in Keys : k[1] \in Mine(c, opened) /\ k[1] # ev[c].clientFd => E(k) = NoReg
  BY <1>4, <1>5 DEF Mine
<1>7. \A k \in Keys : E(k).ev = c => E(k) = Asleep(c) /\ k[1] = ev[c].clientFd
  <2> SUFFICES ASSUME NEW k \in Keys, E(k).ev = c PROVE E(k) = Asleep(c) /\ k[1] = ev[c].clientFd
    OBVIOUS
  <2>1. CASE k[1] \in Mine(c, opened)
    BY <1>3, <1>6, <2>1, ConstAssumption DEF NoReg
  <2>2. CASE k[1] \notin Mine(c, opened)
    <3>1. Effective(k).ev = c
      BY <1>2, <2>2, EffectiveIs DEF EffectiveIn
    <3> QED
      BY <1>1, <2>2, <3>1 DEF IParts, AtWork, OwnOK, Mine
  <2> QED
    BY <2>1, <2>2
<1>8. \A k \in Keys : k[1] \in Mine(c, opened) => E(k).ev \in {c, Null}
  BY <1>3, <1>6 DEF Asleep, NoReg
<1>9. \A f \in cl : fds'[f] = "file" /\ \A filter \in Filters : E(<<f, filter>>) = NoReg
  <2>1. \A f \in cl : f \in Mine(c, opened) /\ f # ev[c].clientFd
    BY <1>1, <1>5, SocketKeys DEF Files, Spare
  <2> QED
    BY <2>1, <1>1, <1>6, KeysOf
<1> HIDE DEF E
<1>10. kq' = kq /\ e.clientFd = ev[c].clientFd /\ \A k \in Keys : Effective(k)' = E(k)
  BY EffectiveIs DEF Handled, E
<1>11. OwnOK(c)'
  <2>1. \A filter \in Filters : Effective(Client(c, filter))'.ev = c
    <3> TAKE filter \in Filters
    <3>1. Client(c, filter)' = <<ev[c].clientFd, filter>> /\ <<ev[c].clientFd, filter>> \in Keys
      BY <1>1, <1>10, KeysOf DEF Client
    <3>2. EffectiveIn(kq', pending', Client(c, filter)') = Asleep(c)
      BY <3>1, <1>3, <1>10 DEF E
    <3>3. Effective(Client(c, filter))' = EffectiveIn(kq', pending', Client(c, filter)')
      BY DEF Effective, EffectiveIn
    <3> QED
      BY <3>2, <3>3 DEF Asleep
  <2>2. \A k \in Keys : Effective(k)'.ev = c =>
           /\ k[1] = ev'[c].clientFd \/ k = Active(c)'
           /\ Effective(k)'.st = "on" => k = Active(c)'
    BY <1>1, <1>7, <1>10 DEF Asleep
  <2>3. Active(c)' \in Keys => Effective(Active(c))' # On(c)
    <3>1. Effective(Active(c))' = EffectiveIn(kq', pending', Active(c)')
      BY DEF Effective, EffectiveIn
    <3> QED
      BY <3>1, <1>7, <1>10 DEF On, Asleep, E
  <2>4. HoldsPage(c)' => PageOK(ev[c].resp.file)'
    <3> SUFFICES ASSUME HoldsPage(c)' PROVE PageOK(ev[c].resp.file)'
      OBVIOUS
    <3> DEFINE f == e.resp.file
    <3>1. f \in Spare(c, opened) \ cl
      BY <1>1
    <3>2. f \in Fds /\ fds'[f] = "file" /\ f \notin closing'
      BY <3>1, <1>5 DEF Handled
    <3>3. \A filter \in Filters : EffectiveIn(kq', pending', <<f, filter>>) = NoReg
      BY <3>1, <3>2, <1>5, <1>10, KeysOf DEF E
    <3> QED
      BY <1>1, <3>2, <3>3 DEF PageOK, Effective, EffectiveIn
  <2>5. ev'[c].clientFd \in Fds /\ fds'[ev'[c].clientFd] = "socket"
    BY <1>1, <1>10
  <2>6. UsesFile(c)' /\ Active(c)' \in Keys /\ Effective(Active(c))' = On(c) => FileOK(Active(c))'
    BY <2>3
  <2> HIDE DEF On
  <2> QED
    BY <2>1, <2>2, <2>4, <2>5, <2>6 DEF OwnOK, On
<1>12. HoldsPage(c)' => e.resp.file \in Mine(c, opened)
  BY <1>1
<1>13. /\ ev' = [ev EXCEPT ![c] = e] /\ e.state = "live" /\ e.clientFd = ev[c].clientFd /\ ~e.stale
       /\ fds' = Opened(opened) /\ UNCHANGED kq /\ closing' = closing \cup cl
  BY DEF Handled
<1> QED
  BY ZenonT(60), <1>1, <1>2, <1>8, <1>9, <1>11, <1>12, <1>13, ServeKeeps DEF E

\* The handler gives up its interest and gets the one of its next type: its
\* socket, or a file that nobody uses.
LEMMA ServeWake ==
  ASSUME IParts, TypeOK', NEW c \in Conns, NEW t, Serve(c, t),
         NEW e, NEW opened, NEW cl, Handled(c, e, opened, cl), cl \subseteq Files(c, opened),
         NEW p, Quiet(c, p), NEW k \in Keys, NEW flag, pending' = Queue(p, k, flag, c), k = Active(c)',
         \/ flag = "enable" /\ k[1] = ev[c].clientFd /\ ~UsesFile(c)'
         \/ flag = "add" /\ k[1] \in Spare(c, opened) \ cl /\ (HoldsPage(c)' => e.resp.file # k[1])
  PROVE  IParts'
<1> DEFINE E(j) == EffectiveIn(kq, pending', j)
<1>1. /\ AtWork(c) /\ opened \in SUBSET FreeFds /\ cl \in SUBSET Mine(c, opened)
      /\ ev'[c] = e /\ (HoldsPage(c)' => e.resp.file \in Spare(c, opened) \ cl)
      /\ ev[c].clientFd \in Fds /\ fds'[ev[c].clientFd] = "socket"
      /\ \A f \in cl : f \in Fds /\ fds'[f] = "file"
      /\ Spare(c, opened) \subseteq Mine(c, opened)
  BY ServeCommon
<1>2. flag \in Flags /\ flag # "delete" /\ c # Null /\ flag # "disable"
  BY ConstAssumption DEF Flags
<1>3. flag = "enable" => EffectiveIn(kq, p, k).st # "none"
  BY <1>1, SpareIs DEF Quiet, Asleep, Handled
<1>4. /\ ListsOK(kq, pending') /\ E(k) = Applied(kq[k], [flag |-> flag, ev |-> c])
      /\ \A j \in Keys : j # k => pending'[j] = p[j] /\ E(j) = EffectiveIn(kq, p, j)
  BY <1>2, <1>3, QueueStep DEF Quiet, Demanding
<1>5. E(k) = On(c)
  BY <1>2, <1>4 DEF Applied, On
<1>6. k[1] \in Mine(c, opened)
  BY <1>1 DEF Mine
<1> HIDE DEF E
<1>7. \A j \in Keys : j # k /\ k[1] \in Spare(c, opened) => k[1] # ev[c].clientFd
  BY <1>1, SpareIs DEF Handled
<1>8. \A j \in Keys : j # k /\ j[1] = ev[c].clientFd => E(j) = Asleep(c)
  BY <1>4 DEF Quiet
<1>9. \A j \in Keys : j # k /\ j[1] \in Mine(c, opened) /\ j[1] # ev[c].clientFd => E(j) = NoReg
  <2> SUFFICES ASSUME NEW j \in Keys, j # k, j[1] \in Mine(c, opened), j[1] # ev[c].clientFd
               PROVE  EffectiveIn(kq, p, j) = NoReg
    BY <1>4
  <2>1. CASE j[1] = Active(c)[1]
    BY <2>1 DEF Quiet
  <2>2. CASE j[1] \in Spare(c, opened)
    <3>1. j[1] # Active(c)[1] /\ EffectiveIn(kq, pending, j) = NoReg
      BY <2>2, <1>1, SpareIs DEF Handled
    <3> QED
      BY <3>1 DEF Quiet, EffectiveIn
  <2> QED
    BY <2>1, <2>2 DEF Mine
<1>10. \A j \in Keys : j[1] \notin Mine(c, opened) => pending'[j] = pending[j]
  BY <1>4, <1>6 DEF Quiet, Mine
<1>11. \A j \in Keys : j[1] \in Mine(c, opened) => E(j).ev \in {c, Null}
  BY <1>5, <1>8, <1>9 DEF Asleep, NoReg, On
<1>12. \A f \in Spare(c, opened) : /\ f \in Fds /\ f \notin closing /\ fds'[f] = "file"
                                   /\ f # ev[c].clientFd
  BY <1>1, SpareIs DEF Handled
<1>13. \A f \in cl : fds'[f] = "file" /\ \A filter \in Filters : E(<<f, filter>>) = NoReg
  <2>1. \A f \in cl : f \in Mine(c, opened) /\ f # ev[c].clientFd /\ f \in Fds /\ fds'[f] = "file"
    BY <1>1, <1>12, SocketKeys DEF Files, Spare
  <2>2. \A f \in cl : f # k[1]
    BY <2>1
  <2> QED
    BY <2>1, <2>2, <1>9, KeysOf
<1>14. \A j \in Keys : E(j).ev = c => j[1] = ev[c].clientFd \/ j = k
  <2> SUFFICES ASSUME NEW j \in Keys, E(j).ev = c, j # k PROVE j[1] = ev[c].clientFd
    OBVIOUS
  <2>1. CASE j[1] \in Mine(c, opened)
    BY <1>9, <2>1, ConstAssumption DEF NoReg
  <2>2. CASE j[1] \notin Mine(c, opened)
    <3>1. Effective(j).ev = c
      BY <1>10, <2>2, EffectiveIs DEF EffectiveIn, E
    <3> QED
      BY <1>1, <2>2, <3>1 DEF IParts, AtWork, OwnOK, Mine
  <2> QED
    BY <2>1, <2>2
<1>15. kq' = kq /\ e.clientFd = ev[c].clientFd /\ \A j \in Keys : Effective(j)' = E(j)
  BY EffectiveIs DEF Handled, E
<1>16. OwnOK(c)'
  <2>1. \A filter \in Filters : Effective(Client(c, filter))'.ev = c
    <3> TAKE filter \in Filters
    <3>1. Client(c, filter)' = <<ev[c].clientFd, filter>> /\ <<ev[c].clientFd, filter>> \in Keys
      BY <1>1, <1>15, KeysOf DEF Client
    <3>2. EffectiveIn(kq', pending', Client(c, filter)').ev = c
      BY <3>1, <1>5, <1>8, <1>15 DEF E, Asleep, On
    <3> QED
      BY <3>2 DEF Effective, EffectiveIn
  <2>2. \A j \in Keys : Effective(j)'.ev = c =>
           /\ j[1] = ev'[c].clientFd \/ j = Active(c)'
           /\ Effective(j)'.st = "on" => j = Active(c)'
    <3> SUFFICES ASSUME NEW j \in Keys, E(j).ev = c, j # k PROVE j[1] = ev[c].clientFd /\ E(j).st # "on"
      BY <1>1, <1>15
    <3>1. j[1] = ev[c].clientFd
      BY <1>14
    <3> QED
      BY <3>1, <1>8 DEF Asleep
  <2>3. UsesFile(c)' => FileOK(Active(c))'
    <3> SUFFICES ASSUME UsesFile(c)' PROVE FileOK(Active(c))'
      OBVIOUS
    <3>1. k[1] \in Spare(c, opened) /\ k[1] # ev[c].clientFd /\ fds'[k[1]] = "file"
      BY <1>12
    <3>2. \A filter \in Filters : <<k[1], filter>> = k \/ EffectiveIn(kq', pending', <<k[1], filter>>) = NoReg
      BY <3>1, <1>6, <1>9, <1>15, KeysOf DEF E
    <3> QED
      BY <3>1, <3>2 DEF FileOK, Effective, EffectiveIn
  <2>4. HoldsPage(c)' => PageOK(ev[c].resp.file)'
    <3> SUFFICES ASSUME HoldsPage(c)' PROVE PageOK(ev[c].resp.file)'
      OBVIOUS
    <3> DEFINE f == e.resp.file
    <3>1. f \in Spare(c, opened) \ cl /\ UsesFile(c)' /\ f # k[1]
      BY <1>1 DEF HoldsPage, UsesFile
    <3>2. f \in Fds /\ fds'[f] = "file" /\ f \notin closing' /\ f \in Mine(c, opened) /\ f # ev[c].clientFd
      BY <3>1, <1>1, <1>12 DEF Handled
    <3>3. \A filter \in Filters : EffectiveIn(kq', pending', <<f, filter>>) = NoReg
      BY <3>1, <3>2, <1>9, <1>15, KeysOf DEF E
    <3> QED
      BY <1>1, <3>2, <3>3 DEF PageOK, Effective, EffectiveIn
  <2>5. ev'[c].clientFd \in Fds /\ fds'[ev'[c].clientFd] = "socket"
    BY <1>1, <1>15
  <2>6. Hears(c)'
    <3>1. EffectiveIn(kq', pending', Active(c)') = On(c) /\ Active(c)' \in Keys
      BY <1>5, <1>15 DEF E
    <3> QED
      BY <3>1 DEF Hears, On, Effective, EffectiveIn
  <2> HIDE DEF On
  <2> QED
    BY <2>1, <2>2, <2>3, <2>4, <2>5, <2>6 DEF OwnOK, On
<1>17. HoldsPage(c)' => e.resp.file \in Mine(c, opened)
  BY <1>1
<1>18. /\ ev' = [ev EXCEPT ![c] = e] /\ e.state = "live" /\ e.clientFd = ev[c].clientFd /\ ~e.stale
       /\ fds' = Opened(opened) /\ UNCHANGED kq /\ closing' = closing \cup cl
  BY DEF Handled
<1>19. /\ \A j \in Keys : j[1] \in Mine(c, opened) => EffectiveIn(kq, pending', j).ev \in {c, Null}
       /\ \A f \in cl : fds'[f] = "file"
                          /\ \A filter \in Filters : EffectiveIn(kq, pending', <<f, filter>>) = NoReg
       /\ ListsOK(kq, pending')
  BY <1>4, <1>11, <1>13 DEF E
<1>20. opened \in SUBSET FreeFds /\ cl \in SUBSET Mine(c, opened)
  BY <1>1
<1> QED
  BY ZenonT(60), <1>10, <1>16, <1>17, <1>18, <1>19, <1>20, ServeKeeps

\* The handler keeps its interest.
LEMMA ServeSame ==
  ASSUME IParts, TypeOK', NEW c \in Conns, NEW t, Serve(c, t),
         NEW e, NEW opened, Handled(c, e, opened, {}), UNCHANGED pending,
         Active(c)' = Active(c), UsesFile(c)' <=> UsesFile(c)
  PROVE  IParts'
<1>1. /\ AtWork(c) /\ opened \in SUBSET FreeFds
      /\ ev'[c] = e /\ (HoldsPage(c)' => e.resp.file \in Spare(c, opened))
      /\ ev[c].clientFd \in Fds /\ fds'[ev[c].clientFd] = "socket"
      /\ (UsesFile(c) => fds'[Active(c)[1]] = "file" /\ Active(c)[1] \in Fds)
      /\ Spare(c, opened) \subseteq Mine(c, opened)
  BY ServeCommon
<1>2. kq' = kq /\ pending' = pending /\ e.clientFd = ev[c].clientFd /\ ListsOK(kq, pending)
  BY DEF Handled, IParts
<1>3. \A k \in Keys : Effective(k)' = Effective(k) /\ EffectiveIn(kq, pending', k) = Effective(k)
  BY <1>2, EffectiveIs
<1>4. \A k \in Keys : k[1] \in Mine(c, opened) => EffectiveIn(kq, pending', k).ev \in {c, Null}
  BY <1>1, <1>3, Foreign
<1>5. OwnOK(c) /\ Active(c) \in Keys
  BY <1>1 DEF IParts, AtWork
<1>6. OwnOK(c)'
  <2>1. \A filter \in Filters : Client(c, filter)' = Client(c, filter) /\ Client(c, filter) \in Keys
    BY <1>1, <1>2, KeysOf DEF Client
  <2>2. \A filter \in Filters : Effective(Client(c, filter))'.ev = c
    BY <2>1, <1>2, <1>5 DEF OwnOK, Effective
  <2>3. \A k \in Keys : Effective(k)'.ev = c =>
           /\ k[1] = ev'[c].clientFd \/ k = Active(c)'
           /\ Effective(k)'.st = "on" => k = Active(c)'
    BY <1>1, <1>2, <1>3, <1>5 DEF OwnOK
  <2>4. UsesFile(c)' => FileOK(Active(c))'
    <3> SUFFICES ASSUME UsesFile(c) PROVE FileOK(Active(c))'
      OBVIOUS
    <3>1. FileOK(Active(c))
      BY <1>1, SocketKeys
    <3>2. \A filter \in Filters : <<Active(c)[1], filter>> = Active(c)
                                    \/ EffectiveIn(kq', pending', <<Active(c)[1], filter>>) = NoReg
      BY <3>1, <1>2 DEF FileOK, Effective, EffectiveIn
    <3> QED
      BY <1>1, <3>2 DEF FileOK, Effective, EffectiveIn
  <2>5. HoldsPage(c)' => PageOK(ev[c].resp.file)'
    <3> SUFFICES ASSUME HoldsPage(c)' PROVE PageOK(ev[c].resp.file)'
      OBVIOUS
    <3> DEFINE f == e.resp.file
    <3>1. f \in Spare(c, opened)
      BY <1>1
    <3>2. f \in Fds /\ fds'[f] = "file" /\ f \notin closing'
      BY <3>1, <1>1, SpareIs DEF Handled
    <3>3. \A filter \in Filters : EffectiveIn(kq', pending', <<f, filter>>) = NoReg
      BY <3>1, <3>2, <1>1, <1>2, SpareIs, KeysOf DEF Handled
    <3> QED
      BY <1>1, <3>2, <3>3 DEF PageOK, Effective, EffectiveIn
  <2>6. ev'[c].clientFd \in Fds /\ fds'[ev'[c].clientFd] = "socket"
    BY <1>1, <1>2
  <2>7. Hears(c)'
    <3>1. Active(c) \in Keys /\ Effective(Active(c)) = On(c)
      BY <1>1 DEF AtWork
    <3> QED
      BY <1>2, <3>1 DEF Hears, On, Effective
  <2> HIDE DEF On
  <2> QED
    BY <2>2, <2>3, <2>4, <2>5, <2>6, <2>7 DEF OwnOK, On
<1>7. HoldsPage(c)' => e.resp.file \in Mine(c, opened)
  BY <1>1
<1>8. /\ ev' = [ev EXCEPT ![c] = e] /\ e.state = "live" /\ ~e.stale
      /\ fds' = Opened(opened) /\ UNCHANGED kq /\ closing' = closing \cup {}
  BY DEF Handled
<1>9. /\ {} \in SUBSET Mine(c, opened) /\ opened \in SUBSET FreeFds /\ ListsOK(kq, pending')
      /\ \A k \in Keys : k[1] \notin Mine(c, opened) => pending'[k] = pending[k]
      /\ e.clientFd = ev[c].clientFd
      /\ \A f \in {} : fds'[f] = "file"
                         /\ \A filter \in Filters : EffectiveIn(kq, pending', <<f, filter>>) = NoReg
  BY <1>1, <1>2
<1> QED
  BY <1>4, <1>6, <1>7, <1>8, <1>9, ServeKeeps

-----------------------------------------------------------------------------
(* The handlers *)

LEMMA NothingOpened == TypeOK => Opened({}) = fds
  BY DEF TypeOK, Opened

LEMMA ActiveIs ==
  ASSUME NEW c \in Conns
  PROVE  /\ ev[c].type = "HTTP_REQUEST_READABLE" => Active(c) = <<ev[c].clientFd, "read">> /\ ~UsesFile(c)
         /\ ev[c].type = "HTTP_RESPONSE_WRITABLE" => Active(c) = <<ev[c].clientFd, "write">> /\ ~UsesFile(c)
         /\ ev[c].type \in {"HTTP_REQUEST_UPLOAD", "BUFFER_FLUSH"} =>
              Active(c) = <<ev[c].toSendFd, "write">> /\ UsesFile(c)
         /\ ev[c].type \in {"HTTP_RESPONSE_DOWNLOAD", "CGI_RESPONSE_READABLE"} =>
              Active(c) = <<ev[c].toRecvFd, "read">> /\ UsesFile(c)
  BY DEF Active, UsesFile, Client

LEMMA NextActiveIs ==
  ASSUME TypeOK, NEW c \in Conns, NEW e, ev' = [ev EXCEPT ![c] = e]
  PROVE  /\ e.type = "HTTP_REQUEST_READABLE" => Active(c)' = <<e.clientFd, "read">> /\ ~UsesFile(c)'
         /\ e.type = "HTTP_RESPONSE_WRITABLE" => Active(c)' = <<e.clientFd, "write">> /\ ~UsesFile(c)'
         /\ e.type \in {"HTTP_REQUEST_UPLOAD", "BUFFER_FLUSH"} =>
              Active(c)' = <<e.toSendFd, "write">> /\ UsesFile(c)'
         /\ e.type \in {"HTTP_RESPONSE_DOWNLOAD", "CGI_RESPONSE_READABLE"} =>
              Active(c)' = <<e.toRecvFd, "read">> /\ UsesFile(c)'
<1>1. ev'[c] = e
  BY DEF TypeOK
<1> QED
  BY <1>1 DEF Active, UsesFile, Client

LEMMA QuietLists ==
  ASSUME IParts, NEW c \in Conns, NEW t, Serve(c, t)
  PROVE  /\ t = "HTTP_REQUEST_READABLE" => Quiet(c, StopReceiving(c))
         /\ t = "HTTP_RESPONSE_WRITABLE" => Quiet(c, Queue(pending, Client(c, "write"), "disable", c))
         /\ t \in {"HTTP_REQUEST_UPLOAD", "BUFFER_FLUSH"} => Quiet(c, SentFileDeleted(c))
         /\ t \in {"HTTP_RESPONSE_DOWNLOAD", "CGI_RESPONSE_READABLE"} => Quiet(c, ReceivedFileDeleted(c))
<1>1. AtWork(c) /\ ev[c].type = t
  BY ServedWorks DEF Serve
<1> QED
  BY <1>1, ActiveIs, QuietSocket, QuietFile DEF StopReceiving, SentFileDeleted, ReceivedFileDeleted, Client

LEMMA ThenSend ==
  ASSUME IParts, TypeOK', NEW c \in Conns, NEW t, Serve(c, t),
         NEW e, NEW opened, NEW cl, Handled(c, e, opened, cl), cl \subseteq Files(c, opened),
         NEW p, Quiet(c, p), pending' = StartSending(c, p), e.type = "HTTP_RESPONSE_WRITABLE"
  PROVE  IParts'
<1> DEFINE k == <<ev[c].clientFd, "write">>
<1>1. TypeOK /\ ev[c].clientFd \in Fds
  BY ServedWorks DEF OwnOK
<1>2. ev' = [ev EXCEPT ![c] = e] /\ e.clientFd = ev[c].clientFd
  BY DEF Handled
<1>3. Active(c)' = k /\ ~UsesFile(c)'
  BY <1>1, <1>2, NextActiveIs
<1>4. k \in Keys /\ k[1] = ev[c].clientFd /\ pending' = Queue(p, k, "enable", c)
  BY <1>1, KeysOf DEF StartSending, Client, Filters
<1> HIDE DEF k
<1> QED
  BY <1>3, <1>4, ServeWake

LEMMA ThenMove ==
  ASSUME IParts, TypeOK', NEW c \in Conns, NEW t, Serve(c, t),
         NEW e, NEW opened, NEW cl, Handled(c, e, opened, cl), cl \subseteq Files(c, opened),
         NEW p, Quiet(c, p), NEW f \in Spare(c, opened) \ cl, NEW filter,
         pending' = Queue(p, <<f, filter>>, "add", c),
         \/ filter = "write" /\ e.type \in {"HTTP_REQUEST_UPLOAD", "BUFFER_FLUSH"} /\ e.toSendFd = f
         \/ filter = "read" /\ e.type \in {"HTTP_RESPONSE_DOWNLOAD", "CGI_RESPONSE_READABLE"} /\ e.toRecvFd = f,
         e.type = "BUFFER_FLUSH" /\ e.resp.type = "FLUSH_ERR" => e.resp.file # f
  PROVE  IParts'
<1> DEFINE k == <<f, filter>>
<1>1. TypeOK /\ AtWork(c)
  BY ServedWorks
<1>2. ev' = [ev EXCEPT ![c] = e] /\ ev'[c] = e
  BY <1>1 DEF Handled, TypeOK
<1>3. Active(c)' = k /\ UsesFile(c)'
  BY <1>1, <1>2, NextActiveIs
<1>4. f \in Fds
  BY <1>1, SpareIs DEF Handled
<1>5. k \in Keys /\ k[1] = f
  BY <1>4, KeysOf DEF Filters
<1>6. HoldsPage(c)' => e.resp.file # f
  BY <1>2 DEF HoldsPage
<1> HIDE DEF k
<1>7. k[1] \in Spare(c, opened) \ cl /\ (HoldsPage(c)' => e.resp.file # k[1]) /\ pending' = Queue(p, k, "add", c)
  BY <1>5, <1>6 DEF k
<1> QED
  BY <1>3, <1>5, <1>7, ServeWake

\* A handler that changes neither the Event nor the change list.
LEMMA ThenNothing ==
  ASSUME IParts, TypeOK', NEW c \in Conns, NEW t, Serve(c, t), UNCHANGED <<ev, kq, pending, closing>>,
         NEW opened \in SUBSET FreeFds, fds' = Opened(opened)
  PROVE  IParts'
<1>1. TypeOK /\ AtWork(c) /\ ~ev[c].stale
  BY ServedWorks
<1>2. Handled(c, ev[c], opened, {})
  <2>1. ev' = [ev EXCEPT ![c] = ev[c]] /\ ev[c].state = "live" /\ closing' = closing \cup {}
    BY <1>1, EventsTyped DEF AtWork, Live
  <2>2. ev[c].type = "BUFFER_FLUSH" /\ ev[c].resp.type = "FLUSH_ERR" => ev[c].resp.file \in Spare(c, opened)
    BY <1>1 DEF Spare, HoldsPage, AtWork
  <2> QED
    BY <1>1, <2>1, <2>2 DEF Handled
<1>3. Active(c)' = Active(c) /\ (UsesFile(c)' <=> UsesFile(c))
  BY DEF Active, UsesFile, Client
<1> QED
  BY <1>2, <1>3, ServeSame

\* The fields of Event c after a handler has set some of them.
LEMMA LiveFields ==
  ASSUME IParts, NEW c \in Conns, NEW t, Serve(c, t)
  PROVE  /\ ev[c] \in Events /\ ev[c].state = "live" /\ ~ev[c].stale /\ ev[c].type = t
         /\ TypeOK /\ ev = [d \in Conns |-> ev[d]] /\ Live(c)
         /\ closing \cup {} = closing /\ Opened({}) = fds /\ {} \subseteq FreeFds
  BY ServedWorks, EventsTyped, NothingOpened DEF EventOK, Serve, Live

LEMMA ServeIsNext ==
  ASSUME IParts, NEW c \in Conns, ServeOne(c)
  PROVE  TypeOK'
  BY TypeStep DEF IParts, Next

LEMMA BeginCgiKeeps ==
  ASSUME IParts, TypeOK', NEW c \in Conns, BeginCgi(c)
  PROVE  IParts'
<1>1. Serve(c, "HTTP_REQUEST_READABLE") /\ UNCHANGED <<kq, closing>>
  BY DEF BeginCgi
<1>2. /\ ev[c] \in Events /\ ev[c].state = "live" /\ ~ev[c].stale
      /\ ev = [d \in Conns |-> ev[d]] /\ closing \cup {} = closing
      /\ Opened({}) = fds /\ {} \subseteq FreeFds
  BY <1>1, LiveFields
<1>3. CASE UNCHANGED <<ev, pending, fds>>
  BY <1>1, <1>2, <1>3, ThenNothing
<1>4. CASE \E f \in LowestOf(FreeFds) :
             /\ fds' = Opened({f})
             /\ ev' = [ev EXCEPT ![c].type = "HTTP_REQUEST_UPLOAD", ![c].toSendFd = f]
             /\ pending' = Queue(StopReceiving(c), <<f, "write">>, "add", c)
  <2>1. PICK f \in LowestOf(FreeFds) :
             /\ fds' = Opened({f})
             /\ ev' = [ev EXCEPT ![c].type = "HTTP_REQUEST_UPLOAD", ![c].toSendFd = f]
             /\ pending' = Queue(StopReceiving(c), <<f, "write">>, "add", c)
    BY <1>4
  <2> DEFINE e == [ev[c] EXCEPT !.type = "HTTP_REQUEST_UPLOAD", !.toSendFd = f]
  <2>2. ev' = [ev EXCEPT ![c] = e]
    BY <1>2, <2>1
  <2>3. /\ e.state = "live" /\ e.clientFd = ev[c].clientFd /\ ~e.stale
        /\ e.type = "HTTP_REQUEST_UPLOAD" /\ e.toSendFd = f
    BY <1>2 DEF Events
  <2> HIDE DEF e
  <2>4. {f} \subseteq FreeFds /\ f \in Spare(c, {f}) \ {}
    BY LowestFree DEF Spare
  <2>5. Handled(c, e, {f}, {}) /\ {} \subseteq Files(c, {f})
    BY <1>1, <1>2, <2>1, <2>2, <2>3, <2>4 DEF Handled
  <2> QED
    BY <1>1, <2>1, <2>3, <2>4, <2>5, QuietLists, ThenMove
<1> QED
  BY <1>3, <1>4 DEF BeginCgi

LEMMA BeginResponseKeeps ==
  ASSUME IParts, TypeOK', NEW c \in Conns, Serve(c, "HTTP_REQUEST_READABLE"),
         NEW o, Made(o, FreeFds), BeginResponse(c, o)
  PROVE  IParts'
<1>1. /\ ev[c] \in Events /\ ev[c].state = "live" /\ ~ev[c].stale
      /\ ev = [d \in Conns |-> ev[d]]
  BY LiveFields
<1>2. UNCHANGED kq /\ closing' = closing \cup o.closing /\ Quiet(c, StopReceiving(c))
  BY QuietLists DEF BeginResponse
<1>3. /\ o.opened \subseteq FreeFds /\ o.closing \subseteq o.opened
      /\ o.resp.type \in {"POST", "GET", "FLUSH_ERR"} => o.resp.file \in o.opened \ o.closing
  BY DEF Made
<1> DEFINE r == [ev[c] EXCEPT !.resp = o.resp, !.type = NextType(o.resp)]
<1>4. /\ r.resp = o.resp /\ r.clientFd = ev[c].clientFd /\ r.type = NextType(o.resp)
      /\ r.state = "live" /\ ~r.stale
      /\ \A f : /\ [r EXCEPT !.toSendFd = f].toSendFd = f /\ [r EXCEPT !.toRecvFd = f].toRecvFd = f
                /\ [r EXCEPT !.toSendFd = f].resp = o.resp /\ [r EXCEPT !.toRecvFd = f].resp = o.resp
                /\ [r EXCEPT !.toSendFd = f].type = r.type /\ [r EXCEPT !.toRecvFd = f].type = r.type
                /\ [r EXCEPT !.toSendFd = f].state = "live" /\ [r EXCEPT !.toRecvFd = f].state = "live"
                /\ ~[r EXCEPT !.toSendFd = f].stale /\ ~[r EXCEPT !.toRecvFd = f].stale
                /\ [r EXCEPT !.toSendFd = f].clientFd = ev[c].clientFd
                /\ [r EXCEPT !.toRecvFd = f].clientFd = ev[c].clientFd
  BY <1>1 DEF Events
<1>5. [ev EXCEPT ![c].resp = o.resp, ![c].type = NextType(o.resp)] = [ev EXCEPT ![c] = r]
  BY <1>1
<1> HIDE DEF r
<1>6. \A f : /\ [[ev EXCEPT ![c] = r] EXCEPT ![c].toSendFd = f] = [ev EXCEPT ![c] = [r EXCEPT !.toSendFd = f]]
             /\ [[ev EXCEPT ![c] = r] EXCEPT ![c].toRecvFd = f] = [ev EXCEPT ![c] = [r EXCEPT !.toRecvFd = f]]
  BY <1>1
<1>7. /\ o.resp.type = "POST" => NextType(o.resp) = "HTTP_REQUEST_UPLOAD"
      /\ o.resp.type = "GET" => NextType(o.resp) = "HTTP_RESPONSE_DOWNLOAD"
      /\ o.resp.type = "DEL" => NextType(o.resp) = "HTTP_RESPONSE_WRITABLE"
      /\ o.resp.type \in {"FLUSH", "FLUSH_ERR"} => NextType(o.resp) = "BUFFER_FLUSH"
  BY DEF NextType
<1>8. \A S : o.closing \subseteq Files(c, o.opened \cup S) /\ o.opened \subseteq Spare(c, o.opened \cup S)
  BY <1>3 DEF Files, Spare
<1>9. o.opened \cup {} = o.opened
  OBVIOUS
<1>10. CASE /\ o.resp.type = "POST"
            /\ ev' = [[ev EXCEPT ![c] = r] EXCEPT ![c].toSendFd = o.resp.file]
            /\ pending' = Queue(StopReceiving(c), <<o.resp.file, "write">>, "add", c)
            /\ fds' = Opened(o.opened)
  <2> DEFINE e == [r EXCEPT !.toSendFd = o.resp.file]
  <2>1. ev' = [ev EXCEPT ![c] = e] /\ e.state = "live" /\ ~e.stale /\ e.clientFd = ev[c].clientFd
        /\ e.type = "HTTP_REQUEST_UPLOAD" /\ e.toSendFd = o.resp.file
    BY <1>4, <1>6, <1>7, <1>10
  <2> HIDE DEF e
  <2>2. Handled(c, e, o.opened, o.closing)
    BY <1>2, <1>3, <1>10, <2>1 DEF Handled
  <2>3. o.closing \subseteq Files(c, o.opened) /\ o.resp.file \in Spare(c, o.opened) \ o.closing
    BY <1>3, <1>8, <1>9, <1>10
  <2> QED
    BY <1>2, <1>10, <2>1, <2>2, <2>3, ThenMove
<1>11. CASE /\ o.resp.type = "GET"
            /\ ev' = [[ev EXCEPT ![c] = r] EXCEPT ![c].toRecvFd = o.resp.file]
            /\ pending' = Queue(StopReceiving(c), <<o.resp.file, "read">>, "add", c)
            /\ fds' = Opened(o.opened)
  <2> DEFINE e == [r EXCEPT !.toRecvFd = o.resp.file]
  <2>1. ev' = [ev EXCEPT ![c] = e] /\ e.state = "live" /\ ~e.stale /\ e.clientFd = ev[c].clientFd
        /\ e.type = "HTTP_RESPONSE_DOWNLOAD" /\ e.toRecvFd = o.resp.file
    BY <1>4, <1>6, <1>7, <1>11
  <2> HIDE DEF e
  <2>2. Handled(c, e, o.opened, o.closing)
    BY <1>2, <1>3, <1>11, <2>1 DEF Handled
  <2>3. o.closing \subseteq Files(c, o.opened) /\ o.resp.file \in Spare(c, o.opened) \ o.closing
    BY <1>3, <1>8, <1>9, <1>11
  <2> QED
    BY <1>2, <1>11, <2>1, <2>2, <2>3, ThenMove
<1>12. CASE /\ o.resp.type = "DEL"
            /\ ev' = [[ev EXCEPT ![c] = r] EXCEPT ![c].toSendFd = ev[c].clientFd]
            /\ pending' = StartSending(c, StopReceiving(c))
            /\ fds' = Opened(o.opened)
  <2> DEFINE e == [r EXCEPT !.toSendFd = ev[c].clientFd]
  <2>1. ev' = [ev EXCEPT ![c] = e] /\ e.state = "live" /\ ~e.stale /\ e.clientFd = ev[c].clientFd
        /\ e.type = "HTTP_RESPONSE_WRITABLE"
    BY <1>4, <1>6, <1>7, <1>12
  <2> HIDE DEF e
  <2>2. Handled(c, e, o.opened, o.closing)
    BY <1>2, <1>3, <1>12, <2>1 DEF Handled
  <2>3. o.closing \subseteq Files(c, o.opened)
    BY <1>8, <1>9
  <2> QED
    BY <1>2, <1>12, <2>1, <2>2, <2>3, ThenSend
<1>13. CASE /\ o.resp.type \in {"FLUSH", "FLUSH_ERR"}
            /\ \E f \in LowestOf(FreeFds \ o.opened) :
                 /\ ev' = [[ev EXCEPT ![c] = r] EXCEPT ![c].toSendFd = f]
                 /\ pending' = Queue(StopReceiving(c), <<f, "write">>, "add", c)
                 /\ fds' = Opened(o.opened \cup {f})
  <2>1. PICK f \in LowestOf(FreeFds \ o.opened) :
                 /\ ev' = [[ev EXCEPT ![c] = r] EXCEPT ![c].toSendFd = f]
                 /\ pending' = Queue(StopReceiving(c), <<f, "write">>, "add", c)
                 /\ fds' = Opened(o.opened \cup {f})
    BY <1>13
  <2>2. f \in FreeFds \ o.opened
    BY LowestFree
  <2> DEFINE e == [r EXCEPT !.toSendFd = f]
             opened == o.opened \cup {f}
  <2>3. ev' = [ev EXCEPT ![c] = e] /\ e.state = "live" /\ ~e.stale /\ e.clientFd = ev[c].clientFd
        /\ e.type = "BUFFER_FLUSH" /\ e.toSendFd = f /\ e.resp = o.resp
    BY <1>4, <1>6, <1>7, <1>13, <2>1
  <2> HIDE DEF e
  <2>4. /\ opened \subseteq FreeFds /\ f \in Spare(c, opened) \ o.closing /\ o.closing \subseteq Files(c, opened)
        /\ o.opened \subseteq Spare(c, opened)
    BY <1>3, <1>8, <2>2 DEF Spare
  <2>5. e.resp.type = "FLUSH_ERR" => e.resp.file \in Spare(c, opened) \ o.closing /\ e.resp.file # f
    BY <1>3, <2>2, <2>3, <2>4
  <2>6. fds' = Opened(opened)
    BY <2>1
  <2> HIDE DEF opened
  <2>7. Handled(c, e, opened, o.closing)
    BY <1>2, <2>3, <2>4, <2>5, <2>6 DEF Handled
  <2> QED
    BY <1>2, <2>1, <2>3, <2>4, <2>5, <2>7, ThenMove
<1>14. CASE /\ o.resp.type \in {"FLUSH", "FLUSH_ERR"}
            /\ ev' = [ev EXCEPT ![c] = r] /\ pending' = StopReceiving(c) /\ fds' = Opened(o.opened)
            /\ "open" \in Faults
  <2>1. o.closing \subseteq Files(c, o.opened) /\ o.opened \subseteq Spare(c, o.opened)
    BY <1>8, <1>9
  <2>2. Handled(c, r, o.opened, o.closing)
    BY <1>2, <1>3, <1>4, <1>14, <2>1 DEF Handled
  <2> QED
    BY <1>2, <1>14, <2>1, <2>2, ServeQuiet
<1> QED
  BY <1>5, <1>10, <1>11, <1>12, <1>13, <1>14 DEF BeginResponse

LEMMA ReadableKeeps ==
  ASSUME IParts, TypeOK', NEW c \in Conns, ServeReadable(c)
  PROVE  IParts'
<1>1. CASE BeginCgi(c)
  BY <1>1, BeginCgiKeeps
<1>2. CASE ProcessRequest(c)
  <2>1. PICK o \in makeResponse(ev[c].method, ev[c].parse = "bad", FreeFds) : BeginResponse(c, o)
    BY <1>2 DEF ProcessRequest
  <2>2. (ev[c].parse = "bad") \in BOOLEAN
    OBVIOUS
  <2>3. Made(o, FreeFds)
    BY <2>2, FreeType, Responses_Made
  <2> QED
    BY <1>2, <2>1, <2>3, BeginResponseKeeps DEF ProcessRequest
<1>3. CASE ProcessRequestThrows(c) \/ LookupNeverEnds(c)
  <2>1. Serve(c, "HTTP_REQUEST_READABLE") /\ UNCHANGED <<ev, kq, pending, closing>>
    BY <1>3 DEF ProcessRequestThrows, LookupNeverEnds
  <2>2. PICK opened \in SUBSET FreeFds : fds' = Opened(opened)
    <3>1. CASE UNCHANGED fds
      BY <2>1, <3>1, LiveFields
    <3>2. CASE \E f \in LowestOf(FreeFds) : fds' = Opened({f})
      BY <3>2, LowestFree
    <3> QED
      BY <1>3, <3>1, <3>2 DEF ProcessRequestThrows, NoResponseMade, LookupNeverEnds
  <2> QED
    BY <2>1, <2>2, ThenNothing
<1> QED
  BY <1>1, <1>2, <1>3 DEF ServeReadable

\* A handler that keeps its interest and sets other fields of the Event.
LEMMA ThenStay ==
  ASSUME IParts, TypeOK', NEW c \in Conns, NEW t, Serve(c, t), UNCHANGED pending,
         NEW e, NEW opened, Handled(c, e, opened, {}),
         e.type = t, e.toSendFd = ev[c].toSendFd, e.toRecvFd = ev[c].toRecvFd
  PROVE  IParts'
<1>1. TypeOK /\ ev[c].type = t /\ t \in Types
  BY LiveFields DEF Events
<1>2. ev' = [ev EXCEPT ![c] = e] /\ e.clientFd = ev[c].clientFd
  BY DEF Handled
<1>3. Active(c)' = Active(c) /\ (UsesFile(c)' <=> UsesFile(c))
  <2>1. CASE t = "HTTP_REQUEST_READABLE"
    <3>1. Active(c) = <<ev[c].clientFd, "read">> /\ ~UsesFile(c)
      BY <1>1, <2>1, ActiveIs
    <3>2. Active(c)' = <<ev[c].clientFd, "read">> /\ ~UsesFile(c)'
      BY ZenonT(60), <1>1, <1>2, <2>1, NextActiveIs
    <3> QED
      BY <3>1, <3>2
  <2>2. CASE t = "HTTP_RESPONSE_WRITABLE"
    <3>1. Active(c) = <<ev[c].clientFd, "write">> /\ ~UsesFile(c)
      BY <1>1, <2>2, ActiveIs
    <3>2. Active(c)' = <<ev[c].clientFd, "write">> /\ ~UsesFile(c)'
      BY ZenonT(60), <1>1, <1>2, <2>2, NextActiveIs
    <3> QED
      BY <3>1, <3>2
  <2>3. CASE t \in {"HTTP_REQUEST_UPLOAD", "BUFFER_FLUSH"}
    <3>1. Active(c) = <<ev[c].toSendFd, "write">> /\ UsesFile(c)
      BY <1>1, <2>3, ActiveIs
    <3>2. Active(c)' = <<ev[c].toSendFd, "write">> /\ UsesFile(c)'
      BY ZenonT(60), <1>1, <1>2, <2>3, NextActiveIs
    <3> QED
      BY <3>1, <3>2
  <2>4. CASE t \in {"HTTP_RESPONSE_DOWNLOAD", "CGI_RESPONSE_READABLE"}
    <3>1. Active(c) = <<ev[c].toRecvFd, "read">> /\ UsesFile(c)
      BY <1>1, <2>4, ActiveIs
    <3>2. Active(c)' = <<ev[c].toRecvFd, "read">> /\ UsesFile(c)'
      BY <1>1, <1>2, <2>4, NextActiveIs
    <3> QED
      BY <3>1, <3>2
  <2> QED
    BY <1>1, <2>1, <2>2, <2>3, <2>4 DEF Types
<1> QED
  BY <1>3, ServeSame

\* Setting the parsing state and the response, as the upload handlers do.
Answered(c, r, q) == [ev[c] EXCEPT !.resp = r, !.parse = q]

\* The file that c moves its bytes to or from is what it may hand over to close.
LEMMA HandedOver ==
  ASSUME IParts, NEW c \in Conns, NEW t, Serve(c, t), NEW opened, opened \subseteq FreeFds, fds' = Opened(opened)
  PROVE  /\ t \in {"HTTP_REQUEST_UPLOAD", "BUFFER_FLUSH"} =>
              /\ {ev[c].toSendFd} \subseteq Files(c, opened)
              /\ \A f \in Spare(c, opened) : f # ev[c].toSendFd
         /\ t \in {"HTTP_RESPONSE_DOWNLOAD", "CGI_RESPONSE_READABLE"} =>
              /\ {ev[c].toRecvFd} \subseteq Files(c, opened)
              /\ \A f \in Spare(c, opened) : f # ev[c].toRecvFd
<1>1. AtWork(c) /\ ev[c].type = t
  BY ServedWorks DEF Serve
<1>2. \A f \in Spare(c, opened) : f # Active(c)[1]
  BY <1>1, SpareIs
<1> QED
  BY <1>1, <1>2, ActiveIs DEF Files

LEMMA RedirectKeeps ==
  ASSUME IParts, TypeOK', NEW c \in Conns, NEW t \in {"HTTP_REQUEST_UPLOAD", "BUFFER_FLUSH"}, Serve(c, t),
         NEW q, NEW r, redirectUploadError(c, r, q), UNCHANGED kq,
         NEW opened, opened \subseteq FreeFds, fds' = Opened(opened),
         NEW cl, cl \subseteq {ev[c].toSendFd}, closing' = closing \cup cl,
         r.type = "FLUSH_ERR" => r.file \in Spare(c, opened)
  PROVE  IParts'
<1>1. /\ Quiet(c, SentFileDeleted(c)) /\ cl \subseteq Files(c, opened)
      /\ \A f \in Spare(c, opened) : f \notin cl
  BY QuietLists, HandedOver
<1>0. /\ ev[c] \in Events /\ ev[c].state = "live" /\ ~ev[c].stale /\ ev[c].type = t
      /\ ev = [d \in Conns |-> ev[d]]
  BY LiveFields
<1> DEFINE e == Answered(c, r, q)
<1>2. /\ e.resp = r /\ e.type = t /\ e.state = "live" /\ ~e.stale /\ e.clientFd = ev[c].clientFd
      /\ [ev EXCEPT ![c].resp = r, ![c].parse = q] = [ev EXCEPT ![c] = e]
  BY <1>0 DEF Answered, Events
<1>3. CASE /\ ev' = [[ev EXCEPT ![c] = e] EXCEPT ![c].type = "HTTP_RESPONSE_WRITABLE", ![c].toSendFd = ev[c].clientFd]
           /\ pending' = StartSending(c, SentFileDeleted(c))
  <2> DEFINE s == [e EXCEPT !.type = "HTTP_RESPONSE_WRITABLE", !.toSendFd = ev[c].clientFd]
  <2>1. /\ ev' = [ev EXCEPT ![c] = s] /\ s.type = "HTTP_RESPONSE_WRITABLE"
        /\ s.state = "live" /\ ~s.stale /\ s.clientFd = ev[c].clientFd
    BY <1>0, <1>3 DEF Answered, Events
  <2> HIDE DEF s, e
  <2>2. Handled(c, s, opened, cl)
    BY <2>1 DEF Handled
  <2> QED
    BY <1>1, <1>3, <2>1, <2>2, ThenSend
<1>4. CASE /\ r.type = "FLUSH_ERR"
           /\ ev' = [[ev EXCEPT ![c] = e] EXCEPT ![c].type = "HTTP_RESPONSE_DOWNLOAD", ![c].toRecvFd = r.file]
           /\ pending' = Queue(SentFileDeleted(c), <<r.file, "read">>, "add", c)
  <2> DEFINE s == [e EXCEPT !.type = "HTTP_RESPONSE_DOWNLOAD", !.toRecvFd = r.file]
  <2>1. /\ ev' = [ev EXCEPT ![c] = s] /\ s.type = "HTTP_RESPONSE_DOWNLOAD" /\ s.toRecvFd = r.file
        /\ s.state = "live" /\ ~s.stale /\ s.clientFd = ev[c].clientFd
    BY <1>0, <1>4 DEF Answered, Events
  <2> HIDE DEF s, e
  <2>2. Handled(c, s, opened, cl) /\ r.file \in Spare(c, opened) \ cl
    BY <1>1, <1>4, <2>1 DEF Handled
  <2> QED
    BY <1>1, <1>4, <2>1, <2>2, ThenMove
<1>5. CASE /\ r.type \notin {"FLUSH", "FLUSH_ERR"}
           /\ ev' = [ev EXCEPT ![c] = e] /\ pending' = SentFileDeleted(c) /\ server' = "wrong_routine"
  <2>1. Handled(c, e, opened, cl)
    BY <1>2, <1>5 DEF Handled
  <2>2. GaveUp(c)'
    BY <1>5 DEF GaveUp, Running, Exceptions
  <2> QED
    BY <1>1, <1>5, <2>1, <2>2, ServeQuiet
<1> QED
  BY <1>2, <1>3, <1>4, <1>5 DEF redirectUploadError

\* The handler throws after having set the response r and the parsing state q.
LEMMA ThrowKeeps ==
  ASSUME IParts, TypeOK', NEW c \in Conns, NEW t, Serve(c, t), UNCHANGED <<kq, pending, closing>>,
         NEW q, NEW r, ev' = [ev EXCEPT ![c] = Answered(c, r, q)],
         NEW opened, opened \subseteq FreeFds, fds' = Opened(opened),
         t = "BUFFER_FLUSH" /\ r.type = "FLUSH_ERR" => r.file \in Spare(c, opened)
  PROVE  IParts'
<1> DEFINE e == Answered(c, r, q)
<1>1. /\ e.resp = r /\ e.type = t /\ e.state = "live" /\ ~e.stale /\ e.clientFd = ev[c].clientFd
      /\ e.toSendFd = ev[c].toSendFd /\ e.toRecvFd = ev[c].toRecvFd
  BY LiveFields DEF Answered, Events
<1>2. closing' = closing \cup {}
  OBVIOUS
<1> HIDE DEF e
<1>3. Handled(c, e, opened, {})
  BY <1>1, <1>2 DEF Handled, e
<1> QED
  BY <1>1, <1>3, ThenStay

LEMMA ErrorThrowsKeeps ==
  ASSUME IParts, TypeOK', NEW c \in Conns, NEW t, Serve(c, t), NEW q,
         ErrorResponseThrows(c, q), UNCHANGED <<kq, pending, fds, closing>>
  PROVE  IParts'
<1>1. ev' = [ev EXCEPT ![c] = Answered(c, Deleted(ev[c].resp), q)]
  BY LiveFields DEF Answered, ErrorResponseThrows
<1>2. Deleted(ev[c].resp).type # "FLUSH_ERR"
  BY DEF Deleted, FreedResponse, Response
<1>3. PICK opened : opened \subseteq FreeFds /\ fds' = Opened(opened)
  BY LiveFields
<1> DEFINE r == Deleted(ev[c].resp)
<1> HIDE DEF r
<1>4. ev' = [ev EXCEPT ![c] = Answered(c, r, q)] /\ r.type # "FLUSH_ERR"
  BY <1>1, <1>2 DEF r
<1> QED
  BY <1>3, <1>4, ThrowKeeps

\* The outcomes of an error name a page they have just opened.
LEMMA ErrorOutcomes ==
  ASSUME NEW c, NEW m, NEW o \in errorResponses(m, FreeFds)
  PROVE  /\ o.opened \subseteq FreeFds
         /\ o.resp.type = "FLUSH_ERR" => o.resp.file \in o.opened /\ o.resp.file \in Spare(c, o.opened)
  BY ErrorPages, FreeType DEF Made, Spare

-----------------------------------------------------------------------------
(* removeConnection *)

\* What the connection's file is registered for is deleted, or left to the
\* freed Event; its socket's registrations are gone and leave no change behind.
LEMMA RemoveKeeps ==
  ASSUME IParts, TypeOK', NEW c \in Conns, AtWork(c), NoChange(c),
         ev' = [ev EXCEPT ![c] = NewEvent("freed", NoFd)],
         fds' = Closed(fds, {ev[c].clientFd}), kq' = Dropped({ev[c].clientFd}),
         ListsOK(kq, pending'),
         \A k \in Keys : k # Active(c) \/ ~UsesFile(c) => pending'[k] = pending[k],
         EffectiveIn(kq, pending', Active(c)) \in {On(c), NoReg},
         UsesFile(c) /\ EffectiveIn(kq, pending', Active(c)) # NoReg => "cgi" \in Faults,
         NEW cl, closing' = closing \cup cl, cl \subseteq {f \in {Active(c)[1]} : UsesFile(c)},
         cl # {} => EffectiveIn(kq, pending', Active(c)) = NoReg,
         UNCHANGED errs, DispatchOnce', \A d \in Conns : Dispatched(d)' => Dispatched(d) /\ d # c, Running,
         batch' \subseteq batch
  PROVE  IParts'
<1> DEFINE F == ev[c].clientFd
           M == Mine(c, {})
           E(k) == EffectiveIn(kq', pending', k)
<1>1. /\ ListsOK(kq, pending) /\ F \in Fds /\ Active(c) \in Keys
      /\ ~UsesFile(c) => Active(c)[1] = F
      /\ UsesFile(c) => Active(c)[1] # F /\ FileOK(Active(c))
      /\ OwnOK(c) /\ Live(c)
  BY SocketKeys DEF IParts, AtWork
<1>2. \A f \in M : /\ f \in Fds /\ f \notin closing
                   /\ \A k \in Keys : k[1] = f => Effective(k).ev \in {c, Null}
                   /\ \A d \in Conns : d # c /\ HoldsPage(d) => ev[d].resp.file # f
  BY Foreign
<1>3. \A k \in Keys : k[1] = F => kq'[k] = NoReg /\ pending'[k] = << >> /\ E(k) = NoReg
  <2> TAKE k \in Keys
  <2> HAVE k[1] = F
  <2>1. kq'[k] = NoReg
    BY DEF Dropped
  <2>2. pending[k] = << >>
    BY KeysOf DEF NoChange, Client
  <2>3. pending'[k] = pending[k]
    BY <1>1
  <2> QED
    BY <2>1, <2>2, <2>3 DEF EffectiveIn
<1>4. \A k \in Keys : k[1] # F => kq'[k] = kq[k] /\ E(k) = EffectiveIn(kq, pending', k)
  BY DEF Dropped, EffectiveIn
<1>5. \A k \in Keys : k[1] # F /\ (k # Active(c) \/ ~UsesFile(c)) =>
        kq'[k] = kq[k] /\ pending'[k] = pending[k] /\ E(k) = Effective(k)
  BY <1>4, EffectiveIs DEF EffectiveIn
<1>6. UsesFile(c) => E(Active(c)) \in {On(c), NoReg} /\ (E(Active(c)) # NoReg => "cgi" \in Faults)
  BY <1>1, <1>4
<1>7. Live(c) /\ ev'[c].state = "freed" /\ \A d \in Conns \ {c} : ev'[d] = ev[d]
  BY <1>1 DEF IParts, TypeOK, NewEvent
<1>8. F \in M /\ (UsesFile(c) => Active(c)[1] \in M)
  BY DEF Mine
<1> HIDE DEF M, E
<1>9. \A f \in Fds : f # F => fds'[f] = fds[f]
  BY DEF Closed
<1>10. NoStaleChange'
  <2> SUFFICES ASSUME NEW k \in Keys, fds'[k[1]] = "free" PROVE pending'[k] = << >> /\ kq'[k] = NoReg
    BY DEF NoStaleChange
  <2>1. CASE k[1] = F
    BY <2>1, <1>3
  <2>2. CASE k[1] # F
    <3>1. fds[k[1]] = "free"
      BY <2>2, <1>9, KeysOf
    <3>2. k # Active(c) \/ ~UsesFile(c)
      BY <3>1, <1>1 DEF FileOK
    <3> QED
      BY <2>2, <3>1, <3>2, <1>5 DEF IParts, NoStaleChange
  <2> QED
    BY <2>1, <2>2
<1>11. ListsOK(kq, pending)'
  <2>1. kq' \in [Keys -> Registration] /\ pending' \in [Keys -> Seq(Change)]
    BY DEF TypeOK
  <2>2. ASSUME NEW k \in Keys PROVE (kq'[k].st = "none" <=> kq'[k].ev = Null) /\ ApplicableIn(kq', pending', k)
    <3>1. CASE k[1] = F
      <4>1. kq'[k] = NoReg /\ pending'[k] = << >>
        BY <3>1, <1>3
      <4>2. kq'[k].st = "none" /\ kq'[k].ev = Null
        BY <4>1 DEF NoReg
      <4>3. Len(pending'[k]) = 0
        BY <4>1
      <4>4. \A i \in 1..Len(pending'[k]) : FALSE
        BY <4>3
      <4> QED
        BY <4>2, <4>4 DEF ApplicableIn
    <3>2. CASE k[1] # F
      BY ZenonT(60), <3>2, <1>4 DEF ListsOK, ApplicableIn
    <3> QED
      BY <3>1, <3>2
  <2> QED
    BY <2>1, <2>2 DEF ListsOK
<1>12. BornOK'
  <2> DEFINE Stays(d) == ev'[d].state = "live" \/ (ev'[d].state = "freed" /\ "cgi" \in Faults)
  <2> SUFFICES ASSUME NEW k \in Keys, E(k).ev # Null PROVE Stays(E(k).ev)
    BY EffectiveIs DEF BornOK, E, StillThere
  <2>1. CASE k[1] # F /\ (k # Active(c) \/ ~UsesFile(c))
    <3>1. E(k) = Effective(k) /\ Effective(k).ev # c
      BY <2>1, <1>1, <1>5 DEF OwnOK
    <3>2. StillThere(Effective(k).ev) /\ Effective(k).ev \in Conns
      BY <3>1, EffectiveShape, EffectiveIs DEF IParts, BornOK, NoReg
    <3> QED
      BY <3>1, <3>2, <1>7 DEF StillThere
  <2>2. CASE k[1] = F
    BY <2>2, <1>3 DEF NoReg
  <2>3. CASE k = Active(c) /\ UsesFile(c)
    BY <2>3, <1>6, <1>7 DEF On, NoReg, StillThere
  <2> QED
    BY <2>1, <2>2, <2>3
<1>13. ASSUME NEW d \in Conns \ {c}, Live(d)
       PROVE  /\ OwnOK(d)' /\ Active(d)' = Active(d)
              /\ Dispatched(d) \/ ev[d].stale => NoChange(d)'
              /\ Dispatched(d) => kq'[Active(d)] = kq[Active(d)]
  <2>1. \A x \in Conns \ {c} : Same(x)
    BY <1>7 DEF Same
  <2>2. \A k \in Keys : k[1] \in M => /\ Effective(k).ev \in {c} \cup {Null}
                                      /\ EffectiveIn(kq', pending', k).ev \in {c} \cup {Null}
    <3> TAKE k \in Keys
    <3> HAVE k[1] \in M
    <3>1. Effective(k).ev \in {c, Null}
      BY <1>2
    <3>2. E(k).ev \in {c, Null}
      BY <3>1, <1>3, <1>5, <1>6 DEF On, NoReg
    <3> QED
      BY <3>1, <3>2 DEF E
  <2>3. \A k \in Keys : k[1] \notin M => kq'[k] = kq[k] /\ pending'[k] = pending[k]
    BY <1>5, <1>8
  <2>4. \A f \in Fds : f \notin M => fds'[f] = fds[f]
    BY <1>8, <1>9
  <2>5. \A x \in Conns \ {c} : HoldsPage(x) => ev[x].resp.file \notin M
    BY <1>2
  <2>6. \A f \in closing' : f \in closing \/ f \in M
    BY <1>8
  <2>7. {c} \in SUBSET Conns /\ Running
    OBVIOUS
  <2> QED
    BY <1>13, <2>1, <2>2, <2>3, <2>4, <2>5, <2>6, <2>7, OthersKeep
<1>14. \A d \in Conns : Live(d)' => OwnOK(d)' /\ d # c
  BY <1>7, <1>13 DEF Live
<1>15. \A x, y \in Conns : x # y => ApartOK(x, y)'
  <2> SUFFICES ASSUME NEW x \in Conns, NEW y \in Conns, x # y PROVE ApartOK(x, y)'
    OBVIOUS
  <2>1. CASE x # c /\ y # c
    <3>1. ApartOK(x, y) /\ ev'[x] = ev[x] /\ ev'[y] = ev[y]
      BY <2>1, <1>7 DEF IParts
    <3> QED
      BY <3>1 DEF ApartOK, Live, HoldsPage
  <2>2. CASE x = c \/ y = c
    BY <2>2, <1>7 DEF ApartOK, Live, HoldsPage
  <2> QED
    BY <2>1, <2>2
<1>16. DispatchSettled'
  <2>1. ASSUME NEW d \in Conns
        PROVE  /\ Dispatched(d)' => /\ Live(d)' /\ ~ev'[d].stale /\ Active(d)' \in Keys
                                    /\ kq'[Active(d)'] = [st |-> "on", ev |-> d]
                                    /\ NoChange(d)'
               /\ Live(d)' /\ ev'[d].stale => NoChange(d)' /\ ev'[d].type = "HTTP_REQUEST_READABLE"
    <3>1. CASE d = c
      BY <3>1, <1>7 DEF Live
    <3>2. CASE d # c
      <4>1. (Live(d)' <=> Live(d)) /\ ev'[d] = ev[d] /\ (Dispatched(d)' => Dispatched(d))
        BY <3>2, <1>7 DEF Live
      <4> QED
        BY <3>2, <4>1, <1>13 DEF IParts, DispatchSettled
    <3> QED
      BY <3>1, <3>2
  <2> QED
    BY <2>1 DEF DispatchSettled
<1>17. CloseDiscipline'
  <2> SUFFICES ASSUME NEW f \in closing'
               PROVE  fds'[f] = "file" /\ f \in Fds /\ \A filter \in Filters : E(<<f, filter>>) = NoReg
    BY DEF CloseDiscipline, Effective, EffectiveIn, Filters, E
  <2>1. CASE f \in cl
    <3>1. UsesFile(c) /\ f = Active(c)[1] /\ E(Active(c)) = NoReg /\ f # F
      BY <2>1, <1>1, <1>4
    <3>2. fds'[f] = "file" /\ f \in Fds
      BY <3>1, <1>1, <1>9, KeysOf DEF FileOK
    <3>3. \A filter \in Filters : <<f, filter>> = Active(c) \/ E(<<f, filter>>) = NoReg
      BY <3>1, <3>2, <1>1, <1>5, KeysOf DEF FileOK
    <3> QED
      BY <3>1, <3>2, <3>3
  <2>2. CASE f \in closing
    <3>1. f \in Fds /\ fds[f] = "file" /\ \A filter \in Filters : Effective(<<f, filter>>) = NoReg
      BY <2>2 DEF IParts, CloseDiscipline, TypeOK, Filters
    <3>2. f # F /\ (UsesFile(c) => f # Active(c)[1])
      BY <2>2, <1>2, <1>8
    <3>3. \A filter \in Filters : /\ <<f, filter>> \in Keys /\ <<f, filter>>[1] # F
                                  /\ <<f, filter>> # Active(c) \/ ~UsesFile(c)
      BY <3>1, <3>2, KeysOf
    <3>4. \A filter \in Filters : E(<<f, filter>>) = Effective(<<f, filter>>)
      BY <3>3, <1>5
    <3> QED
      BY <3>1, <3>2, <3>4, <1>9
  <2> QED
    BY <2>1, <2>2
<1>18. ErrorsAreDeletes'
  BY DEF IParts, ErrorsAreDeletes
<1>19. HangupsAreSockets'
  <2> SUFFICES ASSUME NEW b \in batch', b.eof PROVE ~UsesFile(b.ev)'
    BY DEF HangupsAreSockets, UsesFile
  <2>1. b \in batch /\ b.ev \in Conns /\ ~UsesFile(b.ev)
    BY DEF IParts, TypeOK, HangupsAreSockets
  <2>2. b.ev # c
    BY <2>1 DEF Dispatched
  <2> QED
    BY <2>1, <2>2, <1>7 DEF UsesFile
<1> QED
  BY <1>10, <1>11, <1>12, <1>14, <1>15, <1>16, <1>17, <1>18, <1>19 DEF IParts

LEMMA Unregistered ==
  ASSUME NEW p \in [Keys -> Seq(Change)], NEW k \in Keys
  PROVE  Unregister(p, {}) = p /\ Unregister(p, {k}) = Queue(p, k, "delete", Null)
  BY DEF Unregister, Queue

\* Deleting the file's registration, once or twice.
LEMMA DeleteList ==
  ASSUME IParts, NEW c \in Conns, AtWork(c), UsesFile(c), NEW p, ListsOK(kq, p),
         \A k \in Keys : k # Active(c) => p[k] = pending[k],
         "read" \notin Faults => EffectiveIn(kq, p, Active(c)).st # "none"
  PROVE  LET q == Queue(p, Active(c), "delete", Null) IN
         /\ ListsOK(kq, q) /\ EffectiveIn(kq, q, Active(c)) = NoReg
         /\ \A k \in Keys : k # Active(c) => q[k] = pending[k]
<1> DEFINE q == Queue(p, Active(c), "delete", Null)
<1>1. Active(c) \in Keys /\ "delete" \in Flags
  BY DEF AtWork, Flags
<1>2. /\ ListsOK(kq, q)
      /\ EffectiveIn(kq, q, Active(c)) = Applied(kq[Active(c)], [flag |-> "delete", ev |-> Null])
      /\ \A k \in Keys : k # Active(c) => q[k] = p[k]
  BY <1>1, QueueStep DEF Demanding
<1>3. EffectiveIn(kq, q, Active(c)) = NoReg
  BY <1>2 DEF Applied
<1> QED
  BY <1>2, <1>3

LEMMA RemovedKeeps ==
  ASSUME IParts, TypeOK', NEW c \in Conns, AtWork(c), NoChange(c),
         NEW p, NEW cl, removeConnection(c, p, cl),
         \/ /\ p = pending /\ cl = closing
            /\ ev[c].type \in {"BUFFER_FLUSH", "CGI_RESPONSE_READABLE"} => "cgi" \in Faults
         \/ /\ UsesFile(c) /\ p = Queue(pending, Active(c), "delete", Null) /\ cl = closing \cup {Active(c)[1]}
            /\ RemovedFile(c) # {} => "read" \in Faults,
         UNCHANGED errs, DispatchOnce', \A d \in Conns : Dispatched(d)' => Dispatched(d) /\ d # c, Running,
         batch' \subseteq batch
  PROVE  IParts'
<1>1. /\ ev' = [ev EXCEPT ![c] = NewEvent("freed", NoFd)]
      /\ fds' = Closed(fds, {ev[c].clientFd}) /\ kq' = Dropped({ev[c].clientFd})
      /\ closing' = cl \cup {k[1] : k \in RemovedFile(c)}
      /\ pending' = Unregister(p, RemovedFile(c))
  BY DEF removeConnection
<1>2. RemovedFile(c) = {} \/ (UsesFile(c) /\ RemovedFile(c) = {Active(c)})
  <2>1. CASE ev[c].type = "HTTP_REQUEST_UPLOAD"
    BY <2>1, ActiveIs DEF RemovedFile
  <2>2. CASE ev[c].type = "HTTP_RESPONSE_DOWNLOAD"
    BY <2>2, ActiveIs DEF RemovedFile
  <2>3. CASE ev[c].type \notin {"HTTP_REQUEST_UPLOAD", "HTTP_RESPONSE_DOWNLOAD"}
    BY <2>3 DEF RemovedFile
  <2> QED
    BY <2>1, <2>2, <2>3
<1>3. ListsOK(kq, pending) /\ Active(c) \in Keys /\ EffectiveIn(kq, pending, Active(c)) = On(c)
  BY SocketKeys
<1>4. /\ p \in [Keys -> Seq(Change)] /\ ListsOK(kq, p)
      /\ \A k \in Keys : k # Active(c) => p[k] = pending[k]
      /\ \/ p = pending
         \/ /\ UsesFile(c) /\ EffectiveIn(kq, p, Active(c)) = NoReg
            /\ RemovedFile(c) # {} => "read" \in Faults
  <2>1. CASE p = pending
    BY <1>3, <2>1 DEF ListsOK
  <2>2. CASE UsesFile(c) /\ p = Queue(pending, Active(c), "delete", Null)
    BY <1>3, <2>2, DeleteList DEF ListsOK, On
  <2> QED
    BY <2>1, <2>2
<1>5. CASE RemovedFile(c) = {}
  <2>1. pending' = p /\ closing' = cl
    BY <1>1, <1>3, <1>4, <1>5, Unregistered
  <2>2. CASE /\ p = pending /\ cl = closing
             /\ ev[c].type \in {"BUFFER_FLUSH", "CGI_RESPONSE_READABLE"} => "cgi" \in Faults
    <3>1. closing' = closing \cup {} /\ pending' = pending
      BY <2>1, <2>2
    <3>2. UsesFile(c) => ev[c].type \in {"BUFFER_FLUSH", "CGI_RESPONSE_READABLE"}
      <4>1. ev[c].type \in Types
        BY EventsTyped DEF IParts, EventOK, Events
      <4> QED
        BY <4>1, <1>5 DEF UsesFile, RemovedFile, Types
    <3> QED
      BY <1>1, <1>3, <2>2, <3>1, <3>2, RemoveKeeps
  <2>3. CASE UsesFile(c) /\ p = Queue(pending, Active(c), "delete", Null) /\ cl = closing \cup {Active(c)[1]}
    <3>1. EffectiveIn(kq, pending', Active(c)) = NoReg /\ ListsOK(kq, pending')
          /\ \A k \in Keys : k # Active(c) \/ ~UsesFile(c) => pending'[k] = pending[k]
      BY <1>3, <2>1, <2>3, DeleteList DEF On
    <3>2. closing' = closing \cup {Active(c)[1]} /\ {Active(c)[1]} \subseteq {f \in {Active(c)[1]} : UsesFile(c)}
      BY <2>1, <2>3
    <3> QED
      BY <1>1, <3>1, <3>2, RemoveKeeps
  <2> QED
    BY <2>2, <2>3
<1>6. CASE UsesFile(c) /\ RemovedFile(c) = {Active(c)}
  <2>1. pending' = Queue(p, Active(c), "delete", Null) /\ {k[1] : k \in RemovedFile(c)} = {Active(c)[1]}
    BY <1>1, <1>3, <1>4, <1>6, Unregistered
  <2>2. /\ EffectiveIn(kq, pending', Active(c)) = NoReg /\ ListsOK(kq, pending')
        /\ \A k \in Keys : k # Active(c) \/ ~UsesFile(c) => pending'[k] = pending[k]
    BY <1>3, <1>4, <1>6, <2>1, DeleteList DEF On
  <2>3. closing' = closing \cup {Active(c)[1]} /\ {Active(c)[1]} \subseteq {f \in {Active(c)[1]} : UsesFile(c)}
    BY <1>1, <1>6, <2>1
  <2> QED
    BY <1>1, <2>2, <2>3, RemoveKeeps
<1> QED
  BY <1>2, <1>5, <1>6

LEMMA ServeDispatch ==
  ASSUME IParts, NEW c \in Conns, NEW t, Serve(c, t)
  PROVE  /\ UNCHANGED errs /\ DispatchOnce' /\ Running
         /\ \A d \in Conns : Dispatched(d)' => Dispatched(d) /\ d # c
         /\ batch' \subseteq batch
<1>1. /\ batch = {} /\ batch' = {} /\ routed'[c] = 0 /\ UNCHANGED errs
      /\ \A d \in Conns : d # c => routed'[d] = routed[d]
      /\ \A d \in Conns : routed'[d] =< 1
  BY DEF Serve, Routing, IParts, DispatchOnce, TypeOK
<1> QED
  BY <1>1 DEF DispatchOnce, Dispatched, Serve, Running

LEMMA ServeRemoves ==
  ASSUME IParts, TypeOK', NEW c \in Conns, NEW t, Serve(c, t), NEW p, NEW cl, removeConnection(c, p, cl),
         \/ t \in {"HTTP_REQUEST_UPLOAD", "HTTP_RESPONSE_WRITABLE"} /\ p = pending /\ cl = closing
         \/ t = "BUFFER_FLUSH" /\ p = SentFileDeleted(c) /\ cl = closing \cup {ev[c].toSendFd}
         \/ /\ t = "HTTP_RESPONSE_DOWNLOAD" /\ "read" \in Faults
            /\ p = ReceivedFileDeleted(c) /\ cl = closing \cup {ev[c].toRecvFd}
  PROVE  IParts'
<1>1. AtWork(c) /\ NoChange(c) /\ ev[c].type = t
  BY ServedWorks DEF Serve
<1>2. \/ p = pending /\ cl = closing /\ ev[c].type \notin {"BUFFER_FLUSH", "CGI_RESPONSE_READABLE"}
      \/ /\ UsesFile(c) /\ p = Queue(pending, Active(c), "delete", Null) /\ cl = closing \cup {Active(c)[1]}
         /\ RemovedFile(c) # {} => "read" \in Faults
  BY <1>1, ActiveIs DEF RemovedFile, SentFileDeleted, ReceivedFileDeleted
<1> QED
  BY <1>1, <1>2, ServeDispatch, RemovedKeeps

-----------------------------------------------------------------------------
(* Uploads, flushes, downloads, CGI replies and sending *)

LEMMA UploadKeeps ==
  ASSUME IParts, TypeOK', NEW c \in Conns, UploadMore(c) \/ UploadClosed(c) \/ UploadBad(c) \/ UploadedFile(c)
  PROVE  IParts'
<1>1. Serve(c, "HTTP_REQUEST_UPLOAD")
  BY DEF UploadMore, UploadClosed, UploadBad, UploadedFile, UploadDone, Upload
<1>2. /\ ev[c] \in Events /\ ev[c].state = "live" /\ ~ev[c].stale /\ ev[c].type = "HTTP_REQUEST_UPLOAD"
      /\ ev = [d \in Conns |-> ev[d]]
  BY <1>1, LiveFields
<1>3. {} \in SUBSET FreeFds /\ Opened({}) = fds
  BY <1>1, LiveFields
<1>4. CASE UploadMore(c)
  <2>1. UNCHANGED <<ev, kq, pending, closing>> /\ fds' = Opened({})
    BY <1>3, <1>4 DEF UploadMore
  <2> QED
    BY <1>1, <1>3, <2>1, ThenNothing
<1>5. CASE UploadClosed(c)
  BY <1>1, <1>5, ServeRemoves DEF UploadClosed
<1>6. CASE UploadBad(c)
  <2>1. ASSUME NEW o \in errorResponses(ev[c].method, FreeFds), redirectUploadError(c, o.resp, "bad"),
               fds' = Opened(o.opened)
        PROVE  IParts'
    <3>1. UNCHANGED kq /\ closing' = closing \cup {}
      BY <1>6 DEF UploadBad
    <3>2. {} \subseteq {ev[c].toSendFd}
      OBVIOUS
    <3> DEFINE r == o.resp
               opened == o.opened
    <3>3. opened \subseteq FreeFds /\ (r.type = "FLUSH_ERR" => r.file \in Spare(c, opened))
      BY ErrorOutcomes
    <3>4. redirectUploadError(c, r, "bad") /\ fds' = Opened(opened)
      BY <2>1
    <3> HIDE DEF r, opened
    <3> QED
      BY <1>1, <3>1, <3>2, <3>3, <3>4, RedirectKeeps
  <2>2. CASE ErrorResponseThrows(c, "bad") /\ UNCHANGED <<pending, fds>>
    BY <1>1, <1>6, <2>2, ErrorThrowsKeeps DEF UploadBad
  <2> QED
    BY <1>6, <2>1, <2>2 DEF UploadBad
<1>7. CASE UploadedFile(c)
  <2> DEFINE e == [ev[c] EXCEPT !.parse = "uploaded", !.type = "HTTP_RESPONSE_WRITABLE",
                                !.toSendFd = ev[c].clientFd]
  <2>1. /\ ev' = [ev EXCEPT ![c] = e] /\ e.type = "HTTP_RESPONSE_WRITABLE"
        /\ e.state = "live" /\ ~e.stale /\ e.clientFd = ev[c].clientFd
    BY <1>2, <1>7 DEF UploadedFile, Uploaded, Events
  <2> HIDE DEF e
  <2>2. /\ UNCHANGED kq /\ closing' = closing \cup {ev[c].toSendFd} /\ fds' = Opened({})
        /\ pending' = StartSending(c, SentFileDeleted(c))
    BY <1>3, <1>7 DEF UploadedFile, UploadDone
  <2>3. Quiet(c, SentFileDeleted(c)) /\ {ev[c].toSendFd} \subseteq Files(c, {})
    BY <1>1, <1>3, <2>2, QuietLists, HandedOver
  <2>4. Handled(c, e, {}, {ev[c].toSendFd})
    BY <1>3, <2>1, <2>2 DEF Handled
  <2> QED
    BY <1>1, <2>1, <2>2, <2>3, <2>4, ThenSend
<1> QED
  BY <1>4, <1>5, <1>6, <1>7

LEMMA CgiForkKeeps ==
  ASSUME IParts, TypeOK', NEW c \in Conns, CgiStarted(c) \/ CgiForkFails(c)
  PROVE  IParts'
<1>1. /\ Serve(c, "HTTP_REQUEST_UPLOAD") /\ UNCHANGED kq
      /\ closing' = closing \cup {ev[c].toSendFd}
  BY DEF CgiStarted, CgiForkFails, UploadDone, Upload
<1>2. /\ ev[c] \in Events /\ ev[c].state = "live" /\ ~ev[c].stale /\ ev[c].type = "HTTP_REQUEST_UPLOAD"
      /\ ev = [d \in Conns |-> ev[d]] /\ {} \subseteq FreeFds /\ Opened({}) = fds
  BY <1>1, LiveFields
<1>3. Quiet(c, SentFileDeleted(c))
  BY <1>1, QuietLists
<1> DEFINE cl == {ev[c].toSendFd}
<1> HIDE DEF cl
<1>4. ASSUME NEW e, NEW opened, ev' = [ev EXCEPT ![c] = e], e.state = "live", ~e.stale,
             e.clientFd = ev[c].clientFd, e.type # "BUFFER_FLUSH", opened \subseteq FreeFds, fds' = Opened(opened)
      PROVE  Handled(c, e, opened, cl) /\ cl \subseteq Files(c, opened) /\ \A f \in Spare(c, opened) : f \notin cl
  <2>1. cl \subseteq Files(c, opened) /\ \A f \in Spare(c, opened) : f \notin cl
    BY <1>1, <1>4, HandedOver DEF cl
  <2> QED
    BY <1>1, <1>4, <2>1 DEF Handled, cl
<1>5. ASSUME NEW f \in LowestOf(FreeFds), fds' = Opened({f}),
             ev' = [Uploaded(c) EXCEPT ![c].type = "CGI_RESPONSE_READABLE", ![c].toRecvFd = f, ![c].pid = TRUE],
             pending' = Queue(SentFileDeleted(c), <<f, "read">>, "add", c)
      PROVE  IParts'
  <2> DEFINE e == [ev[c] EXCEPT !.parse = "uploaded", !.type = "CGI_RESPONSE_READABLE",
                                !.toRecvFd = f, !.pid = TRUE]
             opened == {f}
  <2>1. /\ ev' = [ev EXCEPT ![c] = e] /\ e.type = "CGI_RESPONSE_READABLE" /\ e.toRecvFd = f
        /\ e.state = "live" /\ ~e.stale /\ e.clientFd = ev[c].clientFd
    BY <1>2, <1>5 DEF Uploaded, Events
  <2>2. opened \subseteq FreeFds /\ f \in Spare(c, opened) /\ fds' = Opened(opened)
    BY <1>5, LowestFree DEF Spare
  <2> HIDE DEF e, opened
  <2>3. Handled(c, e, opened, cl) /\ cl \subseteq Files(c, opened) /\ f \in Spare(c, opened) \ cl
    BY <1>4, <2>1, <2>2
  <2> QED
    BY <1>1, <1>3, <1>5, <2>1, <2>3, ThenMove
<1>6. ASSUME NEW e, NEW opened, ev' = [ev EXCEPT ![c] = e], e.state = "live", ~e.stale,
             e.clientFd = ev[c].clientFd, e.type # "BUFFER_FLUSH", opened \subseteq FreeFds, fds' = Opened(opened),
             pending' = SentFileDeleted(c), "open" \in Faults \/ GaveUp(c)'
      PROVE  IParts'
  BY <1>1, <1>3, <1>4, <1>6, ServeQuiet
<1>7. ASSUME UNCHANGED fds, pending' = SentFileDeleted(c), "open" \in Faults,
             ev' = Uploaded(c) \/ ev' = [Uploaded(c) EXCEPT ![c].pid = TRUE]
      PROVE  IParts'
  <2> DEFINE e(x) == [ev[c] EXCEPT !.parse = "uploaded", !.pid = x]
  <2>1. PICK x : ev' = [ev EXCEPT ![c] = e(x)]
    <3>1. Uploaded(c) = [ev EXCEPT ![c] = e(ev[c].pid)]
      <4>1. [ev[c] EXCEPT !.parse = "uploaded"] = e(ev[c].pid)
        BY <1>2 DEF Events
      <4> QED
        BY <1>2, <4>1 DEF Uploaded
    <3>2. [Uploaded(c) EXCEPT ![c].pid = TRUE] = [ev EXCEPT ![c] = e(TRUE)]
      <4>1. [e(ev[c].pid) EXCEPT !.pid = TRUE] = e(TRUE)
        BY <1>2 DEF Events
      <4> HIDE DEF e
      <4> QED
        BY <1>2, <3>1, <4>1
    <3> HIDE DEF e
    <3> QED
      BY <1>7, <3>1, <3>2
  <2>2. /\ e(x).state = "live" /\ ~e(x).stale /\ e(x).clientFd = ev[c].clientFd
        /\ e(x).type = "HTTP_REQUEST_UPLOAD"
    BY <1>2 DEF Events
  <2> DEFINE r == e(x)
  <2>3. /\ ev' = [ev EXCEPT ![c] = r] /\ r.state = "live" /\ ~r.stale /\ r.clientFd = ev[c].clientFd
        /\ r.type # "BUFFER_FLUSH"
    BY <2>1, <2>2
  <2>4. PICK opened : opened \subseteq FreeFds /\ fds' = Opened(opened)
    BY <1>2, <1>7
  <2>5. pending' = SentFileDeleted(c) /\ "open" \in Faults
    BY <1>7
  <2> HIDE DEF e, r
  <2> QED
    BY <1>6, <2>3, <2>4, <2>5
<1>8. ASSUME NEW o \in errorResponses(ev[c].method, FreeFds), fds' = Opened(o.opened), o.resp.type = "FLUSH_ERR",
             ev' = [Uploaded(c) EXCEPT ![c].type = "HTTP_RESPONSE_DOWNLOAD", ![c].toRecvFd = o.resp.file,
                                       ![c].resp = o.resp],
             pending' = Queue(SentFileDeleted(c), <<o.resp.file, "read">>, "add", c)
      PROVE  IParts'
  <2> DEFINE e == [ev[c] EXCEPT !.parse = "uploaded", !.type = "HTTP_RESPONSE_DOWNLOAD",
                                !.toRecvFd = o.resp.file, !.resp = o.resp]
             opened == o.opened
             f == o.resp.file
  <2>1. /\ ev' = [ev EXCEPT ![c] = e] /\ e.type = "HTTP_RESPONSE_DOWNLOAD" /\ e.toRecvFd = f
        /\ e.state = "live" /\ ~e.stale /\ e.clientFd = ev[c].clientFd
    BY <1>2, <1>8 DEF Uploaded, Events
  <2>2. opened \subseteq FreeFds /\ f \in Spare(c, opened) /\ fds' = Opened(opened)
        /\ pending' = Queue(SentFileDeleted(c), <<f, "read">>, "add", c)
    BY <1>8, ErrorOutcomes
  <2> HIDE DEF e, opened, f
  <2>3. Handled(c, e, opened, cl) /\ cl \subseteq Files(c, opened) /\ f \in Spare(c, opened) \ cl
    BY <1>4, <2>1, <2>2
  <2> QED
    BY <1>1, <1>3, <2>1, <2>2, <2>3, ThenMove
<1>9. ASSUME NEW o \in errorResponses(ev[c].method, FreeFds), fds' = Opened(o.opened),
             ev' = [Uploaded(c) EXCEPT ![c].resp = o.resp], pending' = SentFileDeleted(c),
             server' = "unexpected_type"
      PROVE  IParts'
  <2> DEFINE e == [ev[c] EXCEPT !.parse = "uploaded", !.resp = o.resp]
             opened == o.opened
  <2>1. /\ ev' = [ev EXCEPT ![c] = e] /\ e.type = "HTTP_REQUEST_UPLOAD"
        /\ e.state = "live" /\ ~e.stale /\ e.clientFd = ev[c].clientFd /\ e.toSendFd = ev[c].toSendFd
    BY <1>2, <1>9 DEF Uploaded, Events
  <2>2. opened \subseteq FreeFds /\ fds' = Opened(opened)
    BY <1>9, ErrorOutcomes
  <2> HIDE DEF e, opened
  <2>3. GaveUp(c)'
    <3>1. ev'[c] = e
      BY <1>2, <2>1
    <3>2. Active(c)' = <<ev[c].toSendFd, "write">>
      BY <2>1, <3>1 DEF Active
    <3> QED
      BY <1>1, <1>9, <3>2 DEF GaveUp, Running, Exceptions
  <2> QED
    BY <1>6, <1>9, <2>1, <2>2, <2>3
<1>10. CASE CgiStarted(c)
  BY <1>5, <1>7, <1>10 DEF CgiStarted
<1>11. CASE CgiForkFails(c)
  BY <1>7, <1>8, <1>9, <1>11 DEF CgiForkFails
<1> QED
  BY <1>10, <1>11

LEMMA FlushOutcomes ==
  ASSUME IParts, NEW c \in Conns, Serve(c, "BUFFER_FLUSH"), NEW o \in FlushAnswers(c)
  PROVE  o.opened \subseteq FreeFds /\ (o.resp.type = "FLUSH_ERR" => o.resp.file \in Spare(c, o.opened))
<1>1. CASE o = Outcome(ev[c].resp, {}, {})
  <2>1. o.opened = {} /\ o.resp = ev[c].resp
    BY <1>1 DEF Outcome
  <2>2. o.resp.type = "FLUSH_ERR" => HoldsPage(c)
    BY <2>1 DEF HoldsPage, Serve
  <2> QED
    BY <2>1, <2>2 DEF Spare
<1>2. CASE o \in errorResponses(ev[c].method, FreeFds)
  BY <1>2, ErrorOutcomes
<1> QED
  BY <1>1, <1>2 DEF FlushAnswers

LEMMA FlushKeeps ==
  ASSUME IParts, TypeOK', NEW c \in Conns, ServeFlush(c)
  PROVE  IParts'
<1>1. Serve(c, "BUFFER_FLUSH")
  BY DEF ServeFlush, FlushMore, FlushClosed, FlushBad, FlushDone, Flush
<1>2. /\ ev[c] \in Events /\ ev[c].state = "live" /\ ev[c].type = "BUFFER_FLUSH"
      /\ ev = [d \in Conns |-> ev[d]] /\ {} \in SUBSET FreeFds /\ Opened({}) = fds
  BY <1>1, LiveFields
<1>3. ASSUME NEW r, NEW opened, NEW q, opened \subseteq FreeFds, fds' = Opened(opened),
             r.type = "FLUSH_ERR" => r.file \in Spare(c, opened),
             redirectUploadError(c, r, q), UNCHANGED kq,
             NEW cl \in {{}, {ev[c].toSendFd}}, closing' = closing \cup cl
      PROVE  IParts'
  <2>1. cl \subseteq {ev[c].toSendFd}
    OBVIOUS
  <2> QED
    BY <1>1, <1>3, <2>1, RedirectKeeps
<1>4. ASSUME NEW r, NEW opened, NEW q, opened \subseteq FreeFds, fds' = Opened(opened),
             r.type = "FLUSH_ERR" => r.file \in Spare(c, opened),
             ev' = [ev EXCEPT ![c].parse = q, ![c].resp = r], UNCHANGED <<kq, pending, closing>>
      PROVE  IParts'
  <2>1. ev' = [ev EXCEPT ![c] = Answered(c, r, q)]
    BY <1>2, <1>4 DEF Answered
  <2>2. opened \subseteq FreeFds /\ fds' = Opened(opened) /\ UNCHANGED <<kq, pending, closing>>
        /\ (r.type = "FLUSH_ERR" => r.file \in Spare(c, opened))
    BY <1>4
  <2> QED
    BY <1>1, <2>1, <2>2, ThrowKeeps
<1>5. CASE FlushMore(c)
  <2>1. UNCHANGED <<ev, kq, pending, closing>> /\ fds' = Opened({})
    BY <1>2, <1>5 DEF FlushMore, Flush
  <2> QED
    BY <1>1, <1>2, <2>1, ThenNothing
<1>6. CASE FlushClosed(c)
  <2>1. CASE removeConnection(c, SentFileDeleted(c), closing \cup {ev[c].toSendFd})
    BY <1>1, <2>1, ServeRemoves
  <2>2. CASE ev' = [ev EXCEPT ![c].parse = "closed"] /\ UNCHANGED <<kq, pending, fds, closing>>
    <3> DEFINE r == ev[c].resp
    <3>1. ev' = [ev EXCEPT ![c].parse = "closed", ![c].resp = r]
      BY <1>2, <2>2 DEF Events
    <3>2. PICK opened : opened = {} /\ opened \subseteq FreeFds /\ fds' = Opened(opened)
      BY <1>2, <2>2
    <3>3. r.type = "FLUSH_ERR" => r.file \in Spare(c, opened)
      BY <1>2 DEF Spare, HoldsPage, Live
    <3> HIDE DEF r
    <3> QED
      BY <1>4, <2>2, <3>1, <3>2, <3>3
  <2> QED
    BY <1>6, <2>1, <2>2 DEF FlushClosed
<1>7. CASE FlushBad(c)
  <2>1. UNCHANGED <<kq, closing>>
    BY <1>7 DEF FlushBad, Flush
  <2>2. CASE ErrorResponseThrows(c, "bad") /\ UNCHANGED <<pending, fds>>
    BY <1>1, <2>1, <2>2, ErrorThrowsKeeps
  <2>3. CASE \E o \in errorResponses(ev[c].method, FreeFds) :
               /\ fds' = Opened(o.opened)
               /\ \/ redirectUploadError(c, o.resp, "bad")
                  \/ ev' = [ev EXCEPT ![c].parse = "bad", ![c].resp = o.resp] /\ UNCHANGED pending
    <3>1. PICK o \in errorResponses(ev[c].method, FreeFds) :
               /\ fds' = Opened(o.opened)
               /\ \/ redirectUploadError(c, o.resp, "bad")
                  \/ ev' = [ev EXCEPT ![c].parse = "bad", ![c].resp = o.resp] /\ UNCHANGED pending
      BY <2>3
    <3> DEFINE r == o.resp
               opened == o.opened
    <3>2. opened \subseteq FreeFds /\ fds' = Opened(opened) /\ (r.type = "FLUSH_ERR" => r.file \in Spare(c, opened))
      BY <3>1, ErrorOutcomes
    <3>3. \/ redirectUploadError(c, r, "bad")
          \/ ev' = [ev EXCEPT ![c].parse = "bad", ![c].resp = r] /\ UNCHANGED pending
      BY <3>1
    <3> HIDE DEF r, opened
    <3>4. CASE redirectUploadError(c, r, "bad")
      <4>1. closing' = closing \cup {} /\ {} \in {{}, {ev[c].toSendFd}} /\ UNCHANGED kq
        BY <2>1
      <4> QED
        BY <1>3, <3>2, <3>4, <4>1
    <3>5. CASE ev' = [ev EXCEPT ![c].parse = "bad", ![c].resp = r] /\ UNCHANGED pending
      BY <1>4, <2>1, <3>2, <3>5
    <3> QED
      BY <3>3, <3>4, <3>5
  <2> QED
    BY <1>7, <2>2, <2>3 DEF FlushBad
<1>8. CASE FlushDone(c)
  <2>1. UNCHANGED kq
    BY <1>8 DEF FlushDone, Flush
  <2>2. CASE ErrorResponseThrows(c, "uploaded") /\ UNCHANGED <<pending, fds, closing>>
    BY <1>1, <2>1, <2>2, ErrorThrowsKeeps
  <2>3. CASE \E o \in FlushAnswers(c) :
               /\ fds' = Opened(o.opened)
               /\ \/ redirectUploadError(c, o.resp, "uploaded") /\ closing' = closing \cup {ev[c].toSendFd}
                  \/ /\ ev' = [ev EXCEPT ![c].parse = "uploaded", ![c].resp = o.resp]
                     /\ UNCHANGED <<pending, closing>>
    <3>1. PICK o \in FlushAnswers(c) :
               /\ fds' = Opened(o.opened)
               /\ \/ redirectUploadError(c, o.resp, "uploaded") /\ closing' = closing \cup {ev[c].toSendFd}
                  \/ /\ ev' = [ev EXCEPT ![c].parse = "uploaded", ![c].resp = o.resp]
                     /\ UNCHANGED <<pending, closing>>
      BY <2>3
    <3> DEFINE r == o.resp
               opened == o.opened
    <3>2. opened \subseteq FreeFds /\ fds' = Opened(opened) /\ (r.type = "FLUSH_ERR" => r.file \in Spare(c, opened))
      BY <1>1, <3>1, FlushOutcomes
    <3>3. \/ redirectUploadError(c, r, "uploaded") /\ closing' = closing \cup {ev[c].toSendFd}
          \/ ev' = [ev EXCEPT ![c].parse = "uploaded", ![c].resp = r] /\ UNCHANGED <<pending, closing>>
      BY <3>1
    <3> HIDE DEF r, opened
    <3>4. CASE redirectUploadError(c, r, "uploaded") /\ closing' = closing \cup {ev[c].toSendFd}
      <4>1. {ev[c].toSendFd} \in {{}, {ev[c].toSendFd}}
        OBVIOUS
      <4> QED
        BY <1>3, <2>1, <3>2, <3>4, <4>1
    <3>5. CASE ev' = [ev EXCEPT ![c].parse = "uploaded", ![c].resp = r] /\ UNCHANGED <<pending, closing>>
      BY <1>4, <2>1, <3>2, <3>5
    <3> QED
      BY <3>3, <3>4, <3>5
  <2> QED
    BY <1>8, <2>2, <2>3 DEF FlushDone
<1> QED
  BY <1>5, <1>6, <1>7, <1>8 DEF ServeFlush

LEMMA DownloadKeeps ==
  ASSUME IParts, TypeOK', NEW c \in Conns, ServeDownload(c)
  PROVE  IParts'
<1>1. Serve(c, "HTTP_RESPONSE_DOWNLOAD")
  BY DEF ServeDownload, DownloadMore, DownloadFails, DownloadDone, Download
<1>2. /\ ev[c] \in Events /\ ev[c].state = "live" /\ ~ev[c].stale
      /\ ev = [d \in Conns |-> ev[d]] /\ {} \in SUBSET FreeFds /\ Opened({}) = fds
  BY <1>1, LiveFields
<1>3. CASE DownloadMore(c)
  <2>1. UNCHANGED <<ev, kq, pending, closing>> /\ fds' = Opened({})
    BY <1>2, <1>3 DEF DownloadMore
  <2> QED
    BY <1>1, <1>2, <2>1, ThenNothing
<1>4. CASE DownloadFails(c)
  BY <1>1, <1>4, ServeRemoves DEF DownloadFails
<1>5. CASE DownloadDone(c)
  <2> DEFINE e == [ev[c] EXCEPT !.type = "HTTP_RESPONSE_WRITABLE", !.toSendFd = ev[c].clientFd,
                                !.resp.state = "HTTP_SENDING_STORAGE"]
  <2>1. /\ ev' = [ev EXCEPT ![c] = e] /\ e.type = "HTTP_RESPONSE_WRITABLE"
        /\ e.state = "live" /\ ~e.stale /\ e.clientFd = ev[c].clientFd
    BY <1>2, <1>5 DEF DownloadDone, Events
  <2> HIDE DEF e
  <2>2. /\ UNCHANGED kq /\ closing' = closing \cup {ev[c].toRecvFd} /\ fds' = Opened({})
        /\ pending' = StartSending(c, ReceivedFileDeleted(c))
    BY <1>2, <1>5 DEF DownloadDone
  <2>3. Quiet(c, ReceivedFileDeleted(c)) /\ {ev[c].toRecvFd} \subseteq Files(c, {})
    BY <1>1, <1>2, <2>2, QuietLists, HandedOver
  <2>4. Handled(c, e, {}, {ev[c].toRecvFd})
    BY <1>2, <2>1, <2>2 DEF Handled
  <2> QED
    BY <1>1, <2>1, <2>2, <2>3, <2>4, ThenSend
<1> QED
  BY <1>3, <1>4, <1>5 DEF ServeDownload

LEMMA CgiReplyKeeps ==
  ASSUME IParts, TypeOK', NEW c \in Conns, CgiReply(c)
  PROVE  IParts'
<1>1. Serve(c, "CGI_RESPONSE_READABLE") /\ UNCHANGED kq
  BY DEF CgiReply
<1>2. /\ ev[c] \in Events /\ ev[c].state = "live" /\ ~ev[c].stale /\ ev[c].type = "CGI_RESPONSE_READABLE"
      /\ ev = [d \in Conns |-> ev[d]] /\ TypeOK
  BY <1>1, LiveFields
<1>3. PICK o \in CgiAnswers \cup (IF "old" \in Faults THEN errorResponses(ev[c].method, FreeFds) ELSE {}) :
        /\ fds' = Opened(o.opened)
        /\ \/ /\ ev' = [ev EXCEPT ![c].type = "HTTP_RESPONSE_DOWNLOAD",
                                  ![c].resp = [o.resp EXCEPT !.file = ev[c].toRecvFd]]
              /\ UNCHANGED <<pending, closing>>
           \/ /\ closing' = closing \cup {ev[c].toRecvFd}
              /\ ev' = [ev EXCEPT ![c].type = "HTTP_RESPONSE_WRITABLE",
                                  ![c].toSendFd = ev[c].clientFd, ![c].resp = o.resp]
              /\ pending' = StartSending(c, ReceivedFileDeleted(c))
  BY DEF CgiReply
<1>4. o.opened \subseteq FreeFds
  <2>1. \A a \in CgiAnswers : a.opened = {}
    BY DEF CgiAnswers, Outcome
  <2> QED
    BY <2>1, ErrorOutcomes
<1> DEFINE opened == o.opened
<1>5. opened \subseteq FreeFds /\ fds' = Opened(opened)
  BY <1>3, <1>4
<1> HIDE DEF opened
<1>6. CASE /\ ev' = [ev EXCEPT ![c].type = "HTTP_RESPONSE_DOWNLOAD",
                               ![c].resp = [o.resp EXCEPT !.file = ev[c].toRecvFd]]
           /\ UNCHANGED <<pending, closing>>
  <2> DEFINE e == [ev[c] EXCEPT !.type = "HTTP_RESPONSE_DOWNLOAD",
                                !.resp = [o.resp EXCEPT !.file = ev[c].toRecvFd]]
  <2>1. /\ ev' = [ev EXCEPT ![c] = e] /\ e.type = "HTTP_RESPONSE_DOWNLOAD" /\ e.toRecvFd = ev[c].toRecvFd
        /\ e.state = "live" /\ ~e.stale /\ e.clientFd = ev[c].clientFd
    BY <1>2, <1>6 DEF Events
  <2> HIDE DEF e
  <2>2. Active(c) = <<ev[c].toRecvFd, "read">> /\ UsesFile(c)
    BY <1>2, ActiveIs
  <2>3. Active(c)' = <<ev[c].toRecvFd, "read">> /\ UsesFile(c)'
    BY <1>2, <2>1, NextActiveIs
  <2>4. closing' = closing \cup {}
    BY <1>6
  <2>5. Handled(c, e, opened, {})
    BY <1>1, <1>5, <2>1, <2>4 DEF Handled
  <2> QED
    BY <1>1, <1>6, <2>2, <2>3, <2>5, ServeSame
<1>7. CASE /\ closing' = closing \cup {ev[c].toRecvFd}
           /\ ev' = [ev EXCEPT ![c].type = "HTTP_RESPONSE_WRITABLE",
                               ![c].toSendFd = ev[c].clientFd, ![c].resp = o.resp]
           /\ pending' = StartSending(c, ReceivedFileDeleted(c))
  <2> DEFINE e == [ev[c] EXCEPT !.type = "HTTP_RESPONSE_WRITABLE",
                                !.toSendFd = ev[c].clientFd, !.resp = o.resp]
  <2>1. /\ ev' = [ev EXCEPT ![c] = e] /\ e.type = "HTTP_RESPONSE_WRITABLE"
        /\ e.state = "live" /\ ~e.stale /\ e.clientFd = ev[c].clientFd
    BY <1>2, <1>7 DEF Events
  <2> HIDE DEF e
  <2>2. Quiet(c, ReceivedFileDeleted(c)) /\ {ev[c].toRecvFd} \subseteq Files(c, opened)
    BY <1>1, <1>5, QuietLists, HandedOver
  <2>3. Handled(c, e, opened, {ev[c].toRecvFd})
    BY <1>1, <1>5, <1>7, <2>1 DEF Handled
  <2> QED
    BY <1>1, <1>7, <2>1, <2>2, <2>3, ThenSend
<1> QED
  BY <1>3, <1>6, <1>7

LEMMA WritableKeeps ==
  ASSUME IParts, TypeOK', NEW c \in Conns, ServeWritable(c)
  PROVE  IParts'
<1>1. Serve(c, "HTTP_RESPONSE_WRITABLE")
  BY DEF ServeWritable, SendMore, SendFails, FinishAndClose, FinishAndKeepAlive, Send
<1>2. /\ ev[c] \in Events /\ ev[c].state = "live" /\ ~ev[c].stale /\ ev[c].type = "HTTP_RESPONSE_WRITABLE"
      /\ ev = [d \in Conns |-> ev[d]] /\ {} \in SUBSET FreeFds /\ Opened({}) = fds /\ TypeOK
      /\ closing \cup {} = closing
  BY <1>1, LiveFields
<1>3. CASE UNCHANGED <<ev, kq, pending, fds, closing>>
  BY <1>1, <1>2, <1>3, ThenNothing
<1>4. CASE removeConnection(c, pending, closing)
  BY <1>1, <1>4, ServeRemoves
<1>5. CASE /\ ev' = [ev EXCEPT ![c] = Initialized(c)] /\ pending' = BackToReceiving(c)
           /\ UNCHANGED <<kq, fds, closing>>
  <2> DEFINE e == Initialized(c)
             k == <<ev[c].clientFd, "read">>
             p == Queue(pending, Client(c, "write"), "disable", c)
  <2>1. /\ e.type = "HTTP_REQUEST_READABLE" /\ e.state = "live" /\ ~e.stale /\ e.clientFd = ev[c].clientFd
    BY DEF Initialized, NewEvent
  <2> HIDE DEF e
  <2>2. Handled(c, e, {}, {}) /\ {} \subseteq Files(c, {})
    BY <1>2, <1>5, <2>1 DEF Handled, e
  <2>3. Active(c)' = k /\ ~UsesFile(c)'
    BY <1>2, <1>5, <2>1, NextActiveIs DEF e
  <2>4. Quiet(c, p)
    BY <1>1, QuietLists
  <2>5. ev[c].clientFd \in Fds
    BY <1>1, ServedWorks DEF OwnOK
  <2>6. k \in Keys /\ k[1] = ev[c].clientFd /\ pending' = Queue(p, k, "enable", c)
    BY <1>5, <2>5, KeysOf DEF BackToReceiving, Client, Filters
  <2> HIDE DEF k, p
  <2> QED
    BY <1>1, <2>2, <2>3, <2>4, <2>6, ServeWake
<1>6. CASE /\ ev' = [ev EXCEPT ![c].resp.state = "HTTP_SENDING_DONE"]
           /\ UNCHANGED <<pending, kq, fds, closing>>
  <2> DEFINE e == [ev[c] EXCEPT !.resp.state = "HTTP_SENDING_DONE"]
  <2>1. /\ ev' = [ev EXCEPT ![c] = e] /\ e.type = "HTTP_RESPONSE_WRITABLE"
        /\ e.state = "live" /\ ~e.stale /\ e.clientFd = ev[c].clientFd
        /\ e.toSendFd = ev[c].toSendFd /\ e.toRecvFd = ev[c].toRecvFd
    BY <1>2, <1>6 DEF Events
  <2> HIDE DEF e
  <2>2. Handled(c, e, {}, {})
    BY <1>2, <1>6, <2>1 DEF Handled
  <2> QED
    BY <1>1, <1>6, <2>1, <2>2, ThenStay
<1> QED
  BY <1>3, <1>4, <1>5, <1>6 DEF ServeWritable, SendMore, SendFails, FinishAndClose, FinishAndKeepAlive

\* A step that leaves all of this alone.
LEMMA StillKeeps ==
  ASSUME IParts, TypeOK', UNCHANGED <<ev, kq, pending, errs, batch, routed, fds, closing>>,
         Running \/ UNCHANGED server
  PROVE  IParts'
<1>1. /\ \A k : Effective(k)' = Effective(k)
      /\ \A c : Active(c)' = Active(c)
      /\ \A c : (Live(c)' <=> Live(c)) /\ (UsesFile(c)' <=> UsesFile(c)) /\ (HoldsPage(c)' <=> HoldsPage(c))
      /\ \A c, filter : Client(c, filter)' = Client(c, filter)
      /\ \A c : Dispatched(c)' <=> Dispatched(c)
  BY Zenon DEF Effective, Active, Live, UsesFile, HoldsPage, Client, Dispatched
<1>2. NoStaleChange' /\ ListsOK(kq, pending)' /\ ErrorsAreDeletes' /\ BornOK'
  BY <1>1 DEF IParts, NoStaleChange, ListsOK, ApplicableIn, ErrorsAreDeletes, BornOK, StillThere
<1>3. \A c \in Conns : Live(c)' => OwnOK(c)'
  <2>1. \A c : Hears(c)' <=> Hears(c)
    BY <1>1 DEF Hears, Effective
  <2>2. \A c : ~Running => (GaveUp(c)' <=> GaveUp(c))
    BY <1>1 DEF GaveUp, Running
  <2>3. \A c : Running => ~GaveUp(c)
    BY DEF GaveUp
  <2> QED
    BY <1>1, <2>1, <2>2, <2>3 DEF IParts, OwnOK, FileOK, PageOK
<1>4. \A c, d \in Conns : c # d => ApartOK(c, d)'
  BY <1>1 DEF IParts, ApartOK
<1>5. DispatchSettled' /\ HangupsAreSockets'
  BY <1>1 DEF IParts, DispatchSettled, NoChange, HangupsAreSockets
<1>6. DispatchOnce' /\ CloseDiscipline'
  BY <1>1 DEF IParts, DispatchOnce, CloseDiscipline
<1> QED
  BY <1>2, <1>3, <1>4, <1>5, <1>6 DEF IParts

LEMMA ServeOneKeeps ==
  ASSUME IParts, NEW c \in Conns, ServeOne(c)
  PROVE  IParts'
<1>1. TypeOK'
  BY ServeIsNext
<1>2. CASE DeletesTwice(c)
  <2>1. UNCHANGED <<ev, kq, pending, errs, batch, routed, fds, closing>>
    BY <1>2 DEF DeletesTwice
  <2>2. Running
    BY <1>2 DEF DeletesTwice, Running
  <2> QED
    BY <1>1, <2>1, <2>2, StillKeeps
<1>3. CASE ServeReadable(c)
  BY <1>1, <1>3, ReadableKeeps
<1>4. CASE ServeUpload(c)
  BY <1>1, <1>4, UploadKeeps, CgiForkKeeps DEF ServeUpload
<1>5. CASE ServeFlush(c)
  BY <1>1, <1>5, FlushKeeps
<1>6. CASE ServeDownload(c)
  BY <1>1, <1>6, DownloadKeeps
<1>7. CASE CgiReply(c)
  BY <1>1, <1>7, CgiReplyKeeps
<1>8. CASE ServeWritable(c)
  BY <1>1, <1>8, WritableKeeps
<1> QED
  BY <1>2, <1>3, <1>4, <1>5, <1>6, <1>7, <1>8 DEF ServeOne

-----------------------------------------------------------------------------
(* Steps that close descriptors at most *)

ClientFds(C) == {ev[c].clientFd : c \in C}

\* The idle connections C are removed and the descriptors cl, which waited for
\* it, are closed; both may be nothing.
Closes(C, cl) ==
  /\ \A c \in Conns \ C : Same(c)
  /\ \A c \in C : ev'[c].state = "freed"
  /\ fds' = Closed(fds, ClientFds(C) \cup cl)
  /\ kq' = Dropped(ClientFds(C) \cup cl)
  /\ UNCHANGED pending
  /\ closing' = closing \ cl
  /\ errs' \subseteq errs

\* Nothing is registered for a descriptor that is closed but what belonged to C.
LEMMA ClosedFds ==
  ASSUME IParts, NEW C \in SUBSET Idle, NEW cl \in SUBSET closing, cl = {} \/ pending = EmptyList
  PROVE  /\ \A f \in ClientFds(C) \cup cl : f \in Fds /\ fds[f] # "free"
         /\ \A f \in ClientFds(C) : fds[f] = "socket"
         /\ \A k \in Keys : k[1] \in ClientFds(C) \cup cl =>
              pending[k] = << >> /\ Effective(k).ev \in C \cup {Null}
<1>1. \A c \in C : c \in Conns /\ Live(c) /\ ev[c].stale /\ OwnOK(c) /\ NoChange(c)
  BY DEF Idle, IParts, DispatchSettled
<1>2. \A f \in closing : f \in Fds /\ fds[f] = "file" /\ \A filter \in Filters : Effective(<<f, filter>>) = NoReg
  BY DEF IParts, CloseDiscipline, TypeOK, Filters
<1>3. \A c \in C : ev[c].clientFd \in Fds /\ fds[ev[c].clientFd] = "socket"
  BY <1>1 DEF OwnOK
<1>4. ASSUME NEW k \in Keys, NEW c \in C, k[1] = ev[c].clientFd
      PROVE  pending[k] = << >> /\ Effective(k).ev = c
  <2>1. k = Client(c, k[2]) /\ k[2] \in Filters
    BY <1>4, KeysOf DEF Client
  <2> QED
    BY <1>1, <2>1 DEF OwnOK, NoChange
<1>5. ASSUME NEW k \in Keys, k[1] \in cl
      PROVE  pending[k] = << >> /\ Effective(k).ev = Null
  <2>1. pending = EmptyList /\ k = <<k[1], k[2]>> /\ k[2] \in Filters
    BY <1>5, KeysOf
  <2>2. Effective(k) = NoReg
    BY <1>2, <1>5, <2>1
  <2> QED
    BY <2>1, <2>2 DEF EmptyList, NoReg
<1> QED
  BY <1>2, <1>3, <1>4, <1>5 DEF ClientFds

LEMMA ClosesKeeps ==
  ASSUME IParts, TypeOK', NEW C \in SUBSET Idle, NEW cl \in SUBSET closing,
         cl = {} \/ pending = EmptyList, Closes(C, cl), DispatchOnce', Running,
         \A d \in Conns : Dispatched(d)' => /\ AtWork(d) /\ d \notin C /\ ~ev'[d].stale
                                            /\ NoChange(d),
         \A d \in Conns \ C : Live(d) /\ ev'[d].stale =>
                                 NoChange(d) /\ ev[d].type = "HTTP_REQUEST_READABLE",
         \A b \in batch' : b.eof => ~UsesFile(b.ev)
  PROVE  IParts'
<1> DEFINE M == ClientFds(C) \cup cl
           E(k) == EffectiveIn(kq', pending', k)
<1>1. /\ \A f \in M : f \in Fds /\ fds[f] # "free"
      /\ \A f \in ClientFds(C) : fds[f] = "socket"
      /\ \A k \in Keys : k[1] \in M => pending[k] = << >> /\ Effective(k).ev \in C \cup {Null}
  BY ClosedFds
<1>2. C \subseteq Conns /\ ListsOK(kq, pending) /\ NoReg.ev = Null /\ NoReg.st = "none" /\ Null \notin Conns
  BY ConstAssumption DEF Idle, IParts, NoReg
<1>3. \A k \in Keys : k[1] \in M => kq'[k] = NoReg /\ pending'[k] = << >> /\ E(k) = NoReg
  BY <1>1 DEF Closes, Dropped, EffectiveIn
<1>4. \A k \in Keys : k[1] \notin M => kq'[k] = kq[k] /\ pending'[k] = pending[k] /\ E(k) = Effective(k)
  BY EffectiveIs DEF Closes, Dropped, EffectiveIn
<1>5. /\ \A f \in Fds : f \notin M => fds'[f] = fds[f]
      /\ \A f \in Fds : f \in M => fds'[f] = "free"
  BY DEF Closes, Closed
<1>6. /\ \A x \in Conns \ C : Same(x)
      /\ \A x \in C : ev'[x].state = "freed"
      /\ UNCHANGED pending /\ closing' = closing \ cl /\ errs' \subseteq errs
  BY DEF Closes
<1>7. \A x \in Conns : HoldsPage(x) => ev[x].resp.file \notin M
  <2>1. \A x \in Conns : HoldsPage(x) => PageOK(ev[x].resp.file)
    BY DEF IParts, OwnOK, HoldsPage
  <2> QED
    BY <1>1, <2>1 DEF PageOK
<1> HIDE DEF M, E
<1>8. ASSUME NEW d \in Conns \ C, Live(d)
      PROVE  OwnOK(d)' /\ Live(d)' /\ Active(d)' = Active(d)
  <2>1. \A k \in Keys : k[1] \in M => /\ Effective(k).ev \in C \cup {Null}
                                      /\ EffectiveIn(kq', pending', k).ev \in C \cup {Null}
    BY <1>1, <1>2, <1>3 DEF E
  <2>2. \A f \in closing' : f \in closing \/ f \in M
    BY <1>6
  <2>3. \A x \in Conns \ C : HoldsPage(x) => ev[x].resp.file \notin M
    BY <1>7
  <2>4. \A k \in Keys : k[1] \notin M => kq'[k] = kq[k] /\ pending'[k] = pending[k]
    BY <1>4
  <2>5. \A f \in Fds : f \notin M => fds'[f] = fds[f]
    BY <1>5
  <2>6. \A x \in Conns \ C : Same(x)
    BY <1>6
  <2>7. C \in SUBSET Conns /\ Running
    BY <1>2
  <2> QED
    BY <1>8, <2>1, <2>2, <2>3, <2>4, <2>5, <2>6, <2>7, OthersKeep
<1>9. \A d \in Conns : Live(d)' => OwnOK(d)' /\ d \notin C /\ Live(d)
  <2> TAKE d \in Conns
  <2>1. CASE d \in C
    BY <2>1, <1>6 DEF Live
  <2>2. CASE d \notin C
    <3>1. Live(d)' => Live(d)
      BY <2>2, <1>6 DEF Live, Same
    <3> QED
      BY <2>2, <3>1, <1>8
  <2> QED
    BY <2>1, <2>2
<1>10. \A x, y \in Conns : x # y => ApartOK(x, y)'
  <2> SUFFICES ASSUME NEW x \in Conns, NEW y \in Conns, x # y PROVE ApartOK(x, y)'
    OBVIOUS
  <2>1. CASE x \notin C /\ y \notin C
    <3>1. ApartOK(x, y) /\ Same(x) /\ Same(y)
      BY <2>1, <1>6 DEF IParts
    <3> QED
      BY <3>1 DEF ApartOK, Live, HoldsPage, Same
  <2>2. CASE x \in C \/ y \in C
    BY <2>2, <1>6 DEF ApartOK, Live, HoldsPage
  <2> QED
    BY <2>1, <2>2
<1>11. NoStaleChange'
  <2> SUFFICES ASSUME NEW k \in Keys, fds'[k[1]] = "free" PROVE pending'[k] = << >> /\ kq'[k] = NoReg
    BY DEF NoStaleChange
  <2>1. CASE k[1] \notin M
    <3>1. fds[k[1]] = "free"
      BY <2>1, <1>5, KeysOf
    <3> QED
      BY <2>1, <3>1, <1>4 DEF IParts, NoStaleChange
  <2> QED
    BY <2>1, <1>3
<1>12. ListsOK(kq, pending)'
  <2>1. kq' \in [Keys -> Registration] /\ pending' \in [Keys -> Seq(Change)]
    BY DEF TypeOK
  <2>2. ASSUME NEW k \in Keys PROVE (kq'[k].st = "none" <=> kq'[k].ev = Null) /\ ApplicableIn(kq', pending', k)
    <3>1. CASE k[1] \in M
      <4>1. kq'[k] = NoReg /\ pending'[k] = << >>
        BY <3>1, <1>3
      <4>2. \A i \in 1..Len(pending'[k]) : FALSE
        BY <4>1
      <4> QED
        BY <1>2, <4>1, <4>2 DEF ApplicableIn
    <3>2. CASE k[1] \notin M
      <4>1. kq'[k] = kq[k] /\ pending'[k] = pending[k]
        BY <3>2, <1>4
      <4> QED
        BY <1>2, <4>1 DEF ListsOK, ApplicableIn
    <3> QED
      BY <3>1, <3>2
  <2> QED
    BY <2>1, <2>2 DEF ListsOK
<1>13. BornOK'
  <2> DEFINE Stays(d) == ev'[d].state = "live" \/ (ev'[d].state = "freed" /\ "cgi" \in Faults)
  <2> SUFFICES ASSUME NEW k \in Keys, E(k).ev # Null PROVE Stays(E(k).ev)
    BY EffectiveIs DEF BornOK, E, StillThere
  <2>1. k[1] \notin M /\ E(k) = Effective(k) /\ Effective(k).ev # Null
    BY <1>2, <1>3, <1>4
  <2>2. Effective(k).ev \in Conns /\ StillThere(Effective(k).ev)
    BY <1>2, <2>1, EffectiveShape, EffectiveIs DEF IParts, BornOK
  <2>3. CASE Effective(k).ev \in C
    <3> DEFINE x == Effective(k).ev
    <3>1. x \in C /\ OwnOK(x) /\ ev[x].type = "HTTP_REQUEST_READABLE"
      BY <2>3, <1>2 DEF Idle, IParts
    <3>2. k[1] = ev[x].clientFd
      <4>1. x \in Conns /\ Active(x) = <<ev[x].clientFd, "read">>
        BY <2>2, <3>1, ActiveIs
      <4> QED
        BY <3>1, <4>1 DEF OwnOK
    <3>3. k[1] \in M
      BY <3>1, <3>2 DEF M, ClientFds
    <3> QED
      BY <2>1, <3>3
  <2>4. CASE Effective(k).ev \notin C
    BY <2>1, <2>2, <2>4, <1>6 DEF Same, StillThere
  <2> QED
    BY <2>3, <2>4
<1>14. ErrorsAreDeletes'
  BY <1>6 DEF IParts, ErrorsAreDeletes
<1>15. DispatchSettled'
  <2>1. ASSUME NEW d \in Conns, Dispatched(d)'
        PROVE  /\ Live(d)' /\ ~ev'[d].stale /\ Active(d)' \in Keys
               /\ kq'[Active(d)'] = [st |-> "on", ev |-> d] /\ NoChange(d)'
    <3>1. AtWork(d) /\ d \notin C /\ ~ev'[d].stale /\ NoChange(d)
      BY <2>1
    <3>2. Live(d)' /\ Active(d)' = Active(d) /\ Active(d) \in Keys /\ Effective(Active(d)) = On(d)
      BY <3>1, <1>8 DEF AtWork
    <3>3. Active(d)[1] \notin M
      BY <3>1, <3>2, <1>1, <1>2 DEF On
    <3>4. kq[Active(d)] = On(d)
      BY <3>1, <3>2 DEF NoChange, Effective
    <3>5. NoChange(d)'
      <4>1. \A filter \in Filters : Client(d, filter)' = Client(d, filter)
        BY <3>1, <1>6 DEF Client, Same
      <4> QED
        BY <3>1, <3>2, <4>1, <1>6 DEF NoChange
    <3> QED
      BY <3>1, <3>2, <3>3, <3>4, <3>5, <1>4 DEF On
  <2>2. ASSUME NEW d \in Conns, Live(d)', ev'[d].stale
        PROVE  NoChange(d)' /\ ev'[d].type = "HTTP_REQUEST_READABLE"
    <3>1. d \notin C /\ Live(d) /\ Active(d)' = Active(d)
      BY <2>2, <1>8, <1>9
    <3>2. NoChange(d) /\ ev[d].type = "HTTP_REQUEST_READABLE"
      BY <2>2, <3>1
    <3>3. \A filter \in Filters : Client(d, filter)' = Client(d, filter)
      BY <3>1, <1>6 DEF Client, Same
    <3>4. NoChange(d)'
      BY <3>1, <3>2, <3>3, <1>6 DEF NoChange
    <3> QED
      BY <3>1, <3>2, <3>4, <1>6 DEF Same
  <2> QED
    BY <2>1, <2>2 DEF DispatchSettled
<1>16. CloseDiscipline'
  <2> SUFFICES ASSUME NEW f \in closing'
               PROVE  fds'[f] = "file" /\ f \in Fds /\ \A filter \in Filters : E(<<f, filter>>) = NoReg
    BY DEF CloseDiscipline, Effective, EffectiveIn, Filters, E
  <2>1. f \in closing /\ f \notin cl /\ f \in Fds /\ fds[f] = "file"
        /\ \A filter \in Filters : Effective(<<f, filter>>) = NoReg
    BY <1>6 DEF IParts, CloseDiscipline, TypeOK, Filters
  <2>2. f \notin M
    BY <2>1, <1>1 DEF M
  <2> QED
    BY <2>1, <2>2, <1>4, <1>5, KeysOf
<1>17. HangupsAreSockets'
  <2> SUFFICES ASSUME NEW b \in batch', b.eof PROVE ~UsesFile(b.ev)'
    BY DEF HangupsAreSockets, UsesFile
  <2>1. b.ev \in Conns /\ b.ev \notin C /\ ~UsesFile(b.ev)
    BY DEF TypeOK, Dispatched
  <2> QED
    BY <2>1, <1>6 DEF UsesFile, Same
<1> QED
  BY <1>9, <1>10, <1>11, <1>12, <1>13, <1>14, <1>15, <1>16, <1>17 DEF IParts

-----------------------------------------------------------------------------
(* Routing and time *)

\* Nothing is closed: what remains is who is dispatched, and who is idle.
LEMMA NothingCloses ==
  ASSUME IParts, TypeOK', \A d \in Conns : Same(d),
         UNCHANGED <<kq, pending, fds, closing, errs>>, DispatchOnce', Running, batch' \subseteq batch,
         \A d \in Conns : Dispatched(d)' => Dispatched(d) /\ ~ev'[d].stale,
         \A d \in Conns : Live(d) /\ ev'[d].stale =>
                             NoChange(d) /\ ev[d].type = "HTTP_REQUEST_READABLE"
  PROVE  IParts'
<1>1. ClientFds({}) \cup {} = {}
  BY DEF ClientFds
<1>2. Closed(fds, {}) = fds /\ Dropped({}) = kq
  BY DEF Closed, Dropped, IParts, TypeOK
<1>3. Closes({}, {})
  BY <1>1, <1>2 DEF Closes
<1>4. \A d \in Conns : Dispatched(d)' => AtWork(d) /\ d \notin {} /\ ~ev'[d].stale /\ NoChange(d)
  BY DispatchedWorks
<1>5. \A a \in batch' : a.eof => ~UsesFile(a.ev)
  BY DEF IParts, HangupsAreSockets
<1> QED
  BY <1>3, <1>4, <1>5, ClosesKeeps

LEMMA RouteDispatch ==
  ASSUME IParts, NEW b \in batch, Route(b),
         UNCHANGED routed \/ routed' = [routed EXCEPT ![b.ev] = @ + 1]
  PROVE  /\ b.ev \in Conns /\ Dispatched(b.ev) /\ UNCHANGED errs /\ DispatchOnce' /\ Running
         /\ batch' \subseteq batch
         /\ \A d \in Conns : Dispatched(d)' => Dispatched(d)
         /\ UNCHANGED routed => \A d \in Conns : Dispatched(d)' => d # b.ev
<1>1. /\ b.ev \in Conns /\ batch' = batch \ {b} /\ UNCHANGED errs
      /\ routed \in [Conns -> Nat] /\ \A a \in batch : a.ev \in Conns
  BY DEF Route, IParts, TypeOK
<1>2. /\ \A b1, b2 \in batch : b1.ev = b2.ev => b1 = b2
      /\ \A c \in Conns : routed[c] =< 1
      /\ \A a \in batch : routed[a.ev] = 0
  BY DEF IParts, DispatchOnce
<1>3. \A a \in batch' : a \in batch /\ a.ev # b.ev
  BY <1>1, <1>2
<1>4. routed'[b.ev] =< 1 /\ \A d \in Conns : d # b.ev => routed'[d] = routed[d]
  BY <1>1, <1>2
<1>5. DispatchOnce'
  <2>1. \A b1, b2 \in batch' : b1.ev = b2.ev => b1 = b2
    BY <1>2, <1>3
  <2>2. \A c \in Conns : routed'[c] =< 1
    BY <1>2, <1>4
  <2>3. \A a \in batch' : routed'[a.ev] = 0
    BY <1>1, <1>2, <1>3, <1>4
  <2> QED
    BY <2>1, <2>2, <2>3 DEF DispatchOnce
<1>6. Dispatched(b.ev)
  BY DEF Dispatched
<1>7. \A d \in Conns : Dispatched(d)' => Dispatched(d)
  BY <1>3, <1>4, <1>6 DEF Dispatched
<1>8. UNCHANGED routed => ~Dispatched(b.ev)'
  BY <1>1, <1>2, <1>3 DEF Dispatched
<1>9. Running
  BY DEF Route, Running
<1> QED
  BY <1>1, <1>5, <1>6, <1>7, <1>8, <1>9

\* A routed Event changes what it knows of its request, at most.
LEMMA RoutedKeeps ==
  ASSUME IParts, TypeOK', NEW b \in batch, Route(b),
         UNCHANGED routed \/ routed' = [routed EXCEPT ![b.ev] = @ + 1],
         UNCHANGED <<kq, pending, fds, closing>>,
         \A d \in Conns : Same(d) /\ ev'[d].stale = ev[d].stale
  PROVE  IParts'
<1>1. /\ UNCHANGED errs /\ DispatchOnce' /\ Running /\ batch' \subseteq batch
      /\ \A d \in Conns : Dispatched(d)' => Dispatched(d)
  BY RouteDispatch
<1>2. \A d \in Conns : Dispatched(d)' => Dispatched(d) /\ ~ev'[d].stale
  BY <1>1 DEF IParts, DispatchSettled
<1>3. \A d \in Conns : Live(d) /\ ev'[d].stale => NoChange(d) /\ ev[d].type = "HTTP_REQUEST_READABLE"
  BY DEF IParts, DispatchSettled
<1> QED
  BY <1>1, <1>2, <1>3, NothingCloses

LEMMA RouteKeeps ==
  ASSUME IParts, NEW b \in batch, RouteOne(b)
  PROVE  IParts'
<1>1. TypeOK' /\ TypeOK
  BY TypeStep DEF IParts, Next
<1>2. Route(b) /\ (UNCHANGED routed \/ routed' = [routed EXCEPT ![b.ev] = @ + 1])
  BY DEF RouteOne, RouteEof, StillReceiving, ReceiveError, ReceiveDone, ParsingFails, RouteOther
<1>3. b.ev \in Conns
  BY <1>2, RouteDispatch
<1>4. CASE removeConnection(b.ev, pending, closing) /\ UNCHANGED routed
  <2>1. /\ UNCHANGED errs /\ DispatchOnce' /\ Dispatched(b.ev) /\ Running /\ batch' \subseteq batch
        /\ \A d \in Conns : Dispatched(d)' => Dispatched(d) /\ d # b.ev
    BY <1>2, <1>4, RouteDispatch
  <2>2. AtWork(b.ev) /\ NoChange(b.ev)
    BY <1>3, <2>1, DispatchedWorks
  <2>4. ev[b.ev].type \in {"BUFFER_FLUSH", "CGI_RESPONSE_READABLE"} => "cgi" \in Faults
    <3>1. CASE RouteEof(b)
      BY <3>1 DEF RouteEof, IParts, HangupsAreSockets, UsesFile
    <3>2. CASE ReceiveError(b)
      BY <3>2 DEF ReceiveError
    <3>3. CASE ev' = ev
      <4>1. ev'[b.ev] = NewEvent("freed", NoFd)
        BY <1>1, <1>3, <1>4 DEF removeConnection, TypeOK
      <4> QED
        BY <3>3, <4>1, <2>2 DEF AtWork, Live, NewEvent
    <3>4. CASE ReceiveDone(b)
      <4>1. routed'[b.ev] = routed[b.ev] + 1 /\ routed[b.ev] \in Nat
        BY <1>1, <1>3, <3>4 DEF ReceiveDone, TypeOK
      <4> QED
        BY <1>4, <4>1
    <3> QED
      BY <3>1, <3>2, <3>3, <3>4 DEF RouteOne, StillReceiving, ParsingFails, RouteOther
  <2> DEFINE c == b.ev
  <2>3. /\ c \in Conns /\ AtWork(c) /\ NoChange(c) /\ removeConnection(c, pending, closing)
        /\ \A d \in Conns : Dispatched(d)' => Dispatched(d) /\ d # c
        /\ ev[c].type \in {"BUFFER_FLUSH", "CGI_RESPONSE_READABLE"} => "cgi" \in Faults
    BY <1>3, <1>4, <2>1, <2>2, <2>4
  <2> HIDE DEF c
  <2> QED
    BY <1>1, <2>1, <2>3, RemovedKeeps
<1>5. CASE UNCHANGED <<ev, kq, pending, fds, closing>>
  <2>1. \A d \in Conns : Same(d) /\ ev'[d].stale = ev[d].stale
    BY <1>5 DEF Same
  <2> QED
    BY <1>1, <1>2, <1>5, <2>1, RoutedKeeps
<1>6. CASE RequestParsed(b.ev) /\ UNCHANGED <<kq, pending, fds, closing>>
  <2>1. CASE UNCHANGED ev
    BY <1>5, <1>6, <2>1
  <2>2. CASE ~UNCHANGED ev
    <3>1. PICK m \in Methods \cup {"NOT_IMPL"}, cgi \in BOOLEAN, p \in {"uploading", "unending", "bad"} :
            ev' = [ev EXCEPT ![b.ev].method = m, ![b.ev].cgi = cgi, ![b.ev].parse = p]
      BY <1>6, <2>2 DEF RequestParsed
    <3>2. ev \in [Conns -> Events]
      BY <1>1 DEF TypeOK
    <3>3. \A d \in Conns : Same(d) /\ ev'[d].stale = ev[d].stale
      BY <3>1, <3>2 DEF Same, Events
    <3> QED
      BY <1>1, <1>2, <1>6, <3>3, RoutedKeeps
  <2> QED
    BY <2>1, <2>2
<1>7. CASE ev' = [ev EXCEPT ![b.ev].parse = "answered"] /\ UNCHANGED <<kq, pending, fds, closing>>
  <2>1. ev \in [Conns -> Events]
    BY <1>1 DEF TypeOK
  <2>2. \A d \in Conns : Same(d) /\ ev'[d].stale = ev[d].stale
    BY <1>7, <2>1 DEF Same, Events
  <2> QED
    BY <1>1, <1>2, <1>7, <2>2, RoutedKeeps
<1> QED
  BY <1>4, <1>5, <1>6, <1>7 DEF RouteOne, RouteEof, StillReceiving, ReceiveError, ReceiveDone, ParsingFails, RouteOther

\* While kevent waits nothing is dispatched.
LEMMA WaitingIdle ==
  ASSUME Waiting, TypeOK
  PROVE  /\ DispatchOnce /\ Running /\ \A c \in Conns : ~Dispatched(c)
         /\ batch' = batch /\ routed' = routed => DispatchOnce' /\ \A c \in Conns : ~Dispatched(c)'
  BY DEF Waiting, DispatchOnce, Dispatched, TypeOK, Running

LEMMA AgeKeeps ==
  ASSUME IParts, NEW c \in Conns, Age(c)
  PROVE  IParts'
<1>1. TypeOK' /\ TypeOK
  BY TypeStep DEF IParts, Next
<1>2. /\ Waiting /\ pending = EmptyList /\ Live(c) /\ ev[c].type = "HTTP_REQUEST_READABLE"
      /\ UNCHANGED <<kq, pending, fds, closing, errs, batch, routed>>
  BY DEF Age
<1>3. DispatchOnce' /\ Running /\ \A d \in Conns : ~Dispatched(d)'
  BY <1>1, <1>2, WaitingIdle
<1>4. ev' = [ev EXCEPT ![c] = [ev[c] EXCEPT !.stale = TRUE]]
  BY <1>1, EventsTyped DEF Age
<1>5. \A d \in Conns : Same(d) /\ (d # c => ev'[d] = ev[d])
  <2>1. ev \in [Conns -> Events]
    BY <1>1 DEF TypeOK
  <2>2. \A d \in Conns : d # c => ev'[d] = ev[d]
    BY <1>4, <2>1
  <2>3. Same(c)
    BY <1>4, <2>1 DEF Same, Events
  <2> QED
    BY <2>2, <2>3 DEF Same
<1>6. NoChange(c)
  <2>1. ev[c].clientFd \in Fds
    BY <1>1, <1>2 DEF TypeOK, Live
  <2>2. \A filter \in Filters : Client(c, filter) \in Keys
    BY <2>1, KeysOf DEF Client
  <2>3. Active(c) = Client(c, "read")
    BY <1>2, ActiveIs DEF Client
  <2>4. \A k \in Keys : pending[k] = << >>
    BY <1>2 DEF EmptyList
  <2>5. "read" \in Filters
    BY DEF Filters
  <2> HIDE DEF EmptyList
  <2> QED
    BY <2>2, <2>3, <2>4, <2>5 DEF NoChange
<1>7. \A d \in Conns : Live(d) /\ ev'[d].stale => NoChange(d) /\ ev[d].type = "HTTP_REQUEST_READABLE"
  BY <1>2, <1>5, <1>6 DEF IParts, DispatchSettled
<1> QED
  BY <1>1, <1>2, <1>3, <1>5, <1>7, NothingCloses

LEMMA RebootKeeps ==
  ASSUME IParts, Reboot
  PROVE  IParts'
<1>1. TypeOK' /\ TypeOK
  BY TypeStep DEF IParts, Next
<1>2. UNCHANGED <<ev, kq, pending, errs, fds, closing>> /\ batch' = {} /\ routed' = [c \in Conns |-> 0]
  BY DEF Reboot
<1>3. DispatchOnce' /\ Running /\ \A d \in Conns : ~Dispatched(d)'
  BY <1>2 DEF DispatchOnce, Dispatched, Reboot, Running
<1>4. \A d \in Conns : Same(d)
  BY <1>2 DEF Same
<1>5. \A d \in Conns : Live(d) /\ ev'[d].stale => NoChange(d) /\ ev[d].type = "HTTP_REQUEST_READABLE"
  BY <1>2 DEF IParts, DispatchSettled
<1> QED
  BY <1>1, <1>2, <1>3, <1>4, <1>5, NothingCloses

\* _checkConnectionTimeout, when nothing is accepted.
LEMMA EvictedIs ==
  ASSUME TypeOK, ev' = Evicted
  PROVE  /\ \A d \in Conns \ Idle : Same(d) /\ ev'[d] = ev[d]
         /\ \A d \in Idle : ev'[d].state = "freed"
         /\ IdleFds = ClientFds(Idle)
<1>1. NewEvent("freed", NoFd).state = "freed"
  BY DEF NewEvent
<1> QED
  BY <1>1 DEF Evicted, Idle, IdleFds, ClientFds, Same

LEMMA IdleNotDispatched ==
  ASSUME IParts, NEW d \in Idle
  PROVE  ~Dispatched(d)
  BY DEF IParts, DispatchSettled, Idle

LEMMA EvictKeeps ==
  ASSUME IParts, KeventTimeout \/ AcceptFails
  PROVE  IParts'
<1>1. TypeOK' /\ TypeOK
  BY TypeStep DEF IParts, Next
<1>2. ev' = Evicted /\ UNCHANGED <<errs, batch, routed, pending>>
  BY DEF KeventTimeout, AcceptFails, CheckTimeoutAndAccept
<1>3. /\ \A d \in Conns \ Idle : Same(d) /\ ev'[d] = ev[d]
      /\ \A d \in Idle : ev'[d].state = "freed"
      /\ IdleFds = ClientFds(Idle)
  BY <1>1, <1>2, EvictedIs
<1>4. DispatchOnce' /\ Running /\ \A d : Dispatched(d)' <=> Dispatched(d)
  BY <1>2 DEF DispatchOnce, Dispatched, IParts, KeventTimeout, Waiting, AcceptFails,
              CheckTimeoutAndAccept, Running
<1>5. \A d \in Conns : Dispatched(d)' => AtWork(d) /\ d \notin Idle /\ ~ev'[d].stale /\ NoChange(d)
  BY <1>3, <1>4, DispatchedWorks, IdleNotDispatched
<1>6. \A d \in Conns \ Idle : Live(d) /\ ev'[d].stale =>
                                 NoChange(d) /\ ev[d].type = "HTTP_REQUEST_READABLE"
  BY <1>3 DEF IParts, DispatchSettled
<1>9. \A b \in batch' : b.eof => ~UsesFile(b.ev)
  BY <1>2 DEF IParts, HangupsAreSockets
<1>7. CASE KeventTimeout
  <2>1. Closes(Idle, closing) /\ pending = EmptyList
    BY <1>2, <1>3, <1>7 DEF KeventTimeout, Closes
  <2> QED
    BY <1>1, <1>4, <1>5, <1>6, <1>9, <2>1, ClosesKeeps
<1>8. CASE AcceptFails
  <2>1. Closes(Idle, {})
    BY <1>2, <1>3, <1>8 DEF AcceptFails, CheckTimeoutAndAccept, Closes
  <2> QED
    BY <1>1, <1>4, <1>5, <1>6, <1>9, <2>1, ClosesKeeps
<1> QED
  BY <1>7, <1>8

-----------------------------------------------------------------------------
(* kevent(2) *)

LEMMA ListenAll ==
  ASSUME TypeOK, pending = EmptyList, NEW c \in Conns, Live(c), Active(c) \in Keys
  PROVE  NoChange(c)
<1>1. ev[c].clientFd \in Fds
  BY DEF TypeOK, Live
<1>2. \A filter \in Filters : Client(c, filter) \in Keys
  BY <1>1, KeysOf DEF Client
<1>3. \A k \in Keys : pending[k] = << >>
  BY DEF EmptyList
<1> HIDE DEF EmptyList
<1> QED
  BY <1>2, <1>3 DEF NoChange

\* What kevent returns is ready, and each kevent leads to another Event.
LEMMA ReturnedSettled ==
  ASSUME IParts, Waiting, pending = EmptyList, NEW ready \in SUBSET {k \in Keys : kq[k].st = "on"}, NEW hups,
         Touched(Returned(ready, hups)) = "up"
  PROVE  \A b \in Returned(ready, hups) :
           /\ b.ev \in Conns /\ AtWork(b.ev) /\ NoChange(b.ev)
           /\ hups \subseteq {k \in ready : fds[k[1]] = "socket"} /\ b.eof => ~UsesFile(b.ev)
           /\ \A a \in Returned(ready, hups) : a.ev = b.ev => a = b
<1> DEFINE got == Returned(ready, hups)
<1>1. \A b \in got : b.ev # Null /\ ev[b.ev].state = "live"
  BY DEF Touched
<1>2. \A e \in errs : [key |-> e.key, ev |-> e.ev, eof |-> FALSE] \in got /\ e.ev = Null
  BY DEF Returned, IParts, ErrorsAreDeletes
<1>3. errs = {}
  BY <1>1, <1>2
<1>4. got = {[key |-> k, ev |-> kq[k].ev, eof |-> k \in hups] : k \in ready}
  BY <1>3 DEF Returned
<1>5. TypeOK /\ \A k \in Keys : pending[k] = << >>
  BY DEF EmptyList, IParts
<1> HIDE DEF got, EmptyList
<1>6. ASSUME NEW k \in ready, kq[k].ev # Null, ev[kq[k].ev].state = "live"
      PROVE  kq[k].ev \in Conns /\ AtWork(kq[k].ev) /\ k = Active(kq[k].ev)
  <2>1. k \in Keys /\ kq[k] \in Registration /\ kq[k].st = "on" /\ Effective(k) = kq[k]
    BY <1>5, <1>6 DEF TypeOK, Effective
  <2>2. kq[k].ev \in Conns /\ kq[k] = [st |-> "on", ev |-> kq[k].ev]
    BY <1>6, <2>1 DEF Registration
  <2>3. Live(kq[k].ev) /\ OwnOK(kq[k].ev)
    BY <1>6, <2>2 DEF Live, IParts
  <2>4. k = Active(kq[k].ev)
    BY <2>1, <2>3 DEF OwnOK
  <2> QED
    BY <2>1, <2>2, <2>3, <2>4 DEF AtWork, On
<1>7. ASSUME NEW b \in got
      PROVE  \E k \in ready : /\ b = [key |-> k, ev |-> kq[k].ev, eof |-> k \in hups]
                              /\ b.ev \in Conns /\ AtWork(b.ev) /\ k = Active(b.ev)
  <2>1. PICK k \in ready : b = [key |-> k, ev |-> kq[k].ev, eof |-> k \in hups]
    BY <1>4
  <2>2. kq[k].ev # Null /\ ev[kq[k].ev].state = "live" /\ b.ev = kq[k].ev
    BY <1>1, <2>1
  <2> QED
    BY <2>1, <2>2, <1>6
<1>8. ASSUME NEW b \in got PROVE b.ev \in Conns /\ AtWork(b.ev) /\ NoChange(b.ev)
  <2>1. b.ev \in Conns /\ AtWork(b.ev)
    BY <1>7
  <2> QED
    BY <2>1, <1>5, ListenAll DEF AtWork
<1>9. ASSUME NEW a \in got, NEW b \in got, a.ev = b.ev PROVE a = b
  <2>1. PICK k \in ready : b = [key |-> k, ev |-> kq[k].ev, eof |-> k \in hups] /\ k = Active(b.ev)
    BY <1>7
  <2>2. PICK j \in ready : a = [key |-> j, ev |-> kq[j].ev, eof |-> j \in hups] /\ j = Active(a.ev)
    BY <1>7
  <2> QED
    BY <1>9, <2>1, <2>2
<1>10. ASSUME NEW b \in got, hups \subseteq {k \in ready : fds[k[1]] = "socket"}, b.eof
       PROVE  ~UsesFile(b.ev)
  <2>1. PICK k \in ready : /\ b = [key |-> k, ev |-> kq[k].ev, eof |-> k \in hups]
                            /\ b.ev \in Conns /\ AtWork(b.ev) /\ k = Active(b.ev)
    BY <1>7
  <2>2. b.eof = (k \in hups)
    BY <2>1
  <2>3. fds[Active(b.ev)[1]] = "socket"
    BY <1>10, <2>1, <2>2
  <2>4. OwnOK(b.ev) /\ (UsesFile(b.ev) => FileOK(Active(b.ev)))
    BY <2>1 DEF AtWork, IParts, OwnOK
  <2> QED
    BY <2>3, <2>4 DEF FileOK
<1> QED
  BY <1>8, <1>9, <1>10 DEF got

LEMMA KeventKeeps ==
  ASSUME IParts, Kevent
  PROVE  IParts'
<1>1. TypeOK' /\ TypeOK
  BY TypeStep DEF IParts, Next
<1>2. PICK ready \in SUBSET {k \in Keys : kq[k].st = "on"}, n \in 0..Ports :
        \E hups \in SUBSET {k \in ready : fds[k[1]] = "socket"} :
          LET got == Returned(ready, hups) IN
          /\ batch' = IF Touched(got) = "up" THEN got ELSE {}
          /\ ev' = IF Touched(got) = "up" THEN Stamped(got) ELSE ev
  BY DEF Kevent
<1>3. PICK hups \in SUBSET {k \in ready : fds[k[1]] = "socket"} :
          /\ batch' = IF Touched(Returned(ready, hups)) = "up" THEN Returned(ready, hups) ELSE {}
          /\ ev' = IF Touched(Returned(ready, hups)) = "up" THEN Stamped(Returned(ready, hups)) ELSE ev
  BY <1>2
<1>4. /\ Waiting /\ pending = EmptyList /\ errs' = {} /\ UNCHANGED <<pending, routed>>
      /\ fds' = Closed(fds, closing) /\ kq' = Dropped(closing) /\ closing' = {}
      /\ \A c \in Conns : routed'[c] = 0
      /\ Running
  BY DEF Kevent, clearFileFds, Waiting, Running
<1> DEFINE got == Returned(ready, hups)
<1>5. /\ \A b \in got : Touched(got) = "up" => b.ev \in Conns /\ AtWork(b.ev) /\ NoChange(b.ev)
      /\ \A b \in got : Touched(got) = "up" /\ b.eof => ~UsesFile(b.ev)
      /\ \A a, b \in got : Touched(got) = "up" /\ a.ev = b.ev => a = b
  BY <1>4, ReturnedSettled
<1>6. \/ batch' = {} /\ ev' = ev
      \/ batch' = got /\ ev' = Stamped(got) /\ Touched(got) = "up"
  BY <1>3
<1> HIDE DEF got
<1>7. ev \in [Conns -> Events]
  BY <1>1 DEF TypeOK
<1>8. \A d \in Conns : /\ Same(d) /\ (ev'[d].stale => ev[d].stale)
                       /\ \A b \in batch' : b.ev = d => ~ev'[d].stale
  <2>1. CASE ev' = ev /\ batch' = {}
    BY <2>1 DEF Same
  <2>2. CASE batch' = got /\ ev' = Stamped(got)
    BY <2>2, <1>7 DEF Stamped, Same, Events
  <2> QED
    BY <2>1, <2>2, <1>6
<1>9. \A d \in Conns : Dispatched(d)' => AtWork(d) /\ d \notin {} /\ ~ev'[d].stale /\ NoChange(d)
  <2> TAKE d \in Conns
  <2> HAVE Dispatched(d)'
  <2>1. PICK b \in batch' : b.ev = d
    BY <1>4 DEF Dispatched
  <2> QED
    BY <2>1, <1>5, <1>6, <1>8
<1>10. DispatchOnce'
  <2>1. \A b \in batch' : b.ev \in Conns
    BY <1>5, <1>6
  <2>2. \A a, b \in batch' : a.ev = b.ev => a = b
    BY <1>5, <1>6
  <2> QED
    BY <1>4, <2>1, <2>2 DEF DispatchOnce
<1>11. \A d \in Conns \ {} : Live(d) /\ ev'[d].stale =>
                               NoChange(d) /\ ev[d].type = "HTTP_REQUEST_READABLE"
  BY <1>8 DEF IParts, DispatchSettled
<1>12. Closes({}, closing)
  <2>1. ClientFds({}) \cup closing = closing
    BY DEF ClientFds
  <2> QED
    BY <2>1, <1>4, <1>8 DEF Closes
<1>13. \A b \in batch' : b.eof => ~UsesFile(b.ev)
  BY <1>5, <1>6
<1> QED
  BY <1>1, <1>4, <1>9, <1>10, <1>11, <1>12, <1>13, ClosesKeeps

\* The kernel applies the first change of a key: only EV_DELETE can fail, and
\* then there was nothing to delete.
LEMMA FirstApplied ==
  ASSUME IParts, ApplyChanges, NEW k \in Keys
  PROVE  /\ pending[k] = << >> => kq'[k] = kq[k] /\ pending'[k] = << >>
         /\ pending[k] # << >> => kq'[k] = Applied(kq[k], Head(pending[k])) /\ pending'[k] = Tail(pending[k])
         /\ pending[k] # << >> /\ Fails(kq[k], fds[k[1]] # "free", Head(pending[k])) =>
              Head(pending[k]).ev = Null /\ "read" \in Faults
<1>1. /\ pending' = Rest(pending)
      /\ kq' = [j \in Keys |->
           IF pending[j] = << >> \/ j \in {i \in Keys : pending[i] # << >> /\ Fails(kq[i], fds[i[1]] # "free", Head(pending[i]))}
           THEN kq[j] ELSE Applied(kq[j], Head(pending[j]))]
  BY DEF ApplyChanges
<1>2. CASE pending[k] = << >>
  BY <1>1, <1>2 DEF Rest
<1>3. CASE pending[k] # << >>
  <2> DEFINE ch == Head(pending[k])
  <2>1. ListsOK(kq, pending) /\ kq[k] \in Registration /\ pending[k] \in Seq(Change)
    BY DEF IParts, ListsOK
  <2>2. ch = pending[k][1] /\ 1 \in 1..Len(pending[k]) /\ ch \in Change
    BY <1>3, <2>1
  <2>3. /\ ch.flag = "delete" <=> ch.ev = Null
        /\ ch.flag \in Demanding => kq[k].st # "none"
        /\ kq[k].st = "none" <=> kq[k].ev = Null
    BY <2>1, <2>2 DEF ListsOK, ApplicableIn
  <2>4. fds[k[1]] # "free"
    BY <1>3 DEF IParts, NoStaleChange
  <2> HIDE DEF ch
  <2>5. Fails(kq[k], fds[k[1]] # "free", ch) =>
          ch.ev = Null /\ "read" \in Faults /\ Applied(kq[k], ch) = kq[k]
    <3> SUFFICES ASSUME Fails(kq[k], fds[k[1]] # "free", ch) PROVE ch.ev = Null /\ "read" \in Faults /\ Applied(kq[k], ch) = kq[k]
      OBVIOUS
    <3>1. ch.flag # "add" /\ kq[k].st = "none"
      BY <2>4 DEF Fails
    <3>2. ch.flag = "delete" /\ ch.ev = Null /\ "read" \in Faults
      BY <3>1, <2>2, <2>3 DEF Change, Flags, Demanding
    <3>3. kq[k] = NoReg
      BY <3>1, <2>1, <2>3 DEF Registration, NoReg
    <3> QED
      BY <3>2, <3>3 DEF Applied
  <2>6. pending'[k] = Tail(pending[k])
    BY <1>1, <1>3 DEF Rest
  <2>7. kq'[k] = IF Fails(kq[k], fds[k[1]] # "free", ch) THEN kq[k] ELSE Applied(kq[k], ch)
    BY <1>1, <1>3 DEF ch
  <2>8. kq'[k] = Applied(kq[k], ch)
    BY <2>5, <2>7
  <2> QED
    BY <1>3, <2>5, <2>6, <2>8 DEF ch
<1> QED
  BY <1>2, <1>3

LEMMA TailIs ==
  ASSUME NEW S, NEW p \in Seq(S), p # << >>
  PROVE  /\ Head(p) = p[1] /\ Len(p) \in Nat \ {0} /\ Len(Tail(p)) = Len(p) - 1 /\ Tail(p) \in Seq(S)
         /\ \A i \in 1..Len(Tail(p)) : Tail(p)[i] = p[i + 1] /\ i + 1 \in 1..Len(p)
         /\ (Tail(p) = << >> <=> Len(p) = 1)
<1>1. Head(p) = p[1] /\ Len(p) \in Nat \ {0}
  OBVIOUS
<1>2. Tail(p) \in Seq(S) /\ Len(Tail(p)) = Len(p) - 1
  OBVIOUS
<1>3. \A i \in 1..Len(Tail(p)) : Tail(p)[i] = p[i + 1]
  OBVIOUS
<1>4. \A i \in 1..Len(Tail(p)) : i + 1 \in 1..Len(p)
  BY <1>1, <1>2
<1>5. Tail(p) = << >> <=> Len(p) = 1
  <2> DEFINE t == Tail(p)
  <2>1. t \in Seq(S) /\ Len(t) = Len(p) - 1
    BY <1>2
  <2> HIDE DEF t
  <2>2. t = << >> <=> Len(t) = 0
    <3>1. t # << >> => Len(t) # 0
      BY <2>1
    <3>2. t = << >> => Len(t) = 0
      OBVIOUS
    <3> QED
      BY <3>1, <3>2
  <2>3. t = << >> <=> Len(p) = 1
    BY <1>1, <2>1, <2>2
  <2> QED
    BY <2>3 DEF t
<1> QED
  BY <1>1, <1>2, <1>3, <1>4, <1>5

LEMMA StillEffective ==
  ASSUME IParts, ApplyChanges
  PROVE  ListsOK(kq, pending)' /\ \A k \in Keys : EffectiveIn(kq', pending', k) = Effective(k)
<1>1. TypeOK'
  BY TypeStep DEF IParts, Next
<1>2. ASSUME NEW k \in Keys
      PROVE  /\ EffectiveIn(kq', pending', k) = EffectiveIn(kq, pending, k)
             /\ (kq'[k].st = "none" <=> kq'[k].ev = Null) /\ ApplicableIn(kq', pending', k)
  <2>1. /\ pending[k] \in Seq(Change) /\ ApplicableIn(kq, pending, k)
        /\ kq[k].st = "none" <=> kq[k].ev = Null
    BY DEF IParts, ListsOK
  <2>2. CASE pending[k] = << >>
    <3>1. kq'[k] = kq[k] /\ pending'[k] = pending[k]
      BY <2>2, FirstApplied
    <3> QED
      BY <2>1, <3>1 DEF EffectiveIn, ApplicableIn
  <2>3. CASE pending[k] # << >>
    <3> DEFINE ch == Head(pending[k])
               p  == pending[k]
               t  == Tail(pending[k])
    <3>1. kq'[k] = Applied(kq[k], ch) /\ pending'[k] = t
      BY <2>3, FirstApplied
    <3>2. /\ p \in Seq(Change) /\ ch = p[1] /\ Len(p) \in Nat \ {0} /\ Len(t) = Len(p) - 1 /\ t \in Seq(Change)
          /\ \A i \in 1..Len(t) : t[i] = p[i + 1] /\ i + 1 \in 1..Len(p)
          /\ (t = << >> <=> Len(p) = 1)
      BY <2>1, <2>3, TailIs
    <3>3. \A i \in 1..Len(p) : /\ p[i].flag = "delete" <=> p[i].ev = Null
                               /\ p[i].flag \in Demanding /\ i # 1 => p[i - 1].flag # "delete"
      BY <2>1 DEF ApplicableIn
    <3>4. ch.flag = "delete" <=> ch.ev = Null
      BY <3>2, <3>3
    <3> HIDE DEF ch, t, p
    <3>5. /\ kq'[k].st = "none" <=> kq'[k].ev = Null
          /\ ch.flag # "delete" => kq'[k].st # "none"
      BY <3>1, <3>4 DEF Applied, NoReg
    <3>6. EffectiveIn(kq', pending', k) = EffectiveIn(kq, pending, k)
      <4>1. EffectiveIn(kq, pending, k) = Applied(kq[k], p[Len(p)])
        BY <2>3 DEF EffectiveIn, p
      <4>2. CASE t = << >>
        BY <3>1, <3>2, <4>1, <4>2 DEF EffectiveIn
      <4>3. CASE t # << >>
        <5>1. Len(t) \in 1..Len(t) /\ t[Len(t)] = p[Len(p)]
          BY <3>2, <4>3
        <5>2. EffectiveIn(kq', pending', k) = Applied(kq'[k], t[Len(t)])
          BY <3>1, <4>3 DEF EffectiveIn
        <5> QED
          BY <4>1, <5>1, <5>2 DEF Applied
      <4> QED
        BY <4>2, <4>3
    <3>7. ApplicableIn(kq', pending', k)
      <4> SUFFICES ASSUME NEW i \in 1..Len(t)
                   PROVE  /\ t[i].flag = "delete" <=> t[i].ev = Null
                          /\ t[i].flag \in Demanding =>
                               IF i = 1 THEN kq'[k].st # "none" ELSE t[i - 1].flag # "delete"
        BY <3>1 DEF ApplicableIn
      <4>1. i \in Nat \ {0} /\ i + 1 \in 1..Len(p) /\ t[i] = p[i + 1] /\ i + 1 # 1 /\ (i + 1) - 1 = i
        BY <3>2
      <4>2. /\ t[i].flag = "delete" <=> t[i].ev = Null
            /\ t[i].flag \in Demanding => p[i].flag # "delete"
        BY <3>3, <4>1
      <4>3. CASE i = 1
        BY <4>2, <4>3, <3>2, <3>5
      <4>4. CASE i # 1
        <5>1. i - 1 \in 1..Len(t) /\ (i - 1) + 1 = i
          BY <4>1, <4>4, <3>2
        <5>2. t[i - 1] = p[i]
          BY <3>2, <5>1
        <5> QED
          BY <4>2, <4>4, <5>2
      <4> QED
        BY <4>3, <4>4
    <3> QED
      BY <3>5, <3>6, <3>7
  <2> QED
    BY <2>2, <2>3
<1>3. kq' \in [Keys -> Registration] /\ pending' \in [Keys -> Seq(Change)]
  BY <1>1 DEF TypeOK
<1> QED
  BY <1>2, <1>3, EffectiveIs DEF ListsOK

LEMMA ApplyKeeps ==
  ASSUME IParts, ApplyChanges
  PROVE  IParts'
<1>1. TypeOK' /\ TypeOK
  BY TypeStep DEF IParts, Next
<1>2. /\ Waiting /\ UNCHANGED <<server, ev, batch, routed, fds, closing>>
      /\ \A e \in errs' : e \in errs \/ \E k \in Keys : /\ pending[k] # << >>
                                                        /\ Fails(kq[k], fds[k[1]] # "free", Head(pending[k]))
                                                        /\ e.ev = Head(pending[k]).ev
  BY DEF ApplyChanges
<1>3. ListsOK(kq, pending)' /\ \A k \in Keys : Effective(k)' = Effective(k)
  BY StillEffective, EffectiveIs
<1>4. /\ \A c : Active(c)' = Active(c)
      /\ \A c : (Live(c)' <=> Live(c)) /\ (UsesFile(c)' <=> UsesFile(c)) /\ (HoldsPage(c)' <=> HoldsPage(c))
      /\ \A c, filter : Client(c, filter)' = Client(c, filter)
  BY <1>2, Zenon DEF Active, Live, UsesFile, HoldsPage, Client
<1>5. \A f \in Fds, filter \in Filters : Effective(<<f, filter>>)' = Effective(<<f, filter>>)
  BY <1>3, KeysOf
<1>6. NoStaleChange' /\ ErrorsAreDeletes' /\ BornOK' /\ HangupsAreSockets'
  <2>1. NoStaleChange'
    BY <1>2, FirstApplied DEF IParts, NoStaleChange
  <2>2. ErrorsAreDeletes'
    BY <1>2, FirstApplied DEF IParts, ErrorsAreDeletes
  <2>3. BornOK'
    BY <1>2, <1>3 DEF IParts, BornOK, StillThere
  <2>4. HangupsAreSockets'
    BY <1>2 DEF IParts, HangupsAreSockets, UsesFile
  <2> QED
    BY <2>1, <2>2, <2>3, <2>4
<1>7. \A c \in Conns : Live(c)' => OwnOK(c)'
  <2> SUFFICES ASSUME NEW c \in Conns, Live(c)' PROVE OwnOK(c)'
    OBVIOUS
  <2>1. OwnOK(c) /\ Live(c)
    BY <1>4 DEF IParts
  <2>2. \A filter \in Filters : Client(c, filter) \in Keys
    BY <2>1, KeysOf DEF Client, OwnOK
  <2>3. \A filter \in Filters : (Effective(Client(c, filter)).ev)' = c
    BY <1>3, <1>4, <2>1, <2>2 DEF OwnOK
  <2>4. UsesFile(c) /\ Active(c) \in Keys /\ Effective(Active(c))' = On(c) => FileOK(Active(c))'
    BY <1>2, <1>3, <1>4, <1>5, <2>1, KeysOf DEF OwnOK, FileOK
  <2>5. HoldsPage(c) => PageOK(ev[c].resp.file)'
    BY <1>2, <1>5, <2>1 DEF OwnOK, PageOK
  <2>6. "open" \notin Faults => Hears(c)'
    <3> SUFFICES ASSUME "open" \notin Faults PROVE Hears(c)'
      OBVIOUS
    <3>1. Active(c) \in Keys /\ Effective(Active(c)) = On(c)
      BY <1>2, <2>1 DEF OwnOK, Hears, On, GaveUp, Waiting, Running
    <3> QED
      BY <3>1, <1>3, <1>4 DEF Hears, On
  <2> QED
    BY <1>2, <1>3, <1>4, <2>1, <2>3, <2>4, <2>5, <2>6 DEF OwnOK, On
<1>8. \A c, d \in Conns : c # d => ApartOK(c, d)'
  BY <1>2, <1>4 DEF IParts, ApartOK
<1>9. DispatchOnce' /\ \A c \in Conns : ~Dispatched(c)'
  BY <1>1, <1>2, WaitingIdle
<1>10. DispatchSettled'
  <2> SUFFICES ASSUME NEW c \in Conns, Live(c)', ev'[c].stale
               PROVE  NoChange(c)' /\ ev'[c].type = "HTTP_REQUEST_READABLE"
    BY <1>9 DEF DispatchSettled
  <2>1. Live(c) /\ NoChange(c) /\ ev[c].type = "HTTP_REQUEST_READABLE" /\ OwnOK(c)
    BY <1>2, <1>4 DEF IParts, DispatchSettled
  <2>2. \A filter \in Filters : Client(c, filter) \in Keys
    BY <2>1, KeysOf DEF Client, OwnOK
  <2>3. Active(c) \in Keys
    BY <2>1, <2>2, ActiveIs DEF Client, Filters
  <2> QED
    BY <1>2, <1>4, <2>1, <2>2, <2>3, FirstApplied DEF NoChange
<1>11. CloseDiscipline'
  <2>1. "read" \in Filters /\ "write" \in Filters /\ closing \subseteq Fds
    BY <1>1 DEF TypeOK, Filters
  <2> QED
    BY <1>2, <1>5, <2>1 DEF IParts, CloseDiscipline
<1> QED
  BY <1>1, <1>3, <1>6, <1>7, <1>8, <1>9, <1>10, <1>11 DEF IParts

-----------------------------------------------------------------------------
(* accept(2) *)

\* The change list of a new connection, on registrations q.
LEMMA NewConnectionIs ==
  ASSUME NEW q, ListsOK(q, pending), NEW c \in Conns, NEW f \in Fds
  PROVE  LET p == NewConnection(c, f) IN
         /\ ListsOK(q, p)
         /\ EffectiveIn(q, p, <<f, "read">>) = On(c)
         /\ EffectiveIn(q, p, <<f, "write">>) = Asleep(c)
         /\ \A k \in Keys : k[1] # f => p[k] = pending[k] /\ EffectiveIn(q, p, k) = EffectiveIn(q, pending, k)
<1> DEFINE kr == <<f, "read">>
           kw == <<f, "write">>
           p1 == Queue(pending, kr, "add", c)
           p2 == Queue(p1, kw, "add", c)
           p3 == Queue(p2, kw, "disable", c)
<1>1. /\ kr \in Keys /\ kw \in Keys /\ kr # kw /\ kr[1] = f /\ kw[1] = f
      /\ {"add", "disable"} \subseteq Flags /\ c # Null
  BY ConstAssumption DEF Keys, Filters, Flags
<1>2. p3 = NewConnection(c, f)
  BY DEF NewConnection
<1>3. /\ ListsOK(q, p1) /\ EffectiveIn(q, p1, kr) = Applied(q[kr], [flag |-> "add", ev |-> c])
      /\ \A j \in Keys : j # kr => p1[j] = pending[j] /\ EffectiveIn(q, p1, j) = EffectiveIn(q, pending, j)
  BY <1>1, QueueStep DEF Demanding
<1> HIDE DEF p1
<1>4. /\ ListsOK(q, p2) /\ EffectiveIn(q, p2, kw) = Applied(q[kw], [flag |-> "add", ev |-> c])
      /\ \A j \in Keys : j # kw => p2[j] = p1[j] /\ EffectiveIn(q, p2, j) = EffectiveIn(q, p1, j)
  BY SMTT(40), <1>1, <1>3, QueueStep DEF Demanding
<1> HIDE DEF p2
<1>5. /\ Applied(q[kr], [flag |-> "add", ev |-> c]) = On(c)
      /\ Applied(q[kw], [flag |-> "add", ev |-> c]) = On(c)
      /\ Applied(q[kw], [flag |-> "disable", ev |-> c]) = Asleep(c)
      /\ On(c).st # "none"
  BY DEF Applied, On, Asleep
<1>6. /\ ListsOK(q, p3) /\ EffectiveIn(q, p3, kw) = Applied(q[kw], [flag |-> "disable", ev |-> c])
      /\ \A j \in Keys : j # kw => p3[j] = p2[j] /\ EffectiveIn(q, p3, j) = EffectiveIn(q, p2, j)
  <2>1. EffectiveIn(q, p2, kw).st # "none" /\ "disable" \in Flags /\ kw \in Keys /\ c \in Conns \cup {Null}
    BY <1>1, <1>4, <1>5
  <2> HIDE DEF kr, kw
  <2> QED
    BY <1>1, <1>4, <2>1, QueueStep
<1> HIDE DEF p3
<1>7. /\ EffectiveIn(q, p3, kr) = On(c) /\ EffectiveIn(q, p3, kw) = Asleep(c)
      /\ \A k \in Keys : k[1] # f => p3[k] = pending[k] /\ EffectiveIn(q, p3, k) = EffectiveIn(q, pending, k)
  BY <1>1, <1>3, <1>4, <1>5, <1>6
<1> QED
  BY <1>2, <1>6, <1>7

\* After the idle connections are gone, their registrations are.
LEMMA EvictedLists ==
  ASSUME IParts, kq' = Dropped(IdleFds)
  PROVE  /\ ListsOK(kq', pending)
         /\ \A k \in Keys : EffectiveIn(kq', pending, k) = IF k[1] \in IdleFds THEN NoReg ELSE Effective(k)
         /\ \A k \in Keys : k[1] \in IdleFds => kq'[k] = NoReg /\ pending[k] = << >>
         /\ \A k \in Keys : k[1] \notin IdleFds => kq'[k] = kq[k]
         /\ \A k \in Keys : k[1] \in IdleFds => Effective(k).ev \in Idle \cup {Null}
         /\ \A f \in IdleFds : f \in Fds /\ fds[f] = "socket"
<1>1. IdleFds = ClientFds(Idle) /\ {} \in SUBSET closing /\ Idle \in SUBSET Idle
  BY DEF IdleFds, ClientFds
<1>2. /\ \A f \in IdleFds : f \in Fds /\ fds[f] = "socket"
      /\ \A k \in Keys : k[1] \in IdleFds => pending[k] = << >> /\ Effective(k).ev \in Idle \cup {Null}
  BY <1>1, ClosedFds
<1>3. \A k \in Keys : kq'[k] = IF k[1] \in IdleFds THEN NoReg ELSE kq[k]
  BY DEF Dropped
<1>4. \A k \in Keys : EffectiveIn(kq', pending, k) = IF k[1] \in IdleFds THEN NoReg ELSE Effective(k)
  BY <1>2, <1>3, EffectiveIs DEF EffectiveIn
<1>5. ListsOK(kq', pending)
  <2>1. TypeOK /\ ListsOK(kq, pending)
    BY DEF IParts
  <2>2. kq' \in [Keys -> Registration] /\ pending \in [Keys -> Seq(Change)]
    BY <2>1, TablesType DEF TypeOK
  <2>3. ASSUME NEW k \in Keys PROVE (kq'[k].st = "none" <=> kq'[k].ev = Null) /\ ApplicableIn(kq', pending, k)
    <3>1. CASE k[1] \in IdleFds
      <4>1. kq'[k] = NoReg /\ pending[k] = << >>
        BY <3>1, <1>2, <1>3
      <4>2. \A i \in 1..Len(pending[k]) : FALSE
        BY <4>1
      <4> QED
        BY <4>1, <4>2 DEF ApplicableIn, NoReg
    <3>2. CASE k[1] \notin IdleFds
      <4>1. kq'[k] = kq[k]
        BY <3>2, <1>3
      <4> QED
        BY <2>1, <4>1 DEF ListsOK, ApplicableIn
    <3> QED
      BY <3>1, <3>2
  <2> QED
    BY <2>2, <2>3 DEF ListsOK
<1> QED
  BY <1>2, <1>3, <1>4, <1>5

LEMMA AcceptKeeps ==
  ASSUME IParts, addConnection
  PROVE  IParts'
<1>1. TypeOK' /\ TypeOK /\ NoReg.ev = Null /\ Null \notin Conns
  BY TypeStep, ConstAssumption DEF IParts, Next, NoReg
<1>2. kq' = Dropped(IdleFds) /\ UNCHANGED <<errs, batch, routed, closing>>
  BY DEF addConnection, CheckTimeoutAndAccept
<1>3. PICK c \in Conns, f \in LowestOf(FreeFds \cup IdleFds) :
        /\ ev[c].state = "none"
        /\ ev' = [Evicted EXCEPT ![c] = NewEvent("live", f)]
        /\ fds' = [Closed(fds, IdleFds) EXCEPT ![f] = "socket"]
        /\ pending' = NewConnection(c, f)
  BY DEF addConnection
<1> DEFINE C == Idle \cup {c}
           M == IdleFds \cup {f}
           E(k) == EffectiveIn(kq', pending', k)
<1>4. /\ ListsOK(kq', pending)
      /\ \A k \in Keys : EffectiveIn(kq', pending, k) = IF k[1] \in IdleFds THEN NoReg ELSE Effective(k)
      /\ \A k \in Keys : k[1] \in IdleFds => kq'[k] = NoReg /\ pending[k] = << >>
      /\ \A k \in Keys : k[1] \notin IdleFds => kq'[k] = kq[k]
      /\ \A k \in Keys : k[1] \in IdleFds => Effective(k).ev \in Idle \cup {Null}
      /\ \A g \in IdleFds : g \in Fds /\ fds[g] = "socket"
  BY <1>2, EvictedLists
<1>5. f \in Fds /\ (f \notin IdleFds => fds[f] = "free")
  BY <1>4, LowestFree DEF FreeFds
<1>6. /\ ListsOK(kq', pending')
      /\ E(<<f, "read">>) = On(c) /\ E(<<f, "write">>) = Asleep(c)
      /\ \A k \in Keys : k[1] # f => pending'[k] = pending[k] /\ E(k) = EffectiveIn(kq', pending, k)
  BY <1>3, <1>4, <1>5, NewConnectionIs
<1>7. /\ \A k \in Keys : k[1] = f => E(k) \in {On(c), Asleep(c)} /\ (E(k) = On(c) => k = <<f, "read">>)
      /\ On(c).ev = c /\ Asleep(c).ev = c /\ On(c).st = "on" /\ Asleep(c).st = "off"
  <2>1. On(c) # Asleep(c) /\ On(c).ev = c /\ Asleep(c).ev = c /\ On(c).st = "on" /\ Asleep(c).st = "off"
    BY DEF On, Asleep
  <2>2. \A k \in Keys : k[1] = f => k = <<f, "read">> \/ k = <<f, "write">>
    BY DEF Keys, Filters
  <2> QED
    BY <1>6, <2>1, <2>2
<1>8. /\ \A k \in Keys : k[1] # f /\ k[1] \in IdleFds => E(k) = NoReg
      /\ \A k \in Keys : k[1] \notin M => E(k) = Effective(k) /\ kq'[k] = kq[k] /\ pending'[k] = pending[k]
  BY <1>4, <1>6
<1>9. /\ c \notin Idle /\ ev'[c] = NewEvent("live", f)
      /\ \A d \in Conns \ C : ev'[d] = ev[d] /\ Same(d)
      /\ \A d \in Idle : ev'[d].state = "freed"
  <2>1. c \notin Idle /\ NewEvent("freed", NoFd).state = "freed"
    BY <1>3 DEF Idle, Live, NewEvent
  <2>2. Evicted = [d \in Conns |-> IF d \in Idle THEN NewEvent("freed", NoFd) ELSE ev[d]] /\ Idle \subseteq Conns
    BY DEF Evicted, Idle
  <2> QED
    BY <1>3, <2>1, <2>2 DEF Same
<1>10. /\ ev'[c].state = "live" /\ ev'[c].clientFd = f /\ ev'[c].type = "HTTP_REQUEST_READABLE" /\ ~ev'[c].stale
  BY <1>9 DEF NewEvent
<1>11. /\ fds'[f] = "socket" /\ \A g \in Fds : g \notin M => fds'[g] = fds[g]
       /\ \A g \in Fds : g # f /\ g \in IdleFds => fds'[g] = "free"
  BY <1>3, <1>5 DEF Closed
<1>12. \A k \in Keys : k[1] = f /\ f \notin IdleFds => Effective(k) = NoReg
  BY <1>5 DEF IParts, NoStaleChange, Effective
<1>13. \A x \in Conns : HoldsPage(x) => ev[x].resp.file \notin M
  <2>1. \A x \in Conns : HoldsPage(x) => PageOK(ev[x].resp.file)
    BY DEF IParts, OwnOK, HoldsPage
  <2> QED
    BY <1>4, <1>5, <2>1 DEF PageOK
<1>14. \A k \in Keys : Effective(k).ev # c
  BY <1>1, <1>3 DEF IParts, BornOK, StillThere
<1> HIDE DEF E
<1>15. ASSUME NEW d \in Conns \ C, Live(d)
       PROVE  /\ OwnOK(d)' /\ Live(d)' /\ Active(d)' = Active(d)
              /\ Dispatched(d) \/ ev[d].stale => NoChange(d)'
              /\ Dispatched(d) => kq'[Active(d)] = kq[Active(d)]
  <2>1. \A k \in Keys : k[1] \in M => /\ Effective(k).ev \in C \cup {Null}
                                      /\ EffectiveIn(kq', pending', k).ev \in C \cup {Null}
    <3> TAKE k \in Keys
    <3> HAVE k[1] \in M
    <3>1. Effective(k).ev \in C \cup {Null}
      BY <1>1, <1>4, <1>12
    <3>2. E(k).ev \in C \cup {Null}
      BY <1>1, <1>7, <1>8
    <3> QED
      BY <3>1, <3>2 DEF E
  <2>2. \A g \in closing' : g \in closing \/ g \in M
    BY <1>2
  <2>3. \A x \in Conns \ C : HoldsPage(x) => ev[x].resp.file \notin M
    BY <1>13
  <2>4. \A k \in Keys : k[1] \notin M => kq'[k] = kq[k] /\ pending'[k] = pending[k]
    BY <1>8
  <2>5. \A g \in Fds : g \notin M => fds'[g] = fds[g]
    BY <1>11
  <2>6. \A x \in Conns \ C : Same(x)
    BY <1>9
  <2>7. C \in SUBSET Conns /\ Running
    BY DEF Idle, addConnection, CheckTimeoutAndAccept, Running
  <2> HIDE DEF C, M
  <2> QED
    BY <1>15, <2>1, <2>2, <2>3, <2>4, <2>5, <2>6, <2>7, OthersKeep
<1>16. OwnOK(c)'
  <2>1. Active(c)' = <<f, "read">> /\ ~UsesFile(c)' /\ ~HoldsPage(c)' /\ \A filter : Client(c, filter)' = <<f, filter>>
    BY <1>10 DEF Active, UsesFile, HoldsPage, Client
  <2>2. \A filter \in Filters : E(<<f, filter>>).ev = c
    BY <1>6, <1>7 DEF Filters
  <2>3. \A filter \in Filters : (Effective(Client(c, filter)).ev)' = c
    BY <2>1, <2>2 DEF E, Effective, EffectiveIn
  <2>4. ASSUME NEW k \in Keys, E(k).ev = c
        PROVE  k[1] = f /\ (E(k).st = "on" => k = <<f, "read">>)
    <3>1. k[1] = f
      <4>1. CASE k[1] # f /\ k[1] \in IdleFds
        BY <4>1, <1>1, <1>8, <2>4
      <4>2. CASE k[1] # f /\ k[1] \notin IdleFds
        BY <4>2, <1>8, <1>14, <2>4
      <4> QED
        BY <4>1, <4>2
    <3>2. E(k).st = "on" => E(k) = On(c)
      BY <3>1, <1>7
    <3> QED
      BY <3>1, <3>2, <1>7
  <2>5. \A k \in Keys : (Effective(k))' = E(k)
    BY EffectiveIs DEF E
  <2>6. Hears(c)'
    <3>1. <<f, "read">> \in Keys /\ EffectiveIn(kq', pending', <<f, "read">>) = On(c)
      BY <1>5, <1>6, KeysOf DEF E, Filters
    <3> QED
      BY <2>1, <3>1 DEF Hears, On, Effective, EffectiveIn
  <2> QED
    BY <1>5, <1>10, <1>11, <2>1, <2>3, <2>4, <2>5, <2>6 DEF OwnOK
<1>17. \A d \in Conns : Live(d)' => d \notin Idle /\ (d = c \/ Live(d)) /\ OwnOK(d)'
  <2> TAKE d \in Conns
  <2>1. CASE d \in Idle
    BY <2>1, <1>9 DEF Live
  <2>2. CASE d = c
    BY <2>2, <1>9, <1>16
  <2>3. CASE d \in Conns \ C
    BY <2>3, <1>9, <1>15 DEF Live
  <2> QED
    BY <2>1, <2>2, <2>3
<1>18. \A x, y \in Conns : x # y => ApartOK(x, y)'
  <2>1. ASSUME NEW x \in Conns \ C, NEW y \in Conns \ C, x # y PROVE ApartOK(x, y)'
    <3>1. ApartOK(x, y) /\ ev'[x] = ev[x] /\ ev'[y] = ev[y]
      BY <2>1, <1>9 DEF IParts
    <3> QED
      BY <3>1 DEF ApartOK, Live, HoldsPage
  <2>2. ASSUME NEW x \in Conns \ C, Live(x)' PROVE ev'[x].clientFd # f
    <3>1. OwnOK(x)'
      BY <2>2, <1>17
    <3>2. "read" \in Filters
      BY DEF Filters
    <3>3. (Effective(Client(x, "read")).ev)' = x
      BY <3>1, <3>2 DEF OwnOK
    <3>4. E(<<ev'[x].clientFd, "read">>).ev = x
      BY <3>3 DEF E, Effective, EffectiveIn, Client
    <3>5. x # c
      OBVIOUS
    <3> QED
      BY <3>4, <3>5, <1>6, <1>7
  <2>3. ~HoldsPage(c)'
    BY <1>10 DEF HoldsPage
  <2>4. \A x \in Idle : ~Live(x)'
    BY <1>9 DEF Live
  <2>5. \A x \in Conns : x \in Idle \/ x = c \/ x \in Conns \ C
    OBVIOUS
  <2>6. \A x \in Idle : \A y : ApartOK(x, y)' /\ ApartOK(y, x)'
    BY <2>4 DEF ApartOK, HoldsPage, Live
  <2>7. \A x \in Conns \ C : ApartOK(x, c)' /\ ApartOK(c, x)'
    BY <2>2, <2>3, <1>10 DEF ApartOK
  <2> QED
    BY <2>1, <2>5, <2>6, <2>7
<1>19. NoStaleChange'
  <2> SUFFICES ASSUME NEW k \in Keys, fds'[k[1]] = "free" PROVE pending'[k] = << >> /\ kq'[k] = NoReg
    BY DEF NoStaleChange
  <2>1. k[1] # f /\ k[1] \in Fds
    BY <1>11, KeysOf
  <2>2. CASE k[1] \in IdleFds
    BY <2>1, <2>2, <1>4, <1>6
  <2>3. CASE k[1] \notin IdleFds
    <3>1. fds[k[1]] = "free" /\ kq'[k] = kq[k] /\ pending'[k] = pending[k]
      BY <2>1, <2>3, <1>8, <1>11
    <3> QED
      BY <3>1 DEF IParts, NoStaleChange
  <2> QED
    BY <2>2, <2>3
<1>20. BornOK'
  <2> DEFINE Stays(d) == ev'[d].state = "live" \/ (ev'[d].state = "freed" /\ "cgi" \in Faults)
  <2> SUFFICES ASSUME NEW k \in Keys, E(k).ev # Null PROVE Stays(E(k).ev)
    BY EffectiveIs DEF BornOK, E, StillThere
  <2>1. CASE k[1] = f
    BY <2>1, <1>7, <1>10 DEF Live
  <2>2. CASE k[1] # f
    <3>1. k[1] \notin M /\ E(k) = Effective(k)
      BY <2>2, <1>1, <1>8
    <3>2. StillThere(Effective(k).ev) /\ Effective(k).ev \in Conns /\ Effective(k).ev # c
      BY <3>1, <1>1, <1>14, EffectiveShape, EffectiveIs DEF IParts, BornOK
    <3> DEFINE x == Effective(k).ev
    <3>3. x \notin Idle
      <4>1. SUFFICES ASSUME x \in Idle PROVE k[1] \in M
        BY <3>1
      <4>2. OwnOK(x) /\ ev[x].type = "HTTP_REQUEST_READABLE"
        BY <4>1 DEF Idle, IParts
      <4>3. x \in Conns /\ Active(x) = <<ev[x].clientFd, "read">>
        BY <3>2, <4>2, ActiveIs
      <4>4. k[1] = ev[x].clientFd
        BY <4>2, <4>3 DEF OwnOK
      <4> QED
        BY <4>1, <4>4 DEF IdleFds
    <3> QED
      BY <3>1, <3>2, <3>3, <1>9 DEF Same, StillThere
  <2> QED
    BY <2>1, <2>2
<1>21. ErrorsAreDeletes' /\ DispatchOnce'
  BY <1>2 DEF IParts, ErrorsAreDeletes, DispatchOnce
<1>22. DispatchSettled'
  <2>1. \A d \in Conns : Dispatched(d)' <=> Dispatched(d)
    BY <1>2 DEF Dispatched
  <2>2. ~Dispatched(c)
    BY <1>3 DEF IParts, DispatchSettled, Live
  <2>3. ASSUME NEW d \in Conns
        PROVE  /\ Dispatched(d)' => /\ Live(d)' /\ ~ev'[d].stale /\ Active(d)' \in Keys
                                    /\ kq'[Active(d)'] = [st |-> "on", ev |-> d]
                                    /\ NoChange(d)'
               /\ Live(d)' /\ ev'[d].stale => NoChange(d)' /\ ev'[d].type = "HTTP_REQUEST_READABLE"
    <3>1. CASE d \in Idle
      BY <3>1, <2>1, <1>9, IdleNotDispatched DEF Live
    <3>2. CASE d = c
      BY <3>2, <2>1, <2>2, <1>10
    <3>3. CASE d \in Conns \ C
      <4>1. ev'[d] = ev[d] /\ (Live(d)' <=> Live(d)) /\ (Dispatched(d) => Live(d))
        BY <3>3, <1>9 DEF Live, IParts, DispatchSettled
      <4> QED
        BY <3>3, <4>1, <2>1, <1>15 DEF IParts, DispatchSettled
    <3> QED
      BY <3>1, <3>2, <3>3
  <2> QED
    BY <2>3 DEF DispatchSettled
<1>23. CloseDiscipline'
  <2> SUFFICES ASSUME NEW g \in closing'
               PROVE  fds'[g] = "file" /\ g \in Fds /\ \A filter \in Filters : E(<<g, filter>>) = NoReg
    BY DEF CloseDiscipline, Effective, EffectiveIn, Filters, E
  <2>1. g \in closing /\ g \in Fds /\ fds[g] = "file" /\ \A filter \in Filters : Effective(<<g, filter>>) = NoReg
    BY <1>1, <1>2 DEF IParts, CloseDiscipline, TypeOK, Filters
  <2>2. g \notin M
    BY <2>1, <1>4, <1>5
  <2> QED
    BY <2>1, <2>2, <1>8, <1>11, KeysOf
<1>24. HangupsAreSockets'
  <2> SUFFICES ASSUME NEW b \in batch, b.eof PROVE ~UsesFile(b.ev)'
    BY <1>2 DEF HangupsAreSockets, UsesFile
  <2>1. Dispatched(b.ev) /\ b.ev \in Conns /\ ~UsesFile(b.ev)
    BY <1>1 DEF Dispatched, TypeOK, IParts, HangupsAreSockets
  <2>2. Live(b.ev) /\ b.ev \notin Idle
    BY <2>1, IdleNotDispatched DEF IParts, DispatchSettled
  <2> QED
    BY <2>1, <2>2, <1>3, <1>9 DEF UsesFile, Same, Live
<1> QED
  BY <1>1, <1>6, <1>17, <1>18, <1>19, <1>20, <1>21, <1>22, <1>23, <1>24 DEF IParts

-----------------------------------------------------------------------------
(* The invariant and what follows from it *)

LEMMA InitParts == Init => IParts
<1> SUFFICES ASSUME Init PROVE IParts
  OBVIOUS
<1>1. TypeOK
  <2>1. NewEvent("none", NoFd) \in Events
    BY NewEventType
  <2>2. pending \in [Keys -> Seq(Change)]
    BY DEF Init, EmptyList
  <2> QED
    BY <2>1, <2>2 DEF Init, TypeOK, NewEvent, NoResponse, Response, Registration, NoReg
<1>2. /\ \A k \in Keys : pending[k] = << >> /\ kq[k] = NoReg
      /\ \A c \in Conns : ev[c].state = "none" /\ routed[c] = 0
      /\ errs = {} /\ batch = {} /\ closing = {}
  BY DEF Init, EmptyList, NewEvent
<1>3. \A k \in Keys : Effective(k).ev = Null /\ kq[k].st = "none" /\ kq[k].ev = Null
  BY <1>2 DEF Effective, NoReg
<1>4. \A c \in Conns : ~Live(c) /\ ~Dispatched(c) /\ ~HoldsPage(c)
  <2> TAKE c \in Conns
  <2>1. ~Live(c) /\ ~HoldsPage(c)
    BY <1>2 DEF Live, HoldsPage
  <2>2. ~Dispatched(c)
    <3>1. ~(routed[c] > 0)
      BY <1>2
    <3>2. ~\E b \in batch : b.ev = c
      BY <1>2
    <3> QED
      BY <3>1, <3>2 DEF Dispatched
  <2> QED
    BY <2>1, <2>2
<1>5. ListsOK(kq, pending)
  <2>1. \A k \in Keys : \A i \in 1..Len(pending[k]) : FALSE
    BY <1>2
  <2> QED
    BY <1>1, <1>3, <2>1 DEF ListsOK, ApplicableIn, TypeOK
<1>6. NoStaleChange /\ ErrorsAreDeletes /\ BornOK
  BY <1>2, <1>3 DEF NoStaleChange, ErrorsAreDeletes, BornOK
<1>7. DispatchSettled /\ HangupsAreSockets /\ DispatchOnce /\ CloseDiscipline
  BY <1>2, <1>4 DEF DispatchSettled, HangupsAreSockets, DispatchOnce, CloseDiscipline
<1> QED
  BY <1>1, <1>4, <1>5, <1>6, <1>7 DEF IParts, ApartOK

LEMMA PartsStep == IParts /\ [Next]_vars => IParts'
<1> SUFFICES ASSUME IParts, [Next]_vars PROVE IParts'
  OBVIOUS
<1>1. CASE UNCHANGED vars
  <2>1. TypeOK'
    BY TypeStep DEF IParts
  <2>2. UNCHANGED server
    BY <1>1 DEF vars
  <2> QED
    BY <1>1, <2>1, <2>2, StillKeeps DEF vars
<1>2. CASE \E c \in Conns : Age(c)
  BY <1>2, AgeKeeps
<1>3. CASE ApplyChanges
  BY <1>3, ApplyKeeps
<1>4. CASE Kevent
  BY <1>4, KeventKeeps
<1>5. CASE KeventTimeout \/ AcceptFails
  BY <1>5, EvictKeeps
<1>6. CASE \E b \in batch : RouteOne(b)
  BY <1>6, RouteKeeps
<1>7. CASE addConnection
  BY <1>7, AcceptKeeps
<1>8. CASE \E c \in Conns : ServeOne(c)
  BY <1>8, ServeOneKeeps
<1>9. CASE Reboot
  BY <1>9, RebootKeeps
<1> QED
  BY <1>1, <1>2, <1>3, <1>4, <1>5, <1>6, <1>7, <1>8, <1>9 DEF Next

\* The change list, the kernel's registrations, the descriptor table and the
\* Events agree in every reachable state, whichever of the Faults happen: IInv is inductive.
THEOREM InvariantHolds == Spec => []IInv
<1>1. Init => IParts
  BY InitParts
<1>2. IParts /\ [Next]_vars => IParts'
  BY PartsStep
<1>3. IParts => IInv
  BY InvIsParts
<1> QED
  BY <1>1, <1>2, <1>3, PTL DEF Spec

LEMMA InvGives == IInv => LiveDispatch /\ DispatchOnce /\ CloseDiscipline /\ NoStaleChange /\ OneInterest
<1> SUFFICES ASSUME IInv PROVE LiveDispatch /\ OneInterest
  BY DEF IInv
<1>1. LiveDispatch
  <2>1. \A b \in batch : b.ev \in Conns
    BY DEF IInv, TypeOK
  <2>2. \A c \in Conns : Dispatched(c) => Live(c)
    BY DEF IInv, DispatchSettled
  <2> QED
    BY <2>1, <2>2 DEF LiveDispatch, Dispatched
<1>2. OneInterest
  <2> SUFFICES ASSUME NEW k \in Keys, Effective(k).st = "on", Effective(k).ev # Null, Live(Effective(k).ev)
               PROVE  k = Active(Effective(k).ev)
    BY DEF OneInterest
  <2>1. Effective(k).ev \in Conns
    BY InvIsParts, EffectiveShape, EffectiveIs DEF IParts, NoReg
  <2> QED
    BY <2>1 DEF IInv, InterestOfType
<1> QED
  BY <1>1, <1>2

LEMMA InvHears == IInv => NeverDeaf
  BY DEF IInv, Heard, Hears, GaveUp, NeverDeaf, Running

\* As long as open(2) never fails no connection is forgotten: a live one that is
\* not being dispatched is registered and enabled for what it waits for.  Every
\* handler disables or deletes what it waited for, so each has to enable the next.
THEOREM NobodyIsForgotten == Spec => []NeverDeaf
  BY InvariantHolds, InvHears, PTL

\* No handler of a round, and no kevent that is still to be routed, is ever
\* given an Event that has been deleted: removeConnection frees an Event at once,
\* but only the one that is being handled or an idle one, and neither occurs a
\* second time in the round.
THEOREM DispatchIsLive == Spec => []LiveDispatch
  BY InvariantHolds, InvGives, PTL

\* No Event occurs twice in what a round routes and serves, although a
\* connection has up to three registrations that lead to its Event.
THEOREM DispatchIsUnique == Spec => []DispatchOnce
  BY InvariantHolds, InvGives, PTL

\* At most one enabled registration leads to an Event, the one its type reads
\* or writes, once the change list is applied: every handler that enables one
\* has disabled or deleted the one before.
THEOREM InterestIsUnique == Spec => []OneInterest
  BY InvariantHolds, InvGives, PTL

\* FileManager::clearFileFds closes open files only, each once, and after the
\* kernel has been told to forget them.
THEOREM ClosesAreSafe == Spec => []CloseDiscipline
  BY InvariantHolds, InvGives, PTL

\* A descriptor number that open and accept can return again is mentioned
\* neither by the change list nor by the kernel.
THEOREM NumbersAreClean == Spec => []NoStaleChange
  BY InvariantHolds, InvGives, PTL

\* Two Events never share a descriptor they use.
LEMMA InvSeparates == IInv => FdOwnership
<1> SUFFICES ASSUME IInv PROVE FdOwnership
  OBVIOUS
<1>1. IParts
  BY InvIsParts
<1>2. ASSUME NEW c \in Conns, Live(c)
      PROVE  /\ OwnOK(c) /\ Active(c) \in Keys /\ ev[c].clientFd \in Fds
             /\ ~UsesFile(c) => Active(c)[1] = ev[c].clientFd
             /\ \A f \in Moves(c) : f = Active(c)[1] /\ Effective(Active(c)) = On(c)
  <2>1. OwnOK(c) /\ {ev[c].clientFd, ev[c].toSendFd, ev[c].toRecvFd} \subseteq Fds /\ ev[c] \in Events
    BY <1>1, <1>2 DEF IParts, TypeOK, Live
  <2>2. ev[c].type \in Types
    BY <2>1 DEF Events
  <2>3. Active(c) \in Keys
    BY <2>1, <2>2, ActiveIs, KeysOf DEF Types, Filters
  <2>4. ~UsesFile(c) => Active(c)[1] = ev[c].clientFd
    BY <2>2, ActiveIs DEF Types, UsesFile
  <2>5. \A f \in Moves(c) : f = Active(c)[1] /\ Effective(Active(c)) = On(c)
    BY DEF Moves, On
  <2> QED
    BY <2>1, <2>3, <2>4, <2>5
<1>3. ASSUME NEW c \in Conns, Live(c), NEW f \in Moves(c), f # ev[c].clientFd
      PROVE  UsesFile(c) /\ FileOK(Active(c)) /\ f = Active(c)[1] /\ fds[f] = "file" /\ Effective(Active(c)) = On(c)
  <2>1. UsesFile(c) /\ f = Active(c)[1] /\ Effective(Active(c)) = On(c) /\ Active(c) \in Keys /\ OwnOK(c)
    BY <1>2, <1>3
  <2>2. FileOK(Active(c))
    BY <2>1 DEF OwnOK
  <2> QED
    BY <2>1, <2>2 DEF FileOK
<1>4. \A c \in Conns : Live(c) => fds[ev[c].clientFd] = "socket"
  BY <1>2 DEF OwnOK
<1>5. ASSUME NEW c \in Conns, NEW d \in Conns, c # d, Live(c), Live(d), NEW f \in Uses(c), f \in Uses(d)
      PROVE  FALSE
  <2>1. f = ev[c].clientFd \/ f \in Moves(c)
    BY DEF Uses
  <2>2. f = ev[d].clientFd \/ f \in Moves(d)
    BY <1>5 DEF Uses
  <2>3. ev[c].clientFd # ev[d].clientFd
    BY <1>1, <1>5 DEF IParts, ApartOK
  <2>4. CASE f = ev[c].clientFd
    BY <2>2, <2>3, <2>4, <1>3, <1>4, <1>5
  <2>5. CASE f = ev[d].clientFd
    BY <2>1, <2>3, <2>5, <1>3, <1>4, <1>5
  <2>6. CASE f # ev[c].clientFd /\ f # ev[d].clientFd
    <3>1. FileOK(Active(c)) /\ f = Active(c)[1] /\ Effective(Active(c)) = On(c)
      BY <2>1, <2>6, <1>3, <1>5
    <3>2. f = Active(d)[1] /\ Effective(Active(d)) = On(d) /\ Active(d) \in Keys
      BY <2>2, <2>6, <1>2, <1>3, <1>5
    <3>3. Active(d) = <<f, Active(d)[2]>> /\ Active(d)[2] \in Filters
      BY <3>2, KeysOf
    <3>4. Active(d) = Active(c) \/ Effective(Active(d)) = NoReg
      BY <3>1, <3>3 DEF FileOK
    <3> QED
      BY <3>1, <3>2, <3>4, <1>5 DEF On, NoReg
  <2> QED
    BY <2>4, <2>5, <2>6
<1> QED
  BY <1>3, <1>4, <1>5 DEF FdOwnership

\* The socket and the file that an Event reads or writes are open, and no other
\* live Event reads or writes them, although numbers are reused as soon as they
\* are closed.
THEOREM DescriptorsAreOwned == Spec => []FdOwnership
  BY InvariantHolds, InvSeparates, PTL

-----------------------------------------------------------------------------
(* Requests fit what is done for them *)

LEMMA NewEventFits == \A st, fd :
  /\ FitOK(NewEvent(st, fd))
  /\ NewEvent(st, fd).state = st /\ NewEvent(st, fd).type = "HTTP_REQUEST_READABLE"
BY DEF NewEvent, FitOK, NoResponse, Response

LEMMA SameFits ==
  ASSUME NEW e, NEW f, FitOK(e), f.parse = e.parse, f.resp.type = e.resp.type, f.type = e.type,
         f.method = e.method, f.cgi = e.cgi
  PROVE  FitOK(f)
BY DEF FitOK

\* Steps of the kernel and of the routing leave the Events as they are, for what
\* matters here, or make new ones.
LEMMA AllFit ==
  ASSUME MethodsFit, TrashThere, UNCHANGED trash,
         \A d \in Conns :
           \/ ev'[d].state = ev[d].state /\ ev'[d].type = ev[d].type /\ FitOK(ev'[d])
           \/ \E st \in {"live", "freed"} : \E fd : ev'[d] = NewEvent(st, fd)
  PROVE  MethodsFit' /\ TrashThere'
<1>1. \A d \in Conns : FitOK(ev'[d])
  BY NewEventFits
<1>2. \A d \in Conns : ev[d].state # "none" => ev'[d].state # "none"
  BY NewEventFits
<1>3. \A d \in Conns : Live(d)' /\ ev'[d].type = "BUFFER_FLUSH" => Live(d) /\ ev[d].type = "BUFFER_FLUSH"
  BY NewEventFits DEF Live
<1> QED
  BY <1>1, <1>2, <1>3 DEF MethodsFit, TrashThere

\* A handler changes the Event that it was given.
LEMMA ChangeFits ==
  ASSUME TypeOK, MethodsFit, TrashThere, NEW c \in Conns, NEW g, ev' = [ev EXCEPT ![c] = g],
         Live(c), g.state \in {"live", "freed"}, FitOK(g),
         g.type = "BUFFER_FLUSH" => trash' \/ "open" \in Faults \/ (~trash /\ ev[c].type = "BUFFER_FLUSH")
  PROVE  MethodsFit' /\ TrashThere'
<1>1. ev'[c] = g /\ \A d \in Conns \ {c} : ev'[d] = ev[d]
  BY DEF TypeOK
<1>2. MethodsFit'
  BY <1>1 DEF MethodsFit
<1>3. ASSUME "open" \notin Faults, ~trash', NEW d \in Conns, Live(d)', ev'[d].type = "BUFFER_FLUSH"
      PROVE  \E e \in Conns \ {d} : ev'[e].state # "none"
  <2>1. CASE d = c
    <3>1. PICK e \in Conns \ {c} : ev[e].state # "none"
      BY <1>1, <1>3, <2>1 DEF TrashThere
    <3> QED
      BY <1>1, <2>1, <3>1
  <2>2. CASE d # c
    BY <1>1, <2>2
  <2> QED
    BY <2>1, <2>2
<1> QED
  BY <1>2, <1>3 DEF TrashThere

LEMMA NobodyChanges ==
  ASSUME MethodsFit, TrashThere, UNCHANGED <<ev, trash>>
  PROVE  MethodsFit' /\ TrashThere'
BY DEF MethodsFit, TrashThere, Live

\* What an Event that is removed leaves behind.
LEMMA RemovalFits ==
  ASSUME TypeOK, MethodsFit, TrashThere, NEW c \in Conns, NEW p, NEW cl, removeConnection(c, p, cl), Live(c)
  PROVE  MethodsFit' /\ TrashThere'
<1>1. ev' = [ev EXCEPT ![c] = NewEvent("freed", NoFd)]
  BY DEF removeConnection
<1> QED
  BY <1>1, NewEventFits, ChangeFits

-----------------------------------------------------------------------------
(* Descriptors stay reached *)

LEMMA HoldsSame ==
  ASSUME NEW e, NEW f, f.type = e.type, f.resp = e.resp, f.clientFd = e.clientFd,
         f.toSendFd = e.toSendFd, f.toRecvFd = e.toRecvFd
  PROVE  Holds(f) = Holds(e)
BY DEF Holds, FileOf

LEMMA HoldsIs == \A e :
  /\ e.clientFd \in Holds(e)
  /\ e.type \in {"HTTP_REQUEST_READABLE", "HTTP_RESPONSE_WRITABLE"} => Holds(e) = {e.clientFd}
  /\ e.type = "HTTP_REQUEST_UPLOAD" => Holds(e) = {e.clientFd, e.toSendFd}
  /\ e.type \in {"HTTP_RESPONSE_DOWNLOAD", "CGI_RESPONSE_READABLE"} => Holds(e) = {e.clientFd, e.toRecvFd}
  /\ e.type = "BUFFER_FLUSH" =>
       Holds(e) = {e.clientFd, e.toSendFd} \cup {f \in {e.resp.file} : e.resp.type = "FLUSH_ERR"}
BY DEF Holds, FileOf

\* The idle connections, and descriptors that waited for it, may be closed, and a
\* socket opened.
LEMMA StillReached ==
  ASSUME Reached, Running, NEW C \in SUBSET Idle,
         \A d \in Conns \ C : Live(d) => Same(d),
         \A f \in Fds : fds'[f] # "free" =>
           \/ fds[f] # "free" /\ (f \in closing => f \in closing') /\ f \notin ClientFds(C)
           \/ \E d \in Conns : Live(d)' /\ f = ev'[d].clientFd
  PROVE  Reached'
<1> SUFFICES ASSUME LeakFree, NEW f \in Fds, fds'[f] # "free", f \notin closing'
             PROVE  \E c \in Conns : Live(c)' /\ f \in Holds(ev'[c])
  BY DEF Reached, LeakFree
<1>1. CASE \E d \in Conns : Live(d)' /\ f = ev'[d].clientFd
  BY <1>1, HoldsIs
<1>2. CASE fds[f] # "free" /\ f \notin closing /\ f \notin ClientFds(C)
  <2>1. PICK c \in Conns : Live(c) /\ f \in Holds(ev[c])
    BY <1>2 DEF Reached, LeftOver
  <2>2. c \notin C
    <3>1. ASSUME c \in C PROVE Holds(ev[c]) = {ev[c].clientFd} /\ ev[c].clientFd \in ClientFds(C)
      BY <3>1, HoldsIs DEF Idle, ClientFds
    <3> QED
      BY <1>2, <2>1, <3>1
  <2>3. Live(c)' /\ Holds(ev'[c]) = Holds(ev[c])
    BY <2>1, <2>2, HoldsSame DEF Same, Live
  <2> QED
    BY <2>1, <2>3
<1> QED
  BY <1>1, <1>2

\* A handler turns its Event into g, and opens the descriptors S.
LEMMA ChangeReached ==
  ASSUME TypeOK, Reached, Running, NEW c \in Conns, NEW g, ev' = [ev EXCEPT ![c] = g], g.state = "live",
         NEW S, fds' = Opened(S), closing \subseteq closing',
         LeakFree => Holds(ev[c]) \cup S \subseteq closing' \cup Holds(g) \cup LeftOver(c)'
  PROVE  Reached'
<1>1. ev'[c] = g /\ \A d \in Conns \ {c} : ev'[d] = ev[d]
  BY DEF TypeOK
<1>2. Live(c)'
  BY <1>1 DEF Live
<1> SUFFICES ASSUME LeakFree, NEW f \in Fds, fds'[f] # "free", f \notin closing'
             PROVE  \E d \in Conns : Live(d)' /\ f \in Holds(ev'[d]) \cup LeftOver(d)'
  BY DEF Reached, LeakFree
<1>3. CASE f \in Holds(ev[c]) \cup S
  BY <1>1, <1>2, <1>3
<1>4. CASE f \notin Holds(ev[c]) \cup S
  <2>1. fds[f] # "free" /\ f \notin closing
    BY <1>4 DEF Opened
  <2>2. PICK d \in Conns : Live(d) /\ f \in Holds(ev[d])
    BY <2>1 DEF Reached, LeftOver
  <2>3. d # c
    BY <1>4, <2>2
  <2> QED
    BY <1>1, <2>2, <2>3 DEF Live
<1> QED
  BY <1>3, <1>4

LEMMA RemovalReached ==
  ASSUME TypeOK, Reached, Running, NEW c \in Conns, NEW p, NEW cl, removeConnection(c, p, cl), closing \subseteq cl,
         LeakFree => ev[c].type \in Types \ {"CGI_RESPONSE_READABLE", "BUFFER_FLUSH"}
  PROVE  Reached'
<1>1. \A d \in Conns \ {c} : ev'[d] = ev[d]
  BY DEF TypeOK, removeConnection
<1>2. closing' = cl \cup {k[1] : k \in RemovedFile(c)} /\ fds' = Closed(fds, {ev[c].clientFd})
  BY DEF removeConnection
<1> SUFFICES ASSUME LeakFree, NEW f \in Fds, fds'[f] # "free", f \notin closing'
             PROVE  \E d \in Conns : Live(d)' /\ f \in Holds(ev'[d])
  BY DEF Reached, LeakFree
<1>3. fds[f] # "free" /\ f \notin closing /\ f # ev[c].clientFd
  BY <1>2 DEF Closed
<1>4. f \notin Holds(ev[c])
  <2>1. CASE ev[c].type \in {"HTTP_REQUEST_READABLE", "HTTP_RESPONSE_WRITABLE"}
    BY <1>3, <2>1, HoldsIs
  <2>2. CASE ev[c].type = "HTTP_REQUEST_UPLOAD"
    <3>1. <<ev[c].toSendFd, "write">> \in RemovedFile(c)
      BY <2>2 DEF RemovedFile
    <3>2. ev[c].toSendFd \in closing'
      BY <1>2, <3>1
    <3> QED
      BY <1>3, <2>2, <3>2, HoldsIs
  <2>3. CASE ev[c].type = "HTTP_RESPONSE_DOWNLOAD"
    <3>1. <<ev[c].toRecvFd, "read">> \in RemovedFile(c)
      BY <2>3 DEF RemovedFile
    <3>2. ev[c].toRecvFd \in closing'
      BY <1>2, <3>1
    <3> QED
      BY <1>3, <2>3, <3>2, HoldsIs
  <2> QED
    BY <2>1, <2>2, <2>3 DEF Types
<1>5. PICK d \in Conns : Live(d) /\ f \in Holds(ev[d])
  BY <1>3 DEF Reached, LeftOver
<1> QED
  BY <1>1, <1>4, <1>5 DEF Live

-----------------------------------------------------------------------------
(* The kernel and the routing *)

LEMMA RouteFits ==
  ASSUME IParts, MethodsFit, TrashThere, NEW b \in batch, RouteOne(b)
  PROVE  MethodsFit' /\ TrashThere'
<1>1. TypeOK /\ b.ev \in Conns /\ ev[b.ev] \in Events
  BY DEF IParts, TypeOK
<1>2. Live(b.ev) /\ UNCHANGED trash
  BY DEF RouteOne, RouteEof, StillReceiving, ReceiveError, ReceiveDone, ParsingFails, RouteOther, Route
<1>3. CASE RouteEof(b) \/ ReceiveError(b)
  BY <1>1, <1>2, <1>3, RemovalFits DEF RouteEof, ReceiveError
<1>4. CASE UNCHANGED ev
  BY <1>2, <1>4, NobodyChanges
<1>5. CASE ReceiveDone(b) /\ ev[b.ev].type = "HTTP_REQUEST_READABLE" /\ ev' # ev
  <2>1. PICK m \in Methods \cup {"NOT_IMPL"}, cgi \in BOOLEAN, p \in {"uploading", "unending", "bad"} :
          /\ cgi => m \in {"GET", "POST", "PUT"}
          /\ p = "bad" => "bad" \in Faults
          /\ ev' = [ev EXCEPT ![b.ev].method = m, ![b.ev].cgi = cgi, ![b.ev].parse = p]
    BY <1>5 DEF ReceiveDone, RequestParsed
  <2>2. ev[b.ev].type = "HTTP_REQUEST_READABLE"
    BY <1>5
  <2> DEFINE g == [ev[b.ev] EXCEPT !.method = m, !.cgi = cgi, !.parse = p]
  <2>3. ev' = [ev EXCEPT ![b.ev] = g]
    BY <1>1, <2>1
  <2>4. /\ g.state = ev[b.ev].state /\ g.type = "HTTP_REQUEST_READABLE" /\ g.resp = ev[b.ev].resp
        /\ g.method = m /\ g.cgi = cgi /\ g.parse = p
    BY <1>1, <2>2 DEF Events
  <2>5. FitOK(ev[b.ev])
    BY <1>1 DEF MethodsFit
  <2> HIDE DEF g
  <2>6. FitOK(g)
    BY <2>1, <2>4, <2>5 DEF FitOK
  <2> QED
    BY <1>1, <1>2, <2>3, <2>4, <2>6, ChangeFits DEF Live
<1>6. CASE ev[b.ev].type = "CGI_RESPONSE_READABLE" /\ ev' = [ev EXCEPT ![b.ev].parse = "answered"]
  <2> DEFINE g == [ev[b.ev] EXCEPT !.parse = "answered"]
  <2>1. ev' = [ev EXCEPT ![b.ev] = g]
    BY <1>1, <1>6 DEF TypeOK
  <2>2. /\ g.state = ev[b.ev].state /\ g.type = "CGI_RESPONSE_READABLE" /\ g.resp = ev[b.ev].resp
        /\ g.parse = "answered"
    BY <1>1, <1>6 DEF Events
  <2>3. FitOK(ev[b.ev])
    BY <1>1 DEF MethodsFit
  <2> HIDE DEF g
  <2>4. FitOK(g)
    BY <2>2, <2>3 DEF FitOK
  <2> QED
    BY <1>1, <1>2, <2>1, <2>2, <2>4, ChangeFits DEF Live
<1>7. ReceiveDone(b) => \/ ev[b.ev].type = "HTTP_REQUEST_READABLE"
                        \/ ev[b.ev].type = "CGI_RESPONSE_READABLE" /\ ev' = [ev EXCEPT ![b.ev].parse = "answered"]
  BY DEF ReceiveDone
<1> QED
  BY <1>3, <1>4, <1>5, <1>6, <1>7 DEF RouteOne, StillReceiving, ParsingFails, RouteOther

LEMMA KernelFits ==
  ASSUME IParts, MethodsFit, TrashThere,
         \/ \E c \in Conns : Age(c)
         \/ ApplyChanges \/ Kevent \/ KeventTimeout \/ addConnection \/ AcceptFails \/ Reboot
  PROVE  MethodsFit' /\ TrashThere'
<1>1. TypeOK /\ \A d \in Conns : ev[d] \in Events /\ FitOK(ev[d])
  BY DEF IParts, TypeOK, MethodsFit
<1>2. UNCHANGED trash
  BY DEF Age, ApplyChanges, Kevent, KeventTimeout, addConnection, AcceptFails, CheckTimeoutAndAccept, Reboot
<1>3. CASE UNCHANGED ev
  BY <1>2, <1>3, NobodyChanges
<1>4. ASSUME NEW d \in Conns, NEW s \in BOOLEAN
      PROVE  LET f == [ev[d] EXCEPT !.stale = s]
             IN  f.state = ev[d].state /\ f.type = ev[d].type /\ FitOK(f)
  <2> DEFINE f == [ev[d] EXCEPT !.stale = s]
  <2>1. /\ f.parse = ev[d].parse /\ f.resp.type = ev[d].resp.type /\ f.type = ev[d].type
        /\ f.method = ev[d].method /\ f.cgi = ev[d].cgi /\ f.state = ev[d].state
    BY <1>1 DEF Events
  <2> HIDE DEF f
  <2>2. FitOK(f)
    BY <1>1, <2>1, SameFits
  <2> QED
    BY <2>1, <2>2 DEF f
<1>5. CASE \E c \in Conns : Age(c)
  <2>1. PICK c \in Conns : ev' = [ev EXCEPT ![c].stale = TRUE]
    BY <1>5 DEF Age
  <2>2. \A d \in Conns : ev'[d] = ev[d] \/ ev'[d] = [ev[d] EXCEPT !.stale = TRUE]
    BY <1>1, <2>1 DEF TypeOK
  <2> QED
    BY <1>1, <1>2, <1>4, <2>2, AllFit
<1>6. CASE Kevent
  <2>1. \/ UNCHANGED ev
        \/ \E got : ev' = Stamped(got)
    BY <1>6 DEF Kevent
  <2>2. \A d \in Conns : ev'[d] = ev[d] \/ ev'[d] = [ev[d] EXCEPT !.stale = FALSE]
    BY <2>1 DEF Stamped
  <2> QED
    BY <1>1, <1>2, <1>4, <2>2, AllFit
<1>7. CASE KeventTimeout \/ AcceptFails
  <2>1. \A d \in Conns : ev'[d] = ev[d] \/ ev'[d] = NewEvent("freed", NoFd)
    BY <1>7 DEF KeventTimeout, AcceptFails, Evicted
  <2> QED
    BY <1>1, <1>2, <2>1, AllFit
<1>8. CASE addConnection
  <2>1. PICK c \in Conns : \E f : ev' = [Evicted EXCEPT ![c] = NewEvent("live", f)]
    BY <1>8 DEF addConnection
  <2>2. PICK f : ev' = [Evicted EXCEPT ![c] = NewEvent("live", f)]
    BY <2>1
  <2>3. \A d \in Conns : ev'[d] = ev[d] \/ ev'[d] = NewEvent("freed", NoFd) \/ ev'[d] = NewEvent("live", f)
    BY <2>2 DEF Evicted
  <2> QED
    BY <1>1, <1>2, <2>3, AllFit
<1> QED
  BY <1>3, <1>5, <1>6, <1>7, <1>8 DEF ApplyChanges, Reboot

LEMMA RouteReached ==
  ASSUME IParts, Reached, NEW b \in batch, RouteOne(b)
  PROVE  Reached'
<1>1. TypeOK /\ b.ev \in Conns /\ ev[b.ev] \in Events /\ Running /\ ev[b.ev].type \in Types
  BY DEF IParts, TypeOK, RouteOne, RouteEof, StillReceiving, ReceiveError, ReceiveDone, ParsingFails, RouteOther, Route,
         Running, Events
<1>2. CASE removeConnection(b.ev, pending, closing) /\ (RouteEof(b) \/ ReceiveError(b))
  <2>1. LeakFree => ev[b.ev].type \in Types \ {"CGI_RESPONSE_READABLE", "BUFFER_FLUSH"}
    BY <1>1, <1>2 DEF RouteEof, ReceiveError, IParts, HangupsAreSockets, UsesFile, LeakFree, LeakCauses
  <2> QED
    BY <1>1, <1>2, <2>1, RemovalReached
<1>3. CASE /\ UNCHANGED <<fds, closing>>
           /\ UNCHANGED ev \/ RequestParsed(b.ev) \/ ev' = [ev EXCEPT ![b.ev].parse = "answered"]
  <2>1. \A d \in Conns : Same(d)
    <3>1. CASE UNCHANGED ev
      BY <3>1 DEF Same
    <3>2. ev \in [Conns -> Events]
      BY <1>1 DEF TypeOK
    <3>3. CASE RequestParsed(b.ev) /\ ~UNCHANGED ev
      <4>1. PICK m \in Methods \cup {"NOT_IMPL"}, cgi \in BOOLEAN, p \in {"uploading", "unending", "bad"} :
              ev' = [ev EXCEPT ![b.ev].method = m, ![b.ev].cgi = cgi, ![b.ev].parse = p]
        BY <3>3 DEF RequestParsed
      <4> QED
        BY <3>2, <4>1 DEF Same, Events
    <3>4. CASE ev' = [ev EXCEPT ![b.ev].parse = "answered"]
      BY <3>2, <3>4 DEF Same, Events
    <3> QED
      BY <1>3, <3>1, <3>3, <3>4
  <2>2. ClientFds({}) = {}
    BY DEF ClientFds
  <2> QED
    BY <1>1, <1>3, <2>1, <2>2, StillReached
<1> QED
  BY <1>2, <1>3 DEF RouteOne, RouteEof, StillReceiving, ReceiveError, ReceiveDone, ParsingFails, RouteOther

LEMMA KernelReached ==
  ASSUME IParts, Reached,
         \/ \E c \in Conns : Age(c)
         \/ ApplyChanges \/ Kevent \/ KeventTimeout \/ addConnection \/ AcceptFails \/ Reboot
  PROVE  Reached'
<1>1. TypeOK /\ ev \in [Conns -> Events] /\ fds \in [Fds -> {"free", "socket", "file"}]
  BY DEF IParts, TypeOK
<1>2. Running
  BY DEF Running, Age, ApplyChanges, Kevent, KeventTimeout, addConnection, AcceptFails, CheckTimeoutAndAccept,
         Reboot, Waiting
<1>3. ClientFds({}) = {} /\ {} \subseteq Idle /\ Idle \subseteq Idle
  BY DEF ClientFds
<1>4. CASE (\E c \in Conns : Age(c)) \/ ApplyChanges \/ Reboot \/ Kevent
  <2>1. \A d \in Conns : Same(d)
    <3>1. CASE UNCHANGED ev
      BY <3>1 DEF Same
    <3>2. ASSUME NEW c \in Conns, Age(c) PROVE \A d \in Conns : Same(d)
      <4>1. ev' = [ev EXCEPT ![c].stale = TRUE]
        BY <3>2 DEF Age
      <4> QED
        BY <1>1, <4>1 DEF Same, Events
    <3>3. ASSUME NEW got, ev' = Stamped(got) PROVE \A d \in Conns : Same(d)
      BY <1>1, <3>3 DEF Stamped, Same, Events
    <3>4. Kevent => UNCHANGED ev \/ \E got : ev' = Stamped(got)
      BY DEF Kevent
    <3> QED
      BY <1>4, <3>1, <3>2, <3>3, <3>4 DEF ApplyChanges, Reboot
  <2>2. \A f \in Fds : fds'[f] # "free" => fds[f] # "free" /\ (f \in closing => f \in closing')
    BY <1>4 DEF Age, ApplyChanges, Reboot, Kevent, clearFileFds, Closed
  <2> QED
    BY <1>2, <1>3, <2>1, <2>2, StillReached
<1>5. CASE KeventTimeout \/ AcceptFails
  <2>1. ev' = Evicted
    BY <1>5 DEF KeventTimeout, AcceptFails
  <2>2. (\A d \in Conns \ Idle : Same(d)) /\ IdleFds = ClientFds(Idle)
    BY <1>1, <2>1, EvictedIs
  <2>3. \A f \in Fds : fds'[f] # "free" =>
          fds[f] # "free" /\ f \notin IdleFds /\ (f \in closing => f \in closing')
    BY <1>5 DEF KeventTimeout, AcceptFails, CheckTimeoutAndAccept, Closed
  <2> QED
    BY <1>2, <1>3, <2>2, <2>3, StillReached
<1>6. CASE addConnection
  <2>1. PICK c \in Conns, f \in LowestOf(FreeFds \cup IdleFds) :
          /\ ev[c].state = "none"
          /\ ev' = [Evicted EXCEPT ![c] = NewEvent("live", f)]
          /\ fds' = [Closed(fds, IdleFds) EXCEPT ![f] = "socket"]
    BY <1>6 DEF addConnection
  <2>2. c \notin Idle /\ ~Live(c) /\ UNCHANGED closing
    BY <1>6, <2>1 DEF Idle, Live, addConnection, CheckTimeoutAndAccept
  <2>3. ev'[c] = NewEvent("live", f) /\ \A d \in Conns \ {c} : ev'[d] = Evicted[d]
    BY <2>1 DEF Evicted
  <2>4. \A d \in Conns \ Idle : Live(d) => Same(d)
    BY <2>2, <2>3 DEF Evicted, Same
  <2>5. Live(c)' /\ ev'[c].clientFd = f
    BY <2>3 DEF NewEvent, Live
  <2>6. \A x \in Fds : fds'[x] # "free" => x = f \/ (fds[x] # "free" /\ x \notin IdleFds)
    BY <2>1 DEF Closed
  <2>7. IdleFds = ClientFds(Idle)
    BY DEF IdleFds, ClientFds
  <2> QED
    BY <1>2, <2>2, <2>4, <2>5, <2>6, <2>7, StillReached
<1> QED
  BY <1>4, <1>5, <1>6

-----------------------------------------------------------------------------
(* The handlers *)

\* What the second layer says of a step.
Before == IParts /\ MethodsFit /\ TrashThere /\ Reached
Fits == MethodsFit' /\ TrashThere' /\ Reached' /\ HaltCauses'

LEMMA UpIsFine == server' = "up" => HaltCauses'
BY DEF HaltCauses

LEMMA OpenFailedIsFine == server' = "open_failed" /\ "open" \in Faults => HaltCauses'
BY DEF HaltCauses

\* With these failures descriptors are lost.
LEMMA Leaking == Faults \cap {"open", "bad", "big", "old", "cgi", "write", "nested"} # {} => ~LeakFree
BY DEF LeakFree, LeakCauses

LEMMA ServedFit ==
  ASSUME Before, NEW c \in Conns, NEW t, Serve(c, t)
  PROVE  /\ TypeOK /\ MethodsFit /\ TrashThere /\ Reached /\ Live(c) /\ FitOK(ev[c]) /\ ev[c] \in Events
         /\ ev[c].state = "live" /\ ev[c].type = t /\ server = "up" /\ Running
         /\ ev[c].method \in Methods \cup {"NOT_IMPL"}
         /\ ev = [d \in Conns |-> ev[d]] /\ Opened({}) = fds
BY LiveFields DEF Before, MethodsFit, Serve, Events, Running

\* The handler turns the Event into g and opens the descriptors S.
LEMMA ServedChanges ==
  ASSUME Before, NEW c \in Conns, NEW t, Serve(c, t), NEW g, ev' = [ev EXCEPT ![c] = g],
         g.state = "live", FitOK(g), g.type = "BUFFER_FLUSH" => trash' \/ "open" \in Faults \/ (~trash /\ t = "BUFFER_FLUSH"),
         NEW S, fds' = Opened(S), closing \subseteq closing',
         LeakFree => Holds(ev[c]) \cup S \subseteq closing' \cup Holds(g) \cup LeftOver(c)'
  PROVE  MethodsFit' /\ TrashThere' /\ Reached'
<1>1. /\ TypeOK /\ MethodsFit /\ TrashThere /\ Reached /\ Live(c) /\ Running
      /\ ev[c].type = t /\ g.state \in {"live", "freed"}
  BY ServedFit
<1>2. MethodsFit' /\ TrashThere'
  BY <1>1, ChangeFits
<1>3. Reached'
  BY <1>1, ChangeReached
<1> QED
  BY <1>2, <1>3

LEMMA ServedStays ==
  ASSUME Before, NEW c \in Conns, NEW t, Serve(c, t), UNCHANGED <<ev, trash>>,
         \/ HaltCauses' /\ UNCHANGED <<fds, closing>>
         \/ server' = "open_failed" /\ "open" \in Faults
  PROVE  Fits
<1>1. MethodsFit' /\ TrashThere' /\ HaltCauses'
  BY NobodyChanges, OpenFailedIsFine DEF Before
<1>2. CASE "open" \in Faults
  BY <1>1, <1>2, Leaking DEF Fits, Reached, LeakFree
<1>3. CASE UNCHANGED <<ev, fds, closing>>
  <2>1. \A d \in Conns : Same(d)
    BY <1>3 DEF Same
  <2>2. ClientFds({}) = {} /\ {} \subseteq Idle
    BY DEF ClientFds
  <2>3. Reached /\ Running
    BY ServedFit
  <2>4. Reached'
    BY <1>3, <2>1, <2>2, <2>3, StillReached
  <2> QED
    BY <1>1, <2>4 DEF Fits
<1> QED
  BY <1>2, <1>3

LEMMA ServedRemoved ==
  ASSUME Before, NEW c \in Conns, NEW t, Serve(c, t), NEW p, NEW cl, removeConnection(c, p, cl), UNCHANGED <<server, trash>>,
         closing \subseteq cl, LeakFree => t \in Types \ {"CGI_RESPONSE_READABLE", "BUFFER_FLUSH"}
  PROVE  Fits
<1>1. MethodsFit' /\ TrashThere'
  BY ServedFit, RemovalFits
<1>2. Reached'
  BY ServedFit, RemovalReached
<1> QED
  BY <1>1, <1>2, ServedFit, UpIsFine DEF Fits

LEMMA ErrorTypes ==
  ASSUME NEW m, NEW F, NEW o \in errorResponses(m, F)
  PROVE  /\ o.resp.type = "DEL" => m = "HEAD"
         /\ o.resp.type = "GET" => m \notin {"HEAD", "POST", "PUT"}
         /\ o.resp.type = "FLUSH_ERR" => m \in {"POST", "PUT"}
         /\ o.resp.type \in {"DEL", "GET", "FLUSH_ERR"}
BY DEF errorResponses, errorResponse, Outcome, Response

LEMMA GetTypes ==
  ASSUME NEW F, NEW o \in getResponses(F)
  PROVE  o.resp.type \in {"GET", "DEL"}
<1>1. CASE o \in tooLargeResponses(F)
  <2>1. PICK f \in LowestOf(F) : \E e \in errorResponses("GET", F \ {f}) : o = [e EXCEPT !.opened = @ \cup {f}]
    BY <1>1 DEF tooLargeResponses
  <2>2. PICK e \in errorResponses("GET", F \ {f}) : o = [e EXCEPT !.opened = @ \cup {f}]
    BY <2>1
  <2>3. e.resp.type \in {"GET", "DEL"} /\ o.resp = e.resp
    BY <2>2, ErrorTypes DEF errorResponses, errorResponse, Outcome
  <2> QED
    BY <2>3
<1>2. CASE o \in fileResponses(F) \cup emptyFileResponses(F) \cup {InMemory("DEL")}
  BY <1>2 DEF fileResponses, emptyFileResponses, InMemory, Outcome, Response
<1> QED
  BY <1>1, <1>2 DEF getResponses

LEMMA MadeTypes ==
  ASSUME NEW m, NEW bad, NEW F, NEW o \in makeResponse(m, bad, F)
  PROVE  /\ o.resp.type \in {"POST", "GET", "DEL", "FLUSH", "FLUSH_ERR"}
         /\ o.resp.type \in {"POST", "FLUSH", "FLUSH_ERR"} => m \in {"POST", "PUT"}
<1>1. CASE o \in errorResponses(m, F)
  BY <1>1, ErrorTypes
<1>2. CASE m = "GET" /\ o \in getResponses(F)
  BY <1>2, GetTypes
<1>3. CASE m \in {"POST", "PUT"} /\ o \in uploadResponses(F)
  BY <1>3 DEF uploadResponses, Outcome, Response
<1>4. CASE o \in {InMemory("DEL"), redirResponse(m)} \cup deleteResponses(F)
  BY <1>4 DEF redirResponse, deleteResponses, InMemory, Outcome, Response
<1> QED
  BY <1>1, <1>2, <1>3, <1>4 DEF makeResponse


\* Without a body that is too large and a directory in another, making a response opens its file at most, and
\* an answer that needs none closes it.
LEMMA MadeOpens ==
  ASSUME NEW m, NEW bad, NEW F, NEW o \in makeResponse(m, bad, F), "big" \notin Faults, "nested" \notin Faults
  PROVE  /\ o.resp.type \in {"POST", "GET", "FLUSH_ERR"} => o.opened \subseteq {o.resp.file}
         /\ o.resp.type = "DEL" => o.opened \subseteq o.closing
         /\ o.resp.type = "FLUSH" => o.opened = {}
<1>1. CASE o \in errorResponses(m, F)
  BY <1>1 DEF errorResponses, errorResponse, Outcome, Response
<1>2. CASE o \in uploadResponses(F) \cup fileResponses(F) \cup emptyFileResponses(F)
  BY <1>2 DEF uploadResponses, fileResponses, emptyFileResponses, Outcome, Response
<1>3. CASE o \in {InMemory("DEL"), redirResponse(m)} \cup deleteResponses(F)
  BY <1>3 DEF redirResponse, deleteResponses, InMemory, Outcome, Response
<1> QED
  BY <1>1, <1>2, <1>3 DEF makeResponse, getResponses, tooLargeResponses

LEMMA ErrorOpens ==
  ASSUME NEW m, NEW F, NEW o \in errorResponses(m, F)
  PROVE  o.resp.type \in {"GET", "FLUSH_ERR"} => o.opened = {o.resp.file}
BY DEF errorResponses, errorResponse, Outcome, Response

LEMMA BeginCgiFits ==
  ASSUME Before, NEW c \in Conns, BeginCgi(c)
  PROVE  Fits
<1>1. Serve(c, "HTTP_REQUEST_READABLE") /\ ev[c].cgi /\ UNCHANGED <<closing, trash>>
  BY DEF BeginCgi
<1>2. ASSUME NEW f, ev' = [ev EXCEPT ![c].type = "HTTP_REQUEST_UPLOAD", ![c].toSendFd = f],
             fds' = Opened({f}), UNCHANGED server
      PROVE  Fits
  <2>1. /\ TypeOK /\ ev[c] \in Events /\ FitOK(ev[c]) /\ ev[c].state = "live" /\ server = "up"
        /\ ev[c].type = "HTTP_REQUEST_READABLE"
    BY <1>1, ServedFit
  <2> DEFINE g == [ev[c] EXCEPT !.type = "HTTP_REQUEST_UPLOAD", !.toSendFd = f]
  <2>2. ev' = [ev EXCEPT ![c] = g]
    BY <1>2, <2>1 DEF TypeOK
  <2>3. /\ g.state = "live" /\ g.type = "HTTP_REQUEST_UPLOAD" /\ g.parse = ev[c].parse /\ g.resp = ev[c].resp
        /\ g.method = ev[c].method /\ g.cgi = ev[c].cgi /\ g.clientFd = ev[c].clientFd /\ g.toSendFd = f
    BY <2>1 DEF Events
  <2> HIDE DEF g
  <2>4. FitOK(g)
    BY <1>1, <2>1, <2>3 DEF FitOK
  <2>5. Holds(ev[c]) \cup {f} \subseteq Holds(g)
    BY <2>1, <2>3, HoldsIs
  <2>6. /\ g.type # "BUFFER_FLUSH" /\ closing \subseteq closing'
        /\ Holds(ev[c]) \cup {f} \subseteq closing' \cup Holds(g) \cup LeftOver(c)'
    BY <1>1, <2>3, <2>5
  <2>7. MethodsFit' /\ TrashThere' /\ Reached'
    BY <1>1, <1>2, <2>2, <2>3, <2>4, <2>6, ServedChanges
  <2> QED
    BY <1>2, <2>1, <2>7, UpIsFine DEF Fits
<1>3. CASE "open" \in Faults /\ server' = "open_failed" /\ UNCHANGED ev
  BY <1>1, <1>3, ServedStays
<1> QED
  BY <1>2, <1>3 DEF BeginCgi

LEMMA BeginResponseFits ==
  ASSUME Before, NEW c \in Conns, Serve(c, "HTTP_REQUEST_READABLE"),
         NEW o \in makeResponse(ev[c].method, ev[c].parse = "bad", FreeFds), BeginResponse(c, o)
  PROVE  Fits
<1>1. /\ TypeOK /\ ev[c] \in Events /\ FitOK(ev[c]) /\ ev[c].state = "live" /\ server = "up"
      /\ ev[c].type = "HTTP_REQUEST_READABLE"
  BY ServedFit
<1>2. /\ o.resp.type \in {"POST", "GET", "DEL", "FLUSH", "FLUSH_ERR"}
      /\ o.resp.type \in {"POST", "FLUSH", "FLUSH_ERR"} => ev[c].method \in {"POST", "PUT"}
  BY MadeTypes
<1>3. LeakFree => /\ o.resp.type \in {"POST", "GET", "FLUSH_ERR"} => o.opened \subseteq {o.resp.file}
                  /\ o.resp.type = "DEL" => o.opened \subseteq o.closing
                  /\ o.resp.type = "FLUSH" => o.opened = {}
  BY MadeOpens, Leaking
<1>4. closing' = closing \cup o.closing /\ closing \subseteq closing'
  BY DEF BeginResponse
<1>5. Holds(ev[c]) = {ev[c].clientFd}
  BY <1>1, HoldsIs
<1> DEFINE h == [ev[c] EXCEPT !.resp = o.resp, !.type = NextType(o.resp)]
<1>6. /\ h.state = "live" /\ h.type = NextType(o.resp) /\ h.parse = ev[c].parse /\ h.resp = o.resp
      /\ h.method = ev[c].method /\ h.cgi = ev[c].cgi /\ h.clientFd = ev[c].clientFd
      /\ \A fd : LET g == [h EXCEPT !.toSendFd = fd] IN
           /\ g.state = h.state /\ g.type = h.type /\ g.parse = h.parse /\ g.resp = h.resp
           /\ g.method = h.method /\ g.cgi = h.cgi /\ g.clientFd = h.clientFd /\ g.toSendFd = fd
      /\ \A fd : LET g == [h EXCEPT !.toRecvFd = fd] IN
           /\ g.state = h.state /\ g.type = h.type /\ g.parse = h.parse /\ g.resp = h.resp
           /\ g.method = h.method /\ g.cgi = h.cgi /\ g.clientFd = h.clientFd /\ g.toRecvFd = fd
  BY <1>1 DEF Events
<1>7. /\ \A fd : [ev EXCEPT ![c].resp = o.resp, ![c].type = NextType(o.resp), ![c].toSendFd = fd]
                   = [ev EXCEPT ![c] = [h EXCEPT !.toSendFd = fd]]
      /\ \A fd : [ev EXCEPT ![c].resp = o.resp, ![c].type = NextType(o.resp), ![c].toRecvFd = fd]
                   = [ev EXCEPT ![c] = [h EXCEPT !.toRecvFd = fd]]
      /\ [ev EXCEPT ![c].resp = o.resp, ![c].type = NextType(o.resp)] = [ev EXCEPT ![c] = h]
  BY <1>1 DEF TypeOK
<1> HIDE DEF h
\* What has to be shown of the Event g that the handler leaves.
<1>8. ASSUME NEW g, ev' = [ev EXCEPT ![c] = g], g.state = "live", g.type = NextType(o.resp), g.parse = ev[c].parse,
             g.resp = o.resp, g.method = ev[c].method, g.cgi = ev[c].cgi, g.clientFd = ev[c].clientFd,
             NEW S, fds' = Opened(S), LeakFree => S \subseteq closing' \cup Holds(g),
             o.resp.type \in {"FLUSH", "FLUSH_ERR"} => trash' \/ "open" \in Faults,
             \/ UNCHANGED server
             \/ server' = "open_failed" /\ "open" \in Faults
      PROVE  Fits
  <2>1. /\ g.type = "HTTP_REQUEST_UPLOAD" => o.resp.type = "POST"
        /\ g.type = "BUFFER_FLUSH" => o.resp.type \in {"FLUSH", "FLUSH_ERR"}
        /\ g.type # "HTTP_REQUEST_READABLE"
    BY <1>2, <1>8 DEF NextType
  <2>2. FitOK(g)
    BY <1>1, <1>2, <1>8, <2>1 DEF FitOK
  <2>3. LeakFree => Holds(ev[c]) \cup S \subseteq closing' \cup Holds(g) \cup LeftOver(c)'
    BY <1>5, <1>8, HoldsIs
  <2>4. g.type = "BUFFER_FLUSH" => trash' \/ "open" \in Faults
    BY <1>8, <2>1
  <2>5. MethodsFit' /\ TrashThere' /\ Reached'
    BY <1>4, <1>8, <2>2, <2>3, <2>4, ServedChanges
  <2>6. HaltCauses'
    BY <1>1, <1>8, UpIsFine, OpenFailedIsFine
  <2> QED
    BY <2>5, <2>6 DEF Fits
<1>9. CASE /\ o.resp.type = "POST" /\ fds' = Opened(o.opened) /\ UNCHANGED server
           /\ ev' = [ev EXCEPT ![c].resp = o.resp, ![c].type = NextType(o.resp), ![c].toSendFd = o.resp.file]
  <2> DEFINE g == [h EXCEPT !.toSendFd = o.resp.file]
  <2>1. NextType(o.resp) = "HTTP_REQUEST_UPLOAD"
    BY <1>9 DEF NextType
  <2>2. LeakFree => o.opened \subseteq closing' \cup Holds(g)
    <3>1. g.type = "HTTP_REQUEST_UPLOAD" /\ g.toSendFd = o.resp.file
      BY <1>6, <2>1
    <3> HIDE DEF g
    <3> QED
      BY <1>3, <1>9, <3>1, HoldsIs
  <2>3. /\ g.state = "live" /\ g.type = NextType(o.resp) /\ g.parse = ev[c].parse
        /\ g.resp = o.resp /\ g.method = ev[c].method /\ g.cgi = ev[c].cgi /\ g.clientFd = ev[c].clientFd
    BY <1>6
  <2>4. ev' = [ev EXCEPT ![c] = g]
    BY <1>7, <1>9
  <2> HIDE DEF g
  <2> QED
    BY <1>8, <1>9, <2>2, <2>3, <2>4
<1>10. CASE /\ o.resp.type = "GET" /\ fds' = Opened(o.opened) /\ UNCHANGED server
            /\ ev' = [ev EXCEPT ![c].resp = o.resp, ![c].type = NextType(o.resp), ![c].toRecvFd = o.resp.file]
  <2> DEFINE g == [h EXCEPT !.toRecvFd = o.resp.file]
  <2>1. NextType(o.resp) = "HTTP_RESPONSE_DOWNLOAD"
    BY <1>10 DEF NextType
  <2>2. LeakFree => o.opened \subseteq closing' \cup Holds(g)
    <3>1. g.type = "HTTP_RESPONSE_DOWNLOAD" /\ g.toRecvFd = o.resp.file
      BY <1>6, <2>1
    <3> HIDE DEF g
    <3> QED
      BY <1>3, <1>10, <3>1, HoldsIs
  <2>3. /\ g.state = "live" /\ g.type = NextType(o.resp) /\ g.parse = ev[c].parse
        /\ g.resp = o.resp /\ g.method = ev[c].method /\ g.cgi = ev[c].cgi /\ g.clientFd = ev[c].clientFd
    BY <1>6
  <2>4. ev' = [ev EXCEPT ![c] = g]
    BY <1>7, <1>10
  <2> HIDE DEF g
  <2> QED
    BY <1>8, <1>10, <2>2, <2>3, <2>4
<1>11. CASE /\ o.resp.type = "DEL" /\ fds' = Opened(o.opened) /\ UNCHANGED server
            /\ ev' = [ev EXCEPT ![c].resp = o.resp, ![c].type = NextType(o.resp), ![c].toSendFd = ev[c].clientFd]
  <2> DEFINE g == [h EXCEPT !.toSendFd = ev[c].clientFd]
  <2>2. LeakFree => o.opened \subseteq closing' \cup Holds(g)
    BY <1>3, <1>4, <1>11
  <2>3. /\ g.state = "live" /\ g.type = NextType(o.resp) /\ g.parse = ev[c].parse
        /\ g.resp = o.resp /\ g.method = ev[c].method /\ g.cgi = ev[c].cgi /\ g.clientFd = ev[c].clientFd
    BY <1>6
  <2>4. ev' = [ev EXCEPT ![c] = g]
    BY <1>7, <1>11
  <2> HIDE DEF g
  <2> QED
    BY <1>8, <1>11, <2>2, <2>3, <2>4
<1>12. CASE o.resp.type \in {"FLUSH", "FLUSH_ERR"} /\
            \E f \in LowestOf(FreeFds \ o.opened) :
             /\ ev' = [ev EXCEPT ![c].resp = o.resp, ![c].type = NextType(o.resp), ![c].toSendFd = f]
             /\ fds' = Opened(o.opened \cup {f})
             /\ CreateTrash /\ UNCHANGED server
  <2>5. trash'
    BY <1>12 DEF CreateTrash
  <2>6. o.resp.type \in {"FLUSH", "FLUSH_ERR"} /\ UNCHANGED server
    BY <1>12
  <2>7. PICK f \in LowestOf(FreeFds \ o.opened) :
             /\ ev' = [ev EXCEPT ![c].resp = o.resp, ![c].type = NextType(o.resp), ![c].toSendFd = f]
             /\ fds' = Opened(o.opened \cup {f})
    BY <1>12
  <2> DEFINE g == [h EXCEPT !.toSendFd = f]
             S == o.opened \cup {f}
  <2>1. NextType(o.resp) = "BUFFER_FLUSH"
    BY <2>6 DEF NextType
  <2>2. LeakFree => S \subseteq closing' \cup Holds(g)
    <3>1. g.type = "BUFFER_FLUSH" /\ g.toSendFd = f /\ g.resp = o.resp
      BY <1>6, <2>1
    <3> HIDE DEF g
    <3> QED
      BY <1>3, <2>6, <3>1, HoldsIs
  <2>3. ev' = [ev EXCEPT ![c] = g] /\ fds' = Opened(S)
    BY <1>7, <2>7
  <2>4. /\ g.state = "live" /\ g.type = NextType(o.resp) /\ g.parse = ev[c].parse
        /\ g.resp = o.resp /\ g.method = ev[c].method /\ g.cgi = ev[c].cgi /\ g.clientFd = ev[c].clientFd
    BY <1>6
  <2> HIDE DEF g, S
  <2> QED
    BY <1>8, <2>5, <2>6, <2>2, <2>3, <2>4
<1>13. CASE /\ "open" \in Faults /\ fds' = Opened(o.opened) /\ server' = "open_failed"
            /\ ev' = [ev EXCEPT ![c].resp = o.resp, ![c].type = NextType(o.resp)]
  <2>1. ev' = [ev EXCEPT ![c] = h] /\ ~LeakFree
    BY <1>7, <1>13, Leaking
  <2> QED
    BY <1>6, <1>8, <1>13, <2>1
<1>14. CASE o.resp.type \in {"FLUSH", "FLUSH_ERR"}
  <2>1. \/ \E f \in LowestOf(FreeFds \ o.opened) :
             /\ ev' = [ev EXCEPT ![c].resp = o.resp, ![c].type = NextType(o.resp), ![c].toSendFd = f]
             /\ fds' = Opened(o.opened \cup {f})
             /\ CreateTrash /\ UNCHANGED server
        \/ /\ "open" \in Faults /\ fds' = Opened(o.opened) /\ server' = "open_failed"
           /\ ev' = [ev EXCEPT ![c].resp = o.resp, ![c].type = NextType(o.resp)]
    <3>1. o.resp.type \notin {"POST", "GET", "DEL"}
      BY <1>14
    <3> QED
      BY <3>1, Zenon DEF BeginResponse
  <2> QED
    BY <1>12, <1>13, <1>14, <2>1, Zenon
<1>15. CASE o.resp.type = "POST"
  BY <1>9, <1>15 DEF BeginResponse
<1>16. CASE o.resp.type = "GET"
  BY <1>10, <1>16 DEF BeginResponse
<1>17. CASE o.resp.type = "DEL"
  BY <1>11, <1>17 DEF BeginResponse
<1> QED
  BY <1>2, <1>14, <1>15, <1>16, <1>17

LEMMA ReadableFits ==
  ASSUME Before, NEW c \in Conns, ServeReadable(c)
  PROVE  Fits
<1>1. CASE BeginCgi(c)
  BY <1>1, BeginCgiFits
<1>2. CASE ProcessRequest(c)
  BY <1>2, BeginResponseFits DEF ProcessRequest
<1>3. CASE ProcessRequestThrows(c) \/ LookupNeverEnds(c)
  <2>1. Serve(c, "HTTP_REQUEST_READABLE") /\ UNCHANGED <<ev, trash, closing>>
    BY <1>3 DEF ProcessRequestThrows, LookupNeverEnds
  <2>2. \/ server' = "open_failed" /\ "open" \in Faults
        \/ UNCHANGED fds /\ server' = "null_directory" /\ "open" \in Faults /\ ev[c].method \in {"GET", "HEAD", "DELETE"}
        \/ UNCHANGED fds /\ server' \in {"empty_uri", "endless"} /\ "uri" \in Faults
    BY <1>3 DEF ProcessRequestThrows, NoResponseMade, LookupNeverEnds
  <2>3. ev[c].method \in Methods \cup {"NOT_IMPL"}
    BY <2>1, ServedFit
  <2>4. server' # "open_failed" => HaltCauses' /\ UNCHANGED fds
    BY <2>2, <2>3 DEF HaltCauses, Malformed
  <2> QED
    BY <2>1, <2>2, <2>4, ServedStays
<1> QED
  BY <1>1, <1>2, <1>3 DEF ServeReadable

\* _redirectUploadError makes r the answer.
LEMMA RedirectFits ==
  ASSUME Before, NEW c \in Conns, NEW t \in {"HTTP_REQUEST_UPLOAD", "BUFFER_FLUSH"}, Serve(c, t),
         NEW r, NEW parse, redirectUploadError(c, r, parse),
         r.type # "FREED", parse # "closed", parse = "bad" => "bad" \in Faults,
         t = "HTTP_REQUEST_UPLOAD" => "bad" \in Faults,
         t = "BUFFER_FLUSH" => r.type \in {"FLUSH", "FLUSH_ERR"},
         r.type \notin {"FLUSH", "FLUSH_ERR"} => ev[c].method \notin {"POST", "PUT"},
         NEW S, fds' = Opened(S), closing \subseteq closing',
         LeakFree => S = {} /\ r = ev[c].resp /\ ev[c].toSendFd \in closing'
  PROVE  Fits
<1>1. /\ TypeOK /\ ev[c] \in Events /\ FitOK(ev[c]) /\ ev[c].state = "live" /\ server = "up" /\ ev[c].type = t
      /\ ev[c].method \in Methods \cup {"NOT_IMPL"}
  BY ServedFit
<1>2. LeakFree => t = "BUFFER_FLUSH"
  BY Leaking
<1> DEFINE h == [ev[c] EXCEPT !.resp = r, !.parse = parse]
           e == [ev EXCEPT ![c].resp = r, ![c].parse = parse]
           sent == [h EXCEPT !.type = "HTTP_RESPONSE_WRITABLE", !.toSendFd = ev[c].clientFd]
           page == [h EXCEPT !.type = "HTTP_RESPONSE_DOWNLOAD", !.toRecvFd = r.file]
<1>3. /\ h.state = "live" /\ h.type = t /\ h.resp = r /\ h.parse = parse
      /\ h.method = ev[c].method /\ h.cgi = ev[c].cgi
      /\ sent.state = "live" /\ sent.type = "HTTP_RESPONSE_WRITABLE" /\ sent.resp = r /\ sent.parse = parse
      /\ sent.clientFd = ev[c].clientFd
      /\ page.state = "live" /\ page.type = "HTTP_RESPONSE_DOWNLOAD" /\ page.resp = r /\ page.parse = parse
      /\ page.clientFd = ev[c].clientFd /\ page.toRecvFd = r.file
  BY <1>1 DEF Events
<1>4. /\ e = [ev EXCEPT ![c] = h]
      /\ [e EXCEPT ![c].type = "HTTP_RESPONSE_WRITABLE", ![c].toSendFd = ev[c].clientFd] = [ev EXCEPT ![c] = sent]
      /\ [e EXCEPT ![c].type = "HTTP_RESPONSE_DOWNLOAD", ![c].toRecvFd = r.file] = [ev EXCEPT ![c] = page]
  BY <1>1 DEF TypeOK
<1>5. LeakFree => Holds(ev[c]) = {ev[c].clientFd, ev[c].toSendFd} \cup {f \in {r.file} : r.type = "FLUSH_ERR"}
  BY <1>1, <1>2, HoldsIs
<1>6. CASE r.type = "FLUSH"
  <2>1. ev' = [ev EXCEPT ![c] = sent] /\ UNCHANGED server
    BY <1>4, <1>6 DEF redirectUploadError
  <2> HIDE DEF sent, h, e, page
  <2>2. FitOK(sent) /\ sent.state = "live" /\ sent.type # "BUFFER_FLUSH"
    BY <1>3, <1>6 DEF FitOK
  <2>3. LeakFree => Holds(ev[c]) \cup S \subseteq closing' \cup Holds(sent) \cup LeftOver(c)'
    BY <1>3, <1>5, <1>6, HoldsIs
  <2>4. MethodsFit' /\ TrashThere' /\ Reached'
    BY <2>1, <2>2, <2>3, ServedChanges
  <2> QED
    BY <1>1, <2>1, <2>4, UpIsFine DEF Fits
<1>7. CASE r.type = "FLUSH_ERR"
  <2>1. ev' = [ev EXCEPT ![c] = page] /\ UNCHANGED server
    BY <1>4, <1>7 DEF redirectUploadError
  <2> HIDE DEF sent, h, e, page
  <2>2. FitOK(page) /\ page.state = "live" /\ page.type # "BUFFER_FLUSH"
    BY <1>3, <1>7 DEF FitOK
  <2>3. LeakFree => Holds(ev[c]) \cup S \subseteq closing' \cup Holds(page) \cup LeftOver(c)'
    BY <1>3, <1>5, <1>7, HoldsIs
  <2>4. MethodsFit' /\ TrashThere' /\ Reached'
    BY <2>1, <2>2, <2>3, ServedChanges
  <2> QED
    BY <1>1, <2>1, <2>4, UpIsFine DEF Fits
<1>8. CASE r.type \notin {"FLUSH", "FLUSH_ERR"}
  <2>1. ev' = [ev EXCEPT ![c] = h] /\ server' = "wrong_routine" /\ t = "HTTP_REQUEST_UPLOAD"
    BY <1>4, <1>8 DEF redirectUploadError
  <2> HIDE DEF sent, h, e, page
  <2>2. FitOK(h) /\ h.state = "live" /\ h.type # "BUFFER_FLUSH"
    BY <1>1, <1>3, <1>8, <2>1 DEF FitOK
  <2>3. LeakFree => Holds(ev[c]) \cup S \subseteq closing' \cup Holds(h) \cup LeftOver(c)'
    BY <1>2, <2>1
  <2>4. MethodsFit' /\ TrashThere' /\ Reached'
    BY <2>1, <2>2, <2>3, ServedChanges
  <2>5. "bad" \in Faults /\ "GET" \in Methods
    BY <1>1, <1>8, <2>1 DEF FitOK
  <2>6. HaltCauses'
    BY <2>1, <2>5 DEF HaltCauses
  <2> QED
    BY <2>4, <2>6 DEF Fits
<1> QED
  BY <1>6, <1>7, <1>8

\* An Event whose parsing state and response change, and not its type.
LEMMA AnswerFits ==
  ASSUME Before, NEW c \in Conns, NEW t \in {"HTTP_REQUEST_UPLOAD", "BUFFER_FLUSH"}, Serve(c, t),
         NEW r, NEW parse, ev' = [ev EXCEPT ![c].resp = r, ![c].parse = parse],
         r.type = "FREED" => "open" \in Faults,
         parse = "bad" => "bad" \in Faults, parse = "closed" => "write" \in Faults,
         t = "BUFFER_FLUSH" => r.type \in {"FLUSH", "FLUSH_ERR", "FREED"},
         "open" \in Faults \/ ~trash,
         NEW S, fds' = Opened(S), closing \subseteq closing',
         LeakFree => S = {} /\ r = ev[c].resp
  PROVE  MethodsFit' /\ TrashThere' /\ Reached'
<1>1. /\ TypeOK /\ ev[c] \in Events /\ FitOK(ev[c]) /\ ev[c].state = "live" /\ ev[c].type = t
  BY ServedFit
<1> DEFINE g == [ev[c] EXCEPT !.resp = r, !.parse = parse]
<1>2. /\ g.state = "live" /\ g.type = t /\ g.resp = r /\ g.parse = parse
      /\ g.method = ev[c].method /\ g.cgi = ev[c].cgi
      /\ g.clientFd = ev[c].clientFd /\ g.toSendFd = ev[c].toSendFd /\ g.toRecvFd = ev[c].toRecvFd
  BY <1>1 DEF Events
<1>3. ev' = [ev EXCEPT ![c] = g]
  BY <1>1 DEF TypeOK
<1> HIDE DEF g
<1>4. FitOK(g)
  BY <1>1, <1>2 DEF FitOK
<1>5. LeakFree => Holds(ev[c]) \cup S \subseteq closing' \cup Holds(g) \cup LeftOver(c)'
  BY <1>1, <1>2, HoldsSame
<1>6. g.type = "BUFFER_FLUSH" => trash' \/ "open" \in Faults \/ (~trash /\ t = "BUFFER_FLUSH")
  BY <1>2
<1> QED
  BY <1>2, <1>3, <1>4, <1>5, <1>6, ServedChanges

\* The answer cannot be made.
LEMMA ErrorThrowsFits ==
  ASSUME Before, NEW c \in Conns, NEW t \in {"HTTP_REQUEST_UPLOAD", "BUFFER_FLUSH"}, Serve(c, t),
         NEW parse \in {"bad", "uploaded"}, parse = "bad" => "bad" \in Faults,
         ErrorResponseThrows(c, parse), ev[c].resp.type # "FREED", UNCHANGED <<fds, closing, trash>>
  PROVE  Fits
<1>1. FitOK(ev[c]) /\ ev[c].type = t /\ Opened({}) = fds
  BY ServedFit
<1>2. /\ "open" \in Faults /\ server' = "open_failed"
      /\ ev' = [ev EXCEPT ![c].resp = Deleted(ev[c].resp), ![c].parse = parse]
  BY DEF ErrorResponseThrows
<1>3. /\ ev[c].resp.type = "NULL" => Deleted(ev[c].resp).type = "NULL"
      /\ ev[c].resp.type # "NULL" => Deleted(ev[c].resp).type = "FREED"
  BY DEF Deleted, FreedResponse, Response
<1>4. t = "BUFFER_FLUSH" => Deleted(ev[c].resp).type = "FREED"
  BY <1>1, <1>3 DEF FitOK
<1>5. Deleted(ev[c].resp).type \in {"NULL", "FREED"}
  BY <1>3
<1>6. ~LeakFree
  BY <1>2, Leaking
<1> DEFINE r == Deleted(ev[c].resp)
<1>7. /\ ev' = [ev EXCEPT ![c].resp = r, ![c].parse = parse] /\ fds' = Opened({}) /\ closing \subseteq closing'
      /\ t = "BUFFER_FLUSH" => r.type \in {"FLUSH", "FLUSH_ERR", "FREED"}
      /\ parse # "closed"
  BY <1>1, <1>2, <1>4
<1> HIDE DEF r
<1>8. MethodsFit' /\ TrashThere' /\ Reached'
  BY <1>2, <1>6, <1>7, AnswerFits
<1> QED
  BY <1>2, <1>8, OpenFailedIsFine DEF Fits

\* What uploadRequest left behind.
LEMMA UploadStates ==
  ASSUME Before, NEW c \in Conns, NEW t, Serve(c, t)
  PROVE  /\ "bad" \in UploadRequest(c) => "bad" \in Faults
         /\ "closed" \in UploadRequest(c) => "write" \in Faults
BY ServedFit DEF UploadRequest, FitOK

LEMMA UploadFits ==
  ASSUME Before, NEW c \in Conns, UploadMore(c) \/ UploadClosed(c) \/ UploadBad(c)
  PROVE  Fits
<1>1. Serve(c, "HTTP_REQUEST_UPLOAD") /\ UNCHANGED trash
  BY DEF UploadMore, UploadClosed, UploadBad, Upload
<1>2. CASE UploadMore(c)
  BY <1>1, <1>2, ServedFit, UpIsFine, ServedStays DEF UploadMore
<1>3. CASE UploadClosed(c)
  <2>1. removeConnection(c, pending, closing) /\ UNCHANGED server
    BY <1>3 DEF UploadClosed
  <2>2. "HTTP_REQUEST_UPLOAD" \in Types \ {"CGI_RESPONSE_READABLE", "BUFFER_FLUSH"}
    BY DEF Types
  <2> QED
    BY <1>1, <2>1, <2>2, ServedRemoved
<1>4. CASE UploadBad(c)
  <2>1. "bad" \in Faults /\ ev[c].resp.type # "FREED" /\ UNCHANGED closing
    BY <1>1, <1>4, UploadStates DEF UploadBad
  <2>2. ~LeakFree
    BY <2>1, Leaking
  <2>3. ASSUME NEW o \in errorResponses(ev[c].method, FreeFds), redirectUploadError(c, o.resp, "bad"),
               fds' = Opened(o.opened)
        PROVE  Fits
    <3>1. /\ o.resp.type # "FREED"
          /\ o.resp.type \notin {"FLUSH", "FLUSH_ERR"} => ev[c].method \notin {"POST", "PUT"}
      BY ErrorTypes
    <3> QED
      BY <1>1, <2>1, <2>2, <2>3, <3>1, RedirectFits
  <2>4. CASE ErrorResponseThrows(c, "bad") /\ UNCHANGED <<pending, fds>>
    BY <1>1, <2>1, <2>4, ErrorThrowsFits
  <2> QED
    BY <1>4, <2>3, <2>4 DEF UploadBad
<1> QED
  BY <1>2, <1>3, <1>4

LEMMA UploadDoneFits ==
  ASSUME Before, NEW c \in Conns, UploadedFile(c) \/ CgiStarted(c)
  PROVE  Fits
<1>1. /\ Serve(c, "HTTP_REQUEST_UPLOAD") /\ UNCHANGED trash
      /\ closing' = closing \cup {ev[c].toSendFd} /\ closing \subseteq closing'
  BY DEF UploadedFile, CgiStarted, UploadDone, Upload
<1>2. /\ TypeOK /\ ev[c] \in Events /\ FitOK(ev[c]) /\ ev[c].state = "live" /\ server = "up"
      /\ ev[c].type = "HTTP_REQUEST_UPLOAD" /\ Opened({}) = fds
  BY <1>1, ServedFit
<1>3. Holds(ev[c]) = {ev[c].clientFd, ev[c].toSendFd}
  BY <1>2, HoldsIs
<1> DEFINE h == [ev[c] EXCEPT !.parse = "uploaded"]
           sent == [h EXCEPT !.type = "HTTP_RESPONSE_WRITABLE", !.toSendFd = ev[c].clientFd]
           pid == [h EXCEPT !.pid = TRUE]
           cgi(f) == [h EXCEPT !.type = "CGI_RESPONSE_READABLE", !.toRecvFd = f, !.pid = TRUE]
<1>4. /\ sent.state = "live" /\ sent.type = "HTTP_RESPONSE_WRITABLE" /\ sent.resp = ev[c].resp
      /\ sent.parse = "uploaded" /\ sent.clientFd = ev[c].clientFd
      /\ pid.state = "live" /\ pid.type = "HTTP_REQUEST_UPLOAD" /\ pid.resp = ev[c].resp
      /\ pid.parse = "uploaded" /\ pid.method = ev[c].method /\ pid.cgi = ev[c].cgi
  BY <1>2 DEF Events
<1>5. \A f : /\ cgi(f).state = "live" /\ cgi(f).type = "CGI_RESPONSE_READABLE" /\ cgi(f).resp = ev[c].resp
             /\ cgi(f).parse = "uploaded" /\ cgi(f).clientFd = ev[c].clientFd /\ cgi(f).toRecvFd = f
  BY <1>2 DEF Events
<1>6. /\ [Uploaded(c) EXCEPT ![c].type = "HTTP_RESPONSE_WRITABLE", ![c].toSendFd = ev[c].clientFd]
           = [ev EXCEPT ![c] = sent]
      /\ [Uploaded(c) EXCEPT ![c].pid = TRUE] = [ev EXCEPT ![c] = pid]
      /\ \A f : [Uploaded(c) EXCEPT ![c].type = "CGI_RESPONSE_READABLE", ![c].toRecvFd = f, ![c].pid = TRUE]
                  = [ev EXCEPT ![c] = cgi(f)]
  BY <1>2 DEF TypeOK, Uploaded
<1> HIDE DEF h, sent, pid, cgi
<1>7. CASE UploadedFile(c)
  <2>1. ev' = [ev EXCEPT ![c] = sent] /\ UNCHANGED <<server, fds>>
    BY <1>6, <1>7 DEF UploadedFile
  <2>2. FitOK(sent) /\ sent.state = "live" /\ sent.type # "BUFFER_FLUSH"
    BY <1>2, <1>4 DEF FitOK
  <2>3. Holds(ev[c]) \cup {} \subseteq closing' \cup Holds(sent) \cup LeftOver(c)'
    BY <1>1, <1>3, <1>4, HoldsIs
  <2>4. fds' = Opened({})
    BY <1>2, <2>1
  <2>5. MethodsFit' /\ TrashThere' /\ Reached'
    BY <1>1, <2>1, <2>2, <2>3, <2>4, ServedChanges
  <2> QED
    BY <1>2, <2>1, <2>5, UpIsFine DEF Fits
<1>8. CASE CgiStarted(c)
  <2>1. ASSUME NEW f, ev' = [ev EXCEPT ![c] = cgi(f)], fds' = Opened({f}), UNCHANGED server
        PROVE  Fits
    <3>1. FitOK(cgi(f)) /\ cgi(f).state = "live" /\ cgi(f).type # "BUFFER_FLUSH"
      BY <1>2, <1>5 DEF FitOK
    <3>2. Holds(ev[c]) \cup {f} \subseteq closing' \cup Holds(cgi(f)) \cup LeftOver(c)'
      BY <1>1, <1>3, <1>5, HoldsIs
    <3>3. MethodsFit' /\ TrashThere' /\ Reached'
      BY <1>1, <2>1, <3>1, <3>2, ServedChanges
    <3> QED
      BY <1>2, <2>1, <3>3, UpIsFine DEF Fits
  <2>2. CASE "open" \in Faults /\ server' = "open_failed" /\ ev' = [ev EXCEPT ![c] = pid] /\ UNCHANGED fds
    <3>1. FitOK(pid) /\ pid.state = "live" /\ pid.type # "BUFFER_FLUSH"
      BY <1>2, <1>4 DEF FitOK
    <3>2. ~LeakFree /\ fds' = Opened({})
      BY <1>2, <2>2, Leaking
    <3>3. MethodsFit' /\ TrashThere' /\ Reached'
      BY <1>1, <2>2, <3>1, <3>2, ServedChanges
    <3> QED
      BY <2>2, <3>3, OpenFailedIsFine DEF Fits
  <2> QED
    BY <1>6, <1>8, <2>1, <2>2 DEF CgiStarted
<1> QED
  BY <1>7, <1>8

LEMMA CgiForkFits ==
  ASSUME Before, NEW c \in Conns, CgiForkFails(c)
  PROVE  Fits
<1>1. /\ Serve(c, "HTTP_REQUEST_UPLOAD") /\ UNCHANGED trash /\ "fork" \in Faults
      /\ closing' = closing \cup {ev[c].toSendFd} /\ closing \subseteq closing'
  BY DEF CgiForkFails, UploadDone, Upload
<1>2. /\ TypeOK /\ ev[c] \in Events /\ FitOK(ev[c]) /\ ev[c].state = "live" /\ server = "up"
      /\ ev[c].type = "HTTP_REQUEST_UPLOAD" /\ Opened({}) = fds /\ ev[c].method \in Methods \cup {"NOT_IMPL"}
  BY <1>1, ServedFit
<1>3. Holds(ev[c]) = {ev[c].clientFd, ev[c].toSendFd}
  BY <1>2, HoldsIs
<1> DEFINE h == [ev[c] EXCEPT !.parse = "uploaded"]
           page(r) == [h EXCEPT !.type = "HTTP_RESPONSE_DOWNLOAD", !.toRecvFd = r.file, !.resp = r]
           answered(r) == [h EXCEPT !.resp = r]
<1>4. \A r : /\ page(r).state = "live" /\ page(r).type = "HTTP_RESPONSE_DOWNLOAD" /\ page(r).resp = r
             /\ page(r).parse = "uploaded" /\ page(r).clientFd = ev[c].clientFd /\ page(r).toRecvFd = r.file
             /\ answered(r).state = "live" /\ answered(r).type = "HTTP_REQUEST_UPLOAD" /\ answered(r).resp = r
             /\ answered(r).parse = "uploaded" /\ answered(r).method = ev[c].method
             /\ answered(r).cgi = ev[c].cgi /\ answered(r).clientFd = ev[c].clientFd
  BY <1>2 DEF Events
<1>5. /\ \A r : [Uploaded(c) EXCEPT ![c].type = "HTTP_RESPONSE_DOWNLOAD", ![c].toRecvFd = r.file, ![c].resp = r]
                  = [ev EXCEPT ![c] = page(r)]
      /\ \A r : [Uploaded(c) EXCEPT ![c].resp = r] = [ev EXCEPT ![c] = answered(r)]
      /\ Uploaded(c) = [ev EXCEPT ![c] = h]
  BY <1>2 DEF TypeOK, Uploaded
<1>6. h.state = "live" /\ h.type = "HTTP_REQUEST_UPLOAD" /\ h.resp = ev[c].resp /\ h.parse = "uploaded"
      /\ h.method = ev[c].method /\ h.cgi = ev[c].cgi
  BY <1>2 DEF Events
<1> HIDE DEF h, page, answered
<1>7. ASSUME NEW o \in errorResponses(ev[c].method, FreeFds), o.resp.type = "FLUSH_ERR",
             ev' = [ev EXCEPT ![c] = page(o.resp)], fds' = Opened(o.opened), UNCHANGED server
      PROVE  Fits
  <2>1. FitOK(page(o.resp)) /\ page(o.resp).state = "live" /\ page(o.resp).type # "BUFFER_FLUSH"
    BY <1>4, <1>7 DEF FitOK
  <2>2. Holds(ev[c]) \cup o.opened \subseteq closing' \cup Holds(page(o.resp)) \cup LeftOver(c)'
    BY <1>1, <1>3, <1>4, <1>7, HoldsIs, ErrorOpens
  <2>3. MethodsFit' /\ TrashThere' /\ Reached'
    BY <1>1, <1>7, <2>1, <2>2, ServedChanges
  <2> QED
    BY <1>2, <1>7, <2>3, UpIsFine DEF Fits
<1>8. ASSUME NEW o \in errorResponses(ev[c].method, FreeFds), o.resp.type # "FLUSH_ERR",
             ev' = [ev EXCEPT ![c] = answered(o.resp)], fds' = Opened(o.opened), server' = "unexpected_type"
      PROVE  Fits
  <2>1. ev[c].method = "GET" /\ "GET" \in Methods /\ o.resp.type = "GET"
    BY <1>2, <1>8, ErrorTypes DEF FitOK
  <2>2. FitOK(answered(o.resp)) /\ answered(o.resp).state = "live" /\ answered(o.resp).type # "BUFFER_FLUSH"
    BY <1>2, <1>4, <2>1 DEF FitOK
  <2>3. ev'[c] = answered(o.resp) /\ ~Running'
    BY <1>2, <1>8 DEF TypeOK, Running, Exceptions
  <2>4. o.opened \subseteq LeftOver(c)'
    BY <1>4, <2>1, <2>3, ErrorOpens DEF LeftOver
  <2>5. Holds(ev[c]) \subseteq closing' \cup Holds(answered(o.resp))
    BY <1>1, <1>3, <1>4, HoldsIs
  <2>6. Holds(ev[c]) \cup o.opened \subseteq closing' \cup Holds(answered(o.resp)) \cup LeftOver(c)'
    BY <2>4, <2>5
  <2>7. MethodsFit' /\ TrashThere' /\ Reached'
    BY <1>1, <1>8, <2>2, <2>6, ServedChanges
  <2>8. HaltCauses'
    BY <1>1, <1>8, <2>1 DEF HaltCauses
  <2> QED
    BY <2>7, <2>8 DEF Fits
<1>9. CASE "open" \in Faults /\ server' = "open_failed" /\ ev' = [ev EXCEPT ![c] = h] /\ UNCHANGED fds
  <2>1. FitOK(h) /\ h.state = "live" /\ h.type # "BUFFER_FLUSH"
    BY <1>2, <1>6 DEF FitOK
  <2>2. ~LeakFree /\ fds' = Opened({})
    BY <1>2, <1>9, Leaking
  <2>3. MethodsFit' /\ TrashThere' /\ Reached'
    BY <1>1, <1>9, <2>1, <2>2, ServedChanges
  <2> QED
    BY <1>9, <2>3, OpenFailedIsFine DEF Fits
<1>10. CASE \E o \in errorResponses(ev[c].method, FreeFds) :
              /\ fds' = Opened(o.opened)
              /\ \/ /\ o.resp.type = "FLUSH_ERR"
                    /\ ev' = [Uploaded(c) EXCEPT ![c].type = "HTTP_RESPONSE_DOWNLOAD",
                                                 ![c].toRecvFd = o.resp.file, ![c].resp = o.resp]
                    /\ UNCHANGED server
                 \/ /\ o.resp.type # "FLUSH_ERR" /\ server' = "unexpected_type"
                    /\ ev' = [Uploaded(c) EXCEPT ![c].resp = o.resp]
  BY <1>5, <1>7, <1>8, <1>10
<1> QED
  BY <1>5, <1>9, <1>10 DEF CgiForkFails

\* Two connections flush their bodies to the one TEMP_TRASH.
LEMMA ThrownForTrash ==
  ASSUME Before, NEW c \in Conns, Serve(c, "BUFFER_FLUSH"), ~trash, RemoveTrash, server' = "no_trash",
         NEW r, NEW parse, ev' = [ev EXCEPT ![c].resp = r, ![c].parse = parse]
  PROVE  HaltCauses'
<1>1. /\ TypeOK /\ ev[c] \in Events /\ Live(c) /\ ev[c].state = "live" /\ ev[c].type = "BUFFER_FLUSH" /\ TrashThere
      /\ ~trash'
  BY ServedFit DEF RemoveTrash
<1>2. Live(c)' /\ ev'[c].type = "BUFFER_FLUSH" /\ \A d \in Conns \ {c} : ev'[d] = ev[d]
  BY <1>1 DEF TypeOK, Live, Events
<1>3. CASE "open" \in Faults
  BY <1>3 DEF HaltCauses
<1>4. CASE "open" \notin Faults
  <2>1. PICK o \in Conns \ {c} : ev[o].state # "none"
    BY <1>1, <1>4 DEF TrashThere
  <2>2. Flushing(c)' /\ \E d \in Conns \ {c} : ev'[d].state # "none"
    BY <1>2, <2>1 DEF Flushing
  <2> QED
    BY <1>1, <2>2 DEF HaltCauses
<1> QED
  BY <1>3, <1>4

LEMMA FlushThrows ==
  ASSUME Before, NEW c \in Conns, Serve(c, "BUFFER_FLUSH"), ~trash, RemoveTrash, server' = "no_trash",
         NEW r, NEW parse, ev' = [ev EXCEPT ![c].resp = r, ![c].parse = parse],
         r.type \in {"FLUSH", "FLUSH_ERR", "FREED"}, r.type = "FREED" => "open" \in Faults,
         parse = "bad" => "bad" \in Faults, parse = "closed" => "write" \in Faults,
         NEW S, fds' = Opened(S), closing \subseteq closing', LeakFree => S = {} /\ r = ev[c].resp
  PROVE  Fits
<1> DEFINE t == "BUFFER_FLUSH"
<1>1. t \in {"HTTP_REQUEST_UPLOAD", "BUFFER_FLUSH"} /\ Serve(c, t)
  OBVIOUS
<1> HIDE DEF t
<1>2. MethodsFit' /\ TrashThere' /\ Reached'
  BY <1>1, AnswerFits
<1> QED
  BY <1>2, ThrownForTrash DEF Fits

LEMMA FlushFits ==
  ASSUME Before, NEW c \in Conns, ServeFlush(c)
  PROVE  Fits
<1>1. Serve(c, "BUFFER_FLUSH")
  BY DEF ServeFlush, FlushMore, FlushClosed, FlushBad, FlushDone, Flush
<1>2. /\ TypeOK /\ ev[c] \in Events /\ FitOK(ev[c]) /\ ev[c].type = "BUFFER_FLUSH" /\ server = "up" /\ Opened({}) = fds
      /\ ev[c].method \in {"POST", "PUT"} /\ ev[c].resp.type \in {"FLUSH", "FLUSH_ERR", "FREED"}
  BY <1>1, ServedFit DEF FitOK
<1>3. \A o \in errorResponses(ev[c].method, FreeFds) : o.resp.type = "FLUSH_ERR"
  BY <1>2, ErrorTypes
<1>4. CASE FlushMore(c)
  BY <1>1, <1>2, <1>4, UpIsFine, ServedStays DEF FlushMore
<1>5. CASE FlushClosed(c)
  <2>1. "write" \in Faults /\ ~LeakFree
    BY <1>1, <1>5, UploadStates, Leaking DEF FlushClosed
  <2>2. CASE removeConnection(c, SentFileDeleted(c), closing \cup {ev[c].toSendFd}) /\ UNCHANGED server
    <3>1. ev' = [ev EXCEPT ![c] = NewEvent("freed", NoFd)]
      BY <2>2 DEF removeConnection
    <3>2. MethodsFit' /\ TrashThere'
      BY <1>1, <2>2, ServedFit, RemovalFits
    <3>3. Reached'
      BY <2>1 DEF Reached, LeakFree
    <3> QED
      BY <1>2, <2>2, <3>2, <3>3, UpIsFine DEF Fits
  <2>3. CASE ~trash /\ server' = "no_trash" /\ ev' = [ev EXCEPT ![c].parse = "closed"] /\ UNCHANGED <<fds, closing>>
    <3>1. ev' = [ev EXCEPT ![c].resp = ev[c].resp, ![c].parse = "closed"]
      BY <1>2, <2>3 DEF TypeOK, Events
    <3>2. ev[c].resp.type = "FREED" => "open" \in Faults
      BY <1>2 DEF FitOK
    <3>3. fds' = Opened({}) /\ closing \subseteq closing' /\ RemoveTrash
      BY <1>2, <1>5, <2>3 DEF FlushClosed
    <3> DEFINE r == ev[c].resp
               parse == "closed"
               S == {}
    <3>4. /\ ev' = [ev EXCEPT ![c].resp = r, ![c].parse = parse] /\ fds' = Opened(S) /\ closing \subseteq closing'
          /\ r.type \in {"FLUSH", "FLUSH_ERR", "FREED"} /\ (r.type = "FREED" => "open" \in Faults)
          /\ (parse = "bad" => "bad" \in Faults) /\ (parse = "closed" => "write" \in Faults)
          /\ LeakFree => S = {} /\ r = ev[c].resp
      BY <1>2, <2>1, <3>1, <3>2, <3>3
    <3> HIDE DEF r, parse, S
    <3> QED
      BY <1>1, <2>3, <3>3, <3>4, FlushThrows
  <2> QED
    BY <1>5, <2>2, <2>3 DEF FlushClosed
<1>6. CASE FlushBad(c)
  <2>1. "bad" \in Faults /\ ev[c].resp.type # "FREED" /\ closing \subseteq closing' /\ UNCHANGED closing
    BY <1>1, <1>6, UploadStates DEF FlushBad
  <2>2. ~LeakFree
    BY <2>1, Leaking
  <2>3. ASSUME NEW o \in errorResponses(ev[c].method, FreeFds), redirectUploadError(c, o.resp, "bad"),
               fds' = Opened(o.opened)
        PROVE  Fits
    BY <1>1, <1>3, <2>1, <2>2, <2>3, RedirectFits
  <2>4. ASSUME NEW o \in errorResponses(ev[c].method, FreeFds), fds' = Opened(o.opened), RemoveTrash,
               ~trash, server' = "no_trash", ev' = [ev EXCEPT ![c].parse = "bad", ![c].resp = o.resp]
        PROVE  Fits
    <3>1. ev' = [ev EXCEPT ![c].resp = o.resp, ![c].parse = "bad"]
      BY <1>2, <2>4 DEF TypeOK, Events
    <3>2. o.resp.type = "FLUSH_ERR" /\ closing \subseteq closing'
      BY <1>3, <2>1
    <3> DEFINE r == o.resp
               parse == "bad"
               S == o.opened
    <3>3. /\ ev' = [ev EXCEPT ![c].resp = r, ![c].parse = parse] /\ fds' = Opened(S) /\ closing \subseteq closing'
          /\ r.type \in {"FLUSH", "FLUSH_ERR", "FREED"} /\ (r.type = "FREED" => "open" \in Faults)
          /\ (parse = "bad" => "bad" \in Faults) /\ (parse = "closed" => "write" \in Faults)
          /\ LeakFree => S = {} /\ r = ev[c].resp
      BY <2>1, <2>2, <2>4, <3>1, <3>2
    <3> HIDE DEF r, parse, S
    <3> QED
      BY <1>1, <2>4, <3>3, FlushThrows
  <2>5. CASE ErrorResponseThrows(c, "bad") /\ UNCHANGED <<pending, fds, trash>>
    BY <1>1, <2>1, <2>5, ErrorThrowsFits
  <2> QED
    BY <1>6, <2>3, <2>4, <2>5 DEF FlushBad
<1>7. CASE FlushDone(c)
  <2>1. ev[c].resp.type \in {"FLUSH", "FLUSH_ERR"}
    BY <1>2, <1>7 DEF FlushDone
  <2>2. ASSUME NEW o \in FlushAnswers(c)
        PROVE  /\ o.resp.type \in {"FLUSH", "FLUSH_ERR"}
               /\ LeakFree => o.opened = {} /\ o.resp = ev[c].resp
    <3>1. "big" \in Faults => ~LeakFree
      BY Leaking
    <3>2. CASE o = Outcome(ev[c].resp, {}, {})
      BY <2>1, <3>2 DEF Outcome
    <3>3. CASE "big" \in Faults /\ o \in errorResponses(ev[c].method, FreeFds)
      BY <1>3, <3>1, <3>3
    <3> QED
      BY <3>2, <3>3 DEF FlushAnswers
  <2>3. ASSUME NEW o \in FlushAnswers(c), redirectUploadError(c, o.resp, "uploaded"), fds' = Opened(o.opened),
               closing' = closing \cup {ev[c].toSendFd}
        PROVE  Fits
    <3>1. /\ closing \subseteq closing' /\ o.resp.type \in {"FLUSH", "FLUSH_ERR"}
          /\ LeakFree => o.opened = {} /\ o.resp = ev[c].resp /\ ev[c].toSendFd \in closing'
      BY <2>2, <2>3
    <3> QED
      BY <1>1, <2>3, <3>1, RedirectFits
  <2>4. ASSUME NEW o \in FlushAnswers(c), fds' = Opened(o.opened), RemoveTrash, UNCHANGED closing,
               ~trash, server' = "no_trash", ev' = [ev EXCEPT ![c].parse = "uploaded", ![c].resp = o.resp]
        PROVE  Fits
    <3>1. ev' = [ev EXCEPT ![c].resp = o.resp, ![c].parse = "uploaded"]
      BY <1>2, <2>4 DEF TypeOK, Events
    <3>2. closing \subseteq closing'
      BY <2>4
    <3> DEFINE r == o.resp
               parse == "uploaded"
               S == o.opened
    <3>3. /\ ev' = [ev EXCEPT ![c].resp = r, ![c].parse = parse] /\ fds' = Opened(S) /\ closing \subseteq closing'
          /\ r.type \in {"FLUSH", "FLUSH_ERR", "FREED"} /\ (r.type = "FREED" => "open" \in Faults)
          /\ (parse = "bad" => "bad" \in Faults) /\ (parse = "closed" => "write" \in Faults)
          /\ LeakFree => S = {} /\ r = ev[c].resp
      BY <2>2, <2>4, <3>1, <3>2
    <3> HIDE DEF r, parse, S
    <3> QED
      BY <1>1, <2>4, <3>3, FlushThrows
  <2>5. CASE ErrorResponseThrows(c, "uploaded") /\ UNCHANGED <<pending, fds, closing, trash>>
    BY <1>1, <2>1, <2>5, ErrorThrowsFits
  <2> QED
    BY <1>7, <2>3, <2>4, <2>5 DEF FlushDone
<1> QED
  BY <1>4, <1>5, <1>6, <1>7 DEF ServeFlush

LEMMA DownloadFits ==
  ASSUME Before, NEW c \in Conns, ServeDownload(c)
  PROVE  Fits
<1>1. Serve(c, "HTTP_RESPONSE_DOWNLOAD") /\ UNCHANGED trash
  BY DEF ServeDownload, DownloadMore, DownloadFails, DownloadDone, Download
<1>2. /\ TypeOK /\ ev[c] \in Events /\ FitOK(ev[c]) /\ ev[c].state = "live" /\ server = "up"
      /\ ev[c].type = "HTTP_RESPONSE_DOWNLOAD" /\ Opened({}) = fds
  BY <1>1, ServedFit
<1>3. CASE DownloadMore(c)
  BY <1>1, <1>2, <1>3, UpIsFine, ServedStays DEF DownloadMore
<1>4. CASE DownloadFails(c)
  <2>1. /\ removeConnection(c, ReceivedFileDeleted(c), closing \cup {ev[c].toRecvFd}) /\ UNCHANGED server
        /\ closing \subseteq closing \cup {ev[c].toRecvFd}
    BY <1>4 DEF DownloadFails
  <2>2. "HTTP_RESPONSE_DOWNLOAD" \in Types \ {"CGI_RESPONSE_READABLE", "BUFFER_FLUSH"}
    BY DEF Types
  <2> QED
    BY <1>1, <2>1, <2>2, ServedRemoved
<1>5. CASE DownloadDone(c)
  <2> DEFINE g == [ev[c] EXCEPT !.type = "HTTP_RESPONSE_WRITABLE", !.toSendFd = ev[c].clientFd,
                                !.resp.state = "HTTP_SENDING_STORAGE"]
  <2>1. ev' = [ev EXCEPT ![c] = g]
    BY <1>2, <1>5 DEF DownloadDone, TypeOK
  <2>2. /\ g.state = "live" /\ g.type = "HTTP_RESPONSE_WRITABLE" /\ g.parse = ev[c].parse
        /\ g.resp.type = ev[c].resp.type /\ g.clientFd = ev[c].clientFd
    BY <1>2 DEF Events, Responses
  <2> HIDE DEF g
  <2>3. FitOK(g) /\ g.type # "BUFFER_FLUSH"
    BY <1>2, <2>2 DEF FitOK
  <2>4. closing' = closing \cup {ev[c].toRecvFd} /\ closing \subseteq closing' /\ fds' = Opened({}) /\ UNCHANGED server
    BY <1>2, <1>5 DEF DownloadDone
  <2>5. Holds(ev[c]) \cup {} \subseteq closing' \cup Holds(g) \cup LeftOver(c)'
    BY <1>2, <2>2, <2>4, HoldsIs
  <2>6. MethodsFit' /\ TrashThere' /\ Reached'
    BY <1>1, <2>1, <2>2, <2>3, <2>4, <2>5, ServedChanges
  <2> QED
    BY <1>2, <2>4, <2>6, UpIsFine DEF Fits
<1> QED
  BY <1>3, <1>4, <1>5 DEF ServeDownload

LEMMA CgiReplyFits ==
  ASSUME Before, NEW c \in Conns, CgiReply(c)
  PROVE  Fits
<1>1. Serve(c, "CGI_RESPONSE_READABLE") /\ UNCHANGED <<server, trash>>
  BY DEF CgiReply
<1>2. /\ TypeOK /\ ev[c] \in Events /\ FitOK(ev[c]) /\ ev[c].state = "live" /\ server = "up"
      /\ ev[c].type = "CGI_RESPONSE_READABLE"
  BY <1>1, ServedFit
<1>3. Holds(ev[c]) = {ev[c].clientFd, ev[c].toRecvFd}
  BY <1>2, HoldsIs
<1>4. PICK o \in CgiAnswers \cup (IF "old" \in Faults THEN errorResponses(ev[c].method, FreeFds) ELSE {}) :
        /\ fds' = Opened(o.opened)
        /\ \/ /\ ev' = [ev EXCEPT ![c].type = "HTTP_RESPONSE_DOWNLOAD",
                                  ![c].resp = [o.resp EXCEPT !.file = ev[c].toRecvFd]]
              /\ UNCHANGED closing
           \/ /\ closing' = closing \cup {ev[c].toRecvFd}
              /\ ev' = [ev EXCEPT ![c].type = "HTTP_RESPONSE_WRITABLE",
                                  ![c].toSendFd = ev[c].clientFd, ![c].resp = o.resp]
  BY DEF CgiReply
<1>5. /\ o.resp.type # "FREED" /\ [o.resp EXCEPT !.file = ev[c].toRecvFd].type # "FREED"
      /\ LeakFree => o.opened = {}
  <2>1. CASE o \in CgiAnswers
    BY <2>1 DEF CgiAnswers, Outcome, Response
  <2>2. CASE "old" \in Faults /\ o \in errorResponses(ev[c].method, FreeFds)
    BY <2>2, Leaking DEF errorResponses, errorResponse, Outcome, Response
  <2> QED
    BY <1>4, <2>1, <2>2
\* What has to be shown of the Event g that the handler leaves.
<1>6. ASSUME NEW g, ev' = [ev EXCEPT ![c] = g], g.state = "live", g.parse = ev[c].parse, g.resp.type # "FREED",
             \/ g.type = "HTTP_RESPONSE_DOWNLOAD" /\ g.toRecvFd = ev[c].toRecvFd
             \/ g.type = "HTTP_RESPONSE_WRITABLE" /\ ev[c].toRecvFd \in closing',
             g.clientFd = ev[c].clientFd, closing \subseteq closing'
      PROVE  Fits
  <2>1. FitOK(g) /\ g.type # "BUFFER_FLUSH"
    BY <1>2, <1>6 DEF FitOK
  <2>2. LeakFree => Holds(ev[c]) \cup o.opened \subseteq closing' \cup Holds(g) \cup LeftOver(c)'
    BY <1>3, <1>5, <1>6, HoldsIs
  <2>3. MethodsFit' /\ TrashThere' /\ Reached'
    BY <1>1, <1>4, <1>6, <2>1, <2>2, ServedChanges
  <2> QED
    BY <1>1, <1>2, <2>3, UpIsFine DEF Fits
<1> DEFINE r == [o.resp EXCEPT !.file = ev[c].toRecvFd]
           body == [ev[c] EXCEPT !.type = "HTTP_RESPONSE_DOWNLOAD", !.resp = r]
           none == [ev[c] EXCEPT !.type = "HTTP_RESPONSE_WRITABLE", !.toSendFd = ev[c].clientFd, !.resp = o.resp]
<1>7. r.type # "FREED"
  BY <1>5
<1> HIDE DEF r
<1>8. /\ body.state = "live" /\ body.type = "HTTP_RESPONSE_DOWNLOAD" /\ body.parse = ev[c].parse
      /\ body.resp = r /\ body.clientFd = ev[c].clientFd /\ body.toRecvFd = ev[c].toRecvFd
      /\ none.state = "live" /\ none.type = "HTTP_RESPONSE_WRITABLE" /\ none.parse = ev[c].parse
      /\ none.resp = o.resp /\ none.clientFd = ev[c].clientFd
  BY <1>2 DEF Events
<1>9. CASE ev' = [ev EXCEPT ![c].type = "HTTP_RESPONSE_DOWNLOAD", ![c].resp = r] /\ UNCHANGED closing
  <2>1. ev' = [ev EXCEPT ![c] = body]
    BY <1>2, <1>9 DEF TypeOK
  <2> HIDE DEF body, none
  <2> QED
    BY <1>6, <1>7, <1>8, <1>9, <2>1
<1>10. CASE /\ closing' = closing \cup {ev[c].toRecvFd}
            /\ ev' = [ev EXCEPT ![c].type = "HTTP_RESPONSE_WRITABLE",
                                ![c].toSendFd = ev[c].clientFd, ![c].resp = o.resp]
  <2>1. ev' = [ev EXCEPT ![c] = none]
    BY <1>2, <1>10 DEF TypeOK
  <2>2. ev[c].toRecvFd \in closing' /\ closing \subseteq closing'
    BY <1>10
  <2> HIDE DEF body, none
  <2>3. none.resp.type # "FREED"
    BY <1>5, <1>8
  <2> QED
    BY <1>6, <1>8, <2>1, <2>2, <2>3
<1> QED
  BY <1>4, <1>9, <1>10 DEF r

LEMMA WritableFits ==
  ASSUME Before, NEW c \in Conns, ServeWritable(c)
  PROVE  Fits
<1>1. Serve(c, "HTTP_RESPONSE_WRITABLE") /\ UNCHANGED trash
  BY DEF ServeWritable, SendMore, SendFails, FinishAndClose, FinishAndKeepAlive, Send
<1>2. /\ TypeOK /\ ev[c] \in Events /\ FitOK(ev[c]) /\ ev[c].state = "live" /\ server = "up"
      /\ ev[c].type = "HTTP_RESPONSE_WRITABLE" /\ Opened({}) = fds /\ MethodsFit /\ TrashThere /\ Reached /\ Running
  BY <1>1, ServedFit
<1>3. CASE SendMore(c)
  BY <1>1, <1>2, <1>3, UpIsFine, ServedStays DEF SendMore
<1>4. CASE removeConnection(c, pending, closing) /\ UNCHANGED server
  <2>1. "HTTP_RESPONSE_WRITABLE" \in Types \ {"CGI_RESPONSE_READABLE", "BUFFER_FLUSH"}
    BY DEF Types
  <2> QED
    BY <1>1, <1>4, <2>1, ServedRemoved
<1>5. CASE server' = "sigpipe" /\ "send" \in Faults /\ UNCHANGED <<ev, fds, closing>>
  <2>1. MethodsFit' /\ TrashThere'
    BY <1>1, <1>2, <1>5, NobodyChanges
  <2>2. (\A d \in Conns : Same(d)) /\ ClientFds({}) = {} /\ {} \subseteq Idle
    BY <1>5 DEF Same, ClientFds
  <2>3. Reached'
    BY <1>2, <1>5, <2>2, StillReached
  <2>4. Live(c)' /\ ev'[c].type = "HTTP_RESPONSE_WRITABLE"
    BY <1>2, <1>5 DEF Live
  <2>5. HaltCauses'
    BY <1>5, <2>4 DEF HaltCauses
  <2> QED
    BY <2>1, <2>3, <2>5 DEF Fits
<1>6. CASE FinishAndKeepAlive(c)
  <2>1. ASSUME NEW g, ev' = [ev EXCEPT ![c] = g], FitOK(g), g.state = "live", g.clientFd = ev[c].clientFd, g.type # "BUFFER_FLUSH",
               \/ UNCHANGED server
               \/ server' = "no_files" /\ "cgi" \in Faults
        PROVE  Fits
    <3>1. Holds(ev[c]) \cup {} \subseteq closing' \cup Holds(g) \cup LeftOver(c)'
      BY <1>2, <2>1, HoldsIs
    <3>2. fds' = Opened({}) /\ closing \subseteq closing'
      BY <1>2, <1>6 DEF FinishAndKeepAlive
    <3>3. MethodsFit' /\ TrashThere' /\ Reached'
      BY <1>1, <2>1, <3>1, <3>2, ServedChanges
    <3>4. HaltCauses'
      BY <1>2, <2>1, UpIsFine DEF HaltCauses
    <3> QED
      BY <3>3, <3>4 DEF Fits
  <2>2. CASE ev' = [ev EXCEPT ![c] = Initialized(c)] /\ UNCHANGED server
    <3>1. /\ FitOK(Initialized(c)) /\ Initialized(c).state = "live" /\ Initialized(c).clientFd = ev[c].clientFd
          /\ Initialized(c).type # "BUFFER_FLUSH"
      BY NewEventFits DEF Initialized, NewEvent
    <3> QED
      BY <2>1, <2>2, <3>1
  <2>3. CASE ev' = [ev EXCEPT ![c].resp.state = "HTTP_SENDING_DONE"] /\ server' = "no_files" /\ "cgi" \in Faults
    <3> DEFINE g == [ev[c] EXCEPT !.resp.state = "HTTP_SENDING_DONE"]
    <3>1. ev' = [ev EXCEPT ![c] = g]
      BY <1>2, <2>3 DEF TypeOK
    <3>2. /\ g.state = "live" /\ g.type = "HTTP_RESPONSE_WRITABLE" /\ g.parse = ev[c].parse
          /\ g.resp.type = ev[c].resp.type /\ g.clientFd = ev[c].clientFd
      BY <1>2 DEF Events, Responses
    <3> HIDE DEF g
    <3>3. FitOK(g) /\ g.type # "BUFFER_FLUSH"
      BY <1>2, <3>2 DEF FitOK
    <3> QED
      BY <2>1, <2>3, <3>1, <3>2, <3>3
  <2> QED
    BY <1>6, <2>2, <2>3 DEF FinishAndKeepAlive
<1> QED
  BY <1>3, <1>4, <1>5, <1>6 DEF ServeWritable, SendFails, FinishAndClose

LEMMA DeletesTwiceFits ==
  ASSUME Before, NEW c \in Conns, DeletesTwice(c)
  PROVE  Fits
<1>1. /\ ev[c].resp.type = "FREED" /\ server' = "double_free" /\ UNCHANGED <<ev, fds, closing, trash>>
      /\ FitOK(ev[c])
  BY DEF DeletesTwice, Before, MethodsFit
<1>2. "open" \in Faults /\ ~LeakFree
  BY <1>1, Leaking DEF FitOK
<1>3. MethodsFit' /\ TrashThere'
  BY <1>1, NobodyChanges DEF Before
<1>4. Reached'
  BY <1>2 DEF Reached, LeakFree
<1>5. HaltCauses'
  BY <1>1, <1>2 DEF HaltCauses
<1> QED
  BY <1>3, <1>4, <1>5 DEF Fits

LEMMA ServeFits ==
  ASSUME Before, NEW c \in Conns, ServeOne(c)
  PROVE  Fits
BY ReadableFits, UploadFits, UploadDoneFits, CgiForkFits, FlushFits, DownloadFits, CgiReplyFits,
   WritableFits, DeletesTwiceFits DEF ServeOne, ServeUpload

\* Why the kernel and the routing end the process.
LEMMA KeventHalts ==
  ASSUME IInv, Kevent
  PROVE  HaltCauses'
<1>1. PICK ready \in SUBSET {k \in Keys : kq[k].st = "on"} :
        \E hups : server' = Touched(Returned(ready, hups))
  BY DEF Kevent
<1>2. PICK hups : server' = Touched(Returned(ready, hups))
  BY <1>1
<1>3. pending = EmptyList
  BY DEF Kevent
<1> DEFINE got == Returned(ready, hups)
<1>4. \A b \in got : \/ \E k \in ready : b.ev = kq[k].ev
                     \/ \E e \in errs : b.ev = e.ev
  BY DEF Returned
<1>5. \A k \in ready : kq[k].ev # Null /\ StillThere(kq[k].ev)
  <2>1. SUFFICES ASSUME NEW k \in ready PROVE kq[k].ev # Null /\ StillThere(kq[k].ev)
    OBVIOUS
  <2>2. k \in Keys /\ kq[k].st = "on"
    OBVIOUS
  <2>3. Effective(k) = kq[k]
    BY <1>3, <2>2 DEF Effective, EmptyList
  <2> QED
    BY <2>2, <2>3 DEF IInv, RegistrationsBorn
<1>6. \A e \in errs : e.ev = Null /\ "read" \in Faults
  BY DEF IInv, ErrorsAreDeletes
<1>7. Touched(got) = "null_udata" => "read" \in Faults
  BY <1>4, <1>5, <1>6 DEF Touched
<1>8. Touched(got) = "freed_event" => "cgi" \in Faults
  BY <1>4, <1>5, <1>6 DEF Touched, StillThere
<1>9. Touched(got) \in {"up", "null_udata", "freed_event"}
  BY DEF Touched
<1> HIDE DEF got
<1> QED
  BY <1>2, <1>7, <1>8, <1>9 DEF HaltCauses, got

LEMMA RouteHalts ==
  ASSUME JInv, NEW b \in batch, RouteOne(b)
  PROVE  HaltCauses'
<1>1. server = "up" /\ Live(b.ev)
  BY DEF RouteOne, RouteEof, StillReceiving, ReceiveError, ReceiveDone, ParsingFails, RouteOther, Route
<1>2. CASE ReceiveError(b)
  BY <1>2, UpIsFine DEF ReceiveError, HaltCauses
<1>3. CASE UNCHANGED server
  BY <1>1, <1>3, UpIsFine
<1>4. CASE server' = "endless" /\ "bad" \in Faults
  BY <1>4 DEF HaltCauses, Malformed
<1>5. CASE server' = "bad_seek" /\ Replied(b.ev) /\ UNCHANGED ev
  <2>1. b.ev \in Conns /\ routed[b.ev] = 0 /\ ev[b.ev].state # "none"
    BY <1>1 DEF JInv, IInv, TypeOK, DispatchOnce, Live
  <2>2. Faults \cap Throwing = {} => \E d \in Conns \ {b.ev} : ev[d].state # "none"
    BY <1>5, <2>1 DEF JInv, RepliesServed
  <2> QED
    BY <1>5, <2>1, <2>2 DEF HaltCauses
<1>6. ParsingFails(b) => \/ server' = "endless" /\ "bad" \in Faults
                         \/ server' = "bad_seek" /\ Replied(b.ev) /\ UNCHANGED ev
  BY <1>1 DEF ParsingFails, Replied
<1> QED
  BY <1>2, <1>3, <1>4, <1>5, <1>6 DEF RouteOne, RouteEof, StillReceiving, ReceiveDone, RouteOther

-----------------------------------------------------------------------------
(* A CGI response that was parsed waits to be served, unless a reboot came *)

LEMMA RepliesKept ==
  ASSUME RepliesServed,
         \A d \in Conns :
           /\ ev[d].state # "none" => ev'[d].state # "none"
           /\ Replied(d)' => (Replied(d) /\ routed'[d] = routed[d]) \/ routed'[d] > 0
  PROVE  RepliesServed'
<1> SUFFICES ASSUME Faults \cap Throwing = {}, NEW c \in Conns, Replied(c)', ~(routed'[c] > 0)
             PROVE  \E d \in Conns \ {c} : ev'[d].state # "none"
  BY DEF RepliesServed
<1>1. PICK d \in Conns \ {c} : ev[d].state # "none"
  BY DEF RepliesServed
<1> QED
  BY <1>1

LEMMA RouteReplies ==
  ASSUME IInv, RepliesServed, NEW b \in batch, RouteOne(b)
  PROVE  RepliesServed'
<1>1. /\ b.ev \in Conns /\ ev \in [Conns -> Events] /\ routed \in [Conns -> Nat] /\ ev[b.ev] \in Events
      /\ ev[b.ev].state = "live"
  BY DEF IInv, TypeOK, RouteOne, RouteEof, StillReceiving, ReceiveError, ReceiveDone, ParsingFails, RouteOther, Route, Live
<1>2. CASE ev' = [ev EXCEPT ![b.ev] = NewEvent("freed", NoFd)] /\ UNCHANGED routed
  <2>1. ev'[b.ev] = NewEvent("freed", NoFd) /\ \A d \in Conns \ {b.ev} : ev'[d] = ev[d]
    BY <1>1, <1>2
  <2>2. ev'[b.ev].state = "freed"
    BY <2>1, NewEventFits
  <2> QED
    BY <1>2, <2>1, <2>2, RepliesKept DEF Replied, Live
<1>3. CASE UNCHANGED <<ev, routed>>
  BY <1>3, RepliesKept DEF Replied, Live
<1>4. CASE routed' = [routed EXCEPT ![b.ev] = @ + 1]
  <2>1. routed'[b.ev] = routed[b.ev] + 1 /\ \A d \in Conns \ {b.ev} : routed'[d] = routed[d]
    BY <1>1, <1>4
  <2>2. routed[b.ev] \in Nat
    BY <1>1
  <2>3. routed'[b.ev] > 0
    BY <2>1, <2>2
  <2>4. ev'[b.ev].state = "live" /\ \A d \in Conns \ {b.ev} : ev'[d] = ev[d]
    <3>1. CASE UNCHANGED ev
      BY <1>1, <3>1
    <3>2. CASE ev' = [ev EXCEPT ![b.ev].parse = "answered"]
      BY <1>1, <3>2 DEF Events
    <3>3. ASSUME NEW m, NEW cgi, NEW p,
                 ev' = [ev EXCEPT ![b.ev].method = m, ![b.ev].cgi = cgi, ![b.ev].parse = p]
          PROVE  ev'[b.ev].state = "live" /\ \A d \in Conns \ {b.ev} : ev'[d] = ev[d]
      BY <1>1, <3>3 DEF Events
    <3>4. ASSUME RequestParsed(b.ev), ev' # ev
          PROVE  \E m, cgi, p : ev' = [ev EXCEPT ![b.ev].method = m, ![b.ev].cgi = cgi, ![b.ev].parse = p]
      <4>1. PICK m \in Methods \cup {"NOT_IMPL"}, cgi \in BOOLEAN, p \in {"uploading", "unending", "bad"} :
              ev' = [ev EXCEPT ![b.ev].method = m, ![b.ev].cgi = cgi, ![b.ev].parse = p]
        BY <3>4 DEF RequestParsed
      <4> QED
        BY <4>1
    <3>5. UNCHANGED ev \/ ev' = [ev EXCEPT ![b.ev].parse = "answered"] \/ RequestParsed(b.ev)
            \/ (UNCHANGED routed /\ routed' # routed)
      BY <1>4, <2>1, <2>2 DEF RouteOne, RouteEof, StillReceiving, ReceiveError, ReceiveDone, ParsingFails, RouteOther
    <3> QED
      BY <3>1, <3>2, <3>3, <3>4, <3>5
  <2> QED
    BY <2>1, <2>3, <2>4, RepliesKept DEF Replied, Live
<1> QED
  BY <1>2, <1>3, <1>4 DEF RouteOne, RouteEof, StillReceiving, ReceiveError, ReceiveDone, ParsingFails, RouteOther,
                          removeConnection

LEMMA KernelReplies ==
  ASSUME JInv,
         \/ \E c \in Conns : Age(c)
         \/ ApplyChanges \/ Kevent \/ KeventTimeout \/ addConnection \/ AcceptFails \/ Reboot
  PROVE  RepliesServed'
<1>1. ev \in [Conns -> Events] /\ RepliesServed /\ HaltCauses
  BY DEF JInv, IInv, TypeOK
\* What has to be shown of the steps that dispatch nothing.
<1>2. ASSUME UNCHANGED routed,
             \A d \in Conns :
               \/ ev'[d].state = ev[d].state /\ ev'[d].type = ev[d].type /\ ev'[d].parse = ev[d].parse
               \/ \E st \in {"live", "freed"} : \E fd : ev'[d] = NewEvent(st, fd)
      PROVE  RepliesServed'
  <2>1. \A d \in Conns : /\ ev[d].state # "none" => ev'[d].state # "none"
                         /\ Replied(d)' => Replied(d)
    BY <1>2, NewEventFits DEF Replied, Live
  <2> QED
    BY <1>1, <1>2, <2>1, RepliesKept
<1>3. CASE (\E c \in Conns : Age(c)) \/ ApplyChanges \/ Kevent
  <2>1. UNCHANGED routed
    BY <1>3 DEF Age, ApplyChanges, Kevent
  <2>2. \A d \in Conns : ev'[d] = ev[d] \/ \E s \in BOOLEAN : ev'[d] = [ev[d] EXCEPT !.stale = s]
    <3>1. ASSUME NEW c \in Conns, Age(c), NEW d \in Conns
          PROVE  ev'[d] = ev[d] \/ ev'[d] = [ev[d] EXCEPT !.stale = TRUE]
      BY <1>1, <3>1 DEF Age
    <3>2. ASSUME Kevent, NEW d \in Conns
          PROVE  ev'[d] = ev[d] \/ ev'[d] = [ev[d] EXCEPT !.stale = FALSE]
      BY <1>1, <3>2 DEF Kevent, Stamped
    <3>3. ApplyChanges => UNCHANGED ev
      BY DEF ApplyChanges
    <3>4. TRUE \in BOOLEAN /\ FALSE \in BOOLEAN
      OBVIOUS
    <3>5. CASE ApplyChanges
      BY <3>3, <3>5
    <3>6. CASE Kevent
      BY <3>2, <3>4, <3>6
    <3>7. CASE \E c \in Conns : Age(c)
      BY <3>1, <3>4, <3>7
    <3> QED
      BY <1>3, <3>5, <3>6, <3>7
  <2>3. ASSUME NEW d \in Conns
        PROVE  ev'[d].state = ev[d].state /\ ev'[d].type = ev[d].type /\ ev'[d].parse = ev[d].parse
    <3>1. ev[d] \in Events
      BY <1>1
    <3>2. ASSUME NEW s \in BOOLEAN, ev'[d] = [ev[d] EXCEPT !.stale = s]
          PROVE  ev'[d].state = ev[d].state /\ ev'[d].type = ev[d].type /\ ev'[d].parse = ev[d].parse
      BY <3>1, <3>2 DEF Events
    <3>3. CASE ev'[d] = ev[d]
      BY <3>3
    <3> QED
      BY <2>2, <3>2, <3>3
  <2> QED
    BY <1>2, <2>1, <2>3
<1>4. CASE KeventTimeout \/ AcceptFails \/ addConnection
  <2>1. UNCHANGED routed
    BY <1>4 DEF KeventTimeout, AcceptFails, addConnection, CheckTimeoutAndAccept
  <2>2. \A d \in Conns : ev'[d] = ev[d] \/ \E st \in {"live", "freed"} : \E fd : ev'[d] = NewEvent(st, fd)
    BY <1>1, <1>4 DEF KeventTimeout, AcceptFails, addConnection, Evicted
  <2> QED
    BY <1>2, <2>1, <2>2
<1>5. CASE Reboot
  <2>1. server \in Exceptions /\ UNCHANGED ev
    BY <1>5 DEF Reboot
  <2>2. Faults \cap Throwing = {} => server \in {"no_trash", "bad_seek"} /\ "open" \notin Faults
    BY <1>1, <2>1 DEF HaltCauses, Exceptions, Throwing
  <2>3. Faults \cap Throwing = {} => \E c, d \in Conns : c # d /\ ev[c].state # "none" /\ ev[d].state # "none"
    <3>1. ASSUME NEW c \in Conns, Flushing(c) PROVE ev[c].state # "none"
      BY <3>1 DEF Flushing, Live
    <3> QED
      BY <1>1, <2>2, <3>1 DEF HaltCauses
  <2> QED
    BY <2>1, <2>3 DEF RepliesServed
<1> QED
  BY <1>3, <1>4, <1>5

\* A handler never leaves its own Event with a parsed CGI response to be routed.
LEMMA ServeReplies ==
  ASSUME IInv, RepliesServed, NEW c \in Conns, ServeOne(c)
  PROVE  RepliesServed'
<1>1. /\ ev \in [Conns -> Events] /\ routed \in [Conns -> Nat] /\ ev[c] \in Events
  BY DEF IInv, TypeOK
<1>2. ASSUME NEW g, ev' = [ev EXCEPT ![c] = g], g.state # "none",
             g.type # "CGI_RESPONSE_READABLE" \/ g.parse # "answered",
             UNCHANGED routed \/ routed' = [routed EXCEPT ![c] = @ - 1]
      PROVE  RepliesServed'
  <2>1. /\ ev'[c] = g
        /\ \A d \in Conns \ {c} : ev'[d] = ev[d] /\ routed'[d] = routed[d]
    BY <1>1, <1>2
  <2> QED
    BY <1>2, <2>1, RepliesKept DEF Replied, Live
<1>3. UNCHANGED routed \/ routed' = [routed EXCEPT ![c] = @ - 1]
  <2>1. DeletesTwice(c) => UNCHANGED routed
    BY DEF DeletesTwice
  <2>2. ASSUME NEW t, Serve(c, t) PROVE routed' = [routed EXCEPT ![c] = @ - 1]
    BY <2>2 DEF Serve
  <2> QED
    BY <2>1, <2>2 DEF ServeOne, ServeReadable, BeginCgi, ProcessRequest, ProcessRequestThrows, LookupNeverEnds,
       ServeUpload, UploadMore, UploadClosed, UploadBad, UploadedFile, CgiStarted, CgiForkFails, UploadDone, Upload,
       ServeFlush, FlushMore, FlushClosed, FlushBad, FlushDone, Flush,
       ServeDownload, DownloadMore, DownloadFails, DownloadDone, Download, CgiReply,
       ServeWritable, SendMore, SendFails, FinishAndClose, FinishAndKeepAlive, Send
<1>4. ev[c].state = "live"
  <2>1. ASSUME NEW t, Serve(c, t) PROVE Live(c)
    BY <2>1 DEF Serve
  <2> QED
    BY <2>1 DEF Live, ServeOne, ServeReadable, BeginCgi, ProcessRequest, ProcessRequestThrows, LookupNeverEnds,
       ServeUpload, UploadMore, UploadClosed, UploadBad, UploadedFile, CgiStarted, CgiForkFails, UploadDone, Upload,
       ServeFlush, FlushMore, FlushClosed, FlushBad, FlushDone, Flush,
       ServeDownload, DownloadMore, DownloadFails, DownloadDone, Download, CgiReply,
       ServeWritable, SendMore, SendFails, FinishAndClose, FinishAndKeepAlive, Send, DeletesTwice
<1>5. ASSUME UNCHANGED ev, ev[c].type # "CGI_RESPONSE_READABLE"
      PROVE  RepliesServed'
  <2>1. ev' = [ev EXCEPT ![c] = ev[c]]
    BY <1>1, <1>5
  <2> QED
    BY <1>2, <1>3, <1>4, <1>5, <2>1
<1>6. ASSUME NEW p, NEW cl, removeConnection(c, p, cl) PROVE RepliesServed'
  <2>1. ev' = [ev EXCEPT ![c] = NewEvent("freed", NoFd)]
    BY <1>6 DEF removeConnection
  <2>2. NewEvent("freed", NoFd).state # "none" /\ NewEvent("freed", NoFd).type # "CGI_RESPONSE_READABLE"
    BY NewEventFits
  <2> QED
    BY <1>2, <1>3, <2>1, <2>2
\* The fields that matter of an Event that a handler changes.
<1>7. ASSUME ev'[c].state = "live", ev'[c].type # "CGI_RESPONSE_READABLE" \/ ev'[c].parse # "answered",
             ev' = [ev EXCEPT ![c] = ev'[c]]
      PROVE  RepliesServed'
  BY <1>2, <1>3, <1>7
<1>8. CASE ServeReadable(c)
  <2>1. CASE ProcessRequestThrows(c) \/ LookupNeverEnds(c)
    BY <1>5, <2>1 DEF ProcessRequestThrows, LookupNeverEnds, Serve
  <2>2. CASE BeginCgi(c)
    <3>1. ASSUME NEW f, ev' = [ev EXCEPT ![c].type = "HTTP_REQUEST_UPLOAD", ![c].toSendFd = f]
          PROVE  RepliesServed'
      <4>1. ev' = [ev EXCEPT ![c] = ev'[c]] /\ ev'[c].state = "live" /\ ev'[c].type = "HTTP_REQUEST_UPLOAD"
        BY <1>1, <1>4, <3>1 DEF Events
      <4> QED
        BY <1>7, <4>1
    <3>2. CASE UNCHANGED ev
      BY <1>5, <2>2, <3>2 DEF BeginCgi, Serve
    <3> QED
      BY <2>2, <3>1, <3>2 DEF BeginCgi
  <2>3. CASE ProcessRequest(c)
    <3>1. PICK o : BeginResponse(c, o)
      BY <2>3 DEF ProcessRequest
    <3>2. NextType(o.resp) # "CGI_RESPONSE_READABLE"
      BY DEF NextType
    <3> DEFINE e == [ev EXCEPT ![c].resp = o.resp, ![c].type = NextType(o.resp)]
    <3>3. e = [ev EXCEPT ![c] = e[c]] /\ e[c].state = "live" /\ e[c].type = NextType(o.resp)
      BY <1>1, <1>4 DEF Events
    <3>4. \A fd : LET f == [e EXCEPT ![c].toSendFd = fd]
                      r == [e EXCEPT ![c].toRecvFd = fd]
                  IN /\ f = [ev EXCEPT ![c] = f[c]] /\ f[c].state = "live" /\ f[c].type = NextType(o.resp)
                     /\ r = [ev EXCEPT ![c] = r[c]] /\ r[c].state = "live" /\ r[c].type = NextType(o.resp)
      BY <1>1, <1>4 DEF Events
    <3>5. \/ ev' = e
          \/ \E fd : ev' = [e EXCEPT ![c].toSendFd = fd] \/ ev' = [e EXCEPT ![c].toRecvFd = fd]
      BY <3>1 DEF BeginResponse
    <3> HIDE DEF e
    <3>6. ev' = [ev EXCEPT ![c] = ev'[c]] /\ ev'[c].state = "live" /\ ev'[c].type = NextType(o.resp)
      BY <3>3, <3>4, <3>5
    <3> QED
      BY <1>7, <3>2, <3>6
  <2> QED
    BY <1>8, <2>1, <2>2, <2>3 DEF ServeReadable
\* redirectUploadError and ErrorResponseThrows keep the type or set another one.
<1>9. ASSUME ev[c].type \in {"HTTP_REQUEST_UPLOAD", "BUFFER_FLUSH"}, NEW r, NEW q, redirectUploadError(c, r, q)
      PROVE  RepliesServed'
  <2> DEFINE e == [ev EXCEPT ![c].resp = r, ![c].parse = q]
  <2>1. e = [ev EXCEPT ![c] = e[c]] /\ e[c].state = "live" /\ e[c].type = ev[c].type
    BY <1>1, <1>4 DEF Events
  <2>2. \A fd :
          LET f == [e EXCEPT ![c].type = "HTTP_RESPONSE_WRITABLE", ![c].toSendFd = fd]
              g == [e EXCEPT ![c].type = "HTTP_RESPONSE_DOWNLOAD", ![c].toRecvFd = fd]
          IN  /\ f = [ev EXCEPT ![c] = f[c]] /\ f[c].state = "live" /\ f[c].type # "CGI_RESPONSE_READABLE"
              /\ g = [ev EXCEPT ![c] = g[c]] /\ g[c].state = "live" /\ g[c].type # "CGI_RESPONSE_READABLE"
    BY <1>1, <1>4 DEF Events
  <2>3. \/ ev' = e
        \/ \E fd : \/ ev' = [e EXCEPT ![c].type = "HTTP_RESPONSE_WRITABLE", ![c].toSendFd = fd]
                  \/ ev' = [e EXCEPT ![c].type = "HTTP_RESPONSE_DOWNLOAD", ![c].toRecvFd = fd]
    BY <1>9 DEF redirectUploadError
  <2> HIDE DEF e
  <2>4. CASE ev' = e
    BY <1>7, <1>9, <2>1, <2>4
  <2>5. ASSUME NEW fd, \/ ev' = [e EXCEPT ![c].type = "HTTP_RESPONSE_WRITABLE", ![c].toSendFd = fd]
                       \/ ev' = [e EXCEPT ![c].type = "HTTP_RESPONSE_DOWNLOAD", ![c].toRecvFd = fd]
        PROVE  RepliesServed'
    <3>1. ev' = [ev EXCEPT ![c] = ev'[c]] /\ ev'[c].state = "live" /\ ev'[c].type # "CGI_RESPONSE_READABLE"
      BY <2>2, <2>5
    <3> QED
      BY <1>7, <3>1
  <2> QED
    BY <2>3, <2>4, <2>5
<1>10. ASSUME ev[c].type \in {"HTTP_REQUEST_UPLOAD", "BUFFER_FLUSH"}, NEW r, NEW q,
              ev' = [ev EXCEPT ![c].resp = r, ![c].parse = q]
       PROVE  RepliesServed'
  <2>1. ev' = [ev EXCEPT ![c] = ev'[c]] /\ ev'[c].state = "live" /\ ev'[c].type # "CGI_RESPONSE_READABLE"
    BY <1>1, <1>4, <1>10 DEF Events
  <2> QED
    BY <1>7, <2>1
<1>11. CASE ServeUpload(c)
  <2>1. ev[c].type = "HTTP_REQUEST_UPLOAD"
    BY <1>11 DEF ServeUpload, UploadMore, UploadClosed, UploadBad, UploadedFile, CgiStarted, CgiForkFails, UploadDone,
                 Upload, Serve
  <2>2. CASE UploadMore(c)
    BY <1>5, <2>1, <2>2 DEF UploadMore
  <2>3. CASE UploadClosed(c)
    BY <1>6, <2>3 DEF UploadClosed
  <2>4. CASE UploadBad(c)
    BY <1>9, <1>10, <2>1, <2>4 DEF UploadBad, ErrorResponseThrows
  <2> DEFINE h == [ev[c] EXCEPT !.parse = "uploaded"]
  <2>5. Uploaded(c) = [ev EXCEPT ![c] = h] /\ h \in Events /\ h.state = "live" /\ h.type = "HTTP_REQUEST_UPLOAD"
        /\ h.parse = "uploaded"
    BY <1>1, <1>4, <2>1 DEF Uploaded, Events
  <2> HIDE DEF h
  <2>6. CASE UploadedFile(c)
    <3>1. ev' = [[ev EXCEPT ![c] = h] EXCEPT ![c].type = "HTTP_RESPONSE_WRITABLE", ![c].toSendFd = ev[c].clientFd]
      BY <2>5, <2>6 DEF UploadedFile
    <3>2. ev' = [ev EXCEPT ![c] = ev'[c]] /\ ev'[c].state = "live" /\ ev'[c].type = "HTTP_RESPONSE_WRITABLE"
      BY <1>1, <2>5, <3>1 DEF Events
    <3> QED
      BY <1>7, <3>2
  <2>7. CASE CgiStarted(c)
    <3>1. ASSUME NEW f, ev' = [Uploaded(c) EXCEPT ![c].type = "CGI_RESPONSE_READABLE", ![c].toRecvFd = f, ![c].pid = TRUE]
          PROVE  RepliesServed'
      <4>1. ev' = [ev EXCEPT ![c] = ev'[c]] /\ ev'[c].state = "live" /\ ev'[c].parse = "uploaded"
        BY <1>1, <2>5, <3>1 DEF Events
      <4> QED
        BY <1>7, <4>1
    <3>2. CASE ev' = [Uploaded(c) EXCEPT ![c].pid = TRUE]
      <4>1. ev' = [ev EXCEPT ![c] = ev'[c]] /\ ev'[c].state = "live" /\ ev'[c].parse = "uploaded"
        BY <1>1, <2>5, <3>2 DEF Events
      <4> QED
        BY <1>7, <4>1
    <3> QED
      BY <2>7, <3>1, <3>2 DEF CgiStarted
  <2>8. CASE CgiForkFails(c)
    <3>1. ASSUME NEW f, NEW r,
                 \/ ev' = [Uploaded(c) EXCEPT ![c].type = "HTTP_RESPONSE_DOWNLOAD", ![c].toRecvFd = f, ![c].resp = r]
                 \/ ev' = [Uploaded(c) EXCEPT ![c].resp = r]
                 \/ ev' = Uploaded(c)
          PROVE  RepliesServed'
      <4>1. ev' = [ev EXCEPT ![c] = ev'[c]] /\ ev'[c].state = "live" /\ ev'[c].parse = "uploaded"
        BY <1>1, <2>5, <3>1 DEF Events
      <4> QED
        BY <1>7, <4>1
    <3> QED
      BY <2>8, <3>1 DEF CgiForkFails
  <2> QED
    BY <1>11, <2>2, <2>3, <2>4, <2>6, <2>7, <2>8 DEF ServeUpload
<1>12. CASE ServeFlush(c)
  <2>1. ev[c].type = "BUFFER_FLUSH"
    BY <1>12 DEF ServeFlush, FlushMore, FlushClosed, FlushBad, FlushDone, Flush, Serve
  <2>2. CASE FlushMore(c)
    BY <1>5, <2>1, <2>2 DEF FlushMore
  <2>3. CASE FlushClosed(c)
    <3>1. CASE ev' = [ev EXCEPT ![c].parse = "closed"]
      <4>1. ev' = [ev EXCEPT ![c] = ev'[c]] /\ ev'[c].state = "live" /\ ev'[c].type = "BUFFER_FLUSH"
        BY <1>1, <1>4, <2>1, <3>1 DEF Events
      <4> QED
        BY <1>7, <4>1
    <3> QED
      BY <1>6, <2>3, <3>1 DEF FlushClosed
  <2>4. ASSUME NEW r, NEW q, ev' = [ev EXCEPT ![c].parse = q, ![c].resp = r]
        PROVE  RepliesServed'
    <3>1. ev' = [ev EXCEPT ![c] = ev'[c]] /\ ev'[c].state = "live" /\ ev'[c].type = "BUFFER_FLUSH"
      BY <1>1, <1>4, <2>1, <2>4 DEF Events
    <3> QED
      BY <1>7, <3>1
  <2>5. CASE FlushBad(c)
    BY <1>9, <1>10, <2>1, <2>4, <2>5 DEF FlushBad, ErrorResponseThrows
  <2>6. CASE FlushDone(c)
    BY <1>9, <1>10, <2>1, <2>4, <2>6 DEF FlushDone, ErrorResponseThrows
  <2> QED
    BY <1>12, <2>2, <2>3, <2>5, <2>6 DEF ServeFlush
<1>13. CASE ServeDownload(c)
  <2>1. CASE DownloadMore(c)
    BY <1>5, <2>1 DEF DownloadMore, Download, Serve
  <2>2. CASE DownloadFails(c)
    BY <1>6, <2>2 DEF DownloadFails
  <2>3. CASE DownloadDone(c)
    <3>1. ev' = [ev EXCEPT ![c].type = "HTTP_RESPONSE_WRITABLE", ![c].toSendFd = ev[c].clientFd,
                           ![c].resp.state = "HTTP_SENDING_STORAGE"]
      BY <2>3 DEF DownloadDone
    <3>2. ev' = [ev EXCEPT ![c] = ev'[c]] /\ ev'[c].state = "live" /\ ev'[c].type = "HTTP_RESPONSE_WRITABLE"
      BY <1>1, <1>4, <3>1 DEF Events
    <3> QED
      BY <1>7, <3>2
  <2> QED
    BY <1>13, <2>1, <2>2, <2>3 DEF ServeDownload
<1>14. CASE CgiReply(c)
  <2>1. ASSUME NEW r,
               \/ ev' = [ev EXCEPT ![c].type = "HTTP_RESPONSE_DOWNLOAD", ![c].resp = r]
               \/ ev' = [ev EXCEPT ![c].type = "HTTP_RESPONSE_WRITABLE", ![c].toSendFd = ev[c].clientFd, ![c].resp = r]
        PROVE  RepliesServed'
    <3>1. ev' = [ev EXCEPT ![c] = ev'[c]] /\ ev'[c].state = "live" /\ ev'[c].type # "CGI_RESPONSE_READABLE"
      BY <1>1, <1>4, <2>1 DEF Events
    <3> QED
      BY <1>7, <3>1
  <2> QED
    BY <1>14, <2>1 DEF CgiReply
<1>15. CASE ServeWritable(c)
  <2>1. CASE SendMore(c)
    BY <1>5, <2>1 DEF SendMore, Send, Serve
  <2>2. CASE SendFails(c)
    BY <1>5, <1>6, <2>2 DEF SendFails, Send, Serve
  <2>3. CASE FinishAndClose(c)
    BY <1>6, <2>3 DEF FinishAndClose
  <2>4. CASE FinishAndKeepAlive(c)
    <3>1. CASE ev' = [ev EXCEPT ![c] = Initialized(c)]
      <4>1. Initialized(c).state # "none" /\ Initialized(c).type # "CGI_RESPONSE_READABLE"
        BY NewEventFits DEF Initialized
      <4> QED
        BY <1>2, <1>3, <3>1, <4>1
    <3>2. CASE ev' = [ev EXCEPT ![c].resp.state = "HTTP_SENDING_DONE"]
      <4>1. ev[c].type = "HTTP_RESPONSE_WRITABLE"
        BY <2>4 DEF FinishAndKeepAlive, Send, Serve
      <4>2. ev' = [ev EXCEPT ![c] = ev'[c]] /\ ev'[c].state = "live" /\ ev'[c].type = "HTTP_RESPONSE_WRITABLE"
        BY <1>1, <1>4, <3>2, <4>1 DEF Events
      <4> QED
        BY <1>7, <4>2
    <3> QED
      BY <2>4, <3>1, <3>2 DEF FinishAndKeepAlive
  <2> QED
    BY <1>15, <2>1, <2>2, <2>3, <2>4 DEF ServeWritable
<1>16. CASE DeletesTwice(c)
  BY <1>5, <1>16 DEF DeletesTwice
<1> QED
  BY <1>8, <1>11, <1>12, <1>13, <1>14, <1>15, <1>16 DEF ServeOne

LEMMA LayerStep ==
  ASSUME JInv, [Next]_vars
  PROVE  MethodsFit' /\ TrashThere' /\ Reached' /\ RepliesServed' /\ HaltCauses'
<1>1. Before
  BY InvIsParts DEF JInv, Before
<1>2. CASE UNCHANGED vars
  BY <1>2 DEF JInv, vars, MethodsFit, TrashThere, Reached, HaltCauses, Live, LeftOver, Running, RepliesServed, Replied,
              Flushing
<1>3. CASE (\E c \in Conns : Age(c)) \/ ApplyChanges \/ KeventTimeout \/ addConnection \/ Reboot \/ AcceptFails \/ Kevent
  <2>1. MethodsFit' /\ TrashThere' /\ Reached' /\ RepliesServed'
    BY <1>1, <1>3, KernelFits, KernelReached, KernelReplies DEF Before
  <2>2. CASE Kevent
    BY <2>1, <2>2, KeventHalts DEF JInv
  <2>3. CASE AcceptFails
    BY <2>1, <2>3 DEF AcceptFails, CheckTimeoutAndAccept, HaltCauses
  <2>4. CASE server' = "up"
    BY <2>1, <2>4, UpIsFine
  <2> QED
    BY <1>3, <2>2, <2>3, <2>4 DEF Age, ApplyChanges, KeventTimeout, addConnection, CheckTimeoutAndAccept, Reboot, Waiting
<1>4. CASE \E b \in batch : RouteOne(b)
  BY <1>1, <1>4, RouteFits, RouteReached, RouteReplies, RouteHalts DEF Before, JInv
<1>5. CASE \E c \in Conns : ServeOne(c)
  BY <1>1, <1>5, ServeFits, ServeReplies DEF Fits, JInv
<1> QED
  BY <1>2, <1>3, <1>4, <1>5 DEF Next

LEMMA LayerInit == Init => MethodsFit /\ TrashThere /\ Reached /\ RepliesServed /\ HaltCauses
<1> SUFFICES ASSUME Init PROVE MethodsFit /\ TrashThere /\ Reached /\ RepliesServed /\ HaltCauses
  OBVIOUS
<1>1. \A c \in Conns : ev[c] = NewEvent("none", NoFd)
  BY DEF Init
<1>2. MethodsFit /\ \A c \in Conns : ~Live(c)
  BY <1>1, NewEventFits DEF MethodsFit, Live
<1>3. HaltCauses
  BY DEF Init, HaltCauses
<1>4. \A f \in Fds : fds[f] = "free"
  BY DEF Init
<1> QED
  BY <1>2, <1>3, <1>4 DEF TrashThere, Reached, RepliesServed, Replied

\* The invariant with its second layer, the fitness of requests, the trash file,
\* the reach of descriptors and the parsed CGI responses, is inductive too.
THEOREM SecondLayer == Spec => []JInv
<1>1. Spec => []IInv
  BY InvariantHolds
<1>2. Init /\ IInv => JInv
  BY LayerInit DEF JInv
<1>3. JInv /\ [Next]_vars /\ IInv' => JInv'
  BY LayerStep DEF JInv
<1> QED
  BY <1>1, <1>2, <1>3, PTL DEF Spec

\* Each end, standstill and reboot of the model takes the failure or the connections
\* that HaltCauses names for it; without these the server stays up.
THEOREM EveryEndHasItsCause == Spec => []HaltCauses
<1>1. JInv => HaltCauses
  BY DEF JInv
<1> QED
  BY <1>1, SecondLayer, PTL

LEMMA LayerKeepsAll == JInv => NoLeak
<1> SUFFICES ASSUME JInv, LeakFree, NEW f \in Fds, fds[f] # "free", f \notin closing
             PROVE  f \in Reachable
  BY DEF NoLeak, LeakFree, Reachable
<1>1. PICK c \in Conns : Live(c) /\ f \in Holds(ev[c]) \cup LeftOver(c)
  BY DEF JInv, Reached
<1>2. FileOf(ev[c]) = Active(c)[1]
  <2>1. ev[c].type \in Types
    BY DEF JInv, IInv, TypeOK, Events
  <2> QED
    BY <2>1, ActiveIs DEF FileOf, Types
<1>3. f = ev[c].clientFd \/ f = FileOf(ev[c]) \/ f = ev[c].resp.file
  BY <1>1 DEF Holds, LeftOver
<1>4. CASE f = FileOf(ev[c])
  <2>1. "open" \notin Faults /\ "bad" \notin Faults
    BY Leaking
  <2>2. Hears(c) \/ GaveUp(c)
    BY <1>1, <2>1 DEF JInv, IInv, Heard
  <2>3. server # "wrong_routine"
    BY <2>1 DEF JInv, HaltCauses
  <2>4. Hears(c)
    BY <1>2, <1>4, <2>2, <2>3 DEF GaveUp
  <2>5. f \in Uses(c)
    BY <1>2, <1>4, <2>4 DEF Hears, Moves, Uses
  <2> QED
    BY <1>1, <2>5 DEF Reachable
<1>5. CASE f = ev[c].clientFd \/ f = ev[c].resp.file
  BY <1>1, <1>5 DEF Reachable, Uses
<1> QED
  BY <1>3, <1>4, <1>5

\* Without the failures of LeakCauses no descriptor is lost: every open one is the
\* socket or the file of a live Event, is kept in its response, or is about to be
\* closed.  Every handler that leaves a file behind has to hand it to one of these.
THEOREM NoDescriptorIsLost == Spec => []NoLeak
  BY SecondLayer, LayerKeepsAll, PTL

-----------------------------------------------------------------------------
(* EventLoop implements Connection *)

\* What Connection sees of an Event, and a step of Connection in those terms.
Seen(e) == <<PhaseOf(e), ResponseOf(e), e.parse # "bad">>
Promised(e, f) ==
  \/ Seen(f) = Seen(e)
  \/ PhaseOf(e) = "none" /\ Seen(f) = <<"receiving", ResponseOf(e), e.parse # "bad">>
  \/ PhaseOf(e) = "receiving" /\ PhaseOf(f) = "parsed" /\ ResponseOf(f) = ResponseOf(e)
  \/ /\ PhaseOf(e) \in Abstract!Phases \ {"receiving"} /\ PhaseOf(f) \in Abstract!Phases
     /\ Abstract!Order(PhaseOf(e)) < Abstract!Order(PhaseOf(f))
     /\ ResponseOf(f) \in {ResponseOf(e), "made"}
     /\ PhaseOf(f) \in {"downloading", "sending"} => ResponseOf(f) = "made"
     /\ PhaseOf(f) = "running" => f.parse # "bad"
     /\ f.parse # "bad" => e.parse # "bad"
  \/ /\ PhaseOf(e) = "uploading" /\ PhaseOf(f) = "uploading"
     /\ ResponseOf(f) \in {"none", "made", "deleted"}
     /\ f.parse # "bad" => e.parse # "bad"
  \/ Seen(e) = <<"sending", "made", TRUE>> /\ Seen(f) = <<"receiving", "none", TRUE>>
  \/ PhaseOf(e) \in Abstract!Phases /\ Seen(f) = <<"closed", "none", TRUE>>

\* If every Event does what Connection promises, so do all.
LEMMA StepsTogether ==
  ASSUME \A c \in Conns : Promised(ev[c], ev'[c])
  PROVE  Abstract!Next
<1> SUFFICES ASSUME NEW c \in Conns
             PROVE  Abstract!Step(c) \/ Seen(ev'[c]) = Seen(ev[c])
  BY DEF Abstract!Next, Seen
<1>1. Promised(ev[c], ev'[c])
  OBVIOUS
<1> QED
  BY <1>1 DEF Promised, Seen, Abstract!Step, Abstract!Accept, Abstract!Parse, Abstract!Advance,
              Abstract!ChangeAnswer, Abstract!Finish, Abstract!Close

LEMMA PhaseIs == \A e :
  /\ e.state = "none"  => PhaseOf(e) = "none"
  /\ e.state = "freed" => PhaseOf(e) = "closed"
  /\ e.state = "live"  => PhaseOf(e) = TypePhase(e)
BY DEF PhaseOf

LEMMA TypePhaseIs == \A e :
  /\ e.type = "HTTP_REQUEST_READABLE" /\ e.parse = "parsing" => TypePhase(e) = "receiving"
  /\ e.type = "HTTP_REQUEST_READABLE" /\ e.parse # "parsing" => TypePhase(e) = "parsed"
  /\ e.type \in {"HTTP_REQUEST_UPLOAD", "BUFFER_FLUSH"} => TypePhase(e) = "uploading"
  /\ e.type = "CGI_RESPONSE_READABLE"  => TypePhase(e) = "running"
  /\ e.type = "HTTP_RESPONSE_DOWNLOAD" => TypePhase(e) = "downloading"
  /\ e.type = "HTTP_RESPONSE_WRITABLE" => TypePhase(e) = "sending"
BY DEF TypePhase

LEMMA ResponseIs == \A e :
  /\ e.resp.type = "NULL"  => ResponseOf(e) = "none"
  /\ e.resp.type = "FREED" => ResponseOf(e) = "deleted"
  /\ e.resp.type \notin {"NULL", "FREED"} => ResponseOf(e) = "made"
  /\ ResponseOf(e) \in {"none", "made", "deleted"}
BY DEF ResponseOf

LEMMA OrderIs ==
  /\ Abstract!Order("parsed") = 1 /\ Abstract!Order("uploading") = 2
  /\ Abstract!Order("running") = 3 /\ Abstract!Order("downloading") = 4
  /\ Abstract!Order("sending") = 5
BY DEF Abstract!Order

\* What else the refinement needs: nothing is downloaded or sent without a
\* response, no program runs for a malformed request, and a request waits to be
\* served only when it is complete.
AnswersReady ==
  /\ \A c \in Conns : PhaseOf(ev[c]) \in {"downloading", "sending"} => ResponseOf(ev[c]) = "made"
  /\ \A c \in Conns : PhaseOf(ev[c]) = "running" => ev[c].parse # "bad"
  /\ \A c \in Conns : routed[c] > 0 => PhaseOf(ev[c]) # "receiving"
  /\ \A c \in Conns : PhaseOf(ev[c]) = "none" => ResponseOf(ev[c]) = "none" /\ ev[c].parse # "bad"

\* An Event that is removed, and one that only changes what Connection does not see.
LEMMA RemovedPromised ==
  ASSUME NEW e, e.state = "live", e.type \in Types, NEW fd
  PROVE  Promised(e, NewEvent("freed", fd))
<1> DEFINE f == NewEvent("freed", fd)
<1>1. f.state = "freed" /\ f.parse = "parsing" /\ f.resp.type = "NULL"
  BY DEF NewEvent, NoResponse, Response
<1>2. PhaseOf(e) \in Abstract!Phases
  BY PhaseIs, TypePhaseIs DEF Types, Abstract!Phases
<1>3. Seen(f) = <<"closed", "none", TRUE>>
  BY <1>1, PhaseIs, ResponseIs DEF Seen
<1> QED
  BY <1>2, <1>3 DEF Promised

LEMMA SamePromised ==
  ASSUME NEW e, NEW f, e.state = f.state, e.type = f.type, e.parse = f.parse,
         e.resp.type = f.resp.type
  PROVE  Promised(e, f)
<1>1. PhaseOf(e) = PhaseOf(f)
  BY DEF PhaseOf, TypePhase
<1>2. ResponseOf(e) = ResponseOf(f)
  BY DEF ResponseOf
<1> QED
  BY <1>1, <1>2 DEF Promised, Seen

\* A live Event that goes on to a later type.
Later(e, f) ==
  /\ e.state = "live" /\ f.state = "live" /\ PhaseOf(e) # "receiving"
  /\ e.type \in Types /\ f.type \in Types \ {"HTTP_REQUEST_READABLE"}
  /\ Abstract!Order(PhaseOf(e)) < Abstract!Order(PhaseOf(f))
  /\ f.parse # "bad" => e.parse # "bad"
  /\ f.type = "CGI_RESPONSE_READABLE" => f.parse # "bad"
  /\ f.resp = e.resp \/ f.resp.type \notin {"NULL", "FREED"}
  /\ f.type \in {"HTTP_RESPONSE_DOWNLOAD", "HTTP_RESPONSE_WRITABLE"} => f.resp.type \notin {"NULL", "FREED"}
LEMMA LaterPromised ==
  ASSUME NEW e, NEW f, Later(e, f)
  PROVE  Promised(e, f)
<1>1. PhaseOf(e) \in Abstract!Phases \ {"receiving"} /\ PhaseOf(f) \in Abstract!Phases
  BY PhaseIs, TypePhaseIs DEF Later, Types, Abstract!Phases
<1>2. ResponseOf(f) \in {ResponseOf(e), "made"}
  BY ResponseIs DEF Later, ResponseOf
<1>3. PhaseOf(f) \in {"downloading", "sending"} => ResponseOf(f) = "made"
  <2>1. PhaseOf(f) \in {"downloading", "sending"}
          => f.type \in {"HTTP_RESPONSE_DOWNLOAD", "HTTP_RESPONSE_WRITABLE"}
    BY PhaseIs, TypePhaseIs DEF Later, Types
  <2> QED
    BY <2>1, ResponseIs DEF Later
<1>4. PhaseOf(f) = "running" => f.parse # "bad"
  <2>1. PhaseOf(f) = "running" => f.type = "CGI_RESPONSE_READABLE"
    BY PhaseIs, TypePhaseIs DEF Later, Types
  <2> QED
    BY <2>1 DEF Later
<1> QED
  BY <1>1, <1>2, <1>3, <1>4 DEF Promised, Later

\* An Event whose answer changes while it uploads.
LEMMA ChangedPromised ==
  ASSUME NEW e, NEW f, e.state = "live", f.state = "live", f.type = e.type,
         e.type \in {"HTTP_REQUEST_UPLOAD", "BUFFER_FLUSH"},
         f.parse # "bad" => e.parse # "bad"
  PROVE  Promised(e, f)
<1>1. PhaseOf(e) = "uploading" /\ PhaseOf(f) = "uploading"
  BY PhaseIs, TypePhaseIs
<1> QED
  BY <1>1, ResponseIs DEF Promised

\* What a step has to do, and what may be used for it.
Keeps == /\ \A c \in Conns : Promised(ev[c], ev'[c])
         /\ \A c \in Conns : routed'[c] > 0 => PhaseOf(ev'[c]) # "receiving"
Known == IInv /\ LiveDispatch /\ AnswersReady

LEMMA KnownGives ==
  ASSUME Known
  PROVE  /\ TypeOK /\ AnswersReady /\ LiveDispatch /\ DispatchOnce
         /\ \A c \in Conns : /\ ev[c] \in Events /\ ev[c].type \in Types
                             /\ ev[c].state \in {"none", "live", "freed"} /\ routed[c] \in Nat
<1>1. TypeOK /\ DispatchOnce
  BY DEF Known, IInv
<1> QED
  BY <1>1 DEF Known, TypeOK, Events

\* Handlers that leave the Events alone, but for what Connection does not see.
LEMMA UnseenKeeps ==
  ASSUME Known, \A c \in Conns : /\ ev'[c].state = ev[c].state /\ ev'[c].type = ev[c].type
                                 /\ ev'[c].parse = ev[c].parse /\ ev'[c].resp.type = ev[c].resp.type,
         \A c \in Conns : routed'[c] > 0 => routed[c] > 0
  PROVE  Keeps
<1>1. \A c \in Conns : PhaseOf(ev'[c]) = PhaseOf(ev[c])
  BY DEF PhaseOf, TypePhase
<1> QED
  BY <1>1, SamePromised DEF Keeps, Known, AnswersReady

LEMMA StillKeepsPromise ==
  ASSUME Known, UNCHANGED ev, UNCHANGED routed \/ routed' = [c \in Conns |-> 0]
  PROVE  Keeps
BY UnseenKeeps

\* A handler that serves c and makes f of its Event.
LEMMA ServedKeeps ==
  ASSUME Known, NEW c \in Conns, NEW t, Serve(c, t), NEW f,
         ev' = [ev EXCEPT ![c] = f], Promised(ev[c], f)
  PROVE  Keeps
<1>1. routed[c] \in Nat /\ routed[c] =< 1 /\ routed' = [routed EXCEPT ![c] = routed[c] - 1]
  BY KnownGives DEF Serve, DispatchOnce
<1>2. routed \in [Conns -> Nat] /\ ev \in [Conns -> Events]
  BY KnownGives DEF TypeOK
<1>3. ~(routed'[c] > 0) /\ ev'[c] = f
  BY <1>1, <1>2
<1>4. \A d \in Conns \ {c} : routed'[d] = routed[d] /\ ev'[d] = ev[d]
  BY <1>1, <1>2
<1>5. \A d \in Conns : Promised(ev[d], ev'[d])
  BY <1>3, <1>4, SamePromised
<1>6. \A d \in Conns : routed'[d] > 0 => PhaseOf(ev'[d]) # "receiving"
  BY <1>3, <1>4, KnownGives DEF AnswersReady
<1> QED
  BY <1>5, <1>6 DEF Keeps

LEMMA ServedSameKeeps ==
  ASSUME Known, NEW c \in Conns, NEW t, Serve(c, t), UNCHANGED ev
  PROVE  Keeps
<1>1. ev' = [ev EXCEPT ![c] = ev[c]] /\ Promised(ev[c], ev[c])
  BY KnownGives, SamePromised DEF TypeOK
<1> QED
  BY <1>1, ServedKeeps

\* What is served is alive, and its request is complete.
LEMMA ServedIs ==
  ASSUME Known, NEW c \in Conns, NEW t, Serve(c, t)
  PROVE  /\ ev[c] \in Events /\ ev[c].state = "live" /\ ev[c].type = t /\ ev[c].type \in Types
         /\ PhaseOf(ev[c]) # "receiving"
         /\ t = "HTTP_REQUEST_READABLE" => PhaseOf(ev[c]) = "parsed"
         /\ t \in {"HTTP_REQUEST_UPLOAD", "BUFFER_FLUSH"} => PhaseOf(ev[c]) = "uploading"
         /\ t = "CGI_RESPONSE_READABLE"  => PhaseOf(ev[c]) = "running"
         /\ t = "HTTP_RESPONSE_DOWNLOAD" => PhaseOf(ev[c]) = "downloading"
         /\ t = "HTTP_RESPONSE_WRITABLE" => PhaseOf(ev[c]) = "sending"
         /\ t \in {"HTTP_RESPONSE_DOWNLOAD", "HTTP_RESPONSE_WRITABLE"} => ResponseOf(ev[c]) = "made"
<1>1. ev[c] \in Events /\ ev[c].state = "live" /\ ev[c].type = t /\ ev[c].type \in Types
  BY KnownGives DEF Serve, Live
<1>2. PhaseOf(ev[c]) # "receiving"
  BY KnownGives DEF Serve, AnswersReady
<1>3. PhaseOf(ev[c]) = TypePhase(ev[c])
  BY <1>1, PhaseIs
<1>4. t = "HTTP_REQUEST_READABLE" => PhaseOf(ev[c]) = "parsed"
  BY <1>1, <1>2, <1>3, TypePhaseIs
<1>5. /\ t \in {"HTTP_REQUEST_UPLOAD", "BUFFER_FLUSH"} => PhaseOf(ev[c]) = "uploading"
      /\ t = "CGI_RESPONSE_READABLE"  => PhaseOf(ev[c]) = "running"
      /\ t = "HTTP_RESPONSE_DOWNLOAD" => PhaseOf(ev[c]) = "downloading"
      /\ t = "HTTP_RESPONSE_WRITABLE" => PhaseOf(ev[c]) = "sending"
  BY <1>1, <1>3, TypePhaseIs
<1> QED
  BY <1>1, <1>2, <1>4, <1>5, KnownGives DEF AnswersReady

LEMMA ServedRemovedKeeps ==
  ASSUME Known, NEW c \in Conns, NEW t, Serve(c, t), NEW p, NEW cl, removeConnection(c, p, cl)
  PROVE  Keeps
BY ServedIs, ServedKeeps, RemovedPromised DEF removeConnection

\* Handlers outside Serve that remove an Event.
LEMMA RoutedRemovedKeeps ==
  ASSUME Known, NEW c \in Conns, Live(c), UNCHANGED routed,
         NEW p, NEW cl, removeConnection(c, p, cl)
  PROVE  Keeps
<1>1. ev[c].state = "live" /\ ev[c].type \in Types /\ ev' = [ev EXCEPT ![c] = NewEvent("freed", NoFd)]
  BY KnownGives DEF Live, removeConnection
<1>2. ev \in [Conns -> Events]
  BY KnownGives DEF TypeOK
<1>3. Promised(ev[c], ev'[c]) /\ PhaseOf(ev'[c]) = "closed"
  <2>1. ev'[c] = NewEvent("freed", NoFd) /\ NewEvent("freed", NoFd).state = "freed"
    BY <1>1, <1>2 DEF NewEvent
  <2> QED
    BY <1>1, <2>1, RemovedPromised, PhaseIs
<1>4. \A d \in Conns \ {c} : ev'[d] = ev[d]
  BY <1>1, <1>2
<1>5. \A d \in Conns : Promised(ev[d], ev'[d])
  BY <1>3, <1>4, SamePromised
<1> QED
  BY <1>3, <1>4, <1>5, KnownGives DEF Keeps, AnswersReady

-----------------------------------------------------------------------------
(* kevent and routing *)

LEMMA KernelPromise ==
  ASSUME Known, (\E c \in Conns : Age(c)) \/ ApplyChanges \/ Kevent \/ Reboot
  PROVE  Keeps
<1>1. ev \in [Conns -> Events]
  BY KnownGives DEF TypeOK
<1>2. CASE \E c \in Conns : Age(c)
  <2>1. PICK c \in Conns : ev' = [ev EXCEPT ![c].stale = TRUE] /\ UNCHANGED routed
    BY <1>2 DEF Age
  <2>2. \A d \in Conns : /\ ev'[d].state = ev[d].state /\ ev'[d].type = ev[d].type
                         /\ ev'[d].parse = ev[d].parse /\ ev'[d].resp.type = ev[d].resp.type
    BY <1>1, <2>1 DEF Events
  <2> QED
    BY <2>1, <2>2, UnseenKeeps
<1>3. CASE ApplyChanges \/ Reboot
  BY <1>3, StillKeepsPromise DEF ApplyChanges, Reboot
<1>4. CASE Kevent
  <2>1. UNCHANGED routed /\ (UNCHANGED ev \/ \E got : ev' = Stamped(got))
    BY <1>4 DEF Kevent
  <2>2. CASE UNCHANGED ev
    BY <2>1, <2>2, StillKeepsPromise
  <2>3. ASSUME NEW got, ev' = Stamped(got) PROVE Keeps
    <3>1. \A d \in Conns : ev'[d] = ev[d] \/ ev'[d] = [ev[d] EXCEPT !.stale = FALSE]
      BY <2>3 DEF Stamped
    <3>2. \A d \in Conns : /\ ev'[d].state = ev[d].state /\ ev'[d].type = ev[d].type
                           /\ ev'[d].parse = ev[d].parse /\ ev'[d].resp.type = ev[d].resp.type
      <4> SUFFICES ASSUME NEW d \in Conns
                   PROVE  /\ ev'[d].state = ev[d].state /\ ev'[d].type = ev[d].type
                          /\ ev'[d].parse = ev[d].parse /\ ev'[d].resp.type = ev[d].resp.type
        OBVIOUS
      <4>1. ev[d] \in Events
        BY <1>1
      <4>2. CASE ev'[d] = ev[d]
        BY <4>2
      <4>3. CASE ev'[d] = [ev[d] EXCEPT !.stale = FALSE]
        BY <4>1, <4>3 DEF Events
      <4> QED
        BY <3>1, <4>2, <4>3
    <3> QED
      BY <2>1, <3>2, UnseenKeeps
  <2> QED
    BY <2>1, <2>2, <2>3
<1> QED
  BY <1>2, <1>3, <1>4

\* Eviction, and a new connection.
LEMMA EvictedPromise ==
  ASSUME Known, NEW c \in Conns
  PROVE  Promised(ev[c], Evicted[c]) /\ (routed[c] > 0 => PhaseOf(Evicted[c]) # "receiving")
<1>1. CASE c \in Idle
  <2>1. Evicted[c] = NewEvent("freed", NoFd) /\ NewEvent("freed", NoFd).state = "freed"
    BY <1>1 DEF Evicted, NewEvent
  <2>2. ev[c].state = "live" /\ ev[c].type \in Types
    BY <1>1, KnownGives DEF Idle, Live
  <2> QED
    BY <2>1, <2>2, RemovedPromised, PhaseIs
<1>2. CASE c \notin Idle
  BY <1>2, SamePromised, KnownGives DEF Evicted, AnswersReady
<1> QED
  BY <1>1, <1>2

LEMMA EvictPromise ==
  ASSUME Known, KeventTimeout \/ AcceptFails
  PROVE  Keeps
<1>1. ev' = Evicted /\ UNCHANGED routed
  BY DEF KeventTimeout, AcceptFails, CheckTimeoutAndAccept
<1> QED
  BY <1>1, EvictedPromise DEF Keeps

LEMMA AcceptPromise ==
  ASSUME Known, addConnection
  PROVE  Keeps
<1>1. PICK c \in Conns, f \in LowestOf(FreeFds \cup IdleFds) :
        ev[c].state = "none" /\ ev' = [Evicted EXCEPT ![c] = NewEvent("live", f)]
  BY DEF addConnection
<1>2. UNCHANGED routed
  BY DEF addConnection, CheckTimeoutAndAccept
<1>3. DOMAIN Evicted = Conns
  BY DEF Evicted
<1>4. ev'[c] = NewEvent("live", f) /\ \A d \in Conns \ {c} : ev'[d] = Evicted[d]
  BY <1>1, <1>3 DEF Evicted
<1>5. Promised(ev[c], ev'[c])
  <2> DEFINE g == NewEvent("live", f)
  <2>1. g.state = "live" /\ g.type = "HTTP_REQUEST_READABLE" /\ g.parse = "parsing" /\ g.resp.type = "NULL"
    BY DEF NewEvent, NoResponse, Response
  <2>2. PhaseOf(g) = "receiving" /\ ResponseOf(g) = "none"
    BY <2>1, PhaseIs, TypePhaseIs, ResponseIs
  <2>3. PhaseOf(ev[c]) = "none"
    BY <1>1, PhaseIs
  <2>4. ResponseOf(ev[c]) = "none" /\ ev[c].parse # "bad"
    BY <2>3, KnownGives DEF AnswersReady
  <2> QED
    BY <1>4, <2>1, <2>2, <2>3, <2>4 DEF Promised, Seen
<1>6. ~(routed[c] > 0)
  BY <1>1, KnownGives DEF LiveDispatch, Live
<1>7. \A d \in Conns : Promised(ev[d], ev'[d])
  BY <1>4, <1>5, EvictedPromise
<1> QED
  BY <1>2, <1>4, <1>6, <1>7, EvictedPromise DEF Keeps

LEMMA RoutePromise ==
  ASSUME Known, NEW b \in batch, RouteOne(b)
  PROVE  Keeps
<1>1. Live(b.ev) /\ b.ev \in Conns
  <2>1. b.ev \in Conns
    BY KnownGives DEF TypeOK
  <2> QED
    BY <2>1 DEF RouteOne, RouteEof, StillReceiving, ReceiveError, ReceiveDone, ParsingFails, RouteOther, Route
<1>2. ev \in [Conns -> Events] /\ routed \in [Conns -> Nat] /\ ev[b.ev].type \in Types
  BY <1>1, KnownGives DEF TypeOK
<1>3. CASE RouteEof(b)
  BY <1>1, <1>3, RoutedRemovedKeeps DEF RouteEof
<1>4. CASE ReceiveError(b)
  BY <1>1, <1>4, RoutedRemovedKeeps DEF ReceiveError
<1>5. CASE StillReceiving(b) \/ ParsingFails(b)
  BY <1>5, StillKeepsPromise DEF StillReceiving, ParsingFails
<1>6. CASE RouteOther(b)
  <2>1. /\ ev[b.ev].type # "HTTP_REQUEST_READABLE" /\ UNCHANGED ev
        /\ routed' = [routed EXCEPT ![b.ev] = @ + 1]
    BY <1>6 DEF RouteOther
  <2>2. PhaseOf(ev[b.ev]) # "receiving"
    BY <1>1, <1>2, <2>1, PhaseIs, TypePhaseIs DEF Live, Types
  <2>3. \A d \in Conns \ {b.ev} : routed'[d] = routed[d]
    BY <1>2, <2>1
  <2> QED
    BY <2>1, <2>2, <2>3, SamePromised, KnownGives DEF Keeps, AnswersReady
<1>12. CASE /\ ReceiveDone(b) /\ ev[b.ev].type = "CGI_RESPONSE_READABLE"
            /\ ev' = [ev EXCEPT ![b.ev].parse = "answered"]
  <2>1. routed' = [routed EXCEPT ![b.ev] = @ + 1]
    BY <1>12 DEF ReceiveDone
  <2>2. \A d \in Conns \ {b.ev} : routed'[d] = routed[d] /\ ev'[d] = ev[d]
    BY <1>2, <1>12, <2>1
  <2>3. /\ ev'[b.ev].state = "live" /\ ev'[b.ev].type = "CGI_RESPONSE_READABLE"
        /\ ev'[b.ev].parse = "answered" /\ ev'[b.ev].resp = ev[b.ev].resp /\ ev[b.ev].state = "live"
    BY <1>1, <1>2, <1>12 DEF Events, Live
  <2>4. PhaseOf(ev[b.ev]) = "running" /\ PhaseOf(ev'[b.ev]) = "running"
    BY <1>12, <2>3, PhaseIs, TypePhaseIs
  <2>5. ev[b.ev].parse # "bad" /\ ev'[b.ev].parse # "bad"
    BY <1>1, <2>3, <2>4, KnownGives DEF AnswersReady
  <2>6. ResponseOf(ev'[b.ev]) = ResponseOf(ev[b.ev])
    BY <2>3 DEF ResponseOf
  <2>7. Promised(ev[b.ev], ev'[b.ev])
    BY <2>4, <2>5, <2>6 DEF Promised, Seen
  <2> QED
    BY <2>2, <2>4, <2>7, SamePromised, KnownGives DEF Keeps, AnswersReady
<1>7. CASE ReceiveDone(b) /\ RequestParsed(b.ev) /\ ev[b.ev].type = "HTTP_REQUEST_READABLE"
  <2>1. routed' = [routed EXCEPT ![b.ev] = @ + 1]
    BY <1>7 DEF ReceiveDone
  <2>2. \A d \in Conns \ {b.ev} : routed'[d] = routed[d]
    BY <1>2, <2>1
  <2>3. CASE ev[b.ev].parse # "parsing" /\ UNCHANGED ev
    <3>1. PhaseOf(ev[b.ev]) # "receiving"
      BY <1>1, <1>7, <2>3, PhaseIs, TypePhaseIs DEF Live
    <3> QED
      BY <2>2, <2>3, <3>1, SamePromised, KnownGives DEF Keeps, AnswersReady
  <2>4. ASSUME ev[b.ev].parse = "parsing",
               NEW m, NEW cgi, NEW p \in {"uploading", "unending", "bad"},
               ev' = [ev EXCEPT ![b.ev].method = m, ![b.ev].cgi = cgi, ![b.ev].parse = p]
        PROVE  Keeps
    <3>1. /\ ev'[b.ev].state = "live" /\ ev'[b.ev].type = "HTTP_REQUEST_READABLE"
          /\ ev'[b.ev].parse = p /\ ev'[b.ev].resp = ev[b.ev].resp
          /\ \A d \in Conns \ {b.ev} : ev'[d] = ev[d]
      BY <1>1, <1>2, <1>7, <2>4 DEF Events, Live
    <3>2. PhaseOf(ev[b.ev]) = "receiving"
      BY <1>1, <1>7, <2>4, PhaseIs, TypePhaseIs DEF Live
    <3>5. ev'[b.ev].parse # "parsing"
      BY <3>1
    <3>6. PhaseOf(ev'[b.ev]) = "parsed"
      BY <3>1, <3>5, PhaseIs, TypePhaseIs
    <3>3. ResponseOf(ev'[b.ev]) = ResponseOf(ev[b.ev])
      BY <3>1 DEF ResponseOf
    <3>4. Promised(ev[b.ev], ev'[b.ev])
      BY <3>2, <3>3, <3>6 DEF Promised
    <3> QED
      BY <2>2, <3>1, <3>4, <3>6, SamePromised, KnownGives DEF Keeps, AnswersReady
  <2>5. CASE \E m \in Methods \cup {"NOT_IMPL"}, cgi \in BOOLEAN, p \in {"uploading", "unending", "bad"} :
               ev' = [ev EXCEPT ![b.ev].method = m, ![b.ev].cgi = cgi, ![b.ev].parse = p]
    <3>1. CASE ev[b.ev].parse = "parsing"
      <4>1. PICK m \in Methods \cup {"NOT_IMPL"}, cgi \in BOOLEAN, p \in {"uploading", "unending", "bad"} :
               ev' = [ev EXCEPT ![b.ev].method = m, ![b.ev].cgi = cgi, ![b.ev].parse = p]
        BY <2>5
      <4> QED
        BY <2>4, <3>1, <4>1
    <3>2. CASE ev[b.ev].parse # "parsing"
      BY <1>7, <2>3, <3>2 DEF RequestParsed
    <3> QED
      BY <3>1, <3>2
  <2> QED
    BY <1>7, <2>3, <2>5 DEF RequestParsed
<1>8. ReceiveDone(b) => \/ /\ ev[b.ev].type = "CGI_RESPONSE_READABLE"
                           /\ ev' = [ev EXCEPT ![b.ev].parse = "answered"]
                        \/ RequestParsed(b.ev) /\ ev[b.ev].type = "HTTP_REQUEST_READABLE"
  BY DEF ReceiveDone
<1>9. CASE ReceiveDone(b)
  BY Zenon, <1>7, <1>8, <1>9, <1>12
<1>10. RouteEof(b) \/ StillReceiving(b) \/ ReceiveError(b) \/ ReceiveDone(b) \/ ParsingFails(b) \/ RouteOther(b)
  BY DEF RouteOne
<1> QED
  BY <1>3, <1>4, <1>5, <1>6, <1>9, <1>10

-----------------------------------------------------------------------------
(* serving *)

\* A handler that serves c and moves its Event on, changes its answer, or
\* removes it; the fields say which.
LEMMA MovedOn ==
  ASSUME Known, NEW c \in Conns, NEW t \in Types, Serve(c, t),
         NEW f, ev' = [ev EXCEPT ![c] = f], f.state = "live",
         NEW u \in Types \ {"HTTP_REQUEST_READABLE"}, f.type = u,
         f.parse # "bad" => ev[c].parse # "bad", u = "CGI_RESPONSE_READABLE" => f.parse # "bad",
         f.resp = ev[c].resp \/ f.resp.type \notin {"NULL", "FREED"},
         u \in {"HTTP_RESPONSE_DOWNLOAD", "HTTP_RESPONSE_WRITABLE"} => f.resp.type \notin {"NULL", "FREED"},
         \/ t = "HTTP_REQUEST_READABLE"
         \/ t \in {"HTTP_REQUEST_UPLOAD", "BUFFER_FLUSH"}
              /\ u \in {"CGI_RESPONSE_READABLE", "HTTP_RESPONSE_DOWNLOAD", "HTTP_RESPONSE_WRITABLE"}
         \/ t = "CGI_RESPONSE_READABLE" /\ u \in {"HTTP_RESPONSE_DOWNLOAD", "HTTP_RESPONSE_WRITABLE"}
         \/ t = "HTTP_RESPONSE_DOWNLOAD" /\ u = "HTTP_RESPONSE_WRITABLE"
  PROVE  Keeps
<1>1. PhaseOf(f) = TypePhase(f)
  BY PhaseIs
<1>2. /\ u \in {"HTTP_REQUEST_UPLOAD", "BUFFER_FLUSH"} => PhaseOf(f) = "uploading"
      /\ u = "CGI_RESPONSE_READABLE"  => PhaseOf(f) = "running"
      /\ u = "HTTP_RESPONSE_DOWNLOAD" => PhaseOf(f) = "downloading"
      /\ u = "HTTP_RESPONSE_WRITABLE" => PhaseOf(f) = "sending"
  BY <1>1, TypePhaseIs
<1>3. Abstract!Order(PhaseOf(ev[c])) < Abstract!Order(PhaseOf(f))
  BY <1>2, ServedIs, OrderIs DEF Types
<1>4. Later(ev[c], f)
  BY <1>3, ServedIs DEF Later
<1> QED
  BY <1>4, LaterPromised, ServedKeeps

LEMMA Changed ==
  ASSUME Known, NEW c \in Conns, NEW t \in {"HTTP_REQUEST_UPLOAD", "BUFFER_FLUSH"}, Serve(c, t),
         NEW f, ev' = [ev EXCEPT ![c] = f], f.state = "live", f.type = t,
         f.parse # "bad" => ev[c].parse # "bad"
  PROVE  Keeps
<1>1. Promised(ev[c], f)
  BY ServedIs, ChangedPromised
<1> QED
  BY <1>1, ServedKeeps

LEMMA BeginCgiPromise ==
  ASSUME Known, NEW c \in Conns, BeginCgi(c)
  PROVE  Keeps
<1>1. Serve(c, "HTTP_REQUEST_READABLE")
  BY DEF BeginCgi
<1>2. CASE UNCHANGED ev
  BY <1>1, <1>2, ServedSameKeeps
<1>3. CASE ~UNCHANGED ev
  <2>1. PICK f : ev' = [ev EXCEPT ![c].type = "HTTP_REQUEST_UPLOAD", ![c].toSendFd = f]
    BY <1>3 DEF BeginCgi
  <2> DEFINE g == [ev[c] EXCEPT !.type = "HTTP_REQUEST_UPLOAD", !.toSendFd = f]
  <2>2. ev' = [ev EXCEPT ![c] = g]
    BY <2>1, KnownGives DEF TypeOK
  <2>3. g.state = "live" /\ g.type = "HTTP_REQUEST_UPLOAD" /\ g.parse = ev[c].parse /\ g.resp = ev[c].resp
    BY <1>1, ServedIs DEF Events
  <2>4. /\ "HTTP_REQUEST_READABLE" \in Types
        /\ "HTTP_REQUEST_UPLOAD" \in Types \ {"HTTP_REQUEST_READABLE"}
    BY DEF Types
  <2> HIDE DEF g
  <2> QED
    BY <1>1, <2>2, <2>3, <2>4, MovedOn
<1> QED
  BY <1>2, <1>3

LEMMA ProcessPromise ==
  ASSUME Known, NEW c \in Conns, ProcessRequest(c) \/ ProcessRequestThrows(c) \/ LookupNeverEnds(c)
  PROVE  Keeps
<1>1. Serve(c, "HTTP_REQUEST_READABLE")
  BY DEF ProcessRequest, ProcessRequestThrows, LookupNeverEnds
<1>2. CASE UNCHANGED ev
  BY <1>1, <1>2, ServedSameKeeps
<1>3. CASE ~UNCHANGED ev
  <2>1. PICK o \in makeResponse(ev[c].method, ev[c].parse = "bad", FreeFds) : BeginResponse(c, o)
    BY <1>3 DEF ProcessRequest, ProcessRequestThrows, LookupNeverEnds
  <2>2. o.resp.type \in {"POST", "GET", "DEL", "FLUSH", "FLUSH_ERR"}
    BY <2>1 DEF BeginResponse
  <2> DEFINE u == NextType(o.resp)
             e == [ev[c] EXCEPT !.resp = o.resp, !.type = u]
  <2>3. /\ u \in Types \ {"HTTP_REQUEST_READABLE"} /\ "HTTP_REQUEST_READABLE" \in Types
        /\ u # "CGI_RESPONSE_READABLE"
    BY <2>2 DEF NextType, Types
  <2>4. ev' = [ev EXCEPT ![c].resp = o.resp, ![c].type = u]
        \/ (\E f : ev' = [ev EXCEPT ![c].resp = o.resp, ![c].type = u, ![c].toSendFd = f])
        \/ (\E f : ev' = [ev EXCEPT ![c].resp = o.resp, ![c].type = u, ![c].toRecvFd = f])
    BY <2>1 DEF BeginResponse
  <2>5. ASSUME NEW g, ev' = [ev EXCEPT ![c] = g],
               g = e \/ (\E f : g = [e EXCEPT !.toSendFd = f]) \/ (\E f : g = [e EXCEPT !.toRecvFd = f])
        PROVE  Keeps
    <3>1. g.state = "live" /\ g.type = u /\ g.parse = ev[c].parse /\ g.resp = o.resp
      <4>1. ev[c] \in Events /\ ev[c].state = "live"
        BY <1>1, ServedIs
      <4> HIDE DEF u
      <4>2. CASE g = e
        BY <4>1, <4>2 DEF Events
      <4>3. ASSUME NEW f, g = [e EXCEPT !.toSendFd = f]
            PROVE  g.state = "live" /\ g.type = u /\ g.parse = ev[c].parse /\ g.resp = o.resp
        BY <4>1, <4>3 DEF Events
      <4>4. ASSUME NEW f, g = [e EXCEPT !.toRecvFd = f]
            PROVE  g.state = "live" /\ g.type = u /\ g.parse = ev[c].parse /\ g.resp = o.resp
        BY <4>1, <4>4 DEF Events
      <4> HIDE DEF e
      <4> QED
        BY <2>5, <4>2, <4>3, <4>4
    <3>2. g.resp.type \notin {"NULL", "FREED"}
      BY <2>2, <3>1
    <3> HIDE DEF u, e
    <3> QED
      BY <1>1, <2>3, <2>5, <3>1, <3>2, MovedOn
  <2>6. ev' = [ev EXCEPT ![c] = e]
        \/ (\E f : ev' = [ev EXCEPT ![c] = [e EXCEPT !.toSendFd = f]])
        \/ (\E f : ev' = [ev EXCEPT ![c] = [e EXCEPT !.toRecvFd = f]])
    <3>1. ev \in [Conns -> Events]
      BY KnownGives DEF TypeOK
    <3> HIDE DEF u
    <3>2. CASE ev' = [ev EXCEPT ![c].resp = o.resp, ![c].type = u]
      BY <3>1, <3>2
    <3>3. ASSUME NEW f, ev' = [ev EXCEPT ![c].resp = o.resp, ![c].type = u, ![c].toSendFd = f]
          PROVE  ev' = [ev EXCEPT ![c] = [e EXCEPT !.toSendFd = f]]
      BY <3>1, <3>3
    <3>4. ASSUME NEW f, ev' = [ev EXCEPT ![c].resp = o.resp, ![c].type = u, ![c].toRecvFd = f]
          PROVE  ev' = [ev EXCEPT ![c] = [e EXCEPT !.toRecvFd = f]]
      BY <3>1, <3>4
    <3> HIDE DEF e
    <3> QED
      BY <2>4, <3>2, <3>3, <3>4
  <2> HIDE DEF e, u
  <2> QED
    BY <2>5, <2>6
<1> QED
  BY <1>2, <1>3

\* _redirectUploadError: the answer is sent or downloaded next, or the server stops.
LEMMA RedirectPromise ==
  ASSUME Known, NEW c \in Conns, NEW t \in {"HTTP_REQUEST_UPLOAD", "BUFFER_FLUSH"}, Serve(c, t),
         NEW r, NEW parse, parse # "bad" => ev[c].parse # "bad", redirectUploadError(c, r, parse)
  PROVE  Keeps
<1>1. ev[c] \in Events /\ ev[c].state = "live" /\ ev[c].type = t /\ ev \in [Conns -> Events]
  BY ServedIs, KnownGives DEF TypeOK
<1>2. /\ t \in Types
      /\ {"HTTP_RESPONSE_WRITABLE", "HTTP_RESPONSE_DOWNLOAD"} \subseteq Types \ {"HTTP_REQUEST_READABLE"}
  BY DEF Types
<1>3. CASE /\ r.type = "FLUSH"
           /\ ev' = [ev EXCEPT ![c].resp = r, ![c].parse = parse,
                               ![c].type = "HTTP_RESPONSE_WRITABLE", ![c].toSendFd = ev[c].clientFd]
  <2> DEFINE g == [ev[c] EXCEPT !.resp = r, !.parse = parse,
                                !.type = "HTTP_RESPONSE_WRITABLE", !.toSendFd = ev[c].clientFd]
  <2>1. ev' = [ev EXCEPT ![c] = g]
    BY <1>1, <1>3
  <2>2. g.state = "live" /\ g.type = "HTTP_RESPONSE_WRITABLE" /\ g.parse = parse /\ g.resp = r
    BY <1>1 DEF Events
  <2> HIDE DEF g
  <2> QED
    BY <1>2, <1>3, <2>1, <2>2, MovedOn
<1>4. CASE /\ r.type = "FLUSH_ERR"
           /\ ev' = [ev EXCEPT ![c].resp = r, ![c].parse = parse,
                               ![c].type = "HTTP_RESPONSE_DOWNLOAD", ![c].toRecvFd = r.file]
  <2> DEFINE g == [ev[c] EXCEPT !.resp = r, !.parse = parse,
                                !.type = "HTTP_RESPONSE_DOWNLOAD", !.toRecvFd = r.file]
  <2>1. ev' = [ev EXCEPT ![c] = g]
    BY <1>1, <1>4
  <2>2. g.state = "live" /\ g.type = "HTTP_RESPONSE_DOWNLOAD" /\ g.parse = parse /\ g.resp = r
    BY <1>1 DEF Events
  <2> HIDE DEF g
  <2> QED
    BY <1>2, <1>4, <2>1, <2>2, MovedOn
<1>5. CASE ev' = [ev EXCEPT ![c].resp = r, ![c].parse = parse]
  <2> DEFINE g == [ev[c] EXCEPT !.resp = r, !.parse = parse]
  <2>1. ev' = [ev EXCEPT ![c] = g]
    BY <1>1, <1>5
  <2>2. g.state = "live" /\ g.type = t /\ g.parse = parse
    BY <1>1 DEF Events
  <2> HIDE DEF g
  <2> QED
    BY <2>1, <2>2, Changed
<1> QED
  BY <1>1, <1>3, <1>4, <1>5 DEF redirectUploadError

\* Handlers that only set the response and the parsing state of an upload.
LEMMA AnswerPromise ==
  ASSUME Known, NEW c \in Conns, NEW t \in {"HTTP_REQUEST_UPLOAD", "BUFFER_FLUSH"}, Serve(c, t),
         NEW parse, parse # "bad" => ev[c].parse # "bad", NEW r, NEW p \in BOOLEAN,
         \/ ev' = [ev EXCEPT ![c].parse = parse]
         \/ ev' = [ev EXCEPT ![c].resp = r, ![c].parse = parse]
         \/ ev' = [ev EXCEPT ![c].parse = parse, ![c].resp = r]
         \/ ev' = [ev EXCEPT ![c].parse = parse, ![c].pid = p]
  PROVE  Keeps
<1>1. ev[c] \in Events /\ ev[c].state = "live" /\ ev[c].type = t /\ ev \in [Conns -> Events]
  BY ServedIs, KnownGives DEF TypeOK
<1>2. PICK g : /\ ev' = [ev EXCEPT ![c] = g]
               /\ \/ g = [ev[c] EXCEPT !.parse = parse]
                  \/ g = [ev[c] EXCEPT !.resp = r, !.parse = parse]
                  \/ g = [ev[c] EXCEPT !.parse = parse, !.pid = p]
  <2>1. CASE ev' = [ev EXCEPT ![c].parse = parse]
    BY <1>1, <2>1
  <2>2. CASE ev' = [ev EXCEPT ![c].resp = r, ![c].parse = parse]
             \/ ev' = [ev EXCEPT ![c].parse = parse, ![c].resp = r]
    <3>1. ev' = [ev EXCEPT ![c] = [ev[c] EXCEPT !.resp = r, !.parse = parse]]
      BY <1>1, <2>2
    <3> QED
      BY <3>1
  <2>3. CASE ev' = [ev EXCEPT ![c].parse = parse, ![c].pid = p]
    BY <1>1, <2>3
  <2> QED
    BY <2>1, <2>2, <2>3
<1>3. g.state = "live" /\ g.type = t /\ g.parse = parse
  BY <1>1, <1>2 DEF Events
<1> QED
  BY <1>2, <1>3, Changed

\* uploadRequest forgets no 400.
LEMMA UploadedWell ==
  ASSUME NEW c \in Conns, NEW parse \in UploadRequest(c), ev[c].parse = "bad"
  PROVE  parse = "bad"
BY DEF UploadRequest, UploadingStates

LEMMA ThrowPromise ==
  ASSUME Known, NEW c \in Conns, NEW t \in {"HTTP_REQUEST_UPLOAD", "BUFFER_FLUSH"}, Serve(c, t),
         NEW parse, parse # "bad" => ev[c].parse # "bad", ErrorResponseThrows(c, parse)
  PROVE  Keeps
<1>1. ev' = [ev EXCEPT ![c].resp = Deleted(ev[c].resp), ![c].parse = parse]
  BY DEF ErrorResponseThrows
<1> QED
  BY <1>1, AnswerPromise

LEMMA UploadPromise ==
  ASSUME Known, NEW c \in Conns, UploadMore(c) \/ UploadClosed(c) \/ UploadBad(c)
  PROVE  Keeps
<1>1. Serve(c, "HTTP_REQUEST_UPLOAD")
  BY DEF UploadMore, UploadClosed, UploadBad, Upload
<1>2. CASE UploadMore(c)
  BY <1>1, <1>2, ServedSameKeeps DEF UploadMore
<1>3. CASE UploadClosed(c)
  BY <1>1, <1>3, ServedRemovedKeeps DEF UploadClosed
<1>4. CASE UploadBad(c)
  <2>1. CASE \E o \in errorResponses(ev[c].method, FreeFds) : redirectUploadError(c, o.resp, "bad")
    BY <1>1, <2>1, RedirectPromise
  <2>2. CASE ErrorResponseThrows(c, "bad")
    BY <1>1, <2>2, ThrowPromise
  <2> QED
    BY <1>4, <2>1, <2>2 DEF UploadBad
<1> QED
  BY <1>2, <1>3, <1>4

\* HTTP_UPLOADING_DONE without and with a CGI program.
LEMMA UploadedIs ==
  ASSUME Known, NEW c \in Conns, UploadDone(c)
  PROVE  /\ Serve(c, "HTTP_REQUEST_UPLOAD") /\ ev[c] \in Events /\ ev[c].state = "live"
         /\ ev[c].type = "HTTP_REQUEST_UPLOAD" /\ ev[c].parse # "bad" /\ ev \in [Conns -> Events]
<1>1. Serve(c, "HTTP_REQUEST_UPLOAD") /\ "uploaded" \in UploadRequest(c)
  BY DEF UploadDone, Upload
<1>2. ev[c].parse # "bad"
  BY <1>1, UploadedWell
<1> QED
  BY <1>1, <1>2, ServedIs, KnownGives DEF TypeOK

LEMMA FilePromise ==
  ASSUME Known, NEW c \in Conns, UploadedFile(c)
  PROVE  Keeps
<1>1. UploadDone(c) /\ ev[c].resp.type = "POST"
  BY DEF UploadedFile
<1>2. ev' = [ev EXCEPT ![c].parse = "uploaded", ![c].type = "HTTP_RESPONSE_WRITABLE",
                       ![c].toSendFd = ev[c].clientFd]
  BY <1>1, UploadedIs DEF UploadedFile, Uploaded
<1> DEFINE g == [ev[c] EXCEPT !.parse = "uploaded", !.type = "HTTP_RESPONSE_WRITABLE",
                              !.toSendFd = ev[c].clientFd]
<1>3. ev' = [ev EXCEPT ![c] = g]
  BY <1>1, <1>2, UploadedIs
<1>4. g.state = "live" /\ g.type = "HTTP_RESPONSE_WRITABLE" /\ g.parse = "uploaded" /\ g.resp = ev[c].resp
  BY <1>1, UploadedIs DEF Events
<1>5. /\ "HTTP_REQUEST_UPLOAD" \in Types
      /\ "HTTP_RESPONSE_WRITABLE" \in Types \ {"HTTP_REQUEST_READABLE"}
  BY DEF Types
<1> HIDE DEF g
<1> QED
  BY <1>1, <1>3, <1>4, <1>5, UploadedIs, MovedOn

LEMMA CgiPromise ==
  ASSUME Known, NEW c \in Conns, CgiStarted(c)
  PROVE  Keeps
<1>1. UploadDone(c)
  BY DEF CgiStarted
<1>2. CASE \E f : ev' = [Uploaded(c) EXCEPT ![c].type = "CGI_RESPONSE_READABLE",
                                            ![c].toRecvFd = f, ![c].pid = TRUE]
  <2>1. PICK f : ev' = [Uploaded(c) EXCEPT ![c].type = "CGI_RESPONSE_READABLE",
                                           ![c].toRecvFd = f, ![c].pid = TRUE]
    BY <1>2
  <2> DEFINE g == [ev[c] EXCEPT !.parse = "uploaded", !.type = "CGI_RESPONSE_READABLE",
                                !.toRecvFd = f, !.pid = TRUE]
  <2>2. ev' = [ev EXCEPT ![c] = g]
    BY <1>1, <2>1, UploadedIs DEF Uploaded
  <2>3. g.state = "live" /\ g.type = "CGI_RESPONSE_READABLE" /\ g.parse = "uploaded" /\ g.resp = ev[c].resp
    BY <1>1, UploadedIs DEF Events
  <2>4. /\ "HTTP_REQUEST_UPLOAD" \in Types
        /\ "CGI_RESPONSE_READABLE" \in Types \ {"HTTP_REQUEST_READABLE"}
    BY DEF Types
  <2> HIDE DEF g
  <2> QED
    BY <1>1, <2>2, <2>3, <2>4, UploadedIs, MovedOn
<1>3. CASE ev' = [Uploaded(c) EXCEPT ![c].pid = TRUE]
  <2>1. ev' = [ev EXCEPT ![c].parse = "uploaded", ![c].pid = TRUE]
    BY <1>1, <1>3, UploadedIs DEF Uploaded
  <2> QED
    BY <1>1, <2>1, UploadedIs, AnswerPromise
<1> QED
  BY <1>2, <1>3 DEF CgiStarted

LEMMA CgiForkPromise ==
  ASSUME Known, NEW c \in Conns, CgiForkFails(c)
  PROVE  Keeps
<1>1. UploadDone(c)
  BY DEF CgiForkFails
<1>2. CASE \E o : /\ o.resp.type = "FLUSH_ERR"
                  /\ ev' = [Uploaded(c) EXCEPT ![c].type = "HTTP_RESPONSE_DOWNLOAD",
                                               ![c].toRecvFd = o.resp.file, ![c].resp = o.resp]
  <2>1. PICK o : /\ o.resp.type = "FLUSH_ERR"
                 /\ ev' = [Uploaded(c) EXCEPT ![c].type = "HTTP_RESPONSE_DOWNLOAD",
                                              ![c].toRecvFd = o.resp.file, ![c].resp = o.resp]
    BY <1>2
  <2> DEFINE g == [ev[c] EXCEPT !.parse = "uploaded", !.type = "HTTP_RESPONSE_DOWNLOAD",
                                !.toRecvFd = o.resp.file, !.resp = o.resp]
  <2>2. ev' = [ev EXCEPT ![c] = g]
    BY <1>1, <2>1, UploadedIs DEF Uploaded
  <2>3. g.state = "live" /\ g.type = "HTTP_RESPONSE_DOWNLOAD" /\ g.parse = "uploaded" /\ g.resp = o.resp
    BY <1>1, UploadedIs DEF Events
  <2>4. /\ "HTTP_REQUEST_UPLOAD" \in Types
        /\ "HTTP_RESPONSE_DOWNLOAD" \in Types \ {"HTTP_REQUEST_READABLE"}
    BY DEF Types
  <2>5. g.resp.type \notin {"NULL", "FREED"}
    BY <2>1, <2>3
  <2> HIDE DEF g
  <2> QED
    BY <1>1, <2>2, <2>3, <2>4, <2>5, UploadedIs, MovedOn
<1>3. CASE \E r : ev' = [Uploaded(c) EXCEPT ![c].resp = r]
  <2>1. PICK r : ev' = [ev EXCEPT ![c].parse = "uploaded", ![c].resp = r]
    BY <1>1, <1>3, UploadedIs DEF Uploaded
  <2> QED
    BY <1>1, <2>1, UploadedIs, AnswerPromise
<1>4. CASE ev' = Uploaded(c)
  BY <1>1, <1>4, UploadedIs, AnswerPromise DEF Uploaded
<1> QED
  BY <1>2, <1>3, <1>4 DEF CgiForkFails

LEMMA FlushPromise ==
  ASSUME Known, NEW c \in Conns, ServeFlush(c)
  PROVE  Keeps
<1>1. Serve(c, "BUFFER_FLUSH")
  BY DEF ServeFlush, FlushMore, FlushClosed, FlushBad, FlushDone, Flush
<1>2. CASE FlushMore(c)
  BY <1>1, <1>2, ServedSameKeeps DEF FlushMore
<1>3. CASE FlushClosed(c)
  <2>1. ev[c].parse # "bad"
    BY <1>3, UploadedWell DEF FlushClosed
  <2>2. CASE removeConnection(c, SentFileDeleted(c), closing \cup {ev[c].toSendFd})
    BY <1>1, <2>2, ServedRemovedKeeps
  <2>3. CASE ev' = [ev EXCEPT ![c].parse = "closed"]
    BY <1>1, <2>1, <2>3, AnswerPromise
  <2> QED
    BY <1>3, <2>2, <2>3 DEF FlushClosed
<1>4. CASE FlushBad(c)
  <2>1. CASE \E r : redirectUploadError(c, r, "bad")
    BY <1>1, <2>1, RedirectPromise
  <2>2. CASE \E r : ev' = [ev EXCEPT ![c].parse = "bad", ![c].resp = r]
    BY <1>1, <2>2, AnswerPromise
  <2>3. CASE ErrorResponseThrows(c, "bad")
    BY <1>1, <2>3, ThrowPromise
  <2> QED
    BY <1>4, <2>1, <2>2, <2>3 DEF FlushBad
<1>5. CASE FlushDone(c)
  <2>1. ev[c].parse # "bad"
    BY <1>5, UploadedWell DEF FlushDone
  <2>2. CASE \E r : redirectUploadError(c, r, "uploaded")
    BY <1>1, <2>1, <2>2, RedirectPromise
  <2>3. CASE \E r : ev' = [ev EXCEPT ![c].parse = "uploaded", ![c].resp = r]
    BY <1>1, <2>1, <2>3, AnswerPromise
  <2>4. CASE ErrorResponseThrows(c, "uploaded")
    BY <1>1, <2>1, <2>4, ThrowPromise
  <2> QED
    BY <1>5, <2>2, <2>3, <2>4 DEF FlushDone
<1> QED
  BY <1>2, <1>3, <1>4, <1>5 DEF ServeFlush

LEMMA DownloadPromise ==
  ASSUME Known, NEW c \in Conns, ServeDownload(c)
  PROVE  Keeps
<1>1. Serve(c, "HTTP_RESPONSE_DOWNLOAD")
  BY DEF ServeDownload, DownloadMore, DownloadFails, DownloadDone, Download
<1>2. CASE DownloadMore(c)
  BY <1>1, <1>2, ServedSameKeeps DEF DownloadMore
<1>3. CASE DownloadFails(c)
  BY <1>1, <1>3, ServedRemovedKeeps DEF DownloadFails
<1>4. CASE DownloadDone(c)
  <2>1. ev' = [ev EXCEPT ![c].type = "HTTP_RESPONSE_WRITABLE", ![c].toSendFd = ev[c].clientFd,
                         ![c].resp.state = "HTTP_SENDING_STORAGE"]
    BY <1>4 DEF DownloadDone
  <2>2. ev[c] \in Events /\ ev[c].state = "live" /\ ResponseOf(ev[c]) = "made" /\ ev \in [Conns -> Events]
    BY <1>1, ServedIs, KnownGives DEF TypeOK
  <2> DEFINE g == [ev[c] EXCEPT !.type = "HTTP_RESPONSE_WRITABLE", !.toSendFd = ev[c].clientFd,
                                !.resp.state = "HTTP_SENDING_STORAGE"]
  <2>3. ev' = [ev EXCEPT ![c] = g]
    BY <2>1, <2>2
  <2>4. g.state = "live" /\ g.type = "HTTP_RESPONSE_WRITABLE" /\ g.parse = ev[c].parse
        /\ g.resp.type = ev[c].resp.type
    BY <2>2 DEF Events, Responses
  <2>5. ev[c].resp.type \notin {"NULL", "FREED"}
    BY <2>2, ResponseIs
  <2>6. /\ "HTTP_RESPONSE_DOWNLOAD" \in Types
        /\ "HTTP_RESPONSE_WRITABLE" \in Types \ {"HTTP_REQUEST_READABLE"}
    BY DEF Types
  <2> HIDE DEF g
  <2> QED
    BY <1>1, <2>3, <2>4, <2>5, <2>6, MovedOn
<1> QED
  BY <1>2, <1>3, <1>4 DEF ServeDownload

LEMMA AnswerMade ==
  ASSUME Known, NEW c \in Conns, Serve(c, "CGI_RESPONSE_READABLE"),
         NEW o \in CgiAnswers \cup (IF "old" \in Faults THEN errorResponses(ev[c].method, FreeFds) ELSE {})
  PROVE  o.resp.type \notin {"NULL", "FREED"} /\ o.resp \in Responses
<1>1. CASE o \in CgiAnswers
  BY <1>1 DEF CgiAnswers, Outcome, Response, Responses
<1>2. CASE o \in errorResponses(ev[c].method, FreeFds)
  BY <1>2, ErrorPages, FreeType DEF Made, Responses
<1> QED
  BY <1>1, <1>2

LEMMA CgiReplyPromise ==
  ASSUME Known, NEW c \in Conns, CgiReply(c)
  PROVE  Keeps
<1>1. Serve(c, "CGI_RESPONSE_READABLE")
  BY DEF CgiReply
<1>2. ev[c] \in Events /\ ev[c].state = "live" /\ ev \in [Conns -> Events]
  BY <1>1, ServedIs, KnownGives DEF TypeOK
<1>3. PICK o \in CgiAnswers \cup (IF "old" \in Faults THEN errorResponses(ev[c].method, FreeFds) ELSE {}) :
        \/ ev' = [ev EXCEPT ![c].type = "HTTP_RESPONSE_DOWNLOAD",
                            ![c].resp = [o.resp EXCEPT !.file = ev[c].toRecvFd]]
        \/ ev' = [ev EXCEPT ![c].type = "HTTP_RESPONSE_WRITABLE",
                            ![c].toSendFd = ev[c].clientFd, ![c].resp = o.resp]
  BY DEF CgiReply
<1>4. o.resp.type \notin {"NULL", "FREED"} /\ o.resp \in Responses
  BY <1>1, AnswerMade
<1>5. /\ "CGI_RESPONSE_READABLE" \in Types
      /\ {"HTTP_RESPONSE_WRITABLE", "HTTP_RESPONSE_DOWNLOAD"} \subseteq Types \ {"HTTP_REQUEST_READABLE"}
  BY DEF Types
<1>6. CASE ev' = [ev EXCEPT ![c].type = "HTTP_RESPONSE_DOWNLOAD",
                            ![c].resp = [o.resp EXCEPT !.file = ev[c].toRecvFd]]
  <2> DEFINE r == [o.resp EXCEPT !.file = ev[c].toRecvFd]
             g == [ev[c] EXCEPT !.type = "HTTP_RESPONSE_DOWNLOAD", !.resp = r]
  <2>1. r.type = o.resp.type
    BY <1>4 DEF Responses
  <2> HIDE DEF r
  <2>2. ev' = [ev EXCEPT ![c] = g]
    BY <1>2, <1>6 DEF r
  <2>3. g.state = "live" /\ g.type = "HTTP_RESPONSE_DOWNLOAD" /\ g.parse = ev[c].parse /\ g.resp = r
    BY <1>2 DEF Events
  <2> HIDE DEF g
  <2> QED
    BY <1>1, <1>4, <1>5, <2>1, <2>2, <2>3, MovedOn
<1>7. CASE ev' = [ev EXCEPT ![c].type = "HTTP_RESPONSE_WRITABLE",
                            ![c].toSendFd = ev[c].clientFd, ![c].resp = o.resp]
  <2> DEFINE g == [ev[c] EXCEPT !.type = "HTTP_RESPONSE_WRITABLE",
                                !.toSendFd = ev[c].clientFd, !.resp = o.resp]
  <2>2. ev' = [ev EXCEPT ![c] = g]
    BY <1>2, <1>7
  <2>3. g.state = "live" /\ g.type = "HTTP_RESPONSE_WRITABLE" /\ g.parse = ev[c].parse /\ g.resp = o.resp
    BY <1>2 DEF Events
  <2> HIDE DEF g
  <2> QED
    BY <1>1, <1>4, <1>5, <2>2, <2>3, MovedOn
<1> QED
  BY <1>3, <1>6, <1>7

LEMMA WritablePromise ==
  ASSUME Known, NEW c \in Conns, ServeWritable(c)
  PROVE  Keeps
<1>1. Serve(c, "HTTP_RESPONSE_WRITABLE")
  BY DEF ServeWritable, SendMore, SendFails, FinishAndClose, FinishAndKeepAlive, Send
<1>2. CASE SendMore(c) \/ SendFails(c) \/ FinishAndClose(c)
  BY <1>1, <1>2, ServedSameKeeps, ServedRemovedKeeps DEF SendMore, SendFails, FinishAndClose
<1>3. CASE FinishAndKeepAlive(c)
  <2>1. /\ ev[c] \in Events /\ ev[c].state = "live" /\ ResponseOf(ev[c]) = "made"
        /\ PhaseOf(ev[c]) = "sending" /\ ev \in [Conns -> Events] /\ ev[c].parse # "bad"
    BY <1>1, <1>3, ServedIs, KnownGives DEF TypeOK, FinishAndKeepAlive
  <2>2. CASE ev' = [ev EXCEPT ![c] = Initialized(c)]
    <3> DEFINE f == Initialized(c)
    <3>1. f.state = "live" /\ f.type = "HTTP_REQUEST_READABLE" /\ f.parse = "parsing" /\ f.resp.type = "NULL"
      BY DEF Initialized, NewEvent, NoResponse, Response
    <3>2. PhaseOf(f) = "receiving" /\ ResponseOf(f) = "none"
      BY <3>1, PhaseIs, TypePhaseIs, ResponseIs
    <3>3. Promised(ev[c], f)
      BY <2>1, <3>1, <3>2 DEF Promised, Seen
    <3> QED
      BY <1>1, <2>2, <3>3, ServedKeeps
  <2>3. CASE ev' = [ev EXCEPT ![c].resp.state = "HTTP_SENDING_DONE"]
    <3> DEFINE g == [ev[c] EXCEPT !.resp.state = "HTTP_SENDING_DONE"]
    <3>1. ev' = [ev EXCEPT ![c] = g]
      BY <2>1, <2>3
    <3>2. /\ g.state = ev[c].state /\ g.type = ev[c].type /\ g.parse = ev[c].parse
          /\ g.resp.type = ev[c].resp.type
      BY <2>1 DEF Events, Responses
    <3> HIDE DEF g
    <3>3. Promised(ev[c], g)
      BY <3>2, SamePromised
    <3> QED
      BY <1>1, <3>1, <3>3, ServedKeeps
  <2> QED
    BY <1>3, <2>2, <2>3 DEF FinishAndKeepAlive
<1> QED
  BY <1>2, <1>3 DEF ServeWritable

LEMMA ServePromise ==
  ASSUME Known, NEW c \in Conns, ServeOne(c)
  PROVE  Keeps
<1>1. CASE DeletesTwice(c)
  BY <1>1, StillKeepsPromise DEF DeletesTwice
<1>2. CASE ServeReadable(c)
  BY <1>2, BeginCgiPromise, ProcessPromise DEF ServeReadable
<1>3. CASE ServeUpload(c)
  BY <1>3, UploadPromise, FilePromise, CgiPromise, CgiForkPromise DEF ServeUpload
<1> QED
  BY <1>1, <1>2, <1>3, FlushPromise, DownloadPromise, CgiReplyPromise, WritablePromise DEF ServeOne

LEMMA PromiseStep ==
  ASSUME Known, [Next]_vars
  PROVE  Keeps
<1>1. CASE UNCHANGED vars
  BY <1>1, StillKeepsPromise DEF vars
<1>2. CASE Next
  BY <1>2, KernelPromise, EvictPromise, AcceptPromise, RoutePromise, ServePromise DEF Next
<1> QED
  BY <1>1, <1>2

\* AnswersReady is an invariant: it follows from what every step promises.
LEMMA ReadyStep ==
  ASSUME Known, Keeps
  PROVE  AnswersReady'
<1> SUFFICES ASSUME NEW c \in Conns
             PROVE  /\ PhaseOf(ev'[c]) \in {"downloading", "sending"} => ResponseOf(ev'[c]) = "made"
                    /\ PhaseOf(ev'[c]) = "running" => ev'[c].parse # "bad"
                    /\ PhaseOf(ev'[c]) = "none" => ResponseOf(ev'[c]) = "none" /\ ev'[c].parse # "bad"
  BY DEF Keeps, AnswersReady
<1>1. Promised(ev[c], ev'[c])
  BY DEF Keeps
<1>2. /\ PhaseOf(ev[c]) \in {"downloading", "sending"} => ResponseOf(ev[c]) = "made"
      /\ PhaseOf(ev[c]) = "running" => ev[c].parse # "bad"
      /\ PhaseOf(ev[c]) = "none" => ResponseOf(ev[c]) = "none" /\ ev[c].parse # "bad"
  BY KnownGives DEF AnswersReady
<1> QED
  BY <1>1, <1>2 DEF Promised, Seen, Abstract!Phases

LEMMA PromiseInit == Init => AnswersReady /\ Abstract!Init
<1> SUFFICES ASSUME Init PROVE AnswersReady /\ Abstract!Init
  OBVIOUS
<1> DEFINE e == NewEvent("none", NoFd)
<1>1. e.state = "none" /\ e.parse = "parsing" /\ e.resp.type = "NULL"
  BY DEF NewEvent, NoResponse, Response
<1>2. PhaseOf(e) = "none" /\ ResponseOf(e) = "none"
  BY <1>1, PhaseIs, ResponseIs
<1>3. \A c \in Conns : ev[c] = e /\ routed[c] = 0
  BY DEF Init
<1> HIDE DEF e
<1> QED
  BY <1>1, <1>2, <1>3 DEF AnswersReady, Abstract!Init

\* EventLoop implements Connection.  Whichever of the Faults happen and however
\* many connections share the loop, each goes through the phases of its requests in
\* order, and a connection that answered 400 is closed and never used again.
THEOREM ImplementsConnection == Spec => EachIsAConnection
<1>1. Init => AnswersReady /\ Abstract!Init
  BY PromiseInit
<1>2. IInv /\ AnswersReady /\ [Next]_vars => AnswersReady' /\ [Abstract!Next]_(Abstract!vars)
  BY InvGives, PromiseStep, ReadyStep, StepsTogether DEF Known, Keeps
<1> QED
  BY <1>1, <1>2, InvariantHolds, PTL DEF Spec, EachIsAConnection, Abstract!Spec
=============================================================================
