------------------------------ MODULE Listeners ------------------------------
(***************************************************************************)
(* Router::start and Router::end under main's loop: the listening sockets  *)
(* of the server over its reboots.  _serverSockets is never cleared, so    *)
(* end() closes numbers that an earlier end() has closed before, and       *)
(* whether these belong to somebody else by then depends on how the kernel *)
(* hands out descriptors.  The programs that VirtualServer::_callCgi forks *)
(* inherit every listening socket: nothing is opened close-on-exec.        *)
(* Queued registrations count as made: kevent applies them before it       *)
(* returns anything.                                                       *)
(***************************************************************************)
EXTENDS Integers, Sequences

CONSTANTS MaxFd,       \* the largest descriptor number
          First,       \* below it are standard streams, kqueue and log
          NPorts,      \* how many ports are configured
          Programs,    \* the CGI programs that may run at a time
          MaxReboots   \* bound on the number of reboots

\* Without enough descriptors for its listening sockets no server is configured.
ASSUME ListenersAssumption ==
  /\ MaxFd \in Nat /\ First \in Nat /\ NPorts \in Nat \ {0} /\ MaxReboots \in Nat
  /\ First + NPorts - 1 =< MaxFd

Fds == 0..MaxFd
Ports == 1..NPorts

\* Who uses a number: a port's socket, or one of these.
Free == 0
Kept == -1   \* what is open before the first boot and until the end
Other == -2  \* a client's socket, or a file

VARIABLES
  server,      \* "booting", "running", "ending", "exited"
  booted,      \* the ports opened in this boot, in their order
  closing,     \* the next entry of sockets that end() closes
  sockets,     \* _serverSockets
  owner,       \* of each descriptor number
  registered,  \* the life of the server whose Event the number leads to, 0: none
  held,        \* the ports whose sockets each running program has inherited
  reboots
vars == <<server, booted, closing, sockets, owner, registered, held, reboots>>

TypeOK ==
  /\ server \in {"booting", "running", "ending", "exited"}
  /\ booted \in 0..NPorts /\ sockets \in Seq(Fds) /\ closing \in 1..(Len(sockets) + 1)
  /\ owner \in [Fds -> Ports \cup {Free, Kept, Other}]
  /\ registered \in [Fds -> Nat] /\ held \in [Programs -> SUBSET Ports] /\ reboots \in 0..MaxReboots

Init ==
  /\ server = "booting" /\ booted = 0 /\ closing = 1 /\ sockets = << >> /\ reboots = 0
  /\ owner = [f \in Fds |-> IF f < First THEN Kept ELSE Free]
  /\ registered = [f \in Fds |-> 0]
  /\ held = [g \in Programs |-> {}]

\* Every descriptor that the kernel hands out is the lowest free one.
Lowest(f) == owner[f] = Free /\ \A g \in Fds : g < f => owner[g] # Free
Exhausted == \A f \in Fds : owner[f] # Free

\* More ports are left to open.
Unopened == booted < NPorts

\* Mutant of Taken: without SO_REUSEADDR connections keep the port.
TakenByClients(p) ==
  \/ \E f \in Fds : owner[f] \in {p, Other}
  \/ \E g \in Programs : p \in held[g]

\* bind fails on a port that a socket listens at already, here or in a program.
Taken(p) == (\E f \in Fds : owner[f] = p) \/ (\E g \in Programs : p \in held[g])

\* Mutant of Life: the Event of the boot before is registered again.
LastLife == reboots
Life == reboots + 1

OpenSocket ==
  /\ server = "booting" /\ Unopened /\ ~Taken(booted + 1)
  /\ \E f \in Fds :
       /\ Lowest(f)
       /\ owner' = [owner EXCEPT ![f] = booted + 1]
       /\ registered' = [registered EXCEPT ![f] = Life]
       /\ sockets' = Append(sockets, f)
  /\ booted' = booted + 1
  /\ UNCHANGED <<server, closing, held, reboots>>

\* socket or bind throws, and start() calls std::exit(1).
BootFails ==
  /\ server = "booting" /\ Unopened /\ (Taken(booted + 1) \/ Exhausted)
  /\ server' = "exited"
  /\ UNCHANGED <<booted, closing, sockets, owner, registered, held, reboots>>

Serve ==
  /\ server = "booting" /\ ~Unopened
  /\ server' = "running"
  /\ UNCHANGED <<booted, closing, sockets, owner, registered, held, reboots>>

\* A connection is accepted, or a file opened.
Open ==
  /\ server = "running"
  /\ \E f \in Fds : Lowest(f) /\ owner' = [owner EXCEPT ![f] = Other]
  /\ UNCHANGED <<server, booted, closing, sockets, registered, held, reboots>>

\* Mutant of Closable: an error of a listening socket removes it like a connection.
AnyOfOurs(f) == owner[f] \notin {Free, Kept}
Closable(f) == owner[f] = Other

Close(f) ==
  /\ server = "running" /\ Closable(f)
  /\ owner' = [owner EXCEPT ![f] = Free]
  /\ UNCHANGED <<server, booted, closing, sockets, registered, held, reboots>>

Fork(g) ==
  /\ server = "running" /\ held[g] = {}
  /\ held' = [held EXCEPT ![g] = {p \in Ports : \E f \in Fds : owner[f] = p}]
  /\ UNCHANGED <<server, booted, closing, sockets, owner, registered, reboots>>

Exit(g) ==
  /\ held[g] # {} /\ held' = [held EXCEPT ![g] = {}]
  /\ UNCHANGED <<server, booted, closing, sockets, owner, registered, reboots>>

\* main catches an exception.
Throw ==
  /\ server = "running" /\ reboots < MaxReboots
  /\ server' = "ending" /\ closing' = 1
  /\ UNCHANGED <<booted, sockets, owner, registered, held, reboots>>

\* One round of end()'s loop; closing a free number fails, and nobody looks.
CloseNext ==
  /\ server = "ending" /\ closing =< Len(sockets)
  /\ owner' = [owner EXCEPT ![sockets[closing]] = Free]
  /\ registered' = [registered EXCEPT ![sockets[closing]] = 0]
  /\ closing' = closing + 1
  /\ UNCHANGED <<server, booted, sockets, held, reboots>>

Restart ==
  /\ server = "ending" /\ closing > Len(sockets)
  /\ server' = "booting" /\ booted' = 0 /\ reboots' = reboots + 1
  /\ UNCHANGED <<closing, sockets, owner, registered, held>>

Next ==
  \/ OpenSocket \/ BootFails \/ Serve \/ Open \/ Throw \/ CloseNext \/ Restart
  \/ \E f \in Fds : Close(f)
  \/ \E g \in Programs : Fork(g) \/ Exit(g)

Spec == Init /\ [][Next]_vars

-----------------------------------------------------------------------------
(* Properties *)

\* Although _serverSockets keeps the numbers of all earlier lives (Router.cpp:36-40),
\* end() never closes a client's socket, a file or the kqueue.
NeverClosesForeign ==
  [][\A f \in Fds : server = "ending" /\ owner'[f] # owner[f] => owner[f] \in Ports]_vars

\* While the server runs each port has one socket, which leads to the Event of this
\* life; no number leads to an Event of an earlier one.
OneListener ==
  /\ server = "running" =>
       \A p \in Ports : \E f \in Fds : \A g \in Fds : owner[g] = p <=> g = f
  /\ server = "running" =>
       \A f \in Fds : registered[f] = (IF owner[f] \in Ports THEN reboots + 1 ELSE 0)

\* The server ends only in a reboot, and only because a program that an earlier life
\* has forked still listens at a port: never for want of descriptors, and never
\* because of its own sockets or connections.
ExitCauses ==
  [][server' = "exited" /\ server # "exited" =>
       reboots > 0 /\ \E g \in Programs : held[g] # {}]_vars

\* "Server Reoot...!" (main.cpp:20): after an exception the server boots again.
RebootServes == server # "exited"
=============================================================================
