------------------------------- MODULE Kqueue -------------------------------
(***************************************************************************)
(* The part of the kernel's kqueue that the server relies on: at most one  *)
(* registration per <<descriptor, filter>>, changed by EV_ADD, EV_ENABLE,  *)
(* EV_DISABLE and EV_DELETE.  The kernel is not in the repository; this is *)
(* what EventHandler.cpp asks of it.                                       *)
(***************************************************************************)
EXTENDS Integers, Sequences

CONSTANTS Conns,    \* the Event objects of client connections
          Fds,      \* the file descriptors the process can be given
          Null      \* the NULL pointer

ASSUME ConstAssumption == /\ Fds \subseteq Nat
                          /\ Null \notin Conns

NoFd == -1

Filters == {"read", "write"}
Keys == Fds \X Filters

Registration == [st : {"none", "on", "off"}, ev : Conns \cup {Null}]
NoReg == [st |-> "none", ev |-> Null]

Flags == {"add", "delete", "enable", "disable"}
Change == [flag : Flags, ev : Conns \cup {Null}]

\* The change list, kept per key: only the order of the changes to one key
\* matters, changes to different keys commute.
EmptyList == [k \in Keys |-> << >>]
Queue(p, k, flag, c) ==
    [p EXCEPT ![k] = Append(@, [flag |-> flag, ev |-> c])]

\* Only EV_ADD creates a registration; the other flags fail without one, and
\* nothing can be registered on a descriptor that is not open.
Fails(reg, open, ch) == \/ ~open
                        \/ ch.flag # "add" /\ reg.st = "none"

\* The registration after change ch; the udata is replaced by every change.
Applied(reg, ch) ==
    IF ch.flag = "delete" THEN NoReg
    ELSE [st |-> IF ch.flag = "disable" THEN "off" ELSE "on", ev |-> ch.ev]

\* The list p once the first change of every key has been applied.
Rest(p) == [k \in Keys |-> IF p[k] = << >> THEN << >> ELSE Tail(p[k])]
=============================================================================
