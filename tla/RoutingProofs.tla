---------------------------- MODULE RoutingProofs ----------------------------
(***************************************************************************)
(* Proofs about how a connection and a request find their way: Listeners,  *)
(* for any number of ports, descriptors, programs and reboots, and Lookup, *)
(* for all configurations and all URIs.                                    *)
(***************************************************************************)
EXTENDS Listeners, Lookup, TLAPS, SequenceTheorems

-----------------------------------------------------------------------------
(* Listeners.  The numbers below First stay in use, end() frees the        *)
(* numbers from First on that the ports had, nothing is opened until the   *)
(* ports are open again, and the kernel hands out the lowest free number;  *)
(* so port p gets the number First + p - 1 in every life.                  *)

Slot(p) == First + p - 1
Slots == First..(First + NPorts - 1)

\* The numbers below the slots, the slots and those above them.
Zones ==
  /\ \A f \in Fds : f < First <=> owner[f] = Kept
  /\ \A f \in Fds : f >= First + NPorts => owner[f] \in {Free, Other}
  /\ \A i \in 1..Len(sockets) : sockets[i] \in Slots

\* In a boot the first slots are taken, one after the other.
Booted ==
  server \in {"booting", "running", "exited"} =>
    /\ \A p \in Ports : p =< booted => owner[Slot(p)] = p
    /\ \A p \in Ports : p > booted => owner[Slot(p)] = Free

\* Every slot that is taken is on the list of what end() will close.
Listed ==
  /\ server \in {"booting", "running", "exited"} =>
       \A p \in Ports : p =< booted => \E i \in 1..Len(sockets) : sockets[i] = Slot(p)
  /\ server = "ending" =>
       \A p \in Ports :
         \/ owner[Slot(p)] = p /\ \E i \in closing..Len(sockets) : sockets[i] = Slot(p)
         \/ owner[Slot(p)] = Free

\* Registrations are those of the sockets of this life.
Registered ==
  \A f \in Fds : registered[f] = (IF owner[f] \in Ports THEN reboots + 1 ELSE 0)

RunsBooted == server \in {"running", "ending"} => booted = NPorts

Starts ==
  /\ server = "booting" /\ reboots = 0 => \A g \in Programs : held[g] = {}
  /\ server = "ending" => reboots < MaxReboots

LsInv == TypeOK /\ Zones /\ Booted /\ Listed /\ Registered /\ RunsBooted /\ Starts

LEMMA SlotFacts ==
  /\ \A p \in Ports : Slot(p) \in Fds /\ Slot(p) \in Slots /\ p \in Int
  /\ \A f \in Slots : f - First + 1 \in Ports /\ Slot(f - First + 1) = f /\ f \in Fds
  /\ \A p, q \in Ports : Slot(p) = Slot(q) => p = q
BY ListenersAssumption DEF Slot, Slots, Ports, Fds

LEMMA OwnersDiffer ==
  /\ Free \notin Ports /\ Other \notin Ports /\ Kept \notin Ports
  /\ Free # Kept /\ Free # Other /\ Kept # Other
BY ListenersAssumption DEF Free, Other, Kept, Ports

LEMMA InitLsInv == Init => LsInv
<1> SUFFICES ASSUME Init PROVE LsInv
  OBVIOUS
<1>1. TypeOK
  BY ListenersAssumption DEF Init, TypeOK, Fds, Ports
<1>2. Zones
  BY ListenersAssumption, OwnersDiffer DEF Init, Zones, Fds, Slots
<1>3. Booted
  BY ListenersAssumption, SlotFacts DEF Init, Booted, Slots, Ports
<1>4. Listed
  BY DEF Init, Listed, Ports
<1>5. Registered
  BY OwnersDiffer DEF Init, Registered
<1> QED BY <1>1, <1>2, <1>3, <1>4, <1>5 DEF LsInv, RunsBooted, Starts, Init

\* The lowest free number of a boot is the next slot.
LEMMA NextSlot ==
  ASSUME LsInv, server = "booting", Unopened
  PROVE  /\ booted + 1 \in Ports
         /\ Lowest(Slot(booted + 1))
         /\ \A f \in Fds : Lowest(f) => f = Slot(booted + 1)
<1>1. booted + 1 \in Ports /\ booted \in Int
  BY ListenersAssumption DEF LsInv, TypeOK, Unopened, Ports
<1> DEFINE s == Slot(booted + 1)
<1>2. s \in Fds /\ s \in Slots /\ owner[s] = Free
  BY <1>1, SlotFacts DEF LsInv, Booted
<1>3. ASSUME NEW g \in Fds, g < s PROVE owner[g] # Free
  <2>1. CASE g < First
    BY <2>1, OwnersDiffer DEF LsInv, Zones
  <2>2. CASE g >= First
    <3>1. g \in Slots /\ g - First + 1 =< booted
      BY <1>1, <1>2, <1>3, <2>2, ListenersAssumption DEF Slots, Slot, Fds
    <3>2. owner[Slot(g - First + 1)] = g - First + 1
      BY <3>1, SlotFacts DEF LsInv, Booted
    <3> QED BY <3>1, <3>2, SlotFacts, OwnersDiffer
  <2> QED BY <2>1, <2>2, ListenersAssumption DEF Fds
<1>4. Lowest(s)
  BY <1>2, <1>3 DEF Lowest
<1>5. ASSUME NEW f \in Fds, Lowest(f) PROVE f = s
  <2>1. ~(f < s)
    BY <1>3, <1>5 DEF Lowest
  <2>2. ~(s < f)
    BY <1>2, <1>5 DEF Lowest
  <2> HIDE DEF s
  <2> QED BY <1>2, <2>1, <2>2, ListenersAssumption DEF Fds
<1> QED BY <1>1, <1>4, <1>5

LEMMA OpenSocketLsInv == ASSUME LsInv, OpenSocket PROVE LsInv'
<1>1. PICK f \in Fds :
        /\ Lowest(f)
        /\ owner' = [owner EXCEPT ![f] = booted + 1]
        /\ registered' = [registered EXCEPT ![f] = Life]
        /\ sockets' = Append(sockets, f)
  BY DEF OpenSocket
<1>2. booted + 1 \in Ports /\ f = Slot(booted + 1) /\ f \in Slots
  BY <1>1, NextSlot, SlotFacts DEF OpenSocket
<1>3. /\ booted' = booted + 1 /\ booted \in Nat
      /\ UNCHANGED <<server, closing, held, reboots>> /\ server = "booting"
  BY DEF OpenSocket, LsInv, TypeOK
<1>4. /\ sockets \in Seq(Fds) /\ Len(sockets) \in Nat /\ sockets' \in Seq(Fds)
      /\ Len(sockets') = Len(sockets) + 1 /\ sockets'[Len(sockets) + 1] = f
      /\ \A i \in 1..Len(sockets) : sockets'[i] = sockets[i]
  BY <1>1 DEF LsInv, TypeOK
<1>5. /\ owner \in [Fds -> Ports \cup {Free, Kept, Other}] /\ registered \in [Fds -> Nat]
      /\ reboots \in Nat
  BY DEF LsInv, TypeOK
<1>6. owner'[f] = booted + 1 /\ \A g \in Fds : g # f => owner'[g] = owner[g]
  BY <1>1, <1>5
<1>7. TypeOK'
  <2>1. owner' \in [Fds -> Ports \cup {Free, Kept, Other}] /\ registered' \in [Fds -> Nat]
    BY <1>1, <1>2, <1>5 DEF Life
  <2>2. booted' \in 0..NPorts /\ closing' \in 1..(Len(sockets') + 1)
    BY <1>2, <1>3, <1>4 DEF LsInv, TypeOK, Ports
  <2> QED BY <1>3, <1>4, <2>1, <2>2 DEF LsInv, TypeOK
<1>8. Zones'
  <2>1. \A g \in Fds : g < First <=> owner'[g] = Kept
    BY <1>2, <1>6, OwnersDiffer, ListenersAssumption DEF LsInv, Zones, Slots
  <2>2. \A g \in Fds : g >= First + NPorts => owner'[g] \in {Free, Other}
    BY <1>2, <1>6, ListenersAssumption DEF LsInv, Zones, Slots
  <2>3. \A i \in 1..Len(sockets') : sockets'[i] \in Slots
    BY <1>2, <1>4 DEF LsInv, Zones
  <2> QED BY <2>1, <2>2, <2>3 DEF Zones
<1>9. Booted'
  <2>1. ASSUME NEW p \in Ports, p =< booted' PROVE owner'[Slot(p)] = p
    BY <1>2, <1>3, <1>6, <2>1, SlotFacts DEF LsInv, Booted
  <2>2. ASSUME NEW p \in Ports, p > booted' PROVE owner'[Slot(p)] = Free
    BY <1>2, <1>3, <1>6, <2>2, SlotFacts DEF LsInv, Booted
  <2> QED BY <2>1, <2>2 DEF Booted
<1>10. Listed'
  <2>1. ASSUME NEW p \in Ports, p =< booted'
        PROVE  \E i \in 1..Len(sockets') : sockets'[i] = Slot(p)
    <3>1. CASE p = booted + 1
      BY <1>2, <1>4, <3>1
    <3>2. CASE p =< booted
      BY <1>3, <1>4, <3>2 DEF LsInv, Listed
    <3> QED BY <1>3, <2>1, <3>1, <3>2, SlotFacts
  <2> QED BY <1>3, <2>1 DEF Listed
<1>11. Registered'
  <2>1. registered'[f] = reboots + 1 /\ owner'[f] \in Ports
    BY <1>1, <1>2, <1>5, <1>6 DEF Life
  <2>2. ASSUME NEW g \in Fds, g # f PROVE registered'[g] = registered[g] /\ owner'[g] = owner[g]
    BY <1>1, <1>5, <1>6, <2>2
  <2> QED BY <1>3, <2>1, <2>2 DEF LsInv, Registered
<1> QED BY <1>3, <1>7, <1>8, <1>9, <1>10, <1>11 DEF LsInv, RunsBooted, Starts

\* What clients' sockets and files use lies above the slots.
LEMMA AboveSlots ==
  ASSUME LsInv, server = "running", NEW f \in Fds, owner[f] \in {Free, Other}
  PROVE  f >= First + NPorts /\ f \notin Slots /\ \A p \in Ports : f # Slot(p)
<1>1. ~(f < First)
  BY OwnersDiffer DEF LsInv, Zones
<1>2. f \notin Slots
  <2> SUFFICES ASSUME f \in Slots PROVE FALSE
    OBVIOUS
  <2>1. f - First + 1 \in Ports /\ Slot(f - First + 1) = f /\ f - First + 1 =< booted
    BY SlotFacts, ListenersAssumption DEF LsInv, RunsBooted, Ports
  <2> QED BY <2>1, OwnersDiffer DEF LsInv, Booted
<1> QED BY <1>1, <1>2, SlotFacts, ListenersAssumption DEF Slots, Fds

\* One of those numbers comes or goes.
LEMMA OtherChanges ==
  ASSUME LsInv, server = "running", NEW f \in Fds, owner[f] \in {Free, Other},
         NEW o \in {Free, Other}, owner' = [owner EXCEPT ![f] = o],
         UNCHANGED <<server, booted, closing, sockets, registered, held, reboots>>
  PROVE  LsInv'
<1>1. f >= First + NPorts /\ \A p \in Ports : f # Slot(p)
  BY AboveSlots
<1>2. owner \in [Fds -> Ports \cup {Free, Kept, Other}]
  BY DEF LsInv, TypeOK
<1>3. owner'[f] = o /\ \A g \in Fds : g # f => owner'[g] = owner[g]
  BY <1>2
<1>4. TypeOK'
  BY <1>2 DEF LsInv, TypeOK
<1>5. Zones'
  <2>1. \A g \in Fds : g < First <=> owner'[g] = Kept
    BY <1>1, <1>3, OwnersDiffer, ListenersAssumption DEF LsInv, Zones
  <2> QED BY <1>3, <2>1 DEF LsInv, Zones
<1>6. \A p \in Ports : owner'[Slot(p)] = owner[Slot(p)]
  BY <1>1, <1>3, SlotFacts
<1>7. Booted' /\ Listed'
  BY <1>6 DEF LsInv, Booted, Listed
<1>8. Registered'
  BY <1>3, OwnersDiffer DEF LsInv, Registered
<1> QED BY <1>4, <1>5, <1>7, <1>8 DEF LsInv, RunsBooted, Starts

\* Programs come and go: only what they hold changes.
LEMMA ProgramsLsInv ==
  ASSUME LsInv, NEW g \in Programs, Fork(g) \/ Exit(g)
  PROVE  LsInv'
<1>1. /\ held' \in [Programs -> SUBSET Ports]
      /\ UNCHANGED <<server, booted, closing, sockets, owner, registered, reboots>>
  BY DEF LsInv, TypeOK, Fork, Exit
<1>2. Starts'
  BY DEF LsInv, TypeOK, Starts, Fork, Exit
<1> QED BY <1>1, <1>2 DEF LsInv, TypeOK, Zones, Booted, Listed, Registered, RunsBooted

LEMMA BootEndsLsInv == ASSUME LsInv, Serve \/ BootFails PROVE LsInv'
<1>1. /\ server = "booting" /\ server' \in {"running", "exited"}
      /\ UNCHANGED <<booted, closing, sockets, owner, registered, held, reboots>>
  BY DEF Serve, BootFails
<1>2. RunsBooted'
  BY ListenersAssumption DEF LsInv, TypeOK, RunsBooted, Serve, BootFails, Unopened
<1> QED BY <1>1, <1>2 DEF LsInv, TypeOK, Zones, Booted, Listed, Registered, Starts

LEMMA ThrowLsInv == ASSUME LsInv, Throw PROVE LsInv'
<1>1. /\ server = "running" /\ server' = "ending" /\ closing' = 1
      /\ UNCHANGED <<booted, sockets, owner, registered, held, reboots>>
  BY DEF Throw
<1>2. TypeOK'
  <2>1. 1 \in 1..(Len(sockets) + 1)
    BY DEF LsInv, TypeOK
  <2> QED BY <1>1, <2>1 DEF LsInv, TypeOK
<1>3. Listed'
  <2>1. \A p \in Ports : p =< booted
    BY <1>1, ListenersAssumption DEF LsInv, RunsBooted, Ports
  <2> QED BY <1>1, <2>1 DEF LsInv, Listed, Booted
<1> QED BY <1>1, <1>2, <1>3 DEF LsInv, Zones, Booted, Registered, RunsBooted, Starts, Throw

\* end() frees a slot, for the first time or again.
LEMMA CloseNextLsInv == ASSUME LsInv, CloseNext PROVE LsInv'
<1> DEFINE f == sockets[closing]
<1>1. /\ server = "ending" /\ closing \in 1..Len(sockets) /\ closing' = closing + 1
      /\ owner' = [owner EXCEPT ![f] = Free] /\ registered' = [registered EXCEPT ![f] = 0]
      /\ UNCHANGED <<server, booted, sockets, held, reboots>>
      /\ closing \in Nat /\ Len(sockets) \in Nat
  BY DEF LsInv, TypeOK, CloseNext
<1>2. f \in Slots /\ f \in Fds
  BY <1>1, SlotFacts DEF LsInv, Zones
<1>3. owner \in [Fds -> Ports \cup {Free, Kept, Other}] /\ registered \in [Fds -> Nat]
  BY DEF LsInv, TypeOK
<1>4. /\ owner'[f] = Free /\ registered'[f] = 0
      /\ \A g \in Fds : g # f => owner'[g] = owner[g] /\ registered'[g] = registered[g]
  BY <1>1, <1>2, <1>3
<1>5. TypeOK'
  BY <1>1, <1>2, <1>3 DEF LsInv, TypeOK
<1>6. Zones'
  <2>1. \A g \in Fds : g < First <=> owner'[g] = Kept
    BY <1>2, <1>4, OwnersDiffer, ListenersAssumption DEF LsInv, Zones, Slots
  <2>2. \A g \in Fds : g >= First + NPorts => owner'[g] \in {Free, Other}
    BY <1>4 DEF LsInv, Zones
  <2> QED BY <1>1, <2>1, <2>2 DEF LsInv, Zones
<1>7. Listed'
  <2> SUFFICES ASSUME NEW p \in Ports
               PROVE  \/ owner'[Slot(p)] = p /\ \E i \in closing'..Len(sockets) : sockets[i] = Slot(p)
                      \/ owner'[Slot(p)] = Free
    BY <1>1 DEF Listed
  <2>1. CASE Slot(p) = f
    BY <1>4, <2>1
  <2>2. CASE Slot(p) # f
    <3>1. owner'[Slot(p)] = owner[Slot(p)]
      BY <1>4, <2>2, SlotFacts
    <3>2. CASE owner[Slot(p)] = Free
      BY <3>1, <3>2
    <3>3. CASE owner[Slot(p)] = p /\ \E i \in closing..Len(sockets) : sockets[i] = Slot(p)
      <4>1. PICK i \in closing..Len(sockets) : sockets[i] = Slot(p)
        BY <3>3
      <4>2. i # closing
        BY <2>2, <4>1
      <4>3. i \in closing'..Len(sockets)
        BY <1>1, <4>2
      <4> QED BY <3>1, <3>3, <4>1, <4>3
    <3> QED BY <1>1, <3>2, <3>3 DEF LsInv, Listed
  <2> QED BY <2>1, <2>2
<1>8. Registered'
  BY <1>1, <1>4, OwnersDiffer DEF LsInv, Registered
<1> HIDE DEF f
<1> QED BY <1>1, <1>5, <1>6, <1>7, <1>8 DEF LsInv, Booted, RunsBooted, Starts

\* When end() has come to the end of its list all slots are free.
LEMMA RestartLsInv ==
  ASSUME LsInv, Restart
  PROVE  LsInv'
<1>1. /\ server = "ending" /\ server' = "booting" /\ booted' = 0 /\ reboots' = reboots + 1
      /\ UNCHANGED <<closing, sockets, owner, registered, held>>
      /\ closing > Len(sockets) /\ closing \in Nat /\ Len(sockets) \in Nat /\ reboots \in Nat
  BY DEF LsInv, TypeOK, Restart
<1>2. \A p \in Ports : owner[Slot(p)] = Free
  BY <1>1 DEF LsInv, Listed
<1>3. TypeOK'
  BY <1>1, ListenersAssumption DEF LsInv, TypeOK, Starts
<1>4. Booted' /\ Listed'
  BY <1>1, <1>2, ListenersAssumption DEF Booted, Listed, Ports
<1>5. \A f \in Fds : owner[f] \notin Ports
  <2> SUFFICES ASSUME NEW f \in Fds PROVE owner[f] \notin Ports
    OBVIOUS
  <2>1. CASE f \in Slots
    BY <1>2, <2>1, SlotFacts, OwnersDiffer
  <2>2. CASE f < First
    BY <2>2, OwnersDiffer DEF LsInv, Zones
  <2>3. CASE f >= First + NPorts
    BY <2>3, OwnersDiffer DEF LsInv, Zones
  <2> QED BY <2>1, <2>2, <2>3, ListenersAssumption DEF Slots, Fds
<1>6. Registered'
  BY <1>1, <1>5 DEF LsInv, Registered
<1> QED BY <1>1, <1>3, <1>4, <1>6 DEF LsInv, Zones, RunsBooted, Starts

LEMMA NextLsInv == LsInv /\ [Next]_vars => LsInv'
<1> SUFFICES ASSUME LsInv, [Next]_vars PROVE LsInv'
  OBVIOUS
<1>1. CASE UNCHANGED vars
  BY <1>1 DEF vars, LsInv, TypeOK, Zones, Booted, Listed, Registered, RunsBooted, Starts
<1>2. CASE Open
  BY <1>2, OtherChanges DEF Open, Lowest
<1>3. ASSUME NEW f \in Fds, Close(f) PROVE LsInv'
  BY <1>3, OtherChanges DEF Close, Closable
<1> QED BY <1>1, <1>2, <1>3, OpenSocketLsInv, BootEndsLsInv, ThrowLsInv, CloseNextLsInv,
           RestartLsInv, ProgramsLsInv DEF Next

\* The ports have the same numbers in every life: LsInv is inductive.
THEOREM ListenersInvariant == Spec => []LsInv
BY InitLsInv, NextLsInv, PTL DEF Spec

\* The counters of Router::_serverSocketsInit and of end()'s loop stay in range.
THEOREM ListenersTyped == Spec => []TypeOK
BY ListenersInvariant, PTL DEF LsInv

\* One socket per port, and one Event per socket, however often Router::start was called.
THEOREM PortsHaveOneListener == Spec => []OneListener
<1>1. LsInv => OneListener
  <2> SUFFICES ASSUME LsInv, server = "running", NEW p \in Ports
               PROVE  \E f \in Fds : \A g \in Fds : owner[g] = p <=> g = f
    BY DEF LsInv, Registered, OneListener
  <2>1. \A q \in Ports : owner[Slot(q)] = q
    BY ListenersAssumption DEF LsInv, Booted, RunsBooted, Ports
  <2>2. ASSUME NEW g \in Fds, owner[g] = p PROVE g = Slot(p)
    <3>1. g \in Slots
      BY <2>2, OwnersDiffer, ListenersAssumption DEF LsInv, Zones, Slots, Fds
    <3>2. g - First + 1 \in Ports /\ Slot(g - First + 1) = g
      BY <3>1, SlotFacts
    <3> QED BY <2>1, <2>2, <3>2
  <2> QED BY <2>1, <2>2, SlotFacts
<1> QED BY <1>1, ListenersInvariant, PTL

\* Router::end closes nothing but listening sockets, although its list only grows.
THEOREM EndClosesOwn == Spec => NeverClosesForeign
<1>1. LsInv /\ [Next]_vars =>
        [\A f \in Fds : server = "ending" /\ owner'[f] # owner[f] => owner[f] \in Ports]_vars
  <2> SUFFICES ASSUME LsInv, [Next]_vars, NEW f \in Fds, server = "ending",
                      owner'[f] # owner[f]
               PROVE  owner[f] \in Ports
    OBVIOUS
  <2>1. CloseNext
    BY DEF Next, vars, OpenSocket, BootFails, Serve, Open, Throw, Restart, Close, Fork, Exit
  <2>2. closing \in 1..Len(sockets) /\ owner' = [owner EXCEPT ![sockets[closing]] = Free]
    BY <2>1 DEF CloseNext, LsInv, TypeOK
  <2>3. f = sockets[closing] /\ f \in Slots
    BY <2>2 DEF LsInv, TypeOK, Zones
  <2>4. f - First + 1 \in Ports /\ Slot(f - First + 1) = f
    BY <2>3, SlotFacts
  <2>5. owner[f] # Free
    BY <2>2, <2>3 DEF LsInv, TypeOK
  <2> QED BY <2>4, <2>5 DEF LsInv, Listed
<1> QED BY <1>1, ListenersInvariant, PTL DEF Spec, NeverClosesForeign

\* std::exit(1) of Router.cpp:25 is reached only in a reboot while a program runs.
THEOREM ExitIsExplained == Spec => ExitCauses
<1>1. LsInv /\ [Next]_vars =>
        [server' = "exited" /\ server # "exited" =>
           reboots > 0 /\ \E g \in Programs : held[g] # {}]_vars
  <2> SUFFICES ASSUME LsInv, [Next]_vars, server' = "exited", server # "exited"
               PROVE  reboots > 0 /\ \E g \in Programs : held[g] # {}
    OBVIOUS
  <2>1. BootFails
    BY DEF Next, vars, OpenSocket, Serve, Open, Throw, CloseNext, Restart, Close, Fork, Exit
  <2>2. server = "booting" /\ Unopened /\ (Taken(booted + 1) \/ Exhausted)
    BY <2>1 DEF BootFails
  <2>3. booted + 1 \in Ports /\ Lowest(Slot(booted + 1)) /\ booted \in Int
    BY <2>2, NextSlot DEF LsInv, TypeOK
  <2>4. ~Exhausted
    BY <2>3, SlotFacts DEF Exhausted, Lowest
  <2>5. \A f \in Fds : owner[f] # booted + 1
    <3> SUFFICES ASSUME NEW f \in Fds, owner[f] = booted + 1 PROVE FALSE
      OBVIOUS
    <3>1. f \in Slots
      BY <2>3, OwnersDiffer, ListenersAssumption DEF LsInv, Zones, Slots, Fds
    <3>2. PICK p \in Ports : f = Slot(p)
      BY <3>1, SlotFacts
    <3>3. owner[f] \in {p, Free} /\ (p > booted => owner[f] = Free)
      BY <2>2, <2>3, <3>2, SlotFacts DEF LsInv, Booted
    <3>4. p = booted + 1
      BY <2>3, <3>3, OwnersDiffer
    <3> QED BY <2>3, <3>3, <3>4, OwnersDiffer, SlotFacts
  <2>6. PICK g \in Programs : booted + 1 \in held[g]
    BY <2>2, <2>4, <2>5 DEF Taken
  <2>7. reboots # 0
    BY <2>2, <2>6 DEF LsInv, Starts
  <2> QED BY <2>6, <2>7 DEF LsInv, TypeOK
<1> QED BY <1>1, ListenersInvariant, PTL DEF Spec, ExitCauses

-----------------------------------------------------------------------------
(* Lookup.  While the loop runs, what is left of the URI ends one of its   *)
(* segments, and no location longer than it is a candidate.                *)

\* key is the beginning of the URI of length n.
Left(n) ==
  /\ n \in 0..Len(uri) /\ key = SubSeq(uri, 1, n)
  /\ n = 0 \/ Ends(n)
  /\ \A m \in Candidates : m =< n

Progress == phase = "looking" => \E n \in 0..Len(uri) : Left(n)

LInv == LookupTypeOK /\ Progress /\ LongestFound

\* What a prefix is made of.
LEMMA Prefix ==
  ASSUME NEW s \in Seq(Chars), NEW n \in 0..Len(s)
  PROVE  /\ SubSeq(s, 1, n) \in Seq(Chars) /\ Len(SubSeq(s, 1, n)) = n
         /\ \A i \in 1..n : SubSeq(s, 1, n)[i] = s[i]
BY SubSeqProperties

\* A prefix of a prefix is a prefix.
LEMMA PrefixOfPrefix ==
  ASSUME NEW s \in Seq(Chars), NEW n \in 0..Len(s), NEW k \in 0..n
  PROVE  SubSeq(SubSeq(s, 1, n), 1, k) = SubSeq(s, 1, k)
<1> DEFINE p == SubSeq(s, 1, n)
<1>1. p \in Seq(Chars) /\ Len(p) = n /\ \A i \in 1..n : p[i] = s[i]
  BY Prefix
<1>2. k \in 0..Len(s) /\ k \in 0..Len(p)
  BY <1>1
<1>3. /\ SubSeq(s, 1, k) \in Seq(Chars) /\ Len(SubSeq(s, 1, k)) = k
      /\ \A i \in 1..k : SubSeq(s, 1, k)[i] = s[i]
  BY <1>2, Prefix
<1>4. /\ SubSeq(p, 1, k) \in Seq(Chars) /\ Len(SubSeq(p, 1, k)) = k
      /\ \A i \in 1..k : SubSeq(p, 1, k)[i] = p[i]
  <2> HIDE DEF p
  <2> QED BY <1>1, <1>2, Prefix
<1> HIDE DEF p
<1>5. \A i \in 1..k : SubSeq(p, 1, k)[i] = SubSeq(s, 1, k)[i]
  BY <1>1, <1>3, <1>4
<1>6. SubSeq(p, 1, k) = SubSeq(s, 1, k)
  BY <1>3, <1>4, <1>5, SeqEqual
<1> QED BY <1>6 DEF p

LEMMA RootSequence == Root \in Seq(Chars) /\ Len(Root) = 1 /\ Root[1] = "/"
BY LookupAssumption DEF Root

LEMMA InitLInv == LookupInit => LInv
<1> SUFFICES ASSUME LookupInit PROVE LInv
  OBVIOUS
<1>1. << >> \in Seq(Chars)
  OBVIOUS
<1>2. LookupTypeOK
  BY <1>1, LookupAssumption DEF LookupInit, LookupTypeOK
<1> QED BY <1>2 DEF LookupInit, LInv, Progress, LongestFound

\* A request starts with the whole URI.
LEMMA RequestLInv == ASSUME LInv, NEW u \in Uris, Request(u) PROVE LInv'
<1>1. u \in Seq(Chars)
  BY LookupAssumption
<1>2. LookupTypeOK'
  BY <1>1 DEF LInv, LookupTypeOK, Request
<1>3. SubSeq(u, 1, Len(u)) = u /\ Len(u) \in 0..Len(u) /\ Len(u) \in Nat
  <2>1. Len(u) \in 0..Len(u) /\ Len(u) \in Nat
    BY <1>1
  <2>2. /\ SubSeq(u, 1, Len(u)) \in Seq(Chars) /\ Len(SubSeq(u, 1, Len(u))) = Len(u)
        /\ \A i \in 1..Len(u) : SubSeq(u, 1, Len(u))[i] = u[i]
    BY <1>1, <2>1, Prefix
  <2> QED BY <1>1, <2>1, <2>2, SeqEqual
<1>4. (\A m \in Candidates : m =< Len(uri))' /\ (Len(uri) = 0 \/ Ends(Len(uri)))'
  <2>1. uri' = u /\ Candidates' \subseteq 1..Len(u)
    BY DEF Candidates, Request
  <2>2. (\A m \in Candidates : m =< Len(uri))'
    BY <1>3, <2>1
  <2>3. (Len(uri) = 0 \/ Ends(Len(uri)))'
    BY <1>3, <2>1 DEF Ends
  <2> QED BY <2>2, <2>3
<1>5. Left(Len(u))'
  BY <1>3, <1>4 DEF Left, Request
<1>6. Progress'
  BY <1>3, <1>5 DEF Progress, Request
<1> QED BY <1>2, <1>6 DEF LInv, LongestFound, Request

\* What is left, when it is a location of the configuration, is the longest candidate.
LEMMA HitLInv == ASSUME LInv, Hit PROVE LInv'
<1>1. LookupTypeOK'
  BY DEF LInv, LookupTypeOK, Hit
<1>2. PICK n \in 0..Len(uri) : Left(n)
  BY DEF LInv, Progress, Hit, More
<1>3. key \in keys /\ n # 0
  <2>1. key \in keys
    BY DEF LInv, LookupTypeOK, Hit, More
  <2>2. ASSUME n = 0 PROVE FALSE
    BY <1>2, <2>2, SubSeqEmpty DEF Left, Hit, More
  <2> QED BY <2>1, <2>2
<1>4. n \in Candidates /\ key = SubSeq(uri, 1, n) /\ \A m \in Candidates : m =< n
  BY <1>2, <1>3 DEF Left, Candidates, Ends
<1>5. LongestFound'
  BY <1>4 DEF LongestFound, Candidates, Ends, Hit
<1> QED BY <1>1, <1>5 DEF LInv, Progress, Hit

\* No candidate is skipped by a cut.
LEMMA CutLInv == ASSUME LInv, Cut PROVE LInv'
<1>1. PICK i \in 1..Len(key) : LastSlash(key, i) /\ key' = Before(key, i)
  BY DEF Cut
<1>2. PICK n \in 0..Len(uri) : Left(n)
  BY DEF LInv, Progress, Cut, More
<1>3. uri \in Seq(Chars) /\ Len(uri) \in Nat
  BY DEF LInv, LookupTypeOK
<1>4. /\ key = SubSeq(uri, 1, n) /\ Len(key) = n /\ \A j \in 1..n : key[j] = uri[j]
      /\ \A m \in Candidates : m =< n
  BY <1>2, <1>3, Prefix DEF Left
<1>5. i - 1 \in 0..n /\ i - 1 \in 0..Len(uri) /\ i \in 1..Len(uri) /\ n \in Nat /\ i \in Nat
  BY <1>2, <1>3, <1>4
<1>6. key' = SubSeq(uri, 1, i - 1)
  BY <1>1, <1>3, <1>4, <1>5, PrefixOfPrefix DEF Before
<1>7. i - 1 = 0 \/ Ends(i - 1)
  BY <1>1, <1>4, <1>5 DEF LastSlash, Ends
<1>8. \A m \in Candidates : m =< i - 1
  <2> SUFFICES ASSUME NEW m \in Candidates, m > i - 1 PROVE FALSE
    BY <1>5 DEF Candidates
  <2>1. m \in 1..Len(uri) /\ m \in Nat /\ m =< n /\ Ends(m) /\ SubSeq(uri, 1, m) \in keys
    BY <1>3, <1>4 DEF Candidates
  <2>2. CASE m = n
    BY <1>4, <2>1, <2>2 DEF LInv, LookupTypeOK, Cut, More
  <2>3. CASE m < n
    <3>1. uri[m + 1] = "/" /\ m + 1 \in (i + 1)..n
      BY <1>3, <1>5, <2>1, <2>3, <1>2 DEF Ends
    <3>2. key[m + 1] # "/"
      BY <1>1, <1>4, <3>1 DEF LastSlash
    <3> QED BY <1>4, <1>5, <3>1, <3>2
  <2> QED BY <1>5, <2>1, <2>2, <2>3
<1>9. LookupTypeOK'
  <2>1. key' \in Seq(Chars)
    BY <1>3, <1>5, <1>6, Prefix
  <2> QED BY <2>1 DEF LInv, LookupTypeOK, Cut
<1>10. Left(i - 1)'
  BY <1>5, <1>6, <1>7, <1>8 DEF Left, Candidates, Ends, Cut
<1>11. Progress'
  BY <1>5, <1>10 DEF Progress, Cut
<1> QED BY <1>9, <1>11 DEF LInv, LongestFound, Cut, More

\* When only the root is left no other location fits.
LEMMA DefaultLInv == ASSUME LInv, Default PROVE LInv'
<1>1. LookupTypeOK'
  BY RootSequence DEF LInv, LookupTypeOK, Default, Inserted
<1>2. PICK n \in 0..Len(uri) : Left(n)
  BY DEF LInv, Progress, Default
<1>3. n \in {0, 1}
  <2>1. Len(key) = n
    BY <1>2, Prefix DEF LInv, LookupTypeOK, Left
  <2> QED BY <2>1, RootSequence DEF Default
<1>4. Candidates \subseteq {1}
  BY <1>2, <1>3 DEF Left, Candidates
<1>5. LongestFound'
  BY <1>4 DEF LongestFound, Candidates, Ends, Default
<1> QED BY <1>1, <1>5 DEF LInv, Progress, Default

LEMMA NextLInv == LInv /\ [LookupNext]_lookupVars => LInv'
<1> SUFFICES ASSUME LInv, [LookupNext]_lookupVars PROVE LInv'
  OBVIOUS
<1>1. CASE UNCHANGED lookupVars
  BY <1>1 DEF lookupVars, LInv, LookupTypeOK, Progress, Left, LongestFound, Candidates, Ends
<1> QED BY <1>1, RequestLInv, HitLInv, CutLInv, DefaultLInv DEF LookupNext

\* LInv is inductive: whatever is configured and asked for, the loop keeps its place.
THEOREM LookupInvariant == LookupSpec => []LInv
BY InitLInv, NextLInv, PTL DEF LookupSpec

\* locations holds what was configured and nothing but "/" besides (VirtualServer.cpp:337).
THEOREM LookupTyped == LookupSpec => []LookupTypeOK
BY LookupInvariant, PTL DEF LInv

\* The lookup of VirtualServer.cpp:323-338 finds the longest location.
THEOREM LongestIsFound == LookupSpec => []LongestFound
BY LookupInvariant, PTL DEF LInv

\* The location found is the beginning of a URI that starts with a slash, so
\* substr of FileManager.cpp:14 does not throw.
THEOREM LocationFits == LookupSpec => []CutFits
<1>1. LInv => CutFits
  <2> SUFFICES ASSUME LInv, phase = "found", uri # << >>, uri[1] = "/"
               PROVE  Len(found) =< Len(uri) /\ found = SubSeq(uri, 1, Len(found))
    BY DEF CutFits
  <2>1. uri \in Seq(Chars) /\ Len(uri) \in Nat /\ 1 =< Len(uri)
    BY DEF LInv, LookupTypeOK
  <2>2. CASE \E n \in Candidates : found = SubSeq(uri, 1, n)
    <3>1. PICK n \in Candidates : found = SubSeq(uri, 1, n)
      BY <2>2
    <3>2. n \in 0..Len(uri)
      BY <2>1 DEF Candidates
    <3>3. Len(found) = n
      BY <2>1, <3>1, <3>2, Prefix
    <3> QED BY <2>1, <3>1, <3>2, <3>3
  <2>3. CASE found = Root
    <3>1. 1 \in 0..Len(uri)
      BY <2>1
    <3>2. /\ SubSeq(uri, 1, 1) \in Seq(Chars) /\ Len(SubSeq(uri, 1, 1)) = 1
          /\ \A i \in 1..1 : SubSeq(uri, 1, 1)[i] = uri[i]
      BY <2>1, <3>1, Prefix
    <3>3. \A i \in 1..1 : SubSeq(uri, 1, 1)[i] = Root[i]
      BY <3>2, RootSequence
    <3>4. SubSeq(uri, 1, 1) = Root
      BY <3>2, <3>3, RootSequence, SeqEqual
    <3> QED BY <2>1, <2>3, <3>4, RootSequence
  <2> QED BY <2>2, <2>3 DEF LInv, LongestFound
<1> QED BY <1>1, LookupInvariant, PTL

\* No URI that starts with a slash makes VirtualServer.cpp:334 cut for ever.
THEOREM EndlessIsExplained == LookupSpec => []EndlessCauses
<1>1. LInv => EndlessCauses
  <2> SUFFICES ASSUME LInv, Endless PROVE uri[1] # "/"
    BY DEF EndlessCauses
  <2>1. PICK n \in 0..Len(uri) : Left(n)
    BY DEF LInv, Progress, Endless, More
  <2>2. uri \in Seq(Chars) /\ Len(uri) \in Nat
    BY DEF LInv, LookupTypeOK
  <2>3. n # 0
    <3> SUFFICES ASSUME n = 0 PROVE FALSE
      OBVIOUS
    <3> QED BY <2>1, SubSeqEmpty DEF Left, Endless, More
  <2>4. Len(key) = n /\ \A i \in 1..n : key[i] = uri[i]
    BY <2>1, <2>2, Prefix DEF Left
  <2>5. 1 \in 1..Len(key) /\ 1 \in 1..n
    BY <2>2, <2>3, <2>4
  <2> QED BY <2>4, <2>5 DEF Endless
<1> QED BY <1>1, LookupInvariant, PTL
=============================================================================
