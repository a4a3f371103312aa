------------------------------- MODULE Config -------------------------------
(***************************************************************************)
(* The parser of the configuration file, and the choice of a server by the *)
(* port and the name that a request asks for.                              *)
(*                                                                         *)
(* A line is its number of leading tabs, a keyword and a value.  Of the    *)
(* settings of a location one of each sort is kept: root, which has an     *)
(* identifier appended when it is inherited; size (client_max_body_size),  *)
(* which is inherited as it is; page (default_error_page), which is a map  *)
(* that is inherited entry by entry; autoindex, which is not inherited.    *)
(***************************************************************************)
EXTENDS Integers, Sequences

CONSTANTS Lines,       \* the lines that files are made of
          MaxLines,    \* bound: the length of a file
          Roots, Ids, Codes, Pages, Names

\* The keyword "server" is the whole line; the other keywords have values of their sorts.
ASSUME ConfigAssumption ==
  /\ "/" \in Ids
  /\ \A l \in Lines :
       /\ DOMAIN l = {"indent", "key", "value"} /\ l.indent \in Nat
       /\ l.key = "server" => l.indent = 0
       /\ l.key = "root" => l.value \in Roots
       /\ l.key = "location" => l.value \in Ids
       /\ l.key = "name" => l.value \in Names
       /\ l.key = "size" => l.value \in Nat
       /\ l.key = "port" => l.value \in Int
       /\ l.key = "page" => l.value \in Codes \X Pages

\* An empty string: of a setting that no line gives, or that a line gives no value.
Empty == ""

DefaultPort == 4242
PortMax == 65535
DefaultSize == 2147483647

VARIABLES
  mode,      \* the function that is running, "top" is _startParse; or how it ended
  lines,     \* the lines read so far
  server,    \* _server_info
  location,  \* _location_info
  servers    \* _serverInfos
vars == <<mode, lines, server, location, servers>>

LocationInfos ==
  [id : Ids, root : Roots \cup {Empty}, rootId : Ids \cup {Empty}, size : Nat,
   page : [Codes -> Pages \cup {"standard"}], autoindex : BOOLEAN]
ServerInfos ==
  [root : Roots \cup {Empty}, size : Nat, page : [Codes -> Pages \cup {"standard"}],
   port : 1..PortMax, name : Names \cup {Empty}, locations : SUBSET LocationInfos]

TypeOK ==
  /\ mode \in {"top", "server", "location", "done", "exit"}
  /\ lines \in Seq(Lines)
  /\ server \in ServerInfos /\ location \in LocationInfos /\ servers \in Seq(ServerInfos)

InitServerInfo ==
  [root |-> Empty, size |-> DefaultSize, page |-> [c \in Codes |-> "standard"],
   port |-> DefaultPort, name |-> Empty, locations |-> {}]

\* _init_locationInfo: what is inherited from the server's settings so far.
InitLocationInfo(s) ==
  [id |-> "/", root |-> s.root, rootId |-> Empty, size |-> s.size, page |-> s.page,
   autoindex |-> FALSE]

Init ==
  /\ mode = "top" /\ lines = << >> /\ servers = << >>
  /\ server = InitServerInfo /\ location = InitLocationInfo(InitServerInfo)

-----------------------------------------------------------------------------
\* map::operator[]: a location of the same key is replaced.
WithLocation(s, l) == [s EXCEPT !.locations = {k \in @ : k.id # l.id} \cup {l}]

\* The end of _parseServer.
Finished(s) ==
  IF s.locations = {} THEN [s EXCEPT !.locations = {InitLocationInfo(s)}] ELSE s

Read(l) == Len(lines) < MaxLines /\ l \in Lines /\ lines' = Append(lines, l)

\* The server that is complete if the location being parsed, if any, ends here.
Current == IF mode = "location" THEN WithLocation(server, location) ELSE server
Saved == IF mode = "top" THEN servers ELSE Append(servers, Finished(Current))

NewServer(l) ==
  /\ l.key = "server"
  /\ mode' = "server" /\ server' = InitServerInfo /\ servers' = Saved
  /\ UNCHANGED location

ServerSetting(s, l) ==
  CASE l.key = "root" -> [s EXCEPT !.root = l.value]
    [] l.key = "size" -> [s EXCEPT !.size = l.value]
    [] l.key = "page" -> [s EXCEPT !.page[l.value[1]] = l.value[2]]
    [] l.key = "port" -> [s EXCEPT !.port = l.value]
    [] l.key = "name" -> [s EXCEPT !.name = l.value]

\* Mutant of InLocation: the end of a location is not noticed.
DeepEnough(l) == mode = "location" /\ l.indent >= 1

\* _parseLocation goes on as long as there are two tabs.
InLocation(l) == mode = "location" /\ l.indent = 2

ValidPort(port) == port \in 1..PortMax

ParseServerSetting(l) ==
  /\ mode \in {"server", "location"} /\ ~InLocation(l)
  /\ l.key \in {"root", "size", "page", "name"} \/ (l.key = "port" /\ ValidPort(l.value))
  /\ mode' = "server" /\ server' = ServerSetting(Current, l)
  /\ UNCHANGED <<location, servers>>

\* Mutant of NewLocation: root is not extended by the identifier.
SameRoot(s, id) == [InitLocationInfo(s) EXCEPT !.id = id]

\* _parseLocation, before its loop.
NewLocation(s, id) == [InitLocationInfo(s) EXCEPT !.id = id, !.rootId = id]

BeginLocation(l) ==
  /\ mode \in {"server", "location"} /\ ~InLocation(l) /\ l.key = "location"
  /\ mode' = "location" /\ server' = Current
  /\ location' = NewLocation(Current, l.value)
  /\ UNCHANGED servers

LocationSetting(i, l) ==
  CASE l.key = "root" -> [i EXCEPT !.root = l.value, !.rootId = Empty]
    [] l.key = "size" -> [i EXCEPT !.size = l.value]
    [] l.key = "page" -> [i EXCEPT !.page[l.value[1]] = l.value[2]]
    [] l.key = "autoindex" -> [i EXCEPT !.autoindex = TRUE]

ParseLocationSetting(l) ==
  /\ InLocation(l) /\ l.key \in {"root", "size", "page", "autoindex"}
  /\ location' = LocationSetting(location, l)
  /\ UNCHANGED <<mode, server, servers>>

\* _error: a line that belongs elsewhere, or nowhere, and a port out of range.
Error(l) ==
  /\ \/ mode = "top" /\ l.key # "server"
     \/ InLocation(l) /\ l.key \in {"port", "name", "location", "junk"}
     \/ /\ mode \in {"server", "location"} /\ ~InLocation(l)
        /\ l.key \in {"autoindex", "junk"} \/ (l.key = "port" /\ ~ValidPort(l.value))
  /\ mode' = "exit"
  /\ UNCHANGED <<server, location, servers>>

ParseLine(l) ==
  \/ NewServer(l) \/ ParseServerSetting(l) \/ BeginLocation(l)
  \/ ParseLocationSetting(l) \/ Error(l)

\* Mutant of SamePort: equal names are needed, too.
SamePortAndName(s, t) == s.port = t.port /\ s.name = t.name

\* _setPorts: what must not be.
SamePort(s, t) == s.port = t.port

\* The end of the file; without any server there is one of defaults.
EndOfFile ==
  /\ mode \in {"top", "server", "location"}
  /\ servers' = IF mode = "top" THEN <<Finished(InitServerInfo)>> ELSE Saved
  /\ mode' = IF \E i, j \in DOMAIN servers' : i # j /\ SamePort(servers'[i], servers'[j])
             THEN "exit" ELSE "done"
  /\ UNCHANGED <<lines, server, location>>

Next ==
  \/ mode \notin {"done", "exit"} /\ \E l \in Lines : Read(l) /\ ParseLine(l)
  \/ EndOfFile

Spec == Init /\ [][Next]_vars

-----------------------------------------------------------------------------
(* Router::findServerId *)

First(set) == CHOOSE i \in set : \A j \in set : i =< j
FindServerId(port, name) ==
  LET byPort == {i \in DOMAIN servers : servers[i].port = port}
      byName == {i \in byPort : servers[i].name = name}
  IN CASE byName # {} -> First(byName)
       [] byName = {} /\ byPort # {} -> First(byPort)
       [] OTHER -> 1

-----------------------------------------------------------------------------
(* What a file says, read as a whole *)

LastOf(set) == CHOOSE i \in set : \A j \in set : j =< i

Starts(file) == {i \in 1..Len(file) : file[i].key = "server"}

\* The line that starts the server, or the location, that line i belongs to.
ServerLine(file, i) == LastOf({s \in Starts(file) : s =< i})
InBlock(file, l, i) ==
  /\ file[l].key = "location" /\ l < i
  /\ \A j \in (l + 1)..i : file[j].indent = 2
OwnLines(file, l) == {i \in 1..Len(file) : InBlock(file, l, i)}
ServerLines(file, s) ==
  {i \in 1..Len(file) :
     /\ ServerLine(file, i) = s /\ file[i].key # "server"
     /\ ~\E l \in 1..Len(file) : InBlock(file, l, i)}

\* The lines that a location's settings come from: its own, and those of its
\* server that stand before it.
Sources(file, s, l) == OwnLines(file, l) \cup {i \in ServerLines(file, s) : i < l}
Gives(file, set, key) == \E i \in set : file[i].key = key
Setting(file, set, key, default) ==
  LET found == {i \in set : file[i].key = key}
  IN IF found = {} THEN default ELSE file[LastOf(found)].value
PageSetting(file, set, code) ==
  LET found == {i \in set : file[i].key = "page" /\ file[i].value[1] = code}
  IN IF found = {} THEN "standard" ELSE file[LastOf(found)].value[2]

\* The location that the line l, and those below it, ask for in the server of line s.
LocationSays(file, s, l) ==
  [id |-> file[l].value,
   root |-> Setting(file, Sources(file, s, l), "root", Empty),
   rootId |-> IF Gives(file, OwnLines(file, l), "root") THEN Empty ELSE file[l].value,
   size |-> Setting(file, Sources(file, s, l), "size", DefaultSize),
   page |-> [c \in Codes |-> PageSetting(file, Sources(file, s, l), c)],
   autoindex |-> Gives(file, OwnLines(file, l), "autoindex")]

\* The lines that start the locations of the server of line s: of one identifier the last.
LocationLines(file, s) ==
  LET starts == {l \in ServerLines(file, s) : file[l].key = "location"}
  IN {l \in starts : ~\E k \in starts : k > l /\ file[k].value = file[l].value}

\* Without any location there is one that has the server's settings.
LocationsSay(file, s) ==
  LET own == ServerLines(file, s) IN
  IF LocationLines(file, s) # {} THEN {LocationSays(file, s, l) : l \in LocationLines(file, s)}
  ELSE {[id |-> "/", root |-> Setting(file, own, "root", Empty), rootId |-> Empty,
         size |-> Setting(file, own, "size", DefaultSize),
         page |-> [c \in Codes |-> PageSetting(file, own, c)], autoindex |-> FALSE]}

\* The server info is what the file says from its line s on.
AsSaid(info, file, s) ==
  /\ info.port = Setting(file, ServerLines(file, s), "port", DefaultPort)
  /\ info.locations = LocationsSay(file, s)

-----------------------------------------------------------------------------
(* Properties *)

\* Every server has the locations, and every location the settings, that the file
\* says: own settings before inherited ones, inherited only from what stands above.
ParsedRight ==
  mode = "done" /\ lines # << >> =>
    /\ \A n \in DOMAIN servers : \E s \in Starts(lines) : AsSaid(servers[n], lines, s)
    /\ \A s \in Starts(lines) : \E n \in DOMAIN servers : AsSaid(servers[n], lines, s)

\* The name in a Host field never decides which server answers: its port already does
\* (findServerId looks at nothing else of the request or of the connection).
PortDecides ==
  mode = "done" =>
    \A port \in {servers[n].port : n \in DOMAIN servers} \cup {0}, name, other \in Names \cup {Empty} :
      FindServerId(port, name) = FindServerId(port, other)

\* A location without any root (the file manager would read the character before
\* an empty string) is the one that a server with neither root nor locations is
\* given, or a line gives a root or an identifier without a value.
EmptyRootCauses ==
  mode = "done" =>
    \A n \in DOMAIN servers : \A l \in servers[n].locations :
      l.root = Empty /\ l.rootId = Empty =>
        \/ \E i \in DOMAIN lines : lines[i].key \in {"root", "location"} /\ lines[i].value = Empty
        \/ /\ servers[n].root = Empty /\ servers[n].locations = {l}
           /\ l.id = "/" /\ ~l.autoindex
=============================================================================
