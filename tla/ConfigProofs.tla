---------------------------- MODULE ConfigProofs ----------------------------
(***************************************************************************)
(* The parser of the configuration file sets up what the file says, for    *)
(* files of any length and any lines; equal ports end it; and a location   *)
(* has a root, but for the cases that are named.                           *)
(***************************************************************************)
EXTENDS Config, WellFoundedInduction, NaturalsInduction, SequenceTheorems, TLAPS

\* Line l starts a location that goes on at the end of the file.
Open(file, l) ==
  /\ file[l].key = "location"
  /\ \A j \in (l + 1)..Len(file) : file[j].indent = 2

\* The server that the end of the file belongs to.
This(file) == ServerLine(file, Len(file))

LocationsUnder(file, s) == {LocationSays(file, s, l) : l \in LocationLines(file, s)}

\* The settings of the server info are those that the file gives so far.
AsFar(info, file, s) ==
  LET own == ServerLines(file, s) IN
  /\ info.root = Setting(file, own, "root", Empty)
  /\ info.size = Setting(file, own, "size", DefaultSize)
  /\ info.page = [c \in Codes |-> PageSetting(file, own, c)]
  /\ info.port = Setting(file, own, "port", DefaultPort)
  /\ info.locations = LocationsUnder(file, s)

\* Nothing is read before the first server.
TopInv == mode = "top" => lines = << >> /\ servers = << >>

Parsing == mode \in {"server", "location"}

\* Every line belongs to a server; the last one of them is being parsed.
ServerInv ==
  Parsing =>
    /\ lines # << >>
    /\ \A i \in 1..Len(lines) : ServerLine(lines, i) \in Starts(lines)
    /\ AsFar(Current, lines, This(lines))

\* The others are finished.
EarlierInv ==
  Parsing =>
    /\ \A n \in DOMAIN servers : \E s \in Starts(lines) \ {This(lines)} : AsSaid(servers[n], lines, s)
    /\ \A s \in Starts(lines) \ {This(lines)} : \E n \in DOMAIN servers : AsSaid(servers[n], lines, s)

\* A location is being parsed just when one is open.
ServerOpens == mode = "server" => \A l \in 1..Len(lines) : ~Open(lines, l)
LocationOpens ==
  mode = "location" =>
    \E l \in LocationLines(lines, This(lines)) :
      /\ Open(lines, l) /\ \A k \in 1..Len(lines) : Open(lines, k) => k = l
      /\ location = LocationSays(lines, This(lines), l)

ParseInv == TypeOK /\ TopInv /\ ServerInv /\ EarlierInv /\ ServerOpens /\ LocationOpens /\ ParsedRight

\* Equal ports end the program.
PortsDiffer == mode = "done" => \A i, j \in DOMAIN servers : servers[i].port = servers[j].port => i = j

EmptyLine(file) ==
  \E i \in DOMAIN file : file[i].key \in {"root", "location"} /\ file[i].value = Empty
\* A location has a root of its own, or of its server and its identifier.
Rooted(file, l) == EmptyLine(file) \/ l.root # Empty \/ l.rootId # Empty
AllRooted(file, s) ==
  \A l \in s.locations :
    \/ Rooted(file, l)
    \/ s.root = Empty /\ s.locations = {l} /\ l.id = "/" /\ ~l.autoindex
RootInv ==
  /\ Parsing => \A l \in Current.locations : Rooted(lines, l)
  /\ \A n \in DOMAIN servers : AllRooted(lines, servers[n])

LEMMA Least ==
  ASSUME NEW S \in SUBSET Nat, S # {}
  PROVE  \E i \in S : \A j \in S : i =< j
<1> DEFINE R == OpToRel(<, Nat)
<1>1. IsWellFoundedOn(R, Nat)
  BY NatLessThanWellFounded
<1>2. \A x, y \in Nat : x < y => <<x, y>> \in R
  BY DEF OpToRel
<1> HIDE DEF R
<1>3. PICK x \in S : \A y \in S : <<y, x>> \notin R
  BY <1>1, WFMin
<1>4. ASSUME NEW y \in S PROVE x =< y
  <2>1. x \in Nat /\ y \in Nat
    OBVIOUS
  <2>2. ~(y < x)
    BY <1>2, <1>3, <2>1
  <2> QED
    BY <2>1, <2>2
<1> QED
  BY <1>4

\* The same from above, for numbers that are bounded.
LEMMA LargestExists ==
  ASSUME NEW n \in Nat, NEW S, S \subseteq 1..n, S # {}
  PROVE  \E i \in S : \A j \in S : j =< i
<1> DEFINE D == {d \in Nat : n - d \in S}
<1>1. D \in SUBSET Nat /\ D # {}
  <2>1. PICK x \in S : TRUE
    OBVIOUS
  <2>2. n - x \in Nat /\ n - (n - x) = x
    BY <2>1
  <2> QED BY <2>1, <2>2
<1>2. PICK d \in D : \A c \in D : d =< c
  <2> HIDE DEF D
  <2> QED BY <1>1, Least
<1>3. n - d \in S
  OBVIOUS
<1>4. ASSUME NEW j \in S
      PROVE  j =< n - d
  <2>1. j \in 1..n /\ n - j \in Nat /\ n - (n - j) = j
    BY <1>4
  <2>2. n - j \in D
    BY <2>1
  <2>3. d =< n - j
    BY <1>2, <2>2
  <2> QED BY <2>1, <2>3
<1> QED BY <1>3, <1>4
-----------------------------------------------------------------------------
(* A file that is one line longer *)

\* The file g is f with the line e after it; n is the length of f.
Longer(f, e, g, n) ==
  /\ n \in Nat /\ Len(f) = n /\ Len(g) = n + 1
  /\ \A i \in 1..n : g[i] = f[i]
  /\ g[n + 1] = e

\* What Read does to the lines.
LEMMA AppendIsLonger ==
  ASSUME NEW f \in Seq(Lines), NEW e \in Lines
  PROVE  Longer(f, e, Append(f, e), Len(f))
  BY AppendProperties, LenProperties DEF Longer

\* LastOf is what its definition looks for.
LEMMA LastOfIs ==
  ASSUME NEW S, S \subseteq Int, NEW x \in S, \A j \in S : j =< x
  PROVE  LastOf(S) = x
<1>1. \E i \in S : \A j \in S : j =< i
  OBVIOUS
<1>2. LastOf(S) \in S /\ \A j \in S : j =< LastOf(S)
  BY <1>1 DEF LastOf
<1>3. x \in Int /\ LastOf(S) \in Int /\ x =< LastOf(S) /\ LastOf(S) =< x
  BY <1>2
<1> QED BY <1>3

\* The starts of the longer file.
LEMMA StartsGrow ==
  ASSUME NEW f, NEW e, NEW g, NEW n, Longer(f, e, g, n)
  PROVE  /\ Starts(f) \subseteq 1..n
         /\ e.key # "server" => Starts(g) = Starts(f)
         /\ e.key = "server" => Starts(g) = Starts(f) \cup {n + 1}
<1>1. \A i : i \in Starts(f) <=> i \in 1..n /\ f[i].key = "server"
  BY DEF Starts, Longer
<1>2. \A i : i \in Starts(g) <=> i \in 1..(n + 1) /\ g[i].key = "server"
  BY DEF Starts, Longer
<1>3. \A i : i \in 1..(n + 1) <=> i \in 1..n \/ i = n + 1
  BY DEF Longer
<1>4. \A i \in 1..n : g[i].key = f[i].key
  BY DEF Longer
<1>5. g[n + 1].key = e.key
  BY DEF Longer
<1> QED BY <1>1, <1>2, <1>3, <1>4, <1>5

\* The server of an old line stays; a new line belongs to the server of the line before
\* it, or starts one.
LEMMA ServerLineGrow ==
  ASSUME NEW f, NEW e, NEW g, NEW n, Longer(f, e, g, n)
  PROVE  /\ \A i \in 1..n : ServerLine(g, i) = ServerLine(f, i)
         /\ e.key # "server" => ServerLine(g, n + 1) = ServerLine(f, n)
         /\ e.key = "server" => ServerLine(g, n + 1) = n + 1
<1>n. n \in Nat
  BY DEF Longer
<1>1. ASSUME NEW i \in 1..n
      PROVE  ServerLine(g, i) = ServerLine(f, i)
  <2>1. {s \in Starts(g) : s =< i} = {s \in Starts(f) : s =< i}
    BY StartsGrow, <1>n, <1>1
  <2> QED BY <2>1 DEF ServerLine
<1>2. ASSUME e.key # "server"
      PROVE  ServerLine(g, n + 1) = ServerLine(f, n)
  <2>1. {s \in Starts(g) : s =< n + 1} = {s \in Starts(f) : s =< n}
    BY StartsGrow, <1>n, <1>2
  <2> QED BY <2>1 DEF ServerLine
<1>3. ASSUME e.key = "server"
      PROVE  ServerLine(g, n + 1) = n + 1
  <2> DEFINE S == {s \in Starts(g) : s =< n + 1}
  <2>1. S \subseteq Int /\ n + 1 \in S /\ \A j \in S : j =< n + 1
    BY StartsGrow, <1>n, <1>3
  <2> HIDE DEF S
  <2>2. LastOf(S) = n + 1
    BY <2>1, LastOfIs
  <2> QED BY <2>2 DEF ServerLine, S
<1> QED BY <1>1, <1>2, <1>3

\* The block of a line stays as far as the old file goes, and takes in the new line
\* if it is open and the line has two tabs.
LEMMA BlockGrow ==
  ASSUME NEW f, NEW e, NEW g, NEW n, Longer(f, e, g, n)
  PROVE  /\ \A l, i \in 1..n : InBlock(g, l, i) <=> InBlock(f, l, i)
         /\ \A i \in 1..(n + 1) : ~InBlock(g, n + 1, i)
         /\ \A l \in 1..n : InBlock(g, l, n + 1) <=> Open(f, l) /\ e.indent = 2
         /\ \A l \in 1..n : Open(g, l) <=> Open(f, l) /\ e.indent = 2
         /\ Open(g, n + 1) <=> e.key = "location"
<1>n. n \in Nat /\ Len(f) = n /\ Len(g) = n + 1
  BY DEF Longer
<1>g. (\A i \in 1..n : g[i] = f[i]) /\ g[n + 1] = e
  BY DEF Longer
<1>1. ASSUME NEW l \in 1..n, NEW i \in 1..n
      PROVE  InBlock(g, l, i) <=> InBlock(f, l, i)
  <2>1. \A j \in (l + 1)..i : j \in 1..n
    BY <1>n, <1>1
  <2> QED BY <2>1, <1>g DEF InBlock
<1>2. ASSUME NEW i \in 1..(n + 1)
      PROVE  ~InBlock(g, n + 1, i)
  BY <1>n DEF InBlock
<1>3. ASSUME NEW l \in 1..n
      PROVE  /\ Open(g, l) <=> Open(f, l) /\ e.indent = 2
             /\ InBlock(g, l, n + 1) <=> Open(f, l) /\ e.indent = 2
  <2>1. \A j : j \in (l + 1)..(n + 1) <=> j \in (l + 1)..n \/ j = n + 1
    BY <1>n, <1>3
  <2>2. \A j \in (l + 1)..n : j \in 1..n
    BY <1>n, <1>3
  <2>3. (\A j \in (l + 1)..(n + 1) : g[j].indent = 2)
          <=> (\A j \in (l + 1)..n : f[j].indent = 2) /\ e.indent = 2
    BY <2>1, <2>2, <1>g
  <2>4. l < n + 1
    BY <1>n, <1>3
  <2> QED BY <2>3, <2>4, <1>n, <1>g DEF Open, InBlock
<1>4. Open(g, n + 1) <=> e.key = "location"
  <2>1. (n + 2)..(n + 1) = {}
    BY <1>n
  <2> QED BY <2>1, <1>n, <1>g DEF Open
<1> QED BY <1>1, <1>2, <1>3, <1>4

\* A location's own lines.
LEMMA OwnLinesGrow ==
  ASSUME NEW f, NEW e, NEW g, NEW n, Longer(f, e, g, n), NEW l \in 1..n
  PROVE  /\ OwnLines(f, l) \subseteq 1..n
         /\ Open(f, l) /\ e.indent = 2 => OwnLines(g, l) = OwnLines(f, l) \cup {n + 1}
         /\ ~(Open(f, l) /\ e.indent = 2) => OwnLines(g, l) = OwnLines(f, l)
<1>n. n \in Nat /\ Len(f) = n /\ Len(g) = n + 1
  BY DEF Longer
<1>1. \A i : i \in 1..(n + 1) <=> i \in 1..n \/ i = n + 1
  BY <1>n
<1>2. \A i : i \in OwnLines(g, l) <=> i \in 1..(n + 1) /\ InBlock(g, l, i)
  BY <1>n DEF OwnLines
<1>3. \A i : i \in OwnLines(f, l) <=> i \in 1..n /\ InBlock(f, l, i)
  BY <1>n DEF OwnLines
<1>4. /\ \A i \in 1..n : InBlock(g, l, i) <=> InBlock(f, l, i)
      /\ InBlock(g, l, n + 1) <=> Open(f, l) /\ e.indent = 2
  BY BlockGrow
<1>5. n + 1 \notin 1..n
  BY <1>n
<1> QED BY <1>1, <1>2, <1>3, <1>4, <1>5

\* A location that starts at the end has no lines of its own yet.
LEMMA OwnLinesOfLast ==
  ASSUME NEW f, NEW e, NEW g, NEW n, Longer(f, e, g, n)
  PROVE  OwnLines(g, n + 1) = {}
<1>1. Len(g) = n + 1
  BY DEF Longer
<1> QED BY <1>1, BlockGrow DEF OwnLines

\* The lines of a server get the new line when it is not in a location's block.
LEMMA ServerLinesGrow ==
  ASSUME NEW f, NEW e, NEW g, NEW n, Longer(f, e, g, n), NEW s
  PROVE  /\ ServerLines(f, s) \subseteq 1..n
         /\ \/ e.key = "server" \/ s # ServerLine(f, n)
            \/ \E l \in 1..n : Open(f, l) /\ e.indent = 2
            => ServerLines(g, s) = ServerLines(f, s)
         /\ e.key # "server" /\ s = ServerLine(f, n) /\ (\A l \in 1..n : ~(Open(f, l) /\ e.indent = 2))
            => ServerLines(g, s) = ServerLines(f, s) \cup {n + 1}
<1>n. n \in Nat /\ Len(f) = n /\ Len(g) = n + 1 /\ n + 1 \notin 1..n
  BY DEF Longer
<1>g. (\A i \in 1..n : g[i] = f[i]) /\ g[n + 1] = e
  BY DEF Longer
<1>1. \A i : i \in 1..(n + 1) <=> i \in 1..n \/ i = n + 1
  BY <1>n
<1>2. \A i : i \in ServerLines(f, s) <=>
               /\ i \in 1..n /\ ServerLine(f, i) = s /\ f[i].key # "server"
               /\ ~\E l \in 1..n : InBlock(f, l, i)
  BY <1>n DEF ServerLines
<1>3. \A i : i \in ServerLines(g, s) <=>
               /\ i \in 1..(n + 1) /\ ServerLine(g, i) = s /\ g[i].key # "server"
               /\ ~\E l \in 1..(n + 1) : InBlock(g, l, i)
  BY <1>n DEF ServerLines
<1>4. ASSUME NEW i \in 1..n
      PROVE  i \in ServerLines(g, s) <=> i \in ServerLines(f, s)
  <2>1. ServerLine(g, i) = ServerLine(f, i) /\ g[i] = f[i] /\ i \in 1..(n + 1)
    BY ServerLineGrow, <1>g, <1>1
  <2>2. (\E l \in 1..(n + 1) : InBlock(g, l, i)) <=> \E l \in 1..n : InBlock(f, l, i)
    <3>1. i \in 1..(n + 1) /\ ~InBlock(g, n + 1, i)
      BY <1>1, BlockGrow
    <3>2. \A l \in 1..n : InBlock(g, l, i) <=> InBlock(f, l, i)
      BY BlockGrow
    <3> QED BY <3>1, <3>2, <1>1
  <2> QED BY <2>1, <2>2, <1>2, <1>3, <1>4
<1>5. n + 1 \in ServerLines(g, s) <=>
        /\ e.key # "server" /\ s = ServerLine(f, n)
        /\ \A l \in 1..n : ~(Open(f, l) /\ e.indent = 2)
  <2>1. n + 1 \in 1..(n + 1) /\ g[n + 1].key = e.key
    BY <1>1, <1>g
  <2>2. (\E l \in 1..(n + 1) : InBlock(g, l, n + 1)) <=> \E l \in 1..n : Open(f, l) /\ e.indent = 2
    <3>1. ~InBlock(g, n + 1, n + 1)
      BY <2>1, BlockGrow
    <3>2. \A l \in 1..n : InBlock(g, l, n + 1) <=> Open(f, l) /\ e.indent = 2
      BY BlockGrow
    <3> QED BY <3>1, <3>2, <1>1
  <2>3. e.key # "server" => ServerLine(g, n + 1) = ServerLine(f, n)
    BY ServerLineGrow
  <2> QED BY <2>1, <2>2, <2>3, <1>3
<1>6. ServerLines(f, s) \subseteq 1..n /\ ServerLines(g, s) \subseteq 1..n \cup {n + 1}
  BY <1>1, <1>2, <1>3
<1> QED BY <1>4, <1>5, <1>6, <1>n

\* A setting of old lines is the one of the old file.
LEMMA FoundStays ==
  ASSUME NEW f, NEW e, NEW g, NEW n, Longer(f, e, g, n), NEW Found \in SUBSET (1..n), Found # {}
  PROVE  g[LastOf(Found)] = f[LastOf(Found)]
<1>1. \E x \in Found : \A j \in Found : j =< x
  BY LargestExists DEF Longer
<1>2. LastOf(Found) \in Found
  BY <1>1 DEF LastOf
<1> QED BY <1>2 DEF Longer

LEMMA SettingStays ==
  ASSUME NEW f, NEW e, NEW g, NEW n, Longer(f, e, g, n),
         NEW set \in SUBSET (1..n), NEW key, NEW default
  PROVE  Setting(g, set, key, default) = Setting(f, set, key, default)
<1> DEFINE Found == {i \in set : f[i].key = key}
<1>1. {i \in set : g[i].key = key} = Found
  BY DEF Longer
<1>2. Found \subseteq 1..n
  OBVIOUS
<1>3. Found # {} => g[LastOf(Found)] = f[LastOf(Found)]
  <2> HIDE DEF Found
  <2> QED BY <1>2, FoundStays
<1> QED BY <1>1, <1>3 DEF Setting

LEMMA PageStays ==
  ASSUME NEW f, NEW e, NEW g, NEW n, Longer(f, e, g, n), NEW set \in SUBSET (1..n), NEW code
  PROVE  PageSetting(g, set, code) = PageSetting(f, set, code)
<1> DEFINE Found == {i \in set : f[i].key = "page" /\ f[i].value[1] = code}
<1>1. {i \in set : g[i].key = "page" /\ g[i].value[1] = code} = Found
  BY DEF Longer
<1>2. Found \subseteq 1..n
  OBVIOUS
<1>3. Found # {} => g[LastOf(Found)] = f[LastOf(Found)]
  <2> HIDE DEF Found
  <2> QED BY <1>2, FoundStays
<1> QED BY <1>1, <1>3 DEF PageSetting

\* The new line, if it is one of those that are looked for, is the last of them.
LEMMA LastIsNew ==
  ASSUME NEW n \in Nat, NEW set \in SUBSET (1..n),
         NEW New, New \subseteq set \cup {n + 1}, n + 1 \in New
  PROVE  LastOf(New) = n + 1
<1>1. \A j \in set \cup {n + 1} : j \in Int /\ j =< n + 1
  OBVIOUS
<1>2. New \subseteq Int /\ \A j \in New : j =< n + 1
  BY <1>1
<1> QED BY <1>2, LastOfIs

\* With the new line a setting is the one that it gives, or else the old one.
LEMMA SettingGrow ==
  ASSUME NEW f, NEW e, NEW g, NEW n, Longer(f, e, g, n),
         NEW set \in SUBSET (1..n), NEW key, NEW default
  PROVE  Setting(g, set \cup {n + 1}, key, default) =
           IF e.key = key THEN e.value ELSE Setting(f, set, key, default)
<1>n. n \in Nat /\ g[n + 1] = e
  BY DEF Longer
<1> DEFINE New == {i \in set \cup {n + 1} : g[i].key = key}
<1>1. CASE e.key # key
  <2>1. New = {i \in set : g[i].key = key}
    BY <1>1, <1>n
  <2>2. Setting(g, set \cup {n + 1}, key, default) = Setting(g, set, key, default)
    BY <2>1 DEF Setting
  <2> QED BY <2>2, <1>1, SettingStays
<1>2. CASE e.key = key
  <2>1. n + 1 \in New /\ New \subseteq set \cup {n + 1}
    BY <1>2, <1>n
  <2>2. LastOf(New) = n + 1
    <3> HIDE DEF New
    <3> QED BY <2>1, <1>n, LastIsNew
  <2> QED BY <2>1, <2>2, <1>2, <1>n DEF Setting
<1> QED BY <1>1, <1>2

LEMMA PageGrow ==
  ASSUME NEW f, NEW e, NEW g, NEW n, Longer(f, e, g, n), NEW set \in SUBSET (1..n), NEW code
  PROVE  PageSetting(g, set \cup {n + 1}, code) =
           IF e.key = "page" /\ e.value[1] = code THEN e.value[2] ELSE PageSetting(f, set, code)
<1>n. n \in Nat /\ g[n + 1] = e
  BY DEF Longer
<1> DEFINE SaysPage(line) == line.key = "page" /\ line.value[1] = code
           New == {i \in set \cup {n + 1} : SaysPage(g[i])}
<1>1. CASE ~SaysPage(e)
  <2>1. New = {i \in set : SaysPage(g[i])}
    BY <1>1, <1>n
  <2>2. PageSetting(g, set \cup {n + 1}, code) = PageSetting(g, set, code)
    BY <2>1 DEF PageSetting
  <2> QED BY <2>2, <1>1, PageStays
<1>2. CASE SaysPage(e)
  <2>1. n + 1 \in New /\ New \subseteq set \cup {n + 1}
    BY <1>2, <1>n
  <2>2. LastOf(New) = n + 1
    <3> HIDE DEF New
    <3> QED BY <2>1, <1>n, LastIsNew
  <2> QED BY <2>1, <2>2, <1>2, <1>n DEF PageSetting
<1> QED BY <1>1, <1>2

\* A location that the new line is no part of is what it was.
LEMMA SaysStays ==
  ASSUME NEW f, NEW e, NEW g, NEW n, Longer(f, e, g, n), NEW s, NEW l \in 1..n,
         ~(Open(f, l) /\ e.indent = 2)
  PROVE  LocationSays(g, s, l) = LocationSays(f, s, l)
<1>n. n \in Nat
  BY DEF Longer
<1>g. (\A i \in 1..n : g[i] = f[i]) /\ g[l] = f[l]
  BY DEF Longer
<1>1. OwnLines(g, l) = OwnLines(f, l) /\ OwnLines(f, l) \subseteq 1..n
  BY OwnLinesGrow
<1>2. {i \in ServerLines(g, s) : i < l} = {i \in ServerLines(f, s) : i < l}
  <2>1. ServerLines(g, s) = ServerLines(f, s) \/ ServerLines(g, s) = ServerLines(f, s) \cup {n + 1}
    BY ServerLinesGrow
  <2>2. ~(n + 1 < l)
    BY <1>n
  <2> QED BY <2>1, <2>2
<1> DEFINE src == Sources(f, s, l)
<1>3. Sources(g, s, l) = src
  BY <1>1, <1>2 DEF Sources
<1>4. src \subseteq 1..n
  BY <1>1, ServerLinesGrow DEF Sources
<1> HIDE DEF src
<1>5. ASSUME NEW key, NEW default
      PROVE  Setting(g, src, key, default) = Setting(f, src, key, default)
  BY <1>4, SettingStays
<1>6. ASSUME NEW c \in Codes
      PROVE  PageSetting(g, src, c) = PageSetting(f, src, c)
  BY <1>4, PageStays
<1>7. [c \in Codes |-> PageSetting(g, src, c)] = [c \in Codes |-> PageSetting(f, src, c)]
  BY <1>6
<1>8. \A key : Gives(g, OwnLines(f, l), key) = Gives(f, OwnLines(f, l), key)
  BY <1>1, <1>g DEF Gives
<1>10. src = Sources(f, s, l)
  BY DEF src
<1> QED BY <1>1, <1>3, <1>5, <1>7, <1>8, <1>10, <1>g DEF LocationSays

\* The fields of what the file says of a location.
LEMMA SaysFields ==
  ASSUME NEW f, NEW s, NEW l
  PROVE  /\ LocationSays(f, s, l).id = f[l].value
         /\ LocationSays(f, s, l).root = Setting(f, Sources(f, s, l), "root", Empty)
         /\ LocationSays(f, s, l).size = Setting(f, Sources(f, s, l), "size", DefaultSize)
         /\ LocationSays(f, s, l).page = [c \in Codes |-> PageSetting(f, Sources(f, s, l), c)]
         /\ Gives(f, OwnLines(f, l), "root") => LocationSays(f, s, l).rootId = Empty
         /\ ~Gives(f, OwnLines(f, l), "root")
              => LocationSays(f, s, l).rootId = f[l].value
BY DEF LocationSays

LEMMA SaysId ==
  ASSUME NEW f, NEW s, NEW l
  PROVE  LocationSays(f, s, l).id = f[l].value
BY DEF LocationSays

LEMMA SaysFlag ==
  ASSUME NEW f, NEW s, NEW l
  PROVE  /\ LocationSays(f, s, l).autoindex \in BOOLEAN
         /\ LocationSays(f, s, l).autoindex <=> Gives(f, OwnLines(f, l), "autoindex")
<1>1. LocationSays(f, s, l).autoindex = Gives(f, OwnLines(f, l), "autoindex")
  BY DEF LocationSays
<1>2. Gives(f, OwnLines(f, l), "autoindex") \in BOOLEAN
  BY DEF Gives
<1> QED BY <1>1, <1>2

\* A location info has six fields.
SixFields(i) ==
  /\ i = [id |-> i.id, root |-> i.root, rootId |-> i.rootId, size |-> i.size,
           page |-> i.page, autoindex |-> i.autoindex]
  /\ i.autoindex \in BOOLEAN

LEMMA SaysSix ==
  ASSUME NEW f, NEW s, NEW l
  PROVE  SixFields(LocationSays(f, s, l))
BY SaysFlag DEF LocationSays, SixFields

LEMMA SixEqual ==
  ASSUME NEW a, NEW b, SixFields(a), SixFields(b),
         a.id = b.id, a.root = b.root, a.rootId = b.rootId, a.size = b.size,
         a.page = b.page, a.autoindex = b.autoindex
  PROVE  a = b
BY DEF SixFields

\* The fields that a setting in a location sets.
LEMMA LocationSettingFields ==
  ASSUME NEW i, NEW l, l.key \in {"root", "size", "page", "autoindex"}, SixFields(i)
  PROVE  /\ SixFields(LocationSetting(i, l))
         /\ LocationSetting(i, l).id = i.id
         /\ LocationSetting(i, l).root = IF l.key = "root" THEN l.value ELSE i.root
         /\ LocationSetting(i, l).rootId = IF l.key = "root" THEN Empty ELSE i.rootId
         /\ LocationSetting(i, l).size = IF l.key = "size" THEN l.value ELSE i.size
         /\ LocationSetting(i, l).page =
              IF l.key = "page" THEN [i.page EXCEPT ![l.value[1]] = l.value[2]] ELSE i.page
<1>1. CASE l.key = "root"
  BY <1>1 DEF LocationSetting, SixFields
<1>2. CASE l.key = "size"
  BY <1>2 DEF LocationSetting, SixFields
<1>3. CASE l.key = "page"
  BY <1>3 DEF LocationSetting, SixFields
<1>4. CASE l.key = "autoindex"
  BY <1>4 DEF LocationSetting, SixFields
<1> QED BY <1>1, <1>2, <1>3, <1>4

LEMMA LocationSettingId ==
  ASSUME NEW i, NEW l, l.key \in {"root", "size", "page", "autoindex"}, SixFields(i)
  PROVE  LocationSetting(i, l).id = i.id
<1>1. CASE l.key = "root"
  BY <1>1 DEF LocationSetting, SixFields
<1>2. CASE l.key = "size"
  BY <1>2 DEF LocationSetting, SixFields
<1>3. CASE l.key = "page"
  BY <1>3 DEF LocationSetting, SixFields
<1>4. CASE l.key = "autoindex"
  BY <1>4 DEF LocationSetting, SixFields
<1> QED BY <1>1, <1>2, <1>3, <1>4

LEMMA LocationSettingRoot ==
  ASSUME NEW i, NEW l, l.key \in {"root", "size", "page", "autoindex"}, SixFields(i)
  PROVE  /\ LocationSetting(i, l).root = IF l.key = "root" THEN l.value ELSE i.root
         /\ LocationSetting(i, l).rootId = IF l.key = "root" THEN Empty ELSE i.rootId
<1>1. CASE l.key = "root"
  BY <1>1 DEF LocationSetting, SixFields
<1>2. CASE l.key = "size"
  BY <1>2 DEF LocationSetting, SixFields
<1>3. CASE l.key = "page"
  BY <1>3 DEF LocationSetting, SixFields
<1>4. CASE l.key = "autoindex"
  BY <1>4 DEF LocationSetting, SixFields
<1> QED BY <1>1, <1>2, <1>3, <1>4

LEMMA LocationSettingFlag ==
  ASSUME NEW i, NEW l, l.key \in {"root", "size", "page", "autoindex"}, SixFields(i)
  PROVE  LocationSetting(i, l).autoindex <=> l.key = "autoindex" \/ i.autoindex
<1>1. CASE l.key = "root"
  BY <1>1 DEF LocationSetting, SixFields
<1>2. CASE l.key = "size"
  BY <1>2 DEF LocationSetting, SixFields
<1>3. CASE l.key = "page"
  BY <1>3 DEF LocationSetting, SixFields
<1>4. CASE l.key = "autoindex"
  BY <1>4 DEF LocationSetting, SixFields
<1> QED BY <1>1, <1>2, <1>3, <1>4

\* A line of a page among the lines of a set.
LEMMA PagesGrow ==
  ASSUME NEW f, NEW e, NEW g, NEW n, Longer(f, e, g, n), NEW set \in SUBSET (1..n),
         e.key = "page" => e.value \in Codes \X Pages
  PROVE  [c \in Codes |-> PageSetting(g, set \cup {n + 1}, c)] =
           IF e.key = "page"
           THEN [[c \in Codes |-> PageSetting(f, set, c)] EXCEPT ![e.value[1]] = e.value[2]]
           ELSE [c \in Codes |-> PageSetting(f, set, c)]
<1> DEFINE old == [c \in Codes |-> PageSetting(f, set, c)]
           new == [c \in Codes |-> PageSetting(g, set \cup {n + 1}, c)]
<1>1. CASE e.key = "page"
  <2>1. e.value[1] \in Codes
    BY <1>1
  <2>2. ASSUME NEW c \in Codes
        PROVE  new[c] = [old EXCEPT ![e.value[1]] = e.value[2]][c]
    <3>1. new[c] = PageSetting(g, set \cup {n + 1}, c) /\ old[c] = PageSetting(f, set, c)
      OBVIOUS
    <3>2. CASE c = e.value[1]
      <4>1. PageSetting(g, set \cup {n + 1}, c) = e.value[2]
        <5>1. e.key = "page" /\ e.value[1] = c
          BY <1>1, <3>2
        <5>2. PageSetting(g, set \cup {n + 1}, c) =
                IF e.key = "page" /\ e.value[1] = c THEN e.value[2] ELSE PageSetting(f, set, c)
          BY PageGrow
        <5> HIDE DEF new, old
        <5> QED BY <5>1, <5>2
      <4> QED BY <2>1, <3>1, <3>2, <4>1
    <3>3. CASE c # e.value[1]
      <4>1. PageSetting(g, set \cup {n + 1}, c) = PageSetting(f, set, c)
        BY <3>3, PageGrow
      <4> QED BY <2>1, <3>1, <3>3, <4>1
    <3> QED BY <3>2, <3>3
  <2> QED BY <1>1, <2>2
<1>2. CASE e.key # "page"
  <2>1. ASSUME NEW c \in Codes
        PROVE  PageSetting(g, set \cup {n + 1}, c) = PageSetting(f, set, c)
    BY <1>2, PageGrow
  <2> QED BY <1>2, <2>1
<1> QED BY <1>1, <1>2

\* A line of the open location sets what the parser sets.
LEMMA SaysSets ==
  ASSUME NEW f, NEW e, NEW g, NEW n, Longer(f, e, g, n), NEW s, NEW l \in 1..n,
         Open(f, l), e.indent = 2, e.key \in {"root", "size", "page", "autoindex"},
         e.key = "page" => e.value \in Codes \X Pages
  PROVE  LocationSays(g, s, l) = LocationSetting(LocationSays(f, s, l), e)
<1>n. n \in Nat
  BY DEF Longer
<1>g. (\A i \in 1..n : g[i] = f[i]) /\ g[l] = f[l] /\ g[n + 1] = e
  BY DEF Longer
<1>1. OwnLines(g, l) = OwnLines(f, l) \cup {n + 1} /\ OwnLines(f, l) \subseteq 1..n
  BY OwnLinesGrow
<1>2. ServerLines(g, s) = ServerLines(f, s) /\ ServerLines(f, s) \subseteq 1..n
  BY ServerLinesGrow
<1> DEFINE src == Sources(f, s, l)
           a == LocationSays(f, s, l)
           b == LocationSays(g, s, l)
           r == LocationSetting(a, e)
<1>3. Sources(g, s, l) = src \cup {n + 1} /\ src \subseteq 1..n
  BY <1>1, <1>2 DEF Sources
<1>4. \A key : Gives(g, OwnLines(g, l), key) <=> e.key = key \/ Gives(f, OwnLines(f, l), key)
  BY <1>1, <1>g DEF Gives
<1>5. /\ a.id = f[l].value
      /\ a.root = Setting(f, src, "root", Empty)
      /\ a.size = Setting(f, src, "size", DefaultSize)
      /\ a.page = [c \in Codes |-> PageSetting(f, src, c)]
      /\ Gives(f, OwnLines(f, l), "root") => a.rootId = Empty
      /\ ~Gives(f, OwnLines(f, l), "root") => a.rootId = f[l].value
  BY SaysFields
<1>b. /\ a.autoindex \in BOOLEAN
      /\ a.autoindex <=> Gives(f, OwnLines(f, l), "autoindex")
  BY SaysFlag
<1>6. /\ b.id = g[l].value
      /\ b.root = Setting(g, Sources(g, s, l), "root", Empty)
      /\ b.size = Setting(g, Sources(g, s, l), "size", DefaultSize)
      /\ b.page = [c \in Codes |-> PageSetting(g, Sources(g, s, l), c)]
      /\ Gives(g, OwnLines(g, l), "root") => b.rootId = Empty
      /\ ~Gives(g, OwnLines(g, l), "root") => b.rootId = g[l].value
  BY SaysFields
<1>c. /\ b.autoindex \in BOOLEAN
      /\ b.autoindex <=> Gives(g, OwnLines(g, l), "autoindex")
  BY SaysFlag
<1>a. SixFields(a) /\ SixFields(b)
  BY SaysSix
<1>7. /\ SixFields(r)
      /\ r.id = a.id
      /\ r.root = IF e.key = "root" THEN e.value ELSE a.root
      /\ r.rootId = IF e.key = "root" THEN Empty ELSE a.rootId
      /\ r.size = IF e.key = "size" THEN e.value ELSE a.size
      /\ r.page = IF e.key = "page" THEN [a.page EXCEPT ![e.value[1]] = e.value[2]] ELSE a.page
  <2> HIDE DEF a
  <2> QED BY <1>a, LocationSettingFields
<1>d. r.autoindex <=> e.key = "autoindex" \/ a.autoindex
  <2> HIDE DEF a
  <2> QED BY <1>a, LocationSettingFlag
<1> HIDE DEF src, a, b, r
<1>8. b.id = r.id
  BY <1>5, <1>6, <1>7, <1>g
<1>9. b.root = r.root
  BY <1>3, <1>5, <1>6, <1>7, SettingGrow
<1>10. b.size = r.size
  BY <1>3, <1>5, <1>6, <1>7, SettingGrow
<1>11. b.page = r.page
  <2>1. b.page = [c \in Codes |-> PageSetting(g, src \cup {n + 1}, c)]
    BY <1>3, <1>6
  <2> DEFINE old == [c \in Codes |-> PageSetting(f, src, c)]
             new == [c \in Codes |-> PageSetting(g, src \cup {n + 1}, c)]
  <2>2. new = IF e.key = "page" THEN [old EXCEPT ![e.value[1]] = e.value[2]] ELSE old
    BY <1>3, PagesGrow
  <2>3. a.page = old /\ b.page = new
    BY <2>1, <1>5
  <2> HIDE DEF old, new
  <2> QED BY <2>2, <2>3, <1>7
<1>12. b.rootId = r.rootId
  BY <1>4, <1>5, <1>6, <1>7, <1>g
<1>13. b.autoindex = r.autoindex
  <2>2. b.autoindex \in BOOLEAN /\ r.autoindex \in BOOLEAN
    BY <1>a, <1>7 DEF SixFields
  <2>1. b.autoindex <=> e.key = "autoindex" \/ Gives(f, OwnLines(f, l), "autoindex")
    BY <1>4, <1>c
  <2>3. b.autoindex <=> r.autoindex
    BY <2>1, <1>b, <1>d
  <2> QED BY <2>2, <2>3
<1>14. b = r
  BY <1>a, <1>7, <1>8, <1>9, <1>10, <1>11, <1>12, <1>13, SixEqual
<1> QED BY <1>14 DEF a, b, r

\* The lines that count as the starts of locations.
LEMMA LocationLinesGrow ==
  ASSUME NEW f, NEW e, NEW g, NEW n, Longer(f, e, g, n), NEW s
  PROVE  /\ LocationLines(f, s) \subseteq ServerLines(f, s)
         /\ \A l \in LocationLines(f, s) : f[l].key = "location"
         /\ ServerLines(g, s) = ServerLines(f, s) => LocationLines(g, s) = LocationLines(f, s)
         /\ ServerLines(g, s) = ServerLines(f, s) \cup {n + 1} /\ e.key # "location"
              => LocationLines(g, s) = LocationLines(f, s)
         /\ ServerLines(g, s) = ServerLines(f, s) \cup {n + 1} /\ e.key = "location"
              => LocationLines(g, s) = {l \in LocationLines(f, s) : f[l].value # e.value} \cup {n + 1}
<1>n. n \in Nat
  BY DEF Longer
<1>g. (\A i \in 1..n : g[i] = f[i]) /\ g[n + 1] = e
  BY DEF Longer
<1>1. ServerLines(f, s) \subseteq 1..n
  BY ServerLinesGrow
<1> DEFINE A == {l \in ServerLines(f, s) : f[l].key = "location"}
           B == {l \in ServerLines(g, s) : g[l].key = "location"}
<1>2. LocationLines(f, s) = {l \in A : ~\E k \in A : k > l /\ f[k].value = f[l].value}
  BY DEF LocationLines
<1>3. LocationLines(g, s) = {l \in B : ~\E k \in B : k > l /\ g[k].value = g[l].value}
  BY DEF LocationLines
<1>4. A \subseteq 1..n /\ \A l \in A : g[l] = f[l]
  BY <1>1, <1>g
<1>5. ASSUME B = A
      PROVE  LocationLines(g, s) = LocationLines(f, s)
  <2> HIDE DEF A, B
  <2>1. \A l : l \in LocationLines(g, s) <=> l \in A /\ ~\E k \in A : k > l /\ g[k].value = g[l].value
    BY <1>3, <1>5
  <2>2. \A l : l \in LocationLines(f, s) <=> l \in A /\ ~\E k \in A : k > l /\ f[k].value = f[l].value
    BY <1>2
  <2>3. \A l \in A : (\E k \in A : k > l /\ g[k].value = g[l].value)
                      <=> \E k \in A : k > l /\ f[k].value = f[l].value
    BY <1>4
  <2>4. \A l : l \in LocationLines(g, s) <=> l \in LocationLines(f, s)
    BY <2>1, <2>2, <2>3
  <2>5. LocationLines(g, s) \subseteq A /\ LocationLines(f, s) \subseteq A
    BY <2>1, <2>2
  <2> QED BY <2>4, <2>5
<1>6. ServerLines(g, s) = ServerLines(f, s) => B = A
  BY <1>1, <1>g
<1>7. ServerLines(g, s) = ServerLines(f, s) \cup {n + 1} /\ e.key # "location" => B = A
  BY <1>1, <1>g
<1>8. ASSUME ServerLines(g, s) = ServerLines(f, s) \cup {n + 1}, e.key = "location"
      PROVE  LocationLines(g, s) = {l \in LocationLines(f, s) : f[l].value # e.value} \cup {n + 1}
  <2>1. B = A \cup {n + 1}
    BY <1>1, <1>8, <1>g
  <2>2. \A l \in A : n + 1 > l /\ ~(l > n + 1) /\ l # n + 1
    BY <1>n, <1>4
  <2>3. ~(n + 1 > n + 1)
    BY <1>n
  <2>4. \A l \in A : (\E k \in B : k > l /\ g[k].value = g[l].value)
                      <=> f[l].value = e.value \/ \E k \in A : k > l /\ f[k].value = f[l].value
    <3> HIDE DEF A, B
    <3> QED BY <2>1, <2>2, <1>4, <1>g
  <2>5. ~\E k \in B : k > n + 1 /\ g[k].value = g[n + 1].value
    <3> HIDE DEF A, B
    <3> QED BY <2>1, <2>2, <2>3
  <2> HIDE DEF A, B
  <2> QED BY <2>1, <2>4, <2>5, <1>2, <1>3
<1>9. LocationLines(f, s) \subseteq A
  <2> HIDE DEF A
  <2> QED BY <1>2
<1> QED BY <1>5, <1>6, <1>7, <1>8, <1>9

-----------------------------------------------------------------------------
(* What the parser's helpers return *)

LEMMA InitServerFields ==
  /\ InitServerInfo \in ServerInfos
  /\ InitServerInfo.root = Empty /\ InitServerInfo.size = DefaultSize
  /\ InitServerInfo.page = [c \in Codes |-> "standard"]
  /\ InitServerInfo.port = DefaultPort /\ InitServerInfo.locations = {}
<1>1. DefaultPort \in 1..PortMax /\ DefaultSize \in Nat
  BY DEF DefaultPort, PortMax, DefaultSize
<1> QED BY <1>1 DEF InitServerInfo, ServerInfos

LEMMA InitLocationFields ==
  ASSUME NEW s \in ServerInfos
  PROVE  /\ InitLocationInfo(s) \in LocationInfos
         /\ InitLocationInfo(s).id = "/" /\ InitLocationInfo(s).root = s.root
         /\ InitLocationInfo(s).rootId = Empty
         /\ InitLocationInfo(s).size = s.size /\ InitLocationInfo(s).page = s.page
         /\ ~InitLocationInfo(s).autoindex
BY ConfigAssumption DEF InitLocationInfo, ServerInfos, LocationInfos

LEMMA NewLocationFields ==
  ASSUME NEW s \in ServerInfos, NEW id \in Ids
  PROVE  /\ NewLocation(s, id) \in LocationInfos
         /\ NewLocation(s, id).id = id /\ NewLocation(s, id).root = s.root
         /\ NewLocation(s, id).rootId = id
         /\ NewLocation(s, id).size = s.size /\ NewLocation(s, id).page = s.page
         /\ ~NewLocation(s, id).autoindex
<1> DEFINE i == InitLocationInfo(s)
           k == [i EXCEPT !.id = id, !.rootId = id]
<1>1. /\ i \in LocationInfos /\ i.root = s.root /\ i.size = s.size /\ i.page = s.page
      /\ ~i.autoindex
  BY InitLocationFields
<1> HIDE DEF i
<1>2. /\ k \in LocationInfos
      /\ k.id = id /\ k.root = i.root /\ k.rootId = id /\ k.size = i.size /\ k.page = i.page
  BY <1>1 DEF LocationInfos
<1>3. k.autoindex = i.autoindex
  BY <1>1 DEF LocationInfos
<1>4. NewLocation(s, id) = k
  BY DEF NewLocation, i
<1> HIDE DEF k
<1> QED BY <1>1, <1>2, <1>3, <1>4

LEMMA WithLocationFields ==
  ASSUME NEW s \in ServerInfos, NEW l \in LocationInfos
  PROVE  /\ WithLocation(s, l) \in ServerInfos
         /\ WithLocation(s, l).root = s.root /\ WithLocation(s, l).size = s.size
         /\ WithLocation(s, l).page = s.page /\ WithLocation(s, l).port = s.port
         /\ WithLocation(s, l).locations = {k \in s.locations : k.id # l.id} \cup {l}
<1> DEFINE new == {k \in s.locations : k.id # l.id} \cup {l}
<1>1. new \in SUBSET LocationInfos
  BY DEF ServerInfos
<1>2. WithLocation(s, l) = [s EXCEPT !.locations = new]
  BY DEF WithLocation
<1> HIDE DEF new
<1>3. /\ WithLocation(s, l) \in ServerInfos
      /\ WithLocation(s, l).root = s.root /\ WithLocation(s, l).size = s.size
      /\ WithLocation(s, l).page = s.page /\ WithLocation(s, l).port = s.port
      /\ WithLocation(s, l).locations = new
  BY <1>1, <1>2 DEF ServerInfos
<1> QED BY <1>3 DEF new

LEMMA FinishedFields ==
  ASSUME NEW s \in ServerInfos
  PROVE  /\ Finished(s) \in ServerInfos
         /\ Finished(s).root = s.root /\ Finished(s).port = s.port
         /\ s.locations = {} => Finished(s).locations = {InitLocationInfo(s)}
         /\ s.locations # {} => Finished(s) = s
<1>1. CASE s.locations = {}
  <2> DEFINE new == {InitLocationInfo(s)}
  <2>1. new \in SUBSET LocationInfos
    BY InitLocationFields
  <2>2. Finished(s) = [s EXCEPT !.locations = new]
    BY <1>1 DEF Finished
  <2> HIDE DEF new
  <2>3. /\ Finished(s) \in ServerInfos
        /\ Finished(s).root = s.root /\ Finished(s).port = s.port /\ Finished(s).locations = new
    BY <2>1, <2>2 DEF ServerInfos
  <2> QED BY <1>1, <2>3 DEF new
<1>2. CASE s.locations # {}
  BY <1>2 DEF Finished
<1> QED BY <1>1, <1>2

LEMMA ServerSettingFields ==
  ASSUME NEW s \in ServerInfos, NEW l \in Lines,
         \/ l.key \in {"root", "size", "page", "name"}
         \/ l.key = "port" /\ ValidPort(l.value)
  PROVE  /\ ServerSetting(s, l) \in ServerInfos
         /\ ServerSetting(s, l).root = IF l.key = "root" THEN l.value ELSE s.root
         /\ ServerSetting(s, l).size = IF l.key = "size" THEN l.value ELSE s.size
         /\ ServerSetting(s, l).page =
              IF l.key = "page" THEN [s.page EXCEPT ![l.value[1]] = l.value[2]] ELSE s.page
         /\ ServerSetting(s, l).port = IF l.key = "port" THEN l.value ELSE s.port
         /\ ServerSetting(s, l).locations = s.locations
<1>1. CASE l.key = "root"
  <2>1. l.value \in Roots
    BY <1>1, ConfigAssumption
  <2> QED BY <1>1, <2>1 DEF ServerSetting, ServerInfos
<1>2. CASE l.key = "size"
  <2>1. l.value \in Nat
    BY <1>2, ConfigAssumption
  <2> QED BY <1>2, <2>1 DEF ServerSetting, ServerInfos
<1>3. CASE l.key = "page"
  <2>1. l.value[1] \in Codes /\ l.value[2] \in Pages
    BY <1>3, ConfigAssumption
  <2> DEFINE new == [s.page EXCEPT ![l.value[1]] = l.value[2]]
  <2>2. new \in [Codes -> Pages \cup {"standard"}]
    BY <2>1 DEF ServerInfos
  <2>3. ServerSetting(s, l) = [s EXCEPT !.page = new]
    BY <1>3 DEF ServerSetting
  <2> HIDE DEF new
  <2>4. /\ ServerSetting(s, l) \in ServerInfos /\ ServerSetting(s, l).root = s.root
        /\ ServerSetting(s, l).size = s.size /\ ServerSetting(s, l).page = new
        /\ ServerSetting(s, l).port = s.port /\ ServerSetting(s, l).locations = s.locations
    BY <2>2, <2>3 DEF ServerInfos
  <2> QED BY <1>3, <2>4 DEF new
<1>4. CASE l.key = "port" /\ ValidPort(l.value)
  BY <1>4 DEF ServerSetting, ServerInfos, ValidPort
<1>5. CASE l.key = "name"
  <2>1. l.value \in Names
    BY <1>5, ConfigAssumption
  <2> QED BY <1>5, <2>1 DEF ServerSetting, ServerInfos
<1> QED BY <1>1, <1>2, <1>3, <1>4, <1>5

LEMMA LocationSix ==
  ASSUME NEW i \in LocationInfos
  PROVE  SixFields(i)
BY DEF LocationInfos, SixFields

LEMMA LocationSettingTyped ==
  ASSUME NEW i \in LocationInfos, NEW l \in Lines, l.key \in {"root", "size", "page", "autoindex"}
  PROVE  LocationSetting(i, l) \in LocationInfos
<1>1. CASE l.key = "root"
  <2>1. l.value \in Roots
    BY <1>1, ConfigAssumption
  <2> QED BY <1>1, <2>1 DEF LocationSetting, LocationInfos
<1>2. CASE l.key = "size"
  <2>1. l.value \in Nat
    BY <1>2, ConfigAssumption
  <2> QED BY <1>2, <2>1 DEF LocationSetting, LocationInfos
<1>3. CASE l.key = "page"
  <2>1. l.value[1] \in Codes /\ l.value[2] \in Pages
    BY <1>3, ConfigAssumption
  <2> DEFINE new == [i.page EXCEPT ![l.value[1]] = l.value[2]]
  <2>2. new \in [Codes -> Pages \cup {"standard"}]
    BY <2>1 DEF LocationInfos
  <2>3. LocationSetting(i, l) = [i EXCEPT !.page = new]
    BY <1>3 DEF LocationSetting
  <2> HIDE DEF new
  <2> QED BY <2>2, <2>3 DEF LocationInfos
<1>4. CASE l.key = "autoindex"
  BY <1>4 DEF LocationSetting, LocationInfos
<1> QED BY <1>1, <1>2, <1>3, <1>4

-----------------------------------------------------------------------------
(* What the parser has is what the file says so far *)

LEMMA UnderStays ==
  ASSUME NEW f, NEW e, NEW g, NEW n, Longer(f, e, g, n), NEW s,
         LocationLines(g, s) = LocationLines(f, s),
         \A l \in LocationLines(f, s) : ~(Open(f, l) /\ e.indent = 2)
  PROVE  LocationsUnder(g, s) = LocationsUnder(f, s)
<1>1. LocationLines(f, s) \subseteq 1..n
  BY LocationLinesGrow, ServerLinesGrow
<1>2. \A l \in LocationLines(f, s) : LocationSays(g, s, l) = LocationSays(f, s, l)
  BY <1>1, SaysStays
<1> QED BY <1>2 DEF LocationsUnder

\* A server that is complete stays what the file says.
LEMMA AsSaidStays ==
  ASSUME NEW f, NEW e, NEW g, NEW n, Longer(f, e, g, n), NEW s,
         ServerLines(g, s) = ServerLines(f, s),
         \A l \in LocationLines(f, s) : ~(Open(f, l) /\ e.indent = 2),
         NEW info
  PROVE  AsSaid(info, g, s) <=> AsSaid(info, f, s)
<1> DEFINE own == ServerLines(f, s)
<1>1. LocationLines(g, s) = LocationLines(f, s)
  BY LocationLinesGrow
<1>2. LocationsUnder(g, s) = LocationsUnder(f, s)
  BY <1>1, UnderStays
<1>3. own \in SUBSET (1..n)
  BY ServerLinesGrow
<1> HIDE DEF own
<1>4. ASSUME NEW key, NEW default
      PROVE  Setting(g, own, key, default) = Setting(f, own, key, default)
  BY <1>3, SettingStays
<1>5. ASSUME NEW c \in Codes
      PROVE  PageSetting(g, own, c) = PageSetting(f, own, c)
  BY <1>3, PageStays
<1>6. [c \in Codes |-> PageSetting(g, own, c)] = [c \in Codes |-> PageSetting(f, own, c)]
  BY <1>5
<1>7. ServerLines(g, s) = own /\ ServerLines(f, s) = own
  BY DEF own
<1>8. LocationsSay(g, s) = LocationsSay(f, s)
  BY <1>1, <1>2, <1>4, <1>6, <1>7 DEF LocationsSay, LocationsUnder
<1> QED BY <1>4, <1>7, <1>8 DEF AsSaid

\* A server that ends here is what the file says.
LEMMA AsFarFinished ==
  ASSUME NEW info \in ServerInfos, NEW f, NEW s, AsFar(info, f, s)
  PROVE  AsSaid(Finished(info), f, s)
<1>1. CASE LocationLines(f, s) = {}
  <2>1. info.locations = {}
    BY <1>1 DEF AsFar, LocationsUnder
  <2>2. Finished(info).locations = {InitLocationInfo(info)} /\ Finished(info).port = info.port
    BY <2>1, FinishedFields
  <2>3. InitLocationInfo(info) =
          [id |-> "/", root |-> Setting(f, ServerLines(f, s), "root", Empty), rootId |-> Empty,
           size |-> Setting(f, ServerLines(f, s), "size", DefaultSize),
           page |-> [c \in Codes |-> PageSetting(f, ServerLines(f, s), c)], autoindex |-> FALSE]
    BY DEF AsFar, InitLocationInfo
  <2>4. LocationsSay(f, s) = {InitLocationInfo(info)}
    BY <1>1, <2>3 DEF LocationsSay
  <2> QED BY <2>2, <2>4 DEF AsSaid, AsFar
<1>2. CASE LocationLines(f, s) # {}
  <2>1. info.locations = LocationsSay(f, s) /\ info.locations # {}
    BY <1>2 DEF AsFar, LocationsUnder, LocationsSay
  <2>2. Finished(info) = info
    BY <2>1, FinishedFields
  <2> QED BY <2>1, <2>2 DEF AsSaid, AsFar
<1> QED BY <1>1, <1>2

\* A server that starts here.
LEMMA AsFarStart ==
  ASSUME NEW f, NEW e, NEW g, NEW n, Longer(f, e, g, n), e.key = "server",
         \A i \in 1..n : ServerLine(f, i) \in Starts(f)
  PROVE  AsFar(InitServerInfo, g, n + 1)
<1>n. n \in Nat /\ Len(f) = n /\ Len(g) = n + 1
  BY DEF Longer
<1>1. ServerLines(f, n + 1) = {}
  <2>1. \A i \in 1..n : ServerLine(f, i) \in 1..n
    BY StartsGrow
  <2>2. \A i \in 1..n : ServerLine(f, i) # n + 1
    BY <2>1, <1>n
  <2> QED BY <2>2, <1>n DEF ServerLines
<1>2. ServerLines(g, n + 1) = {}
  BY <1>1, ServerLinesGrow
<1>3. LocationLines(g, n + 1) = {}
  BY <1>2 DEF LocationLines
<1>4. \A key, default : Setting(g, {}, key, default) = default
  BY DEF Setting
<1>5. \A c \in Codes : PageSetting(g, {}, c) = "standard"
  BY DEF PageSetting
<1>6. [c \in Codes |-> PageSetting(g, {}, c)] = [c \in Codes |-> "standard"]
  BY <1>5
<1> QED BY <1>2, <1>3, <1>4, <1>6, InitServerFields DEF AsFar, LocationsUnder

\* A setting of the server.
LEMMA AsFarSetting ==
  ASSUME NEW f, NEW e \in Lines, NEW g, NEW n, Longer(f, e, g, n),
         NEW info \in ServerInfos, AsFar(info, f, ServerLine(f, n)),
         \A l \in 1..n : ~(Open(f, l) /\ e.indent = 2),
         \/ e.key \in {"root", "size", "page", "name"}
         \/ e.key = "port" /\ ValidPort(e.value)
  PROVE  AsFar(ServerSetting(info, e), g, ServerLine(f, n))
<1> DEFINE s   == ServerLine(f, n)
           own == ServerLines(f, s)
           new == ServerSetting(info, e)
<1>0. e.key # "server" /\ e.key # "location"
  OBVIOUS
<1>1. ServerLines(g, s) = own \cup {n + 1} /\ own \in SUBSET (1..n)
  BY <1>0, ServerLinesGrow
<1>2. LocationLines(g, s) = LocationLines(f, s) /\ LocationLines(f, s) \subseteq 1..n
  BY <1>0, <1>1, LocationLinesGrow
<1>3. LocationsUnder(g, s) = LocationsUnder(f, s)
  BY <1>2, UnderStays
<1>4. /\ info.root = Setting(f, own, "root", Empty)
      /\ info.size = Setting(f, own, "size", DefaultSize)
      /\ info.page = [c \in Codes |-> PageSetting(f, own, c)]
      /\ info.port = Setting(f, own, "port", DefaultPort)
      /\ info.locations = LocationsUnder(f, s)
  BY DEF AsFar
<1>5. /\ new.root = IF e.key = "root" THEN e.value ELSE info.root
      /\ new.size = IF e.key = "size" THEN e.value ELSE info.size
      /\ new.page = IF e.key = "page" THEN [info.page EXCEPT ![e.value[1]] = e.value[2]] ELSE info.page
      /\ new.port = IF e.key = "port" THEN e.value ELSE info.port
      /\ new.locations = info.locations
  BY ServerSettingFields
<1>6. e.key = "page" => e.value \in Codes \X Pages
  BY ConfigAssumption
<1> HIDE DEF s, own, new
<1>7. new.root = Setting(g, own \cup {n + 1}, "root", Empty)
  BY <1>1, <1>4, <1>5, SettingGrow
<1>8. new.size = Setting(g, own \cup {n + 1}, "size", DefaultSize)
  BY <1>1, <1>4, <1>5, SettingGrow
<1>9. new.port = Setting(g, own \cup {n + 1}, "port", DefaultPort)
  BY <1>1, <1>4, <1>5, SettingGrow
<1>10. new.page = [c \in Codes |-> PageSetting(g, own \cup {n + 1}, c)]
  BY <1>1, <1>4, <1>5, <1>6, PagesGrow
<1>11. AsFar(new, g, s)
  BY <1>1, <1>3, <1>4, <1>5, <1>7, <1>8, <1>9, <1>10 DEF AsFar
<1> QED BY <1>11 DEF s, new

\* A location that starts.
LEMMA AsFarBegin ==
  ASSUME NEW f, NEW e \in Lines, NEW g, NEW n, Longer(f, e, g, n),
         NEW info \in ServerInfos, AsFar(info, f, ServerLine(f, n)),
         \A l \in 1..n : ~(Open(f, l) /\ e.indent = 2), e.key = "location"
  PROVE  /\ n + 1 \in LocationLines(g, ServerLine(f, n))
         /\ LocationSays(g, ServerLine(f, n), n + 1) = NewLocation(info, e.value)
         /\ AsFar(WithLocation(info, NewLocation(info, e.value)), g, ServerLine(f, n))
<1> DEFINE s    == ServerLine(f, n)
           own  == ServerLines(f, s)
           loc  == NewLocation(info, e.value)
           says == LocationSays(g, s, n + 1)
           new  == WithLocation(info, loc)
<1>n. n \in Nat /\ g[n + 1] = e /\ \A i \in 1..n : g[i] = f[i]
  BY DEF Longer
<1>1. ServerLines(g, s) = own \cup {n + 1} /\ own \in SUBSET (1..n)
  BY ServerLinesGrow
<1>2. /\ LocationLines(g, s) = {l \in LocationLines(f, s) : f[l].value # e.value} \cup {n + 1}
      /\ LocationLines(f, s) \subseteq 1..n
  BY <1>1, LocationLinesGrow
<1>3. /\ info.root = Setting(f, own, "root", Empty)
      /\ info.size = Setting(f, own, "size", DefaultSize)
      /\ info.page = [c \in Codes |-> PageSetting(f, own, c)]
      /\ info.port = Setting(f, own, "port", DefaultPort)
      /\ info.locations = LocationsUnder(f, s)
  BY DEF AsFar
<1>4. /\ loc \in LocationInfos
      /\ loc.id = e.value /\ loc.root = info.root /\ loc.rootId = e.value
      /\ loc.size = info.size /\ loc.page = info.page /\ ~loc.autoindex
  BY ConfigAssumption, NewLocationFields
<1>5. OwnLines(g, n + 1) = {}
  BY OwnLinesOfLast
<1>6. Sources(g, s, n + 1) = own
  <2>1. {i \in own \cup {n + 1} : i < n + 1} = own
    BY <1>n, <1>1
  <2> QED BY <1>1, <1>5, <2>1 DEF Sources
<1>7. \A key : ~Gives(g, {}, key)
  BY DEF Gives
<1>8. /\ says.id = g[n + 1].value
      /\ says.root = Setting(g, Sources(g, s, n + 1), "root", Empty)
      /\ says.size = Setting(g, Sources(g, s, n + 1), "size", DefaultSize)
      /\ says.page = [c \in Codes |-> PageSetting(g, Sources(g, s, n + 1), c)]
      /\ ~Gives(g, OwnLines(g, n + 1), "root") => says.rootId = g[n + 1].value
  BY SaysFields
<1>9. says.autoindex <=> Gives(g, OwnLines(g, n + 1), "autoindex")
  BY SaysFlag
<1>10. SixFields(says) /\ SixFields(loc)
  <2>1. SixFields(says)
    BY SaysSix
  <2> HIDE DEF loc, says
  <2>2. SixFields(loc)
    BY <1>4, LocationSix
  <2> QED BY <2>1, <2>2
<1>11. new.root = info.root /\ new.size = info.size /\ new.page = info.page /\ new.port = info.port
  <2> HIDE DEF loc
  <2> QED BY <1>4, WithLocationFields
<1>12. new.locations = {k \in info.locations : k.id # e.value} \cup {loc}
  <2>1. new.locations = {k \in info.locations : k.id # loc.id} \cup {loc}
    <3> HIDE DEF loc
    <3> QED BY <1>4, WithLocationFields
  <2> HIDE DEF new, loc
  <2> QED BY <1>4, <2>1
<1>13. ASSUME NEW l \in LocationLines(f, s)
       PROVE  /\ LocationSays(g, s, l) = LocationSays(f, s, l)
              /\ LocationSays(f, s, l).id = f[l].value
  <2>1. l \in 1..n /\ ~(Open(f, l) /\ e.indent = 2)
    BY <1>2
  <2>2. LocationSays(g, s, l) = LocationSays(f, s, l)
    BY <2>1, SaysStays
  <2>3. LocationSays(f, s, l).id = f[l].value
    BY SaysId
  <2> QED BY <2>2, <2>3
<1> HIDE DEF s, own, loc, says, new
<1>14. says = loc
  <2>1. says.id = loc.id /\ says.rootId = loc.rootId
    BY <1>n, <1>4, <1>5, <1>7, <1>8
  <2>2. says.root = loc.root
    BY <1>1, <1>3, <1>4, <1>6, <1>8, SettingStays
  <2>3. says.size = loc.size
    BY <1>1, <1>3, <1>4, <1>6, <1>8, SettingStays
  <2>4. says.page = loc.page
    <3>1. ASSUME NEW c \in Codes
          PROVE  PageSetting(g, own, c) = PageSetting(f, own, c)
      BY <1>1, PageStays
    <3> QED BY <3>1, <1>3, <1>4, <1>6, <1>8
  <2>5. says.autoindex = loc.autoindex
    <3>1. says.autoindex \in BOOLEAN /\ loc.autoindex \in BOOLEAN
      BY <1>10 DEF SixFields
    <3>2. ~says.autoindex /\ ~loc.autoindex
      BY <1>4, <1>5, <1>7, <1>9
    <3> QED BY <3>1, <3>2
  <2> QED BY <1>10, <2>1, <2>2, <2>3, <2>4, <2>5, SixEqual
<1>15. new.locations = LocationsUnder(g, s)
  <2>1. LocationSays(g, s, n + 1) = loc
    BY <1>14 DEF says
  <2>2. LocationsUnder(g, s) =
          {LocationSays(f, s, l) : l \in {k \in LocationLines(f, s) : f[k].value # e.value}} \cup {loc}
    BY <1>2, <1>13, <2>1 DEF LocationsUnder
  <2>3. {k \in info.locations : k.id # e.value} =
          {LocationSays(f, s, l) : l \in {k \in LocationLines(f, s) : f[k].value # e.value}}
    BY <1>3, <1>13 DEF LocationsUnder
  <2> QED BY <1>12, <2>2, <2>3
<1>16. /\ new.root = Setting(g, own \cup {n + 1}, "root", Empty)
       /\ new.size = Setting(g, own \cup {n + 1}, "size", DefaultSize)
       /\ new.port = Setting(g, own \cup {n + 1}, "port", DefaultPort)
  BY <1>1, <1>3, <1>11, SettingGrow
<1>17. new.page = [c \in Codes |-> PageSetting(g, own \cup {n + 1}, c)]
  <2>1. ASSUME NEW c \in Codes
        PROVE  PageSetting(g, own \cup {n + 1}, c) = PageSetting(f, own, c)
    BY <1>1, PageGrow
  <2> QED BY <1>3, <1>11, <2>1
<1>18. AsFar(new, g, s)
  BY <1>1, <1>15, <1>16, <1>17 DEF AsFar
<1> QED BY <1>2, <1>14, <1>18 DEF s, loc, says, new

\* Of one identifier there is one line that counts.
LEMMA LocationLinesDiffer ==
  ASSUME NEW f, NEW s, NEW l \in LocationLines(f, s), NEW k \in LocationLines(f, s),
         f[l].value = f[k].value
  PROVE  l = k
<1>1. l \in Int /\ k \in Int
  BY DEF LocationLines, ServerLines
<1>2. ~(k > l) /\ ~(l > k)
  BY DEF LocationLines
<1> QED BY <1>1, <1>2

\* A setting of the location that is open.
LEMMA AsFarLocation ==
  ASSUME NEW f, NEW e \in Lines, NEW g, NEW n, Longer(f, e, g, n),
         NEW info \in ServerInfos, NEW loc \in LocationInfos, NEW s,
         AsFar(WithLocation(info, loc), f, s),
         NEW l \in LocationLines(f, s), loc = LocationSays(f, s, l), Open(f, l),
         \A k \in 1..n : Open(f, k) => k = l,
         e.indent = 2, e.key \in {"root", "size", "page", "autoindex"}
  PROVE  /\ l \in LocationLines(g, s)
         /\ LocationSays(g, s, l) = LocationSetting(loc, e)
         /\ AsFar(WithLocation(info, LocationSetting(loc, e)), g, s)
<1> DEFINE own == ServerLines(f, s)
           set == LocationSetting(loc, e)
           old == WithLocation(info, loc)
           new == WithLocation(info, set)
           X   == {k \in info.locations : k.id # loc.id}
<1>1. l \in 1..n /\ LocationLines(f, s) \subseteq 1..n
  BY LocationLinesGrow, ServerLinesGrow
<1>2. ServerLines(g, s) = own /\ own \in SUBSET (1..n)
  BY <1>1, ServerLinesGrow
<1>3. LocationLines(g, s) = LocationLines(f, s)
  BY <1>2, LocationLinesGrow
<1>4. /\ old.root = Setting(f, own, "root", Empty)
      /\ old.size = Setting(f, own, "size", DefaultSize)
      /\ old.page = [c \in Codes |-> PageSetting(f, own, c)]
      /\ old.port = Setting(f, own, "port", DefaultPort)
      /\ old.locations = LocationsUnder(f, s)
  BY DEF AsFar
<1>5. LocationSays(g, s, l) = set
  <2>1. e.key = "page" => e.value \in Codes \X Pages
    BY ConfigAssumption
  <2> QED BY <1>1, <2>1, SaysSets
<1>6. set \in LocationInfos
  BY LocationSettingTyped
<1>7. set.id = loc.id
  <2>1. SixFields(loc)
    BY LocationSix
  <2> QED BY <2>1, LocationSettingId
<1>8. /\ old.root = info.root /\ old.size = info.size /\ old.page = info.page
      /\ old.port = info.port /\ old.locations = X \cup {loc}
  BY WithLocationFields
<1>9. /\ new.root = info.root /\ new.size = info.size /\ new.page = info.page
      /\ new.port = info.port /\ new.locations = {k \in info.locations : k.id # set.id} \cup {set}
  <2> HIDE DEF set
  <2> QED BY <1>6, WithLocationFields
<1>10. new.locations = X \cup {set}
  BY <1>7, <1>9
<1>11. X = {LocationSays(f, s, k) : k \in LocationLines(f, s) \ {l}}
  <2>1. ASSUME NEW k \in LocationLines(f, s)
        PROVE  LocationSays(f, s, k).id = f[k].value
    BY SaysId
  <2>2. loc.id = f[l].value
    BY <2>1
  <2>3. \A k \in LocationLines(f, s) \ {l} : f[k].value # f[l].value
    BY LocationLinesDiffer
  <2>4. X \cup {loc} = {LocationSays(f, s, k) : k \in LocationLines(f, s)}
    BY <1>4, <1>8 DEF LocationsUnder
  <2>5. loc \notin X
    OBVIOUS
  <2> HIDE DEF X
  <2>6. ASSUME NEW x \in X
        PROVE  x \in {LocationSays(f, s, k) : k \in LocationLines(f, s) \ {l}}
    BY <2>4, <2>5
  <2>7. ASSUME NEW k \in LocationLines(f, s) \ {l}
        PROVE  LocationSays(f, s, k) \in X
    <3>1. LocationSays(f, s, k) \in X \cup {loc}
      BY <2>4
    <3>2. LocationSays(f, s, k).id # loc.id
      BY <2>1, <2>2, <2>3
    <3> QED BY <3>1, <3>2
  <2> QED BY <2>6, <2>7
<1>12. \A k \in LocationLines(f, s) \ {l} : LocationSays(g, s, k) = LocationSays(f, s, k)
  BY <1>1, SaysStays
<1> HIDE DEF own, set, old, new, X
<1>13. new.locations = LocationsUnder(g, s)
  <2>1. LocationsUnder(g, s) =
          {LocationSays(g, s, k) : k \in LocationLines(f, s) \ {l}} \cup {LocationSays(g, s, l)}
    BY <1>3 DEF LocationsUnder
  <2>2. {LocationSays(g, s, k) : k \in LocationLines(f, s) \ {l}} = X
    BY <1>11, <1>12
  <2> QED BY <1>5, <1>10, <2>1, <2>2
<1>14. /\ new.root = Setting(g, own, "root", Empty)
       /\ new.size = Setting(g, own, "size", DefaultSize)
       /\ new.port = Setting(g, own, "port", DefaultPort)
  BY <1>2, <1>4, <1>8, <1>9, SettingStays
<1>15. new.page = [c \in Codes |-> PageSetting(g, own, c)]
  <2>1. ASSUME NEW c \in Codes
        PROVE  PageSetting(g, own, c) = PageSetting(f, own, c)
    BY <1>2, PageStays
  <2> QED BY <1>4, <1>8, <1>9, <2>1
<1>16. AsFar(new, g, s)
  BY <1>2, <1>13, <1>14, <1>15 DEF AsFar
<1> QED BY <1>3, <1>5, <1>16 DEF set, new

-----------------------------------------------------------------------------
(* Types *)

LEMMA CurrentTyped ==
  ASSUME TypeOK
  PROVE  Current \in ServerInfos
BY WithLocationFields DEF TypeOK, Current

LEMMA SavedTyped ==
  ASSUME TypeOK
  PROVE  Saved \in Seq(ServerInfos)
<1>1. Finished(Current) \in ServerInfos
  BY CurrentTyped, FinishedFields
<1>2. servers \in Seq(ServerInfos)
  BY DEF TypeOK
<1> QED BY <1>1, <1>2, AppendProperties DEF Saved

LEMMA TypeInit ==
  ASSUME Init
  PROVE  TypeOK
<1>1. InitServerInfo \in ServerInfos
  BY InitServerFields
<1>2. InitLocationInfo(InitServerInfo) \in LocationInfos
  BY <1>1, InitLocationFields
<1> QED BY <1>1, <1>2 DEF Init, TypeOK

LEMMA TypeStep ==
  ASSUME TypeOK, [Next]_vars
  PROVE  TypeOK'
<1>1. Current \in ServerInfos /\ Saved \in Seq(ServerInfos)
  BY CurrentTyped, SavedTyped
<1>2. ASSUME NEW l \in Lines, Read(l), ParseLine(l)
      PROVE  TypeOK'
  <2>1. lines' \in Seq(Lines)
    BY <1>2, AppendProperties DEF Read, TypeOK
  <2>2. CASE NewServer(l)
    BY <1>1, <2>1, <2>2, InitServerFields DEF NewServer, TypeOK
  <2>3. CASE ParseServerSetting(l)
    <3>1. ServerSetting(Current, l) \in ServerInfos
      BY <1>1, <2>3, ServerSettingFields DEF ParseServerSetting
    <3> QED BY <3>1, <2>1, <2>3 DEF ParseServerSetting, TypeOK
  <2>4. CASE BeginLocation(l)
    <3>1. NewLocation(Current, l.value) \in LocationInfos
      BY <1>1, <2>4, ConfigAssumption, NewLocationFields DEF BeginLocation
    <3> QED BY <3>1, <1>1, <2>1, <2>4 DEF BeginLocation, TypeOK
  <2>5. CASE ParseLocationSetting(l)
    <3>1. LocationSetting(location, l) \in LocationInfos
      BY <2>5, LocationSettingTyped DEF ParseLocationSetting, TypeOK
    <3> QED BY <3>1, <2>1, <2>5 DEF ParseLocationSetting, TypeOK
  <2>6. CASE Error(l)
    BY <2>1, <2>6 DEF Error, TypeOK
  <2> QED BY <1>2, <2>2, <2>3, <2>4, <2>5, <2>6 DEF ParseLine
<1>3. CASE EndOfFile
  <2>1. <<Finished(InitServerInfo)>> \in Seq(ServerInfos)
    BY InitServerFields, FinishedFields
  <2>2. servers' \in Seq(ServerInfos) /\ mode' \in {"done", "exit"}
    BY <1>1, <1>3, <2>1 DEF EndOfFile
  <2> QED BY <1>3, <2>2 DEF EndOfFile, TypeOK
<1>4. CASE UNCHANGED vars
  BY <1>4 DEF vars, TypeOK
<1> QED BY <1>2, <1>3, <1>4 DEF Next

-----------------------------------------------------------------------------
(* The parser's invariant *)

\* What a line does to the lines.
LEMMA LinesGrow ==
  ASSUME TypeOK, NEW l \in Lines, Read(l)
  PROVE  /\ Longer(lines, l, lines', Len(lines))
         /\ Len(lines) \in Nat /\ Len(lines') = Len(lines) + 1 /\ lines' # << >>
         /\ This(lines') = ServerLine(lines', Len(lines) + 1)
<1>1. Longer(lines, l, lines', Len(lines))
  BY AppendIsLonger DEF Read, TypeOK
<1>2. Len(lines) \in Nat /\ Len(lines') = Len(lines) + 1
  BY <1>1 DEF Longer
<1>3. lines' # << >>
  BY <1>2
<1> QED BY <1>1, <1>2, <1>3 DEF This

\* Where no location is open, or the line does not belong to it.
LEMMA NoneContinues ==
  ASSUME ServerOpens, Parsing, NEW l, ~InLocation(l)
  PROVE  \A k \in 1..Len(lines) : ~(Open(lines, k) /\ l.indent = 2)
BY DEF ServerOpens, Parsing, InLocation

\* The other servers are complete.
LEMMA OthersStay ==
  ASSUME ParseInv, Parsing, NEW l \in Lines, Read(l),
         NEW s, s # This(lines) \/ (l.key = "server" /\ l.indent # 2), NEW info
  PROVE  AsSaid(info, lines', s) <=> AsSaid(info, lines, s)
<1> DEFINE n == Len(lines)
<1>1. Longer(lines, l, lines', n)
  BY LinesGrow DEF ParseInv
<1>2. ServerLines(lines', s) = ServerLines(lines, s)
  BY <1>1, ServerLinesGrow DEF This
<1>3. \A k \in LocationLines(lines, s) : ~(Open(lines, k) /\ l.indent = 2)
  <2>1. LocationLines(lines, s) \subseteq ServerLines(lines, s) /\ ServerLines(lines, s) \subseteq 1..n
    BY <1>1, LocationLinesGrow, ServerLinesGrow
  <2>2. CASE l.indent # 2
    BY <2>2
  <2>3. CASE mode = "server"
    BY <2>1, <2>3 DEF ParseInv, ServerOpens
  <2>4. CASE mode = "location" /\ s # This(lines)
    <3>1. PICK j \in LocationLines(lines, This(lines)) : \A k \in 1..n : Open(lines, k) => k = j
      BY <2>4 DEF ParseInv, LocationOpens
    <3>2. ServerLine(lines, j) = This(lines)
      BY DEF LocationLines, ServerLines
    <3>3. \A k \in LocationLines(lines, s) : ServerLine(lines, k) = s
      BY DEF LocationLines, ServerLines
    <3> QED BY <2>1, <2>4, <3>1, <3>2, <3>3
  <2> QED BY <2>2, <2>3, <2>4 DEF Parsing
<1> QED BY <1>1, <1>2, <1>3, AsSaidStays

\* The servers that there are when the current one ends here.
LEMMA SavedIsSaid ==
  ASSUME ParseInv, Parsing
  PROVE  /\ This(lines) \in Starts(lines)
         /\ \A k \in DOMAIN Saved : \E s \in Starts(lines) : AsSaid(Saved[k], lines, s)
         /\ \A s \in Starts(lines) : \E k \in DOMAIN Saved : AsSaid(Saved[k], lines, s)
<1> DEFINE n == Len(servers)
<1>1. TypeOK /\ servers \in Seq(ServerInfos) /\ lines \in Seq(Lines)
  BY DEF ParseInv, TypeOK
<1>2. This(lines) \in Starts(lines)
  <2>1. Len(lines) \in 1..Len(lines)
    BY <1>1 DEF ParseInv, ServerInv, Parsing
  <2> QED BY <2>1 DEF ParseInv, ServerInv, This
<1>3. AsSaid(Finished(Current), lines, This(lines))
  BY <1>1, CurrentTyped, AsFarFinished DEF ParseInv, ServerInv
<1>4. Saved = Append(servers, Finished(Current))
  BY DEF Saved, Parsing
<1>5. n \in Nat /\ DOMAIN servers = 1..n
  BY <1>1, LenProperties
<1>6. /\ DOMAIN Saved = 1..(n + 1)
      /\ \A k \in 1..n : Saved[k] = servers[k]
      /\ Saved[n + 1] = Finished(Current)
  <2>1. Finished(Current) \in ServerInfos
    BY <1>1, CurrentTyped, FinishedFields
  <2> QED BY <1>1, <1>4, <2>1, AppendProperties
<1>7. \A k \in DOMAIN Saved : \E s \in Starts(lines) : AsSaid(Saved[k], lines, s)
  <2>1. \A k \in 1..(n + 1) : k \in 1..n \/ k = n + 1
    BY <1>5
  <2>2. \A k \in 1..n : \E s \in Starts(lines) : AsSaid(servers[k], lines, s)
    BY <1>5 DEF ParseInv, EarlierInv
  <2> QED BY <1>2, <1>3, <1>6, <2>1, <2>2
<1>8. \A s \in Starts(lines) : \E k \in DOMAIN Saved : AsSaid(Saved[k], lines, s)
  <2>1. \A k \in 1..n : k \in 1..(n + 1)
    BY <1>5
  <2>2. \A s \in Starts(lines) \ {This(lines)} : \E k \in 1..n : AsSaid(servers[k], lines, s)
    BY <1>5 DEF ParseInv, EarlierInv
  <2>3. n + 1 \in 1..(n + 1)
    BY <1>5
  <2> QED BY <1>3, <1>6, <2>1, <2>2, <2>3
<1> QED BY <1>2, <1>7, <1>8

\* A line that starts no server belongs to the one that is being parsed.
LEMMA SameServer ==
  ASSUME ParseInv, Parsing, NEW l \in Lines, Read(l), l.key # "server"
  PROVE  /\ This(lines') = This(lines) /\ Starts(lines') = Starts(lines)
         /\ \A i \in 1..Len(lines') : ServerLine(lines', i) \in Starts(lines')
<1> DEFINE n == Len(lines)
<1>1. /\ Longer(lines, l, lines', n)
      /\ n \in Nat /\ Len(lines') = n + 1
      /\ This(lines') = ServerLine(lines', n + 1)
  BY LinesGrow DEF ParseInv
<1>2. This(lines') = This(lines) /\ \A i \in 1..n : ServerLine(lines', i) = ServerLine(lines, i)
  BY <1>1, ServerLineGrow DEF This
<1>3. Starts(lines') = Starts(lines)
  BY <1>1, StartsGrow
<1>4. This(lines) \in Starts(lines)
  BY SavedIsSaid
<1>5. \A i \in 1..n : ServerLine(lines, i) \in Starts(lines)
  BY DEF ParseInv, ServerInv
<1>6. \A i \in 1..(n + 1) : i \in 1..n \/ i = n + 1
  BY <1>1
<1> QED BY <1>1, <1>2, <1>3, <1>4, <1>5, <1>6

LEMMA EarlierStays ==
  ASSUME ParseInv, Parsing, NEW l \in Lines, Read(l), l.key # "server", servers' = servers
  PROVE  EarlierInv'
<1>1. This(lines') = This(lines) /\ Starts(lines') = Starts(lines)
  BY SameServer
<1>2. ASSUME NEW s \in Starts(lines) \ {This(lines)}, NEW info
      PROVE  AsSaid(info, lines', s) <=> AsSaid(info, lines, s)
  BY OthersStay
<1>3. \A k \in DOMAIN servers : \E s \in Starts(lines) \ {This(lines)} : AsSaid(servers[k], lines, s)
  BY DEF ParseInv, EarlierInv
<1>4. \A s \in Starts(lines) \ {This(lines)} : \E k \in DOMAIN servers : AsSaid(servers[k], lines, s)
  BY DEF ParseInv, EarlierInv
<1> QED BY <1>1, <1>2, <1>3, <1>4 DEF EarlierInv

LEMMA NewServerKeeps ==
  ASSUME ParseInv, mode \notin {"done", "exit"}, NEW l \in Lines, Read(l), NewServer(l)
  PROVE  TopInv' /\ ServerInv' /\ EarlierInv' /\ ServerOpens' /\ LocationOpens' /\ ParsedRight'
<1> DEFINE n == Len(lines)
<1>1. /\ Longer(lines, l, lines', n)
      /\ n \in Nat /\ Len(lines') = n + 1 /\ lines' # << >>
      /\ This(lines') = ServerLine(lines', n + 1)
  BY LinesGrow DEF ParseInv
<1>2. mode' = "server" /\ server' = InitServerInfo /\ servers' = Saved /\ l.key = "server"
  BY DEF NewServer
<1>3. l.indent # 2
  BY <1>2, ConfigAssumption
<1>4. This(lines') = n + 1 /\ \A i \in 1..n : ServerLine(lines', i) = ServerLine(lines, i)
  BY <1>1, <1>2, ServerLineGrow
<1>5. Starts(lines') = Starts(lines) \cup {n + 1} /\ n + 1 \notin Starts(lines)
  BY <1>1, <1>2, StartsGrow
<1>6. mode = "top" \/ Parsing
  BY DEF ParseInv, TypeOK, Parsing
<1>7. \A i \in 1..n : ServerLine(lines, i) \in Starts(lines)
  <2>1. CASE mode = "top"
    BY <2>1 DEF ParseInv, TopInv
  <2>2. CASE Parsing
    BY <2>2 DEF ParseInv, ServerInv
  <2> QED BY <1>6, <2>1, <2>2
<1>8. ServerInv'
  <2>1. AsFar(InitServerInfo, lines', n + 1)
    BY <1>1, <1>2, <1>7, AsFarStart
  <2>2. Current' = InitServerInfo
    BY <1>2 DEF Current
  <2>3. \A i \in 1..(n + 1) : ServerLine(lines', i) \in Starts(lines')
    <3>1. \A i \in 1..(n + 1) : i \in 1..n \/ i = n + 1
      BY <1>1
    <3> QED BY <3>1, <1>1, <1>4, <1>5, <1>7
  <2> QED BY <2>1, <2>2, <2>3, <1>1, <1>4 DEF ServerInv
<1>9. EarlierInv'
  <2>1. Starts(lines') \ {This(lines')} = Starts(lines)
    BY <1>4, <1>5
  <2>2. CASE mode = "top"
    <3>1. lines = << >> /\ Saved = << >>
      BY <2>2 DEF ParseInv, TopInv, Saved
    <3>2. Starts(lines) = {}
      BY <3>1 DEF Starts
    <3>3. DOMAIN servers' = {}
      BY <3>1, <1>2
    <3> QED BY <3>2, <3>3, <2>1 DEF EarlierInv
  <2>3. CASE Parsing
    <3>1. ASSUME NEW s, NEW info
          PROVE  AsSaid(info, lines', s) <=> AsSaid(info, lines, s)
      BY <2>3, <1>2, <1>3, OthersStay
    <3>2. /\ \A k \in DOMAIN Saved : \E s \in Starts(lines) : AsSaid(Saved[k], lines, s)
          /\ \A s \in Starts(lines) : \E k \in DOMAIN Saved : AsSaid(Saved[k], lines, s)
      BY <2>3, SavedIsSaid
    <3> QED BY <3>1, <3>2, <2>1, <1>2 DEF EarlierInv
  <2> QED BY <1>6, <2>2, <2>3
<1>10. ServerOpens'
  <2>1. \A k \in 1..(n + 1) : k \in 1..n \/ k = n + 1
    BY <1>1
  <2>2. \A k \in 1..n : ~Open(lines', k)
    BY <1>1, <1>3, BlockGrow
  <2>3. ~Open(lines', n + 1)
    BY <1>1, <1>2, BlockGrow
  <2> QED BY <2>1, <2>2, <2>3, <1>1 DEF ServerOpens
<1>11. TopInv' /\ LocationOpens' /\ ParsedRight'
  BY <1>2 DEF TopInv, LocationOpens, ParsedRight
<1> QED BY <1>8, <1>9, <1>10, <1>11

LEMMA ServerSettingKeeps ==
  ASSUME ParseInv, NEW l \in Lines, Read(l), ParseServerSetting(l)
  PROVE  TopInv' /\ ServerInv' /\ EarlierInv' /\ ServerOpens' /\ LocationOpens' /\ ParsedRight'
<1> DEFINE n == Len(lines)
<1>1. /\ Longer(lines, l, lines', n)
      /\ n \in Nat /\ Len(lines') = n + 1 /\ lines' # << >>
  BY LinesGrow DEF ParseInv
<1>2. /\ Parsing /\ ~InLocation(l)
      /\ mode' = "server" /\ server' = ServerSetting(Current, l) /\ servers' = servers
      /\ l.key \in {"root", "size", "page", "name"} \/ (l.key = "port" /\ ValidPort(l.value))
  BY DEF ParseServerSetting, Parsing
<1>3. l.key # "server" /\ l.key # "location"
  BY <1>2
<1>4. /\ This(lines') = This(lines)
      /\ \A i \in 1..Len(lines') : ServerLine(lines', i) \in Starts(lines')
  BY <1>2, <1>3, SameServer
<1>5. \A k \in 1..n : ~(Open(lines, k) /\ l.indent = 2)
  BY <1>2, NoneContinues DEF ParseInv
<1>6. ServerInv'
  <2>1. AsFar(Current, lines, ServerLine(lines, n))
    BY <1>2 DEF ParseInv, ServerInv, This
  <2>2. Current \in ServerInfos
    BY CurrentTyped DEF ParseInv
  <2>3. AsFar(ServerSetting(Current, l), lines', ServerLine(lines, n))
    BY <1>1, <1>2, <1>5, <2>1, <2>2, AsFarSetting
  <2>4. Current' = ServerSetting(Current, l)
    BY <1>2 DEF Current
  <2> QED BY <2>3, <2>4, <1>1, <1>4 DEF ServerInv, This
<1>7. EarlierInv'
  BY <1>2, <1>3, EarlierStays
<1>8. ServerOpens'
  <2>1. \A k \in 1..(n + 1) : k \in 1..n \/ k = n + 1
    BY <1>1
  <2>2. \A k \in 1..n : ~Open(lines', k)
    BY <1>1, <1>5, BlockGrow
  <2>3. ~Open(lines', n + 1)
    BY <1>1, <1>3, BlockGrow
  <2> QED BY <2>1, <2>2, <2>3, <1>1 DEF ServerOpens
<1>9. TopInv' /\ LocationOpens' /\ ParsedRight'
  BY <1>2 DEF TopInv, LocationOpens, ParsedRight
<1> QED BY <1>6, <1>7, <1>8, <1>9

LEMMA BeginLocationKeeps ==
  ASSUME ParseInv, NEW l \in Lines, Read(l), BeginLocation(l)
  PROVE  TopInv' /\ ServerInv' /\ EarlierInv' /\ ServerOpens' /\ LocationOpens' /\ ParsedRight'
<1> DEFINE n == Len(lines)
<1>1. /\ Longer(lines, l, lines', n)
      /\ n \in Nat /\ Len(lines') = n + 1 /\ lines' # << >>
  BY LinesGrow DEF ParseInv
<1>2. /\ Parsing /\ ~InLocation(l) /\ l.key = "location"
      /\ mode' = "location" /\ server' = Current /\ servers' = servers
      /\ location' = NewLocation(Current, l.value)
  BY DEF BeginLocation, Parsing
<1>3. l.key # "server"
  BY <1>2
<1>4. /\ This(lines') = This(lines)
      /\ \A i \in 1..Len(lines') : ServerLine(lines', i) \in Starts(lines')
  BY <1>2, <1>3, SameServer
<1>5. \A k \in 1..n : ~(Open(lines, k) /\ l.indent = 2)
  BY <1>2, NoneContinues DEF ParseInv
<1>6. /\ n + 1 \in LocationLines(lines', This(lines))
      /\ LocationSays(lines', This(lines), n + 1) = NewLocation(Current, l.value)
      /\ AsFar(WithLocation(Current, NewLocation(Current, l.value)), lines', This(lines))
  <2>1. AsFar(Current, lines, ServerLine(lines, n))
    BY <1>2 DEF ParseInv, ServerInv, This
  <2>2. Current \in ServerInfos
    BY CurrentTyped DEF ParseInv
  <2> QED BY <1>1, <1>2, <1>5, <2>1, <2>2, AsFarBegin DEF This
<1>7. ServerInv'
  <2>1. Current' = WithLocation(Current, NewLocation(Current, l.value))
    BY <1>2 DEF Current, WithLocation
  <2> QED BY <2>1, <1>1, <1>4, <1>6 DEF ServerInv
<1>8. EarlierInv'
  BY <1>2, <1>3, EarlierStays
<1>9. LocationOpens'
  <2>1. \A k \in 1..(n + 1) : k \in 1..n \/ k = n + 1
    BY <1>1
  <2>2. \A k \in 1..n : ~Open(lines', k)
    BY <1>1, <1>5, BlockGrow
  <2>3. Open(lines', n + 1)
    BY <1>1, <1>2, BlockGrow
  <2> QED BY <2>1, <2>2, <2>3, <1>1, <1>2, <1>4, <1>6 DEF LocationOpens
<1>10. TopInv' /\ ServerOpens' /\ ParsedRight'
  BY <1>2 DEF TopInv, ServerOpens, ParsedRight
<1> QED BY <1>7, <1>8, <1>9, <1>10

LEMMA LocationSettingKeeps ==
  ASSUME ParseInv, NEW l \in Lines, Read(l), ParseLocationSetting(l)
  PROVE  TopInv' /\ ServerInv' /\ EarlierInv' /\ ServerOpens' /\ LocationOpens' /\ ParsedRight'
<1> DEFINE n == Len(lines)
           set == LocationSetting(location, l)
<1>1. /\ Longer(lines, l, lines', n)
      /\ n \in Nat /\ Len(lines') = n + 1 /\ lines' # << >>
  BY LinesGrow DEF ParseInv
<1>2. /\ mode = "location" /\ mode' = "location" /\ server' = server /\ servers' = servers
      /\ location' = set
      /\ l.key \in {"root", "size", "page", "autoindex"} /\ l.indent = 2
  BY DEF ParseLocationSetting, InLocation
<1>3. l.key # "server" /\ l.key # "location" /\ Parsing
  BY <1>2 DEF Parsing
<1>4. /\ This(lines') = This(lines)
      /\ \A i \in 1..Len(lines') : ServerLine(lines', i) \in Starts(lines')
  BY <1>3, SameServer
<1>5. PICK j \in LocationLines(lines, This(lines)) :
        /\ Open(lines, j) /\ \A k \in 1..Len(lines) : Open(lines, k) => k = j
        /\ location = LocationSays(lines, This(lines), j)
  BY <1>2 DEF ParseInv, LocationOpens
<1>6. /\ j \in LocationLines(lines', This(lines))
      /\ LocationSays(lines', This(lines), j) = set
      /\ AsFar(WithLocation(server, set), lines', This(lines))
  <2>1. AsFar(WithLocation(server, location), lines, This(lines))
    BY <1>2, <1>3 DEF ParseInv, ServerInv, Current
  <2>2. server \in ServerInfos /\ location \in LocationInfos
    BY DEF ParseInv, TypeOK
  <2> QED BY <1>1, <1>2, <1>5, <2>1, <2>2, AsFarLocation
<1>7. ServerInv'
  <2>1. Current' = WithLocation(server, set)
    BY <1>2 DEF Current, WithLocation
  <2> QED BY <2>1, <1>1, <1>4, <1>6 DEF ServerInv
<1>8. EarlierInv'
  BY <1>2, <1>3, EarlierStays
<1>9. LocationOpens'
  <2>1. \A k \in 1..(n + 1) : k \in 1..n \/ k = n + 1
    BY <1>1
  <2>2. \A k \in 1..n : Open(lines', k) <=> Open(lines, k)
    BY <1>1, <1>2, BlockGrow
  <2>3. ~Open(lines', n + 1)
    BY <1>1, <1>3, BlockGrow
  <2>4. j \in 1..n
    BY <1>1, LocationLinesGrow, ServerLinesGrow
  <2>5. Open(lines', j) /\ \A k \in 1..(n + 1) : Open(lines', k) => k = j
    BY <2>1, <2>2, <2>3, <2>4, <1>5
  <2> QED BY <2>5, <1>1, <1>2, <1>4, <1>6 DEF LocationOpens
<1>10. TopInv' /\ ServerOpens' /\ ParsedRight'
  BY <1>2 DEF TopInv, ServerOpens, ParsedRight
<1> QED BY <1>7, <1>8, <1>9, <1>10

LEMMA EndKeeps ==
  ASSUME ParseInv, EndOfFile
  PROVE  TopInv' /\ ServerInv' /\ EarlierInv' /\ ServerOpens' /\ LocationOpens' /\ ParsedRight'
<1>1. mode' \in {"done", "exit"} /\ lines' = lines
  BY DEF EndOfFile
<1>2. TopInv' /\ ServerInv' /\ EarlierInv' /\ ServerOpens' /\ LocationOpens'
  BY <1>1 DEF TopInv, ServerInv, EarlierInv, ServerOpens, LocationOpens, Parsing
<1>3. ParsedRight'
  <2>1. CASE mode = "top"
    BY <2>1, <1>1 DEF ParseInv, TopInv, ParsedRight
  <2>2. CASE Parsing
    <3>1. servers' = Saved
      BY <2>2 DEF EndOfFile, Parsing
    <3> QED BY <3>1, <2>2, <1>1, SavedIsSaid DEF ParsedRight
  <2> QED BY <2>1, <2>2 DEF EndOfFile, Parsing
<1> QED BY <1>2, <1>3

\* ParseInv holds at the start and is kept by every step.
LEMMA ParseInit ==
  ASSUME Init
  PROVE  ParseInv
<1>1. TypeOK
  BY TypeInit
<1> QED BY <1>1 DEF Init, ParseInv, TopInv, ServerInv, EarlierInv, ServerOpens, LocationOpens,
                     ParsedRight, Parsing

LEMMA ParseStep ==
  ASSUME ParseInv, [Next]_vars
  PROVE  ParseInv'
<1>1. TypeOK'
  BY TypeStep DEF ParseInv
<1>2. ASSUME mode \notin {"done", "exit"}, NEW l \in Lines, Read(l), ParseLine(l)
      PROVE  TopInv' /\ ServerInv' /\ EarlierInv' /\ ServerOpens' /\ LocationOpens' /\ ParsedRight'
  <2>1. CASE NewServer(l)
    BY <1>2, <2>1, NewServerKeeps
  <2>2. CASE ParseServerSetting(l)
    BY <1>2, <2>2, ServerSettingKeeps
  <2>3. CASE BeginLocation(l)
    BY <1>2, <2>3, BeginLocationKeeps
  <2>4. CASE ParseLocationSetting(l)
    BY <1>2, <2>4, LocationSettingKeeps
  <2>5. CASE Error(l)
    <3>1. mode' = "exit"
      BY <2>5 DEF Error
    <3> QED BY <3>1 DEF TopInv, ServerInv, EarlierInv, ServerOpens, LocationOpens, ParsedRight, Parsing
  <2> QED BY <1>2, <2>1, <2>2, <2>3, <2>4, <2>5 DEF ParseLine
<1>3. ASSUME EndOfFile
      PROVE  TopInv' /\ ServerInv' /\ EarlierInv' /\ ServerOpens' /\ LocationOpens' /\ ParsedRight'
  BY <1>3, EndKeeps
<1>4. ASSUME UNCHANGED vars
      PROVE  TopInv' /\ ServerInv' /\ EarlierInv' /\ ServerOpens' /\ LocationOpens' /\ ParsedRight'
  <2>1. /\ mode' = mode /\ lines' = lines /\ server' = server
        /\ location' = location /\ servers' = servers
    BY <1>4 DEF vars
  <2>2. Current' = Current /\ (Parsing' <=> Parsing)
    BY <2>1 DEF Current, Parsing
  <2>3. TopInv'
    BY <2>1 DEF ParseInv, TopInv
  <2>4. ServerInv'
    BY <2>1, <2>2 DEF ParseInv, ServerInv
  <2>5. EarlierInv'
    BY <2>1, <2>2 DEF ParseInv, EarlierInv
  <2>6. ServerOpens'
    BY <2>1 DEF ParseInv, ServerOpens
  <2>7. LocationOpens'
    BY <2>1 DEF ParseInv, LocationOpens
  <2>8. ParsedRight'
    BY <2>1 DEF ParseInv, ParsedRight
  <2> QED BY <2>3, <2>4, <2>5, <2>6, <2>7, <2>8
<1>5. TopInv' /\ ServerInv' /\ EarlierInv' /\ ServerOpens' /\ LocationOpens' /\ ParsedRight'
  BY <1>2, <1>3, <1>4 DEF Next
<1> QED BY <1>1, <1>5 DEF ParseInv

\* In every state of the parser, what it has in hand is what the lines so far say
\* (Config::_startParse).
THEOREM ConfigInvariant == Spec => []ParseInv
<1>1. Init => ParseInv
  BY ParseInit
<1>2. ParseInv /\ [Next]_vars => ParseInv'
  BY ParseStep
<1> QED BY <1>1, <1>2, PTL DEF Spec

\* The servers and locations are those that the file says (Config::_startParse,
\* _parseServer, _parseLocation).
THEOREM FilesAreParsed == Spec => []ParsedRight
<1>1. ParseInv => ParsedRight
  BY DEF ParseInv
<1> QED BY <1>1, ConfigInvariant, PTL

\* What is kept of a file has the types of the declarations (Config.hpp).
THEOREM ConfigTyped == Spec => []TypeOK
<1>1. ParseInv => TypeOK
  BY DEF ParseInv
<1> QED BY <1>1, ConfigInvariant, PTL

-----------------------------------------------------------------------------
(* Ports *)

LEMMA PortsStep ==
  ASSUME ParseInv, PortsDiffer, [Next]_vars
  PROVE  PortsDiffer'
<1>1. CASE EndOfFile
  <2>1. mode' = "done" => ~\E i, j \in DOMAIN servers' : i # j /\ SamePort(servers'[i], servers'[j])
    BY <1>1 DEF EndOfFile
  <2> QED BY <2>1 DEF PortsDiffer, SamePort
<1>2. CASE \E l \in Lines : Read(l) /\ ParseLine(l)
  <2>1. PICK l \in Lines : ParseLine(l)
    BY <1>2
  <2>2. mode' = "done" => mode' = mode /\ servers' = servers
    <3>1. CASE NewServer(l)
      BY <3>1 DEF NewServer
    <3>2. CASE ParseServerSetting(l)
      BY <3>2 DEF ParseServerSetting
    <3>3. CASE BeginLocation(l)
      BY <3>3 DEF BeginLocation
    <3>4. CASE ParseLocationSetting(l)
      BY <3>4 DEF ParseLocationSetting
    <3>5. CASE Error(l)
      BY <3>5 DEF Error
    <3> QED BY <2>1, <3>1, <3>2, <3>3, <3>4, <3>5 DEF ParseLine
  <2> QED BY <2>2 DEF PortsDiffer
<1>3. CASE UNCHANGED vars
  BY <1>3 DEF vars, PortsDiffer
<1> QED BY <1>1, <1>2, <1>3 DEF Next

LEMMA PortsDecide ==
  ASSUME TypeOK, PortsDiffer
  PROVE  PortDecides
<1> SUFFICES ASSUME mode = "done",
                    NEW port, NEW name, NEW other
             PROVE  FindServerId(port, name) = FindServerId(port, other)
  BY DEF PortDecides
<1> DEFINE byPort == {i \in DOMAIN servers : servers[i].port = port}
           byName(nm) == {i \in byPort : servers[i].name = nm}
<1>1. \A i, j \in byPort : i = j
  BY DEF PortsDiffer
<1>2. byPort \subseteq Int
  BY LenProperties DEF TypeOK
<1>3. \A nm : byName(nm) = {} \/ byName(nm) = byPort
  BY <1>1
<1>4. \A nm : FindServerId(port, nm) = CASE byName(nm) # {} -> First(byName(nm))
                                        [] byName(nm) = {} /\ byPort # {} -> First(byPort)
                                        [] OTHER -> 1
  BY DEF FindServerId
<1> HIDE DEF byPort, byName
<1>5. byPort # {} => \A nm : FindServerId(port, nm) = First(byPort)
  BY <1>3, <1>4
<1>6. byPort = {} => \A nm : FindServerId(port, nm) = 1
  BY <1>3, <1>4
<1> QED BY <1>5, <1>6

\* Names never decide which server answers (Config::_setPorts, Router::findServerId).
THEOREM PortsDecideAlone == Spec => []PortDecides
<1>1. Init => PortsDiffer
  BY DEF Init, PortsDiffer
<1>2. ParseInv /\ PortsDiffer /\ [Next]_vars => PortsDiffer'
  BY PortsStep
<1>3. ParseInv /\ PortsDiffer => PortDecides
  BY PortsDecide DEF ParseInv
<1> QED BY <1>1, <1>2, <1>3, ConfigInvariant, PTL DEF Spec

-----------------------------------------------------------------------------
(* Roots *)

LEMMA RootInit ==
  ASSUME Init
  PROVE  RootInv
BY DEF Init, RootInv, Parsing

\* What a line without a value explains, it explains in a longer file.
LEMMA EmptyLineStays ==
  ASSUME TypeOK, NEW l \in Lines, Read(l)
  PROVE  /\ EmptyLine(lines) => EmptyLine(lines')
         /\ l.key \in {"root", "location"} /\ l.value = Empty => EmptyLine(lines')
<1> DEFINE n == Len(lines)
<1>1. /\ n \in Nat /\ DOMAIN lines = 1..n /\ DOMAIN lines' = 1..(n + 1)
      /\ lines'[n + 1] = l /\ \A i \in 1..n : lines'[i] = lines[i]
  BY AppendProperties, LenProperties DEF Read, TypeOK
<1>2. n + 1 \in 1..(n + 1) /\ \A i \in 1..n : i \in 1..(n + 1)
  BY <1>1
<1> QED BY <1>1, <1>2 DEF EmptyLine

LEMMA AllRootedStays ==
  ASSUME EmptyLine(lines) => EmptyLine(lines'), NEW s, AllRooted(lines, s)
  PROVE  AllRooted(lines', s)
BY DEF AllRooted, Rooted

LEMMA FinishedRooted ==
  ASSUME NEW s \in ServerInfos, \A l \in s.locations : Rooted(lines, l)
  PROVE  AllRooted(lines, Finished(s))
<1>1. CASE s.locations = {}
  <2>1. Finished(s).locations = {InitLocationInfo(s)} /\ Finished(s).root = s.root
    BY <1>1, FinishedFields
  <2>2. InitLocationInfo(s).id = "/" /\ ~InitLocationInfo(s).autoindex
        /\ InitLocationInfo(s).root = s.root
    BY InitLocationFields
  <2> HIDE DEF Empty
  <2>3. CASE s.root = Empty
    BY <2>1, <2>2, <2>3 DEF AllRooted
  <2>4. CASE s.root # Empty
    BY <2>1, <2>2, <2>4 DEF AllRooted, Rooted
  <2> QED BY <2>3, <2>4
<1>2. CASE s.locations # {}
  BY <1>2, FinishedFields DEF AllRooted
<1> QED BY <1>1, <1>2

LEMMA SavedRooted ==
  ASSUME TypeOK, RootInv, Parsing
  PROVE  \A k \in DOMAIN Saved : AllRooted(lines, Saved[k])
<1>1. AllRooted(lines, Finished(Current)) /\ Finished(Current) \in ServerInfos
  BY CurrentTyped, FinishedRooted, FinishedFields DEF RootInv
<1>2. Saved = Append(servers, Finished(Current))
  BY DEF Saved, Parsing
<1>3. \A k \in DOMAIN servers : AllRooted(lines, servers[k])
  BY DEF RootInv
<1>4. /\ Len(servers) \in Nat /\ DOMAIN servers = 1..Len(servers)
      /\ DOMAIN Saved = 1..(Len(servers) + 1)
      /\ \A k \in 1..Len(servers) : Saved[k] = servers[k]
      /\ Saved[Len(servers) + 1] = Finished(Current)
  BY <1>1, <1>2, AppendProperties, LenProperties DEF TypeOK
<1>5. \A k \in 1..(Len(servers) + 1) : k \in 1..Len(servers) \/ k = Len(servers) + 1
  BY <1>4
<1> QED BY <1>1, <1>3, <1>4, <1>5

LEMMA RootStep ==
  ASSUME ParseInv, RootInv, [Next]_vars
  PROVE  RootInv'
<1>t. TypeOK
  BY DEF ParseInv
<1>c. Current \in ServerInfos
  BY <1>t, CurrentTyped
<1>1. ASSUME mode \notin {"done", "exit"}, NEW l \in Lines, Read(l), ParseLine(l)
      PROVE  RootInv'
  <2>1. /\ EmptyLine(lines) => EmptyLine(lines')
        /\ l.key \in {"root", "location"} /\ l.value = Empty => EmptyLine(lines')
    BY <1>t, <1>1, EmptyLineStays
  <2>2. ASSUME NEW s, AllRooted(lines, s)
        PROVE  AllRooted(lines', s)
    BY <2>1, <2>2, AllRootedStays
  <2>3. ASSUME NEW i, Rooted(lines, i)
        PROVE  Rooted(lines', i)
    BY <2>1, <2>3 DEF Rooted
  <2>4. servers' = servers => \A k \in DOMAIN servers' : AllRooted(lines', servers'[k])
    BY <2>2 DEF RootInv
  <2>5. CASE NewServer(l)
    <3>1. \A k \in DOMAIN servers' : AllRooted(lines', servers'[k])
      <4>1. CASE mode = "top"
        BY <2>4, <2>5, <4>1 DEF NewServer, Saved
      <4>2. CASE Parsing
        <5>1. servers' = Saved
          BY <2>5 DEF NewServer
        <5>2. \A k \in DOMAIN Saved : AllRooted(lines, Saved[k])
          BY <1>t, <4>2, SavedRooted
        <5> QED BY <5>1, <5>2, <2>2
      <4> QED BY <1>1, <1>t, <4>1, <4>2 DEF TypeOK, Parsing
    <3>2. Current'.locations = {}
      BY <2>5, InitServerFields DEF NewServer, Current
    <3> QED BY <3>1, <3>2 DEF RootInv
  <2>6. CASE ParseServerSetting(l)
    <3>1. Parsing /\ servers' = servers /\ Current' = ServerSetting(Current, l)
      BY <2>6 DEF ParseServerSetting, Parsing, Current
    <3>2. Current'.locations = Current.locations
      BY <2>6, <3>1, <1>c, ServerSettingFields DEF ParseServerSetting
    <3> QED BY <3>1, <3>2, <2>3, <2>4 DEF RootInv
  <2>7. CASE BeginLocation(l)
    <3> DEFINE loc == NewLocation(Current, l.value)
    <3>1. Parsing /\ servers' = servers /\ Current' = WithLocation(Current, loc) /\ l.key = "location"
      BY <2>7 DEF BeginLocation, Parsing, Current, WithLocation
    <3>2. loc \in LocationInfos /\ loc.rootId = l.value
      BY <3>1, <1>c, ConfigAssumption, NewLocationFields
    <3>3. Rooted(lines', loc)
      BY <2>1, <3>1, <3>2 DEF Rooted
    <3> HIDE DEF loc
    <3>4. Current'.locations \subseteq Current.locations \cup {loc}
      BY <1>c, <3>1, <3>2, WithLocationFields
    <3> QED BY <3>1, <3>3, <3>4, <2>3, <2>4 DEF RootInv
  <2>8. CASE ParseLocationSetting(l)
    <3> DEFINE set == LocationSetting(location, l)
    <3>1. /\ Parsing /\ servers' = servers
          /\ Current = WithLocation(server, location) /\ Current' = WithLocation(server, set)
          /\ l.key \in {"root", "size", "page", "autoindex"}
      BY <2>8 DEF ParseLocationSetting, InLocation, Parsing, Current, WithLocation
    <3>2. server \in ServerInfos /\ location \in LocationInfos
      BY <1>t DEF TypeOK
    <3>3. set \in LocationInfos /\ set.id = location.id
      <4>1. SixFields(location)
        BY <3>2, LocationSix
      <4>2. set \in LocationInfos
        BY <3>1, <3>2, LocationSettingTyped
      <4>3. set.id = location.id
        BY <3>1, <4>1, LocationSettingId
      <4> QED BY <4>2, <4>3
    <3>4. /\ set.root = IF l.key = "root" THEN l.value ELSE location.root
          /\ set.rootId = IF l.key = "root" THEN Empty ELSE location.rootId
      <4>1. SixFields(location)
        BY <3>2, LocationSix
      <4> QED BY <3>1, <4>1, LocationSettingRoot
    <3>5. /\ Current.locations = {k \in server.locations : k.id # location.id} \cup {location}
      BY <3>1, <3>2, WithLocationFields
    <3>6. Rooted(lines, location)
      BY <3>1, <3>5 DEF RootInv
    <3> HIDE DEF set
    <3>7. Current'.locations = {k \in server.locations : k.id # set.id} \cup {set}
      BY <3>1, <3>2, <3>3, WithLocationFields
    <3>8. Rooted(lines', set)
      <4>1. CASE l.key = "root"
        BY <2>1, <3>4, <4>1 DEF Rooted
      <4>2. CASE l.key # "root"
        BY <2>1, <3>4, <3>6, <4>2 DEF Rooted
      <4> QED BY <4>1, <4>2
    <3>9. Current'.locations \subseteq Current.locations \cup {set}
      BY <3>3, <3>5, <3>7
    <3> QED BY <3>1, <3>8, <3>9, <2>3, <2>4 DEF RootInv
  <2>9. CASE Error(l)
    <3>1. mode' = "exit" /\ servers' = servers
      BY <2>9 DEF Error
    <3> QED BY <3>1, <2>4 DEF RootInv, Parsing
  <2> QED BY <1>1, <2>5, <2>6, <2>7, <2>8, <2>9 DEF ParseLine
<1>2. CASE EndOfFile
  <2>1. lines' = lines /\ ~Parsing'
    BY <1>2 DEF EndOfFile, Parsing
  <2>2. ASSUME NEW s, AllRooted(lines, s)
        PROVE  AllRooted(lines', s)
    BY <2>1, <2>2
  <2>3. \A k \in DOMAIN servers' : AllRooted(lines, servers'[k])
    <3>1. CASE mode = "top"
      <4>1. servers' = <<Finished(InitServerInfo)>>
        BY <1>2, <3>1 DEF EndOfFile
      <4>2. AllRooted(lines, Finished(InitServerInfo))
        BY InitServerFields, FinishedRooted
      <4>3. DOMAIN servers' = {1} /\ servers'[1] = Finished(InitServerInfo)
        BY <4>1
      <4> QED BY <4>2, <4>3
    <3>2. CASE Parsing
      BY <1>2, <1>t, <3>2, SavedRooted DEF EndOfFile, Parsing
    <3> QED BY <1>2, <3>1, <3>2 DEF EndOfFile, Parsing
  <2> QED BY <2>1, <2>2, <2>3 DEF RootInv
<1>3. CASE UNCHANGED vars
  <2>1. /\ mode' = mode /\ lines' = lines /\ server' = server
        /\ location' = location /\ servers' = servers
    BY <1>3 DEF vars
  <2>2. Current' = Current /\ (Parsing' <=> Parsing)
    BY <2>1 DEF Current, Parsing
  <2> QED BY <2>1, <2>2 DEF RootInv, Rooted, AllRooted
<1> QED BY <1>1, <1>2, <1>3 DEF Next

\* A location that has no root is the default one of a server without any, or the
\* file has a line without a value (Config::_init_locationInfo, _parseLocation).
THEOREM RootsHaveTheirCauses == Spec => []EmptyRootCauses
<1>1. Init => RootInv
  BY RootInit
<1>2. ParseInv /\ RootInv /\ [Next]_vars => RootInv'
  BY RootStep
<1>3. RootInv => EmptyRootCauses
  BY DEF RootInv, AllRooted, Rooted, EmptyLine, EmptyRootCauses
<1> QED BY <1>1, <1>2, <1>3, ConfigInvariant, PTL DEF Spec
=============================================================================
