--------------------------- MODULE TransferProofs ---------------------------
(***************************************************************************)
(* What Transfer promises, for every size of headers, buffers and bodies.  *)
(***************************************************************************)
EXTENDS Transfer, TLAPS

\* parseRequest reads as many whole buffers as the header needs.
LEMMA ReadsEnough ==
  ASSUME NEW h \in Nat \ {0}
  PROVE  Reads(h) \in Nat /\ h =< Reads(h) * Buffer /\ Reads(h) * Buffer \in Nat
<1>1. Buffer \in Nat \ {0}
  BY SizeAssumption
<1> DEFINE n == h + Buffer - 1
           k == n \div Buffer
<1>2. n \in Nat
  BY <1>1
<1>3. k \in Nat /\ n = Buffer * k + (n % Buffer) /\ n % Buffer \in 0..(Buffer - 1)
  BY <1>1, <1>2
<1>4. Buffer * k \in Nat /\ k * Buffer = Buffer * k
  BY <1>1, <1>3
<1>5. h =< Buffer * k
  BY <1>1, <1>3, <1>4
<1> QED
  BY <1>3, <1>4, <1>5 DEF Reads

LEMMA CarriedIs ==
  ASSUME NEW h \in CgiHeaders, NEW b \in Nat
  PROVE  Carried(h, b) \in 0..b
<1>1. h \in Nat \ {0}
  BY SizeAssumption
<1> DEFINE r == Reads(h) * Buffer
<1>2. r \in Nat /\ h =< r
  BY <1>1, ReadsEnough
<1> HIDE DEF r
<1>3. Least(h + b, r) - h \in 0..b
  BY <1>1, <1>2 DEF Least
<1> QED
  BY <1>3 DEF Carried, r

LEMMA SizesAreNatural == \A n \in Int : AsInt(n) \in Int /\ AsSize(AsInt(n)) \in Nat
<1> SUFFICES ASSUME NEW n \in Int PROVE AsInt(n) \in Int /\ AsSize(AsInt(n)) \in Nat
  OBVIOUS
<1> DEFINE w == 2 * (IntMax + 1)
           m == n + IntMax + 1
<1>1. IntMax \in Nat /\ SizeSpan \in Nat /\ SizeSpan > w /\ w \in Nat \ {0} /\ m \in Int
  BY SizeAssumption
<1>2. m % w \in 0..(w - 1)
  BY <1>1
<1>3. AsInt(n) \in Int /\ AsInt(n) >= -(IntMax + 1)
  BY <1>1, <1>2 DEF AsInt
<1> QED
  BY <1>1, <1>3 DEF AsSize

-----------------------------------------------------------------------------
(* The inductive invariant *)

\* How much of the body was in memory before anything was downloaded.
Extra == IF resp.kind = "listing" THEN resp.length ELSE resp.carried

\* What the making of the response fixed.
Fixed ==
  /\ resp.kind = "none" <=> waits = "request"
  /\ resp.goal = IF resp.kind = "none" THEN 0 ELSE Header + resp.announced
  /\ resp.head => resp.announced = 0 \/ resp.kind = "listing"
  /\ resp.kind # "listing" => resp.content = resp.announced
  /\ resp.kind # "cgi" => resp.announced = resp.length /\ resp.carried = 0
  /\ resp.carried =< resp.length
  /\ resp.kind \in {"memory", "listing"} => resp.content = 0

\* The memory holds the header, what was there at first, and what was downloaded.
Accounted ==
  /\ file.start =< file.pos
  /\ resp.kind # "none" => Len(mem) = Header + Extra + downloaded

\* The phases: everything is in memory before the first byte is sent.
Phased ==
  /\ waits = "request" => sent = 0 /\ downloaded = 0 /\ ~touched /\ state = "HTTP_DOWNLOADING_INIT"
  /\ waits = "file" => state = "HTTP_DOWNLOADING_INIT" /\ sent = 0 /\ resp.kind # "listing"
  /\ waits = "client" => \/ state = "HTTP_SENDING_STORAGE"
                         \/ state = "HTTP_DOWNLOADING_INIT" /\ sent = 0 /\ resp.kind = "old"
  /\ waits = "over" => state \in {"HTTP_SENDING_DONE", "HTTP_SENDING_CONNECTION_CLOSED"}
  /\ state \in {"HTTP_SENDING_STORAGE", "HTTP_SENDING_DONE"} => downloaded = resp.content
  /\ sent > 0 => downloaded = resp.content
  /\ sent =< resp.goal /\ (state = "HTTP_SENDING_DONE" => sent = resp.goal)

\* Nobody has written to the file: the position says how much was downloaded, and
\* every byte is in its place.
Placed ==
  ~touched =>
    /\ waits = "file" =>
         /\ file.pos - file.start = downloaded /\ file.pos =< file.size
         /\ resp.kind # "old" => file.size - file.start = resp.length
         /\ downloaded # resp.content \/ (resp.kind = "page" /\ resp.content = 0)
    /\ \A i \in 1..Len(mem) :
         mem[i] = IF i =< Header THEN 0
                  ELSE IF i =< Header + Extra THEN i - Header ELSE i - Header - Extra

TInv == TypeOK /\ Fixed /\ Accounted /\ Phased /\ Placed

LEMMA InsertIs ==
  ASSUME NEW m \in Seq(Nat), NEW from \in Int, NEW n \in Nat,
         n > 0 => from \in Nat
  PROVE  /\ Insert(m, from, n) \in Seq(Nat) /\ Len(Insert(m, from, n)) = Len(m) + n
         /\ \A i \in 1..Len(m) : Insert(m, from, n)[i] = m[i]
         /\ \A i \in (Len(m) + 1)..(Len(m) + n) : Insert(m, from, n)[i] = from + (i - Len(m))
<1> DEFINE f == Insert(m, from, n)
<1>1. Len(m) \in Nat /\ \A i \in 1..Len(m) : m[i] \in Nat
  OBVIOUS
<1>2. f = [i \in 1..(Len(m) + n) |-> IF i =< Len(m) THEN m[i] ELSE from + (i - Len(m))]
  BY DEF Insert
<1>3. \A i \in 1..(Len(m) + n) : f[i] \in Nat
  BY <1>1, <1>2
<1>4. f \in Seq(Nat) /\ Len(f) = Len(m) + n
  BY <1>1, <1>2, <1>3
<1> QED
  BY <1>1, <1>2, <1>4

LEMMA StoredIs ==
  ASSUME NEW n \in Nat
  PROVE  /\ Stored(n) \in Seq(Nat) /\ Len(Stored(n)) = Header + n
         /\ \A i \in 1..(Header + n) : Stored(n)[i] = IF i =< Header THEN 0 ELSE i - Header
<1>0. Header \in Nat /\ 0 \in Int
  BY SizeAssumption
<1>1. HeaderBytes \in Seq(Nat) /\ Len(HeaderBytes) = Header
      /\ \A i \in 1..Header : HeaderBytes[i] = 0
  BY <1>0 DEF HeaderBytes
<1> DEFINE f == Insert(HeaderBytes, 0, n)
<1>2. /\ f \in Seq(Nat) /\ Len(f) = Header + n
      /\ \A i \in 1..Header : f[i] = 0
      /\ \A i \in (Header + 1)..(Header + n) : f[i] = 0 + (i - Header)
  <2> DEFINE m == HeaderBytes
  <2> HIDE DEF f, m
  <2>1. m \in Seq(Nat) /\ Len(m) = Header /\ \A i \in 1..Header : m[i] = 0
    BY <1>1 DEF m
  <2>2. /\ Insert(m, 0, n) \in Seq(Nat) /\ Len(Insert(m, 0, n)) = Len(m) + n
        /\ \A i \in 1..Len(m) : Insert(m, 0, n)[i] = m[i]
        /\ \A i \in (Len(m) + 1)..(Len(m) + n) : Insert(m, 0, n)[i] = 0 + (i - Len(m))
    BY <1>0, <2>1, InsertIs
  <2> QED
    BY <2>1, <2>2 DEF f, m
<1>3. Stored(n) = f
  BY DEF Stored
<1> HIDE DEF f
<1>4. ASSUME NEW i \in 1..(Header + n)
      PROVE  f[i] = IF i =< Header THEN 0 ELSE i - Header
  <2>1. CASE i =< Header
    BY <1>0, <1>2, <2>1
  <2>2. CASE ~(i =< Header)
    <3>1. i \in (Header + 1)..(Header + n)
      BY <1>0, <2>2
    <3> QED
      BY <1>0, <1>2, <2>2, <3>1
  <2> QED
    BY <2>1, <2>2
<1> QED
  BY <1>2, <1>3, <1>4

LEMMA InitOK == Init => TInv
<1> SUFFICES ASSUME Init PROVE TInv
  OBVIOUS
<1>1. mem = << >> /\ Len(mem) = 0 /\ mem \in Seq(Nat)
  BY DEF Init
<1>2. /\ resp.kind = "none" /\ resp.head = FALSE /\ resp.announced = 0 /\ resp.content = 0
      /\ resp.goal = 0 /\ resp.carried = 0 /\ resp.length = 0
  BY DEF Init, Answer
<1>3. TypeOK
  BY <1>1 DEF Init, TypeOK, Answer, Kinds, NoFile, File
<1>4. Fixed /\ Accounted /\ Phased
  BY <1>2 DEF Init, Fixed, Accounted, Phased, NoFile, File
<1>5. Placed
  BY <1>1, <1>2 DEF Init, Placed
<1> QED
  BY <1>3, <1>4, <1>5 DEF TInv

\* A response with n bytes of its body in memory.
LEMMA MakeOK ==
  ASSUME TInv, NEW r, NEW s, NEW w, NEW f, NEW n \in Nat, Make(r, s, w, f, Stored(n)),
         r \in [kind : Kinds \ {"none"}, head : BOOLEAN, announced : Nat, content : Nat,
                goal : Nat, carried : Nat, length : Nat],
         r.goal = Header + r.announced,
         r.head => r.announced = 0 \/ r.kind = "listing",
         r.kind # "listing" => r.content = r.announced,
         r.kind # "cgi" => r.announced = r.length /\ r.carried = 0,
         r.carried =< r.length,
         r.kind \in {"memory", "listing"} => r.content = 0,
         n = IF r.kind = "listing" THEN r.length ELSE r.carried,
         f \in [start : Nat, pos : Nat, size : Nat], f.start =< f.pos,
         \/ w = "file" /\ s = "HTTP_DOWNLOADING_INIT" /\ f.pos = f.start /\ f.start =< f.size
              /\ (r.kind # "old" => f.size - f.start = r.length)
              /\ (r.content # 0 \/ r.kind = "page")
         \/ w = "client" /\ s = "HTTP_SENDING_STORAGE" /\ r.content = 0
         \/ w = "client" /\ s = "HTTP_DOWNLOADING_INIT" /\ r.kind = "old"
  PROVE  TInv'
<1>1. /\ resp' = r /\ state' = s /\ waits' = w /\ file' = f /\ mem' = Stored(n)
      /\ UNCHANGED <<downloaded, sent, touched>> /\ waits = "request"
  BY DEF Make
<1>2. Header \in Nat /\ sent = 0 /\ downloaded = 0 /\ touched = FALSE
  BY <1>1, SizeAssumption DEF TInv, TypeOK, Phased
<1>3. TypeOK'
  BY <1>1, <1>2, StoredIs DEF TInv, TypeOK
<1>4. Fixed'
  BY <1>1 DEF Fixed
<1>5. Extra' = n
  BY <1>1 DEF Extra
<1>9. /\ Len(mem') = Header + n
      /\ \A i \in 1..Len(mem') : mem'[i] = IF i =< Header THEN 0 ELSE i - Header
  BY <1>1, StoredIs
<1>6. Accounted'
  BY <1>1, <1>2, <1>5, <1>9 DEF Accounted
<1>7. Phased'
  BY <1>1, <1>2 DEF Phased
<1>8. Placed'
  <2>1. waits' = "file" =>
          /\ file'.pos - file'.start = downloaded' /\ file'.pos =< file'.size
          /\ resp'.kind # "old" => file'.size - file'.start = resp'.length
          /\ downloaded' # resp'.content \/ (resp'.kind = "page" /\ resp'.content = 0)
    BY <1>1, <1>2
  <2>2. \A i \in 1..Len(mem') :
          mem'[i] = IF i =< Header THEN 0
                    ELSE IF i =< Header + n THEN i - Header ELSE i - Header - n
    BY <1>2, <1>9
  <2> QED
    BY <1>5, <2>1, <2>2 DEF Placed
<1> QED
  BY <1>3, <1>4, <1>6, <1>7, <1>8 DEF TInv

LEMMA FileIs ==
  ASSUME NEW a \in Nat, NEW b \in Nat
  PROVE  LET f == File(a, b) IN
         /\ f \in [start : Nat, pos : Nat, size : Nat]
         /\ f.start = a /\ f.pos = a /\ f.size = b
BY DEF File

LEMMA GoalIs == \A n \in Nat : GoalSize(n) \in Nat /\ GoalSize(n) = Header + n
BY SizeAssumption DEF GoalSize

LEMMA FilesOK ==
  ASSUME TInv, NEW n \in 0..MaxBody, GetFile(n) \/ ErrorPage(n)
  PROVE  TInv'
<1>1. n \in Nat /\ 0 \in Nat /\ {"file", "page"} \subseteq Kinds \ {"none"}
  BY SizeAssumption DEF Kinds
<1>2. CASE GetFile(n) /\ n = 0
  <2> DEFINE r == Answer("file", 0, 0, GoalSize(0), 0, 0)
  <2>1. Make(r, "HTTP_SENDING_STORAGE", "client", NoFile, Stored(0))
    BY <1>2 DEF GetFile
  <2>2. r \in [kind : Kinds \ {"none"}, head : BOOLEAN, announced : Nat, content : Nat,
               goal : Nat, carried : Nat, length : Nat]
        /\ r.kind = "file" /\ r.head = FALSE /\ r.announced = 0 /\ r.content = 0
        /\ r.goal = Header + 0 /\ r.carried = 0 /\ r.length = 0
    <3>1. "file" \in Kinds \ {"none"} /\ GoalSize(0) \in Nat /\ GoalSize(0) = Header + 0
      BY <1>1, GoalIs
    <3> QED
      BY <1>1, <3>1 DEF Answer
  <2>3. NoFile \in [start : Nat, pos : Nat, size : Nat] /\ NoFile.start =< NoFile.pos
    BY <1>1, FileIs DEF NoFile
  <2> HIDE DEF r
  <2> QED
    BY <1>1, <2>1, <2>2, <2>3, MakeOK
<1>3. ASSUME NEW k \in {"file", "page"}, n # 0 \/ k = "page",
             Make(Answer(k, n, n, GoalSize(n), 0, n), "HTTP_DOWNLOADING_INIT", "file", File(0, n), Stored(0))
      PROVE  TInv'
  <2> DEFINE r == Answer(k, n, n, GoalSize(n), 0, n)
             f == File(0, n)
  <2>1. Make(r, "HTTP_DOWNLOADING_INIT", "file", f, Stored(0))
    BY <1>3
  <2>2. r \in [kind : Kinds \ {"none"}, head : BOOLEAN, announced : Nat, content : Nat,
               goal : Nat, carried : Nat, length : Nat]
        /\ r.kind = k /\ r.head = FALSE /\ r.announced = n /\ r.content = n
        /\ r.goal = Header + n /\ r.carried = 0 /\ r.length = n
    <3>1. k \in Kinds \ {"none"} /\ GoalSize(n) \in Nat /\ GoalSize(n) = Header + n
      BY <1>1, GoalIs
    <3> QED
      BY <1>1, <3>1 DEF Answer
  <2>3. f \in [start : Nat, pos : Nat, size : Nat] /\ f.start = 0 /\ f.pos = 0 /\ f.size = n
    BY <1>1, FileIs
  <2> HIDE DEF r, f
  <2> QED
    BY <1>1, <1>3, <2>1, <2>2, <2>3, MakeOK
<1>4. CASE GetFile(n) /\ n # 0
  BY <1>3, <1>4 DEF GetFile
<1>5. CASE ErrorPage(n)
  BY <1>3, <1>5 DEF ErrorPage
<1> QED
  BY <1>2, <1>4, <1>5

LEMMA MemoryOK ==
  ASSUME TInv, HeaderOnly \/ \E n \in 1..MaxBody : Listing(n)
  PROVE  TInv'
<1>1. 0 \in Nat /\ {"memory", "listing"} \subseteq Kinds \ {"none"} /\ MaxBody \in Nat
  BY SizeAssumption DEF Kinds
<1>2. ASSUME NEW k \in {"memory", "listing"}, NEW n \in Nat, k = "memory" => n = 0, NEW head \in BOOLEAN,
             Make([Answer(k, n, 0, GoalSize(n), 0, n) EXCEPT !.head = head],
                  "HTTP_SENDING_STORAGE", "client", NoFile, Stored(n))
      PROVE  TInv'
  <2> DEFINE q == Answer(k, n, 0, GoalSize(n), 0, n)
             r == [q EXCEPT !.head = head]
  <2>1. Make(r, "HTTP_SENDING_STORAGE", "client", NoFile, Stored(n))
    BY <1>2
  <2>2. q \in [kind : Kinds \ {"none"}, head : BOOLEAN, announced : Nat, content : Nat,
               goal : Nat, carried : Nat, length : Nat]
        /\ q.kind = k /\ q.head = FALSE /\ q.announced = n /\ q.content = 0
        /\ q.goal = Header + n /\ q.carried = 0 /\ q.length = n
    <3>1. k \in Kinds \ {"none"} /\ GoalSize(n) \in Nat /\ GoalSize(n) = Header + n
      BY <1>1, GoalIs
    <3> QED
      BY <1>1, <3>1 DEF Answer
  <2> HIDE DEF q
  <2>3. r \in [kind : Kinds \ {"none"}, head : BOOLEAN, announced : Nat, content : Nat,
               goal : Nat, carried : Nat, length : Nat]
        /\ r.kind = k /\ r.head = head /\ r.announced = n /\ r.content = 0
        /\ r.goal = Header + n /\ r.carried = 0 /\ r.length = n
    BY <2>2
  <2>4. NoFile \in [start : Nat, pos : Nat, size : Nat] /\ NoFile.start =< NoFile.pos
    BY <1>1, FileIs DEF NoFile
  <2> HIDE DEF r
  <2> QED
    BY <1>1, <1>2, <2>1, <2>3, <2>4, MakeOK
<1>3. CASE HeaderOnly
  BY <1>1, <1>2, <1>3 DEF HeaderOnly
<1>4. CASE \E n \in 1..MaxBody : Listing(n)
  BY <1>1, <1>2, <1>4 DEF Listing
<1> QED
  BY <1>3, <1>4

LEMMA CgiOK ==
  ASSUME TInv, NEW h \in CgiHeaders, NEW b \in 0..MaxBody,
         CgiAnswer(h, b) \/ \E p \in 1..MaxBody : OldCgi(h, b, p)
  PROVE  TInv'
<1>1. /\ h \in Nat /\ b \in Nat /\ 0 \in Nat /\ {"cgi", "old"} \subseteq Kinds \ {"none"}
      /\ MaxBody \in Nat
  BY SizeAssumption DEF Kinds
<1>2. BodySize(h, b) \in Nat
  <2>1. h + b \in Int
    BY <1>1
  <2>2. AsInt(h + b) \in Int
    BY <2>1, SizesAreNatural
  <2>3. AsInt(h + b) - h \in Int
    BY <1>1, <2>2
  <2> QED
    BY <2>3, SizesAreNatural DEF BodySize
<1>3. Carried(h, b) \in Nat /\ Carried(h, b) =< b
  BY <1>1, CarriedIs
<1> DEFINE f == File(h, h + b)
<1>4. f \in [start : Nat, pos : Nat, size : Nat] /\ f.start = h /\ f.pos = h /\ f.size = h + b
  BY <1>1, FileIs
<1>5. NoFile \in [start : Nat, pos : Nat, size : Nat] /\ NoFile.start =< NoFile.pos
  BY <1>1, FileIs DEF NoFile
<1>6. CASE CgiAnswer(h, b)
  <2> DEFINE n == BodySize(h, b)
             r == Answer("cgi", n, n, GoalSize(n), Carried(h, b), b)
  <2>1. IF n = 0
        THEN Make(r, "HTTP_SENDING_STORAGE", "client", NoFile, Stored(Carried(h, b)))
        ELSE Make(r, "HTTP_DOWNLOADING_INIT", "file", f, Stored(Carried(h, b)))
    BY <1>6 DEF CgiAnswer, Output
  <2>2. r \in [kind : Kinds \ {"none"}, head : BOOLEAN, announced : Nat, content : Nat,
               goal : Nat, carried : Nat, length : Nat]
        /\ r.kind = "cgi" /\ r.head = FALSE /\ r.announced = n /\ r.content = n
        /\ r.goal = Header + n /\ r.carried = Carried(h, b) /\ r.length = b
    <3> HIDE DEF n
    <3>1. "cgi" \in Kinds \ {"none"} /\ n \in Nat /\ GoalSize(n) \in Nat /\ GoalSize(n) = Header + n
      BY <1>1, <1>2, GoalIs DEF n
    <3> QED
      BY <1>1, <1>3, <3>1 DEF Answer
  <2>3. f.size - f.start = b /\ f.start =< f.size /\ f.start =< f.pos
    BY <1>1, <1>4
  <2> HIDE DEF r, n, f
  <2>4. CASE n = 0
    BY <1>3, <1>5, <2>1, <2>2, <2>4, MakeOK
  <2>5. CASE n # 0
    BY <1>1, <1>3, <1>4, <2>1, <2>2, <2>3, <2>5, MakeOK
  <2> QED
    BY <2>4, <2>5
<1>7. ASSUME NEW p \in 1..MaxBody, OldCgi(h, b, p)
      PROVE  TInv'
  <2> DEFINE r == Answer("old", p, p, GoalSize(p), 0, p)
             w == IF BodySize(h, b) = 0 THEN "client" ELSE "file"
  <2>1. Make(r, "HTTP_DOWNLOADING_INIT", w, f, Stored(0))
    BY <1>7 DEF OldCgi, Output
  <2>2. r \in [kind : Kinds \ {"none"}, head : BOOLEAN, announced : Nat, content : Nat,
               goal : Nat, carried : Nat, length : Nat]
        /\ r.kind = "old" /\ r.head = FALSE /\ r.announced = p /\ r.content = p
        /\ r.goal = Header + p /\ r.carried = 0 /\ r.length = p
    <3>1. "old" \in Kinds \ {"none"} /\ p \in Nat /\ GoalSize(p) \in Nat /\ GoalSize(p) = Header + p
      BY <1>1, GoalIs
    <3> QED
      BY <1>1, <3>1 DEF Answer
  <2>3. f.start =< f.size /\ f.start =< f.pos /\ p # 0 /\ p \in Nat
    BY <1>1, <1>4
  <2>4. w \in {"client", "file"}
    OBVIOUS
  <2> HIDE DEF r, w, f
  <2> QED
    BY <1>1, <1>4, <2>1, <2>2, <2>3, <2>4, MakeOK
<1> QED
  BY <1>6, <1>7

LEMMA TypesGive ==
  ASSUME TInv
  PROVE  /\ TypeOK /\ Header \in Nat \ {0} /\ Buffer \in Nat \ {0} /\ MaxBody \in Nat
         /\ resp.announced \in Nat /\ resp.content \in Nat /\ resp.goal \in Nat
         /\ resp.carried \in Nat /\ resp.length \in Nat /\ resp.kind \in Kinds
         /\ file.start \in Nat /\ file.pos \in Nat /\ file.size \in Nat
         /\ mem \in Seq(Nat) /\ Len(mem) \in Nat /\ downloaded \in Nat /\ sent \in Nat
         /\ Extra \in Nat
<1>1. /\ TypeOK /\ mem \in Seq(Nat) /\ downloaded \in Nat /\ sent \in Nat
      /\ resp \in [kind : Kinds, head : BOOLEAN, announced : Nat, content : Nat,
                   goal : Nat, carried : Nat, length : Nat]
      /\ file \in [start : Nat, pos : Nat, size : Nat]
  BY DEF TInv, TypeOK
<1> QED
  BY <1>1, SizeAssumption DEF Extra

LEMMA DownloadOK ==
  ASSUME TInv, Download
  PROVE  TInv'
<1> DEFINE n == Least(Buffer, file.size - file.pos)
           from == file.pos - file.start
           m == Insert(mem, from, n)
<1>1. /\ waits = "file" /\ file.pos < file.size /\ state = "HTTP_DOWNLOADING_INIT"
      /\ file' = [file EXCEPT !.pos = @ + n] /\ mem' = m /\ downloaded' = downloaded + n
      /\ UNCHANGED <<resp, sent, touched>>
      /\ IF downloaded + n = resp.content
         THEN state' = "HTTP_SENDING_STORAGE" /\ waits' = "client"
         ELSE UNCHANGED <<state, waits>>
  BY DEF Download, Readable, Downloaded
<1>0. /\ Header \in Nat /\ Buffer \in Nat \ {0} /\ Extra \in Nat
      /\ file.start \in Nat /\ file.pos \in Nat /\ file.size \in Nat
      /\ mem \in Seq(Nat) /\ Len(mem) \in Nat /\ downloaded \in Nat /\ sent \in Nat
      /\ resp.content \in Nat /\ resp.goal \in Nat /\ resp.length \in Nat
  BY TypesGive
<1> HIDE DEF n, from, m
<1>2. resp.kind # "none" /\ sent = 0 /\ file.start =< file.pos
  BY <1>1 DEF TInv, Fixed, Phased, Accounted
<1>3. n \in Nat /\ n > 0 /\ n =< file.size - file.pos /\ from \in Nat
  <2>1. n \in Nat /\ n > 0 /\ n =< file.size - file.pos
    <3> DEFINE left == file.size - file.pos
    <3>1. left \in Nat /\ left > 0
      BY <1>0, <1>1
    <3> HIDE DEF left
    <3>2. Least(Buffer, left) \in Nat /\ Least(Buffer, left) > 0 /\ Least(Buffer, left) =< left
      BY <1>0, <3>1 DEF Least
    <3> QED
      BY <3>2 DEF n, left
  <2> QED
    BY <1>0, <1>2, <2>1 DEF from
<1>4. /\ m \in Seq(Nat) /\ Len(m) = Len(mem) + n
      /\ \A i \in 1..Len(mem) : m[i] = mem[i]
      /\ \A i \in (Len(mem) + 1)..(Len(mem) + n) : m[i] = from + (i - Len(mem))
  <2>1. mem \in Seq(Nat) /\ from \in Int /\ n \in Nat /\ from \in Nat
    BY <1>0, <1>3
  <2>2. /\ Insert(mem, from, n) \in Seq(Nat) /\ Len(Insert(mem, from, n)) = Len(mem) + n
        /\ \A i \in 1..Len(mem) : Insert(mem, from, n)[i] = mem[i]
        /\ \A i \in (Len(mem) + 1)..(Len(mem) + n) : Insert(mem, from, n)[i] = from + (i - Len(mem))
    BY <2>1, InsertIs
  <2> QED
    BY <2>2 DEF m
<1>5. file' \in [start : Nat, pos : Nat, size : Nat]
      /\ file'.start = file.start /\ file'.pos = file.pos + n /\ file'.size = file.size
  <2>1. file \in [start : Nat, pos : Nat, size : Nat] /\ file.pos + n \in Nat
    BY <1>0, <1>3 DEF TInv, TypeOK
  <2>2. file' = [file EXCEPT !.pos = file.pos + n]
    BY <1>1
  <2> QED
    BY <2>1, <2>2
<1>6. TypeOK'
  <2>1. downloaded' \in Nat /\ mem' \in Seq(Nat)
    BY <1>0, <1>1, <1>3, <1>4
  <2>2. state' \in {"HTTP_DOWNLOADING_INIT", "HTTP_SENDING_STORAGE"} /\ waits' \in {"file", "client"}
    BY <1>1
  <2> QED
    BY <1>1, <1>5, <2>1, <2>2 DEF TInv, TypeOK
<1>7. Fixed'
  BY <1>1 DEF TInv, Fixed
<1>8. Len(mem) = Header + Extra + downloaded /\ Extra' = Extra
  BY <1>1, <1>2 DEF TInv, Accounted, Extra
<1>9. Accounted'
  <2>1. Len(mem') = Len(mem) + n /\ downloaded' = downloaded + n
    BY <1>1, <1>4
  <2>2. Len(mem') = Header + Extra' + downloaded'
    BY <1>0, <1>3, <1>8, <2>1
  <2>3. file'.start =< file'.pos
    <3>1. file.start =< file.pos + n
      BY <1>0, <1>2, <1>3
    <3> QED
      BY <1>5, <3>1
  <2> QED
    BY <2>2, <2>3 DEF Accounted
<1>10. Phased'
  <2>1. sent' = 0 /\ 0 =< resp'.goal /\ resp'.kind # "listing"
    BY <1>0, <1>1, <1>2 DEF TInv, Phased
  <2>2. CASE downloaded + n = resp.content
    BY <1>1, <2>1, <2>2 DEF Phased
  <2>3. CASE downloaded + n # resp.content
    BY <1>1, <2>1, <2>3 DEF Phased
  <2> QED
    BY <2>2, <2>3
<1>11. Placed'
  <2> SUFFICES ASSUME ~touched
               PROVE  /\ waits' = "file" =>
                           /\ file'.pos - file'.start = downloaded' /\ file'.pos =< file'.size
                           /\ resp'.kind # "old" => file'.size - file'.start = resp'.length
                           /\ downloaded' # resp'.content \/ (resp'.kind = "page" /\ resp'.content = 0)
                      /\ \A i \in 1..Len(mem') :
                           mem'[i] = IF i =< Header THEN 0
                                     ELSE IF i =< Header + Extra THEN i - Header ELSE i - Header - Extra
    BY <1>1, <1>8 DEF Placed
  <2>1. /\ file.pos - file.start = downloaded
        /\ resp.kind # "old" => file.size - file.start = resp.length
        /\ \A i \in 1..Len(mem) :
             mem[i] = IF i =< Header THEN 0
                      ELSE IF i =< Header + Extra THEN i - Header ELSE i - Header - Extra
    BY <1>1 DEF TInv, Placed
  <2>2. /\ file'.pos - file'.start = downloaded' /\ file'.pos =< file'.size
        /\ resp'.kind # "old" => file'.size - file'.start = resp'.length
    <3>1. file'.size = file.size /\ file'.start = file.start /\ file'.pos = file.pos + n
          /\ resp' = resp /\ downloaded' = downloaded + n
      BY <1>1, <1>5
    <3>2. file.pos - file.start = downloaded
      BY <2>1
    <3>3. (file.pos + n) - file.start = downloaded + n /\ file.pos + n =< file.size
      <4> DEFINE a == file.pos
                 b == file.start
                 c == file.size
      <4>1. /\ a \in Nat /\ b \in Nat /\ c \in Nat /\ downloaded \in Nat
            /\ n \in Nat /\ n =< c - a /\ a - b = downloaded
        BY <1>0, <1>3, <3>2
      <4> HIDE DEF a, b, c
      <4>2. (a + n) - b = downloaded + n /\ a + n =< c
        BY <4>1
      <4> QED
        BY <4>2 DEF a, b, c
    <3>4. file'.pos - file'.start = downloaded'
      BY ONLY <3>1, <3>3
    <3>5. file'.pos =< file'.size
      BY ONLY <3>1, <3>3
    <3> QED
      BY <2>1, <3>1, <3>4, <3>5
  <2>3. waits' = "file" => downloaded' # resp'.content
    BY <1>1
  <2>4. ASSUME NEW i \in 1..Len(m)
        PROVE  m[i] = IF i =< Header THEN 0
                      ELSE IF i =< Header + Extra THEN i - Header ELSE i - Header - Extra
    <3>1. CASE i =< Len(mem)
      BY <1>0, <1>4, <2>1, <3>1
    <3>2. CASE i > Len(mem)
      <4>1. i \in (Len(mem) + 1)..(Len(mem) + n)
        BY <1>0, <1>3, <1>4, <3>2
      <4>2. m[i] = downloaded + (i - Len(mem))
        BY <1>4, <2>1, <4>1 DEF from
      <4>3. i \in Int /\ ~(i =< Header) /\ ~(i =< Header + Extra)
        BY <1>0, <1>8, <4>1
      <4> QED
        BY <1>0, <1>8, <4>2, <4>3
    <3> QED
      BY <1>0, <1>4, <3>1, <3>2
  <2> QED
    BY <1>1, <2>2, <2>3, <2>4
<1> QED
  BY <1>6, <1>7, <1>9, <1>10, <1>11 DEF TInv

LEMMA SendOK ==
  ASSUME TInv, Send
  PROVE  TInv'
<1>1. PICK n \in 1..Remaining :
        /\ sent' = sent + n
        /\ IF sent + n = resp.goal
           THEN state' = "HTTP_SENDING_DONE" /\ waits' = "over"
           ELSE UNCHANGED <<state, waits>>
  BY DEF Send
<1>2. /\ waits = "client" /\ state = "HTTP_SENDING_STORAGE"
      /\ UNCHANGED <<resp, file, mem, downloaded, touched>>
  BY DEF Send
<1>3. n \in Nat /\ sent + n =< resp.goal
  <2>1. resp.goal \in Nat /\ sent \in Nat /\ Len(mem) \in Nat
    BY TypesGive
  <2>2. Remaining \in Int /\ Remaining =< resp.goal - sent
    BY <2>1 DEF Remaining, Least
  <2> QED
    BY <1>1, <2>1, <2>2
<1>4. TypeOK'
  <2>1. TypeOK /\ sent \in Nat
    BY TypesGive
  <2>2. sent' \in Nat
    BY <1>1, <1>3, <2>1
  <2> QED
    BY <1>1, <1>2, <2>1, <2>2 DEF TypeOK
<1>5. waits' \in {"client", "over"} /\ state' \in {"HTTP_SENDING_STORAGE", "HTTP_SENDING_DONE"}
  BY <1>1, <1>2
<1>6. Fixed'
  BY <1>2, <1>5 DEF TInv, Fixed
<1>7. Accounted'
  BY <1>2 DEF TInv, Accounted, Extra
<1>8. downloaded = resp.content
  BY <1>2 DEF TInv, Phased
<1>9. Phased'
  BY <1>1, <1>2, <1>3, <1>5, <1>8 DEF Phased
<1>10. Placed'
  BY <1>2, <1>5 DEF TInv, Placed, Extra
<1> QED
  BY <1>4, <1>6, <1>7, <1>9, <1>10 DEF TInv

LEMMA FailOK ==
  ASSUME TInv, Fail
  PROVE  TInv'
<1>1. /\ waits \in {"file", "client"} /\ state' = "HTTP_SENDING_CONNECTION_CLOSED" /\ waits' = "over"
      /\ UNCHANGED <<resp, file, mem, downloaded, sent, touched>>
  BY DEF Fail, Readable
<1>2. TypeOK' /\ Fixed' /\ Accounted'
  BY <1>1 DEF TInv, TypeOK, Fixed, Accounted, Extra
<1>3. Phased'
  BY <1>1 DEF TInv, Phased
<1>4. Placed'
  BY <1>1 DEF TInv, Placed, Extra
<1> QED
  BY <1>2, <1>3, <1>4 DEF TInv

LEMMA TouchOK ==
  ASSUME TInv, Touch
  PROVE  TInv'
<1>1. PICK n \in 0..MaxBody : file' = [file EXCEPT !.size = n]
  BY DEF Touch
<1>2. waits = "file" /\ touched' = TRUE /\ UNCHANGED <<resp, state, waits, mem, downloaded, sent>>
  BY DEF Touch
<1>3. file' \in [start : Nat, pos : Nat, size : Nat] /\ file'.start = file.start /\ file'.pos = file.pos
  <2>1. file \in [start : Nat, pos : Nat, size : Nat] /\ n \in Nat
    BY TypesGive, SizeAssumption DEF TInv, TypeOK
  <2> QED
    BY <1>1, <2>1
<1>4. TypeOK' /\ Fixed' /\ Accounted'
  BY <1>2, <1>3 DEF TInv, TypeOK, Fixed, Accounted, Extra
<1>5. Phased' /\ Placed'
  BY <1>2 DEF TInv, Phased, Placed
<1> QED
  BY <1>4, <1>5 DEF TInv

\* TInv holds in every reachable state.
THEOREM TransferInvariant == Spec => []TInv
<1>1. TInv /\ [Next]_vars => TInv'
  <2> SUFFICES ASSUME TInv, [Next]_vars PROVE TInv'
    OBVIOUS
  <2>1. CASE UNCHANGED vars
    BY <2>1 DEF vars, TInv, TypeOK, Fixed, Accounted, Phased, Placed, Extra
  <2>2. CASE MakeResponse
    BY <2>2, FilesOK, MemoryOK, CgiOK DEF MakeResponse
  <2> QED
    BY <2>1, <2>2, DownloadOK, SendOK, FailOK, TouchOK DEF Next
<1> QED
  BY InitOK, <1>1, PTL DEF Spec

-----------------------------------------------------------------------------
(* What follows from it *)

\* HttpResponse never sends a byte before it holds all that it will send, and
\* never more than that, whatever happens to the file meanwhile.
THEOREM NeverPartial == Spec => []NothingPartial
<1>1. TInv => NothingPartial
  <2> SUFFICES ASSUME TInv, sent > 0 PROVE resp.goal =< Len(mem) /\ sent =< resp.goal
    BY DEF NothingPartial
  <2>1. sent =< resp.goal /\ downloaded = resp.content /\ resp.kind # "none"
    BY TypesGive DEF TInv, Phased, Fixed
  <2>2. resp.goal = Header + resp.announced /\ Len(mem) = Header + Extra + downloaded
    BY <2>1 DEF TInv, Fixed, Accounted
  <2>3. resp.announced =< Extra + resp.content
    BY TypesGive DEF TInv, Fixed, Extra
  <2>4. /\ resp.goal \in Nat /\ resp.announced \in Nat /\ resp.content \in Nat
        /\ Header \in Nat /\ Extra \in Nat
    BY TypesGive
  <2> QED
    BY <2>1, <2>2, <2>3, <2>4
<1> QED
  BY <1>1, TransferInvariant, PTL

\* Content-Length tells the truth about every response that is sent to its end.
THEOREM LengthIsTrue == Spec => []FramingAgrees
<1>1. TInv => FramingAgrees
  BY DEF TInv, FramingAgrees, Fixed, Phased
<1> QED
  BY <1>1, TransferInvariant, PTL

\* The bytes are the right ones, but for a CGI body that is longer than what came
\* with its header: that one is never delivered right.
THEOREM BodyIsExact == Spec => []BodyExact
<1>1. TInv => BodyExact
  <2> SUFFICES ASSUME TInv, ~touched, resp.kind # "old", ~TooLong
               PROVE  /\ ~Repeated => Exact
                      /\ Repeated /\ state = "HTTP_SENDING_DONE" => ~Exact
    BY DEF BodyExact
  <2>1. sent > 0 => sent =< Len(mem) /\ resp.kind # "none" /\ sent =< Header + resp.announced
    <3> SUFFICES ASSUME sent > 0
                 PROVE  sent =< Len(mem) /\ resp.kind # "none" /\ sent =< Header + resp.announced
      BY TypesGive
    <3>1. sent =< resp.goal /\ downloaded = resp.content /\ resp.kind # "none"
      BY TypesGive DEF TInv, Phased, Fixed
    <3>2. resp.goal = Header + resp.announced /\ Len(mem) = Header + Extra + downloaded
      BY <3>1 DEF TInv, Fixed, Accounted
    <3>3. resp.announced =< Extra + resp.content
      BY TypesGive DEF TInv, Fixed, Extra
    <3>4. /\ resp.goal \in Nat /\ resp.announced \in Nat /\ resp.content \in Nat
          /\ Header \in Nat /\ Extra \in Nat /\ sent \in Nat
      BY TypesGive
    <3> QED
      BY <3>1, <3>2, <3>3, <3>4
  <2>2. \A i \in 1..Len(mem) :
          mem[i] = IF i =< Header THEN 0
                   ELSE IF i =< Header + Extra THEN i - Header ELSE i - Header - Extra
    BY DEF TInv, Placed
  <2>3. resp.announced = resp.length
    BY DEF TInv, Fixed, TooLong
  <2>4. ASSUME ~Repeated PROVE Exact
    <3> SUFFICES ASSUME NEW i \in 1..sent PROVE mem[i] = IF i =< Header THEN 0 ELSE i - Header
      BY DEF Exact
    <3>0. /\ sent \in Nat /\ Len(mem) \in Nat /\ Header \in Nat /\ Extra \in Nat
          /\ resp.length \in Nat /\ i \in Nat /\ i =< sent /\ i >= 1
      BY TypesGive
    <3>1. i \in 1..Len(mem) /\ i =< Header + resp.length
      BY <2>1, <2>3, <3>0
    <3>2. Extra = 0 \/ Extra = resp.length
      BY <2>4 DEF TInv, Fixed, Extra, Repeated
    <3> QED
      BY <2>2, <3>0, <3>1, <3>2
  <2>5. ASSUME Repeated, state = "HTTP_SENDING_DONE" PROVE ~Exact
    <3>1. resp.kind = "cgi" /\ resp.carried \notin {0, resp.length} /\ resp.carried =< resp.length
      BY <2>5 DEF Repeated, TInv, Fixed
    <3>2. sent = Header + resp.length
      BY <2>3, <2>5, <3>1 DEF TInv, Phased, Fixed
    <3>0. /\ sent \in Nat /\ Len(mem) \in Nat /\ Header \in Nat /\ Extra \in Nat
          /\ resp.length \in Nat /\ resp.carried \in Nat
      BY TypesGive
    <3> DEFINE j == Header + resp.carried + 1
    <3>3. j \in 1..sent /\ j \in 1..Len(mem)
      <4>1. resp.carried > 0 /\ resp.carried < resp.length
        BY <3>0, <3>1
      <4> QED
        BY <2>1, <3>0, <3>2, <4>1
    <3>4. Extra = resp.carried
      BY <3>1 DEF Extra
    <3>6. resp.carried > 0 /\ j \in Nat
      BY <3>0, <3>1
    <3>7. j - Header # 1 /\ ~(j =< Header) /\ ~(j =< Header + Extra) /\ j - Header - Extra = 1
      BY <3>0, <3>4, <3>6
    <3>8. mem[j] = IF j =< Header THEN 0
                   ELSE IF j =< Header + Extra THEN j - Header ELSE j - Header - Extra
      <4> HIDE DEF j
      <4> QED
        BY <2>2, <3>3
    <3>5. mem[j] = 1 /\ j - Header # 1 /\ ~(j =< Header)
      <4> HIDE DEF j
      <4> QED
        BY <3>7, <3>8
    <3> QED
      BY <3>3, <3>5 DEF Exact
  <2> QED
    BY <2>4, <2>5
<1> QED
  BY <1>1, TransferInvariant, PTL

\* A response that nothing will ever end got there in one of the ways listed.
THEOREM StuckIsExplained == Spec => []StuckCauses
<1>1. TInv => StuckCauses
  <2> SUFFICES ASSUME TInv, Stuck, ~touched, resp.kind # "old", ~TooLong
               PROVE  resp.kind = "page" /\ resp.content = 0
    BY DEF StuckCauses
  <2>1. waits = "file" /\ file.pos >= file.size
    BY DEF Stuck, TInv, Phased
  <2>2. /\ file.pos - file.start = downloaded /\ file.pos =< file.size
        /\ file.size - file.start = resp.length
        /\ downloaded # resp.content \/ (resp.kind = "page" /\ resp.content = 0)
    BY <2>1 DEF TInv, Placed
  <2>3. resp.content = resp.length
    <3>1. resp.kind \notin {"memory", "listing", "none"} \/ resp.content = resp.length
      <4>1. resp.kind # "none"
        BY <2>1 DEF TInv, Fixed
      <4>2. resp.kind = "memory" => resp.content = resp.length
        BY DEF TInv, Fixed
      <4>3. resp.kind # "listing"
        BY <2>1 DEF TInv, Phased
      <4> QED
        BY <4>1, <4>2, <4>3
    <3> QED
      BY <3>1 DEF TInv, Fixed, TooLong
  <2>4. /\ file.pos \in Nat /\ file.size \in Nat /\ file.start \in Nat /\ downloaded \in Nat
        /\ resp.length \in Nat
    BY TypesGive
  <2>5. downloaded = resp.length
    BY <2>1, <2>2, <2>4
  <2> QED
    BY <2>2, <2>3, <2>5
<1> QED
  BY <1>1, TransferInvariant, PTL
=============================================================================
