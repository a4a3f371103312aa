-------------------------- MODULE FileManagerProofs --------------------------
(***************************************************************************)
(* Proofs about FileManager: an upload that nobody has disturbed is in its *)
(* file, the opens that fail are those of directories, and a DELETE stays  *)
(* below the path it names.                                                *)
(***************************************************************************)
EXTENDS FileManager, WellFoundedInduction, NaturalsInduction, SequenceTheorems, FiniteSetTheorems, TLAPS

\* Of an upload that nobody has disturbed, what has been written is in the file,
\* and nothing else.
Uploads ==
  \A c \in Conns : LET r == conn[c] IN
    IF r.phase \in {"uploading", "done"}
    THEN /\ r.phase = "done" => r.off = Len(r.body)
         /\ r.alone => /\ r.linked /\ Len(files[r.path]) = r.off
                       /\ \A i \in 1..r.off : files[r.path][i] = r.body[i]
    ELSE ~r.linked

FInv == TypeOK /\ Uploads

-----------------------------------------------------------------------------
(* Paths *)

LEMMA PathIs ==
  ASSUME NEW p \in Paths
  PROVE  p \in Seq(Names) /\ Len(p) \in 0..MaxDepth
<1>1. PICK n \in 0..MaxDepth : p \in [1..n -> Names]
  BY DEF Paths
<1>2. n \in Nat
  BY <1>1, FileManagerAssumption
<1>3. p \in Seq(Names)
  BY <1>1, <1>2, SeqDef
<1>4. Len(p) = n
  BY <1>1, <1>2, <1>3, LenProperties
<1> QED
  BY <1>1, <1>3, <1>4

LEMMA IsPath ==
  ASSUME NEW p \in Seq(Names), Len(p) =< MaxDepth
  PROVE  p \in Paths
<1>1. Len(p) \in Nat /\ p \in [1..Len(p) -> Names]
  BY LenProperties
<1>2. Len(p) \in 0..MaxDepth
  BY <1>1, FileManagerAssumption
<1> QED
  BY <1>1, <1>2 DEF Paths

LEMMA RootIsPath == << >> \in Paths /\ Len(<< >>) = 0
<1>1. << >> \in Seq(Names) /\ Len(<< >>) = 0
  BY EmptySeq
<1>2. 0 =< MaxDepth
  BY FileManagerAssumption
<1> QED
  BY <1>1, <1>2, IsPath

LEMMA PrefixIs ==
  ASSUME NEW p \in Paths, NEW k \in 0..Len(p)
  PROVE  /\ Prefix(p, k) \in Paths /\ Len(Prefix(p, k)) = k
         /\ \A i \in 1..k : Prefix(p, k)[i] = p[i]
<1>1. p \in Seq(Names) /\ Len(p) \in Nat /\ Len(p) =< MaxDepth /\ k \in Int
  BY PathIs, LenProperties
<1>2. \A i \in 1..k : p[i] \in Names
  BY <1>1, ElementOfSeq
<1>3. /\ SubSeq(p, 1, k) \in Seq(Names)
      /\ Len(SubSeq(p, 1, k)) = IF 1 <= k THEN k - 1 + 1 ELSE 0
      /\ \A i \in 1..(k - 1 + 1) : SubSeq(p, 1, k)[i] = p[1 + i - 1]
  BY <1>1, <1>2, SubSeqProperties
<1> DEFINE q == SubSeq(p, 1, k)
<1>4. q = Prefix(p, k)
  BY DEF Prefix
<1>5. q \in Seq(Names) /\ Len(q) = k
  BY <1>1, <1>3
<1>6. \A i \in 1..k : q[i] = p[i]
  BY <1>1, <1>3
<1>7. q \in Paths
  <2> HIDE DEF q
  <2>1. Len(q) =< MaxDepth
    BY <1>1, <1>5, FileManagerAssumption
  <2> QED
    BY <1>5, <2>1, IsPath
<1> HIDE DEF q
<1> QED
  BY <1>4, <1>5, <1>6, <1>7

\* Paths are equal if they are, step by step.
LEMMA PathsEqual ==
  ASSUME NEW p \in Paths, NEW q \in Paths, Len(p) = Len(q), \A i \in 1..Len(p) : p[i] = q[i]
  PROVE  p = q
BY PathIs, SeqEqual

LEMMA PrefixFull ==
  ASSUME NEW p \in Paths
  PROVE  Prefix(p, Len(p)) = p
BY PathIs, SubSeqFull DEF Prefix

LEMMA PrefixOfPrefix ==
  ASSUME NEW p \in Paths, NEW k \in 0..Len(p), NEW j \in 0..k
  PROVE  Prefix(Prefix(p, k), j) = Prefix(p, j)
<1> DEFINE q == Prefix(p, k)
<1>1. Len(p) \in Nat /\ j \in 0..Len(p)
  BY PathIs
<1>2. q \in Paths /\ Len(q) = k /\ \A i \in 1..k : q[i] = p[i]
  BY PrefixIs
<1> HIDE DEF q
<1>3. Prefix(q, j) \in Paths /\ Len(Prefix(q, j)) = j /\ \A i \in 1..j : Prefix(q, j)[i] = q[i]
  BY <1>2, PrefixIs
<1>4. Prefix(p, j) \in Paths /\ Len(Prefix(p, j)) = j /\ \A i \in 1..j : Prefix(p, j)[i] = p[i]
  BY <1>1, PrefixIs
<1>5. Prefix(q, j) = Prefix(p, j)
  BY <1>2, <1>3, <1>4, PathsEqual
<1> QED
  BY <1>5 DEF q

LEMMA FrontIs ==
  ASSUME NEW p \in Paths, p # << >>
  PROVE  Front(p) = Prefix(p, Len(p) - 1) /\ Len(p) \in Nat /\ Len(p) >= 1
BY PathIs, EmptySeq DEF Front, Prefix

\* One step further down.
LEMMA EntryIs ==
  ASSUME NEW p \in Paths, NEW n \in Names, Append(p, n) \in Paths
  PROVE  Len(Append(p, n)) = Len(p) + 1 /\ Prefix(Append(p, n), Len(p)) = p
<1> DEFINE e == Append(p, n)
<1>1. p \in Seq(Names) /\ Len(p) \in Nat
  BY PathIs
<1>2. Len(e) = Len(p) + 1 /\ \A i \in 1..Len(p) : e[i] = p[i]
  BY <1>1, AppendProperties
<1> HIDE DEF e
<1>3. Len(p) \in 0..Len(e) /\ e \in Paths
  BY <1>1, <1>2 DEF e
<1>4. Prefix(e, Len(p)) \in Paths /\ Len(Prefix(e, Len(p))) = Len(p)
      /\ \A i \in 1..Len(p) : Prefix(e, Len(p))[i] = e[i]
  BY <1>3, PrefixIs
<1>5. Prefix(e, Len(p)) = p
  BY <1>2, <1>4, PathsEqual
<1> QED
  BY <1>2, <1>5 DEF e

LEMMA EntryOnTheWay ==
  ASSUME NEW p \in Paths, NEW q \in Paths, Len(p) < Len(q), Prefix(q, Len(p)) = p
  PROVE  \E n \in Names : Append(p, n) = Prefix(q, Len(p) + 1)
<1> DEFINE n == q[Len(p) + 1]
           e == Append(p, n)
           f == Prefix(q, Len(p) + 1)
<1>1. p \in Seq(Names) /\ Len(p) \in Nat /\ q \in Seq(Names) /\ Len(q) \in Nat
  BY PathIs
<1>2. Len(p) + 1 \in 1..Len(q) /\ Len(p) + 1 \in 0..Len(q) /\ Len(p) \in 0..Len(q)
  BY <1>1
<1>3. n \in Names
  BY <1>1, <1>2, ElementOfSeq
<1>4. \A i \in 1..Len(p) : p[i] = q[i]
  BY <1>2, PrefixIs
<1>5. f \in Paths /\ Len(f) = Len(p) + 1 /\ \A i \in 1..(Len(p) + 1) : f[i] = q[i]
  BY <1>2, PrefixIs
<1> HIDE DEF f
<1>6. f[Len(p) + 1] = n /\ f \in Seq(Names)
  BY <1>2, <1>5, PathIs
<1> HIDE DEF n
<1>7. /\ e \in Seq(Names) /\ Len(e) = Len(p) + 1 /\ e[Len(p) + 1] = n
      /\ \A i \in 1..Len(p) : e[i] = p[i]
  BY <1>1, <1>3, AppendProperties
<1> HIDE DEF e
<1>8. \A i \in 1..Len(e) : e[i] = f[i]
  <2>1. ASSUME NEW i \in 1..Len(e) PROVE e[i] = f[i]
    <3>1. CASE i = Len(p) + 1
      BY <1>6, <1>7, <3>1
    <3>2. CASE i # Len(p) + 1
      <4>1. i \in 1..Len(p) /\ i \in 1..(Len(p) + 1)
        BY <1>1, <1>7, <3>2
      <4> QED
        BY <1>4, <1>5, <1>7, <4>1
    <3> QED
      BY <3>1, <3>2
  <2> QED
    BY <2>1
<1>9. e = f
  BY <1>5, <1>6, <1>7, <1>8, SeqEqual
<1> QED
  BY <1>3, <1>9 DEF e, f

LEMMA IsPrefixIs ==
  ASSUME NEW p \in Paths, NEW q \in Paths
  PROVE  IsPrefix(p, q) <=> Len(p) =< Len(q) /\ Prefix(q, Len(p)) = p
BY PrefixFull DEF IsPrefix, Prefix

-----------------------------------------------------------------------------
(* What a DELETE may remove *)

LEMMA Least ==
  ASSUME NEW S \in SUBSET Nat, S # {}
  PROVE  \E i \in S : \A j \in S : i =< j
<1> DEFINE R == OpToRel(<, Nat)
<1>1. IsWellFoundedOn(R, Nat)
  BY NatLessThanWellFounded
<1>2. \A x, y \in Nat : x < y => <<x, y>> \in R
  BY DEF OpToRel
<1> HIDE DEF R
<1>3. PICK x \in S : \A y \in S : <<y, x>> \notin R
  BY <1>1, WFMin
<1>4. ASSUME NEW y \in S PROVE x =< y
  <2>1. x \in Nat /\ y \in Nat
    OBVIOUS
  <2>2. ~(y < x)
    BY <1>2, <1>3, <2>1
  <2> QED
    BY <2>1, <2>2
<1> QED
  BY <1>4

\* The files below a path, with directories all the way: a solution of the
\* recursion of Victims.
Below(p) ==
  {q \in DOMAIN files :
     /\ Len(p) =< Len(q) /\ Prefix(q, Len(p)) = p
     /\ \A k \in Len(p)..(Len(q) - 1) : Prefix(q, k) \in dirs}

\* The right-hand side of that recursion.
Step(f, p) ==
  IF p \notin dirs THEN {p} \cap DOMAIN files
  ELSE UNION {f[Entry(p, n)] : n \in {m \in Names : Append(p, m) \in dirs \cup DOMAIN files}}

LEMMA BelowFile ==
  ASSUME TypeOK, NEW p \in Paths, p \notin dirs
  PROVE  Below(p) = {p} \cap DOMAIN files
<1>1. DOMAIN files \subseteq Paths
  BY DEF TypeOK
<1>2. Len(p) \in Nat /\ \A q \in Paths : Len(q) \in Nat
  BY PathIs
<1>3. ASSUME NEW q \in Below(p) PROVE q = p /\ q \in DOMAIN files
  <2>1. /\ q \in DOMAIN files /\ q \in Paths /\ Len(p) =< Len(q) /\ Prefix(q, Len(p)) = p
        /\ \A k \in Len(p)..(Len(q) - 1) : Prefix(q, k) \in dirs
    BY <1>1, <1>3 DEF Below
  <2>2. Len(p) = Len(q)
    BY <1>2, <2>1
  <2> QED
    BY <2>1, <2>2, PrefixFull
<1>4. ASSUME p \in DOMAIN files PROVE p \in Below(p)
  BY <1>2, <1>4, PrefixFull DEF Below
<1> QED
  BY <1>3, <1>4

LEMMA BelowDirectory ==
  ASSUME TypeOK, NEW p \in dirs
  PROVE  Below(p) =
           UNION {Below(Append(p, n)) : n \in {m \in Names : Append(p, m) \in dirs \cup DOMAIN files}}
<1>1. DOMAIN files \subseteq Paths /\ dirs \subseteq Paths /\ p \in Paths /\ DOMAIN files \cap dirs = {}
  BY DEF TypeOK
<1>2. \A q \in Paths : Len(q) \in Nat
  BY PathIs
<1>3. ASSUME NEW q \in Below(p)
      PROVE  \E n \in Names : Append(p, n) \in dirs \cup DOMAIN files /\ q \in Below(Append(p, n))
  <2>1. /\ q \in DOMAIN files /\ q \in Paths /\ Len(p) =< Len(q) /\ Prefix(q, Len(p)) = p
        /\ \A k \in Len(p)..(Len(q) - 1) : Prefix(q, k) \in dirs
    BY <1>1, <1>3 DEF Below
  <2>2. q # p
    BY <1>1, <2>1
  <2>3. Len(p) # Len(q)
    BY <2>1, <2>2, PrefixFull
  <2>4. Len(p) < Len(q)
    BY <1>1, <1>2, <2>1, <2>3
  <2>5. PICK n \in Names : Append(p, n) = Prefix(q, Len(p) + 1)
    BY <1>1, <2>1, <2>4, EntryOnTheWay
  <2> DEFINE e == Append(p, n)
             l == Len(p) + 1
  <2>6. l \in 0..Len(q) /\ l \in Nat /\ Len(q) \in Nat
    BY <1>1, <1>2, <2>1, <2>4
  <2>7. e = Prefix(q, l)
    BY <2>5
  <2>8. \A k \in l..(Len(q) - 1) : Prefix(q, k) \in dirs
    <3>1. \A k \in l..(Len(q) - 1) : k \in Len(p)..(Len(q) - 1)
      BY <1>1, <1>2, <2>6
    <3> QED
      BY <2>1, <3>1
  <2> HIDE DEF e, l
  <2>9. e \in Paths /\ Len(e) = l
    BY <2>1, <2>6, <2>7, PrefixIs
  <2>10. e \in dirs \cup DOMAIN files
    <3>1. CASE l = Len(q)
      BY <2>1, <2>7, <3>1, PrefixFull
    <3>2. CASE l # Len(q)
      <4>1. l \in l..(Len(q) - 1)
        BY <2>6, <3>2
      <4> QED
        BY <2>7, <2>8, <4>1
    <3> QED
      BY <3>1, <3>2
  <2>11. Len(e) =< Len(q) /\ Prefix(q, Len(e)) = e
    BY <2>6, <2>7, <2>9
  <2>12. q \in Below(e)
    BY <2>1, <2>8, <2>9, <2>11 DEF Below
  <2> QED
    BY <2>10, <2>12 DEF e
<1>4. ASSUME NEW n \in Names, Append(p, n) \in dirs \cup DOMAIN files, NEW q \in Below(Append(p, n))
      PROVE  q \in Below(p)
  <2> DEFINE e == Append(p, n)
  <2>1. /\ q \in DOMAIN files /\ q \in Paths /\ Len(e) =< Len(q) /\ Prefix(q, Len(e)) = e
        /\ \A k \in Len(e)..(Len(q) - 1) : Prefix(q, k) \in dirs
    BY <1>1, <1>4 DEF Below
  <2>2. Len(e) = Len(p) + 1 /\ Prefix(e, Len(p)) = p /\ e \in Paths
    BY <1>1, <1>4, EntryIs
  <2> HIDE DEF e
  <2>3. Len(p) \in Nat /\ Len(q) \in Nat /\ Len(e) \in 0..Len(q) /\ Len(p) \in 0..Len(e) /\ Len(p) =< Len(q)
    BY <1>1, <1>2, <2>1, <2>2
  <2>4. Prefix(Prefix(q, Len(e)), Len(p)) = Prefix(q, Len(p))
    BY <2>1, <2>3, PrefixOfPrefix
  <2>5. Prefix(q, Len(p)) = p
    BY <2>1, <2>2, <2>4
  <2>6. ASSUME NEW k \in Len(p)..(Len(q) - 1) PROVE Prefix(q, k) \in dirs
    <3>1. k = Len(p) \/ k \in Len(e)..(Len(q) - 1)
      BY <2>2, <2>3
    <3> QED
      BY <2>1, <2>5, <3>1
  <2> QED
    BY <2>1, <2>3, <2>5, <2>6 DEF Below
<1> QED
  BY <1>3, <1>4

\* Victims is a solution of its recursion, since there is one.
LEMMA VictimsSolves ==
  ASSUME TypeOK
  PROVE  \A p \in Paths : Victims[p] = Step(Victims, p)
<1> DEFINE D(f) == [p \in Paths |-> Step(f, p)]
           b == [p \in Paths |-> Below(p)]
<1>1. b = D(b)
  <2>1. ASSUME NEW p \in Paths PROVE Below(p) = Step(b, p)
    <3>1. CASE p \notin dirs
      BY <3>1, BelowFile DEF Step
    <3>2. CASE p \in dirs
      <4>1. dirs \cup DOMAIN files \subseteq Paths
        BY DEF TypeOK
      <4>2. \A n \in {m \in Names : Append(p, m) \in dirs \cup DOMAIN files} :
              b[Entry(p, n)] = Below(Append(p, n))
        BY <4>1 DEF Entry
      <4>3. Step(b, p) = UNION {b[Entry(p, n)] :
                                  n \in {m \in Names : Append(p, m) \in dirs \cup DOMAIN files}}
        BY <3>2 DEF Step
      <4>4. Below(p) = UNION {Below(Append(p, n)) :
                                n \in {m \in Names : Append(p, m) \in dirs \cup DOMAIN files}}
        BY <3>2, BelowDirectory
      <4> HIDE DEF b
      <4> QED
        BY <4>2, <4>3, <4>4
    <3> QED
      BY <3>1, <3>2
  <2> QED
    BY <2>1
<1> HIDE DEF b
<1>2. Victims = CHOOSE v : v = D(v)
  BY DEF Victims, Step
<1>3. Victims = D(Victims)
  BY <1>1, <1>2
<1> QED
  BY <1>3

\* Whatever order readdir has, what is removed is a file, at the path or below it.
LEMMA VictimsAreBelow ==
  ASSUME TypeOK, NEW p \in Paths, NEW q \in Victims[p]
  PROVE  q \in DOMAIN files /\ IsPrefix(p, q) /\ (p \in DOMAIN files => q = p)
<1> DEFINE Good(r) == \A t \in Victims[r] : t \in DOMAIN files /\ IsPrefix(r, t)
           Bad == {r \in Paths : ~Good(r)}
           Depths == {MaxDepth - Len(r) : r \in Bad}
<1>1. DOMAIN files \subseteq Paths /\ dirs \subseteq Paths /\ DOMAIN files \cap dirs = {}
  BY DEF TypeOK
<1>2. \A r \in Paths : Len(r) \in Nat /\ Len(r) =< MaxDepth
  BY PathIs, FileManagerAssumption
<1>3. \A r \in Paths : r \notin dirs => Victims[r] = {r} \cap DOMAIN files
  BY VictimsSolves DEF Step
<1>4. \A r \in Paths : Good(r)
  <2>1. SUFFICES ASSUME Bad # {} PROVE FALSE
    OBVIOUS
  <2>2. Depths \in SUBSET Nat /\ Depths # {}
    BY <1>2, <2>1, FileManagerAssumption
  <2>3. PICK d \in Depths : \A e \in Depths : d =< e
    BY <2>2, Least
  <2>4. PICK r \in Bad : d = MaxDepth - Len(r)
    BY <2>3
  <2>5. \A e \in Paths : Len(e) > Len(r) => Good(e)
    <3>1. ASSUME NEW e \in Bad PROVE ~(Len(e) > Len(r))
      <4>1. d =< MaxDepth - Len(e) /\ d = MaxDepth - Len(r)
        BY <2>3, <2>4
      <4>2. Len(e) \in Nat /\ Len(r) \in Nat /\ MaxDepth \in Nat
        BY <1>2, FileManagerAssumption
      <4> QED
        BY <4>1, <4>2
    <3> QED
      BY <3>1
  <2>6. PICK t \in Victims[r] : ~(t \in DOMAIN files /\ IsPrefix(r, t))
    BY <2>4
  <2>7. r \in Paths
    BY <2>4
  <2>8. CASE r \notin dirs
    <3>1. t = r /\ r \in DOMAIN files
      BY <1>3, <2>6, <2>7, <2>8
    <3>2. IsPrefix(r, r)
      BY <1>2, <2>7, PrefixFull, IsPrefixIs
    <3> QED
      BY <2>6, <3>1, <3>2
  <2>9. CASE r \in dirs
    <3>1. Victims[r] = UNION {Victims[Append(r, n)] :
                                n \in {m \in Names : Append(r, m) \in dirs \cup DOMAIN files}}
      BY <2>7, <2>9, VictimsSolves DEF Step, Entry
    <3>2. PICK n \in Names : Append(r, n) \in dirs \cup DOMAIN files /\ t \in Victims[Append(r, n)]
      BY <2>6, <3>1
    <3> DEFINE e == Append(r, n)
    <3>3. e \in Paths /\ Len(e) = Len(r) + 1 /\ Prefix(e, Len(r)) = r
      BY <1>1, <2>7, <3>2, EntryIs
    <3>4. t \in Victims[e]
      BY <3>2
    <3> HIDE DEF e
    <3>5. Len(e) > Len(r)
      BY <1>2, <2>7, <3>3
    <3>6. t \in DOMAIN files /\ IsPrefix(e, t)
      BY <2>5, <3>3, <3>4, <3>5
    <3>7. t \in Paths /\ Len(e) =< Len(t) /\ Prefix(t, Len(e)) = e
      BY <1>1, <3>3, <3>6, IsPrefixIs
    <3>8. Len(r) \in Nat /\ Len(t) \in Nat /\ Len(e) \in 0..Len(t) /\ Len(r) \in 0..Len(e) /\ Len(r) =< Len(t)
      BY <1>2, <2>7, <3>3, <3>7
    <3>9. Prefix(t, Len(r)) = r
      BY <3>3, <3>7, <3>8, PrefixOfPrefix
    <3>10. IsPrefix(r, t)
      BY <2>7, <3>7, <3>8, <3>9, IsPrefixIs
    <3> QED
      BY <2>6, <3>6, <3>10
  <2> QED
    BY <2>8, <2>9
<1>5. p \in DOMAIN files => q = p
  BY <1>1, <1>3
<1> QED
  BY <1>4, <1>5

-----------------------------------------------------------------------------
(* The invariant, of the tree and of one connection *)

Tree ==
  /\ dirs \subseteq Paths /\ DOMAIN files \subseteq Paths \ dirs /\ << >> \in dirs
  /\ \A p \in (dirs \cup DOMAIN files) \ {<< >>} : Front(p) \in dirs
  /\ files \in [DOMAIN files -> Content]

ConnOK(c) ==
  LET r == conn[c] IN
  /\ r \in Requests /\ r.off =< Len(r.body) /\ (r.linked => r.path \in DOMAIN files)
  /\ IF r.phase \in {"uploading", "done"}
     THEN /\ r.phase = "done" => r.off = Len(r.body)
          /\ r.alone => /\ r.linked /\ Len(files[r.path]) = r.off
                        /\ \A i \in 1..r.off : files[r.path][i] = r.body[i]
     ELSE ~r.linked

LEMMA InvIsParts ==
  ASSUME conn \in [Conns -> Requests]
  PROVE  FInv <=> Tree /\ \A c \in Conns : ConnOK(c)
BY DEF FInv, TypeOK, Uploads, Tree, ConnOK

LEMMA PrimedParts ==
  ASSUME conn' \in [Conns -> Requests], Tree', \A c \in Conns : ConnOK(c)'
  PROVE  FInv'
BY DEF FInv, TypeOK, Uploads, Tree, ConnOK

LEMMA PartsHold ==
  ASSUME FInv
  PROVE  Tree /\ conn \in [Conns -> Requests] /\ \A c \in Conns : ConnOK(c)
BY DEF FInv, TypeOK, Uploads, Tree, ConnOK

\* A connection whose file is as it was.
LEMMA ConnStays ==
  ASSUME NEW c \in Conns, ConnOK(c), conn'[c] = conn[c],
         conn[c].linked => /\ conn[c].path \in DOMAIN files'
                           /\ files'[conn[c].path] = files[conn[c].path]
  PROVE  ConnOK(c)'
BY DEF ConnOK

\* A connection whose file somebody else has changed.
LEMMA ConnNoticed ==
  ASSUME NEW c \in Conns, ConnOK(c), conn'[c] \in Requests, conn[c].linked,
         conn'[c].phase = conn[c].phase, conn'[c].path = conn[c].path, conn'[c].body = conn[c].body,
         conn'[c].off = conn[c].off, ~conn'[c].alone,
         conn'[c].linked => conn[c].path \in DOMAIN files'
  PROVE  ConnOK(c)'
BY DEF ConnOK

LEMMA ConnIdle ==
  ASSUME NEW c \in Conns, conn'[c] \in Requests, conn'[c].phase \notin {"uploading", "done"},
         ~conn'[c].linked, conn'[c].off = 0, conn'[c].body = << >>
  PROVE  ConnOK(c)'
BY EmptySeq DEF ConnOK

LEMMA IdleIs ==
  /\ Idle \in Requests /\ Idle.phase = "idle" /\ ~Idle.linked /\ Idle.off = 0 /\ Idle.body = << >>
BY RootIsPath DEF Idle, Requests

\* Of the records the actions write.
Answered(p, s, outcome) == [Idle EXCEPT !.phase = outcome, !.path = p, !.slash = s]
Begun(p, b) == [Idle EXCEPT !.phase = "uploading", !.path = p, !.body = b, !.linked = TRUE]

LEMMA AnsweredIs ==
  ASSUME NEW p \in Paths, NEW s \in BOOLEAN, NEW outcome \in Outcomes, NEW g,
         g = Answered(p, s, outcome)
  PROVE  /\ g \in Requests /\ g.phase = outcome /\ g.path = p /\ g.slash = s
         /\ ~g.linked /\ g.off = 0 /\ g.body = << >>
BY DEF Answered, Idle, Requests

LEMMA BegunIs ==
  ASSUME NEW p \in Paths, NEW b \in Bodies, NEW g, g = Begun(p, b)
  PROVE  /\ g \in Requests /\ g.phase = "uploading" /\ g.path = p
         /\ g.linked /\ g.off = 0 /\ g.body = b
BY DEF Begun, Idle, Requests

LEMMA NoticeIs ==
  ASSUME conn \in [Conns -> Requests], NEW others \in SUBSET Conns, NEW p, NEW gone \in BOOLEAN,
         NEW d \in Conns
  PROVE  LET r == Notice(others, p, gone)[d] IN
         /\ r \in Requests /\ r.phase = conn[d].phase /\ r.path = conn[d].path
         /\ r.body = conn[d].body /\ r.off = conn[d].off
         /\ IF d \in others /\ conn[d].linked /\ conn[d].path = p
            THEN ~r.alone /\ r.linked = ~gone
            ELSE r = conn[d]
<1>1. Notice(others, p, gone)[d] =
        IF d \in others /\ conn[d].linked /\ conn[d].path = p
        THEN [conn[d] EXCEPT !.alone = FALSE, !.linked = ~gone] ELSE conn[d]
  BY DEF Notice
<1> DEFINE g == [conn[d] EXCEPT !.alone = FALSE, !.linked = ~gone]
<1>2. conn[d] \in Requests
  OBVIOUS
<1>3. /\ g \in Requests /\ g.phase = conn[d].phase /\ g.path = conn[d].path
      /\ g.body = conn[d].body /\ g.off = conn[d].off /\ g.alone = FALSE /\ g.linked = ~gone
  BY <1>2 DEF Requests
<1> HIDE DEF g
<1>4. Notice(others, p, gone)[d] =
        IF d \in others /\ conn[d].linked /\ conn[d].path = p THEN g ELSE conn[d]
  BY <1>1 DEF g
<1> QED
  BY <1>2, <1>3, <1>4

-----------------------------------------------------------------------------
(* Contents *)

Bytes == {Hole} \cup UNION {Range(b) : b \in Bodies \cup {OldBody}}

LEMMA BodyIs ==
  ASSUME NEW b \in Bodies \cup {OldBody, << >>}
  PROVE  b \in Seq(Bytes) /\ Len(b) \in Nat
<1>1. << >> \in Seq(Bytes)
  BY EmptySeq
<1>2. ASSUME b \in Bodies \cup {OldBody} PROVE b \in Seq(Bytes)
  <2>1. b \in Seq(Range(b))
    BY <1>2, FileManagerAssumption
  <2>2. Range(b) \subseteq Bytes
    BY <1>2 DEF Bytes
  <2> QED
    BY <2>1, <2>2, SeqMonotonic
<1>3. b \in Seq(Bytes)
  BY <1>1, <1>2
<1> QED
  BY <1>3, LenProperties

LEMMA HoleIs == Hole \in Bytes
<1> DEFINE U == UNION {Range(b) : b \in Bodies \cup {OldBody}}
<1>1. Bytes = U \cup {Hole}
  BY DEF Bytes
<1> HIDE DEF U
<1> QED
  BY <1>1

LEMMA ContentIs == Content = Seq(Bytes)
BY DEF Content, Bytes

\* A write at the end of a file appends to it; anywhere else it leaves a file.
LEMMA WrittenIs ==
  ASSUME NEW s \in Content, NEW off \in Nat, NEW piece \in Bytes
  PROVE  /\ Written(s, off, piece) \in Content
         /\ Len(s) = off => /\ Len(Written(s, off, piece)) = off + 1
                            /\ Written(s, off, piece)[off + 1] = piece
                            /\ \A i \in 1..off : Written(s, off, piece)[i] = s[i]
<1> DEFINE n == IF Len(s) > off THEN Len(s) ELSE off + 1
           w == Written(s, off, piece)
<1>1. s \in Seq(Bytes) /\ Len(s) \in Nat
  BY ContentIs, LenProperties
<1>2. n \in Nat
  BY <1>1
<1>3. w = [i \in 1..n |-> IF i = off + 1 THEN piece ELSE IF i =< Len(s) THEN s[i] ELSE Hole]
  BY DEF Written
<1> HIDE DEF w, n
<1>4. ASSUME NEW i \in 1..n PROVE w[i] \in Bytes
  <2>1. Hole \in Bytes
    BY HoleIs
  <2>2. CASE i = off + 1
    BY <1>3, <1>4, <2>2
  <2>3. CASE i # off + 1 /\ i =< Len(s)
    <3>1. i \in 1..Len(s)
      BY <1>1, <1>2, <1>4, <2>3
    <3>2. s[i] \in Bytes
      BY <1>1, <3>1, ElementOfSeq
    <3> QED
      BY <1>3, <1>4, <2>3, <3>2
  <2>4. CASE i # off + 1 /\ ~(i =< Len(s))
    BY <1>3, <1>4, <2>1, <2>4
  <2> QED
    BY <2>2, <2>3, <2>4
<1>5. w \in [1..n -> Bytes]
  BY <1>3, <1>4
<1>6. w \in Seq(Bytes)
  BY <1>2, <1>5, SeqDef
<1>7. Len(w) = n
  BY <1>2, <1>5, <1>6, LenProperties
<1>8. ASSUME Len(s) = off
      PROVE  n = off + 1 /\ w[off + 1] = piece /\ \A i \in 1..off : w[i] = s[i]
  <2>1. n = off + 1
    BY <1>8 DEF n
  <2>2. off + 1 \in 1..n /\ \A i \in 1..off : i \in 1..n /\ i # off + 1 /\ i =< Len(s)
    BY <1>8, <2>1
  <2> QED
    BY <1>3, <2>1, <2>2
<1> QED
  BY <1>6, <1>7, <1>8, ContentIs DEF w

-----------------------------------------------------------------------------
(* The steps *)

LEMMA TreeKept ==
  ASSUME Tree, dirs \subseteq dirs', dirs' \subseteq Paths,
         \A q \in dirs' \ dirs : Front(q) \in dirs',
         DOMAIN files' \subseteq Paths \ dirs',
         \A q \in DOMAIN files' \ DOMAIN files : Front(q) \in dirs',
         files' \in [DOMAIN files' -> Content]
  PROVE  Tree'
BY DEF Tree

\* mkdir makes directories only, each below one that is there, and none where a file is.
LEMMA MadeIs ==
  ASSUME Tree, NEW p \in Paths, NEW s \in BOOLEAN
  PROVE  /\ Made(p, s) \subseteq Paths /\ Made(p, s) \cap DOMAIN files = {}
         /\ \A q \in Made(p, s) : Front(q) \in Made(p, s) \cup {<< >>} /\ Len(q) \in 1..Len(p)
         /\ ~s => \A q \in Made(p, s) : Len(q) < Len(p)
         /\ ~IsConflict(p, s) => Made(p, s) = Parents(p, s)
<1> DEFINE n == Len(p) - (IF s THEN 0 ELSE 1)
<1>1. Len(p) \in Nat /\ n \in Int /\ n =< Len(p) /\ (~s => n = Len(p) - 1)
  BY PathIs
<1>2. Parents(p, s) = {Prefix(p, k) : k \in 1..n}
  BY DEF Parents
<1> HIDE DEF n
<1>3. ASSUME NEW k \in 1..n, Prefix(p, k) \in Made(p, s)
      PROVE  /\ Prefix(p, k) \in Paths \ DOMAIN files /\ Len(Prefix(p, k)) = k
             /\ Front(Prefix(p, k)) \in Made(p, s) \cup {<< >>}
  <2> DEFINE q == Prefix(p, k)
             h == k - 1
  <2>1. k \in 0..Len(p) /\ h \in 0..k /\ h \in Nat /\ k \in Nat /\ k \in 1..k
    BY <1>1
  <2>2. q \in Paths /\ Len(q) = k
    BY <2>1, PrefixIs
  <2>3. \A j \in 0..k : Prefix(q, j) = Prefix(p, j)
    BY <2>1, PrefixOfPrefix
  <2>4. Front(q) = Prefix(q, h)
    BY <2>1, <2>2, FrontIs, EmptySeq
  <2>5. q \in Made(p, s)
    BY <1>3
  <2> HIDE DEF q
  <2>6. \A j \in 1..k : Prefix(q, j) \notin DOMAIN files
    BY <2>2, <2>5 DEF Made
  <2>7. q \notin DOMAIN files
    BY <2>1, <2>2, <2>6, PrefixFull
  <2>8. Front(q) \in Made(p, s) \cup {<< >>}
    <3> DEFINE f == Prefix(q, h)
    <3>1. f \in Paths /\ Len(f) = h /\ f = Prefix(p, h)
      BY <2>1, <2>2, <2>3, PrefixIs
    <3>2. \A j \in 0..h : Prefix(f, j) = Prefix(q, j)
      BY <2>1, <2>2, PrefixOfPrefix
    <3> HIDE DEF f
    <3>3. CASE h = 0
      BY <2>4, <3>1, <3>3, PathIs, EmptySeq DEF f
    <3>4. CASE h # 0
      <4>1. h \in 1..n /\ \A j \in 1..h : j \in 1..k /\ j \in 0..h
        BY <1>1, <2>1, <3>4
      <4>2. f \in Parents(p, s)
        BY <1>2, <3>1, <4>1
      <4>3. \A j \in 1..Len(f) : Prefix(f, j) \notin DOMAIN files
        BY <2>6, <3>1, <3>2, <4>1
      <4>4. f \in Made(p, s)
        BY <4>2, <4>3 DEF Made
      <4> QED
        BY <2>4, <4>4 DEF f
    <3> QED
      BY <3>3, <3>4
  <2> QED
    BY <2>2, <2>7, <2>8 DEF q
<1>4. ASSUME NEW q \in Made(p, s)
      PROVE  /\ q \in Paths \ DOMAIN files /\ Front(q) \in Made(p, s) \cup {<< >>}
             /\ Len(q) \in 1..n
  <2>1. q \in Parents(p, s)
    BY DEF Made
  <2>2. PICK k \in 1..n : q = Prefix(p, k)
    BY <1>2, <2>1
  <2> QED
    BY <1>3, <2>2
<1>5. ASSUME ~IsConflict(p, s) PROVE Made(p, s) = Parents(p, s)
  <2>1. ASSUME NEW q \in Parents(p, s), NEW k \in 1..Len(q) PROVE Prefix(q, k) \notin DOMAIN files
    <3>1. PICK m \in 1..n : q = Prefix(p, m)
      BY <1>2, <2>1
    <3>2. m \in 0..Len(p) /\ m \in Nat
      BY <1>1, <3>1
    <3>3. Len(q) = m
      BY <3>1, <3>2, PrefixIs
    <3>4. k \in 0..m /\ k \in 1..n
      BY <1>1, <2>1, <3>1, <3>2, <3>3
    <3>5. Prefix(q, k) = Prefix(p, k)
      BY <3>1, <3>2, <3>4, PrefixOfPrefix
    <3>6. Prefix(p, k) \in Parents(p, s)
      BY <1>2, <3>4
    <3> QED
      BY <1>5, <3>5, <3>6 DEF IsConflict
  <2> QED
    BY <2>1 DEF Made
<1>6. \A q \in Made(p, s) : Len(q) \in 1..Len(p) /\ (~s => Len(q) < Len(p))
  BY <1>1, <1>4
<1> QED
  BY <1>4, <1>5, <1>6

\* The answers that change neither tree nor any other connection.
LEMMA AnswerKeeps ==
  ASSUME FInv, Tree', NEW c \in Conns, NEW p \in Paths, NEW s \in BOOLEAN,
         NEW outcome \in {"deleted", "reboot"}, Answer(c, p, s, outcome)
  PROVE  FInv'
<1> DEFINE g == Answered(p, s, outcome)
<1>1. conn' = [conn EXCEPT ![c] = g] /\ files' = files
  BY DEF Answer, Answered
<1>2. /\ g \in Requests /\ g.phase = outcome /\ ~g.linked /\ g.off = 0 /\ g.body = << >>
  <2>1. outcome \in Outcomes
    BY DEF Outcomes
  <2> QED
    BY <2>1, AnsweredIs
<1> HIDE DEF g
<1>3. Tree /\ conn \in [Conns -> Requests] /\ \A d \in Conns : ConnOK(d)
  BY PartsHold
<1>4. conn' \in [Conns -> Requests] /\ conn'[c] = g /\ \A d \in Conns : d # c => conn'[d] = conn[d]
  BY <1>1, <1>2, <1>3
<1>5. ASSUME NEW d \in Conns PROVE ConnOK(d)'
  <2>1. CASE d # c
    BY <1>1, <1>3, <1>4, <2>1, ConnStays DEF ConnOK
  <2>2. CASE d = c
    BY <1>2, <1>4, <2>2, EmptySeq DEF ConnOK
  <2> QED
    BY <2>1, <2>2
<1> QED
  BY <1>4, <1>5, PrimedParts

\* A step that writes, truncates or removes the file at v, for the connection c.
LEMMA FileChanged ==
  ASSUME FInv, Tree', NEW c \in Conns, NEW v, NEW gone \in BOOLEAN, NEW g \in Requests,
         conn' = [Notice(Conns \ {c}, v, gone) EXCEPT ![c] = g],
         conn'[c] = g => ConnOK(c)',
         \A q \in DOMAIN files : q # v => q \in DOMAIN files' /\ files'[q] = files[q],
         ~gone => v \in DOMAIN files'
  PROVE  FInv'
<1> DEFINE N == Notice(Conns \ {c}, v, gone)
<1>1. Tree /\ conn \in [Conns -> Requests] /\ \A d \in Conns : ConnOK(d)
  BY PartsHold
<1>2. \A d \in Conns : /\ N[d] \in Requests /\ N[d].phase = conn[d].phase /\ N[d].path = conn[d].path
                       /\ N[d].body = conn[d].body /\ N[d].off = conn[d].off
                       /\ IF d \in Conns \ {c} /\ conn[d].linked /\ conn[d].path = v
                          THEN ~N[d].alone /\ N[d].linked = ~gone
                          ELSE N[d] = conn[d]
  BY <1>1, NoticeIs
<1>3. DOMAIN N = Conns
  BY DEF Notice
<1>4. conn' = [N EXCEPT ![c] = g]
  OBVIOUS
<1> HIDE DEF N
<1>5. N \in [Conns -> Requests]
  <2>1. N = [d \in Conns |-> N[d]]
    BY DEF N, Notice
  <2> QED
    BY <1>2, <2>1
<1>6. conn' \in [Conns -> Requests] /\ conn'[c] = g /\ \A d \in Conns : d # c => conn'[d] = N[d]
  BY <1>4, <1>5
<1>7. ASSUME NEW d \in Conns PROVE ConnOK(d)'
  <2>1. CASE d = c
    BY <1>6, <2>1
  <2>2. CASE d # c /\ conn[d].linked /\ conn[d].path = v
    <3>1. ~conn'[d].alone /\ conn'[d].linked = ~gone
      BY ZenonT(60), <1>2, <1>6, <2>2
    <3>2. conn'[d].linked => conn[d].path \in DOMAIN files'
      BY <2>2, <3>1
    <3> QED
      BY ZenonT(60), <1>1, <1>2, <1>6, <2>2, <3>1, <3>2, ConnNoticed
  <2>3. CASE d # c /\ ~(conn[d].linked /\ conn[d].path = v)
    <3>1. conn'[d] = conn[d]
      BY <1>2, <1>6, <2>3
    <3>2. conn[d].linked => conn[d].path \in DOMAIN files /\ conn[d].path # v
      BY <1>1, <2>3 DEF ConnOK
    <3> QED
      BY <1>1, <3>1, <3>2, ConnStays
  <2> QED
    BY <2>1, <2>2, <2>3
<1> QED
  BY <1>6, <1>7, PrimedParts

LEMMA OpenedTree ==
  ASSUME Tree, NEW p \in Paths, dirs \subseteq dirs', dirs' \subseteq Paths, dirs' \cap DOMAIN files = {},
         \A q \in dirs' \ dirs : Front(q) \in dirs',
         p \notin dirs', p \in DOMAIN files \/ Front(p) \in dirs',
         files' = [q \in DOMAIN files \cup {p} |-> IF q = p THEN << >> ELSE files[q]]
  PROVE  Tree'
<1>1. << >> \in Content
  BY EmptySeq, ContentIs
<1>2. DOMAIN files' = DOMAIN files \cup {p}
  OBVIOUS
<1>3. DOMAIN files \subseteq Paths /\ files \in [DOMAIN files -> Content]
  BY DEF Tree
<1>4. files' \in [DOMAIN files' -> Content]
  BY <1>1, <1>2, <1>3
<1>5. DOMAIN files' \subseteq Paths \ dirs' /\ \A q \in DOMAIN files' \ DOMAIN files : Front(q) \in dirs'
  BY <1>2, <1>3
<1> QED
  BY <1>4, <1>5, TreeKept

LEMMA OpenedKeeps ==
  ASSUME FInv, Tree', NEW c \in Conns, NEW p \in Paths, NEW b \in Bodies, Opened(c, p, b, << >>)
  PROVE  FInv'
<1> DEFINE g == Begun(p, b)
<1>1. /\ conn' = [Notice(Conns \ {c}, p, FALSE) EXCEPT ![c] = g]
      /\ files' = [q \in DOMAIN files \cup {p} |-> IF q = p THEN << >> ELSE files[q]]
  BY DEF Opened, Begun
<1>2. /\ g \in Requests /\ g.phase = "uploading" /\ g.path = p
      /\ g.linked /\ g.off = 0 /\ g.body = b
  BY BegunIs
<1> HIDE DEF g
<1>3. p \in DOMAIN files' /\ Len(files'[p]) = 0
  BY <1>1, EmptySeq
<1>4. Len(b) \in Nat
  BY BodyIs
<1>5. conn'[c] = g => ConnOK(c)'
  BY <1>2, <1>3, <1>4 DEF ConnOK
<1>6. \A q \in DOMAIN files : q # p => q \in DOMAIN files' /\ files'[q] = files[q]
  BY <1>1
<1> QED
  BY ZenonT(60), <1>1, <1>2, <1>3, <1>5, <1>6, FileChanged

LEMMA CreateKeeps ==
  ASSUME FInv, NEW c \in Conns, NEW p \in Paths, NEW s \in BOOLEAN, NEW b \in Bodies,
         ~Exists(p, s), Create(c, p, s, b)
  PROVE  FInv'
<1>1. Tree
  BY PartsHold
<1>2. dirs' = dirs \cup Made(p, s)
  BY DEF Create
<1>3. /\ dirs \subseteq dirs' /\ dirs' \subseteq Paths /\ dirs' \cap DOMAIN files = {}
      /\ \A q \in dirs' \ dirs : Front(q) \in dirs'
  <2>1. dirs \subseteq Paths /\ dirs \cap DOMAIN files = {} /\ << >> \in dirs
    BY <1>1 DEF Tree
  <2> QED
    BY <1>1, <1>2, <2>1, MadeIs
<1>4. ASSUME files' = files PROVE Tree'
  <2>1. DOMAIN files \subseteq Paths /\ files \in [DOMAIN files -> Content]
    BY <1>1 DEF Tree
  <2> QED
    BY <1>1, <1>3, <1>4, <2>1, TreeKept
<1>5. CASE Refused
  <2>1. conn' = conn /\ files' = files
    BY <1>5 DEF Refused
  <2>2. conn' \in [Conns -> Requests] /\ \A d \in Conns : ConnOK(d)'
    BY <2>1, PartsHold DEF ConnOK
  <2> QED
    BY <1>4, <2>1, <2>2, PrimedParts
<1>6. CASE Front(p) \in dirs' /\ p \notin dirs' /\ Opened(c, p, b, << >>)
  <2>1. Tree'
    BY <1>1, <1>3, <1>6, OpenedTree DEF Opened
  <2> QED
    BY <1>6, <2>1, OpenedKeeps
<1>7. CASE Answer(c, p, s, "reboot")
  BY <1>4, <1>7, AnswerKeeps DEF Answer
<1> QED
  BY <1>5, <1>6, <1>7 DEF Create

LEMMA PutKeeps ==
  ASSUME FInv, NEW c \in Conns, NEW p \in Paths, NEW s \in BOOLEAN, NEW b \in Bodies, Put(c, p, s, b)
  PROVE  FInv'
<1>1. Tree
  BY PartsHold
<1>2. CASE IsFile(p, s) /\ Opened(c, p, b, Truncated(p)) /\ UNCHANGED dirs
  <2>1. p \in DOMAIN files /\ Opened(c, p, b, << >>) /\ dirs' = dirs
    BY <1>2 DEF IsFile, Truncated
  <2>2. dirs \subseteq Paths /\ dirs \cap DOMAIN files = {}
    BY <1>1 DEF Tree
  <2>3. Tree'
    BY <1>1, <2>1, <2>2, OpenedTree DEF Opened
  <2> QED
    BY <2>1, <2>3, OpenedKeeps
<1>3. CASE Answer(c, p, s, "reboot") /\ UNCHANGED dirs
  <2>1. Tree'
    BY <1>1, <1>3 DEF Answer, Tree
  <2> QED
    BY <1>3, <2>1, AnswerKeeps
<1>4. CASE ~Exists(p, s) /\ Create(c, p, s, b)
  BY <1>4, CreateKeeps
<1> QED
  BY <1>2, <1>3, <1>4 DEF Put

LEMMA SameKeeps ==
  ASSUME FInv, UNCHANGED vars
  PROVE  FInv'
BY DEF FInv, TypeOK, Uploads, vars

LEMMA PostKeeps ==
  ASSUME FInv, NEW c \in Conns, NEW p \in Paths, NEW s \in BOOLEAN, NEW b \in Bodies, Post(c, p, s, b)
  PROVE  FInv'
<1>1. CASE Refused /\ UNCHANGED dirs
  BY <1>1, SameKeeps DEF Refused, vars
<1>2. CASE ~Exists(p, s) /\ Create(c, p, s, b)
  BY <1>2, CreateKeeps
<1> QED
  BY <1>1, <1>2 DEF Post

LEMMA DeleteKeeps ==
  ASSUME FInv, NEW c \in Conns, NEW p \in Paths, NEW s \in BOOLEAN, Delete(c, p, s)
  PROVE  FInv'
<1>1. Tree /\ TypeOK /\ dirs' = dirs
  BY PartsHold DEF FInv, Delete
<1>2. CASE Refused
  BY <1>1, <1>2, SameKeeps DEF Refused, vars
<1>3. CASE Answer(c, p, s, "deleted")
  <2>1. Tree'
    BY <1>1, <1>3 DEF Answer, Tree
  <2> QED
    BY <1>3, <2>1, AnswerKeeps
<1>4. ASSUME NEW v \in Victims[p],
             files' = [q \in DOMAIN files \ {v} |-> files[q]],
             conn' = [Notice(Conns \ {c}, v, TRUE) EXCEPT
                        ![c] = [Idle EXCEPT !.phase = "deleted", !.path = p, !.slash = s]]
      PROVE  FInv'
  <2> DEFINE g == Answered(p, s, "deleted")
  <2>1. conn' = [Notice(Conns \ {c}, v, TRUE) EXCEPT ![c] = g]
    BY <1>4 DEF Answered
  <2>2. /\ g \in Requests /\ g.phase = "deleted" /\ ~g.linked /\ g.off = 0 /\ g.body = << >>
    <3>1. "deleted" \in Outcomes
      BY DEF Outcomes
    <3> QED
      BY <3>1, AnsweredIs
  <2> HIDE DEF g
  <2>3. Tree'
    BY <1>1, <1>4 DEF Tree
  <2>4. conn'[c] = g => ConnOK(c)'
    BY <2>2, EmptySeq DEF ConnOK
  <2>5. \A q \in DOMAIN files : q # v => q \in DOMAIN files' /\ files'[q] = files[q]
    BY <1>4
  <2> QED
    BY <2>1, <2>2, <2>3, <2>4, <2>5, FileChanged
<1> QED
  BY <1>2, <1>3, <1>4 DEF Delete

LEMMA WriteKeeps ==
  ASSUME FInv, NEW c \in Conns, Write(c)
  PROVE  FInv'
<1> DEFINE r == conn[c]
           g == [r EXCEPT !.off = @ + 1]
           piece == r.body[r.off + 1]
<1>1. Tree /\ conn \in [Conns -> Requests] /\ (\A d \in Conns : ConnOK(d)) /\ dirs' = dirs
  BY PartsHold DEF Write
<1>2. /\ r \in Requests /\ r.phase = "uploading" /\ r.off \in Nat /\ r.off < Len(r.body)
      /\ r.body \in Bodies \cup {<< >>}
      /\ r.linked => r.path \in DOMAIN files
      /\ r.alone => /\ r.linked /\ Len(files[r.path]) = r.off
                    /\ \A i \in 1..r.off : files[r.path][i] = r.body[i]
  BY <1>1 DEF ConnOK, Write, Requests
<1>3. /\ g \in Requests /\ g.phase = r.phase /\ g.path = r.path /\ g.body = r.body
      /\ g.off = r.off + 1 /\ g.linked = r.linked /\ g.alone = r.alone
  BY <1>2 DEF Requests
<1>4. Len(r.body) \in Nat /\ r.off + 1 =< Len(r.body) /\ piece \in Bytes
  <2>1. r.body \in Seq(Bytes) /\ Len(r.body) \in Nat
    BY <1>2, BodyIs
  <2>2. r.off + 1 \in 1..Len(r.body)
    BY <1>2, <2>1
  <2> QED
    BY <2>1, <2>2, ElementOfSeq
<1>5. CASE r.linked
  <2> DEFINE w == Written(files[r.path], r.off, piece)
  <2>1. /\ files' = [files EXCEPT ![r.path] = w]
        /\ conn' = [Notice(Conns \ {c}, r.path, FALSE) EXCEPT ![c].off = @ + 1]
    BY <1>5 DEF Write
  <2>2. Notice(Conns \ {c}, r.path, FALSE)[c] = r
    BY DEF Notice
  <2>3. conn' = [Notice(Conns \ {c}, r.path, FALSE) EXCEPT ![c] = g]
    BY <2>1, <2>2 DEF Notice
  <2>4. files \in [DOMAIN files -> Content] /\ files[r.path] \in Content
    BY <1>1, <1>2, <1>5 DEF Tree
  <2>5. /\ w \in Content
        /\ Len(files[r.path]) = r.off => /\ Len(w) = r.off + 1 /\ w[r.off + 1] = piece
                                         /\ \A i \in 1..r.off : w[i] = files[r.path][i]
    BY <1>2, <1>4, <2>4, WrittenIs
  <2> HIDE DEF w, g
  <2>6. DOMAIN files' = DOMAIN files /\ files' \in [DOMAIN files -> Content] /\ files'[r.path] = w
        /\ \A q \in DOMAIN files : q # r.path => files'[q] = files[q]
    BY <1>2, <1>5, <2>1, <2>4, <2>5
  <2>7. Tree'
    BY <1>1, <2>6 DEF Tree
  <2>8. ASSUME r.alone
        PROVE  Len(w) = r.off + 1 /\ \A i \in 1..(r.off + 1) : w[i] = r.body[i]
    <3>1. /\ Len(w) = r.off + 1 /\ w[r.off + 1] = r.body[r.off + 1]
          /\ \A i \in 1..r.off : w[i] = r.body[i]
      BY <1>2, <2>5, <2>8
    <3>2. \A i \in 1..(r.off + 1) : i = r.off + 1 \/ i \in 1..r.off
      BY <1>2
    <3> QED
      BY <3>1, <3>2
  <2>9. conn'[c] = g => ConnOK(c)'
    <3>1. g.off =< Len(g.body) /\ g.path \in DOMAIN files' /\ g.linked /\ g.phase = "uploading"
      BY <1>2, <1>3, <1>4, <1>5, <2>6
    <3>2. g.alone => Len(files'[g.path]) = g.off /\ \A i \in 1..g.off : files'[g.path][i] = g.body[i]
      BY <1>3, <2>6, <2>8
    <3> QED
      BY <1>3, <3>1, <3>2 DEF ConnOK
  <2> QED
    BY ZenonT(60), <1>2, <1>3, <1>5, <2>3, <2>6, <2>7, <2>9, FileChanged
<1>6. CASE ~r.linked
  <2>1. files' = files /\ conn' = [conn EXCEPT ![c] = g]
    BY <1>1, <1>6 DEF Write
  <2> HIDE DEF g
  <2>2. Tree'
    BY <1>1, <2>1 DEF Tree
  <2>3. conn' \in [Conns -> Requests] /\ conn'[c] = g /\ \A d \in Conns : d # c => conn'[d] = conn[d]
    BY <1>1, <1>3, <2>1
  <2>4. ASSUME NEW d \in Conns PROVE ConnOK(d)'
    <3>1. CASE d # c
      BY <1>1, <2>1, <2>3, <3>1, ConnStays DEF ConnOK
    <3>2. CASE d = c
      BY <1>2, <1>3, <1>4, <1>6, <2>3, <3>2 DEF ConnOK
    <3> QED
      BY <3>1, <3>2
  <2> QED
    BY <2>2, <2>3, <2>4, PrimedParts
<1> QED
  BY <1>5, <1>6

LEMMA UploadedKeeps ==
  ASSUME FInv, NEW c \in Conns, Uploaded(c)
  PROVE  FInv'
<1> DEFINE g == [conn[c] EXCEPT !.phase = "done"]
<1>1. Tree /\ conn \in [Conns -> Requests] /\ \A d \in Conns : ConnOK(d)
  BY PartsHold
<1>2. /\ conn[c].phase = "uploading" /\ conn[c].off = Len(conn[c].body)
      /\ conn' = [conn EXCEPT ![c] = g] /\ dirs' = dirs /\ files' = files
  BY DEF Uploaded
<1>3. /\ g \in Requests /\ g.phase = "done" /\ g.path = conn[c].path /\ g.body = conn[c].body
      /\ g.off = conn[c].off /\ g.linked = conn[c].linked /\ g.alone = conn[c].alone
  BY <1>1 DEF Requests, Outcomes
<1> HIDE DEF g
<1>4. Tree'
  BY <1>1, <1>2 DEF Tree
<1>5. conn' \in [Conns -> Requests] /\ conn'[c] = g /\ \A d \in Conns : d # c => conn'[d] = conn[d]
  BY <1>1, <1>2, <1>3
<1>6. ASSUME NEW d \in Conns PROVE ConnOK(d)'
  <2>1. CASE d # c
    BY <1>1, <1>2, <1>5, <2>1, ConnStays DEF ConnOK
  <2>2. CASE d = c
    BY <1>1, <1>2, <1>3, <1>5, <2>2 DEF ConnOK
  <2> QED
    BY <2>1, <2>2
<1> QED
  BY <1>4, <1>5, <1>6, PrimedParts

LEMMA IdleAgainKeeps ==
  ASSUME FInv, NEW c \in Conns, Abort(c) \/ Again(c)
  PROVE  FInv'
<1>1. Tree /\ conn \in [Conns -> Requests] /\ \A d \in Conns : ConnOK(d)
  BY PartsHold
<1>2. conn' = [conn EXCEPT ![c] = Idle] /\ dirs' = dirs /\ files' = files
  BY DEF Abort, Again
<1>3. Tree'
  BY <1>1, <1>2 DEF Tree
<1>4. conn' \in [Conns -> Requests] /\ conn'[c] = Idle /\ \A d \in Conns : d # c => conn'[d] = conn[d]
  BY <1>1, <1>2, IdleIs
<1>5. ASSUME NEW d \in Conns PROVE ConnOK(d)'
  <2>1. CASE d # c
    BY <1>1, <1>2, <1>4, <2>1, ConnStays DEF ConnOK
  <2>2. CASE d = c
    BY <1>4, <2>2, IdleIs, ConnIdle
  <2> QED
    BY <2>1, <2>2
<1> QED
  BY <1>3, <1>4, <1>5, PrimedParts

-----------------------------------------------------------------------------
(* The theorems *)

LEMMA InitHolds == Init => FInv
<1> SUFFICES ASSUME Init PROVE FInv
  OBVIOUS
<1> DEFINE n == CHOOSE m \in Names : TRUE
<1>1. n \in Names
  BY FileManagerAssumption
<1>2. dirs = {<< >>} /\ files = [p \in {<<m>> : m \in {n}} |-> OldBody] /\ conn = [c \in Conns |-> Idle]
  BY DEF Init
<1> HIDE DEF n
<1>3. <<n>> \in Paths /\ Len(<<n>>) = 1 /\ Front(<<n>>) = << >>
  <2>1. <<n>> \in Seq(Names) /\ Len(<<n>>) = 1
    BY <1>1
  <2>2. Len(<<n>>) =< MaxDepth
    BY <2>1, FileManagerAssumption
  <2>3. <<n>> \in Paths
    BY <2>1, <2>2, IsPath
  <2>4. Front(<<n>>) = << >>
    BY <2>1, SubSeqEmpty DEF Front
  <2> QED
    BY <2>1, <2>3, <2>4
<1>4. << >> \in Paths /\ << >> # <<n>>
  BY <1>3, RootIsPath
<1>5. OldBody \in Content
  BY BodyIs, ContentIs
<1>6. DOMAIN files = {<<n>>} /\ files \in [DOMAIN files -> Content]
  BY <1>2, <1>5
<1>7. Tree
  BY <1>2, <1>3, <1>4, <1>6 DEF Tree
<1>8. conn \in [Conns -> Requests] /\ \A c \in Conns : conn[c] = Idle
  BY <1>2, IdleIs
<1>9. \A c \in Conns : ConnOK(c)
  BY <1>8, IdleIs, EmptySeq DEF ConnOK
<1> QED
  BY <1>7, <1>8, <1>9, InvIsParts

LEMMA StepKeeps == FInv /\ [Next]_vars => FInv'
<1> SUFFICES ASSUME FInv, [Next]_vars PROVE FInv'
  OBVIOUS
<1>1. CASE UNCHANGED vars
  BY <1>1, SameKeeps
<1>2. ASSUME NEW c \in Conns, Request(c) \/ Write(c) \/ Uploaded(c) \/ Abort(c) \/ Again(c)
      PROVE  FInv'
  <2>1. CASE Request(c)
    BY <2>1, PutKeeps, PostKeeps, DeleteKeeps DEF Request
  <2> QED
    BY <1>2, <2>1, WriteKeeps, UploadedKeeps, IdleAgainKeeps
<1> QED
  BY <1>1, <1>2 DEF Next

\* The inductive invariant: files and directories are a tree, and what has been
\* written of an upload that nobody has disturbed is what its file contains.
THEOREM FileManagerInvariant == Spec => []FInv
  BY InitHolds, StepKeeps, PTL DEF Spec

\* A file whose upload was answered for holds the body and nothing else, unless
\* another request has opened, written or removed it in the meantime.
THEOREM UploadsAreIntact == Spec => []UploadIntact
<1>1. ASSUME FInv PROVE UploadIntact
  <2> SUFFICES ASSUME NEW c \in Conns, conn[c].phase = "done", conn[c].alone
               PROVE  files[conn[c].path] = conn[c].body
    BY DEF UploadIntact
  <2> DEFINE r == conn[c]
             f == files[r.path]
             b == r.body
  <2>1. Tree /\ ConnOK(c)
    BY <1>1, PartsHold
  <2>2. /\ r.path \in DOMAIN files /\ Len(f) = Len(b) /\ r.body \in Bodies \cup {<< >>}
        /\ \A i \in 1..Len(b) : f[i] = b[i]
    BY <2>1 DEF ConnOK, Requests
  <2>3. f \in Seq(Bytes)
    BY <2>1, <2>2, ContentIs DEF Tree
  <2>4. b \in Seq(Bytes)
    BY <2>2, BodyIs
  <2> HIDE DEF f, b
  <2>5. f = b
    BY <2>2, <2>3, <2>4, SeqEqual
  <2> QED
    BY <2>5 DEF f, b
<1> QED
  BY <1>1, FileManagerInvariant, PTL

\* What the steps of one connection leave of the others, and of what they answer.
LEMMA NoticePhase ==
  ASSUME conn \in [Conns -> Requests], NEW c \in Conns, NEW d \in Conns, d # c, NEW p,
         NEW gone \in BOOLEAN, NEW g, conn' = [Notice(Conns \ {c}, p, gone) EXCEPT ![c] = g]
  PROVE  conn'[c] = g /\ conn'[d].phase = conn[d].phase
<1> DEFINE N == Notice(Conns \ {c}, p, gone)
<1>1. N[d].phase = conn[d].phase
  BY NoticeIs
<1>2. N = [e \in Conns |-> N[e]]
  BY DEF Notice
<1> HIDE DEF N
<1>3. conn'[c] = g /\ conn'[d] = N[d]
  BY <1>2 DEF N
<1> QED
  BY <1>1, <1>3

LEMMA OpenedIs ==
  ASSUME conn \in [Conns -> Requests], NEW c \in Conns, NEW p \in Paths, NEW b \in Bodies, NEW content,
         Opened(c, p, b, content)
  PROVE  /\ conn'[c].phase = "uploading"
         /\ \A d \in Conns : d # c => conn'[d].phase = conn[d].phase
<1>1. conn' = [Notice(Conns \ {c}, p, FALSE) EXCEPT ![c] = Begun(p, b)]
  BY DEF Opened, Begun
<1>2. conn'[c] = Begun(p, b)
  BY <1>1 DEF Notice
<1>3. \A d \in Conns : d # c => conn'[d].phase = conn[d].phase
  BY <1>1, NoticePhase
<1> QED
  BY <1>2, <1>3, BegunIs

LEMMA AnswerIs ==
  ASSUME conn \in [Conns -> Requests], NEW c \in Conns, NEW p \in Paths, NEW s \in BOOLEAN,
         NEW outcome \in {"deleted", "reboot"}, Answer(c, p, s, outcome)
  PROVE  /\ conn'[c].phase = outcome /\ conn'[c].path = p /\ conn'[c].slash = s
         /\ \A d \in Conns : d # c => conn'[d].phase = conn[d].phase
<1>1. conn' = [conn EXCEPT ![c] = Answered(p, s, outcome)]
  BY DEF Answer, Answered
<1>2. conn'[c] = Answered(p, s, outcome) /\ \A d \in Conns : d # c => conn'[d] = conn[d]
  BY <1>1
<1>3. outcome \in Outcomes
  BY DEF Outcomes
<1> QED
  BY <1>2, <1>3, AnsweredIs

LEMMA OwnFields ==
  ASSUME NEW r \in Requests
  PROVE  [r EXCEPT !.off = @ + 1].phase = r.phase
BY DEF Requests

\* A step is about one connection; of another one it changes no phase.
LEMMA OthersPhase ==
  ASSUME FInv, NEW c \in Conns, Request(c) \/ Write(c) \/ Uploaded(c) \/ Abort(c) \/ Again(c),
         NEW d \in Conns, d # c
  PROVE  conn'[d].phase = conn[d].phase
<1>1. conn \in [Conns -> Requests]
  BY PartsHold
<1>2. ASSUME NEW p \in Paths, NEW s \in BOOLEAN, NEW b \in Bodies, Create(c, p, s, b)
      PROVE  conn'[d].phase = conn[d].phase
  BY <1>1, <1>2, OpenedIs, AnswerIs DEF Create, Refused
<1>3. ASSUME NEW p \in Paths, NEW s \in BOOLEAN, NEW b \in Bodies, Put(c, p, s, b) \/ Post(c, p, s, b)
      PROVE  conn'[d].phase = conn[d].phase
  BY <1>1, <1>2, <1>3, OpenedIs, AnswerIs DEF Put, Post, Refused
<1>4. ASSUME NEW p \in Paths, NEW s \in BOOLEAN, Delete(c, p, s)
      PROVE  conn'[d].phase = conn[d].phase
  <2>1. ASSUME NEW v \in Victims[p],
               conn' = [Notice(Conns \ {c}, v, TRUE) EXCEPT
                          ![c] = [Idle EXCEPT !.phase = "deleted", !.path = p, !.slash = s]]
        PROVE  conn'[d].phase = conn[d].phase
    <3> DEFINE g == [Idle EXCEPT !.phase = "deleted", !.path = p, !.slash = s]
    <3>1. conn' = [Notice(Conns \ {c}, v, TRUE) EXCEPT ![c] = g]
      BY <2>1
    <3> HIDE DEF g
    <3> QED
      BY <1>1, <3>1, NoticePhase
  <2>2. CASE Refused \/ Answer(c, p, s, "deleted")
    BY <1>1, <2>2, AnswerIs DEF Refused
  <2> QED
    BY <1>4, <2>1, <2>2 DEF Delete
<1>5. CASE Write(c)
  <2>1. CASE conn[c].linked
    <3> DEFINE N == Notice(Conns \ {c}, conn[c].path, FALSE)
    <3>1. conn' = [N EXCEPT ![c].off = @ + 1]
      BY <1>5, <2>1 DEF Write
    <3>2. conn' = [N EXCEPT ![c] = [N[c] EXCEPT !.off = @ + 1]]
      BY <3>1
    <3> QED
      BY <1>1, <3>2, NoticePhase
  <2>2. CASE ~conn[c].linked
    BY <1>1, <1>5, <2>2 DEF Write
  <2> QED
    BY <2>1, <2>2
<1>6. CASE Uploaded(c) \/ Abort(c) \/ Again(c)
  BY <1>1, <1>6 DEF Uploaded, Abort, Again
<1>7. CASE Request(c)
  BY <1>3, <1>4, <1>7 DEF Request
<1> QED
  BY <1>5, <1>6, <1>7

\* Only a request takes a connection from idle to an outcome.
LEMMA OwnPhase ==
  ASSUME FInv, NEW c \in Conns, Write(c) \/ Uploaded(c) \/ Abort(c) \/ Again(c)
  PROVE  conn[c].phase # "idle"
BY DEF Write, Uploaded, Abort, Again, Outcomes

\* Without a slash at the end and without a conflict, everything above the path is a
\* directory once it has been made, and the path itself is none.
LEMMA AllMade ==
  ASSUME Tree, NEW p \in Paths, NEW s \in BOOLEAN, ~s, ~IsConflict(p, s), p \notin dirs
  PROVE  Front(p) \in dirs \cup Made(p, s) /\ p \notin Made(p, s)
<1>1. Made(p, s) = Parents(p, s) /\ \A q \in Made(p, s) : Len(q) < Len(p)
  BY MadeIs
<1>2. << >> \in dirs /\ p # << >>
  BY DEF Tree
<1>3. Len(p) \in Nat /\ Len(p) >= 1 /\ Front(p) = Prefix(p, Len(p) - 1)
  BY <1>2, FrontIs
<1>4. p \notin Made(p, s)
  BY <1>1, <1>3
<1> DEFINE k == Len(p) - 1
<1>5. k \in 0..Len(p)
  BY <1>3
<1>6. CASE k = 0
  <2>1. Prefix(p, k) \in Seq(Names) /\ Len(Prefix(p, k)) = 0
    BY <1>5, <1>6, PrefixIs, PathIs
  <2>2. Prefix(p, k) = << >>
    BY <2>1, EmptySeq
  <2> QED
    BY <1>2, <1>3, <1>4, <2>2
<1>7. CASE k # 0
  <2>1. k \in 1..(Len(p) - 1)
    <3> DEFINE l == Len(p)
    <3>1. l \in Nat /\ l >= 1 /\ k = l - 1
      BY <1>3
    <3> HIDE DEF l, k
    <3>2. k \in 1..(l - 1)
      BY <1>7, <3>1
    <3> QED
      BY <3>2 DEF l
  <2>2. Parents(p, s) = {Prefix(p, j) : j \in 1..(Len(p) - 1)}
    BY DEF Parents
  <2>3. Prefix(p, k) \in Parents(p, s)
    BY <2>1, <2>2
  <2> QED
    BY <1>1, <1>3, <1>4, <2>3
<1> QED
  BY <1>6, <1>7

\* The only open that fails is that of a directory: of one that was there before, or
\* of one that isConflict has just made because the path ends with a slash.
THEOREM RebootsHaveTheirCauses == Spec => RebootCauses
<1>1. ASSUME FInv, [Next]_vars, NEW d \in Conns, conn[d].phase = "idle", conn'[d].phase = "reboot"
      PROVE  conn'[d].slash \/ conn'[d].path \in dirs
  <2>1. Tree /\ conn \in [Conns -> Requests]
    BY <1>1, PartsHold
  <2>2. conn' # conn
    BY <1>1
  <2>3. PICK c \in Conns : Request(c) \/ Write(c) \/ Uploaded(c) \/ Abort(c) \/ Again(c)
    BY <1>1, <2>2 DEF Next, vars
  <2>4. c = d
    BY <1>1, <2>3, OthersPhase
  <2>5. Request(d)
    BY <1>1, <2>3, <2>4, OwnPhase
  <2>6. ASSUME NEW p \in Paths, NEW s \in BOOLEAN, NEW b \in Bodies, ~Exists(p, s), Create(d, p, s, b)
        PROVE  conn'[d].slash \/ conn'[d].path \in dirs
    <3>1. CASE Refused \/ Opened(d, p, b, << >>)
      BY <1>1, <2>1, <3>1, OpenedIs DEF Refused
    <3>2. CASE ~IsConflict(p, s) /\ (Front(p) \notin dirs' \/ p \in dirs') /\ Answer(d, p, s, "reboot")
      <4>1. conn'[d].slash = s
        BY <2>1, <3>2, AnswerIs
      <4>2. p \notin dirs
        BY <2>6 DEF Exists, IsDirectory
      <4>3. dirs' = dirs \cup Made(p, s)
        BY <2>6 DEF Create
      <4>4. s # FALSE
        BY <2>1, <3>2, <4>2, <4>3, AllMade
      <4> QED
        BY <4>1, <4>4
    <3> QED
      BY <2>6, <3>1, <3>2 DEF Create
  <2>7. ASSUME NEW p \in Paths, NEW s \in BOOLEAN, NEW b \in Bodies, Put(d, p, s, b) \/ Post(d, p, s, b)
        PROVE  conn'[d].slash \/ conn'[d].path \in dirs
    <3>1. CASE IsDirectory(p) /\ Answer(d, p, s, "reboot")
      BY <2>1, <3>1, AnswerIs DEF IsDirectory
    <3>2. CASE Opened(d, p, b, Truncated(p)) \/ Refused
      BY <1>1, <2>1, <3>2, OpenedIs DEF Refused
    <3> QED
      BY <2>6, <2>7, <3>1, <3>2 DEF Put, Post
  <2>8. ASSUME NEW p \in Paths, NEW s \in BOOLEAN, Delete(d, p, s)
        PROVE  FALSE
    <3>1. CASE Refused \/ Answer(d, p, s, "deleted")
      BY <1>1, <2>1, <3>1, AnswerIs DEF Refused
    <3>2. ASSUME NEW v \in Victims[p],
                 conn' = [Notice(Conns \ {d}, v, TRUE) EXCEPT
                            ![d] = [Idle EXCEPT !.phase = "deleted", !.path = p, !.slash = s]]
          PROVE  FALSE
      <4>1. conn'[d] = Answered(p, s, "deleted")
        BY <3>2 DEF Notice, Answered
      <4>2. conn'[d].phase = "deleted"
        BY <4>1, AnsweredIs DEF Outcomes
      <4> QED
        BY <1>1, <4>2
    <3> QED
      BY <2>8, <3>1, <3>2 DEF Delete
  <2> QED
    BY <2>5, <2>7, <2>8 DEF Request
<1>2. FInv /\ [Next]_vars =>
        [\A c \in Conns :
           conn[c].phase = "idle" /\ conn'[c].phase = "reboot" =>
             conn'[c].slash \/ conn'[c].path \in dirs]_vars
  BY <1>1
<1> QED
  BY <1>2, FileManagerInvariant, PTL DEF Spec, RebootCauses

\* DELETE never removes a directory, and at most one file: the one it names, or one
\* below the directory it names, whatever order readdir has.
THEOREM DeletesStayInScope == Spec => DeleteScope
<1> DEFINE Gone == DOMAIN files \ DOMAIN files'
           Scope(p) == /\ dirs' = dirs /\ Cardinality(Gone) =< 1
                       /\ \A q \in Gone : IsPrefix(p, q)
                       /\ p \in DOMAIN files => Gone = {p}
<1>1. ASSUME FInv, [Next]_vars, NEW d \in Conns, conn[d].phase = "idle", conn'[d].phase = "deleted"
      PROVE  Scope(conn'[d].path)
  <2>1. Tree /\ conn \in [Conns -> Requests] /\ TypeOK
    BY <1>1, PartsHold DEF FInv
  <2>2. conn' # conn
    BY <1>1
  <2>3. PICK c \in Conns : Request(c) \/ Write(c) \/ Uploaded(c) \/ Abort(c) \/ Again(c)
    BY <1>1, <2>2 DEF Next, vars
  <2>4. c = d
    BY <1>1, <2>3, OthersPhase
  <2>5. Request(d)
    BY <1>1, <2>3, <2>4, OwnPhase
  <2>6. ASSUME NEW p \in Paths, NEW s \in BOOLEAN, NEW b \in Bodies, Put(d, p, s, b) \/ Post(d, p, s, b)
        PROVE  FALSE
    <3>1. Refused \/ Answer(d, p, s, "reboot") \/ \E content : Opened(d, p, b, content)
      BY <2>6 DEF Put, Post, Create
    <3> QED
      BY <1>1, <2>1, <3>1, OpenedIs, AnswerIs DEF Refused
  <2>7. PICK p \in Paths, s \in BOOLEAN : Delete(d, p, s)
    BY <2>5, <2>6 DEF Request
  <2>8. CASE Refused
    BY <1>1, <2>8 DEF Refused
  <2>9. CASE Victims[p] = {} /\ Answer(d, p, s, "deleted")
    <3>1. conn'[d].path = p /\ files' = files /\ dirs' = dirs
      <4>1. conn'[d].path = p
        BY <2>1, <2>9, AnswerIs
      <4>2. files' = files
        BY <2>9 DEF Answer
      <4>3. dirs' = dirs
        BY <2>7 DEF Delete
      <4> QED
        BY <4>1, <4>2, <4>3
    <3>2. Gone = {} /\ Cardinality(Gone) = 0
      BY <3>1, FS_EmptySet
    <3>3. p \notin DOMAIN files
      <4>1. p \in DOMAIN files => p \notin dirs
        BY <2>1 DEF Tree
      <4>2. Victims[p] = Step(Victims, p)
        BY <2>1, VictimsSolves
      <4> QED
        BY <2>9, <4>1, <4>2 DEF Step
    <3> QED
      BY <3>1, <3>2, <3>3
  <2>10. ASSUME NEW v \in Victims[p],
                files' = [q \in DOMAIN files \ {v} |-> files[q]],
                conn' = [Notice(Conns \ {d}, v, TRUE) EXCEPT
                           ![d] = [Idle EXCEPT !.phase = "deleted", !.path = p, !.slash = s]]
         PROVE  Scope(conn'[d].path)
    <3>1. conn'[d] = Answered(p, s, "deleted")
      BY <2>10 DEF Notice, Answered
    <3>2. conn'[d].path = p
      BY <3>1, AnsweredIs DEF Outcomes
    <3>3. v \in DOMAIN files /\ IsPrefix(p, v) /\ (p \in DOMAIN files => v = p)
      BY <2>1, VictimsAreBelow
    <3>4. Gone = {v}
      BY <2>10, <3>3
    <3>5. Cardinality(Gone) = 1
      BY <3>4, FS_Singleton
    <3>6. dirs' = dirs
      BY <2>7 DEF Delete
    <3> QED
      BY <3>2, <3>3, <3>4, <3>5, <3>6
  <2> QED
    BY <2>7, <2>8, <2>9, <2>10 DEF Delete
<1>2. FInv /\ [Next]_vars =>
        [\A c \in Conns :
           conn[c].phase = "idle" /\ conn'[c].phase = "deleted" => Scope(conn'[c].path)]_vars
  BY <1>1
<1> QED
  BY <1>2, FileManagerInvariant, PTL DEF Spec, DeleteScope
=============================================================================
