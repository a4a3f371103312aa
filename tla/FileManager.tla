----------------------------- MODULE FileManager -----------------------------
(***************************************************************************)
(* FileManager on the file system below a location's root, as              *)
(* ResponseFactory uses it for PUT, POST and DELETE, and the uploads that  *)
(* several connections write at the same time.  A path is the sequence of  *)
(* names below the root, << >> the root itself: _appendFileName puts one   *)
(* slash between names, whatever slashes the URI and the root have.        *)
(***************************************************************************)
EXTENDS Integers, FiniteSets, SequencesExt

CONSTANTS Conns,     \* connections
          Names,     \* of files and directories
          MaxDepth,  \* bound on the depth of the directories
          Bodies,    \* what clients upload
          OldBody,   \* what the file that is there at first contains
          Hole       \* what a file contains where nobody has written

ASSUME FileManagerAssumption ==
  /\ MaxDepth \in Nat \ {0} /\ Names # {}
  /\ \A b \in Bodies \cup {OldBody} : b \in Seq(Range(b)) /\ Hole \notin Range(b)

Paths == UNION {[1..n -> Names] : n \in 0..MaxDepth}

VARIABLES
  dirs,   \* the directories
  files,  \* the contents of the files
  conn    \* what each connection asked for, and how far it is
vars == <<dirs, files, conn>>

Prefix(p, k) == SubSeq(p, 1, k)
Content == Seq({Hole} \cup UNION {Range(b) : b \in Bodies \cup {OldBody}})

\* Requests: a path, written with a slash at its end or not.
Idle == [phase |-> "idle", path |-> << >>, slash |-> FALSE, body |-> << >>, off |-> 0,
         linked |-> FALSE, alone |-> TRUE]
Outcomes == {"done", "deleted", "reboot"}
Requests ==
  [phase : Outcomes \cup {"idle", "uploading"}, path : Paths, slash : BOOLEAN,
   body : Bodies \cup {<< >>}, off : Nat, linked : BOOLEAN, alone : BOOLEAN]

\* The tree stays a tree: everything lies in a directory, nothing is file and directory.
TypeOK ==
  /\ dirs \subseteq Paths /\ DOMAIN files \subseteq Paths \ dirs /\ << >> \in dirs
  /\ \A p \in (dirs \cup DOMAIN files) \ {<< >>} : Front(p) \in dirs
  /\ files \in [DOMAIN files -> Content] /\ conn \in [Conns -> Requests]
  /\ \A c \in Conns :
       /\ conn[c].off =< Len(conn[c].body)
       /\ conn[c].linked => conn[c].path \in DOMAIN files

Init ==
  /\ dirs = {<< >>}
  /\ files = [p \in {<<n>> : n \in {CHOOSE n \in Names : TRUE}} |-> OldBody]
  /\ conn = [c \in Conns |-> Idle]

\* _updateFileInfo: lstat does not find a file behind a slash.
IsDirectory(p) == p \in dirs
IsFile(p, s) == p \in DOMAIN files /\ ~s
Exists(p, s) == IsDirectory(p) \/ IsFile(p, s)

\* Mutant of Parents: what is behind the last slash is taken for a directory, too.
TargetToo(p, s) == {Prefix(p, k) : k \in 1..Len(p)}

\* What isConflict looks at: the part of the path before its last slash.
Parents(p, s) == {Prefix(p, k) : k \in 1..(Len(p) - (IF s THEN 0 ELSE 1))}
IsConflict(p, s) == \E q \in Parents(p, s) : q \in DOMAIN files

\* mkdir for each of them, until one is a file.
Made(p, s) == {q \in Parents(p, s) : \A k \in 1..Len(q) : Prefix(q, k) \notin DOMAIN files}

\* Requests of others notice that the file at p has been changed or removed.
Notice(others, p, gone) ==
  [c \in Conns |->
     IF c \in others /\ conn[c].linked /\ conn[c].path = p
     THEN [conn[c] EXCEPT !.alone = FALSE, !.linked = ~gone] ELSE conn[c]]

\* The request ends with an answer, or with an exception that reboots the server.
Answer(c, p, s, outcome) ==
  /\ conn' = [conn EXCEPT ![c] = [Idle EXCEPT !.phase = outcome, !.path = p, !.slash = s]]
  /\ UNCHANGED files

\* Answered with 301, 404 or 409: the connection may ask again.
Refused == UNCHANGED <<files, conn>>

\* The file is open, with that content, and the body will be written to it.
Opened(c, p, b, content) ==
  /\ files' = [q \in DOMAIN files \cup {p} |-> IF q = p THEN content ELSE files[q]]
  /\ conn' = [Notice(Conns \ {c}, p, FALSE) EXCEPT
                ![c] = [Idle EXCEPT !.phase = "uploading", !.path = p, !.body = b, !.linked = TRUE]]

\* Mutant of Truncated: O_TRUNC is forgotten.
Untouched(p) == files[p]

\* open with O_TRUNC
Truncated(p) == << >>

\* The end of POST and PUT for a path where nothing is: directories are made, and a
\* file, unless the path ends with a slash: then it is a directory by now.
Create(c, p, s, b) ==
  /\ dirs' = dirs \cup Made(p, s)
  /\ \/ IsConflict(p, s) /\ Refused
     \/ ~IsConflict(p, s) /\ Front(p) \in dirs' /\ p \notin dirs' /\ Opened(c, p, b, << >>)
     \/ ~IsConflict(p, s) /\ (Front(p) \notin dirs' \/ p \in dirs') /\ Answer(c, p, s, "reboot")

Put(c, p, s, b) ==
  /\ conn[c].phase = "idle"
  /\ \/ IsFile(p, s) /\ Opened(c, p, b, Truncated(p)) /\ UNCHANGED dirs
     \/ IsDirectory(p) /\ Answer(c, p, s, "reboot") /\ UNCHANGED dirs
     \/ ~Exists(p, s) /\ Create(c, p, s, b)

Post(c, p, s, b) ==
  /\ conn[c].phase = "idle"
  /\ \/ Exists(p, s) /\ Refused /\ UNCHANGED dirs
     \/ ~Exists(p, s) /\ Create(c, p, s, b)

\* Mutant of Entry: the name is looked up beside the directory.
Beside(p, n) == IF p = << >> THEN <<n>> ELSE Append(Front(p), n)

\* _appendFileName on an entry of a directory.
Entry(p, n) == Append(p, n)

\* What removeFile may remove.  It goes on from the path of the entry before, so only
\* the first entry of a directory counts, in whatever order readdir returns them; and
\* it reads on in the directory it opened last, which has no entries left.
Victims ==
  LET v[p \in Paths] ==
        IF p \notin dirs THEN {p} \cap DOMAIN files
        ELSE UNION {v[Entry(p, n)] :
                      n \in {m \in Names : Append(p, m) \in dirs \cup DOMAIN files}}
  IN  v

Delete(c, p, s) ==
  /\ conn[c].phase = "idle" /\ UNCHANGED dirs
  /\ \/ ~Exists(p, s) /\ Refused
     \/ Exists(p, s) /\ Victims[p] = {} /\ Answer(c, p, s, "deleted")
     \/ /\ Exists(p, s)
        /\ \E v \in Victims[p] :
             /\ files' = [q \in DOMAIN files \ {v} |-> files[q]]
             /\ conn' = [Notice(Conns \ {c}, v, TRUE) EXCEPT
                           ![c] = [Idle EXCEPT !.phase = "deleted", !.path = p, !.slash = s]]

\* The kernel fills what lies between the end of the file and the position.
Written(content, off, piece) ==
  [i \in 1..(IF Len(content) > off THEN Len(content) ELSE off + 1) |->
     IF i = off + 1 THEN piece ELSE IF i =< Len(content) THEN content[i] ELSE Hole]

\* Storage::memToFile writes a piece of the body at the position of its descriptor.
Write(c) ==
  LET r == conn[c] IN
  /\ r.phase = "uploading" /\ r.off < Len(r.body)
  /\ IF r.linked
     THEN /\ files' = [files EXCEPT ![r.path] = Written(@, r.off, r.body[r.off + 1])]
          /\ conn' = [Notice(Conns \ {c}, r.path, FALSE) EXCEPT ![c].off = @ + 1]
     ELSE UNCHANGED files /\ conn' = [conn EXCEPT ![c].off = @ + 1]
  /\ UNCHANGED dirs

\* The whole body has been written, or the upload is given up where it is.
Uploaded(c) ==
  /\ conn[c].phase = "uploading" /\ conn[c].off = Len(conn[c].body)
  /\ conn' = [conn EXCEPT ![c].phase = "done"] /\ UNCHANGED <<dirs, files>>
Abort(c) ==
  /\ conn[c].phase = "uploading"
  /\ conn' = [conn EXCEPT ![c] = Idle] /\ UNCHANGED <<dirs, files>>

\* The connection, or the one that the next client opens, asks again.
Again(c) ==
  /\ conn[c].phase \in Outcomes
  /\ conn' = [conn EXCEPT ![c] = Idle] /\ UNCHANGED <<dirs, files>>

Request(c) ==
  \E p \in Paths, s \in BOOLEAN :
    \/ \E b \in Bodies : Put(c, p, s, b) \/ Post(c, p, s, b)
    \/ Delete(c, p, s)

Next == \E c \in Conns : Request(c) \/ Write(c) \/ Uploaded(c) \/ Abort(c) \/ Again(c)

Spec == Init /\ [][Next]_vars

-----------------------------------------------------------------------------
(* Properties *)

\* A file whose upload was answered for holds the body and nothing else, also where it
\* was longer before, unless another request has opened, written or removed it since
\* the upload began: uploads of two connections to one file do mix.
UploadIntact ==
  \A c \in Conns :
    conn[c].phase = "done" /\ conn[c].alone => files[conn[c].path] = conn[c].body

\* The only open that fails is that of a directory: of one that was there before, or
\* of one that isConflict has just made because the path ends with a slash.  Otherwise
\* all directories above the file are there by then, and the file is not one of them.
RebootCauses ==
  [][\A c \in Conns :
       conn[c].phase = "idle" /\ conn'[c].phase = "reboot" =>
         conn'[c].slash \/ conn'[c].path \in dirs]_vars

\* DELETE never removes a directory, and at most one file: the one it names, or one
\* below the directory it names.
DeleteScope ==
  [][\A c \in Conns :
       conn[c].phase = "idle" /\ conn'[c].phase = "deleted" =>
         LET gone == DOMAIN files \ DOMAIN files'
             p == conn'[c].path
         IN  /\ dirs' = dirs /\ Cardinality(gone) =< 1
             /\ \A q \in gone : IsPrefix(p, q)
             /\ p \in DOMAIN files => gone = {p}]_vars
=============================================================================
