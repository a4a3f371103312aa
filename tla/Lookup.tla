------------------------------- MODULE Lookup -------------------------------
(***************************************************************************)
(* VirtualServer::_findLocationInfo: the location of a request, found by   *)
(* cutting the URI at its last slash until it is the key of a location.    *)
(* It runs before every handler, in the server's only thread.  A URI is a  *)
(* sequence of slashes and other characters.                               *)
(***************************************************************************)
EXTENDS Integers, Sequences

CONSTANTS Chars,  \* the characters of URIs, the slash among them
          Uris,   \* the URIs that clients ask for
          Configurations  \* the sets of locations that a server may have

ASSUME LookupAssumption ==
  "/" \in Chars /\ Uris \subseteq Seq(Chars) /\ Configurations \subseteq SUBSET Seq(Chars)

VARIABLES
  keys,       \* the locations that the configuration gives the server
  locations,  \* the keys of _serverInfo.locations
  phase,      \* "idle", "looking", "found"
  uri,        \* of the request
  key,        \* what is left of it
  found       \* the key of the LocationInfo that is returned
lookupVars == <<keys, locations, phase, uri, key, found>>

Root == <<"/">>

LookupTypeOK ==
  /\ keys \subseteq Seq(Chars) /\ keys \subseteq locations /\ locations \subseteq keys \cup {Root}
  /\ phase \in {"idle", "looking", "found"}
  /\ uri \in Seq(Chars) /\ key \in Seq(Chars) /\ found \in Seq(Chars)

LookupInit ==
  /\ keys \in Configurations /\ locations = keys /\ phase = "idle"
  /\ uri = << >> /\ key = << >> /\ found = << >>

Request(u) ==
  /\ phase # "looking" /\ phase' = "looking"
  /\ uri' = u /\ key' = u
  /\ UNCHANGED <<keys, locations, found>>

\* The loop's condition.
More == phase = "looking" /\ key # Root /\ key # << >>

Hit ==
  /\ More /\ key \in locations
  /\ phase' = "found" /\ found' = key
  /\ UNCHANGED <<keys, locations, uri, key>>

\* Mutant of LastSlash: the first slash is taken.
FirstSlash(s, i) == s[i] = "/" /\ \A j \in 1..(i - 1) : s[j] # "/"

\* rfind('/')
LastSlash(s, i) == s[i] = "/" /\ \A j \in (i + 1)..Len(s) : s[j] # "/"

\* Mutant of Before: the wrong side is kept.
After(s, i) == SubSeq(s, i + 1, Len(s))

\* substr(0, i)
Before(s, i) == SubSeq(s, 1, i - 1)

Cut ==
  /\ More /\ key \notin locations
  /\ \E i \in 1..Len(key) : LastSlash(key, i) /\ key' = Before(key, i)
  /\ UNCHANGED <<keys, locations, phase, uri, found>>

\* operator[] inserts what it does not find.
Inserted == {Root}

Default ==
  /\ phase = "looking" /\ key \in {Root, << >>}
  /\ phase' = "found" /\ found' = Root
  /\ locations' = locations \cup Inserted
  /\ UNCHANGED <<keys, uri, key>>

LookupNext == (\E u \in Uris : Request(u)) \/ Hit \/ Cut \/ Default

LookupSpec == LookupInit /\ [][LookupNext]_lookupVars

-----------------------------------------------------------------------------
(* Properties *)

\* The path that the first n characters of the URI are, if they end a segment of it.
Ends(n) == n \in 1..Len(uri) /\ (n = Len(uri) \/ uri[n + 1] = "/")
Candidates == {n \in 1..Len(uri) : Ends(n) /\ SubSeq(uri, 1, n) \in keys}

\* The location is the longest one whose path the URI is, or lies below; if there
\* is none it is "/".  Locations that the lookup itself has inserted never count.
LongestFound ==
  phase = "found" =>
    \/ \E n \in Candidates : found = SubSeq(uri, 1, n) /\ \A m \in Candidates : m =< n
    \/ found = Root /\ Candidates \subseteq {1}

\* FileManager cuts the location's identifier off the URI: that never throws, and
\* cuts off the beginning that both have in common, provided the URI starts with a slash.
CutFits ==
  phase = "found" /\ uri # << >> /\ uri[1] = "/" =>
    Len(found) =< Len(uri) /\ found = SubSeq(uri, 1, Len(found))

\* The loop that cuts at the last slash, when there is none left, never ends: the
\* server stands still.  No URI that starts with a slash gets there.
Endless == More /\ key \notin locations /\ \A i \in 1..Len(key) : key[i] # "/"
EndlessCauses == Endless => uri[1] # "/"

=============================================================================
