----------------------------- MODULE Connection -----------------------------
(***************************************************************************)
(* What the server promises its clients, in abstract terms: one's requests *)
(* are worked on one at a time and go through their phases in order, each  *)
(* gets one response, nothing is sent before that response exists, a       *)
(* connection whose request was malformed is not used again, and a closed  *)
(* one never comes back.  How several connections share the loop, the      *)
(* kqueue and the descriptors is left to EventLoop.                        *)
(***************************************************************************)
EXTENDS Integers

CONSTANT Conns

VARIABLES phase,     \* what each connection is doing
          response,  \* its HttpResponse: none yet, made, or deleted
          good       \* no part of its request was found to be malformed
vars == <<phase, response, good>>

\* The phases of a request, in the order in which it may go through them.
Order(p) ==
  CASE p = "receiving" -> 0 [] p = "parsed" -> 1 [] p = "uploading" -> 2
    [] p = "running" -> 3 [] p = "downloading" -> 4 [] p = "sending" -> 5
Phases == {"receiving", "parsed", "uploading", "running", "downloading", "sending"}

TypeOK ==
  /\ phase \in [Conns -> Phases \cup {"none", "closed"}]
  /\ response \in [Conns -> {"none", "made", "deleted"}]
  /\ good \in [Conns -> BOOLEAN]

Init ==
  /\ phase = [c \in Conns |-> "none"]
  /\ response = [c \in Conns |-> "none"]
  /\ good = [c \in Conns |-> TRUE]

Accept(c) ==
  /\ phase[c] = "none" /\ phase'[c] = "receiving"
  /\ UNCHANGED <<response[c], good[c]>>

\* The request is complete, or malformed.
Parse(c) ==
  /\ phase[c] = "receiving" /\ phase'[c] = "parsed"
  /\ UNCHANGED response[c]

\* On to a later phase, with a response if it is one that needs it; a program is
\* run only for a request that is not malformed.
Advance(c) ==
  /\ phase[c] \in Phases \ {"receiving"}
  /\ phase'[c] \in Phases /\ Order(phase[c]) < Order(phase'[c])
  /\ response'[c] \in {response[c], "made"}
  /\ phase'[c] \in {"downloading", "sending"} => response'[c] = "made"
  /\ phase'[c] = "running" => good'[c]
  /\ good'[c] => good[c]

\* A body that turns out to be malformed or too large, or a program that cannot
\* be started, changes the answer; making the new answer may fail, too.
ChangeAnswer(c) ==
  /\ phase[c] = "uploading"
  /\ response'[c] \in {"none", "made", "deleted"} /\ (good'[c] => good[c])
  /\ UNCHANGED phase[c]

\* The response has been sent, and the next request is received.
Finish(c) ==
  /\ phase[c] = "sending" /\ response[c] = "made" /\ good[c]
  /\ phase'[c] = "receiving" /\ response'[c] = "none" /\ good'[c]

Close(c) ==
  /\ phase[c] \in Phases /\ phase'[c] = "closed"
  /\ response'[c] = "none" /\ good'[c]

Step(c) == \/ Accept(c) \/ Parse(c) \/ Advance(c)
           \/ ChangeAnswer(c) \/ Finish(c) \/ Close(c)

\* Connections do not wait for one another: any number of them may step at once.
Next == \A c \in Conns : [Step(c)]_<<phase[c], response[c], good[c]>>

Spec == Init /\ [][Next]_vars
=============================================================================
