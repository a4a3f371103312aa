--------------------------- MODULE ConnectionMap ----------------------------
(***************************************************************************)
(* EventLoop implements Connection, for each of its connections: the       *)
(* refinement mapping.                                                     *)
(***************************************************************************)
EXTENDS EventLoop

\* The phase of a live Event is its type, and whether its request is complete.
TypePhase(e) ==
  CASE e.type = "HTTP_REQUEST_READABLE"  -> IF e.parse = "parsing" THEN "receiving" ELSE "parsed"
    [] e.type \in {"HTTP_REQUEST_UPLOAD", "BUFFER_FLUSH"} -> "uploading"
    [] e.type = "CGI_RESPONSE_READABLE"  -> "running"
    [] e.type = "HTTP_RESPONSE_DOWNLOAD" -> "downloading"
    [] e.type = "HTTP_RESPONSE_WRITABLE" -> "sending"
PhaseOf(e) ==
  CASE e.state = "none"  -> "none"
    [] e.state = "freed" -> "closed"
    [] e.state = "live"  -> TypePhase(e)
ResponseOf(e) ==
  CASE e.resp.type = "NULL"  -> "none"
    [] e.resp.type = "FREED" -> "deleted"
    [] OTHER                 -> "made"

Abstract == INSTANCE Connection WITH
  phase    <- [c \in Conns |-> PhaseOf(ev[c])],
  response <- [c \in Conns |-> ResponseOf(ev[c])],
  good     <- [c \in Conns |-> ev[c].parse # "bad"]

\* Every connection is served as Connection promises: in order, one response
\* for each request, nothing sent before there is one, never reused after a 400.
EachIsAConnection == Abstract!Spec
=============================================================================
