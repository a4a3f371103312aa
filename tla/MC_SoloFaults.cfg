SPECIFICATION FairSpec
CONSTANTS
  Conns = {c1}
  c1 = c1
  Fds = {4, 5, 6, 7}
  Null = Null
  Ports = 1
  Methods = {"GET", "HEAD", "POST", "PUT", "DELETE", "NOT_IMPL"}
  Faults = {"recv", "write", "read", "send", "open", "fork", "cgi", "bad", "big", "old", "accept", "uri", "nested"}
INVARIANTS
  TypeOK
PROPERTIES
  EachIsAConnection
  EveryRequestAnswered
CHECK_DEADLOCK FALSE
