SPECIFICATION Spec
CONSTANTS
  Conns = {c1}
  c1 = c1
  Fds = {4, 5, 6, 7}
  Null = Null
  Ports = 1
  Methods = {"GET"}
  Faults = {"bad"}
INVARIANTS
  NeverWrongRoutine
CHECK_DEADLOCK FALSE
