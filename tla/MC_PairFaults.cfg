SPECIFICATION Spec
CONSTANTS
  Conns = {c1, c2}
  c1 = c1
  c2 = c2
  Fds = {4, 5, 6, 7, 8, 9}
  Null = Null
  Ports = 1
  Methods = {"GET", "POST", "DELETE"}
  Faults = {"recv", "send", "accept"}
SYMMETRY Symmetry
INVARIANTS
  LiveDispatch
  DispatchOnce
  NeverDeaf
  NoLeak
  HaltCauses
  OneInterest
  FdOwnership
  CloseDiscipline
  NoStaleChange
CHECK_DEADLOCK FALSE
