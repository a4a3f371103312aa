SPECIFICATION Spec
CONSTANTS
  MaxFd = 8
  First = 2
  NPorts = 2
  Programs = {g1, g2}
  MaxReboots = 3
INVARIANTS
  OneListener
PROPERTIES
  NeverClosesForeign
  ExitCauses
CHECK_DEADLOCK FALSE
