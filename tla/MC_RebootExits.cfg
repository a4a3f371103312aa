SPECIFICATION Spec
CONSTANTS
  MaxFd = 6
  First = 2
  NPorts = 2
  Programs = {g1, g2}
  MaxReboots = 2
INVARIANT RebootServes
CHECK_DEADLOCK FALSE
