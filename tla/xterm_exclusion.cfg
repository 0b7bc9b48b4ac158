SPECIFICATION Spec
CONSTANTS
  Launches = {l1, l2, l3}
  Signals = FALSE
  Kills = FALSE
INVARIANT OnlyOneXterm
CHECK_DEADLOCK FALSE
