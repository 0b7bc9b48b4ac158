SPECIFICATION Spec
CONSTANTS
  Launches = {l1, l2, l3}
  Signals = TRUE
  Kills = TRUE
INVARIANTS OneXtermUntilRecovery LockReleased
SYMMETRY Symmetry
CHECK_DEADLOCK FALSE
