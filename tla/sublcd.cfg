SPECIFICATION Spec
CONSTANTS
  Drawers = {fbcon, writer}
  ConsoleDrawers = {fbcon}
  Tests = {t1, t2}
  Height = 2
  MaxOps = 2
  Kills = TRUE
INVARIANTS NoRefreshWhileWriting OneWriter ConsoleRestored LinesInPhase
CHECK_DEADLOCK FALSE
