SPECIFICATION FairSpec
CONSTANTS
  MaxAttempts = 2
  Signals = {"startx", "wm"}
INVARIANTS StopIsAnswered SessionCleanedUp HelperGoneUnsignalled
PROPERTIES StartxContinued StartxProgress
CHECK_DEADLOCK FALSE
