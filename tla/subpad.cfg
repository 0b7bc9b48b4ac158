SPECIFICATION DiagSpec
CONSTANTS
  Runs = {r1, r2}
  Zones = {"LEFT", "BUTTON_LEFT"}
  DebouncePolls = 2
  ReleasePolls = 2
  MoveRepeatPolls = 2
  Kills = TRUE
INVARIANTS HardwareRestored NoStuckClick DiagLeavesAsFound
PROPERTIES HelperMovesWhenIdle StopsWhenAsked
CHECK_DEADLOCK FALSE
