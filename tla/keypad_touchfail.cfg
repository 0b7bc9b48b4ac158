SPECIFICATION Spec
CONSTANTS
  KeyTable <- PointerTable
  Requests <- TouchRequests
  Zones = {"BUTTON_LEFT"}
  PollBurst = 2
  MouseRepeatScans = 2
  TouchPollScans = 1
  TouchDebounce = 2
  TouchReleaseDebounce = 2
  TouchRepeatPolls = 2
  SublcdHeight = 2
INVARIANT DisabledTouchHoldsNothing
