SPECIFICATION Spec
CONSTANTS
  KeyTable <- KeyboardTable
  Requests <- KeyboardRequests
  Zones = {"LEFT", "BUTTON_LEFT"}
  PollBurst = 2
  MouseRepeatScans = 2
  TouchPollScans = 1
  TouchDebounce = 2
  TouchReleaseDebounce = 2
  TouchRepeatPolls = 2
  SublcdHeight = 2
INVARIANTS NoStuckKey OneTapPerPress
