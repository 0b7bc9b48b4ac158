SPECIFICATION FairSpec
CONSTANTS
  KeyTable <- PointerTable
  Requests <- MixedRequests
  Zones = {"LEFT", "BUTTON_LEFT"}
  PollBurst = 2
  MouseRepeatScans = 2
  TouchPollScans = 2
  TouchDebounce = 2
  TouchReleaseDebounce = 2
  TouchRepeatPolls = 2
  SublcdHeight = 2
INVARIANTS TypeOK NoStuckButton LcdRowInPanel
PROPERTIES TouchLatch PadServed
