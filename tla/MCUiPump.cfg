CONSTANTS
  MaxEvents = 4
  MaxClock = 2
  StormN = 2
  StormTime = 2
SPECIFICATION FairSpec
CHECK_DEADLOCK FALSE
INVARIANTS
  NoReloadUnderFrames
  WakeupKept
  ClicksKept
  NoStorm
PROPERTIES
  RequestServed
