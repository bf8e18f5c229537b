SPECIFICATION ReadingClient
CONSTANTS
  MaxIn = 3
  MaxOut = 2
  MaxResize = 1
  SockCap = 1
  PtyCap = 1
INVARIANTS NothingLeaks
PROPERTIES KeysInOrder TextInOrder SessionEnds CloseKillsSSH
CHECK_DEADLOCK FALSE
