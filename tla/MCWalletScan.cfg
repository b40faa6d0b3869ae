SPECIFICATION ScanSpec
CONSTANTS
  Workers = {w1, w2}
  None = None
  TTL = 2
  ScanTicks = 1
  MaxVer = 2
  MaxTip = 1
  MaxFaults = 1
INVARIANTS
  ScanTypeOK
  FreshView
PROPERTIES
  CallsReturn
  CatchesUp
CHECK_DEADLOCK FALSE
