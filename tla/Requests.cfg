CONSTANTS
  Plain = {led}
  Timezone = zone
  Lowest = 0
  Highest = 1
  Inputs = {0, 1, 2}
  Malformed = Malformed
  Gates = {g1, g2}
  Levels = {40, 100}
  MaxLevel = 100
  Timeout = 3
  LongestRun = 2
  Wrap = 16
  Networks = {home, typo}
  Works = {home}
  NoNetwork = none
  MaxDeferred = 2
  MaxEvents = 1
  ScanRecords <- TheScanRecords
  MostRecords = 3
  MaxScan = 3
  Strangers <- TheStrangers
SPECIFICATION RequestSpec
INVARIANTS AcknowledgedIsApplied PageListsTheStrongest ClaimedIsServed
PROPERTIES EngineeringEnds ScanEnds SetupEnds
CHECK_DEADLOCK FALSE
