SPECIFICATION BoardSpec
CONSTANTS
  Script <- MCScript
  MaxBuilds = 2
  UdpFuel = 8
  MaxPackets = 4
  MaxPresses = 3
  Slices = 3
  Addr = {a1, a2, a3}
  Room = 2
  BatchSize = 2
  MaxReports = 4
INVARIANTS
  BoardTypeOK
  PayloadIsOfItsCrate
  RepliesInOrder
  BlocksOnlyToSend
  SwitchNeedsPress
PROPERTIES
  StatsAreExact
  ExamplesGoOn
CHECK_DEADLOCK FALSE
