SPECIFICATION FairSpec
CONSTANTS
  Monitors <- MCMonitors
  MaxEvents = 2
  MaxLines = 2
  Fits = 1
INVARIANTS
  JobMonTypeOK
  HandlersMayRun
  RowsShowTheirMessage
  LoggedInOrder
PROPERTIES
  NothingMissed
  AllServe
CHECK_DEADLOCK FALSE
