SPECIFICATION FairSpec
CONSTANTS
  Workers = {w1, w2}
  Messages = {"ab", "abc", "c"}
  Long = {"abc"}
  Cut <- MCCut
  Rest = "c"
  Buffered = TRUE
  NoOne = NoOne
  MaxLines = 3
  MaxKills = 1
INVARIANTS
  EchoIsOfThisLine
PROPERTIES
  LockGranted
  WorkersFollow
CHECK_DEADLOCK FALSE
