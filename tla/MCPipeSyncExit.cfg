SPECIFICATION FairSpec
CONSTANTS
  Workers = {w1, w2}
  Messages = {"ab"}
  Long = {}
  Cut <- MCCut
  Rest = "ab"
  Buffered = FALSE
  NoOne = NoOne
  MaxLines = 2
  MaxKills = 0
PROPERTIES
  ExitQuits
CHECK_DEADLOCK FALSE
