SPECIFICATION FairSpec
CONSTANTS
  Workers = {w1, w2}
  Messages = {"ab", "abc", "c"}
  Long = {"abc"}
  Cut <- MCCut
  Rest = "c"
  Buffered = FALSE
  NoOne = NoOne
  MaxLines = 3
  MaxKills = 1
INVARIANTS
  PipeTypeOK
  HolderIsLeaving
  CrossedByLongLine
PROPERTIES
  Answered
CHECK_DEADLOCK FALSE
