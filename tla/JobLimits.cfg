SPECIFICATION LimitsSpec
INVARIANTS
  NeverAsserts
CHECK_DEADLOCK FALSE
