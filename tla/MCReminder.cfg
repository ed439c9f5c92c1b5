SPECIFICATION RemindSpec
CONSTANTS
  Titles = {"bread"}
  Remarks = {"-"}
  Times = {0, 3, 4}
  Stamps = {0}
  Reencode <- MCSame
  Faults = {}
  MaxTick = 2
  global_tick_frequency = 3
  Slack = 2
  MaxClock = 9
INVARIANTS
  RemindedInTime
