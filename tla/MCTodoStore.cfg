SPECIFICATION StoreSpec
CONSTANTS
  Titles <- MCTitles
  Remarks = {"-"}
  Times = {0}
  Stamps = {3}
  Reencode <- MCReencode
  Faults = {"unopened", "short", "killed"}
  MaxTick = 3
INVARIANTS
  StoreTypeOK
  LookupHits
PROPERTIES
  ImplementsTodoMap
