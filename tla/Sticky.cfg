SPECIFICATION Spec
CONSTANTS
  Frames = {"notepad", "browser"}
  Parts = {"page"}
  None = None
  MaxOrphans = 2
INVARIANTS
  StickyTypeOK
  HookServesChoice
PROPERTIES
  OnlyTheChosen
