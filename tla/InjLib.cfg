SPECIFICATION FairSpec
CONSTANTS
  Dialogs = {"inject_library 1", "inject_library 2", "injection"}
  Ejecting = {"inject_library 1", "inject_library 2"}
  Nil = Nil
  MaxPresses = 1
INVARIANTS
  InjTypeOK
  PathWhileRead
  NothingLeft
  StaysLoaded
PROPERTIES
  Returns
CHECK_DEADLOCK FALSE
