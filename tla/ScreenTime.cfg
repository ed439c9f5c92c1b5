SPECIFICATION Spec
CONSTANTS
  Wnds = {"editor", "mail", "admin"}
  Unhooked = {"admin"}
  Titles = {"", "a", "b"}
  Untitled = ""
  MaxClock = 3
  MaxSenders = 2
INVARIANTS
  ScreenTypeOK
  TimesAddUp
  CreditedIsReal
