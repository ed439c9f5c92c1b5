SPECIFICATION AppSpec
CONSTANTS
  Titles <- MCTitles
  Remarks <- MCRemarks
  Times = {0, 9}
  Stamps = {3}
  Reencode <- MCSameText
  Faults = {"killed", "short"}
  MaxTick = 2
  Empty = ""
  NoRemark = "-"
  ClipEdit <- MCClip
  ClipAdd <- MCSame
  ClipRemark <- MCSameRemarks
INVARIANTS
  AppTypeOK
  RowsMirrorList
  FormShowsSelection
  SavedIsCurrent
PROPERTIES
  OnlyShownItemChanges
  DisplayingChangesNothing
  GestureSavesOneItem
