CONSTANTS
  NoDoc = NoDoc
  d1 = d1
  d2 = d2
  o1 = o1
  o2 = o2
  p1 = p1
  p2 = p2
  Docs <- MCDocs
  Observers <- MCObservers
  Owner <- MCOwner
  Props <- MCProps
  ScaleFactors = {1, 2}
  ChangeTypes = {"FontFamilyChange", "MediaQueryChange"}
  SettingsOnlyWithFrame = FALSE
  CloseOnlyWhenLoaded = TRUE
  LoadOnlyWithView = TRUE
SPECIFICATION Spec
INVARIANT
  NoNullDereference
