CONSTANTS
  MaxTextWindows = 2
  MaxWindowCols = 2
  MaxWindowRows = 2
  ScreenCols = 3
  ScreenRows = 2
  Places <- MCPlaces
  Sizes <- MCSizes
  Inks = {"a"}
  MaxText = 3
  MaxOpened = 2
SPECIFICATION Spec
INVARIANTS ShowsEnd NoGhosts FocusOpen
