SPECIFICATION Spec
CONSTANTS
  None = None
  a = a
  b = b
  m = m
  Remotes = {a, b}
  Catalogue <- MCCatalogue
  MaxRows = 1
  Tasks = {m}
  PageSize = 1
  MaxIncidents = 3
INVARIANT CursorCovers
PROPERTY SilentIsHidden
PROPERTY CatalogueArrives
CHECK_DEADLOCK FALSE
