SPECIFICATION FairSpec
CONSTANTS
  None = None
  ann = ann
  p1 = p1
  l1 = l1
  l2 = l2
  o1 = o1
  b1 = b1
  Users = {ann}
  Plays = {p1}
  Jobs = {l1, l2, o1, b1}
  Listener <- MCListener
  Reports <- MCReports
  Kind <- MCKind
  YearDays = 2
  MaxIncidents = 2
INVARIANT ServedIsTrue
INVARIANT SnapshotIsComplete
CHECK_DEADLOCK FALSE
PROPERTY EveryPlaySummarised
