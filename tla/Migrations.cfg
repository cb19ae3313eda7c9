SPECIFICATION MigrationsSpec
CONSTANTS
  Starters = {"concierge"}
  Updaters = {"updater"}
  Knows <- MCKnows
  Releases = {0, 4, 9, 11, 13, 14, 17, 18, 22, 24, 25, 27, 30, 32, 33, 34, 35, 37}
  Past <- MCPast
  Rows = {r1}
  MaxCrashes = 2
INVARIANT RecordedIsApplied
PROPERTY RowsSurvive
PROPERTY StartsSucceed
CHECK_DEADLOCK FALSE
