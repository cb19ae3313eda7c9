SPECIFICATION Spec
CONSTANTS
  Changes <- MCChanges
  MaxJobs = 2
INVARIANT StaleIsOnRecord
PROPERTY NoDowngrade
CHECK_DEADLOCK FALSE
