SPECIFICATION FairSpec
CONSTANTS
  Threads = {t1, t2}
  Nobody = Nobody
  Kinds = {"check_update", "silent_refresh", "monitor_page", "metadata_rescan"}
  MaxJob = 3
  Keep = 1
INVARIANT ExclusiveUnlessRobbed
INVARIANT NoGhostLock
PROPERTY JobsSettle
