SPECIFICATION Spec
CONSTANTS
  Threads = {t1, t2}
  Nobody = Nobody
  Kinds = {"backup", "restore", "apply_update"}
  MaxJob = 2
  Keep = 2
SYMMETRY Permutation
INVARIANT RecordedBackupExists
