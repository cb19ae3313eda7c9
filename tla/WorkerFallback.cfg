SPECIFICATION FairWorkerSpec
CONSTANTS
  Attempts = {a1, a2}
  WorkerSlots = 1
  Automatic = TRUE
INVARIANT FallbackAfterStop
INVARIANT NoHiddenThreads
PROPERTY SlotsComeFree
