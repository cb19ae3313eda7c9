SPECIFICATION LibSpec
CONSTANTS
  Users = {u1, u2}
  Tracks = {a, r}
  Remote = {r}
  Unwritable = {2}
  Requests = {q}
  Handlers = {h1, h2}
  MaxLists = 2
  MaxJobs = 3
  Keep = 1
  Batches = {1}
  MaxRequests = 3
SYMMETRY Symmetry
INVARIANT NoDangling
INVARIANT OneJobPerPosition
INVARIANT ExportCoversList
 
PROPERTY SongsSurviveSync
PROPERTY NoLostReorder
CHECK_DEADLOCK FALSE
