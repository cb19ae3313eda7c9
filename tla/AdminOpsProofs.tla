--------------------------- MODULE AdminOpsProofs ---------------------------
(* Theorems about AdminOps and their proofs. *)
EXTENDS AdminOps, FiniteSetTheorems, TLAPS

(***************************************************************************)
(* What the helpers on the tables return.                                  *)
(***************************************************************************)
LEMMA NextIdType == NextId \in Nat \ {0}
<1> DEFINE S == {j \in JobIds : \E i \in JobIds : i >= j /\ jobs[i] # NoRow}
<1>1. IsFiniteSet(JobIds)
  BY FS_Interval, BoundsAssumption DEF JobIds
<1>2. IsFiniteSet(S)
  BY <1>1, FS_Subset
<1>3. Cardinality(S) \in Nat
  BY <1>2, FS_CardinalityType
<1>4. QED
  BY <1>3 DEF NextId

LEMMA PruneType == ASSUME NEW js \in Table PROVE Prune(js) \in Table
BY DEF Prune, Table

LEMMA SetStatusType ==
  ASSUME NEW js \in Table, NEW j, NEW s \in Status
  PROVE  SetStatus(js, j, s) \in Table
<1>1. CASE Exists(js, j)
  <2>1. js[j] \in JobRow
    BY <1>1 DEF Exists, Table
  <2>2. [js[j] EXCEPT !.status = s] \in JobRow
    BY <2>1 DEF JobRow
  <2>3. QED
    BY <1>1, <2>2 DEF SetStatus, Table, Exists
<1>2. CASE ~Exists(js, j)
  BY <1>2 DEF SetStatus
<1>3. QED
  BY <1>1, <1>2

LEMMA SettledType ==
  ASSUME TypeOK, NEW j, NEW s \in Terminal
  PROVE  Settled(j, s) \in Table
<1>1. jobs \in Table /\ s \in Status /\ "failed" \in Status
  BY DEF TypeOK, Status, Terminal
<1>2. SetStatus(jobs, j, s) \in Table
  BY <1>1, SetStatusType
<1>3. SetStatus(SetStatus(jobs, j, s), j, "failed") \in Table
  BY <1>1, <1>2, SetStatusType
<1>4. Prune(SetStatus(jobs, j, s)) \in Table
  BY <1>2, PruneType
<1>5. QED
  BY <1>1, <1>3, <1>4 DEF Settled

LEMMA HeartbeatType ==
  ASSUME TypeOK, NEW j
  PROVE  Heartbeat(j) \in LockRow \cup {NoLock}
BY DEF TypeOK, Heartbeat, LockRow

LEMMA NoArchiveType == NoArchive \in Archive
BY DEF NoArchive, Archive, Table

LEMMA SnapshotType == TypeOK => Snapshot \in Archive
BY DEF TypeOK, Snapshot, Archive

(***************************************************************************)
(* Steps of a thread, by what they do to the thread variables.             *)
(***************************************************************************)
ThreadTypeOK == /\ pc \in [Threads -> PC]
                /\ kind \in [Threads -> Kinds \cup {"none"}]
                /\ job \in [Threads -> 0..MaxJob]
                /\ tmp \in [Threads -> Archive]

LEMMA GotoType ==
  ASSUME TypeOK, NEW t \in Threads, NEW label \in PC, Goto(t, label)
  PROVE  pc' \in [Threads -> PC]
BY DEF TypeOK, Goto

LEMMA StartType ==
  ASSUME TypeOK, NEW t \in Threads, NEW k \in Kinds \cup {"none"}, NEW j \in 0..MaxJob,
         NEW label \in PC, Start(t, k, j, label)
  PROVE  ThreadTypeOK'
BY NoArchiveType DEF TypeOK, ThreadTypeOK, Start, Goto

LEMMA EndType ==
  ASSUME TypeOK, NEW t \in Threads, End(t)
  PROVE  ThreadTypeOK'
<1>1. "idle" \in PC /\ 0 \in 0..MaxJob
  BY BoundsAssumption DEF PC
<1>2. QED
  BY <1>1, StartType DEF End

LEMMA DropLockType ==
  ASSUME TypeOK, NEW t, DropLock(t)
  PROVE  /\ lock' \in LockRow \cup {NoLock}
         /\ owner' \in Threads \cup {Nobody}
         /\ robbed' \in SUBSET Threads
BY DEF TypeOK, DropLock

LEMMA ForgetType ==
  ASSUME TypeOK, NEW T, Forget(T)
  PROVE  owner' \in Threads \cup {Nobody} /\ robbed' \in SUBSET Threads
BY DEF TypeOK, Forget

LEMMA KillType ==
  ASSUME TypeOK, NEW T, Kill(T)
  PROVE  ThreadTypeOK' /\ owner' \in Threads \cup {Nobody} /\ robbed' \in SUBSET Threads
<1>1. ThreadTypeOK'
  BY NoArchiveType, BoundsAssumption DEF TypeOK, ThreadTypeOK, Kill, PC
<1>2. QED
  BY <1>1, ForgetType DEF Kill

(***************************************************************************)
(* Type correctness (the shape of the tables the code relies on).          *)
(***************************************************************************)
LEMMA InitType == Init => TypeOK
BY NoArchiveType, BoundsAssumption DEF Init, TypeOK, Table, PC

\* the scheduler queues a backup the way an administrator does
LEMMA AutobackupQueues ==
  ASSUME NEW t \in Threads, Autobackup(t)
  PROVE  "backup" \in Kinds /\ Queue(t, "backup")
BY DEF Autobackup, Queue

LEMMA QueueType ==
  ASSUME TypeOK, NEW t \in Threads, NEW k \in Kinds, Queue(t, k)
  PROVE  TypeOK'
<1> DEFINE js == [jobs EXCEPT ![NextId] = [type |-> k, status |-> "queued"]]
<1>1. NextId \in JobIds /\ NextId \in 0..MaxJob
  BY NextIdType, BoundsAssumption DEF Queue, JobIds
<1>2. js \in Table
  BY <1>1 DEF TypeOK, Table, JobRow, Status
<1>3. jobs' \in Table
  BY <1>2, PruneType DEF Queue
<1>4. FirstLabel(k) \in PC
  BY DEF FirstLabel, PC
<1>5. ThreadTypeOK'
  <2>1. CASE PruneFails(js)
    BY <2>1 DEF Queue, thread, TypeOK, ThreadTypeOK
  <2>2. CASE ~PruneFails(js)
    BY <2>2, <1>1, <1>4, StartType DEF Queue
  <2>3. QED
    BY <2>1, <2>2
<1>6. QED
  BY <1>3, <1>5 DEF Queue, TypeOK, ThreadTypeOK, history

LEMMA PeekType ==
  ASSUME TypeOK, NEW t \in Threads, NEW k \in Kinds, Peek(t, k)
  PROVE  TypeOK'
<1>1. (IF lock = NoLock THEN "ready" ELSE "peekclear") \in PC /\ 0 \in 0..MaxJob
  BY BoundsAssumption DEF PC
<1>2. ThreadTypeOK'
  BY <1>1, StartType DEF Peek
<1>3. QED
  BY <1>2 DEF Peek, TypeOK, ThreadTypeOK, history, db

LEMMA ThreadStepType ==
  ASSUME TypeOK, NEW t \in Threads, ThreadStep(t)
  PROVE  TypeOK'
<1> USE DEF db, history, thread
<1>a. {"idle", "posted", "preflight", "reclaim", "ready", "clear", "insert", "release",
       "held", "running", "archived", "rotated", "installed", "recorded", "copied"} \subseteq PC
  BY DEF PC, Working, OnDisk
<1>b. /\ "running" \in Status /\ "failed" \in Status /\ Terminal \subseteq Status
      /\ "completed" \in Terminal /\ "failed" \in Terminal
  BY DEF Status, Terminal
<1>1. ASSUME NEW u \in Threads, PostAccepted(t, u) PROVE TypeOK'
  BY <1>1, <1>a DEF PostAccepted, TypeOK
<1>2. CASE PostAnswered(t)
  BY <1>2, EndType, ForgetType DEF PostAnswered, TypeOK, ThreadTypeOK
<1>3. CASE PostFailed(t)
  <2>1. ThreadTypeOK' /\ owner' \in Threads \cup {Nobody} /\ robbed' \in SUBSET Threads
    BY <1>3, EndType, ForgetType DEF PostFailed
  <2>2. jobs' \in Table /\ lock' \in LockRow \cup {NoLock}
    BY <1>3, <1>b, SettledType, HeartbeatType DEF PostFailed, Settle
  <2>3. QED
    BY <1>3, <2>1, <2>2 DEF PostFailed, TypeOK, ThreadTypeOK
<1>4. CASE PeekClear(t)
  <2>1. ThreadTypeOK'
    BY <1>4, <1>a, EndType, GotoType DEF PeekClear, ThreadTypeOK, TypeOK
  <2>2. QED
    BY <1>4, <2>1, DropLockType DEF PeekClear, TypeOK, ThreadTypeOK
<1>5. CASE Preflight(t)
  <2>1. jobs' \in Table
    BY <1>5, <1>b, SetStatusType DEF Preflight, TypeOK
  <2>2. pc' \in [Threads -> PC]
    BY <1>5, <1>a, GotoType DEF Preflight
  <2>3. QED
    BY <1>5, <2>1, <2>2 DEF Preflight, TypeOK
<1>6. CASE Reclaim(t)
  <2>1. jobs' \in Table
    BY <1>6, <1>b, SetStatusType DEF Reclaim, TypeOK
  <2>2. pc' \in [Threads -> PC]
    BY <1>6, <1>a, GotoType DEF Reclaim
  <2>3. QED
    BY <1>6, <2>1, <2>2, DropLockType DEF Reclaim, TypeOK
<1>7. CASE AcquireRead(t)
  BY <1>7, <1>a, GotoType DEF AcquireRead, TypeOK
<1>8. CASE AcquireClear(t)
  BY <1>8, <1>a, GotoType, DropLockType DEF AcquireClear, TypeOK
<1>9. CASE AcquireInsert(t)
  <2>1. lock' \in LockRow
    BY <1>9 DEF AcquireInsert, LockRow, TypeOK
  <2>2. QED
    BY <1>9, <2>1, <1>a, GotoType DEF AcquireInsert, TypeOK
<1>10. CASE AcquireBroken(t)
  <2>1. ThreadTypeOK' /\ owner' \in Threads \cup {Nobody} /\ robbed' \in SUBSET Threads
    BY <1>10, EndType, ForgetType DEF AcquireBroken
  <2>2. jobs' \in Table /\ lock' \in LockRow \cup {NoLock}
    BY <1>10, <1>b, SettledType, HeartbeatType DEF AcquireBroken, Settle, TypeOK
  <2>3. QED
    BY <1>10, <2>1, <2>2 DEF AcquireBroken, TypeOK, ThreadTypeOK
<1>11. CASE AcquireLost(t)
  <2>1. ThreadTypeOK' /\ owner' \in Threads \cup {Nobody} /\ robbed' \in SUBSET Threads
    BY <1>11, <1>a, EndType, ForgetType, GotoType DEF AcquireLost, ThreadTypeOK, TypeOK
  <2>2. jobs' \in Table /\ lock' \in LockRow \cup {NoLock}
    BY <1>11, <1>b, SettledType, HeartbeatType DEF AcquireLost, Settle, TypeOK
  <2>3. QED
    BY <1>11, <2>1, <2>2 DEF AcquireLost, TypeOK, ThreadTypeOK
<1>12. CASE Release(t)
  <2>1. ThreadTypeOK'
    BY <1>12, EndType DEF Release
  <2>2. QED
    BY <1>12, <2>1 DEF Release, TypeOK, ThreadTypeOK
<1>13. ASSUME SetJob(t, "running") PROVE jobs' \in Table /\ lock' \in LockRow \cup {NoLock}
  BY <1>13, <1>b, SetStatusType, HeartbeatType DEF SetJob, TypeOK
<1>14. ASSUME NEW s \in Terminal, Settle(t, s)
       PROVE  jobs' \in Table /\ lock' \in LockRow \cup {NoLock}
  BY <1>14, SettledType, HeartbeatType DEF Settle
<1>15. CASE Begin(t)
  BY <1>15, <1>13, <1>a, GotoType DEF Begin, TypeOK
<1>16. ASSUME NEW s \in Slots, BeginRestore(t, s) PROVE TypeOK'
  <2>1. tmp' \in [Threads -> Archive]
    BY <1>16 DEF BeginRestore, TypeOK
  <2>2. QED
    BY <1>16, <1>13, <2>1, <1>a, GotoType DEF BeginRestore, TypeOK
<1>17. CASE Progress(t)
  BY <1>17, <1>13 DEF Progress, TypeOK
<1>18. CASE WriteArchive(t)
  <2>1. tmp' \in [Threads -> Archive]
    BY <1>18, SnapshotType DEF WriteArchive, TypeOK
  <2>2. QED
    BY <1>18, <2>1, <1>a, GotoType DEF WriteArchive, TypeOK
<1>19. CASE Rotate(t)
  <2>1. files' \in [Slots -> Archive] /\ rows' \in SUBSET Slots
    <3>1. files \in [Slots -> Archive] /\ rows \in SUBSET Slots /\ Slots = {"current", "previous"}
      BY DEF TypeOK, Slots
    <3>2. files["current"] \in Archive /\ NoArchive \in Archive
      BY <3>1, NoArchiveType
    <3>3. \/ files' = [files EXCEPT !["previous"] = files["current"]] /\ rows' = Slots
          \/ files' = [files EXCEPT !["previous"] = NoArchive] /\ rows' = rows
          \/ UNCHANGED <<files, rows>>
      BY <1>19 DEF Rotate
    <3>4. QED
      BY <3>1, <3>2, <3>3
  <2>2. QED
    BY <1>19, <2>1, <1>a, GotoType DEF Rotate, TypeOK
<1>20. CASE Install(t)
  <2>1. files' \in [Slots -> Archive] /\ tmp' \in [Threads -> Archive]
    BY <1>20, NoArchiveType DEF Install, TypeOK, Slots
  <2>2. QED
    BY <1>20, <2>1, <1>a, GotoType DEF Install, TypeOK
<1>21. CASE Record(t)
  <2>1. rows' \in SUBSET Slots
    BY <1>21 DEF Record, TypeOK, Slots
  <2>2. QED
    BY <1>21, <2>1, <1>a, GotoType DEF Record, TypeOK
<1>22. CASE CopyDatabase(t)
  <2>1. tmp[t] \in Archive
    BY DEF TypeOK
  <2>2. jobs' \in Table /\ lock' \in LockRow \cup {NoLock} /\ rows' \in SUBSET Slots
    BY <1>22, <2>1 DEF CopyDatabase, Archive
  <2>3. tmp' \in [Threads -> Archive] /\ robbed' \in SUBSET Threads
    BY <1>22, NoArchiveType DEF CopyDatabase, TypeOK
  <2>4. QED
    BY <1>22, <2>2, <2>3, <1>a, GotoType DEF CopyDatabase, TypeOK
<1>23. CASE Finish(t)
  BY <1>23, <1>14, <1>a, <1>b, GotoType DEF Finish, TypeOK
<1>24. CASE Fail(t)
  BY <1>24, <1>14, <1>a, <1>b, GotoType DEF Fail, TypeOK
<1>25. CASE SilentDone(t)
  BY <1>25, <1>a, GotoType DEF SilentDone, TypeOK
<1>26. CASE ScanProgress(t)
  BY <1>26, <1>13 DEF ScanProgress, TypeOK
<1>27. CASE ScanEnd(t)
  <2>1. ThreadTypeOK' /\ owner' \in Threads \cup {Nobody} /\ robbed' \in SUBSET Threads
    BY <1>27, EndType, ForgetType DEF ScanEnd
  <2>2. QED
    BY <1>27, <1>14, <2>1 DEF ScanEnd, TypeOK, ThreadTypeOK
<1>28. QED
  BY <1>1, <1>2, <1>3, <1>4, <1>5, <1>6, <1>7, <1>8, <1>9, <1>10, <1>11, <1>12, <1>15, <1>16,
     <1>17, <1>18, <1>19, <1>20, <1>21, <1>22, <1>23, <1>24, <1>25, <1>26, <1>27
     DEF ThreadStep

LEMMA NextType == TypeOK /\ [Next]_vars => TypeOK'
<1> SUFFICES ASSUME TypeOK, [Next]_vars PROVE TypeOK'
  OBVIOUS
<1> USE DEF db, history, thread
<1>1. ASSUME NEW t \in Threads, ThreadStep(t) PROVE TypeOK'
  BY <1>1, ThreadStepType
<1>2. ASSUME NEW t \in Threads, NEW k \in Kinds, Queue(t, k) \/ Peek(t, k) PROVE TypeOK'
  BY <1>2, QueueType, PeekType
<1>3. CASE ConciergeCrash
  BY <1>3, KillType DEF ConciergeCrash, TypeOK, ThreadTypeOK
<1>4. CASE UpdaterCrash
  BY <1>4, KillType DEF UpdaterCrash, TypeOK, ThreadTypeOK
<1>5. CASE StartupSweep
  <2>1. ASSUME NEW j \in Interrupted PROVE [jobs[j] EXCEPT !.status = "failed"] \in JobRow
    <3>1. jobs[j] # NoRow /\ jobs[j] \in JobRow \cup {NoRow}
      BY DEF Interrupted, Unfinished, TypeOK, Table, NoRow
    <3>2. QED
      BY <3>1 DEF JobRow, Status, Terminal
  <2>2. jobs' \in Table
    BY <1>5, <2>1 DEF StartupSweep, TypeOK, Table
  <2>3. QED
    BY <1>5, <2>2 DEF StartupSweep, TypeOK
<1>6. CASE StartupClear
  BY <1>6, DropLockType DEF StartupClear, TypeOK
<1>7. CASE LockAges
  <2>1. lock' \in LockRow
    BY <1>7 DEF LockAges, TypeOK, LockRow
  <2>2. QED
    BY <1>7, <2>1 DEF LockAges, TypeOK
<1>8. CASE UNCHANGED vars
  BY <1>8 DEF vars, TypeOK
<1>9. QED
  BY <1>1, <1>2, <1>3, <1>4, <1>5, <1>6, <1>7, <1>8, AutobackupQueues DEF Next

(* The tables, the archives and the threads keep their types in every      *)
(* behaviour of the program.                                               *)
THEOREM TypeCorrect == Spec => []TypeOK
BY InitType, NextType, PTL DEF Spec

(***************************************************************************)
(* The lock: operations overlap only when a lock row was deleted from under*)
(* its holder.  HoldersProtected is the inductive invariant.               *)
(***************************************************************************)
LEMMA HeartbeatKeeps ==
  ASSUME TypeOK, NEW j, lock # NoLock
  PROVE  Heartbeat(j) # NoLock /\ Heartbeat(j).job = lock.job
BY DEF TypeOK, Heartbeat, LockRow, NoLock

\* steps that touch nobody's protection
LEMMA StepKeeps ==
  ASSUME HoldersProtected, InOperation' \subseteq InOperation,
         lock # NoLock => lock' # NoLock, owner' = owner, robbed' = robbed
  PROVE  HoldersProtected'
BY DEF HoldersProtected, InOperation

LEMMA GotoKeeps ==
  ASSUME TypeOK, NEW t \in Threads, NEW label, Goto(t, label),
         label \in Working => pc[t] \in Working
  PROVE  InOperation' \subseteq InOperation
BY DEF TypeOK, InOperation, Goto

LEMMA EndKeeps ==
  ASSUME TypeOK, NEW t \in Threads, End(t)
  PROVE  InOperation' \subseteq InOperation \ {t}
BY DEF TypeOK, InOperation, End, Start, Goto, Working, OnDisk

\* a thread that is not operating deletes the row: whoever owned it is robbed
LEMMA DropKeeps ==
  ASSUME HoldersProtected, NEW t, DropLock(t), InOperation' \subseteq InOperation \ {t},
         ThreadsAssumption
  PROVE  HoldersProtected'
BY DEF HoldersProtected, InOperation, DropLock, ThreadsAssumption

LEMMA ForgetKeeps ==
  ASSUME HoldersProtected, NEW T \in SUBSET Threads, Forget(T),
         InOperation' \subseteq InOperation \ T, lock # NoLock => lock' # NoLock
  PROVE  HoldersProtected'
BY DEF HoldersProtected, InOperation, Forget

LEMMA SettleKeeps ==
  ASSUME TypeOK, NEW t \in Threads, NEW s, Settle(t, s) \/ SetJob(t, s)
  PROVE  lock # NoLock => lock' # NoLock
BY HeartbeatKeeps DEF Settle, SetJob

LEMMA ThreadStepProtected ==
  ASSUME TypeOK, HoldersProtected, NEW t \in Threads, ThreadStep(t)
  PROVE  HoldersProtected'
<1> USE DEF db, history, thread
<1>a. {"idle", "post", "posted", "preflight", "reclaim", "ready", "clear", "insert",
       "release", "scan", "peek", "peekclear"} \cap Working = {}
  BY DEF Working, OnDisk
<1>b. {"held", "running", "archived", "rotated", "installed", "recorded", "copied"} \subseteq Working
  BY DEF Working, OnDisk
<1>1. ASSUME NEW u \in Threads, PostAccepted(t, u) PROVE HoldersProtected'
  <2>1. InOperation' \subseteq InOperation
    BY <1>1, <1>a DEF PostAccepted, InOperation, TypeOK
  <2>2. QED
    BY <1>1, <2>1, StepKeeps DEF PostAccepted
<1>2. CASE PostAnswered(t)
  BY <1>2, EndKeeps, ForgetKeeps DEF PostAnswered
<1>3. CASE PostFailed(t)
  BY <1>3, EndKeeps, ForgetKeeps, SettleKeeps DEF PostFailed
<1>4. CASE PeekClear(t)
  <2>1. InOperation' \subseteq InOperation \ {t}
    BY <1>4, <1>a, EndKeeps DEF PeekClear, Goto, InOperation, TypeOK
  <2>2. QED
    BY <1>4, <2>1, DropKeeps, ThreadsAssumption DEF PeekClear
<1>5. CASE Preflight(t)
  <2>1. InOperation' \subseteq InOperation
    BY <1>5, <1>a, GotoKeeps DEF Preflight
  <2>2. QED
    BY <1>5, <2>1, StepKeeps DEF Preflight
<1>6. CASE Reclaim(t)
  <2>1. InOperation' \subseteq InOperation \ {t}
    BY <1>6, <1>a DEF Reclaim, Goto, InOperation, TypeOK
  <2>2. QED
    BY <1>6, <2>1, DropKeeps, ThreadsAssumption DEF Reclaim
<1>7. CASE AcquireRead(t)
  <2>1. InOperation' \subseteq InOperation
    BY <1>7, <1>a, GotoKeeps DEF AcquireRead
  <2>2. QED
    BY <1>7, <2>1, StepKeeps DEF AcquireRead
<1>8. CASE AcquireClear(t)
  <2>1. InOperation' \subseteq InOperation \ {t}
    BY <1>8, <1>a DEF AcquireClear, Goto, InOperation, TypeOK
  <2>2. QED
    BY <1>8, <2>1, DropKeeps, ThreadsAssumption DEF AcquireClear
<1>9. CASE AcquireInsert(t)
  <2>1. \A u \in InOperation : u \in robbed
    BY <1>9 DEF AcquireInsert, HoldersProtected
  <2>2. InOperation' \subseteq InOperation \cup {t}
    BY <1>9 DEF AcquireInsert, Goto, InOperation, TypeOK
  <2>3. lock' # NoLock /\ owner' = t /\ robbed' = robbed \ {t}
    BY <1>9 DEF AcquireInsert, NoLock
  <2>4. QED
    BY <2>1, <2>2, <2>3 DEF HoldersProtected
<1>10. CASE AcquireBroken(t)
  <2>1. lock # NoLock => lock' # NoLock
    BY <1>10, SettleKeeps DEF AcquireBroken
  <2>2. QED
    BY <1>10, <2>1, EndKeeps, ForgetKeeps DEF AcquireBroken
<1>11. CASE AcquireLost(t)
  <2>1. lock # NoLock => lock' # NoLock
    BY <1>11, SettleKeeps DEF AcquireLost
  <2>2. CASE End(t) /\ Forget({t})
    BY <2>1, <2>2, EndKeeps, ForgetKeeps
  <2>3. CASE Goto(t, "release") /\ UNCHANGED history
    <3>1. InOperation' \subseteq InOperation
      BY <2>3, <1>a, GotoKeeps
    <3>2. QED
      BY <2>1, <2>3, <3>1, StepKeeps
  <2>4. QED
    BY <1>11, <2>2, <2>3 DEF AcquireLost
<1>12. CASE Release(t)
  <2>1. InOperation' \subseteq InOperation \ {t}
    BY <1>12, EndKeeps DEF Release
  <2>2. QED
    BY <1>12, <2>1, ThreadsAssumption DEF Release, HoldersProtected, InOperation, ThreadsAssumption
<1>13. CASE Begin(t)
  <2>1. InOperation' \subseteq InOperation
    BY <1>13, <1>b, GotoKeeps DEF Begin
  <2>2. QED
    BY <1>13, <2>1, StepKeeps, SettleKeeps DEF Begin
<1>14. ASSUME NEW s \in Slots, BeginRestore(t, s) PROVE HoldersProtected'
  <2>1. InOperation' \subseteq InOperation
    BY <1>14, <1>b, GotoKeeps DEF BeginRestore
  <2>2. QED
    BY <1>14, <2>1, StepKeeps, SettleKeeps DEF BeginRestore
<1>15. CASE Progress(t) \/ ScanProgress(t)
  BY <1>15, StepKeeps, SettleKeeps DEF Progress, ScanProgress, InOperation
<1>16. CASE WriteArchive(t) \/ Rotate(t) \/ Install(t) \/ Record(t)
  <2>1. InOperation' \subseteq InOperation
    BY <1>16, <1>b, GotoKeeps DEF WriteArchive, Rotate, Install, Record
  <2>2. QED
    BY <1>16, <2>1, StepKeeps DEF WriteArchive, Rotate, Install, Record
<1>17. CASE CopyDatabase(t)
  <2>1. InOperation' \subseteq InOperation
    BY <1>17, <1>b, GotoKeeps DEF CopyDatabase
  <2>2. QED
    BY <1>17, <2>1, ThreadsAssumption
       DEF CopyDatabase, HoldersProtected, InOperation, ThreadsAssumption
<1>18. CASE Finish(t) \/ Fail(t)
  <2>1. InOperation' \subseteq InOperation
    BY <1>18, <1>a, GotoKeeps DEF Finish, Fail
  <2>2. QED
    BY <1>18, <2>1, StepKeeps, SettleKeeps DEF Finish, Fail
<1>19. CASE SilentDone(t)
  <2>1. InOperation' \subseteq InOperation
    BY <1>19, <1>a, GotoKeeps DEF SilentDone
  <2>2. QED
    BY <1>19, <2>1, StepKeeps DEF SilentDone
<1>20. CASE ScanEnd(t)
  BY <1>20, EndKeeps, ForgetKeeps, SettleKeeps DEF ScanEnd
<1>21. QED
  BY <1>1, <1>2, <1>3, <1>4, <1>5, <1>6, <1>7, <1>8, <1>9, <1>10, <1>11, <1>12, <1>13, <1>14,
     <1>15, <1>16, <1>17, <1>18, <1>19, <1>20 DEF ThreadStep

LEMMA NextProtected == TypeOK /\ HoldersProtected /\ [Next]_vars => HoldersProtected'
<1> SUFFICES ASSUME TypeOK, HoldersProtected, [Next]_vars PROVE HoldersProtected'
  OBVIOUS
<1> USE DEF db, history, thread
<1>1. ASSUME NEW t \in Threads, ThreadStep(t) PROVE HoldersProtected'
  BY <1>1, ThreadStepProtected
<1>2. ASSUME NEW t \in Threads, NEW k \in Kinds, Queue(t, k) \/ Peek(t, k)
      PROVE  HoldersProtected'
  <2>1. FirstLabel(k) \notin Working
    BY DEF FirstLabel, Working, OnDisk
  <2>2. InOperation' \subseteq InOperation
    BY <1>2, <2>1 DEF Queue, Peek, Start, Goto, InOperation, TypeOK, Working, OnDisk
  <2>3. QED
    BY <1>2, <2>2, StepKeeps DEF Queue, Peek
<1>3. ASSUME NEW T \in SUBSET Threads, Kill(T), UNCHANGED lock PROVE HoldersProtected'
  <2>1. InOperation' \subseteq InOperation \ T
    BY <1>3 DEF Kill, InOperation, Working, OnDisk
  <2>2. QED
    BY <1>3, <2>1, ForgetKeeps DEF Kill
<1>4. CASE ConciergeCrash
  BY <1>4, <1>3 DEF ConciergeCrash
<1>5. CASE UpdaterCrash
  BY <1>5, <1>3 DEF UpdaterCrash
<1>6. CASE StartupSweep
  BY <1>6, StepKeeps DEF StartupSweep, InOperation
<1>7. CASE StartupClear
  <2>1. Nobody \notin InOperation /\ InOperation' = InOperation
    BY <1>7, ThreadsAssumption DEF StartupClear, InOperation, ThreadsAssumption
  <2>2. CASE DropLock(Nobody)
    BY <2>1, <2>2, DropKeeps, ThreadsAssumption
  <2>3. CASE UNCHANGED <<lock, history>>
    BY <2>1, <2>3, StepKeeps
  <2>4. QED
    BY <1>7, <2>2, <2>3 DEF StartupClear
<1>8. CASE LockAges
  <2>1. lock # NoLock => lock' # NoLock
    BY <1>8 DEF LockAges, TypeOK, LockRow, NoLock
  <2>2. QED
    BY <1>8, <2>1, StepKeeps DEF LockAges, InOperation
<1>9. CASE UNCHANGED vars
  BY <1>9 DEF vars, HoldersProtected, InOperation
<1>10. QED
  BY <1>1, <1>2, <1>4, <1>5, <1>6, <1>7, <1>8, <1>9, AutobackupQueues DEF Next

(* Whoever runs an operation has its lock row, or somebody deleted it.     *)
THEOREM HoldersAreProtected == Spec => []HoldersProtected
<1>1. Init => HoldersProtected
  BY DEF Init, HoldersProtected, InOperation, Working, OnDisk
<1>2. QED
  BY <1>1, NextProtected, TypeCorrect, PTL DEF Spec

(* Two operations overlap only if one of them lost its lock row to somebody*)
(* else: for any number of threads, jobs and kinds of operation.           *)
THEOREM Exclusion == Spec => []ExclusiveUnlessRobbed
<1>1. HoldersProtected => ExclusiveUnlessRobbed
  BY DEF HoldersProtected, ExclusiveUnlessRobbed
<1>2. QED
  BY <1>1, HoldersAreProtected, PTL

(***************************************************************************)
(* No ghost locks, without the updater.  The history variable owner is what*)
(* makes it inductive: a row that has an owner is on its way to that       *)
(* owner's finally block, a row that has none was copied back by a restore *)
(* or is left from a crash that the startup in progress will clean up.     *)
(***************************************************************************)
NoUpdater == "apply_update" \notin Kinds
Holding == Working \cup {"release"}
Posting == {"post", "posted", "preflight", "reclaim"}

OwnerActive == owner # Nobody =>
                 lock # NoLock /\ pc[owner] \in Holding /\ job[owner] = lock.job
OrphanRestored == boot = "up" /\ lock # NoLock /\ owner = Nobody => Restoring
OffIsIdle == boot # "up" => \A t \in Threads : pc[t] = "idle"
NeverPosting == \A t \in Threads : pc[t] \notin Posting
GhostInv == OwnerActive /\ OrphanRestored /\ OffIsIdle /\ NeverPosting

\* a step of t that keeps the row, and keeps t on its way if it was on it
LEMMA GhostKeeps ==
  ASSUME TypeOK, GhostInv, ThreadsAssumption, NEW t \in Threads,
         lock' = NoLock <=> lock = NoLock, lock'.job = lock.job,
         owner' = owner, boot' = boot,
         \A u \in Threads \ {t} : pc'[u] = pc[u] /\ job'[u] = job[u] /\ kind'[u] = kind[u],
         pc[t] \in Holding => /\ pc'[t] \in Holding
                              /\ job'[t] = job[t] /\ kind'[t] = kind[t]
                              /\ pc[t] \in {"copied", "release"} => pc'[t] \in {"copied", "release"},
         pc'[t] \notin Posting, boot = "up"
  PROVE  GhostInv'
<1>1. OwnerActive'
  BY DEF GhostInv, OwnerActive, TypeOK, ThreadsAssumption
<1>2. OrphanRestored'
  <2>1. Restoring => Restoring'
    BY DEF Restoring, Holding, Working, OnDisk
  <2>2. QED
    BY <2>1 DEF GhostInv, OrphanRestored
<1>3. OffIsIdle' /\ NeverPosting'
  BY DEF GhostInv, OffIsIdle, NeverPosting
<1>4. QED
  BY <1>1, <1>2, <1>3 DEF GhostInv

LEMMA GhostDropped ==
  ASSUME GhostInv, lock' = NoLock, owner' = Nobody, OffIsIdle', NeverPosting'
  PROVE  GhostInv'
BY DEF GhostInv, OwnerActive, OrphanRestored

LEMMA LockJobKept ==
  ASSUME TypeOK, NEW t \in Threads, NEW s, Settle(t, s) \/ SetJob(t, s)
  PROVE  (lock' = NoLock <=> lock = NoLock) /\ lock'.job = lock.job
BY HeartbeatKeeps DEF Settle, SetJob, Heartbeat, NoLock

LEMMA ThreadStepGhost ==
  ASSUME TypeOK, GhostInv, NoUpdater, NEW t \in Threads, ThreadStep(t)
  PROVE  GhostInv'
<1> USE DEF db, history, thread, Goto, End, Start
<1>a. boot = "up" /\ pc[t] \notin Posting
  <2>1. boot # "up" => pc[t] = "idle"
    BY DEF GhostInv, OffIsIdle
  <2>2. pc[t] # "idle"
    BY DEF ThreadStep, PostAccepted, PostAnswered, PostFailed, PeekClear, Preflight, Reclaim,
           AcquireRead, AcquireClear, AcquireInsert, AcquireBroken, AcquireLost, Begin,
           BeginRestore, Progress, WriteArchive, Rotate, Install, Record, CopyDatabase,
           Finish, Fail, SilentDone, ScanProgress, ScanEnd, Release, Working, OnDisk
  <2>3. QED
    BY <2>1, <2>2 DEF GhostInv, NeverPosting
<1>b. ASSUME pc'[t] \in PC \ Posting, \A u \in Threads \ {t} : pc'[u] = pc[u], boot' = boot
      PROVE  OffIsIdle' /\ NeverPosting'
  BY <1>a, <1>b DEF GhostInv, OffIsIdle, NeverPosting
<1>c. pc \in [Threads -> PC] /\ kind \in [Threads -> Kinds \cup {"none"}]
      /\ job \in [Threads -> 0..MaxJob] /\ owner \in Threads \cup {Nobody}
  BY DEF TypeOK
<1>d. {"idle", "ready", "clear", "insert", "peekclear", "scan"} \subseteq PC \ (Holding \cup Posting)
  BY DEF PC, Holding, Working, OnDisk, Posting
<1>e. {"held", "running", "archived", "rotated", "installed", "recorded", "copied", "release"}
        \subseteq Holding
  BY DEF Holding, Working, OnDisk
<1>f. Holding \cap Posting = {} /\ Holding \subseteq PC
  BY DEF PC, Holding, Working, OnDisk, Posting
<1>g. ASSUME pc[t] \notin Holding, Forget({t}) PROVE owner' = owner
  BY <1>g, <1>c DEF GhostInv, OwnerActive, Forget
<1>1. CASE PeekClear(t) \/ AcquireClear(t) \/ Release(t)
  <2>1. lock' = NoLock /\ owner' = Nobody /\ boot' = boot
    BY <1>1 DEF PeekClear, AcquireClear, Release, DropLock
  <2>2. pc'[t] \in PC \ Posting /\ \A u \in Threads \ {t} : pc'[u] = pc[u]
    BY <1>1, <1>c, <1>d DEF PeekClear, AcquireClear, Release
  <2>3. QED
    BY <2>1, <2>2, <1>b, GhostDropped
<1>2. CASE AcquireRead(t)
  BY <1>2, <1>a, <1>c, <1>d, GhostKeeps, ThreadsAssumption DEF AcquireRead
<1>3. CASE AcquireInsert(t)
  <2>1. lock' # NoLock /\ lock'.job = job[t] /\ owner' = t /\ boot' = boot /\ job' = job
    BY <1>3 DEF AcquireInsert, NoLock
  <2>2. pc'[t] = "held" /\ \A u \in Threads \ {t} : pc'[u] = pc[u]
    BY <1>3, <1>c DEF AcquireInsert
  <2>3. OffIsIdle' /\ NeverPosting'
    BY <2>1, <2>2, <1>b, <1>e, <1>f
  <2>4. QED
    BY <2>1, <2>2, <2>3, <1>e, ThreadsAssumption
       DEF GhostInv, OwnerActive, OrphanRestored, ThreadsAssumption
<1>4. CASE AcquireBroken(t)
  <2>1. (lock' = NoLock <=> lock = NoLock) /\ lock'.job = lock.job
    BY <1>4, LockJobKept DEF AcquireBroken
  <2>2. owner' = owner /\ boot' = boot
    BY <1>4, <1>d, <1>g DEF AcquireBroken
  <2>3. /\ pc'[t] = "idle"
        /\ \A u \in Threads \ {t} : pc'[u] = pc[u] /\ job'[u] = job[u] /\ kind'[u] = kind[u]
    BY <1>4, <1>c DEF AcquireBroken
  <2>4. pc[t] \notin Holding
    BY <1>4, <1>d DEF AcquireBroken
  <2>5. QED
    BY <2>1, <2>2, <2>3, <2>4, <1>a, <1>d, GhostKeeps, ThreadsAssumption
<1>5. CASE AcquireLost(t)
  <2>1. (lock' = NoLock <=> lock = NoLock) /\ lock'.job = lock.job
    BY <1>5, LockJobKept DEF AcquireLost
  <2>2. owner' = owner /\ boot' = boot
    BY <1>5, <1>d, <1>g DEF AcquireLost
  <2>3. pc'[t] \in {"idle", "release"}
        /\ \A u \in Threads \ {t} : pc'[u] = pc[u] /\ job'[u] = job[u] /\ kind'[u] = kind[u]
    BY <1>5, <1>c DEF AcquireLost
  <2>4. pc[t] \notin Holding
    BY <1>5, <1>d DEF AcquireLost
  <2>5. QED
    BY <2>1, <2>2, <2>3, <2>4, <1>a, <1>d, <1>e, <1>f, GhostKeeps, ThreadsAssumption
<1>6. CASE Begin(t) \/ (\E s \in Slots : BeginRestore(t, s)) \/ Finish(t) \/ Fail(t)
  <2>1. (lock' = NoLock <=> lock = NoLock) /\ lock'.job = lock.job
    BY <1>6, LockJobKept DEF Begin, BeginRestore, Finish, Fail
  <2>2. UNCHANGED <<owner, boot, job, kind>>
    BY <1>6 DEF Begin, BeginRestore, Finish, Fail
  <2>3. \/ pc'[t] = "release"
        \/ pc[t] = "held" /\ pc'[t] = "running"
    BY <1>6, <1>c DEF Begin, BeginRestore, Finish, Fail
  <2>4. \A u \in Threads \ {t} : pc'[u] = pc[u]
    BY <1>6, <1>c DEF Begin, BeginRestore, Finish, Fail
  <2>5. QED
    BY <2>1, <2>2, <2>3, <2>4, <1>a, <1>e, <1>f, GhostKeeps, ThreadsAssumption
<1>7. CASE Progress(t) \/ ScanProgress(t)
  BY <1>7, <1>a, LockJobKept, GhostKeeps, ThreadsAssumption DEF Progress, ScanProgress
<1>8. CASE WriteArchive(t) \/ Rotate(t) \/ Install(t) \/ Record(t) \/ SilentDone(t)
  <2>1. UNCHANGED <<lock, owner, boot, job, kind>>
    BY <1>8 DEF WriteArchive, Rotate, Install, Record, SilentDone
  <2>2. pc'[t] \in {"archived", "rotated", "installed", "recorded", "release"}
        /\ pc[t] \in {"held", "running", "archived", "rotated", "installed"}
        /\ \A u \in Threads \ {t} : pc'[u] = pc[u]
    BY <1>8, <1>c DEF WriteArchive, Rotate, Install, Record, SilentDone
  <2>3. pc[t] \notin {"copied", "release"} /\ pc'[t] \in Holding /\ pc'[t] \notin Posting
    BY <2>2, <1>e, <1>f
  <2>4. QED
    BY <2>1, <2>2, <2>3, <1>a, GhostKeeps, ThreadsAssumption
<1>9. CASE CopyDatabase(t)
  <2>1. owner' = Nobody /\ boot' = boot /\ kind' = kind /\ kind[t] = "restore"
    BY <1>9 DEF CopyDatabase
  <2>2. pc'[t] = "copied" /\ \A u \in Threads \ {t} : pc'[u] = pc[u]
    BY <1>9, <1>c DEF CopyDatabase
  <2>3. OffIsIdle' /\ NeverPosting'
    BY <2>1, <2>2, <1>b, <1>e, <1>f
  <2>4. Restoring'
    BY <2>1, <2>2 DEF Restoring
  <2>5. QED
    BY <2>1, <2>3, <2>4 DEF GhostInv, OwnerActive, OrphanRestored
<1>10. CASE ScanEnd(t)
  <2>1. (lock' = NoLock <=> lock = NoLock) /\ lock'.job = lock.job
    BY <1>10, LockJobKept DEF ScanEnd
  <2>2. owner' = owner /\ boot' = boot
    BY <1>10, <1>d, <1>g DEF ScanEnd
  <2>3. /\ pc'[t] = "idle"
        /\ \A u \in Threads \ {t} : pc'[u] = pc[u] /\ job'[u] = job[u] /\ kind'[u] = kind[u]
    BY <1>10, <1>c DEF ScanEnd
  <2>4. pc[t] \notin Holding
    BY <1>10, <1>d DEF ScanEnd
  <2>5. QED
    BY <2>1, <2>2, <2>3, <2>4, <1>a, <1>d, GhostKeeps, ThreadsAssumption
<1>11. CASE \/ \E u \in Threads : PostAccepted(t, u)
            \/ PostAnswered(t) \/ PostFailed(t) \/ Preflight(t) \/ Reclaim(t)
  BY <1>11, <1>a DEF PostAccepted, PostAnswered, PostFailed, Preflight, Reclaim, Posting
<1>12. QED
  BY <1>1, <1>2, <1>3, <1>4, <1>5, <1>6, <1>7, <1>8, <1>9, <1>10, <1>11 DEF ThreadStep

LEMMA NextGhost == TypeOK /\ GhostInv /\ NoUpdater /\ [Next]_vars => GhostInv'
<1> SUFFICES ASSUME TypeOK, GhostInv, NoUpdater, [Next]_vars PROVE GhostInv'
  OBVIOUS
<1> USE DEF db, history, thread
<1>1. ASSUME NEW t \in Threads, ThreadStep(t) PROVE GhostInv'
  BY <1>1, ThreadStepGhost
<1>2. ASSUME NEW t \in Threads, NEW k \in Kinds, Queue(t, k) \/ Peek(t, k) PROVE GhostInv'
  <2>1. FirstLabel(k) \in {"ready", "scan"}
    BY DEF FirstLabel, NoUpdater
  <2>2. boot = "up" /\ boot' = boot /\ pc[t] = "idle" /\ UNCHANGED <<lock, owner>>
    BY <1>2 DEF Queue, Peek
  <2>3. \A u \in Threads \ {t} : pc'[u] = pc[u] /\ job'[u] = job[u] /\ kind'[u] = kind[u]
    BY <1>2 DEF Queue, Peek, Start, Goto, TypeOK
  <2>4. pc'[t] \notin Posting
    BY <1>2, <2>1, <2>2 DEF Queue, Peek, Start, Goto, TypeOK, Posting
  <2>5. pc[t] \notin Holding
    BY <2>2 DEF Holding, Working, OnDisk
  <2>6. QED
    BY <2>2, <2>3, <2>4, <2>5, GhostKeeps, ThreadsAssumption
<1>3. \A t \in Threads : ~InUpdater(t)
  BY DEF InUpdater, NoUpdater, TypeOK
<1>4. CASE ConciergeCrash
  <2>1. boot' = "down" /\ \A t \in Threads : pc'[t] = "idle"
    BY <1>4, <1>3 DEF ConciergeCrash, Kill
  <2>2. owner' = Nobody
    BY <1>4, <1>3, ThreadsAssumption DEF ConciergeCrash, Kill, Forget, TypeOK, ThreadsAssumption
  <2>3. QED
    BY <2>1, <2>2 DEF GhostInv, OwnerActive, OrphanRestored, OffIsIdle, NeverPosting, Posting
<1>5. CASE UpdaterCrash
  BY <1>5, <1>3 DEF UpdaterCrash
<1>6. CASE StartupSweep
  BY <1>6 DEF StartupSweep, GhostInv, OwnerActive, OrphanRestored, OffIsIdle, NeverPosting
<1>7. CASE StartupClear
  <2>1. \A j \in Unfinished(jobs) : jobs[j].type # "apply_update"
    <3>1. \A j \in Unfinished(jobs) : jobs[j] \in JobRow
      BY DEF Unfinished, TypeOK, Table, NoRow
    <3>2. QED
      BY <3>1 DEF JobRow, NoUpdater
  <2>2. lock' = NoLock /\ owner' = Nobody
    BY <1>7, <2>1 DEF StartupClear, DropLock
  <2>3. QED
    BY <1>7, <2>2 DEF StartupClear, GhostInv, OwnerActive, OrphanRestored, OffIsIdle, NeverPosting
<1>8. CASE LockAges
  <2>1. lock # NoLock /\ lock' # NoLock /\ lock'.job = lock.job
    BY <1>8 DEF LockAges, TypeOK, LockRow, NoLock
  <2>2. QED
    BY <1>8, <2>1 DEF LockAges, GhostInv, OwnerActive, OrphanRestored, Restoring,
                      OffIsIdle, NeverPosting
<1>9. CASE UNCHANGED vars
  BY <1>9 DEF vars, GhostInv, OwnerActive, OrphanRestored, Restoring, OffIsIdle, NeverPosting
<1>10. QED
  BY <1>1, <1>2, <1>4, <1>5, <1>6, <1>7, <1>8, <1>9, AutobackupQueues DEF Next

(* Without the updater no lock row is ever left to nobody.                 *)
THEOREM NoGhosts == ASSUME NoUpdater PROVE Spec => []NoGhostLock
<1>1. Init => GhostInv
  BY ThreadsAssumption
     DEF Init, GhostInv, OwnerActive, OrphanRestored, OffIsIdle, NeverPosting, Posting
<1>2. TypeOK /\ GhostInv => NoGhostLock
  BY DEF TypeOK, GhostInv, OwnerActive, OrphanRestored, NoGhostLock, Holding
<1>3. TypeOK /\ GhostInv /\ [Next]_vars => GhostInv'
  BY NextGhost
<1>4. QED
  BY <1>1, <1>2, <1>3, TypeCorrect, PTL DEF Spec

(***************************************************************************)
(* Backups.  A database, live or archived, that lists a current backup can *)
(* only exist while a whole archive is in the current slot.                *)
(***************************************************************************)
Whole == files["current"].whole
BackupInv ==
  /\ "current" \in rows => Whole
  /\ \A s \in Slots : "current" \in files[s].rows => Whole
  /\ \A t \in Threads : "current" \in tmp[t].rows => Whole
  /\ \A t \in Threads : pc[t] \in {"archived", "rotated"} => tmp[t].whole
  /\ \A t \in Threads : pc[t] = "installed" => Whole

\* a step of t that leaves the archives and the database's rows alone
LEMMA BackupKeeps ==
  ASSUME TypeOK, BackupInv, NEW t \in Threads, UNCHANGED <<rows, files>>,
         \A u \in Threads \ {t} : pc'[u] = pc[u] /\ tmp'[u] = tmp[u],
         tmp'[t] \in {tmp[t], NoArchive}, pc'[t] \notin {"archived", "rotated", "installed"}
  PROVE  BackupInv'
BY DEF BackupInv, Whole, NoArchive

LEMMA ThreadStepBackup ==
  ASSUME TypeOK, BackupInv, NEW t \in Threads, ThreadStep(t)
  PROVE  BackupInv'
<1> USE DEF db, history, thread, Goto, End, Start
<1>a. pc \in [Threads -> PC] /\ tmp \in [Threads -> Archive] /\ files \in [Slots -> Archive]
      /\ "current" \in Slots /\ "previous" \in Slots
  BY DEF TypeOK, Slots
<1>1. ASSUME NEW u \in Threads, PostAccepted(t, u) PROVE BackupInv'
  BY <1>1, <1>a DEF PostAccepted, BackupInv, Whole
<1>2. CASE \/ PostAnswered(t) \/ PostFailed(t) \/ PeekClear(t)
           \/ AcquireBroken(t) \/ AcquireLost(t) \/ ScanEnd(t) \/ Release(t)
  <2>1. UNCHANGED <<rows, files>> /\ pc'[t] \in {"idle", "ready", "release"}
        /\ tmp'[t] \in {tmp[t], NoArchive}
        /\ \A u \in Threads \ {t} : pc'[u] = pc[u] /\ tmp'[u] = tmp[u]
    BY <1>2, <1>a DEF PostAnswered, PostFailed, PeekClear, AcquireBroken, AcquireLost,
                      ScanEnd, Release
  <2>2. QED
    BY <2>1, BackupKeeps
<1>3. CASE \/ Preflight(t) \/ Reclaim(t) \/ AcquireRead(t) \/ AcquireClear(t) \/ AcquireInsert(t)
           \/ Begin(t) \/ Record(t) \/ Finish(t) \/ Fail(t) \/ SilentDone(t)
  <2>1. UNCHANGED <<files, tmp>> /\ pc'[t] \notin {"archived", "rotated", "installed"}
        /\ \A u \in Threads \ {t} : pc'[u] = pc[u]
    BY <1>3, <1>a DEF Preflight, Reclaim, AcquireRead, AcquireClear, AcquireInsert, Begin,
                      Record, Finish, Fail, SilentDone
  <2>2. rows' = rows \/ (pc[t] = "installed" /\ rows' = rows \cup {"current"})
    BY <1>3 DEF Preflight, Reclaim, AcquireRead, AcquireClear, AcquireInsert, Begin,
                Record, Finish, Fail, SilentDone
  <2>3. "current" \in rows' => Whole
    BY <2>2 DEF BackupInv
  <2>4. \A u \in Threads : pc'[u] \in {"archived", "rotated", "installed"} => pc'[u] = pc[u]
    BY <2>1
  <2>5. QED
    BY <2>1, <2>3, <2>4 DEF BackupInv, Whole
<1>4. ASSUME NEW s \in Slots, BeginRestore(t, s) PROVE BackupInv'
  BY <1>4, <1>a DEF BeginRestore, BackupInv, Whole
<1>5. CASE Progress(t) \/ ScanProgress(t)
  BY <1>5 DEF Progress, ScanProgress, BackupInv, Whole
<1>6. CASE WriteArchive(t)
  BY <1>6, <1>a DEF WriteArchive, BackupInv, Whole, Snapshot
<1>7. CASE Rotate(t)
  <2>1. tmp[t].whole /\ pc' = [pc EXCEPT ![t] = "rotated"] /\ tmp' = tmp
    BY <1>7 DEF Rotate, BackupInv
  <2>2. files'["current"] = files["current"]
    BY <1>7, <1>a DEF Rotate
  <2>3. files'["previous"] \in {files["current"], files["previous"], NoArchive}
    BY <1>7, <1>a DEF Rotate
  <2>4. "current" \in rows' => Whole
    BY <1>7 DEF Rotate, Available, BackupInv, Whole, Slots
  <2>5. \A s \in Slots : "current" \in files'[s].rows => Whole
    BY <2>2, <2>3, <1>a DEF BackupInv, NoArchive, Slots
  <2>6. QED
    BY <2>1, <2>2, <2>4, <2>5, <1>a DEF BackupInv, Whole
<1>8. CASE Install(t)
  <2>1. files'["current"].whole
    BY <1>8, <1>a DEF Install, BackupInv
  <2>2. QED
    BY <1>8, <2>1, <1>a DEF Install, BackupInv, Whole, NoArchive
<1>9. CASE CopyDatabase(t)
  BY <1>9, <1>a DEF CopyDatabase, BackupInv, Whole, NoArchive
<1>10. QED
  BY <1>1, <1>2, <1>3, <1>4, <1>5, <1>6, <1>7, <1>8, <1>9 DEF ThreadStep

LEMMA NextBackup == TypeOK /\ BackupInv /\ [Next]_vars => BackupInv'
<1> SUFFICES ASSUME TypeOK, BackupInv, [Next]_vars PROVE BackupInv'
  OBVIOUS
<1> USE DEF db, history, thread
<1>1. ASSUME NEW t \in Threads, ThreadStep(t) PROVE BackupInv'
  BY <1>1, ThreadStepBackup
<1>2. ASSUME NEW t \in Threads, NEW k \in Kinds, Queue(t, k) \/ Peek(t, k) PROVE BackupInv'
  <2>1. FirstLabel(k) \notin {"archived", "rotated", "installed"}
    BY DEF FirstLabel
  <2>2. CASE UNCHANGED thread
    BY <1>2, <2>2 DEF Queue, Peek, BackupInv, Whole
  <2>3. CASE ~UNCHANGED thread
    <3>1. UNCHANGED <<rows, files>> /\ tmp'[t] = NoArchive
          /\ pc'[t] \notin {"archived", "rotated", "installed"}
          /\ \A u \in Threads \ {t} : pc'[u] = pc[u] /\ tmp'[u] = tmp[u]
      BY <1>2, <2>1, <2>3 DEF Queue, Peek, Start, Goto, TypeOK
    <3>2. QED
      BY <3>1, BackupKeeps
  <2>4. QED
    BY <2>2, <2>3
<1>3. ASSUME NEW T \in SUBSET Threads, Kill(T), UNCHANGED <<rows, files>> PROVE BackupInv'
  BY <1>3 DEF Kill, BackupInv, Whole, NoArchive
<1>4. CASE ConciergeCrash \/ UpdaterCrash
  BY <1>4, <1>3 DEF ConciergeCrash, UpdaterCrash
<1>5. CASE StartupSweep \/ StartupClear \/ LockAges \/ UNCHANGED vars
  BY <1>5 DEF StartupSweep, StartupClear, LockAges, vars, BackupInv, Whole
<1>6. QED
  BY <1>1, <1>2, <1>4, <1>5, AutobackupQueues DEF Next

(* A backup the database lists is a whole archive on disk, whatever crashed*)
(* or was restored, and however many operations overlapped.                *)
THEOREM RecordedBackups == Spec => []RecordedBackupExists
<1>1. Init => BackupInv
  BY DEF Init, BackupInv, NoArchive, Slots
<1>2. BackupInv => RecordedBackupExists
  BY DEF BackupInv, RecordedBackupExists, Whole
<1>3. QED
  BY <1>1, <1>2, NextBackup, TypeCorrect, PTL DEF Spec
=============================================================================
