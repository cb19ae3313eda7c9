------------------------------ MODULE AdminOps ------------------------------
(***************************************************************************)
(* Administrative jobs of the concierge and the one global operation lock  *)
(* that is meant to run them one at a time (job_service.py), with every    *)
(* operation that takes it: backup and restore (backup_service.py), update *)
(* check, apply update and silent refresh (update_service.py) and the      *)
(* loudness scan (routers/admin.py).  The daily backup is queued by a      *)
(* scheduler; the three scans of the library take no lock.                 *)
(*                                                                         *)
(* A thread is one run of an operation: the handler that queues it, then   *)
(* the worker thread that executes it.  Apply-update runs in the updater   *)
(* container and shares only the database with the concierge.  Every       *)
(* session commit is one step, so other threads run between any two.       *)
(*                                                                         *)
(* Time is abstracted to what the code compares: how long ago the lock was *)
(* acquired (lock.aged) and how long it has had no heartbeat (lock.quiet). *)
(* The sqlite file copied by a backup is a snapshot of the three tables of *)
(* this module.                                                            *)
(***************************************************************************)
EXTENDS Integers, FiniteSets

CONSTANTS Threads,  \* threads that execute admin operations
          Nobody,   \* not a thread: the lock row was not inserted by a live one
          Kinds,    \* the operations that this instance exercises
          MaxJob,   \* bound: job ids handed out are 1..MaxJob
          Keep      \* ADMIN_JOB_RETENTION_LIMIT

Scans == {"duplicate_scan", "library_audit", "metadata_rescan"}
AllKinds == Scans \cup {"backup", "restore", "check_update", "apply_update", "loudness_scan",
                        "silent_refresh", "monitor_page"}

ASSUME ThreadsAssumption == Nobody \notin Threads
ASSUME KindsAssumption == Kinds \subseteq AllKinds
ASSUME BoundsAssumption == MaxJob \in Nat /\ Keep \in Nat

VARIABLES jobs,    \* table admin_jobs: id -> row
          lock,    \* table admin_operation_locks: its only row, or NoLock
          rows,    \* table backup_artifacts: the slots that have a row
          files,   \* backup archives on disk, one per slot
          boot,    \* the concierge process: down, sweeping (startup) or up
          pc, kind, job, tmp,  \* each thread: where it is, its operation, job and archive
          owner,   \* history: the thread whose insert the lock row is
          robbed   \* history: threads whose lock row somebody else deleted

db == <<jobs, lock, rows>>
thread == <<pc, kind, job, tmp>>
history == <<owner, robbed>>
vars == <<jobs, lock, rows, files, boot, pc, kind, job, tmp, owner, robbed>>
-----------------------------------------------------------------------------
(* The tables. *)

JobIds == 1..MaxJob
Terminal == {"completed", "failed"}
Status == {"queued", "running"} \cup Terminal
Slots == {"current", "previous"}

NoRow == [type |-> "none", status |-> "none"]
NoLock == [job |-> 0, quiet |-> "none", aged |-> FALSE]
JobRow == [type : Kinds, status : Status]
\* quiet: no heartbeat for the zombie threshold ("idle") or past expires_at ("expired")
LockRow == [job : 0..MaxJob, quiet : {"active", "idle", "expired"}, aged : BOOLEAN]
Table == [JobIds -> JobRow \cup {NoRow}]
NoArchive == [jobs |-> [j \in JobIds |-> NoRow], lock |-> NoLock, rows |-> {}, whole |-> FALSE]
Archive == [jobs : Table, lock : LockRow \cup {NoLock}, rows : SUBSET Slots, whole : BOOLEAN]

Exists(js, j) == j \in JobIds /\ js[j] # NoRow
Finished(js) == {j \in JobIds : js[j].status \in Terminal}
Unfinished(js) == {j \in JobIds : js[j].status \in {"queued", "running"}}

Snapshot == [jobs |-> jobs, lock |-> lock, rows |-> rows, whole |-> TRUE]

(* _prune_admin_jobs: the oldest finished jobs beyond the retention limit. *)
Excess(js) == LET room == Keep - Cardinality(Unfinished(js))
              IN  Cardinality(Finished(js)) - (IF room > 0 THEN room ELSE 0)
Oldest(js) == {j \in Finished(js) : Cardinality({i \in Finished(js) : i < j}) < Excess(js)}
\* lock.job_id is a foreign key: deleting the job it names is refused
PruneFails(js) == lock.job \in Oldest(js)
Prune(js) == IF PruneFails(js) THEN js
             ELSE [j \in JobIds |-> IF j \in Oldest(js) THEN NoRow ELSE js[j]]

\* sqlite hands out the largest id in the table plus one
NextId == 1 + Cardinality({j \in JobIds : \E i \in JobIds : i >= j /\ jobs[i] # NoRow})

SetStatus(js, j, s) == IF Exists(js, j) THEN [js EXCEPT ![j].status = s] ELSE js

(* update_admin_job with a terminal status.  A prune that fails raises into *)
(* the caller's except branch, which overwrites the status with "failed".   *)
Settled(j, s) == LET js == SetStatus(jobs, j, s)
                 IN  IF ~Exists(jobs, j) THEN jobs
                     ELSE IF PruneFails(js) THEN SetStatus(js, j, "failed")
                     ELSE Prune(js)

Heartbeat(j) == IF Exists(jobs, j) /\ lock # NoLock /\ lock.job = j
                THEN [lock EXCEPT !.quiet = "active"] ELSE lock

(* _should_reclaim_lock *)
Reclaimable == \/ lock.quiet = "expired"
               \/ lock.job # 0 /\ lock.job \notin Unfinished(jobs)
-----------------------------------------------------------------------------
(* Threads. *)

OnDisk == {"archived", "rotated", "installed", "recorded"}
Working == {"held", "running", "copied"} \cup OnDisk
PC == {"idle", "post", "posted", "preflight", "reclaim", "ready", "clear", "insert",
       "release", "scan", "peek", "peekclear"} \cup Working

InOperation == {t \in Threads : pc[t] \in Working}
InUpdater(t) == kind[t] = "apply_update" /\ pc[t] \notin {"idle", "post", "posted"}

(* async handlers run on the event loop without yielding it *)
OnLoop(t) == \/ pc[t] \in {"post", "posted"}
             \/ kind[t] = "loudness_scan" /\ pc[t] \in {"ready", "clear", "insert"}
             \/ kind[t] = "silent_refresh" /\ pc[t] \in {"peek", "peekclear"}
LoopFree == \A t \in Threads : ~OnLoop(t)

Goto(t, label) == pc' = [pc EXCEPT ![t] = label]
Start(t, k, j, label) == /\ Goto(t, label)
                         /\ kind' = [kind EXCEPT ![t] = k]
                         /\ job' = [job EXCEPT ![t] = j]
                         /\ tmp' = [tmp EXCEPT ![t] = NoArchive]

\* a thread that ends owns nothing any more
Forget(T) == /\ owner' = IF owner \in T THEN Nobody ELSE owner
             /\ robbed' = robbed \ T
End(t) == Start(t, "none", 0, "idle")

(* Any of the code's ways to delete the lock row: none checks whose it is. *)
DropLock(t) == /\ lock' = NoLock
               /\ owner' = Nobody
               /\ robbed' = IF lock = NoLock THEN robbed
                            ELSE robbed \cup ({owner} \ {t, Nobody})

SetJob(t, s) == jobs' = SetStatus(jobs, job[t], s) /\ lock' = Heartbeat(job[t])
Settle(t, s) == jobs' = Settled(job[t], s) /\ lock' = Heartbeat(job[t])

Init == /\ jobs = [j \in JobIds |-> NoRow]
        /\ lock = NoLock
        /\ rows = {}
        /\ files = [s \in Slots |-> NoArchive]
        /\ boot = "up"
        /\ pc = [t \in Threads |-> "idle"]
        /\ kind = [t \in Threads |-> "none"]
        /\ job = [t \in Threads |-> 0]
        /\ tmp = [t \in Threads |-> NoArchive]
        /\ owner = Nobody
        /\ robbed = {}
-----------------------------------------------------------------------------
(* Queueing. *)

FirstLabel(k) == CASE k = "apply_update" -> "post"
                   [] k \in Scans -> "scan"
                   [] OTHER -> "ready"

(* queue_* and create_admin_job: the row is committed, then the table is    *)
(* pruned; when the prune raises, the handler ends and nobody runs the job. *)
Queue(t, k) ==
  /\ boot = "up" /\ LoopFree /\ pc[t] = "idle"
  /\ k \in Kinds \ {"silent_refresh", "monitor_page"}
  /\ k = "loudness_scan" =>
       \A j \in Unfinished(jobs) : jobs[j].type # "loudness_scan"
  /\ NextId <= MaxJob
  /\ LET js == [jobs EXCEPT ![NextId] = [type |-> k, status |-> "queued"]]
     IN  /\ jobs' = Prune(js)
         /\ IF PruneFails(js) THEN UNCHANGED thread
            ELSE Start(t, k, NextId, FirstLabel(k))
  /\ UNCHANGED <<lock, rows, files, boot, history>>

(* autobackup_scheduler: enabled, the hour has come and there is no archive *)
(* of today, which is left open here, and no row in the lock table, whether *)
(* or not acquire_lock would reclaim it.                                    *)
ShouldRunAutobackup == lock = NoLock

Autobackup(t) == ShouldRunAutobackup /\ Queue(t, "backup")

(* queue_apply_update's POST to the updater, which starts a thread there... *)
PostAccepted(t, u) ==
  /\ pc[t] = "post" /\ pc[u] = "idle"
  /\ pc' = [pc EXCEPT ![t] = "posted", ![u] = "preflight"]
  /\ kind' = [kind EXCEPT ![u] = kind[t]]
  /\ job' = [job EXCEPT ![u] = job[t]]
  /\ UNCHANGED <<db, files, boot, tmp, history>>

PostAnswered(t) ==
  /\ pc[t] = "posted"
  /\ End(t) /\ Forget({t})
  /\ UNCHANGED <<db, files, boot>>

(* ... or fails, before or after the updater accepted it. *)
PostFailed(t) ==
  /\ pc[t] \in {"post", "posted"}
  /\ Settle(t, "failed")
  /\ End(t) /\ Forget({t})
  /\ UNCHANGED <<rows, files, boot>>

(* get_active_operation_lock, before a silent refresh and in the monitor page *)
Peek(t, k) ==
  /\ boot = "up" /\ pc[t] = "idle"
  /\ k \in Kinds \cap {"silent_refresh", "monitor_page"}
  /\ k = "silent_refresh" => LoopFree
  /\ lock = NoLock => k = "silent_refresh"
  /\ lock # NoLock => Reclaimable
  /\ Start(t, k, 0, IF lock = NoLock THEN "ready" ELSE "peekclear")
  /\ UNCHANGED <<db, files, boot, history>>

PeekClear(t) ==
  /\ pc[t] = "peekclear"
  /\ DropLock(t)
  /\ IF kind[t] = "monitor_page" THEN End(t)
     ELSE Goto(t, "ready") /\ UNCHANGED <<kind, job, tmp>>
  /\ UNCHANGED <<jobs, rows, files, boot>>
-----------------------------------------------------------------------------
(* Taking and releasing the lock. *)

(* _reclaim_zombie_admin_lock: it compares the age of the lock *)
Zombie == lock # NoLock /\ lock.job \in Unfinished(jobs) /\ lock.aged

Preflight(t) ==
  /\ pc[t] = "preflight"
  /\ IF Zombie THEN jobs' = SetStatus(jobs, lock.job, "failed") /\ Goto(t, "reclaim")
     ELSE UNCHANGED jobs /\ Goto(t, "ready")
  /\ UNCHANGED <<lock, rows, files, boot, kind, job, tmp, history>>

Reclaim(t) ==
  /\ pc[t] = "reclaim"
  /\ DropLock(t)
  /\ jobs' = SetStatus(jobs, job[t], "running")
  /\ Goto(t, "ready")
  /\ UNCHANGED <<rows, files, boot, kind, job, tmp>>

(* acquire_lock reads the row, clears it when it may be reclaimed, inserts *)
AcquireRead(t) ==
  /\ pc[t] = "ready"
  /\ lock = NoLock \/ Reclaimable
  /\ Goto(t, IF lock = NoLock THEN "insert" ELSE "clear")
  /\ UNCHANGED <<db, files, boot, kind, job, tmp, history>>

\* the row is deleted by primary key, which the next row inserted reuses
AcquireClear(t) ==
  /\ pc[t] = "clear"
  /\ DropLock(t)
  /\ Goto(t, "insert")
  /\ UNCHANGED <<jobs, rows, files, boot, kind, job, tmp>>

\* mutant: the name of the lock is not unique, a second insert takes it over
AcquireUpsert(t) ==
  /\ pc[t] = "insert"
  /\ job[t] # 0 => Exists(jobs, job[t])
  /\ lock' = [job |-> job[t], quiet |-> "active", aged |-> FALSE]
  /\ owner' = t
  /\ robbed' = robbed \ {t}
  /\ Goto(t, "held")
  /\ UNCHANGED <<jobs, rows, files, boot, kind, job, tmp>>

AcquireInsert(t) ==
  /\ pc[t] = "insert" /\ lock = NoLock
  /\ job[t] # 0 => Exists(jobs, job[t])
  /\ lock' = [job |-> job[t], quiet |-> "active", aged |-> FALSE]
  /\ owner' = t
  /\ robbed' = robbed \ {t}
  /\ Goto(t, "held")
  /\ UNCHANGED <<jobs, rows, files, boot, kind, job, tmp>>

(* A second row, or one for a job that is gone, is refused: the except      *)
(* branch fails the job and the release that follows dies on the session.   *)
AcquireBroken(t) ==
  /\ pc[t] = "insert"
  /\ lock # NoLock \/ (job[t] # 0 /\ ~Exists(jobs, job[t]))
  /\ IF kind[t] \in {"silent_refresh", "loudness_scan"} THEN UNCHANGED <<jobs, lock>>
     ELSE Settle(t, "failed")
  /\ End(t) /\ Forget({t})
  /\ UNCHANGED <<rows, files, boot>>

(* "Another admin operation is already running": the loudness handler       *)
(* returns, everybody else goes through finally: release_lock               *)
AcquireLost(t) ==
  /\ pc[t] = "ready" /\ lock # NoLock /\ ~Reclaimable
  /\ IF kind[t] = "silent_refresh" THEN UNCHANGED <<jobs, lock>> ELSE Settle(t, "failed")
  /\ IF kind[t] = "loudness_scan" THEN End(t) /\ Forget({t})
     ELSE Goto(t, "release") /\ UNCHANGED <<kind, job, tmp, history>>
  /\ UNCHANGED <<rows, files, boot>>

(* release_lock *)
Release(t) ==
  /\ pc[t] = "release"
  /\ lock' = NoLock
  /\ owner' = Nobody
  /\ robbed' = (IF lock = NoLock THEN robbed ELSE robbed \cup ({owner} \ {Nobody})) \ {t}
  /\ End(t)
  /\ UNCHANGED <<jobs, rows, files, boot>>
-----------------------------------------------------------------------------
(* The operations, between acquire_lock and the finally block. *)

Begin(t) ==
  /\ pc[t] = "held" /\ kind[t] \notin {"restore", "silent_refresh"}
  /\ SetJob(t, "running")
  /\ Goto(t, "running")
  /\ UNCHANGED <<rows, files, boot, kind, job, tmp, history>>

Available(s) == s \in rows /\ files[s].whole

BeginRestore(t, s) ==
  /\ pc[t] = "held" /\ kind[t] = "restore"
  /\ Available(s)
  /\ SetJob(t, "running")
  /\ tmp' = [tmp EXCEPT ![t] = files[s]]
  /\ Goto(t, "running")
  /\ UNCHANGED <<rows, files, boot, kind, job, history>>

\* progress callbacks write the status again
Progress(t) ==
  /\ \/ kind[t] = "loudness_scan" /\ pc[t] = "running"
     \/ kind[t] = "apply_update" /\ pc[t] \in {"running", "recorded"}
  /\ SetJob(t, "running")
  /\ UNCHANGED <<rows, files, boot, thread, history>>

(* _write_backup_zip *)
WriteArchive(t) ==
  /\ kind[t] \in {"backup", "apply_update"} /\ pc[t] = "running"
  /\ tmp' = [tmp EXCEPT ![t] = Snapshot]
  /\ Goto(t, "archived")
  /\ UNCHANGED <<db, files, boot, kind, job, history>>

\* mutant: the current archive is moved, not copied, to the previous slot
RotateByMove(t) ==
  /\ pc[t] = "archived"
  /\ IF Available("current")
     THEN files' = [current |-> NoArchive, previous |-> files["current"]] /\ rows' = Slots
     ELSE UNCHANGED <<files, rows>>
  /\ Goto(t, "rotated")
  /\ UNCHANGED <<jobs, lock, boot, kind, job, tmp, history>>

(* _rotate_current_to_previous: an error is logged and ignored, but the old *)
(* file is already gone by then                                             *)
Rotate(t) ==
  /\ pc[t] = "archived"
  /\ \/ /\ Available("current")
        /\ \/ files' = [files EXCEPT !["previous"] = files["current"]] /\ rows' = Slots
           \/ files' = [files EXCEPT !["previous"] = NoArchive] /\ rows' = rows
     \/ ~Available("current") /\ UNCHANGED <<files, rows>>
  /\ Goto(t, "rotated")
  /\ UNCHANGED <<jobs, lock, boot, kind, job, tmp, history>>

Install(t) ==
  /\ pc[t] = "rotated"
  /\ files' = [files EXCEPT !["current"] = tmp[t]]
  /\ tmp' = [tmp EXCEPT ![t] = NoArchive]
  /\ Goto(t, "installed")
  /\ UNCHANGED <<db, boot, kind, job, history>>

(* _upsert_backup_artifact *)
Record(t) ==
  /\ pc[t] = "installed"
  /\ rows' = rows \cup {"current"}
  /\ Goto(t, "recorded")
  /\ UNCHANGED <<jobs, lock, files, boot, kind, job, tmp, history>>

(* run_restore_job copies the archived database over the live one *)
CopyDatabase(t) ==
  /\ kind[t] = "restore" /\ pc[t] = "running"
  /\ jobs' = tmp[t].jobs
  /\ lock' = tmp[t].lock
  /\ rows' = tmp[t].rows
  /\ owner' = Nobody
  /\ robbed' = robbed \cup ({owner} \ {Nobody})
  /\ tmp' = [tmp EXCEPT ![t] = NoArchive]
  /\ Goto(t, "copied")
  /\ UNCHANGED <<files, boot, kind, job>>

LastLabels(k) == CASE k = "backup" -> {"recorded"}
                   [] k = "restore" -> {"copied"}
                   [] k = "apply_update" -> {"running", "recorded"}
                   [] OTHER -> {"running"}

Finish(t) ==
  /\ pc[t] \in Working /\ pc[t] \in LastLabels(kind[t])
  /\ Settle(t, "completed")
  /\ Goto(t, "release")
  /\ UNCHANGED <<rows, files, boot, kind, job, tmp, history>>

(* except Exception, and the early returns that report a failure *)
Fail(t) ==
  /\ pc[t] \in Working /\ kind[t] # "silent_refresh"
  /\ Settle(t, "failed")
  /\ Goto(t, "release")
  /\ UNCHANGED <<rows, files, boot, kind, job, tmp, history>>

(* run_silent_update_refresh has no job to report to *)
SilentDone(t) ==
  /\ pc[t] = "held" /\ kind[t] = "silent_refresh"
  /\ Goto(t, "release")
  /\ UNCHANGED <<db, files, boot, kind, job, tmp, history>>

(* duplicate scan, library audit and metadata rescan take no lock *)
ScanProgress(t) ==
  /\ pc[t] = "scan"
  /\ SetJob(t, "running")
  /\ UNCHANGED <<rows, files, boot, thread, history>>

ScanEnd(t) ==
  /\ pc[t] = "scan"
  /\ \E s \in Terminal : Settle(t, s)
  /\ End(t) /\ Forget({t})
  /\ UNCHANGED <<rows, files, boot>>
-----------------------------------------------------------------------------
(* Crashes, startup and time. *)

Kill(T) ==
  /\ pc' = [t \in Threads |-> IF t \in T THEN "idle" ELSE pc[t]]
  /\ kind' = [t \in Threads |-> IF t \in T THEN "none" ELSE kind[t]]
  /\ job' = [t \in Threads |-> IF t \in T THEN 0 ELSE job[t]]
  /\ tmp' = [t \in Threads |-> IF t \in T THEN NoArchive ELSE tmp[t]]
  /\ Forget(T)

ConciergeCrash ==
  /\ boot # "down" /\ boot' = "down"
  /\ Kill({t \in Threads : ~InUpdater(t)})
  /\ UNCHANGED <<db, files>>

UpdaterCrash ==
  /\ \E t \in Threads : InUpdater(t)
  /\ Kill({t \in Threads : InUpdater(t)})
  /\ UNCHANGED <<db, files, boot>>

\* mutant: the sweep looks at running jobs only
InterruptedRunning ==
  {j \in Unfinished(jobs) : jobs[j].type # "apply_update" /\ jobs[j].status = "running"}

(* lifespan startup: fail what the dead process was running ... *)
Interrupted == {j \in Unfinished(jobs) : jobs[j].type # "apply_update"}

StartupSweep ==
  /\ boot = "down" /\ boot' = "sweeping"
  /\ jobs' = [j \in JobIds |-> IF j \in Interrupted THEN [jobs[j] EXCEPT !.status = "failed"]
                               ELSE jobs[j]]
  /\ UNCHANGED <<lock, rows, files, thread, history>>

\* mutant: startup fails the jobs and leaves the lock alone
StartupKeepsLock ==
  /\ boot = "sweeping" /\ boot' = "up"
  /\ UNCHANGED <<db, files, thread, history>>

(* ... and clear the lock unless an apply-update may be running *)
StartupClear ==
  /\ boot = "sweeping" /\ boot' = "up"
  /\ IF \E j \in Unfinished(jobs) : jobs[j].type = "apply_update"
     THEN UNCHANGED <<lock, history>>
     ELSE DropLock(Nobody)
  /\ UNCHANGED <<jobs, rows, files, thread>>

(* half an hour since the lock was taken, since its last heartbeat, and two hours *)
LockAges ==
  /\ lock # NoLock
  /\ \/ ~lock.aged /\ lock' = [lock EXCEPT !.aged = TRUE]
     \/ lock.aged /\ lock.quiet = "active" /\ lock' = [lock EXCEPT !.quiet = "idle"]
     \/ lock.quiet = "idle" /\ lock' = [lock EXCEPT !.quiet = "expired"]
  /\ UNCHANGED <<jobs, rows, files, boot, thread, history>>

ThreadStep(t) ==
  \/ \E u \in Threads : PostAccepted(t, u)
  \/ PostAnswered(t) \/ PostFailed(t) \/ PeekClear(t)
  \/ Preflight(t) \/ Reclaim(t)
  \/ AcquireRead(t) \/ AcquireClear(t) \/ AcquireInsert(t) \/ AcquireBroken(t) \/ AcquireLost(t)
  \/ Begin(t) \/ (\E s \in Slots : BeginRestore(t, s)) \/ Progress(t)
  \/ WriteArchive(t) \/ Rotate(t) \/ Install(t) \/ Record(t) \/ CopyDatabase(t)
  \/ Finish(t) \/ Fail(t) \/ SilentDone(t) \/ ScanProgress(t) \/ ScanEnd(t) \/ Release(t)

Next ==
  \/ \E t \in Threads : ThreadStep(t)
  \/ \E t \in Threads, k \in Kinds : Queue(t, k) \/ Peek(t, k)
  \/ \E t \in Threads : Autobackup(t)
  \/ ConciergeCrash \/ UpdaterCrash \/ StartupSweep \/ StartupClear \/ LockAges

Spec == Init /\ [][Next]_vars
-----------------------------------------------------------------------------
(* Type correctness. *)
TypeOK ==
  /\ jobs \in Table
  /\ lock \in LockRow \cup {NoLock}
  /\ rows \in SUBSET Slots
  /\ files \in [Slots -> Archive]
  /\ boot \in {"down", "sweeping", "up"}
  /\ pc \in [Threads -> PC]
  /\ kind \in [Threads -> Kinds \cup {"none"}]
  /\ job \in [Threads -> 0..MaxJob]
  /\ tmp \in [Threads -> Archive]
  /\ owner \in Threads \cup {Nobody}
  /\ robbed \in SUBSET Threads

(* Whoever is between acquire_lock and the finally block either still has  *)
(* the row it inserted, or somebody else deleted that row under it         *)
(* (release_lock and the reclaim paths never check whose row it is).       *)
HoldersProtected ==
  \A t \in InOperation : t \in robbed \/ (lock # NoLock /\ owner = t)

(* Two operations never run at once, unless one of them had its lock row   *)
(* deleted by somebody else: acquire_lock itself never admits a second one.*)
ExclusiveUnlessRobbed ==
  \A t, u \in InOperation : t # u => t \in robbed \/ u \in robbed

(* Where the updater container is not involved, the lock row of a server   *)
(* that is up always has a live thread behind it: the one whose job it     *)
(* names, on its way to its finally block, or a restore that copied the    *)
(* row back and will delete it.  No crash, failure or interleaving leaves  *)
(* the row to nobody, which would refuse every operation for two hours.    *)
Restoring == \E t \in Threads : kind[t] = "restore" /\ pc[t] \in {"copied", "release"}
NoGhostLock ==
  boot = "up" /\ lock # NoLock =>
    (\E t \in Threads : pc[t] \in Working \cup {"release"} /\ job[t] = lock.job) \/ Restoring

(* A backup that the database lists as current is a whole archive on disk, *)
(* whatever crashed, failed or was restored in between: the row is written *)
(* after the archive is in place and no step takes the archive away.       *)
RecordedBackupExists == "current" \in rows => files["current"].whole

-----------------------------------------------------------------------------
(* Liveness.  The operations terminate (every loop in them is finite or has*)
(* a deadline) and the container is restarted until a startup gets through.*)
Advance(t) == ThreadStep(t) /\ ~Progress(t) /\ ~ScanProgress(t)
Fairness == /\ \A t \in Threads : WF_vars(Advance(t))
            /\ WF_vars(StartupSweep) /\ SF_vars(StartupClear)
FairSpec == Spec /\ Fairness

(* Every job that a thread runs is eventually reported completed or failed: *)
(* by that thread, which every early return and error path goes through, or *)
(* by the next startup.                                                     *)
HasThread(j) == \E t \in Threads : job[t] = j
JobsSettle ==
  \A j \in JobIds : (j \in Unfinished(jobs) /\ HasThread(j)) ~> (j \notin Unfinished(jobs))
=============================================================================
