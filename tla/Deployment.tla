----------------------------- MODULE Deployment -----------------------------
(***************************************************************************)
(* Applying an update (update_service.py, ops_core.py, updater_api.py):    *)
(* the updater container moves the workspace to the revision of the        *)
(* upstream branch and recreates the services whose source changed.  What  *)
(* an update that fails half-way leaves undone is read back from the job   *)
(* table by the next one (_pending_update_services).                       *)
(*                                                                         *)
(* A revision is a number; Changes says which kinds of files its commit    *)
(* touches.  For each service the model keeps the revision it was last     *)
(* recreated from and the revision its image was last built from.  git,    *)
(* the backup, the migrations and docker compose may each fail; the        *)
(* updater may die at any step, and its container is restarted by the      *)
(* concierge ten minutes after each start (refresh_stale_updater_runtime), *)
(* whatever it is doing then.                                              *)
(***************************************************************************)
EXTENDS Naturals, Sequences, FiniteSets

CONSTANTS Changes,     \* sequence: the kinds of files each revision touches
          MaxJobs      \* bound: update jobs (fewer than the job table retains)

FileKinds == {"backend", "backend image", "protocol", "worker", "worker image", "nginx",
              "compose", "other"}
Services == {"concierge", "downloader", "nginx"}
Jobs == 1..MaxJobs
Other == MaxJobs + 1     \* any other administrative operation

ASSUME DeploymentAssumption ==
  /\ Changes \in Seq(SUBSET FileKinds)
  /\ MaxJobs \in Nat

VARIABLES
  upstream,    \* the revision of the branch that updates come from
  workspace,   \* the revision the workspace is at
  deployed,    \* for each service, the revision it was last recreated from
  built,       \* for each service, the revision its image was last built from
  jobs,        \* the apply_update rows: status, services and rebuild of their details
  thread,      \* for each job, where it is and what it has read
  lock,        \* the lock row: holder (0: no row), half an hour old, expired
  robbed,      \* history: a live update lost its lock to somebody
  overtaken,   \* history: an update began after a newer one had completed
  missed       \* history: services left alone though they changed, by a compose run that was
               \* waved through or because git did not say what changed, and not built since
vars == <<upstream, workspace, deployed, built, jobs, thread, lock, robbed, overtaken, missed>>
containers == <<deployed, built, missed>>

NoJob == [status |-> "absent", services |-> {}, rebuild |-> FALSE]
NoThread == [at |-> "none", awaited |-> FALSE, pending |-> {}, pendingRebuild |-> FALSE,
             target |-> 0, changed |-> {}, left |-> {}, build |-> FALSE]
Free == [holder |-> 0, old |-> FALSE, expired |-> FALSE]

Init ==
  /\ upstream = 0 /\ workspace = 0
  /\ deployed = [s \in Services |-> 0]
  /\ built = [s \in Services |-> 0]
  /\ jobs = [j \in Jobs |-> NoJob]
  /\ thread = [j \in Jobs |-> NoThread]
  /\ lock = Free
  /\ robbed = FALSE /\ overtaken = FALSE /\ missed = {}

-----------------------------------------------------------------------------
(* Which services an update concerns.                                      *)

\* The kinds of files that differ between two revisions.
Between(a, b) == UNION {Changes[r] : r \in (a + 1)..b \union (b + 1)..a}

\* git diff --name-only, of which a failure is taken for no difference.
Diff(a, b) == {Between(a, b), {}}

Triggers == [concierge |-> {"compose", "backend", "backend image", "protocol"},
             downloader |-> {"compose", "worker", "worker image", "protocol"},
             nginx |-> {"compose", "nginx"}]

\* _select_services_for_update; the updater itself is left running.
Select(files) == {s \in Services : files \intersect Triggers[s] # {}}

\* should_rebuild_for_changed_files.
NeedsRebuild(files) == files \intersect {"compose", "backend image", "worker image"} # {}

\* What an earlier update that failed was to recreate and no later one has completed with.
Outstanding(k, j) ==
  IF jobs[k].status = "failed"
  THEN jobs[k].services \ UNION {jobs[c].services : c \in {x \in (k + 1)..(j - 1) :
                                                            jobs[x].status = "completed"}}
  ELSE {}

\* _pending_update_services, as job j sees it.
Pending(j) == UNION {Outstanding(k, j) : k \in 1..(j - 1)}
PendingRebuild(j) == \E k \in 1..(j - 1) : Outstanding(k, j) # {} /\ jobs[k].rebuild

-----------------------------------------------------------------------------
(* The lock, as far as updates go (AdminOps has all of it).                *)

Active(j) == jobs[j].status \in {"queued", "running"}
Alive(j) == thread[j].at \notin {"none", "posting"}

\* Whoever deletes the row takes the lock from a thread that is still at work.
Robs(j) == lock.holder \in Jobs \ {j} /\ Alive(lock.holder)

Reclaimable == \/ lock.expired
               \/ lock.holder \in Jobs /\ ~Active(lock.holder)

Expired ==
  /\ lock.holder # 0
  /\ \/ lock' = [lock EXCEPT !.old = TRUE]
     \/ lock.old /\ lock' = [lock EXCEPT !.expired = TRUE]
  /\ UNCHANGED <<upstream, workspace, containers, jobs, thread, robbed, overtaken>>

\* A page view clears a row that may be reclaimed.
PeekClear ==
  /\ lock.holder # 0 /\ Reclaimable
  /\ lock' = Free
  /\ robbed' = (robbed \/ Robs(0))
  /\ UNCHANGED <<upstream, workspace, containers, jobs, thread, overtaken>>

OtherTakes ==
  /\ lock.holder = 0 \/ Reclaimable
  /\ lock' = [Free EXCEPT !.holder = Other]
  /\ robbed' = (robbed \/ Robs(0))
  /\ UNCHANGED <<upstream, workspace, containers, jobs, thread, overtaken>>

\* An operation that ends, or that was refused, deletes the row, its own or not.
OtherEnds ==
  /\ lock.holder # 0
  /\ lock' = Free
  /\ robbed' = (robbed \/ Robs(0))
  /\ UNCHANGED <<upstream, workspace, containers, jobs, thread, overtaken>>

\* A progress report extends the lock of the job it is about.
Beat(j) == lock' = IF lock.holder = j THEN [lock EXCEPT !.expired = FALSE] ELSE lock

\* The job is reported and release_lock deletes the row.
End(j, status) ==
  /\ jobs' = [jobs EXCEPT ![j].status = status]
  /\ thread' = [thread EXCEPT ![j] = [NoThread EXCEPT !.awaited = thread[j].awaited]]
  /\ lock' = Free
  /\ robbed' = (robbed \/ Robs(j))

-----------------------------------------------------------------------------
(* An update.                                                              *)

Push ==
  /\ upstream < Len(Changes)
  /\ upstream' = upstream + 1
  /\ UNCHANGED <<workspace, containers, jobs, thread, lock, robbed, overtaken>>

\* queue_apply_update creates the row, then posts it to the updater; the event loop waits for
\* the answer, and so does every other request.
Queue(j) ==
  /\ jobs[j] = NoJob
  /\ \A k \in 1..(j - 1) : jobs[k] # NoJob /\ ~thread[k].awaited
  /\ jobs' = [jobs EXCEPT ![j].status = "queued"]
  /\ thread' = [thread EXCEPT ![j].at = "posting", ![j].awaited = TRUE]
  /\ UNCHANGED <<upstream, workspace, containers, lock, robbed, overtaken>>

\* internal_apply_update starts a thread for the job.
PostAccepted(j) ==
  /\ thread[j].at = "posting"
  /\ thread' = [thread EXCEPT ![j].at = "preflight"]
  /\ UNCHANGED <<upstream, workspace, containers, jobs, lock, robbed, overtaken>>

PostAnswered(j) ==
  /\ thread[j].awaited /\ thread[j].at # "posting"
  /\ thread' = [thread EXCEPT ![j].awaited = FALSE]
  /\ UNCHANGED <<upstream, workspace, containers, jobs, lock, robbed, overtaken>>

\* The POST was refused, or its answer is late: the updater may be at work all the same.
PostFailed(j) ==
  /\ thread[j].awaited
  /\ jobs' = [jobs EXCEPT ![j].status = "failed"]
  /\ thread' = [thread EXCEPT ![j].awaited = FALSE,
                              ![j].at = IF @ = "posting" THEN "none" ELSE @]
  /\ Beat(j)
  /\ UNCHANGED <<upstream, workspace, containers, robbed, overtaken>>

\* _reclaim_zombie_admin_lock: a job that has held the lock for half an hour is failed.
Preflight(j) ==
  LET k == lock.holder
      zombie == k # 0 /\ lock.old /\ (k \in Jobs => Active(k))
  IN
  /\ thread[j].at = "preflight"
  /\ thread' = [thread EXCEPT ![j].at = "acquire"]
  /\ IF zombie
     THEN /\ jobs' = [i \in Jobs |-> IF i = j THEN [jobs[i] EXCEPT !.status = "running"]
                                     ELSE IF i = k THEN [jobs[i] EXCEPT !.status = "failed"]
                                     ELSE jobs[i]]
          /\ lock' = Free
          /\ robbed' = (robbed \/ Robs(j))
     ELSE UNCHANGED <<jobs, lock, robbed>>
  /\ UNCHANGED <<upstream, workspace, containers, overtaken>>

\* A newer update has deployed what this one was to find.
Overtakes(j) == \E c \in (j + 1)..MaxJobs : jobs[c].status = "completed" /\ jobs[c].services # {}

\* A refusal that is not heeded.
AcquireAnyway(j) ==
  /\ thread[j].at = "acquire"
  /\ jobs' = [jobs EXCEPT ![j].status = "running"]
  /\ thread' = [thread EXCEPT ![j].at = "check"]
  /\ IF lock.holder = 0 \/ Reclaimable
     THEN lock' = [Free EXCEPT !.holder = j] /\ robbed' = (robbed \/ Robs(j))
     ELSE UNCHANGED <<lock, robbed>>
  /\ UNCHANGED <<upstream, workspace, containers, overtaken>>

Acquire(j) ==
  /\ thread[j].at = "acquire"
  /\ IF lock.holder = 0 \/ Reclaimable
     THEN /\ lock' = [Free EXCEPT !.holder = j]
          /\ robbed' = (robbed \/ Robs(j))
          /\ jobs' = [jobs EXCEPT ![j].status = "running"]
          /\ thread' = [thread EXCEPT ![j].at = "check"]
          /\ overtaken' = (overtaken \/ Overtakes(j))
     ELSE End(j, "failed") /\ UNCHANGED overtaken
  /\ UNCHANGED <<upstream, workspace, containers>>

Fail(j) ==
  /\ thread[j].at \in {"check", "plan", "reset", "migrate", "compose", "health", "finish"}
  /\ End(j, "failed")
  /\ UNCHANGED <<upstream, workspace, containers, overtaken>>

\* The revision the branch is at, as ls-remote or a fetch tells.
Target == upstream

\* The branch is looked up, then what earlier updates left undone.
Check(j) ==
  /\ thread[j].at = "check"
  /\ IF Target = workspace /\ Pending(j) = {}
     THEN End(j, "completed")
     ELSE /\ thread' = [thread EXCEPT ![j].at = "plan", ![j].pending = Pending(j),
                                      ![j].pendingRebuild = PendingRebuild(j)]
          /\ Beat(j)
          /\ UNCHANGED <<jobs, robbed>>
  /\ UNCHANGED <<upstream, workspace, containers, overtaken>>

\* The target is resolved, a backup is written, the target is fetched and compared, and the
\* services are recorded before anything is changed (PlanLater: not yet).
PlanLater(j) ==
  /\ thread[j].at = "plan"
  /\ \E changed \in Diff(workspace, Target) :
         /\ thread' = [thread EXCEPT ![j].at = "reset", ![j].target = Target,
                                     ![j].changed = changed]
         /\ jobs' = [jobs EXCEPT ![j].status = "running"]
  /\ Beat(j)
  /\ UNCHANGED <<upstream, workspace, containers, robbed, overtaken>>

Plan(j) ==
  /\ thread[j].at = "plan"
  /\ \E changed \in Diff(workspace, Target) :
         /\ thread' = [thread EXCEPT ![j].at = "reset", ![j].target = Target,
                                     ![j].changed = changed]
         /\ jobs' = [jobs EXCEPT ![j] =
                       [status |-> "running",
                        services |-> Select(changed) \union thread[j].pending,
                        rebuild |-> NeedsRebuild(changed) \/ thread[j].pendingRebuild]]
  /\ Beat(j)
  /\ UNCHANGED <<upstream, workspace, containers, robbed, overtaken>>

\* git reset --hard, to changes that the diff may have missed.
Reset(j) ==
  /\ thread[j].at = "reset"
  /\ workspace' = thread[j].target
  /\ missed' = missed \union (Select(Between(workspace, thread[j].target))
                               \ Select(thread[j].changed))
  /\ thread' = [thread EXCEPT ![j].at = "migrate"]
  /\ jobs' = [jobs EXCEPT ![j].status = "running"]
  /\ Beat(j)
  /\ UNCHANGED <<upstream, deployed, built, robbed, overtaken>>

\* After the migrations docker compose is given the services, if there are any.
Compose(j) ==
  LET t == thread[j]
      services == Select(t.changed) \union t.pending
      build == NeedsRebuild(t.changed) \/ (t.pending # {} /\ t.pendingRebuild)
  IN
  /\ t.at = "migrate"
  /\ thread' = [thread EXCEPT ![j].at = IF services = {} THEN "finish" ELSE "compose",
                              ![j].left = services, ![j].build = build]
  /\ jobs' = [jobs EXCEPT ![j] = [status |-> "running", services |-> services, rebuild |-> build]]
  /\ Beat(j)
  /\ UNCHANGED <<upstream, workspace, containers, robbed, overtaken>>

\* The compose file mounts the workspace, its paths rewritten to those of the host.
FromWorkspace(s) == deployed' = [deployed EXCEPT ![s] = workspace]

\* compose up --force-recreate, with --build or without.
Recreate(j, s) ==
  /\ thread[j].at = "compose" /\ s \in thread[j].left
  /\ FromWorkspace(s)
  /\ built' = [built EXCEPT ![s] = IF thread[j].build THEN workspace ELSE @]
  /\ missed' = IF thread[j].build THEN missed \ {s} ELSE missed
  /\ thread' = [thread EXCEPT ![j].left = @ \ {s}]
  /\ Beat(j)
  /\ UNCHANGED <<upstream, workspace, jobs, robbed, overtaken>>

\* The health check is content with any answer, of old containers too.
WavesThrough(services) == missed' = missed \union services

\* compose is done, or was killed after its time limit and the services that answer, old or
\* new, pass the health check.
ComposeEnds(j) ==
  /\ thread[j].at = "compose"
  /\ WavesThrough(thread[j].left)
  /\ thread' = [thread EXCEPT ![j].at = "health"]
  /\ jobs' = [jobs EXCEPT ![j].status = "running"]
  /\ Beat(j)
  /\ UNCHANGED <<upstream, workspace, deployed, built, robbed, overtaken>>

Healthy(j) ==
  /\ thread[j].at = "health"
  /\ thread' = [thread EXCEPT ![j].at = "finish"]
  /\ jobs' = [jobs EXCEPT ![j].status = "running"]
  /\ Beat(j)
  /\ UNCHANGED <<upstream, workspace, containers, robbed, overtaken>>

Finish(j) ==
  /\ thread[j].at = "finish"
  /\ End(j, "completed")
  /\ UNCHANGED <<upstream, workspace, containers, overtaken>>

\* The updater dies, or is rebuilt by the concierge's delayed handoff: its threads are gone.
UpdaterDies ==
  /\ \E j \in Jobs : Alive(j)
  /\ thread' = [j \in Jobs |-> IF Alive(j) THEN [NoThread EXCEPT !.awaited = thread[j].awaited]
                               ELSE thread[j]]
  /\ UNCHANGED <<upstream, workspace, containers, jobs, lock, robbed, overtaken>>

\* The concierge starts again: its POSTs are forgotten, and the lock is cleared unless the
\* table has an update that has not ended.
ConciergeRestarts ==
  /\ thread' = [j \in Jobs |-> [thread[j] EXCEPT !.awaited = FALSE,
                                                 !.at = IF @ = "posting" THEN "none" ELSE @]]
  /\ lock' = IF \E j \in Jobs : Active(j) THEN lock ELSE Free
  /\ robbed' = (robbed \/ (lock' = Free /\ Robs(0)))
  /\ UNCHANGED <<upstream, workspace, containers, jobs, overtaken>>

Step(j) ==
  \/ Queue(j) \/ PostAccepted(j) \/ PostAnswered(j) \/ PostFailed(j)
  \/ Preflight(j) \/ Acquire(j) \/ Fail(j) \/ Check(j) \/ Plan(j) \/ Reset(j) \/ Compose(j)
  \/ (\E s \in Services : Recreate(j, s)) \/ ComposeEnds(j) \/ Healthy(j) \/ Finish(j)

Next ==
  \/ Push \/ Expired \/ PeekClear \/ OtherTakes \/ OtherEnds
  \/ UpdaterDies \/ ConciergeRestarts
  \/ \E j \in Jobs : Step(j)

Spec == Init /\ [][Next]_vars

-----------------------------------------------------------------------------
(* Properties.                                                             *)

\* A service runs source, or an image, older than the workspace.
Stale(s) == s \in Select(Between(deployed[s], workspace))
ImageKinds == [concierge |-> {"backend image"}, downloader |-> {"worker image"}, nginx |-> {}]
StaleImage(s) == Between(built[s], workspace) \intersect ImageKinds[s] # {}

\* Some update knows that s is to be recreated: the next one will find it pending, or an
\* update that the table does not show as ended has it in its list.
Known(s) == \/ s \in Pending(MaxJobs + 1)
            \/ \E j \in Jobs : Active(j) /\ s \in jobs[j].services

\* No failure, crash or restart leaves a service behind the workspace unnoticed: a service
\* that runs older source is on record in the job table, and one that runs an older image
\* with the need to build, unless compose ran into its time limit and was waved through or
\* git did not say what changed, a live update was robbed of its lock, or an update began
\* when a newer one had completed.
StaleIsOnRecord ==
  ~robbed /\ ~overtaken => \A s \in Services \ missed :
    /\ Stale(s) => Known(s)
    /\ StaleImage(s) => Known(s) /\ (\/ PendingRebuild(MaxJobs + 1)
                                    \/ \E j \in Jobs : Active(j) /\ jobs[j].rebuild)

\* The workspace never goes back to an older revision, as it would if two updates overlapped.
NoDowngrade == [][workspace' >= workspace \/ robbed']_vars
=============================================================================
