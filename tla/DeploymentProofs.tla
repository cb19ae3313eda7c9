-------------------------- MODULE DeploymentProofs --------------------------
(***************************************************************************)
(* Proofs about Deployment, for every history of changes and every number  *)
(* of update jobs; and about Migrations, which an update runs between two  *)
(* of its steps, for any number of processes, releases, rows and crashes.  *)
(***************************************************************************)
EXTENDS Deployment, Migrations, SequenceTheorems, TLAPS

Places == {"none", "posting", "preflight", "acquire", "check", "plan", "reset", "migrate",
           "compose", "health", "finish"}
Working == {"check", "plan", "reset", "migrate", "compose", "health", "finish"}

JobType == [status : {"absent", "queued", "running", "completed", "failed"},
            services : SUBSET Services, rebuild : BOOLEAN]
ThreadType == [at : Places, awaited : BOOLEAN, pending : SUBSET Services,
               pendingRebuild : BOOLEAN, target : Nat, changed : SUBSET FileKinds,
               left : SUBSET Services, build : BOOLEAN]
LockType == [holder : 0..Other, old : BOOLEAN, expired : BOOLEAN]

DeploymentTypeOK ==
  /\ upstream \in 0..Len(Changes) /\ workspace \in 0..upstream
  /\ deployed \in [Services -> Nat] /\ built \in [Services -> Nat]
  /\ jobs \in [Jobs -> JobType] /\ thread \in [Jobs -> ThreadType] /\ lock \in LockType
  /\ robbed \in BOOLEAN /\ overtaken \in BOOLEAN /\ missed \subseteq Services

-----------------------------------------------------------------------------
(* The changes between two revisions, and the services they concern.       *)

LEMMA Given ==
  /\ MaxJobs \in Nat /\ Len(Changes) \in Nat
  /\ \A r \in 1..Len(Changes) : Changes[r] \subseteq FileKinds
BY DeploymentAssumption DEF DeploymentAssumption

LEMMA BetweenType ==
  ASSUME NEW a \in 0..Len(Changes), NEW b \in 0..Len(Changes)
  PROVE  Between(a, b) \subseteq FileKinds
<1> SUFFICES ASSUME NEW f \in Between(a, b) PROVE f \in FileKinds
  OBVIOUS
<1>1. PICK r \in (a + 1)..b \union (b + 1)..a : f \in Changes[r]
  BY DEF Between
<1>2. r \in 1..Len(Changes)
  BY Given
<1> QED
  BY <1>1, <1>2, Given

LEMMA BetweenSelf ==
  ASSUME NEW a \in Nat
  PROVE  Between(a, a) = {}
<1>1. (a + 1)..a = {}
  OBVIOUS
<1> QED
  BY <1>1 DEF Between

LEMMA BetweenSplits ==
  ASSUME NEW a \in Nat, NEW b \in Nat, NEW c \in Nat
  PROVE  Between(a, c) \subseteq Between(a, b) \union Between(b, c)
<1> SUFFICES ASSUME NEW f \in Between(a, c) PROVE f \in Between(a, b) \union Between(b, c)
  OBVIOUS
<1>1. PICK r \in (a + 1)..c \union (c + 1)..a : f \in Changes[r]
  BY DEF Between
<1>2. \/ r \in (a + 1)..b \union (b + 1)..a
      \/ r \in (b + 1)..c \union (c + 1)..b
  OBVIOUS
<1> QED
  BY <1>1, <1>2 DEF Between

LEMMA SelectType == \A files : Select(files) \subseteq Services /\ NeedsRebuild(files) \in BOOLEAN
BY DEF Select, NeedsRebuild

LEMMA SelectNone == \A s : s \notin Select({})
BY DEF Select

LEMMA SelectSplits ==
  ASSUME NEW A, NEW B, NEW C, A \subseteq B \union C
  PROVE  Select(A) \subseteq Select(B) \union Select(C)
BY DEF Select

\* What is in an image is among the source that recreates its service, and has it built.
LEMMA ImageTriggers ==
  ASSUME NEW s \in Services, NEW files, files \intersect ImageKinds[s] # {}
  PROVE  s \in Select(files) /\ NeedsRebuild(files)
<1>1. /\ ImageKinds["concierge"] = {"backend image"} /\ "backend image" \in Triggers["concierge"]
      /\ ImageKinds["downloader"] = {"worker image"} /\ "worker image" \in Triggers["downloader"]
      /\ ImageKinds["nginx"] = {}
  BY DEF ImageKinds, Triggers
<1>2. s \in {"concierge", "downloader", "nginx"}
  BY DEF Services
<1>3. PICK f \in files : f \in ImageKinds[s]
  OBVIOUS
<1>4. f \in Triggers[s] /\ f \in {"backend image", "worker image"}
  BY <1>1, <1>2, <1>3
<1> QED
  BY <1>4 DEF Select, NeedsRebuild

-----------------------------------------------------------------------------
(* Types.                                                                  *)

LEMMA JobFields ==
  ASSUME DeploymentTypeOK, NEW j \in Jobs
  PROVE  /\ jobs[j].status \in {"absent", "queued", "running", "completed", "failed"}
         /\ jobs[j].services \subseteq Services /\ jobs[j].rebuild \in BOOLEAN
BY DEF DeploymentTypeOK, JobType

LEMMA ThreadFields ==
  ASSUME DeploymentTypeOK, NEW j \in Jobs
  PROVE  /\ thread[j].at \in Places /\ thread[j].awaited \in BOOLEAN
         /\ thread[j].pending \subseteq Services /\ thread[j].pendingRebuild \in BOOLEAN
         /\ thread[j].target \in Nat /\ thread[j].changed \subseteq FileKinds
         /\ thread[j].left \subseteq Services /\ thread[j].build \in BOOLEAN
BY DEF DeploymentTypeOK, ThreadType

LEMMA NoJobType == NoJob \in JobType
BY DEF NoJob, JobType

LEMMA FreeType == Free \in LockType
BY Given DEF Free, LockType, Other

LEMMA NoThreadType ==
  ASSUME NEW b \in BOOLEAN
  PROVE  [NoThread EXCEPT !.awaited = b] \in ThreadType
BY DEF NoThread, ThreadType, Places

LEMMA HoldingType ==
  ASSUME NEW j \in Jobs
  PROVE  [Free EXCEPT !.holder = j] \in LockType
BY Given, FreeType DEF LockType, Jobs, Other

LEMMA Moves ==
  ASSUME DeploymentTypeOK, NEW j \in Jobs, NEW p \in Places
  PROVE  /\ [thread EXCEPT ![j].at = p] \in [Jobs -> ThreadType]
         /\ \A b \in BOOLEAN : [thread EXCEPT ![j].at = p, ![j].awaited = b] \in [Jobs -> ThreadType]
BY DEF DeploymentTypeOK, ThreadType

LEMMA Answers ==
  ASSUME DeploymentTypeOK, NEW j \in Jobs
  PROVE  [thread EXCEPT ![j].awaited = FALSE] \in [Jobs -> ThreadType]
BY DEF DeploymentTypeOK, ThreadType

LEMMA Inherits ==
  ASSUME DeploymentTypeOK, NEW j \in Jobs, NEW p \in Places,
         NEW S \in SUBSET Services, NEW b \in BOOLEAN
  PROVE  [thread EXCEPT ![j].at = p, ![j].pending = S, ![j].pendingRebuild = b]
           \in [Jobs -> ThreadType]
<1> DEFINE t == [thread[j] EXCEPT !.at = p, !.pending = S, !.pendingRebuild = b]
<1>1. t \in ThreadType
  BY DEF DeploymentTypeOK, ThreadType
<1>2. [thread EXCEPT ![j].at = p, ![j].pending = S, ![j].pendingRebuild = b] = [thread EXCEPT ![j] = t]
  OBVIOUS
<1> HIDE DEF t
<1> QED
  BY <1>1, <1>2 DEF DeploymentTypeOK

LEMMA Compares ==
  ASSUME DeploymentTypeOK, NEW j \in Jobs, NEW p \in Places,
         NEW n \in Nat, NEW C \in SUBSET FileKinds
  PROVE  [thread EXCEPT ![j].at = p, ![j].target = n, ![j].changed = C]
           \in [Jobs -> ThreadType]
<1> DEFINE t == [thread[j] EXCEPT !.at = p, !.target = n, !.changed = C]
<1>1. t \in ThreadType
  BY DEF DeploymentTypeOK, ThreadType
<1>2. [thread EXCEPT ![j].at = p, ![j].target = n, ![j].changed = C] = [thread EXCEPT ![j] = t]
  OBVIOUS
<1> HIDE DEF t
<1> QED
  BY <1>1, <1>2 DEF DeploymentTypeOK

LEMMA Composes ==
  ASSUME DeploymentTypeOK, NEW j \in Jobs, NEW p \in Places,
         NEW S \in SUBSET Services, NEW b \in BOOLEAN
  PROVE  [thread EXCEPT ![j].at = p, ![j].left = S, ![j].build = b]
           \in [Jobs -> ThreadType]
<1> DEFINE t == [thread[j] EXCEPT !.at = p, !.left = S, !.build = b]
<1>1. t \in ThreadType
  BY DEF DeploymentTypeOK, ThreadType
<1>2. [thread EXCEPT ![j].at = p, ![j].left = S, ![j].build = b] = [thread EXCEPT ![j] = t]
  OBVIOUS
<1> HIDE DEF t
<1> QED
  BY <1>1, <1>2 DEF DeploymentTypeOK

LEMMA PlaceNames ==
  /\ "none" \in Places /\ "posting" \in Places /\ "preflight" \in Places
  /\ "acquire" \in Places /\ "check" \in Places /\ "plan" \in Places
  /\ "reset" \in Places /\ "migrate" \in Places /\ "compose" \in Places
  /\ "health" \in Places /\ "finish" \in Places
BY DEF Places

\* The parts of the types that a job at work on its own may touch.
TablesOK == jobs \in [Jobs -> JobType] /\ thread \in [Jobs -> ThreadType] /\ lock \in LockType

LEMMA BeatType ==
  ASSUME DeploymentTypeOK, NEW j \in Jobs, Beat(j)
  PROVE  lock' \in LockType
BY DEF DeploymentTypeOK, Beat, LockType

LEMMA StatusType ==
  ASSUME DeploymentTypeOK, NEW j \in Jobs,
         NEW x \in {"queued", "running", "completed", "failed"},
         jobs' = [jobs EXCEPT ![j].status = x]
  PROVE  jobs' \in [Jobs -> JobType]
BY DEF DeploymentTypeOK, JobType

LEMMA EndType ==
  ASSUME DeploymentTypeOK, NEW j \in Jobs, NEW x \in {"completed", "failed"}, End(j, x)
  PROVE  TablesOK' /\ robbed' \in BOOLEAN
<1>1. jobs' \in [Jobs -> JobType]
  BY StatusType DEF End
<1>2. thread' \in [Jobs -> ThreadType]
  BY NoThreadType, ThreadFields DEF End, DeploymentTypeOK
<1>3. lock' \in LockType
  BY FreeType DEF End
<1>4. robbed' \in BOOLEAN
  BY DEF End, Robs, DeploymentTypeOK
<1> QED
  BY <1>1, <1>2, <1>3, <1>4 DEF TablesOK

LEMMA StepType ==
  ASSUME DeploymentTypeOK, NEW j \in Jobs, Step(j), thread[j].at = "reset" => thread[j].target <= upstream
  PROVE  DeploymentTypeOK'
<1> USE DEF DeploymentTypeOK
<1>1. CASE Queue(j)
  <2>1. jobs' \in [Jobs -> JobType]
    BY <1>1, StatusType DEF Queue
  <2>2. thread' \in [Jobs -> ThreadType]
    BY <1>1, Moves, PlaceNames DEF Queue
  <2> QED
    BY <1>1, <2>1, <2>2 DEF Queue, containers
<1>2. CASE PostAccepted(j) \/ PostAnswered(j)
  <2>1. thread' = [thread EXCEPT ![j].at = "preflight"] \/ thread' = [thread EXCEPT ![j].awaited = FALSE]
    BY <1>2 DEF PostAccepted, PostAnswered
  <2>2. thread' \in [Jobs -> ThreadType]
    <3>1. CASE thread' = [thread EXCEPT ![j].at = "preflight"]
      BY <3>1, Moves, PlaceNames
    <3>2. CASE thread' = [thread EXCEPT ![j].awaited = FALSE]
      BY <3>2, Answers
    <3> QED
      BY <2>1, <3>1, <3>2
  <2> QED
    BY <1>2, <2>2 DEF PostAccepted, PostAnswered, containers
<1>3. CASE PostFailed(j)
  <2>1. jobs' \in [Jobs -> JobType]
    BY <1>3, StatusType DEF PostFailed
  <2>2. thread' \in [Jobs -> ThreadType]
    <3>1. thread' = [thread EXCEPT ![j].at = IF thread[j].at = "posting" THEN "none" ELSE thread[j].at,
                                   ![j].awaited = FALSE]
      BY <1>3 DEF PostFailed, ThreadType
    <3>2. (IF thread[j].at = "posting" THEN "none" ELSE thread[j].at) \in Places
      BY PlaceNames, ThreadFields
    <3> QED
      BY <3>1, <3>2, Moves
  <2>3. lock' \in LockType
    BY <1>3, BeatType DEF PostFailed
  <2> QED
    BY <1>3, <2>1, <2>2, <2>3 DEF PostFailed, containers
<1>4. CASE Preflight(j)
  <2>1. thread' \in [Jobs -> ThreadType]
    BY <1>4, Moves, PlaceNames DEF Preflight
  <2>2. jobs' \in [Jobs -> JobType]
    <3>1. \A i \in Jobs, x \in {"running", "failed"} : [jobs[i] EXCEPT !.status = x] \in JobType
      BY DEF JobType
    <3> QED
      BY <1>4, <3>1 DEF Preflight
  <2>3. lock' \in LockType /\ robbed' \in BOOLEAN
    BY <1>4, FreeType DEF Preflight, Robs
  <2> QED
    BY <1>4, <2>1, <2>2, <2>3 DEF Preflight, containers
<1>5. CASE Acquire(j)
  <2>1. CASE End(j, "failed") /\ UNCHANGED overtaken
    BY <1>5, <2>1, EndType DEF Acquire, TablesOK, containers
  <2>2. CASE /\ lock' = [Free EXCEPT !.holder = j]
             /\ robbed' = (robbed \/ Robs(j))
             /\ jobs' = [jobs EXCEPT ![j].status = "running"]
             /\ thread' = [thread EXCEPT ![j].at = "check"]
             /\ overtaken' = (overtaken \/ Overtakes(j))
    <3>1. thread' \in [Jobs -> ThreadType]
      BY <2>2, Moves, PlaceNames
    <3>2. jobs' \in [Jobs -> JobType]
      BY <2>2, StatusType
    <3>3. robbed' \in BOOLEAN /\ overtaken' \in BOOLEAN
      BY <2>2 DEF Robs, Overtakes
    <3> QED
      BY <1>5, <2>2, <3>1, <3>2, <3>3, HoldingType DEF Acquire, containers
  <2> QED
    BY <1>5, <2>1, <2>2 DEF Acquire
<1>6. CASE Fail(j) \/ Finish(j)
  BY <1>6, EndType DEF Fail, Finish, TablesOK, containers
<1>7. CASE Check(j)
  <2>1. CASE End(j, "completed")
    BY <1>7, <2>1, EndType DEF Check, TablesOK, containers
  <2>2. CASE /\ thread' = [thread EXCEPT ![j].at = "plan", ![j].pending = Pending(j),
                                      ![j].pendingRebuild = PendingRebuild(j)]
             /\ Beat(j)
             /\ UNCHANGED <<jobs, robbed>>
    <3>1. Pending(j) \subseteq Services /\ PendingRebuild(j) \in BOOLEAN
      <4>1. \A k \in 1..(j - 1) : k \in Jobs /\ jobs[k].services \subseteq Services
        BY Given, JobFields DEF Jobs
      <4> QED
        BY <4>1 DEF Pending, PendingRebuild, Outstanding
    <3>2. thread' \in [Jobs -> ThreadType]
      BY <2>2, <3>1, PlaceNames, Inherits
    <3> QED
      BY <1>7, <2>2, <3>2, BeatType DEF Check, containers
  <2> QED
    BY <1>7, <2>1, <2>2 DEF Check
<1>8. CASE Plan(j)
  <2>0. PICK changed \in Diff(workspace, Target) :
        /\ thread' = [thread EXCEPT ![j].at = "reset", ![j].target = Target, ![j].changed = changed]
        /\ jobs' = [jobs EXCEPT ![j] =
                      [status |-> "running", services |-> Select(changed) \union thread[j].pending,
                       rebuild |-> NeedsRebuild(changed) \/ thread[j].pendingRebuild]]
    BY <1>8 DEF Plan
  <2>1. changed \subseteq FileKinds /\ Target \in Nat
    BY BetweenType, Given DEF Target, Diff
  <2>2. Select(changed) \subseteq Services /\ NeedsRebuild(changed) \in BOOLEAN
    BY SelectType
  <2>3. /\ thread' = [thread EXCEPT ![j].at = "reset", ![j].target = Target, ![j].changed = changed]
        /\ jobs' = [jobs EXCEPT ![j] =
                      [status |-> "running", services |-> Select(changed) \union thread[j].pending,
                       rebuild |-> NeedsRebuild(changed) \/ thread[j].pendingRebuild]]
        /\ Beat(j)
        /\ UNCHANGED <<upstream, workspace, containers, robbed, overtaken>>
    BY <1>8, <2>0 DEF Plan
  <2>4. thread' \in [Jobs -> ThreadType]
    BY <2>1, <2>3, PlaceNames, Compares
  <2>5. jobs' \in [Jobs -> JobType]
    BY <2>2, <2>3, ThreadFields DEF JobType
  <2> QED
    BY <2>3, <2>4, <2>5, BeatType DEF containers
<1>9. CASE Reset(j)
  <2>1. jobs' \in [Jobs -> JobType]
    BY <1>9, StatusType DEF Reset
  <2>2. thread' \in [Jobs -> ThreadType]
    BY <1>9, Moves, PlaceNames DEF Reset
  <2>3. workspace' \in 0..upstream
    BY <1>9, ThreadFields, Given DEF Reset
  <2>4. missed' \subseteq Services
    <3> DEFINE new == Between(workspace, thread[j].target)
    <3>2. Select(new) \subseteq Services
      BY SelectType
    <3> QED
      BY <1>9, <3>2 DEF Reset
  <2> QED
    BY <1>9, <2>1, <2>2, <2>3, <2>4, BeatType DEF Reset
<1>10. CASE Compose(j)
  <2> DEFINE services == Select(thread[j].changed) \union thread[j].pending
             build == NeedsRebuild(thread[j].changed)
                        \/ (thread[j].pending # {} /\ thread[j].pendingRebuild)
  <2>1. services \subseteq Services /\ build \in BOOLEAN
    BY SelectType, ThreadFields
  <2>2. /\ thread' = [thread EXCEPT ![j].at = IF services = {} THEN "finish" ELSE "compose",
                                    ![j].left = services, ![j].build = build]
        /\ jobs' = [jobs EXCEPT ![j] = [status |-> "running", services |-> services, rebuild |-> build]]
        /\ Beat(j)
        /\ UNCHANGED <<upstream, workspace, containers, robbed, overtaken>>
    BY <1>10 DEF Compose
  <2> HIDE DEF services, build
  <2>3. thread' \in [Jobs -> ThreadType]
    BY <2>1, <2>2, PlaceNames, Composes
  <2>4. jobs' \in [Jobs -> JobType]
    BY <2>1, <2>2 DEF JobType
  <2> QED
    BY <2>2, <2>3, <2>4, BeatType DEF containers
<1>11. CASE \E s \in Services : Recreate(j, s)
  <2> PICK s \in Services : Recreate(j, s)
    BY <1>11
  <2>1. thread' \in [Jobs -> ThreadType]
    BY DEF Recreate, ThreadType
  <2>2. deployed' \in [Services -> Nat] /\ built' \in [Services -> Nat] /\ missed' \subseteq Services
    BY Given DEF Recreate, FromWorkspace
  <2> QED
    BY <2>1, <2>2, BeatType DEF Recreate
<1>12. CASE ComposeEnds(j)
  <2>1. missed' \subseteq Services
    BY <1>12, ThreadFields DEF ComposeEnds, WavesThrough
  <2> QED
    BY <1>12, <2>1, BeatType, StatusType, Moves, PlaceNames DEF ComposeEnds
<1>13. CASE Healthy(j)
  BY <1>13, BeatType, StatusType, Moves, PlaceNames DEF Healthy, containers
<1> QED
  BY <1>1, <1>2, <1>3, <1>4, <1>5, <1>6, <1>7, <1>8, <1>9, <1>10, <1>11, <1>12, <1>13 DEF Step

LEMMA TypeStep ==
  ASSUME DeploymentTypeOK, [Next]_vars,
         \A j \in Jobs : thread[j].at = "reset" => thread[j].target <= upstream
  PROVE  DeploymentTypeOK'
<1> USE DEF DeploymentTypeOK
<1>1. CASE Push
  BY <1>1, Given DEF Push, containers
<1>2. CASE Expired
  <2>1. lock' \in LockType
    BY <1>2 DEF Expired, LockType
  <2> QED
    BY <1>2, <2>1 DEF Expired, containers
<1>3. CASE PeekClear \/ OtherTakes \/ OtherEnds
  <2>1. [Free EXCEPT !.holder = Other] \in LockType
    <3>1. Other \in 0..Other
      BY Given DEF Other
    <3> QED
      BY <3>1, FreeType DEF LockType
  <2>2. lock' \in LockType /\ robbed' \in BOOLEAN
    BY <1>3, <2>1, FreeType DEF PeekClear, OtherTakes, OtherEnds, Robs
  <2> QED
    BY <1>3, <2>2 DEF PeekClear, OtherTakes, OtherEnds, containers
<1>4. CASE UpdaterDies
  <2>1. thread' \in [Jobs -> ThreadType]
    BY <1>4, NoThreadType, ThreadFields DEF UpdaterDies
  <2> QED
    BY <1>4, <2>1 DEF UpdaterDies, containers
<1>5. CASE ConciergeRestarts
  <2>1. thread' \in [Jobs -> ThreadType]
    <3>1. ASSUME NEW t \in ThreadType
          PROVE  [t EXCEPT !.awaited = FALSE, !.at = IF @ = "posting" THEN "none" ELSE @] \in ThreadType
      BY PlaceNames DEF ThreadType
    <3> QED
      BY <1>5, <3>1 DEF ConciergeRestarts
  <2>2. lock' \in LockType /\ robbed' \in BOOLEAN
    BY <1>5, FreeType DEF ConciergeRestarts, Robs
  <2> QED
    BY <1>5, <2>1, <2>2 DEF ConciergeRestarts, containers
<1>6. CASE UNCHANGED vars
  BY <1>6 DEF vars
<1> QED
  BY <1>1, <1>2, <1>3, <1>4, <1>5, <1>6, StepType DEF Next

-----------------------------------------------------------------------------
(* What a step does to the rows and threads of the jobs.                   *)

\* The row of k: its services change only when they are planned, and it ends for a reason.
Failing(k) == \/ thread[k].awaited
              \/ lock.holder = k /\ Active(k)
              \/ thread[k].at \in Working \union {"acquire"}
StatusStep(k) ==
  \/ jobs'[k].status = jobs[k].status
  \/ Queue(k) /\ jobs'[k].status = "queued"
  \/ jobs'[k].status = "running" /\ Alive(k)
  \/ jobs'[k].status = "failed" /\ Failing(k)
  \/ jobs'[k].status = "completed" /\ Finish(k)
  \/ jobs'[k].status = "completed" /\ Check(k) /\ End(k, "completed")
JobStep(k) ==
  /\ StatusStep(k)
  /\ \/ jobs'[k].services = jobs[k].services /\ jobs'[k].rebuild = jobs[k].rebuild
     \/ Plan(k) \/ Compose(k)

\* The thread of k goes on, stops, or takes a step.
Goes(k) == /\ thread'[k].at = thread[k].at
           /\ thread'[k].pending = thread[k].pending
           /\ thread'[k].pendingRebuild = thread[k].pendingRebuild
           /\ thread'[k].target = thread[k].target
           /\ thread'[k].changed = thread[k].changed
           /\ thread'[k].left = thread[k].left
           /\ thread'[k].build = thread[k].build
ThreadStep(k) ==
  /\ Goes(k) \/ thread'[k].at = "none" \/ Step(k)
  /\ thread'[k].awaited => thread[k].awaited \/ Queue(k)

LEMMA EndFields ==
  ASSUME DeploymentTypeOK, NEW j \in Jobs, NEW x, End(j, x)
  PROVE  /\ jobs'[j].status = x /\ jobs'[j].services = jobs[j].services
         /\ jobs'[j].rebuild = jobs[j].rebuild
         /\ thread'[j].at = "none" /\ thread'[j].awaited = thread[j].awaited
         /\ lock' = Free
         /\ \A k \in Jobs \ {j} : jobs'[k] = jobs[k] /\ thread'[k] = thread[k]
BY DEF End, NoThread, DeploymentTypeOK, JobType, ThreadType

LEMMA OwnJob ==
  ASSUME DeploymentTypeOK, NEW j \in Jobs, Step(j)
  PROVE  JobStep(j)
<1> USE DEF JobStep, StatusStep, DeploymentTypeOK, JobType, Alive
<1>1. CASE Queue(j)
  BY <1>1 DEF Queue
<1>2. CASE PostAccepted(j) \/ PostAnswered(j) \/ \E s \in Services : Recreate(j, s)
  BY <1>2 DEF PostAccepted, PostAnswered, Recreate
<1>3. CASE PostFailed(j)
  BY <1>3 DEF PostFailed, Failing
<1>4. CASE Preflight(j)
  BY <1>4 DEF Preflight, Failing
<1>5. CASE Acquire(j)
  BY <1>5, EndFields DEF Acquire, Failing
<1>6. CASE Fail(j)
  BY <1>6, EndFields DEF Fail, Failing, Working
<1>7. CASE Finish(j)
  BY <1>7, EndFields DEF Finish
<1>8. CASE Check(j)
  BY <1>8, EndFields DEF Check
<1>9. CASE Plan(j) \/ Compose(j)
  <2>1. CASE Plan(j)
    <3>1. jobs'[j].status = "running" /\ thread[j].at = "plan"
      BY <2>1 DEF Plan
    <3> QED
      BY <2>1, <3>1
  <2>2. CASE Compose(j)
    <3>1. jobs'[j].status = "running" /\ thread[j].at = "migrate"
      BY <2>2 DEF Compose
    <3> QED
      BY <2>2, <3>1
  <2> QED
    BY <1>9, <2>1, <2>2
<1>10. CASE Reset(j) \/ ComposeEnds(j) \/ Healthy(j)
  BY <1>10 DEF Reset, ComposeEnds, Healthy
<1> QED
  BY <1>1, <1>2, <1>3, <1>4, <1>5, <1>6, <1>7, <1>8, <1>9, <1>10 DEF Step

LEMMA OtherJobs ==
  ASSUME DeploymentTypeOK, NEW j \in Jobs, Step(j), NEW k \in Jobs, k # j
  PROVE  JobStep(k) /\ thread'[k] = thread[k]
<1> USE DEF JobStep, StatusStep, DeploymentTypeOK
<1>1. CASE Queue(j) \/ PostAccepted(j) \/ PostAnswered(j) \/ \E s \in Services : Recreate(j, s)
  BY <1>1 DEF Queue, PostAccepted, PostAnswered, Recreate
<1>2. CASE PostFailed(j)
  BY <1>2 DEF PostFailed
<1>3. CASE Preflight(j)
  BY <1>3 DEF Preflight, Failing, JobType
<1>4. CASE Acquire(j)
  BY <1>4, EndFields DEF Acquire
<1>5. CASE Fail(j) \/ Finish(j) \/ Check(j)
  BY <1>5, EndFields DEF Fail, Finish, Check
<1>6. CASE Plan(j) \/ Compose(j) \/ Reset(j) \/ ComposeEnds(j) \/ Healthy(j)
  BY <1>6 DEF Plan, Compose, Reset, ComposeEnds, Healthy
<1> QED
  BY <1>1, <1>2, <1>3, <1>4, <1>5, <1>6 DEF Step

LEMMA OwnThread ==
  ASSUME DeploymentTypeOK, NEW j \in Jobs, Step(j)
  PROVE  thread'[j].awaited => thread[j].awaited \/ Queue(j)
<1> SUFFICES ASSUME ~Queue(j) PROVE thread'[j].awaited => thread[j].awaited
  OBVIOUS
<1> USE DEF DeploymentTypeOK, ThreadType
<1>1. CASE PostAccepted(j)
  BY <1>1 DEF PostAccepted
<1>2. CASE PostAnswered(j)
  BY <1>2 DEF PostAnswered
<1>3. CASE \E s \in Services : Recreate(j, s)
  BY <1>3 DEF Recreate
<1>4. CASE PostFailed(j)
  BY <1>4 DEF PostFailed
<1>5. CASE Preflight(j)
  BY <1>5 DEF Preflight
<1>6. CASE Acquire(j)
  BY <1>6, EndFields DEF Acquire
<1>7. CASE Fail(j) \/ Finish(j)
  BY <1>7, EndFields DEF Fail, Finish
<1>8. CASE Check(j)
  BY <1>8, EndFields DEF Check
<1>9. CASE Plan(j)
  BY <1>9 DEF Plan
<1>10. CASE Compose(j)
  BY <1>10 DEF Compose
<1>11. CASE Reset(j) \/ ComposeEnds(j) \/ Healthy(j)
  BY <1>11 DEF Reset, ComposeEnds, Healthy
<1> QED
  BY <1>1, <1>2, <1>3, <1>4, <1>5, <1>6, <1>7, <1>8, <1>9, <1>10, <1>11 DEF Step

LEMMA Steps ==
  ASSUME DeploymentTypeOK, [Next]_vars, NEW k \in Jobs
  PROVE  JobStep(k) /\ ThreadStep(k)
<1> USE DEF JobStep, StatusStep, ThreadStep, Goes
<1>1. CASE Push \/ Expired \/ PeekClear \/ OtherTakes \/ OtherEnds \/ UNCHANGED vars
  BY <1>1 DEF Push, Expired, PeekClear, OtherTakes, OtherEnds, vars
<1>2. CASE UpdaterDies
  BY <1>2 DEF UpdaterDies, NoThread
<1>3. CASE ConciergeRestarts
  BY <1>3 DEF ConciergeRestarts, DeploymentTypeOK, ThreadType
<1>4. ASSUME NEW j \in Jobs, Step(j)
      PROVE  JobStep(k) /\ ThreadStep(k)
  <2>1. CASE k = j
    BY <1>4, <2>1, OwnJob, OwnThread
  <2>2. CASE k # j
    BY <1>4, <2>2, OtherJobs
  <2> QED
    BY <2>1, <2>2
<1> QED
  BY <1>1, <1>2, <1>3, <1>4 DEF Next

-----------------------------------------------------------------------------
(* Rows and threads fit together.                                          *)

Absent(j) == jobs[j].status = "absent"

\* A job without a row has no thread, one that is over neither, and until its services are
\* planned a job has none.
Row(j) ==
  /\ Absent(j) => jobs[j] = NoJob /\ thread[j].at = "none" /\ ~thread[j].awaited
  /\ jobs[j].status = "completed" => thread[j].at = "none"
  /\ thread[j].at \in {"posting", "preflight", "acquire", "check", "plan"}
       => jobs[j].services = {}

\* Rows are created one after the other, each when the POST of the last was answered.
Queued == \A k, c \in Jobs : k < c /\ (thread[k].awaited \/ Absent(k)) => Absent(c)

JobTable == (\A j \in Jobs : Row(j)) /\ Queued

LEMMA AbsentStays ==
  ASSUME DeploymentTypeOK, JobTable, [Next]_vars, NEW c \in Jobs
  PROVE  /\ Absent(c)' => Absent(c)
         /\ Absent(c) /\ ~Queue(c) => Absent(c)'
<1>1. JobStep(c) /\ Row(c)
  BY Steps DEF JobTable
<1>2. Absent(c)' => Absent(c)
  BY <1>1 DEF JobStep, StatusStep, Absent
<1>3. ASSUME Absent(c), ~Queue(c) PROVE Absent(c)'
  <2>1. thread[c].at = "none" /\ ~thread[c].awaited /\ jobs[c].status = "absent"
    BY <1>1, <1>3 DEF Row, Absent
  <2>2. ~Alive(c) /\ ~Failing(c) /\ ~Finish(c) /\ ~Check(c)
    BY <2>1 DEF Alive, Failing, Active, Finish, Check, Working
  <2> QED
    BY <1>1, <1>3, <2>1, <2>2 DEF JobStep, StatusStep, Absent
<1> QED
  BY <1>2, <1>3

LEMMA QueuedStays ==
  ASSUME DeploymentTypeOK, JobTable, [Next]_vars
  PROVE  Queued'
<1> SUFFICES ASSUME NEW k \in Jobs, NEW c \in Jobs, k < c, (thread[k].awaited \/ Absent(k))'
             PROVE  Absent(c)'
  BY DEF Queued
<1>1. ThreadStep(k) /\ (Absent(k)' => Absent(k)) /\ (Absent(c) /\ ~Queue(c) => Absent(c)')
  BY Steps, AbsentStays
<1>2. ~Queue(c)
  <2> SUFFICES ASSUME Queue(c) PROVE FALSE
    OBVIOUS
  <2>1. k \in 1..(c - 1)
    BY Given DEF Jobs
  <2>2. jobs[k] # NoJob /\ ~thread[k].awaited /\ ~Queue(k)
    BY <2>1 DEF Queue
  <2>3. Absent(k)
    BY <1>1, <2>2 DEF ThreadStep
  <2> QED
    BY <2>2, <2>3 DEF JobTable, Row
<1>3. thread[k].awaited \/ Absent(k)
  <2>1. Queue(k) => Absent(k)
    BY DEF Queue, NoJob, Absent
  <2> QED
    BY <1>1, <2>1 DEF ThreadStep
<1>4. Absent(c)
  BY <1>3 DEF JobTable, Queued
<1> QED
  BY <1>1, <1>2, <1>4

LEMMA PlanFields ==
  ASSUME DeploymentTypeOK, NEW j \in Jobs, Plan(j)
  PROVE  /\ thread'[j].at = "reset" /\ thread'[j].target = upstream
         /\ thread'[j].changed \in Diff(workspace, upstream)
         /\ thread'[j].pending = thread[j].pending
         /\ thread'[j].pendingRebuild = thread[j].pendingRebuild
         /\ jobs'[j].services = Select(thread'[j].changed) \union thread[j].pending
         /\ jobs'[j].rebuild = (NeedsRebuild(thread'[j].changed) \/ thread[j].pendingRebuild)
<1>1. PICK changed \in Diff(workspace, upstream) :
      /\ thread' = [thread EXCEPT ![j].at = "reset", ![j].target = upstream, ![j].changed = changed]
      /\ jobs' = [jobs EXCEPT ![j] =
                    [status |-> "running", services |-> Select(changed) \union thread[j].pending,
                     rebuild |-> NeedsRebuild(changed) \/ thread[j].pendingRebuild]]
  BY DEF Plan, Target
<1>2. /\ thread'[j].at = "reset" /\ thread'[j].target = upstream /\ thread'[j].changed = changed
      /\ thread'[j].pending = thread[j].pending
      /\ thread'[j].pendingRebuild = thread[j].pendingRebuild
  BY <1>1 DEF DeploymentTypeOK, ThreadType
<1>3. /\ jobs'[j].services = Select(changed) \union thread[j].pending
      /\ jobs'[j].rebuild = (NeedsRebuild(changed) \/ thread[j].pendingRebuild)
  BY <1>1 DEF DeploymentTypeOK
<1>4. /\ Select(thread'[j].changed) = Select(changed)
      /\ NeedsRebuild(thread'[j].changed) = NeedsRebuild(changed)
  BY <1>2
<1>5. thread'[j].changed \in Diff(workspace, upstream)
  <2>1. changed \in Diff(workspace, upstream)
    OBVIOUS
  <2> QED BY <2>1, <1>2
<1>6. jobs'[j].services = Select(thread'[j].changed) \union thread[j].pending
  BY <1>3, <1>4
<1>7. jobs'[j].rebuild = (NeedsRebuild(thread'[j].changed) \/ thread[j].pendingRebuild)
  BY <1>3, <1>4, Zenon
<1> QED
  BY <1>2, <1>5, <1>6, <1>7, Zenon

LEMMA ComposeFields ==
  ASSUME DeploymentTypeOK, NEW j \in Jobs, Compose(j)
  PROVE  /\ jobs'[j].services = Select(thread[j].changed) \union thread[j].pending
         /\ jobs'[j].rebuild = (\/ NeedsRebuild(thread[j].changed)
                                \/ thread[j].pending # {} /\ thread[j].pendingRebuild)
         /\ thread'[j].at = IF jobs'[j].services = {} THEN "finish" ELSE "compose"
         /\ thread'[j].left = jobs'[j].services /\ thread'[j].build = jobs'[j].rebuild
         /\ thread'[j].pending = thread[j].pending
         /\ thread'[j].pendingRebuild = thread[j].pendingRebuild
<1> DEFINE services == Select(thread[j].changed) \union thread[j].pending
           build == \/ NeedsRebuild(thread[j].changed)
                    \/ thread[j].pending # {} /\ thread[j].pendingRebuild
<1>1. /\ thread' = [thread EXCEPT ![j].at = IF services = {} THEN "finish" ELSE "compose",
                                  ![j].left = services, ![j].build = build]
      /\ jobs' = [jobs EXCEPT ![j] =
                    [status |-> "running", services |-> services, rebuild |-> build]]
  BY DEF Compose
<1> HIDE DEF services, build
<1>2. /\ thread'[j].at = IF services = {} THEN "finish" ELSE "compose"
      /\ thread'[j].left = services /\ thread'[j].build = build
      /\ thread'[j].pending = thread[j].pending
      /\ thread'[j].pendingRebuild = thread[j].pendingRebuild
  BY <1>1 DEF DeploymentTypeOK, ThreadType
<1>3. jobs'[j].services = services /\ jobs'[j].rebuild = build
  BY <1>1 DEF DeploymentTypeOK
<1> QED
  BY <1>2, <1>3 DEF services, build

\* Where a step of j leaves its thread.
Path(j) ==
  \/ Goes(j)
  \/ thread'[j].at = "none"
  \/ Queue(j) /\ thread'[j].at = "posting"
  \/ PostAccepted(j) /\ thread'[j].at = "preflight"
  \/ Preflight(j) /\ thread'[j].at = "acquire"
  \/ Acquire(j) /\ thread'[j].at = "check"
  \/ Check(j) /\ thread'[j].at = "plan"
  \/ Plan(j) /\ thread'[j].at = "reset"
  \/ Reset(j) /\ thread'[j].at = "migrate"
  \/ Compose(j) /\ thread'[j].at \in {"compose", "finish"}
  \/ (\E s \in Services : Recreate(j, s)) /\ thread'[j].at = "compose"
  \/ ComposeEnds(j) /\ thread'[j].at = "health"
  \/ Healthy(j) /\ thread'[j].at = "finish"

LEMMA Paths ==
  ASSUME DeploymentTypeOK, NEW j \in Jobs, Step(j)
  PROVE  Path(j)
<1>1. CASE Queue(j)
  <2>1. thread'[j].at = "posting"
    BY <1>1 DEF Queue, DeploymentTypeOK, ThreadType
  <2> QED
    BY <1>1, <2>1 DEF Path
<1>2. CASE PostAccepted(j)
  <2>1. thread'[j].at = "preflight"
    BY <1>2 DEF PostAccepted, DeploymentTypeOK, ThreadType
  <2> QED
    BY <1>2, <2>1 DEF Path
<1>3. CASE Preflight(j)
  <2>1. thread'[j].at = "acquire"
    BY <1>3 DEF Preflight, DeploymentTypeOK, ThreadType
  <2> QED
    BY <1>3, <2>1 DEF Path
<1>4. CASE Plan(j)
  <2>1. thread'[j].at = "reset"
    BY <1>4 DEF Plan, DeploymentTypeOK, ThreadType
  <2> QED
    BY <1>4, <2>1 DEF Path
<1>5. CASE Reset(j)
  <2>1. thread'[j].at = "migrate"
    BY <1>5 DEF Reset, DeploymentTypeOK, ThreadType
  <2> QED
    BY <1>5, <2>1 DEF Path
<1>6. CASE ComposeEnds(j)
  <2>1. thread'[j].at = "health"
    BY <1>6 DEF ComposeEnds, DeploymentTypeOK, ThreadType
  <2> QED
    BY <1>6, <2>1 DEF Path
<1>7. CASE Healthy(j)
  <2>1. thread'[j].at = "finish"
    BY <1>7 DEF Healthy, DeploymentTypeOK, ThreadType
  <2> QED
    BY <1>7, <2>1 DEF Path
<1>8. CASE Compose(j)
  <2>1. thread'[j].at \in {"compose", "finish"}
    BY <1>8, ComposeFields
  <2> QED
    BY <1>8, <2>1 DEF Path
<1>9. CASE \E s \in Services : Recreate(j, s)
  <2>1. thread'[j].at = "compose"
    BY <1>9 DEF Recreate, DeploymentTypeOK, ThreadType
  <2> QED
    BY <1>9, <2>1 DEF Path
<1>10. CASE PostAnswered(j)
  BY <1>10 DEF PostAnswered, Path, Goes, DeploymentTypeOK, ThreadType
<1>11. CASE PostFailed(j)
  <2>1. thread'[j].at = "none" \/ Goes(j)
    BY <1>11 DEF PostFailed, Goes, DeploymentTypeOK, ThreadType
  <2> QED
    BY <2>1 DEF Path
<1>12. CASE Acquire(j)
  <2>1. thread'[j].at \in {"check", "none"}
    BY <1>12, EndFields DEF Acquire, DeploymentTypeOK, ThreadType
  <2> QED
    BY <1>12, <2>1 DEF Path
<1>13. CASE Check(j)
  <2>1. thread'[j].at \in {"plan", "none"}
    BY <1>13, EndFields DEF Check, DeploymentTypeOK, ThreadType
  <2> QED
    BY <1>13, <2>1 DEF Path
<1>14. CASE Fail(j) \/ Finish(j)
  BY <1>14, EndFields DEF Fail, Finish, Path
<1> QED
  BY <1>1, <1>2, <1>3, <1>4, <1>5, <1>6, <1>7, <1>8, <1>9, <1>10, <1>11, <1>12, <1>13, <1>14 DEF Step

LEMMA Planned ==
  ASSUME DeploymentTypeOK, NEW j \in Jobs, Plan(j) \/ Compose(j)
  PROVE  thread'[j].at \in {"reset", "compose", "finish"}
BY PlanFields, ComposeFields

LEMMA RowStays ==
  ASSUME DeploymentTypeOK, DeploymentTypeOK', JobTable, [Next]_vars, NEW j \in Jobs
  PROVE  Row(j)'
<1>0. JobStep(j) /\ ThreadStep(j) /\ Row(j)
  BY Steps DEF JobTable
<1>1. Absent(j)' => (jobs[j] = NoJob /\ thread[j].at = "none" /\ ~thread[j].awaited)'
  <2> SUFFICES ASSUME Absent(j)'
               PROVE  (jobs[j] = NoJob /\ thread[j].at = "none" /\ ~thread[j].awaited)'
    OBVIOUS
  <2>1. Absent(j) /\ jobs[j] = NoJob /\ thread[j].at = "none" /\ ~thread[j].awaited
    BY <1>0, AbsentStays DEF Row
  <2>2. ~Queue(j)
    BY DEF Queue, Absent, DeploymentTypeOK, JobType
  <2>3. ~Step(j) \/ PostAnswered(j)
    BY <2>1, <2>2 DEF Step, PostAccepted, PostFailed, Preflight, Acquire, Fail, Check, Plan,
                      Reset, Compose, Recreate, ComposeEnds, Healthy, Finish
  <2>4. thread'[j].at = "none" /\ ~thread'[j].awaited
    BY <1>0, <2>1, <2>2, <2>3 DEF ThreadStep, Goes, PostAnswered
  <2>5. jobs'[j].services = {} /\ jobs'[j].rebuild = FALSE /\ jobs'[j].status = "absent"
    <3>1. ~Plan(j) /\ ~Compose(j)
      BY <2>1 DEF Plan, Compose
    <3>2. jobs'[j].services = jobs[j].services /\ jobs'[j].rebuild = jobs[j].rebuild
      BY <1>0, <3>1 DEF JobStep
    <3> QED
      BY <2>1, <3>2 DEF NoJob, Absent
  <2>6. jobs'[j] = NoJob
    BY <1>0, <2>5 DEF DeploymentTypeOK, JobType, NoJob
  <2> QED
    BY <2>4, <2>6
<1>2. (jobs[j].status = "completed" => thread[j].at = "none")'
  <2> SUFFICES ASSUME jobs'[j].status = "completed" PROVE thread'[j].at = "none"
    OBVIOUS
  <2>1. CASE Finish(j) \/ (Check(j) /\ End(j, "completed"))
    BY <2>1, EndFields DEF Finish
  <2>2. CASE jobs[j].status = "completed"
    <3>1. thread[j].at = "none" /\ ~Queue(j)
      BY <1>0, <2>2 DEF Row, Queue, NoJob
    <3>2. ~Step(j) \/ PostAnswered(j) \/ PostFailed(j)
      BY <3>1 DEF Step, PostAccepted, Preflight, Acquire, Fail, Check, Plan, Reset, Compose,
                  Recreate, ComposeEnds, Healthy, Finish
    <3> QED
      BY <1>0, <3>1, <3>2 DEF ThreadStep, Goes, PostAnswered, PostFailed, DeploymentTypeOK, ThreadType
  <2> QED
    BY <1>0, <2>1, <2>2 DEF JobStep, StatusStep
<1>3. (thread[j].at \in {"posting", "preflight", "acquire", "check", "plan"}
       => jobs[j].services = {})'
  <2> SUFFICES ASSUME thread'[j].at \in {"posting", "preflight", "acquire", "check", "plan"}
               PROVE  jobs'[j].services = {}
    OBVIOUS
  <2>1. ~Plan(j) /\ ~Compose(j)
    BY Planned
  <2>2. \/ thread[j].at \in {"posting", "preflight", "acquire", "check", "plan"}
        \/ Queue(j)
    BY <1>0, Paths DEF ThreadStep, Path, Goes, PostAccepted, Preflight, Acquire, Check
  <2>3. jobs[j].services = {}
    BY <1>0, <2>2 DEF Row, Queue, NoJob
  <2> QED
    BY <1>0, <2>1, <2>3 DEF JobStep
<1> QED
  BY <1>1, <1>2, <1>3 DEF Row

-----------------------------------------------------------------------------
(* What a thread carries from what it has read to what it records.         *)

Carried(j) ==
  LET t == thread[j] IN
  /\ t.at \in Working \ {"check"} => (t.pendingRebuild => t.pending # {})
  /\ t.at = "reset" => t.target <= upstream
  /\ t.at \in {"reset", "migrate"} =>
       /\ jobs[j].services = Select(t.changed) \union t.pending
       /\ jobs[j].rebuild = (NeedsRebuild(t.changed) \/ t.pendingRebuild)
  /\ t.at \in {"compose", "health", "finish"} =>
       t.pending \subseteq jobs[j].services /\ (t.pendingRebuild => jobs[j].rebuild)
  /\ t.at = "compose" => t.build = jobs[j].rebuild /\ t.left \subseteq jobs[j].services

LEMMA PendingBuilds == \A j : PendingRebuild(j) => Pending(j) # {}
BY DEF PendingRebuild, Pending

LEMMA Upstream ==
  ASSUME DeploymentTypeOK, [Next]_vars
  PROVE  upstream <= upstream'
<1>1. CASE UNCHANGED upstream
  BY <1>1 DEF DeploymentTypeOK
<1>2. CASE Push
  BY <1>2 DEF Push, DeploymentTypeOK
<1>3. ASSUME NEW j \in Jobs, Step(j) PROVE UNCHANGED upstream
  BY <1>3 DEF Step, Queue, PostAccepted, PostAnswered, PostFailed, Preflight, Acquire, Fail, Check,
              Plan, Reset, Compose, Recreate, ComposeEnds, Healthy, Finish
<1> QED
  BY <1>1, <1>2, <1>3 DEF Next, vars, Expired, PeekClear, OtherTakes, OtherEnds, UpdaterDies,
                          ConciergeRestarts

\* Steps in which neither the thread goes on nor the services change.
LEMMA CarriedAlong ==
  ASSUME DeploymentTypeOK, NEW j \in Jobs, Carried(j), Goes(j), upstream <= upstream',
         jobs'[j].services = jobs[j].services, jobs'[j].rebuild = jobs[j].rebuild,
         upstream' \in Nat
  PROVE  Carried(j)'
BY Given, ThreadFields DEF Carried, Goes, DeploymentTypeOK

LEMMA CarriedStays ==
  ASSUME DeploymentTypeOK, DeploymentTypeOK', [Next]_vars, NEW j \in Jobs, Carried(j)
  PROVE  Carried(j)'
<1>0. JobStep(j) /\ ThreadStep(j) /\ upstream <= upstream' /\ upstream' \in Nat
  BY Steps, Upstream, Given DEF DeploymentTypeOK
<1>1. CASE thread'[j].at = "none"
  BY <1>1 DEF Carried, Working
<1>2. CASE Plan(j)
  <2> DEFINE changed == thread'[j].changed
  <2>1. thread[j].pendingRebuild => thread[j].pending # {}
    BY <1>2 DEF Carried, Working, Plan
  <2>2. /\ thread'[j].at = "reset" /\ thread'[j].target = upstream
        /\ thread'[j].pending = thread[j].pending
        /\ thread'[j].pendingRebuild = thread[j].pendingRebuild
        /\ jobs'[j].services = Select(changed) \union thread[j].pending
        /\ jobs'[j].rebuild = (NeedsRebuild(changed) \/ thread[j].pendingRebuild)
    BY <1>2, PlanFields
  <2> QED
    BY <1>0, <2>1, <2>2 DEF Carried, Working
<1>3. CASE Compose(j)
  <2>1. thread[j].pendingRebuild => thread[j].pending # {}
    BY <1>3 DEF Carried, Working, Compose
  <2>2. /\ thread'[j].at \in {"compose", "finish"}
        /\ thread'[j].pending = thread[j].pending
        /\ thread'[j].pendingRebuild = thread[j].pendingRebuild
        /\ thread'[j].left = jobs'[j].services /\ thread'[j].build = jobs'[j].rebuild
        /\ thread[j].pending \subseteq jobs'[j].services
    BY <1>3, ComposeFields
  <2>3. thread[j].pendingRebuild => jobs'[j].rebuild
    BY <1>3, <2>1, ComposeFields
  <2> QED
    BY <2>1, <2>2, <2>3 DEF Carried, Working
<1> SUFFICES ASSUME thread'[j].at # "none", ~Plan(j), ~Compose(j)
             PROVE  Carried(j)'
  BY <1>1, <1>2, <1>3
<1>4. jobs'[j].services = jobs[j].services /\ jobs'[j].rebuild = jobs[j].rebuild
  BY <1>0 DEF JobStep
<1>5. CASE Goes(j)
  BY <1>0, <1>4, <1>5, CarriedAlong
<1>6. CASE thread'[j].at \in {"posting", "preflight", "acquire", "check"}
  BY <1>6 DEF Carried, Working
<1>7. CASE Check(j) /\ thread'[j].at = "plan"
  <2>1. thread'[j].pending = Pending(j) /\ thread'[j].pendingRebuild = PendingRebuild(j)
    BY <1>7, EndFields DEF Check, DeploymentTypeOK, ThreadType
  <2> QED
    BY <1>7, <2>1, PendingBuilds DEF Carried
<1>8. CASE Reset(j)
  BY <1>4, <1>8 DEF Carried, Reset, DeploymentTypeOK, ThreadType, Working
<1>9. CASE \E s \in Services : Recreate(j, s)
  BY <1>4, <1>9 DEF Carried, Recreate, DeploymentTypeOK, ThreadType, Working
<1>10. CASE ComposeEnds(j)
  BY <1>4, <1>10 DEF Carried, ComposeEnds, DeploymentTypeOK, ThreadType, Working
<1>11. CASE Healthy(j)
  BY <1>4, <1>11 DEF Carried, Healthy, DeploymentTypeOK, ThreadType, Working
<1> QED
  BY <1>0, <1>5, <1>6, <1>7, <1>8, <1>9, <1>10, <1>11, Paths DEF ThreadStep, Path

-----------------------------------------------------------------------------
(* As long as no live update is robbed of the lock, one works at a time.   *)

Alone == \A j \in Jobs : thread[j].at \in Working => lock.holder = j

LEMMA Robbing ==
  ASSUME NEW j, NEW k \in Jobs, j # k, lock.holder = k, Alive(k)
  PROVE  Robs(j)
BY DEF Robs

LEMMA BeatHolder ==
  ASSUME DeploymentTypeOK, NEW j, Beat(j)
  PROVE  lock'.holder = lock.holder
BY DEF Beat, DeploymentTypeOK, LockType

LEMMA HolderStays ==
  ASSUME DeploymentTypeOK, [Next]_vars, ~robbed', NEW k \in Jobs, lock.holder = k, Alive(k)
  PROVE  lock'.holder = k \/ thread'[k].at \notin Working
<1>0. Robs(0) /\ k # 0
  BY Robbing, Given DEF Jobs
<1>1. CASE Push \/ UpdaterDies \/ UNCHANGED vars
  BY <1>1 DEF Push, UpdaterDies, vars
<1>2. CASE Expired
  BY <1>2 DEF Expired, DeploymentTypeOK, LockType
<1>3. CASE PeekClear \/ OtherTakes \/ OtherEnds
  BY <1>0, <1>3 DEF PeekClear, OtherTakes, OtherEnds
<1>4. CASE ConciergeRestarts
  BY <1>0, <1>4 DEF ConciergeRestarts
<1>5. ASSUME NEW j \in Jobs, Step(j)
      PROVE  lock'.holder = k \/ thread'[k].at \notin Working
  <2>1. CASE Queue(j) \/ PostAccepted(j) \/ PostAnswered(j)
    BY <2>1 DEF Queue, PostAccepted, PostAnswered
  <2>2. CASE \/ PostFailed(j) \/ Plan(j) \/ Reset(j) \/ Compose(j) \/ ComposeEnds(j) \/ Healthy(j)
             \/ \E s \in Services : Recreate(j, s)
    <3>1. Beat(j)
      BY <2>2 DEF PostFailed, Plan, Reset, Compose, ComposeEnds, Healthy, Recreate
    <3> QED
      BY <3>1, BeatHolder
  <2>3. CASE End(j, "completed") \/ End(j, "failed")
    <3>1. j # k => FALSE
      BY <2>3, Robbing DEF End
    <3>2. thread'[j].at = "none"
      BY <2>3, EndFields
    <3> QED
      BY <3>1, <3>2 DEF Working
  <2>4. CASE Fail(j) \/ Finish(j)
    BY <2>3, <2>4 DEF Fail, Finish
  <2>5. CASE Check(j)
    BY <2>3, <2>5, BeatHolder DEF Check
  <2>6. CASE Preflight(j)
    <3>1. CASE lock' = lock
      BY <3>1
    <3>2. CASE robbed' = (robbed \/ Robs(j))
      <4>1. j = k
        BY <3>2, Robbing
      <4> QED
        BY <2>6, <4>1 DEF Preflight, DeploymentTypeOK, ThreadType, Working
    <3> QED
      BY <2>6, <3>1, <3>2 DEF Preflight
  <2>7. CASE Acquire(j)
    <3>1. CASE lock' = [Free EXCEPT !.holder = j] /\ robbed' = (robbed \/ Robs(j))
      <4>1. j = k
        BY <3>1, Robbing
      <4> QED
        BY <3>1, <4>1 DEF Free
    <3> QED
      BY <2>3, <2>7, <3>1 DEF Acquire
  <2> QED
    BY <1>5, <2>1, <2>2, <2>4, <2>5, <2>6, <2>7 DEF Step
<1> QED
  BY <1>1, <1>2, <1>3, <1>4, <1>5 DEF Next

LEMMA RobbedStays ==
  ASSUME DeploymentTypeOK, [Next]_vars
  PROVE  (robbed => robbed') /\ (overtaken => overtaken')
<1>1. ASSUME NEW j \in Jobs, Step(j) PROVE (robbed => robbed') /\ (overtaken => overtaken')
  <2>1. CASE Preflight(j)
    BY <2>1, Zenon DEF Preflight
  <2>2. CASE Acquire(j)
    BY <2>2, Zenon DEF Acquire, End
  <2>3. CASE Check(j)
    BY <2>3, Zenon DEF Check, End
  <2>4. CASE Fail(j) \/ Finish(j)
    <3>1. robbed' = (robbed \/ Robs(j)) /\ overtaken' = overtaken
      BY <2>4 DEF Fail, Finish, End
    <3> QED
      BY <3>1, Zenon
  <2>5. CASE UNCHANGED <<robbed, overtaken>>
    BY <2>5
  <2> QED
    BY <1>1, <2>1, <2>2, <2>3, <2>4, <2>5
       DEF Step, Queue, PostAccepted, PostAnswered, PostFailed, Plan, Reset, Compose, Recreate,
           ComposeEnds, Healthy
<1>2. CASE PeekClear \/ OtherTakes \/ OtherEnds
  <2>1. robbed' = (robbed \/ Robs(0)) /\ overtaken' = overtaken
    BY <1>2 DEF PeekClear, OtherTakes, OtherEnds
  <2> QED
    BY <2>1, Zenon
<1>3. CASE ConciergeRestarts
  BY <1>3, Zenon DEF ConciergeRestarts
<1>4. CASE UNCHANGED <<robbed, overtaken>>
  BY <1>4
<1> QED
  BY <1>1, <1>2, <1>3, <1>4 DEF Next, vars, Push, Expired, UpdaterDies

LEMMA Worked ==
  ASSUME NEW j, \/ Fail(j) \/ Check(j) \/ Plan(j) \/ Reset(j) \/ Compose(j) \/ ComposeEnds(j)
                \/ Healthy(j) \/ Finish(j) \/ \E s \in Services : Recreate(j, s)
  PROVE  thread[j].at \in Working
BY DEF Fail, Check, Plan, Reset, Compose, ComposeEnds, Healthy, Finish, Recreate, Working

LEMMA AloneStays ==
  ASSUME DeploymentTypeOK, [Next]_vars, ~robbed', Alone
  PROVE  Alone'
<1> SUFFICES ASSUME NEW k \in Jobs, thread'[k].at \in Working PROVE lock'.holder = k
  BY DEF Alone
<1>1. CASE thread[k].at \in Working
  <2>1. Alive(k) /\ lock.holder = k
    BY <1>1 DEF Alone, Alive, Working
  <2> QED
    BY <2>1, HolderStays
<1>2. CASE thread[k].at \notin Working
  <2>1. Step(k) /\ Path(k)
    BY <1>2, Steps, Paths DEF ThreadStep, Goes, Working
  <2>2. Acquire(k) /\ thread'[k].at = "check"
    BY <1>2, <2>1, Worked DEF Path, Goes, Working
  <2>3. ~End(k, "failed")
    BY <2>2, EndFields
  <2> QED
    BY <2>2, <2>3 DEF Acquire, Free
<1> QED
  BY <1>1, <1>2

-----------------------------------------------------------------------------
(* What an update compares is still so when it resets the workspace.       *)

Compared(j) ==
  thread[j].at = "reset" => /\ thread[j].changed \in Diff(workspace, thread[j].target)
                            /\ workspace <= thread[j].target

LEMMA Workspace ==
  ASSUME [Next]_vars
  PROVE  UNCHANGED workspace \/ \E j \in Jobs : Reset(j)
<1>1. ASSUME NEW j \in Jobs, Step(j) PROVE UNCHANGED workspace \/ Reset(j)
  BY <1>1 DEF Step, Queue, PostAccepted, PostAnswered, PostFailed, Preflight, Acquire, Fail, Check,
              Plan, Compose, Recreate, ComposeEnds, Healthy, Finish
<1> QED
  BY <1>1 DEF Next, vars, Push, Expired, PeekClear, OtherTakes, OtherEnds, UpdaterDies,
              ConciergeRestarts

LEMMA ComparedStays ==
  ASSUME DeploymentTypeOK, [Next]_vars, Alone, NEW k \in Jobs, Compared(k)
  PROVE  Compared(k)'
<1> SUFFICES ASSUME thread'[k].at = "reset" PROVE Compared(k)'
  BY DEF Compared
<1>1. Goes(k) \/ Plan(k)
  BY Steps, Paths DEF ThreadStep, Path
<1>2. ~\E j \in Jobs : Reset(j)
  <2> SUFFICES ASSUME NEW j \in Jobs, Reset(j) PROVE FALSE
    OBVIOUS
  <2>1. thread[j].at = "reset" /\ thread[k].at \in {"reset", "plan"} /\ thread'[j].at = "migrate"
    BY <1>1 DEF Reset, Goes, Plan, DeploymentTypeOK, ThreadType
  <2>2. j = k
    BY <2>1 DEF Alone, Working
  <2> QED
    BY <2>1, <2>2
<1>3. workspace' = workspace
  BY <1>2, Workspace
<1>4. CASE Goes(k)
  BY <1>3, <1>4 DEF Goes, Compared, Diff, Between
<1>5. CASE Plan(k)
  <2>1. workspace <= upstream
    BY Given DEF DeploymentTypeOK
  <2> QED
    BY <1>3, <1>5, <2>1, PlanFields DEF Compared, Diff, Between
<1> QED
  BY <1>1, <1>4, <1>5

\* The workspace only moves on.
LEMMA MovesOn ==
  ASSUME DeploymentTypeOK, [Next]_vars, ~robbed => \A j \in Jobs : Compared(j)
  PROVE  workspace' >= workspace \/ robbed'
<1>1. CASE UNCHANGED workspace
  BY <1>1, Given DEF DeploymentTypeOK
<1>2. ASSUME NEW j \in Jobs, Reset(j) PROVE workspace' >= workspace \/ robbed'
  BY <1>2, ThreadFields, Given, RobbedStays DEF Reset, Compared, DeploymentTypeOK
<1> QED
  BY <1>1, <1>2, Workspace

-----------------------------------------------------------------------------
(* Updates are done in the order of their rows, unless one is overtaken.   *)

\* No newer update has completed with services that k may have in its list too.
Latest(k) == \A c \in Jobs : c > k /\ jobs[c].status = "completed" => jobs[c].services = {}
HolderIsLatest == \A k \in Jobs : lock.holder = k => Latest(k)

LEMMA ServicesStay ==
  ASSUME DeploymentTypeOK, [Next]_vars, NEW k \in Jobs, Carried(k), ~Plan(k)
  PROVE  jobs'[k].services = jobs[k].services /\ jobs'[k].rebuild = jobs[k].rebuild
<1>1. CASE Compose(k)
  <2>1. /\ jobs[k].services = Select(thread[k].changed) \union thread[k].pending
        /\ jobs[k].rebuild = (NeedsRebuild(thread[k].changed) \/ thread[k].pendingRebuild)
        /\ thread[k].pendingRebuild => thread[k].pending # {}
    BY <1>1 DEF Compose, Carried, Working
  <2>2. /\ jobs'[k].services = Select(thread[k].changed) \union thread[k].pending
        /\ jobs'[k].rebuild = (\/ NeedsRebuild(thread[k].changed)
                               \/ thread[k].pending # {} /\ thread[k].pendingRebuild)
    BY <1>1, ComposeFields
  <2> QED
    BY <2>1, <2>2, Zenon
<1>2. CASE ~Compose(k)
  BY <1>2, Steps DEF JobStep
<1> QED
  BY <1>1, <1>2

LEMMA Completions ==
  ASSUME DeploymentTypeOK, JobTable, [Next]_vars, NEW c \in Jobs, Carried(c),
         jobs'[c].status = "completed"
  PROVE  /\ jobs'[c].services = jobs[c].services
         /\ jobs[c].status = "completed" \/ Finish(c) \/ jobs[c].services = {}
<1>1. JobStep(c) /\ Row(c)
  BY Steps DEF JobTable
<1>2. ~Plan(c)
  <2> SUFFICES ASSUME Plan(c) PROVE FALSE
    OBVIOUS
  <2>1. jobs'[c].status = "running"
    BY DEF Plan, DeploymentTypeOK
  <2> QED
    BY <2>1
<1>3. Check(c) => jobs[c].services = {}
  BY <1>1 DEF Row, Check
<1> QED
  BY <1>1, <1>2, <1>3, ServicesStay DEF JobStep, StatusStep

\* A job that fails with services has not been overtaken by one that completed.
LEMMA FailsInTime ==
  ASSUME DeploymentTypeOK, JobTable, [Next]_vars, \A i \in Jobs : Carried(i), Alone, HolderIsLatest,
         NEW k \in Jobs, Failing(k), jobs[k].services # {},
         NEW c \in Jobs, c > k, jobs'[c].status = "completed"
  PROVE  jobs'[c].services = {}
<1>1. /\ jobs'[c].services = jobs[c].services
      /\ jobs[c].status = "completed" \/ Finish(c) \/ jobs[c].services = {}
  BY Completions
<1>2. CASE thread[k].awaited
  <2>1. Absent(c) /\ Row(c)
    BY <1>2, Given DEF JobTable, Queued, Jobs
  <2> QED
    BY <1>1, <2>1 DEF Row, Absent, Finish
<1>3. CASE lock.holder = k
  <2>1. ~Finish(c)
    BY <1>3, Given, Worked DEF Alone, Jobs
  <2> QED
    BY <1>1, <1>3, <2>1 DEF HolderIsLatest, Latest
<1>4. CASE thread[k].at \in Working
  BY <1>3, <1>4 DEF Alone
<1>5. thread[k].at # "acquire"
  BY DEF JobTable, Row
<1> QED
  BY <1>2, <1>3, <1>4, <1>5 DEF Failing

LEMMA HolderComes ==
  ASSUME DeploymentTypeOK, [Next]_vars, NEW k \in Jobs, lock'.holder = k
  PROVE  lock.holder = k \/ (Acquire(k) /\ overtaken' = (overtaken \/ Overtakes(k)))
<1>0. k # 0 /\ k # Other /\ Free.holder = 0
  BY Given DEF Jobs, Other, Free
<1>1. CASE lock' = lock \/ lock' = Free
  BY <1>0, <1>1
<1>2. CASE Expired
  BY <1>2 DEF Expired, DeploymentTypeOK, LockType
<1>3. CASE OtherTakes
  BY <1>0, <1>3 DEF OtherTakes, Free
<1>4. ASSUME NEW j \in Jobs, Step(j)
      PROVE  lock.holder = k \/ (Acquire(k) /\ overtaken' = (overtaken \/ Overtakes(k)))
  <2>1. CASE Beat(j)
    BY <2>1, BeatHolder
  <2>2. CASE Acquire(j)
    BY <1>0, <2>2 DEF Acquire, End, Free
  <2> QED
    BY <1>1, <1>4, <2>1, <2>2
       DEF Step, Queue, PostAccepted, PostAnswered, PostFailed, Preflight, Fail, Check, Plan, Reset,
           Compose, Recreate, ComposeEnds, Healthy, Finish, End
<1> QED
  BY <1>1, <1>2, <1>3, <1>4 DEF Next, vars, Push, PeekClear, OtherEnds, UpdaterDies,
                                ConciergeRestarts

LEMMA HolderIsLatestStays ==
  ASSUME DeploymentTypeOK, JobTable, [Next]_vars, \A i \in Jobs : Carried(i), HolderIsLatest,
         ~overtaken'
  PROVE  HolderIsLatest'
<1> SUFFICES ASSUME NEW k \in Jobs, lock'.holder = k,
                    NEW c \in Jobs, c > k, jobs'[c].status = "completed"
             PROVE  jobs'[c].services = {}
  BY DEF HolderIsLatest, Latest
<1>1. /\ jobs'[c].services = jobs[c].services
      /\ jobs[c].status = "completed" \/ Finish(c) \/ jobs[c].services = {}
  BY Completions
<1>2. ~Finish(c)
  <2>1. k # 0
    BY Given DEF Jobs
  <2> QED
    BY <2>1 DEF Finish, End, Free
<1>3. CASE lock.holder = k
  BY <1>1, <1>2, <1>3 DEF HolderIsLatest, Latest
<1>4. CASE Acquire(k) /\ overtaken' = (overtaken \/ Overtakes(k))
  <2>1. ~Overtakes(k)
    BY <1>4, Zenon
  <2>2. c \in (k + 1)..MaxJobs
    BY Given DEF Jobs
  <2> QED
    BY <1>1, <1>2, <2>1, <2>2 DEF Overtakes
<1> QED
  BY <1>3, <1>4, HolderComes

-----------------------------------------------------------------------------
(* Who has a service in its list.                                          *)

\* A failed job whose services no newer one has completed with.
FailedWith(k, s) ==
  /\ jobs[k].status = "failed" /\ s \in jobs[k].services
  /\ \A c \in Jobs : c > k /\ jobs[c].status = "completed" => s \notin jobs[c].services
Holds(k, s) == (Active(k) /\ s \in jobs[k].services) \/ FailedWith(k, s)

\* Such a job keeps its services on record, until one that has them as well is finished.
LEMMA HoldsOn ==
  ASSUME DeploymentTypeOK, JobTable, [Next]_vars, \A i \in Jobs : Carried(i), Alone, HolderIsLatest,
         NEW k \in Jobs, NEW s, Holds(k, s), \A j \in Jobs : Finish(j) => s \notin jobs[j].services
  PROVE  Holds(k, s)' /\ jobs'[k].rebuild = jobs[k].rebuild
<1>1. s \in jobs[k].services /\ jobs[k].status \in {"queued", "running", "failed"}
  BY DEF Holds, FailedWith, Active
<1>2. JobStep(k) /\ Row(k)
  BY Steps DEF JobTable
<1>3. ~Plan(k) /\ ~Check(k) /\ ~Queue(k)
  BY <1>1, <1>2 DEF Row, Plan, Check, Queue, NoJob
<1>4. jobs'[k].services = jobs[k].services /\ jobs'[k].rebuild = jobs[k].rebuild
  BY <1>3, ServicesStay
<1>5. ASSUME jobs'[k].status = "failed", Failing(k) PROVE Holds(k, s)'
  <2>1. \A c \in Jobs : c > k /\ jobs'[c].status = "completed" => jobs'[c].services = {}
    BY <1>1, <1>5, FailsInTime
  <2> QED
    BY <1>1, <1>4, <1>5, <2>1 DEF Holds, FailedWith
<1>6. ASSUME jobs'[k].status = jobs[k].status PROVE Holds(k, s)'
  <2>1. CASE Active(k)
    BY <1>1, <1>4, <1>6, <2>1 DEF Holds, Active
  <2>2. CASE FailedWith(k, s)
    <3>1. ASSUME NEW c \in Jobs, c > k, jobs'[c].status = "completed"
          PROVE  s \notin jobs'[c].services
      <4>1. /\ jobs'[c].services = jobs[c].services
            /\ jobs[c].status = "completed" \/ Finish(c) \/ jobs[c].services = {}
        BY <3>1, Completions
      <4> QED
        BY <2>2, <3>1, <4>1 DEF FailedWith
    <3> QED
      BY <1>4, <1>6, <2>2, <3>1 DEF Holds, FailedWith
  <2> QED
    BY <2>1, <2>2 DEF Holds
<1>7. ASSUME jobs'[k].status = "running" PROVE Holds(k, s)'
  BY <1>1, <1>4, <1>7 DEF Holds, Active
<1> QED
  BY <1>1, <1>2, <1>3, <1>4, <1>5, <1>6, <1>7 DEF JobStep, StatusStep

-----------------------------------------------------------------------------
(* What earlier updates left undone, as the one at work has read it.       *)

Inherited(j) ==
  thread[j].at \in Working \ {"check"} =>
    \A k \in Jobs, s \in Services :
      /\ k < j /\ jobs[k].status = "failed" /\ s \in jobs[k].services
      /\ \A c \in Jobs : c > k /\ c < j /\ jobs[c].status = "completed"
                         => s \notin jobs[c].services
      => s \in thread[j].pending /\ (jobs[k].rebuild => thread[j].pendingRebuild)

LEMMA InheritedStays ==
  ASSUME DeploymentTypeOK, JobTable, [Next]_vars, \A i \in Jobs : Carried(i), Alone,
         NEW j \in Jobs, Inherited(j)
  PROVE  Inherited(j)'
<1> SUFFICES ASSUME thread'[j].at \in Working \ {"check"},
                    NEW k \in Jobs, NEW s \in Services,
                    k < j, jobs'[k].status = "failed", s \in jobs'[k].services,
                    \A c \in Jobs : c > k /\ c < j /\ jobs'[c].status = "completed"
                                     => s \notin jobs'[c].services
             PROVE  s \in thread'[j].pending /\ (jobs'[k].rebuild => thread'[j].pendingRebuild)
  BY DEF Inherited
<1>1. CASE Check(j)
  <2>1. ~End(j, "completed")
    BY EndFields DEF Working
  <2>2. /\ thread'[j].pending = Pending(j) /\ thread'[j].pendingRebuild = PendingRebuild(j)
        /\ jobs' = jobs
    BY <1>1, <2>1 DEF Check, DeploymentTypeOK, ThreadType
  <2>3. k \in 1..(j - 1)
    BY Given DEF Jobs
  <2>4. s \in Outstanding(k, j)
    <3>1. \A c \in (k + 1)..(j - 1) : c \in Jobs /\ c > k /\ c < j
      BY Given DEF Jobs
    <3> QED
      BY <2>2, <3>1 DEF Outstanding
  <2>5. s \in Pending(j) /\ (jobs[k].rebuild => PendingRebuild(j))
    BY <2>3, <2>4 DEF Pending, PendingRebuild
  <2> QED
    BY <2>2, <2>5
<1>2. CASE ~Check(j)
  <2>1. /\ thread[j].at \in Working \ {"check"}
        /\ thread'[j].pending = thread[j].pending
        /\ thread'[j].pendingRebuild = thread[j].pendingRebuild
    <3>1. CASE Goes(j)
      BY <3>1 DEF Goes
    <3>2. CASE Plan(j)
      BY <3>2, PlanFields DEF Plan, Working
    <3>3. CASE Compose(j)
      BY <3>3, ComposeFields DEF Compose, Working
    <3>4. CASE Reset(j) \/ (\E x \in Services : Recreate(j, x)) \/ ComposeEnds(j) \/ Healthy(j)
      BY <3>4 DEF Reset, Recreate, ComposeEnds, Healthy, Working, DeploymentTypeOK, ThreadType
    <3> QED
      BY <1>2, <3>1, <3>2, <3>3, <3>4, Steps, Paths DEF ThreadStep, Path, Working
  <2>2. lock.holder = j /\ \A i \in Jobs : i # j => thread[i].at \notin Working
    BY <2>1 DEF Alone
  <2>3. ~Absent(j)
    BY <2>1 DEF JobTable, Row, Working
  <2>4. ASSUME NEW i \in Jobs, i < j, Failing(i) PROVE jobs[i].services = {}
    <3>1. thread[i].at = "acquire"
      BY <2>2, <2>3, <2>4, Given DEF Failing, JobTable, Queued, Jobs
    <3> QED
      BY <3>1 DEF JobTable, Row
  <2>5. k # j /\ JobStep(k) /\ ~Plan(k) /\ ~Queue(k)
    <3>1. k # j
      BY Given DEF Jobs
    <3>2. jobs'[k].status = "failed" => ~Queue(k)
      BY DEF Queue, DeploymentTypeOK, JobType
    <3> QED
      BY <2>2, <3>1, <3>2, Steps, Worked
  <2>6. jobs'[k].services = jobs[k].services /\ jobs'[k].rebuild = jobs[k].rebuild
    BY <2>5, ServicesStay
  <2>7. jobs[k].status = "failed"
    BY <2>4, <2>5, <2>6 DEF JobStep, StatusStep
  <2>8. ASSUME NEW c \in Jobs, c > k, c < j, jobs[c].status = "completed"
        PROVE  s \notin jobs[c].services
    <3>1. JobStep(c) /\ Row(c)
      BY Steps DEF JobTable
    <3>2. thread[c].at = "none" /\ ~Alive(c) /\ ~Queue(c)
      BY <2>8, <3>1 DEF Row, Alive, Queue, NoJob
    <3>3. ~Plan(c) /\ ~Check(c) /\ ~Finish(c)
      BY <3>2 DEF Plan, Check, Finish
    <3>4. jobs'[c].services = jobs[c].services
      BY <3>3, ServicesStay
    <3>5. jobs'[c].status = "completed" \/ jobs[c].services = {}
      BY <2>4, <2>8, <3>1, <3>2, <3>3 DEF JobStep, StatusStep
    <3> QED
      BY <2>8, <3>4, <3>5
  <2>9. s \in thread[j].pending /\ (jobs[k].rebuild => thread[j].pendingRebuild)
    BY <2>1, <2>6, <2>7, <2>8 DEF Inherited
  <2> QED
    BY <2>1, <2>6, <2>9
<1> QED
  BY <1>1, <1>2

-----------------------------------------------------------------------------
(* What compose has been over with is as new as the workspace, or missed    *)
(* through.                                                                *)

UpToDate(j, s) ==
  s \in missed \/ (deployed[s] = workspace /\ (jobs[j].rebuild => built[s] = workspace))
Brought(j) ==
  /\ thread[j].at = "compose" => \A s \in jobs[j].services \ thread[j].left : UpToDate(j, s)
  /\ thread[j].at \in {"health", "finish"} => \A s \in jobs[j].services : UpToDate(j, s)

LEMMA Containers ==
  ASSUME [Next]_vars
  PROVE  \/ UNCHANGED <<deployed, built, missed>>
         \/ \E j \in Jobs : Reset(j) \/ ComposeEnds(j) \/ \E s \in Services : Recreate(j, s)
<1>1. ASSUME NEW j \in Jobs, Step(j)
      PROVE  \/ UNCHANGED <<deployed, built, missed>>
             \/ Reset(j) \/ ComposeEnds(j) \/ \E s \in Services : Recreate(j, s)
  BY <1>1 DEF Step, Queue, PostAccepted, PostAnswered, PostFailed, Preflight, Acquire, Fail, Check,
              Plan, Compose, Healthy, Finish, containers
<1> QED
  BY <1>1 DEF Next, vars, Push, Expired, PeekClear, OtherTakes, OtherEnds, UpdaterDies,
              ConciergeRestarts, containers

LEMMA BroughtStays ==
  ASSUME DeploymentTypeOK, JobTable, [Next]_vars, \A i \in Jobs : Carried(i), Alone,
         NEW j \in Jobs, Brought(j)
  PROVE  Brought(j)'
<1> SUFFICES ASSUME thread'[j].at \in {"compose", "health", "finish"}, NEW s \in jobs'[j].services,
                    thread'[j].at = "compose" => s \notin thread'[j].left
             PROVE  UpToDate(j, s)'
  BY DEF Brought
<1>1. CASE Compose(j)
  BY <1>1, ComposeFields
<1>2. CASE ~Compose(j)
  <2>1. \/ Goes(j) \/ ComposeEnds(j) \/ Healthy(j) \/ (\E x \in Services : Recreate(j, x))
    BY <1>2, Steps, Paths DEF ThreadStep, Path
  <2>2. thread[j].at \in {"compose", "health", "finish"}
    BY <2>1 DEF Goes, ComposeEnds, Healthy, Recreate
  <2>3. lock.holder = j /\ \A i \in Jobs : i # j => thread[i].at \notin Working
    BY <2>2 DEF Alone, Working
  <2>0. ASSUME NEW i \in Jobs, Reset(i) PROVE FALSE
    BY <2>0, <2>2, <2>3, Worked DEF Reset
  <2>4. workspace' = workspace
    BY <2>0, Workspace
  <2>5. jobs'[j].services = jobs[j].services /\ jobs'[j].rebuild = jobs[j].rebuild
    BY <2>2, ServicesStay DEF Plan
  <2>6. s \in Services
    BY <2>5, JobFields
  <2>7. CASE ComposeEnds(j)
    <3>1. thread[j].at = "compose" /\ missed' = missed \union thread[j].left
          /\ UNCHANGED <<deployed, built>>
      BY <2>7 DEF ComposeEnds, WavesThrough
    <3>2. s \notin thread[j].left => UpToDate(j, s)
      BY <2>5, <3>1 DEF Brought
    <3> QED
      BY <2>4, <2>5, <3>1, <3>2 DEF UpToDate
  <2>8. ASSUME NEW x \in Services, Recreate(j, x) PROVE UpToDate(j, s)'
    <3>1. /\ thread[j].at = "compose" /\ thread'[j].left = thread[j].left \ {x}
          /\ thread'[j].at = "compose"
          /\ deployed' = [deployed EXCEPT ![x] = workspace]
          /\ built' = [built EXCEPT ![x] = IF thread[j].build THEN workspace ELSE @]
          /\ missed' = IF thread[j].build THEN missed \ {x} ELSE missed
      BY <2>8 DEF Recreate, FromWorkspace, DeploymentTypeOK, ThreadType
    <3>2. thread[j].build = jobs[j].rebuild
      BY <3>1 DEF Carried
    <3>3. CASE s = x
      BY <2>4, <2>5, <3>1, <3>2, <3>3 DEF UpToDate, DeploymentTypeOK
    <3>4. CASE s # x
      <4>1. UpToDate(j, s)
        BY <2>5, <3>1, <3>4 DEF Brought
      <4>2. deployed'[s] = deployed[s] /\ built'[s] = built[s] /\ (s \in missed => s \in missed')
        BY <2>6, <3>1, <3>4 DEF DeploymentTypeOK
      <4> QED
        BY <2>4, <2>5, <4>1, <4>2 DEF UpToDate
    <3> QED
      BY <3>3, <3>4
  <2>9. ASSUME UNCHANGED <<deployed, built, missed>>, Goes(j) \/ Healthy(j)
        PROVE  UpToDate(j, s)'
    <3>1. UpToDate(j, s)
      BY <2>5, <2>9 DEF Goes, Healthy, Brought
    <3> QED
      BY <2>4, <2>5, <2>9, <3>1 DEF UpToDate
  <2>10. ASSUME NEW i \in Jobs, ComposeEnds(i) \/ \E x \in Services : Recreate(i, x)
         PROVE  i = j
    BY <2>3, <2>10, Worked
  <2> QED
    BY <2>0, <2>1, <2>7, <2>8, <2>9, <2>10, Containers
<1> QED
  BY <1>1, <1>2

-----------------------------------------------------------------------------
(* A service that is behind the workspace has a job that holds it.         *)

RecordOf(s) ==
  /\ Stale(s) => \E k \in Jobs : Holds(k, s)
  /\ StaleImage(s) => \E k \in Jobs : Holds(k, s) /\ jobs[k].rebuild
Record == \A s \in Services \ missed : RecordOf(s)

LEMMA NotStale ==
  ASSUME DeploymentTypeOK, NEW s \in Services
  PROVE  /\ deployed[s] = workspace => ~Stale(s)
         /\ built[s] = workspace => ~StaleImage(s)
<1>1. workspace \in Nat
  BY Given DEF DeploymentTypeOK
<1>2. Between(workspace, workspace) = {}
  BY <1>1, BetweenSelf
<1> QED
  BY <1>2, SelectNone DEF Stale, StaleImage

LEMMA Workable ==
  ASSUME Alone, NEW i \in Jobs, NEW j \in Jobs, thread[i].at \in Working, thread[j].at \in Working
  PROVE  i = j
BY DEF Alone

\* The end of an update puts nothing off the record that it has not brought up to date.
LEMMA FinishKeeps ==
  ASSUME DeploymentTypeOK, DeploymentTypeOK', JobTable, [Next]_vars, Alone, HolderIsLatest,
         \A i \in Jobs : Carried(i) /\ Inherited(i) /\ Brought(i),
         NEW s \in Services, s \notin missed, RecordOf(s),
         NEW j \in Jobs, Finish(j), s \in jobs[j].services
  PROVE  RecordOf(s)'
<1>1. /\ UNCHANGED <<workspace, deployed, built>> /\ thread[j].at = "finish"
      /\ \A k \in Jobs \ {j} : jobs'[k] = jobs[k]
      /\ jobs'[j].services = jobs[j].services
  BY EndFields DEF Finish, containers
<1>2. (Stale(s)' <=> Stale(s)) /\ (StaleImage(s)' <=> StaleImage(s))
  BY <1>1 DEF Stale, StaleImage, Between
<1>3. UpToDate(j, s)
  BY <1>1 DEF Brought
<1>4. ~Stale(s) /\ (jobs[j].rebuild => ~StaleImage(s))
  BY <1>3, NotStale DEF UpToDate
<1>5. ASSUME StaleImage(s) PROVE \E k \in Jobs : Holds(k, s)' /\ jobs'[k].rebuild
  <2>1. PICK k \in Jobs : Holds(k, s) /\ jobs[k].rebuild
    BY <1>5 DEF RecordOf
  <2>2. ~jobs[j].rebuild
    BY <1>4, <1>5
  <2>3. k # j
    BY <2>1, <2>2
  <2>4. CASE Active(k)
    BY <1>1, <2>1, <2>3, <2>4 DEF Holds, Active, FailedWith
  <2>5. CASE FailedWith(k, s) /\ k > j
    <3>1. \A c \in Jobs : c > k => c # j
      BY <2>5, Given DEF Jobs
    <3> QED
      BY <1>1, <2>1, <2>3, <2>5, <3>1 DEF Holds, FailedWith
  <2>6. CASE FailedWith(k, s) /\ k < j
    <3>1. thread[j].pendingRebuild
      BY <1>1, <2>1, <2>6 DEF Inherited, FailedWith, Working
    <3>2. jobs[j].rebuild
      BY <1>1, <3>1 DEF Carried
    <3> QED
      BY <2>2, <3>2
  <2>7. k < j \/ k > j
    BY <2>3, Given DEF Jobs
  <2> QED
    BY <1>1, <2>1, <2>3, <2>4, <2>5, <2>6, <2>7 DEF Holds
<1> QED
  BY <1>2, <1>4, <1>5 DEF RecordOf

\* The services of what a reset skips are those the job has just recorded, unless git did not
\* say what it skips.
LEMMA ResetRecords ==
  ASSUME DeploymentTypeOK, DeploymentTypeOK', [Next]_vars,
         NEW j \in Jobs, Reset(j), Carried(j), Compared(j),
         NEW s \in Services, s \notin missed'
  PROVE  /\ Stale(s)' => Stale(s) \/ Holds(j, s)'
         /\ StaleImage(s)' => StaleImage(s) \/ (Holds(j, s)' /\ jobs'[j].rebuild)
<1> DEFINE new == Between(workspace, thread[j].target)
<1>1. /\ thread[j].at = "reset" /\ workspace' = thread[j].target /\ UNCHANGED <<deployed, built>>
      /\ jobs'[j].status = "running" /\ jobs'[j].services = jobs[j].services
      /\ jobs'[j].rebuild = jobs[j].rebuild
  BY DEF Reset, containers, DeploymentTypeOK, JobType
<1>2. s \in Select(new) => s \in jobs[j].services /\ (NeedsRebuild(new) => jobs[j].rebuild)
  <2>1. s \in Select(new) => s \in Select(thread[j].changed)
    BY DEF Reset
  <2>2. thread[j].changed \in {new, {}}
    BY <1>1 DEF Compared, Diff
  <2>3. s \notin Select({})
    BY SelectNone
  <2>4. Select(thread[j].changed) \subseteq jobs[j].services
        /\ (NeedsRebuild(thread[j].changed) => jobs[j].rebuild)
    BY <1>1 DEF Carried
  <2> QED
    BY <2>1, <2>2, <2>3, <2>4
<1>3. workspace \in Nat /\ thread[j].target \in Nat /\ deployed[s] \in Nat /\ built[s] \in Nat
  BY ThreadFields, Given DEF DeploymentTypeOK
<1>4. /\ Stale(s)' <=> s \in Select(Between(deployed[s], thread[j].target))
      /\ StaleImage(s)' <=> Between(built[s], thread[j].target) \intersect ImageKinds[s] # {}
  BY <1>1 DEF Stale, StaleImage, Between
<1>5. Holds(j, s)' <=> s \in jobs[j].services
  BY <1>1 DEF Holds, Active, FailedWith
<1>6. Stale(s)' => Stale(s) \/ s \in Select(new)
  BY <1>3, <1>4, BetweenSplits, SelectSplits DEF Stale
<1>7. StaleImage(s)' => StaleImage(s) \/ new \intersect ImageKinds[s] # {}
  BY <1>3, <1>4, BetweenSplits DEF StaleImage
<1>8. new \intersect ImageKinds[s] # {} => s \in Select(new) /\ NeedsRebuild(new)
  BY ImageTriggers
<1> QED
  BY <1>1, <1>2, <1>5, <1>6, <1>7, <1>8

\* While nothing is finished, whatever was on record stays there.
LEMMA RecordKept ==
  ASSUME DeploymentTypeOK, JobTable, [Next]_vars, \A i \in Jobs : Carried(i), Alone, HolderIsLatest,
         NEW s \in Services, RecordOf(s), \A j \in Jobs : Finish(j) => s \notin jobs[j].services
  PROVE  /\ Stale(s) => \E k \in Jobs : Holds(k, s)'
         /\ StaleImage(s) => \E k \in Jobs : Holds(k, s)' /\ jobs'[k].rebuild
<1>1. ASSUME NEW k \in Jobs, Holds(k, s)
      PROVE  Holds(k, s)' /\ jobs'[k].rebuild = jobs[k].rebuild
  BY <1>1, HoldsOn
<1> QED
  BY <1>1 DEF RecordOf

LEMMA RecordStays ==
  ASSUME DeploymentTypeOK, DeploymentTypeOK', JobTable, [Next]_vars, Alone, HolderIsLatest,
         \A i \in Jobs : Carried(i) /\ Inherited(i) /\ Brought(i) /\ Compared(i), Record
  PROVE  Record'
<1> SUFFICES ASSUME NEW s \in Services, s \notin missed' PROVE RecordOf(s)'
  BY DEF Record
<1>1. ASSUME NEW j \in Jobs, Recreate(j, s) PROVE RecordOf(s)'
  <2>1. /\ workspace' = workspace /\ deployed'[s] = workspace /\ thread[j].at = "compose"
        /\ built'[s] \in {built[s], workspace} /\ (s \in missed => built'[s] = workspace)
    BY <1>1 DEF Recreate, FromWorkspace, DeploymentTypeOK
  <2>2. Between(workspace, workspace) = {}
    BY BetweenSelf, Given DEF DeploymentTypeOK
  <2>3. ~Stale(s)' /\ (built'[s] = workspace => ~StaleImage(s)')
    BY <2>1, <2>2, SelectNone DEF Stale, StaleImage
  <2>4. built'[s] = built[s] => (StaleImage(s)' => StaleImage(s))
    BY <2>1 DEF StaleImage, Between
  <2>5. ASSUME NEW i \in Jobs, Finish(i) PROVE FALSE
    <3>1. i = j
      BY <1>1, <2>5, Worked, Workable
    <3> QED
      BY <2>1, <2>5, <3>1 DEF Finish
  <2>6. CASE s \in missed
    BY <2>1, <2>3, <2>6 DEF RecordOf
  <2>7. CASE s \notin missed
    <3>1. RecordOf(s)
      BY <2>7 DEF Record
    <3>2. StaleImage(s) => \E k \in Jobs : Holds(k, s)' /\ jobs'[k].rebuild
      BY <2>5, <3>1, RecordKept
    <3> QED
      BY <2>1, <2>3, <2>4, <3>2 DEF RecordOf
  <2> QED
    BY <2>6, <2>7
<1>2. ASSUME \A j \in Jobs : ~Recreate(j, s) PROVE RecordOf(s)'
  <2>1. s \notin missed /\ deployed'[s] = deployed[s] /\ built'[s] = built[s]
    <3>1. ASSUME NEW j \in Jobs, NEW x \in Services, Recreate(j, x)
          PROVE  s \notin missed /\ deployed'[s] = deployed[s] /\ built'[s] = built[s]
      <4>1. x # s
        BY <1>2, <3>1
      <4> QED
        BY <3>1, <4>1 DEF Recreate, FromWorkspace, DeploymentTypeOK
    <3>2. ASSUME NEW j \in Jobs, ComposeEnds(j) \/ Reset(j)
          PROVE  s \notin missed /\ deployed'[s] = deployed[s] /\ built'[s] = built[s]
      BY <3>2 DEF ComposeEnds, WavesThrough, Reset
    <3> QED
      BY <3>1, <3>2, Containers
  <2>2. RecordOf(s)
    BY <2>1 DEF Record
  <2>3. ASSUME NEW j \in Jobs, Reset(j) PROVE RecordOf(s)'
    <3>1. ASSUME NEW i \in Jobs, Finish(i) PROVE FALSE
      <4>1. i = j
        BY <2>3, <3>1, Worked, Workable
      <4> QED
        BY <2>3, <3>1, <4>1 DEF Finish, Reset
    <3>2. /\ Stale(s) => \E k \in Jobs : Holds(k, s)'
          /\ StaleImage(s) => \E k \in Jobs : Holds(k, s)' /\ jobs'[k].rebuild
      BY <2>2, <3>1, RecordKept
    <3>3. /\ Stale(s)' => Stale(s) \/ Holds(j, s)'
          /\ StaleImage(s)' => StaleImage(s) \/ (Holds(j, s)' /\ jobs'[j].rebuild)
      BY <2>3, ResetRecords
    <3> QED
      BY <3>2, <3>3 DEF RecordOf
  <2>4. ASSUME UNCHANGED workspace PROVE RecordOf(s)'
    <3>1. (Stale(s)' <=> Stale(s)) /\ (StaleImage(s)' <=> StaleImage(s))
      BY <2>1, <2>4 DEF Stale, StaleImage, Between
    <3>2. CASE \E j \in Jobs : Finish(j) /\ s \in jobs[j].services
      BY <2>1, <2>2, <3>2, FinishKeeps
    <3>3. CASE \A j \in Jobs : Finish(j) => s \notin jobs[j].services
      BY <2>2, <3>1, <3>3, RecordKept DEF RecordOf
    <3> QED
      BY <3>2, <3>3
  <2> QED
    BY <2>3, <2>4, Workspace
<1> QED
  BY <1>1, <1>2

-----------------------------------------------------------------------------
(* The inductive invariant.  What depends on one update at a time is       *)
(* conditional, as it is in the code.                                      *)

Undisturbed ==
  /\ Alone
  /\ \A j \in Jobs : Compared(j) /\ Inherited(j) /\ Brought(j)
DeploymentInv ==
  /\ DeploymentTypeOK /\ JobTable /\ \A j \in Jobs : Carried(j)
  /\ ~robbed => Undisturbed
  /\ ~robbed /\ ~overtaken => HolderIsLatest /\ Record

LEMMA Starts == Init => DeploymentInv
<1> SUFFICES ASSUME Init PROVE DeploymentInv
  OBVIOUS
<1>1. DeploymentTypeOK
  <2>1. NoThread \in ThreadType
    BY DEF NoThread, ThreadType, Places
  <2>2. jobs \in [Jobs -> JobType] /\ thread \in [Jobs -> ThreadType] /\ lock \in LockType
    BY <2>1, NoJobType, FreeType DEF Init
  <2>3. upstream \in 0..Len(Changes) /\ workspace \in 0..upstream
    BY Given DEF Init
  <2>4. deployed \in [Services -> Nat] /\ built \in [Services -> Nat]
    BY DEF Init
  <2>5. robbed \in BOOLEAN /\ overtaken \in BOOLEAN /\ missed \subseteq Services
    BY DEF Init
  <2> QED
    BY <2>2, <2>3, <2>4, <2>5 DEF DeploymentTypeOK
<1>2. \A j \in Jobs : /\ jobs[j] = NoJob /\ jobs[j].status = "absent" /\ thread[j].at = "none"
                     /\ ~thread[j].awaited
  BY DEF Init, NoJob, NoThread
<1>3. JobTable
  BY <1>2 DEF JobTable, Row, Queued, Absent
<1>4. Alone /\ HolderIsLatest
  BY <1>2 DEF Alone, HolderIsLatest, Latest, Working
<1>5. \A j \in Jobs : Carried(j) /\ Compared(j) /\ Inherited(j) /\ Brought(j)
  BY <1>2 DEF Carried, Compared, Inherited, Brought, Working
<1>6. Record
  <2> SUFFICES ASSUME NEW s \in Services PROVE ~Stale(s) /\ ~StaleImage(s)
    BY DEF Record, RecordOf
  <2>1. deployed[s] = workspace /\ built[s] = workspace
    BY DEF Init
  <2> QED
    BY <1>1, <2>1, NotStale
<1> QED
  BY <1>1, <1>3, <1>4, <1>5, <1>6 DEF DeploymentInv, Undisturbed

LEMMA InvStep == DeploymentInv /\ [Next]_vars => DeploymentInv'
<1> SUFFICES ASSUME DeploymentInv, [Next]_vars PROVE DeploymentInv'
  OBVIOUS
<1>1. DeploymentTypeOK /\ JobTable /\ \A j \in Jobs : Carried(j)
  BY DEF DeploymentInv
<1>2. DeploymentTypeOK'
  <2>1. \A j \in Jobs : thread[j].at = "reset" => thread[j].target <= upstream
    BY <1>1 DEF Carried
  <2> QED
    BY <1>1, <2>1, TypeStep
<1>3. JobTable'
  <2>1. \A j \in Jobs : Row(j)'
    BY <1>1, <1>2, RowStays
  <2> QED
    BY <1>1, <2>1, QueuedStays DEF JobTable
<1>4. \A j \in Jobs : Carried(j)'
  BY <1>1, <1>2, CarriedStays
<1>5. ASSUME ~robbed' PROVE Undisturbed'
  <2>1. ~robbed /\ Undisturbed
    BY <1>1, <1>5, RobbedStays DEF DeploymentInv
  <2>2. Alone'
    BY <1>1, <1>5, <2>1, AloneStays DEF Undisturbed
  <2>3. ASSUME NEW j \in Jobs PROVE (Compared(j) /\ Inherited(j) /\ Brought(j))'
    BY <1>1, <2>1, ComparedStays, InheritedStays, BroughtStays DEF Undisturbed
  <2> QED
    BY <2>2, <2>3 DEF Undisturbed
<1>6. ASSUME ~robbed', ~overtaken' PROVE (HolderIsLatest /\ Record)'
  <2>1. Undisturbed /\ HolderIsLatest /\ Record
    BY <1>1, <1>6, RobbedStays DEF DeploymentInv
  <2>2. HolderIsLatest'
    BY <1>1, <1>6, <2>1, HolderIsLatestStays
  <2>3. Record'
    BY <1>1, <1>2, <2>1, RecordStays DEF Undisturbed
  <2> QED
    BY <2>2, <2>3
<1> QED
  BY <1>2, <1>3, <1>4, <1>5, <1>6 DEF DeploymentInv


(* What an update may rely on at every step of it: the lock is its own, what *)
(* it compared is still in place, and whatever has not been rebuilt is in    *)
(* the list of an update that comes back to it (update_service.py), as long  *)
(* as no operation has been robbed of the lock.                              *)
THEOREM DeploymentInvariant == Spec => []DeploymentInv
BY Starts, InvStep, PTL DEF Spec

(* Revisions, containers, rows, threads and the lock keep their types        *)
(* through every update, failure and restart (update_service.py).            *)
THEOREM TypeCorrect == Spec => []DeploymentTypeOK
<1>1. DeploymentInv => DeploymentTypeOK
  BY DEF DeploymentInv
<1> QED
  BY <1>1, DeploymentInvariant, PTL

(* Two updates work at once only if one of them was robbed of the lock       *)
(* (job_service.py).                                                         *)
THEOREM OneAtATime == Spec => [](~robbed => Alone)
<1>1. DeploymentInv => (~robbed => Alone)
  BY DEF DeploymentInv, Undisturbed
<1> QED
  BY <1>1, DeploymentInvariant, PTL

(* A service that runs older source than the workspace, or an older image,   *)
(* is found by the next update among those pending, or is in the list of one *)
(* that has not ended (_pending_update_services).                            *)
THEOREM NothingForgotten == Spec => []StaleIsOnRecord
<1>1. DeploymentInv => StaleIsOnRecord
  <2> SUFFICES ASSUME DeploymentInv, ~robbed, ~overtaken, NEW s \in Services, s \notin missed
               PROVE  /\ Stale(s) => Known(s)
                      /\ StaleImage(s) => /\ Known(s)
                                         /\ \/ PendingRebuild(MaxJobs + 1)
                                            \/ \E j \in Jobs : Active(j) /\ jobs[j].rebuild
    BY DEF StaleIsOnRecord
  <2>1. RecordOf(s)
    BY DEF DeploymentInv, Record
  <2>2. ASSUME NEW k \in Jobs, Holds(k, s)
        PROVE  \/ Active(k) /\ s \in jobs[k].services
               \/ k \in 1..((MaxJobs + 1) - 1) /\ s \in Outstanding(k, MaxJobs + 1)
    <3>1. CASE FailedWith(k, s)
      <4>1. \A c \in (k + 1)..((MaxJobs + 1) - 1) : c \in Jobs /\ c > k
        BY Given DEF Jobs
      <4>2. k \in 1..((MaxJobs + 1) - 1)
        BY Given DEF Jobs
      <4> QED
        BY <3>1, <4>1, <4>2 DEF FailedWith, Outstanding
    <3> QED
      BY <2>2, <3>1 DEF Holds
  <2>3. ASSUME NEW k \in Jobs, Holds(k, s) PROVE Known(s)
    BY <2>2, <2>3 DEF Known, Pending
  <2>4. ASSUME NEW k \in Jobs, Holds(k, s), jobs[k].rebuild
        PROVE  PendingRebuild(MaxJobs + 1) \/ \E j \in Jobs : Active(j) /\ jobs[j].rebuild
    BY <2>2, <2>4 DEF PendingRebuild
  <2> QED
    BY <2>1, <2>3, <2>4 DEF RecordOf
<1> QED
  BY <1>1, DeploymentInvariant, PTL

(* The workspace never goes back to an older revision (git reset --hard in   *)
(* run_apply_update_job_from_updater).                                       *)
THEOREM OnlyForward == Spec => NoDowngrade
<1>1. DeploymentInv /\ [Next]_vars => workspace' >= workspace \/ robbed'
  BY MovesOn DEF DeploymentInv, Undisturbed
<1> QED
  BY <1>1, DeploymentInvariant, PTL DEF Spec, NoDowngrade

-----------------------------------------------------------------------------
(* Migrations: how a database looks. A shape names rows and columns that a *)
(* database must have, and the tables that may at most cascade from others;*)
(* proofs about a script of statements go from shape to shape.             *)

(* What the first n migrations promise, and what all of them do together.  *)
Promised(n) == UNION {Promises[k] : k \in 1..n}
Kept == Promised(Newest)
(* The references that delete with their parent, and the tables a rebuild  *)
(* may leave behind half done.                                             *)
Hanging == {"party_room_queue_items", "party_room_federated_peers"} \X {"party_rooms"}
Spare == {"track_delete_requests_v2", "party_rooms_v2", "party_room_queue_items_v2"}

(* A shape: rows and columns a database must have, and all the references  *)
(* it may have.  A database fits when it is well formed and within it.     *)
Shape(X, P, R) == [cells |-> X, cols |-> P, refs |-> R]
Fits(d, shape) ==
  /\ IsDatabase(d) /\ Based(d)
  /\ shape.cells \subseteq d.cells /\ shape.cols \subseteq d.cols /\ d.refs \subseteq shape.refs

(* The shape a transaction starts and ends in.                             *)
Home(C, P) == Shape(C, P, Hanging)

(* Rows of the other tables; rows moved to a table's new name; that name.  *)
Besides(X, t) == {x \in X : x[1] # t}
Moved(X, t, to) == {<<to, x[2], x[3]>> : x \in {y \in X : y[1] = t}}
Named(u, t, to) == IF u = t THEN to ELSE u

LEMMA FitsShape ==
  ASSUME NEW d, NEW X, NEW P, NEW R
  PROVE  Fits(d, Shape(X, P, R)) <=> /\ IsDatabase(d) /\ Based(d)
                                     /\ X \subseteq d.cells /\ P \subseteq d.cols /\ d.refs
                                          \subseteq R
BY DEF Fits, Shape

LEMMA FitsWeaker ==
  ASSUME NEW X, NEW Y, NEW P, NEW Q, NEW R, NEW S, Y \subseteq X, Q \subseteq P, R \subseteq S,
         NEW d, Fits(d, Shape(X, P, R))
  PROVE  Fits(d, Shape(Y, Q, S))
BY FitsShape

LEMMA IsDatabaseFrom ==
  ASSUME NEW d, NEW cols, NEW cells, NEW refs, NEW names,
         d = [cols |-> cols, cells |-> cells, refs |-> refs, names |-> names],
         \A c \in cols \union refs : c = <<c[1], c[2]>>,
         \A x \in cells : x = <<x[1], x[2], x[3]>> /\ x[3] \in Rows,
         names \subseteq 1..Newest
  PROVE  IsDatabase(d) /\ d.cols = cols /\ d.cells = cells /\ d.refs = refs /\ d.names = names
BY DEF IsDatabase

LEMMA BaseHasId == \A t : "id" \in Base(t)
BY DEF Base

(* What one statement does.                                                *)

LEMMA ExecutedCopy ==
  ASSUME NEW d, NEW t, NEW to, IsDatabase(d)
  PROVE  Executed(d, Copy(t, to)) =
           [cols |-> d.cols, cells |-> d.cells \union Moved(d.cells, t, to),
            refs |-> d.refs, names |-> d.names]
<1>1. Executed(d, Copy(t, to)) = [d EXCEPT !.cells = @ \union Moved(@, t, to)]
  BY DEF Executed, Copy, Statement, Moved
<1> QED
  BY <1>1 DEF IsDatabase

LEMMA ExecutedDrop ==
  ASSUME NEW d, NEW t, IsDatabase(d)
  PROVE  Dropped(d, t) =
           [cols |-> Besides(d.cols, t), cells |-> {x \in d.cells :
             x[1] # t /\ <<x[1], t>> \notin d.refs},
            refs |-> Besides(d.refs, t), names |-> d.names]
<1>1. Dropped(d, t) = [d EXCEPT !.cols = Besides(@, t),
                                !.cells = {x \in @ : x[1] # t /\ <<x[1], t>> \notin d.refs},
                                !.refs = Besides(@, t)]
  BY DEF Dropped, Besides
<1> QED
  BY <1>1 DEF IsDatabase

LEMMA ExecutedRename ==
  ASSUME NEW d, NEW t, NEW to, IsDatabase(d)
  PROVE  Executed(d, Rename(t, to)) =
           [cols |-> {<<Named(c[1], t, to), c[2]>> : c \in d.cols},
            cells |-> {<<Named(x[1], t, to), x[2], x[3]>> : x \in d.cells},
            refs |-> {<<Named(r[1], t, to), Named(r[2], t, to)>> : r \in d.refs}, names |-> d.names]
<1> DEFINE cols == {<<Named(c[1], t, to), c[2]>> : c \in d.cols}
           cells == {<<Named(x[1], t, to), x[2], x[3]>> : x \in d.cells}
           refs == {<<Named(r[1], t, to), Named(r[2], t, to)>> : r \in d.refs}
<1>1. Executed(d, Rename(t, to)) = [d EXCEPT !.cols = cols, !.cells = cells, !.refs = refs]
  BY DEF Executed, Rename, Statement, Named
<1> HIDE DEF cols, cells, refs
<1> QED
  BY <1>1 DEF IsDatabase, cols, cells, refs

LEMMA CopyShape ==
  ASSUME NEW X, NEW P, NEW R, NEW d, Fits(d, Shape(X, P, R)), NEW t, NEW to
  PROVE  Fits(Executed(d, Copy(t, to)), Shape(X \union Moved(X, t, to), P, R))
<1> DEFINE e == Executed(d, Copy(t, to))
<1>0. IsDatabase(d) /\ Based(d) /\ X \subseteq d.cells /\ P \subseteq d.cols /\ d.refs \subseteq R
  BY FitsShape
<1>1. /\ IsDatabase(e) /\ e.cols = d.cols /\ e.refs = d.refs
      /\ e.cells = d.cells \union Moved(d.cells, t, to)
  BY <1>0, ExecutedCopy, IsDatabaseFrom DEF IsDatabase, Moved
<1>3. X \union Moved(X, t, to) \subseteq e.cells
  BY <1>0, <1>1 DEF Moved
<1>4. Based(e)
  BY <1>0, <1>1 DEF Based
<1> QED
  BY <1>0, <1>1, <1>3, <1>4, FitsShape

LEMMA DropShape ==
  ASSUME NEW X, NEW P, NEW R, NEW d, Fits(d, Shape(X, P, R)), NEW t
  PROVE  Fits(Dropped(d, t),
              Shape({x \in X : x[1] # t /\ <<x[1], t>> \notin R}, Besides(P, t), Besides(R, t)))
<1> DEFINE e == Dropped(d, t)
<1>0. IsDatabase(d) /\ Based(d) /\ X \subseteq d.cells /\ P \subseteq d.cols /\ d.refs \subseteq R
  BY FitsShape
<1>1. /\ IsDatabase(e) /\ e.cols = Besides(d.cols, t) /\ e.refs = Besides(d.refs, t)
      /\ e.cells = {x \in d.cells : x[1] # t /\ <<x[1], t>> \notin d.refs}
  <2>1. e = [cols |-> Besides(d.cols, t), refs |-> Besides(d.refs, t), names |-> d.names,
             cells |-> {x \in d.cells : x[1] # t /\ <<x[1], t>> \notin d.refs}]
    BY <1>0, ExecutedDrop
  <2>2. /\ \A c \in Besides(d.cols, t) \union Besides(d.refs, t) : c = <<c[1], c[2]>>
        /\ \A x \in d.cells : x = <<x[1], x[2], x[3]>> /\ x[3] \in Rows
        /\ d.names \subseteq 1..Newest
    BY <1>0 DEF IsDatabase, Besides
  <2> QED
    BY <2>1, <2>2 DEF IsDatabase
<1>3. Based(e)
  BY <1>0, <1>1 DEF Based, Besides, Table
<1> QED
  <2>1. /\ {x \in X : x[1] # t /\ <<x[1], t>> \notin R} \subseteq e.cells
        /\ Besides(P, t) \subseteq e.cols /\ e.refs \subseteq Besides(R, t)
    BY <1>0, <1>1 DEF Besides
  <2> QED
    BY <1>1, <1>3, <2>1, FitsShape

LEMMA RenameShape ==
  ASSUME NEW X, NEW P, NEW R, NEW d, Fits(d, Shape(X, P, R)), NEW t, NEW to,
         Base(to) \subseteq Base(t), ~Refused(d, Rename(t, to))
  PROVE  Fits(Executed(d, Rename(t, to)),
              Shape({<<Named(x[1], t, to), x[2], x[3]>> : x \in X},
                    {<<Named(c[1], t, to), c[2]>> : c \in P \union Table(t)},
                    {<<Named(r[1], t, to), Named(r[2], t, to)>> : r \in R}))
<1> DEFINE e == Executed(d, Rename(t, to))
<1>0. IsDatabase(d) /\ Based(d) /\ X \subseteq d.cells /\ P \subseteq d.cols /\ d.refs \subseteq R
  BY FitsShape
<1>1. /\ IsDatabase(e)
      /\ e.cols = {<<Named(c[1], t, to), c[2]>> : c \in d.cols}
      /\ e.cells = {<<Named(x[1], t, to), x[2], x[3]>> : x \in d.cells}
      /\ e.refs = {<<Named(r[1], t, to), Named(r[2], t, to)>> : r \in d.refs}
  BY <1>0, ExecutedRename, IsDatabaseFrom DEF IsDatabase
<1>3. <<t, "id">> \in d.cols /\ <<to, "id">> \notin d.cols
  BY DEF Refused, Rename, Statement, Exists
<1>4. Table(t) \subseteq d.cols
  BY <1>0, <1>3 DEF Based
<1>5. Based(e)
  <2> SUFFICES ASSUME NEW c \in d.cols, c[2] = "id", NEW b \in Base(Named(c[1], t, to))
               PROVE  <<Named(c[1], t, to), b>> \in e.cols
    BY <1>1 DEF Based, Table
  <2>1. CASE c[1] = t
    <3>1. <<t, b>> \in d.cols
      BY <2>1, <1>4 DEF Named, Table
    <3> QED
      BY <3>1, <2>1, <1>1 DEF Named
  <2>2. CASE c[1] # t
    <3>1. <<c[1], b>> \in d.cols
      BY <2>2, <1>0 DEF Named, Based, Table
    <3> QED
      BY <3>1, <2>2, <1>1 DEF Named
  <2> QED
    BY <2>1, <2>2
<1>7. {<<Named(c[1], t, to), c[2]>> : c \in P \union Table(t)} \subseteq e.cols
  BY <1>0, <1>1, <1>4
<1> QED
  BY <1>0, <1>1, <1>5, <1>7, FitsShape

-----------------------------------------------------------------------------
(* What each migration promises, one lemma per migration, so that no other *)
(* proof expands the list; and that no promise is about a table or a column*)
(* that another migration drops.                                           *)

LEMMA BaseSwaps ==
  /\ Base("track_delete_requests") \subseteq Base("track_delete_requests_v2")
  /\ "user_seen_at" \in Base("track_delete_requests_v2")
  /\ Base("party_rooms")
       \subseteq Base("party_rooms_v2") /\ "admits_loading" \in Base("party_rooms_v2")
  /\ Base("party_room_queue_items") \subseteq Base("party_room_queue_items_v2")
  /\ Base("playlist_items") \subseteq Base("playlist_items_federated")
  /\ ListedIn(FederatedColumns) \subseteq Base("playlist_items_federated")
  /\ Base("users") = {"id", "username"}
BY DEF Base, Columns

(* The tables that some migration rebuilds, and those it rebuilds them as. *)
Rebuilt == {"track_delete_requests", "playlist_items", "party_rooms", "party_room_queue_items",
  "users",
            "trg_playlist_clear_download_jobs", "trg_track_cleanup_references"}
Copies == Spare \union {"playlist_items_federated"}

(* Column c outlives every migration after k: no rebuild leaves it out.    *)
Confined(c, k) ==
  /\ c = <<c[1], c[2]>>
  /\ c[1] \notin Copies /\ c # <<"users", "theme_next">>
  /\ c[1] = "track_delete_requests" => c[2] \in Base("track_delete_requests_v2")
  /\ c[1] = "playlist_items" => c[2] \in Base("playlist_items_federated")
  /\ k <= 26 /\ c[1] = "party_rooms" => c[2] \in Base("party_rooms_v2")
  /\ k <= 26 /\ c[1] = "party_room_queue_items" => c[2] \in Base("party_room_queue_items_v2")
  /\ c[1] \in {"trg_playlist_clear_download_jobs", "trg_track_cleanup_references"}
       => c[2] \in Base(c[1])

LEMMA ConfinedPlain ==
  ASSUME NEW t, NEW x, NEW k, t \notin Copies, t \notin Rebuilt
  PROVE  Confined(<<t, x>>, k)
BY DEF Confined, Rebuilt

LEMMA ConfinedTable ==
  ASSUME NEW t, t \notin Copies, NEW k
  PROVE  \A c \in Table(t) : Confined(c, k)
<1> SUFFICES ASSUME NEW x \in Base(t) PROVE Confined(<<t, x>>, k)
  BY DEF Table
<1>1. CASE t \notin Rebuilt
  BY <1>1, ConfinedPlain
<1>2. CASE t = "users"
  BY <1>2, BaseSwaps DEF Confined
<1>3. CASE t \in Rebuilt /\ t # "users"
  BY <1>3, BaseSwaps DEF Confined, Rebuilt
<1> QED
  BY <1>1, <1>2, <1>3

LEMMA ConfinedTables ==
  ASSUME NEW T, T \intersect Copies = {}, NEW k
  PROVE  \A c \in Tables(T) : Confined(c, k)
BY ConfinedTable DEF Tables

LEMMA ConfinedFields ==
  ASSUME NEW t, t \notin Copies, NEW N, NEW k, t \notin Rebuilt
  PROVE  \A c \in Fields(t, N) : Confined(c, k)
BY ConfinedPlain DEF Fields

LEMMA ConfinedEach ==
  ASSUME NEW t, NEW N, NEW k, \A x \in N : Confined(<<t, x>>, k)
  PROVE  \A c \in Fields(t, N) : Confined(c, k)
BY DEF Fields

LEMMA ConfinedRebuilt ==
  ASSUME NEW k
  PROVE  /\ \A N : "theme_next" \notin N => \A c \in Fields("users", N) : Confined(c, k)
         /\ \A c \in Fields("track_delete_requests", {"user_seen_at"}) : Confined(c, k)
         /\ \A c \in Fields("playlist_items", ListedIn(FederatedColumns)) : Confined(c, k)
         /\ \A c \in Fields("party_rooms", {"admits_loading"}) : Confined(c, k)
<1>1. Rebuilt \intersect Copies = {}
  BY DEF Rebuilt, Copies, Spare
<1>2. ASSUME NEW N, "theme_next" \notin N PROVE \A c \in Fields("users", N) : Confined(c, k)
  BY <1>1, <1>2 DEF Fields, Confined, Rebuilt
<1>3. \A c \in Fields("track_delete_requests", {"user_seen_at"}) : Confined(c, k)
  <2>1. \A x \in {"user_seen_at"} : Confined(<<"track_delete_requests", x>>, k)
    BY BaseSwaps DEF Confined, Copies, Spare
  <2> QED
    BY <2>1, ConfinedEach
<1>4. \A c \in Fields("playlist_items", ListedIn(FederatedColumns)) : Confined(c, k)
  <2>1. \A x \in ListedIn(FederatedColumns) : Confined(<<"playlist_items", x>>, k)
    BY BaseSwaps DEF Confined, Copies, Spare
  <2> QED
    BY <2>1, ConfinedEach
<1>5. \A c \in Fields("party_rooms", {"admits_loading"}) : Confined(c, k)
  <2>1. \A x \in {"admits_loading"} : Confined(<<"party_rooms", x>>, k)
    BY BaseSwaps DEF Confined, Copies, Spare
  <2> QED
    BY <2>1, ConfinedEach
<1> QED
  BY <1>2, <1>3, <1>4, <1>5

LEMMA ConfinedRooms ==
  ASSUME NEW k, ~(k <= 26), NEW N, NEW t \in {"party_rooms", "party_room_queue_items"}
  PROVE  \A c \in Fields(t, N) : Confined(c, k)
<1>1. \A x : Confined(<<t, x>>, k)
  BY DEF Confined, Copies, Spare
<1> QED
  BY <1>1 DEF Fields

LEMMA Promise1 == Promises[1] = Tables({"users", "download_settings", "tracks", "user_playlists",
  "playlist_tracks", "download_jobs", "token_blacklist"})
BY DEF Promises
LEMMA Promise2 == Promises[2] = Fields("tracks", {"duration", "filepath", "source_id", "file_hash",
  "source_provider"})
BY DEF Promises
LEMMA Promise3 == Promises[3] = Table("user_favorites")
BY DEF Promises
LEMMA Promise4 == Promises[4] = Fields("download_settings",
  {"lastfm_api_key", "lastfm_shared_secret", "youtube_cookies", "metadata_preferences"})
BY DEF Promises
LEMMA Promise5 == Promises[5] = Tables({"playlists", "playlist_items"})
BY DEF Promises
LEMMA Promise6 == Promises[6] = Table("system_settings")
BY DEF Promises
LEMMA Promise7 == Promises[7] = Tables({"admin_jobs", "admin_operation_locks", "backup_artifacts"})
BY DEF Promises
LEMMA Promise8 == Promises[8] = Fields("system_settings", {"autobackup_timezone"})
BY DEF Promises
LEMMA Promise9 == Promises[9] = Fields("system_settings", {"update_state_json"})
BY DEF Promises
LEMMA Promise10 == Promises[10] = {}
BY DEF Promises
LEMMA Promise11 == Promises[11] = Fields("playlists", {"cover_path", "cover_track_id"})
BY DEF Promises
LEMMA Promise12 == Promises[12] = Fields("tracks",
  {"artist_norm", "title_norm", "version_tag", "fingerprint"})
BY DEF Promises
LEMMA Promise13 == Promises[13] = Fields("download_jobs", {"requested_title", "requested_source"})
BY DEF Promises
LEMMA Promise14 == Promises[14] = Fields("download_jobs", {"target_modern_playlist_id"})
BY DEF Promises
LEMMA Promise15 == Promises[15] = {}
BY DEF Promises
LEMMA Promise16 == Promises[16] = Table("playback_queue_states")
  \union Fields("download_jobs", {"original_input_url", "requested_artist", "requested_album",
    "resolution_mode", "resolved_title", "resolved_artist", "resolved_album", "resolved_track_id",
      "resolved_track_count", "engine_used", "fallback_reason", "error_type"})
BY DEF Promises
LEMMA Promise17 == Promises[17] = Fields("system_settings",
  {"wrapped_enabled", "wrapped_visible_from", "wrapped_visible_until",
    "wrapped_artist_clip_message"})
BY DEF Promises
LEMMA Promise18 == Promises[18] = Table("track_delete_requests")
BY DEF Promises
LEMMA Promise19 == Promises[19] = Fields("track_delete_requests", {"user_seen_at"})
BY DEF Promises
LEMMA Promise20 == Promises[20] = Fields("users", {"is_service_account"})
  \union Tables({"federated_instances", "federated_tracks"})
BY DEF Promises
LEMMA Promise21 == Promises[21] = Table("federation_outbound_peers")
BY DEF Promises
LEMMA Promise22 == Promises[22] = Fields("federation_outbound_peers", {"token_prefix"})
BY DEF Promises
LEMMA Promise23 == Promises[23] = Fields("tracks", {"genre", "year", "metadata_scanned_at"})
  \union Fields("playlists", {"smart_rules_json", "smart_updated_at"})
BY DEF Promises
LEMMA Promise24 == Promises[24] = Fields("users", {"session_version"})
BY DEF Promises
LEMMA Promise25 == Promises[25] = Tables({"party_rooms", "party_room_queue_items"})
BY DEF Promises
LEMMA Promise26 == Promises[26] = Fields("party_rooms", {"admits_loading"})
BY DEF Promises
LEMMA Promise27 == Promises[27] = Fields("tracks", {"gain_db", "peak", "loudness_measured_at"})
BY DEF Promises
LEMMA Promise28 == Promises[28] = Fields("playback_queue_states", {"volume"})
BY DEF Promises
LEMMA Promise29 == Promises[29] = Fields("system_settings", {"downloader_mode"})
BY DEF Promises
LEMMA Promise30 == Promises[30] = Tables({"trg_playlist_clear_download_jobs",
  "trg_track_cleanup_references"})
BY DEF Promises
LEMMA Promise31 == Promises[31] = Fields("playlists", {"is_collaborative", "revision"})
  \union Table("playlist_collaborators")
BY DEF Promises
LEMMA Promise32 == Promises[32] = Fields("party_rooms", {"is_federated"})
  \union Table("party_room_federated_peers") \union Fields("party_room_queue_items",
    {"fed_instance_id", "fed_remote_id", "remote_title", "remote_artist", "remote_album",
      "remote_duration", "remote_thumbnail"})
BY DEF Promises
LEMMA Promise33 == Promises[33] = Fields("playlists", {"kind"})
  \union Fields("download_jobs", {"target_position"})
BY DEF Promises
LEMMA Promise34 == Promises[34] = Fields("playlists",
  {"source_instance_id", "source_remote_playlist_id"})
    \union Fields("playlist_items", ListedIn(FederatedColumns))
      \union Table("federated_playlist_collaborators")
BY DEF Promises
LEMMA Promise35 == Promises[35] = Fields("users", {"theme"})
BY DEF Promises
LEMMA Promise36 == Promises[36] = Fields("users", {"theme"})
BY DEF Promises
LEMMA Promise37 == Promises[37] = Table("native_collection_operations")
BY DEF Promises
LEMMA Promise38 == Promises[38] = Fields("users", {"native_account_id"})
BY DEF Promises

LEMMA PromisesConfined ==
  ASSUME NEW k \in 1..Newest
  PROVE  \A c \in Promises[k] : Confined(c, k)
<1>1. \A c \in Promises[1] : Confined(c, 1)
  BY Promise1, ConfinedTables DEF Copies, Spare, Rebuilt
<1>2. \A c \in Promises[2] : Confined(c, 2)
  BY Promise2, ConfinedFields DEF Copies, Spare, Rebuilt
<1>3. \A c \in Promises[3] : Confined(c, 3)
  BY Promise3, ConfinedTable DEF Copies, Spare, Rebuilt
<1>4. \A c \in Promises[4] : Confined(c, 4)
  BY Promise4, ConfinedFields DEF Copies, Spare, Rebuilt
<1>5. \A c \in Promises[5] : Confined(c, 5)
  BY Promise5, ConfinedTables DEF Copies, Spare, Rebuilt
<1>6. \A c \in Promises[6] : Confined(c, 6)
  BY Promise6, ConfinedTable DEF Copies, Spare, Rebuilt
<1>7. \A c \in Promises[7] : Confined(c, 7)
  BY Promise7, ConfinedTables DEF Copies, Spare, Rebuilt
<1>8. \A c \in Promises[8] : Confined(c, 8)
  BY Promise8, ConfinedFields DEF Copies, Spare, Rebuilt
<1>9. \A c \in Promises[9] : Confined(c, 9)
  BY Promise9, ConfinedFields DEF Copies, Spare, Rebuilt
<1>10. \A c \in Promises[10] : Confined(c, 10)
  BY Promise10
<1>11. \A c \in Promises[11] : Confined(c, 11)
  BY Promise11, ConfinedFields DEF Copies, Spare, Rebuilt
<1>12. \A c \in Promises[12] : Confined(c, 12)
  BY Promise12, ConfinedFields DEF Copies, Spare, Rebuilt
<1>13. \A c \in Promises[13] : Confined(c, 13)
  BY Promise13, ConfinedFields DEF Copies, Spare, Rebuilt
<1>14. \A c \in Promises[14] : Confined(c, 14)
  BY Promise14, ConfinedFields DEF Copies, Spare, Rebuilt
<1>15. \A c \in Promises[15] : Confined(c, 15)
  BY Promise15 DEF Copies, Spare, Rebuilt
<1>16. \A c \in Promises[16] : Confined(c, 16)
  BY Promise16, ConfinedTable, ConfinedFields DEF Copies, Spare, Rebuilt
<1>17. \A c \in Promises[17] : Confined(c, 17)
  BY Promise17, ConfinedFields DEF Copies, Spare, Rebuilt
<1>18. \A c \in Promises[18] : Confined(c, 18)
  BY Promise18, ConfinedTable DEF Copies, Spare, Rebuilt
<1>19. \A c \in Promises[19] : Confined(c, 19)
  BY Promise19, ConfinedRebuilt DEF Copies, Spare, Rebuilt
<1>20. \A c \in Promises[20] : Confined(c, 20)
  BY Promise20, ConfinedTables, ConfinedRebuilt DEF Copies, Spare, Rebuilt
<1>21. \A c \in Promises[21] : Confined(c, 21)
  BY Promise21, ConfinedTable DEF Copies, Spare, Rebuilt
<1>22. \A c \in Promises[22] : Confined(c, 22)
  BY Promise22, ConfinedFields DEF Copies, Spare, Rebuilt
<1>23. \A c \in Promises[23] : Confined(c, 23)
  BY Promise23, ConfinedFields DEF Copies, Spare, Rebuilt
<1>24. \A c \in Promises[24] : Confined(c, 24)
  BY Promise24, ConfinedRebuilt DEF Copies, Spare, Rebuilt
<1>25. \A c \in Promises[25] : Confined(c, 25)
  BY Promise25, ConfinedTables DEF Copies, Spare, Rebuilt
<1>26. \A c \in Promises[26] : Confined(c, 26)
  BY Promise26, ConfinedRebuilt DEF Copies, Spare, Rebuilt
<1>27. \A c \in Promises[27] : Confined(c, 27)
  BY Promise27, ConfinedFields DEF Copies, Spare, Rebuilt
<1>28. \A c \in Promises[28] : Confined(c, 28)
  BY Promise28, ConfinedFields DEF Copies, Spare, Rebuilt
<1>29. \A c \in Promises[29] : Confined(c, 29)
  BY Promise29, ConfinedFields DEF Copies, Spare, Rebuilt
<1>30. \A c \in Promises[30] : Confined(c, 30)
  BY Promise30, ConfinedTables DEF Copies, Spare, Rebuilt
<1>31. \A c \in Promises[31] : Confined(c, 31)
  BY Promise31, ConfinedTable, ConfinedFields DEF Copies, Spare, Rebuilt
<1>32. \A c \in Promises[32] : Confined(c, 32)
  <2>1. \A N : \A t \in {"party_rooms", "party_room_queue_items"} :
          \A c \in Fields(t, N) : Confined(c, 32)
    BY ConfinedRooms
  <2>2. \A c \in Table("party_room_federated_peers") : Confined(c, 32)
    BY ConfinedTable DEF Copies, Spare
  <2> QED
    BY <2>1, <2>2, Promise32
<1>33. \A c \in Promises[33] : Confined(c, 33)
  BY Promise33, ConfinedFields DEF Copies, Spare, Rebuilt
<1>34. \A c \in Promises[34] : Confined(c, 34)
  BY Promise34, ConfinedTable, ConfinedRebuilt, ConfinedFields DEF Copies, Spare, Rebuilt
<1>35. \A c \in Promises[35] : Confined(c, 35)
  BY Promise35, ConfinedRebuilt DEF Copies, Spare, Rebuilt
<1>36. \A c \in Promises[36] : Confined(c, 36)
  BY Promise36, ConfinedRebuilt DEF Copies, Spare, Rebuilt
<1>37. \A c \in Promises[37] : Confined(c, 37)
  BY Promise37, ConfinedTable DEF Copies, Spare, Rebuilt
<1>38. \A c \in Promises[38] : Confined(c, 38)
  BY Promise38, ConfinedRebuilt DEF Copies, Spare, Rebuilt
<1> QED
  BY <1>1, <1>2, <1>3, <1>4, <1>5, <1>6, <1>7, <1>8, <1>9, <1>10, <1>11, <1>12, <1>13, <1>14,
       <1>15, <1>16, <1>17, <1>18, <1>19, <1>20, <1>21, <1>22, <1>23, <1>24, <1>25, <1>26, <1>27,
         <1>28, <1>29, <1>30, <1>31, <1>32, <1>33, <1>34, <1>35, <1>36, <1>37, <1>38 DEF Newest

-----------------------------------------------------------------------------
(* Statements that are safe outside a transaction: each takes no row and no*)
(* promised column away.                                                   *)

IsPrecious(C) == \A x \in C : x = <<x[1], x[2], x[3]>> /\ <<x[1], x[2]>> \in Valued

(* The statements that take no row and no promised column away. *)
Grows(s) ==
  \/ /\ s.op \in {"create", "createnew"} /\ Base(s.table) \subseteq s.cols
     /\ s.to = "none" \/ <<s.table, s.to>> \in Hanging
  \/ s.op \in {"add", "index", "adopt", "update", "skip"}

ThemeBack == RenameColumn("users", "theme_next", "theme")

(* A statement that adds, drops a leftover copy or renames theme_next: it  *)
(* takes nothing a migration on record has promised.                       *)
Mild(s) == Grows(s) \/ (s.op = "dropif" /\ s.table \in Copies) \/ s = ThemeBack

(* The promised columns a statement leaves in place whatever was there.    *)
Provided(s) == Kept \intersect
  (CASE s.op = "create" -> Table(s.table)
     [] s.op = "add" -> {s.table} \X s.cols
     [] s.op = "rename" -> {s.to} \X Base(s.table)
     [] s.op = "renamecolumn" -> {<<s.table, s.to>>}
     [] OTHER -> {})

LEMMA KeptConfined == \A c \in Kept : \E k \in 1..Newest : c \in Promises[k] /\ Confined(c, k)
BY PromisesConfined DEF Kept, Promised

LEMMA ExecutedNames ==
  ASSUME NEW d, IsDatabase(d), NEW s
  PROVE  Executed(d, s).names = d.names \union (IF s.op = "register" THEN s.cols ELSE {})
BY DEF Executed, IsDatabase, Dropped

LEMMA Pairs ==
  /\ \A a, b : <<a, b>> = <<<<a, b>>[1], <<a, b>>[2]>>
  /\ \A A, B : \A c \in A \X B : c = <<c[1], c[2]>>
<1>1. ASSUME NEW A, NEW B, NEW c \in A \X B PROVE c = <<c[1], c[2]>>
  <2>1. PICK a \in A, b \in B : c = <<a, b>>
    OBVIOUS
  <2> QED
    BY <2>1
<1> QED
  BY <1>1

LEMMA CreateKeeps ==
  ASSUME NEW X, NEW P, NEW R, NEW d, Fits(d, Shape(X, P, R)), NEW s,
         s.op \in {"create", "createnew"}, Base(s.table) \subseteq s.cols,
         s.to = "none" \/ <<s.table, s.to>> \in R
  PROVE  Fits(Executed(d, s), Shape(X, P \union Table(s.table), R))
<1> DEFINE e == Executed(d, s)
           refs == d.refs \union (IF s.to = "none" THEN {} ELSE {<<s.table, s.to>>})
<1>0. IsDatabase(d) /\ Based(d) /\ X \subseteq d.cells /\ P \subseteq d.cols /\ d.refs \subseteq R
  BY FitsShape
<1>1. CASE Exists(d, s.table)
  <2>1. e = d
    BY <1>1 DEF Executed
  <2>2. Table(s.table) \subseteq d.cols
    BY <1>1, <1>0 DEF Exists, Based
  <2>3. P \union Table(s.table) \subseteq d.cols
    BY <1>0, <2>2
  <2>4. Fits(d, Shape(X, P \union Table(s.table), R))
    BY <1>0, <2>3, FitsShape
  <2> QED
    BY <2>1, <2>4
<1>2. CASE ~Exists(d, s.table)
  <2>1. e = [d EXCEPT !.cols = @ \union ({s.table} \X s.cols),
                      !.refs = @ \union (IF s.to = "none" THEN {} ELSE {<<s.table, s.to>>})]
    BY <1>2 DEF Executed
  <2>2. e = [cols |-> d.cols \union ({s.table} \X s.cols), cells |-> d.cells, refs |-> refs,
             names |-> d.names]
    BY <1>0, <2>1 DEF IsDatabase
  <2>3. /\ \A c \in d.cols \union d.refs : c = <<c[1], c[2]>>
        /\ \A x \in d.cells : x = <<x[1], x[2], x[3]>> /\ x[3] \in Rows
        /\ d.names \subseteq 1..Newest
    BY <1>0 DEF IsDatabase
  <2>8. \A c \in {s.table} \X s.cols : c = <<c[1], c[2]>>
    BY Pairs
  <2>9. \A c \in refs : c \in d.refs \/ c = <<s.table, s.to>>
    OBVIOUS
  <2>10. \A c \in refs : c = <<c[1], c[2]>>
    <3> SUFFICES ASSUME NEW c \in refs PROVE c = <<c[1], c[2]>>
      OBVIOUS
    <3>1. CASE c \in d.refs
      BY <3>1, <2>3
    <3>2. CASE c = <<s.table, s.to>>
      BY <3>2, Pairs
    <3> QED
      BY <3>1, <3>2, <2>9
  <2> HIDE DEF refs
  <2>4. /\ IsDatabase(e) /\ e.cols = d.cols \union ({s.table} \X s.cols) /\ e.cells = d.cells
        /\ e.refs = refs
    <3> DEFINE cols == d.cols \union ({s.table} \X s.cols)
    <3>1. \A c \in cols \union refs : c = <<c[1], c[2]>>
      BY <2>3, <2>8, <2>10
    <3> HIDE DEF cols
    <3>2. e = [cols |-> cols, cells |-> d.cells, refs |-> refs, names |-> d.names]
      BY <2>2 DEF cols
    <3>4. /\ e.cols = cols /\ e.cells = d.cells /\ e.refs = refs /\ e.names = d.names
          /\ e = [cols |-> e.cols, cells |-> e.cells, refs |-> e.refs, names |-> e.names]
      BY <3>2
    <3>3. IsDatabase(e) /\ e.cols = cols /\ e.cells = d.cells /\ e.refs = refs
      BY <2>3, <3>1, <3>4 DEF IsDatabase
    <3> QED
      BY <3>3 DEF cols
  <2>5. Table(s.table) \subseteq e.cols
    BY <2>4 DEF Table
  <2>6. Based(e)
    BY <1>0, <2>4, <2>5 DEF Based
  <2>7. refs \subseteq R
    BY <1>0 DEF refs
  <2>11. P \union Table(s.table) \subseteq e.cols /\ X \subseteq e.cells /\ e.refs \subseteq R
    BY <1>0, <2>4, <2>5, <2>7
  <2> QED
    BY <2>4, <2>6, <2>11, FitsShape
<1> QED
  BY <1>1, <1>2

LEMMA AddKeeps ==
  ASSUME NEW X, NEW P, NEW R, NEW d, Fits(d, Shape(X, P, R)), NEW s, s.op = "add", ~Refused(d, s)
  PROVE  Fits(Executed(d, s), Shape(X, P \union ({s.table} \X s.cols), R))
<1> DEFINE e == Executed(d, s)
<1>0. IsDatabase(d) /\ Based(d) /\ X \subseteq d.cells /\ P \subseteq d.cols /\ d.refs \subseteq R
  BY FitsShape
<1>1. e = [d EXCEPT !.cols = @ \union ({s.table} \X s.cols)]
  BY DEF Executed
<1>2. e = [cols |-> d.cols \union ({s.table} \X s.cols), cells |-> d.cells, refs |-> d.refs,
           names |-> d.names]
  BY <1>0, <1>1 DEF IsDatabase
<1>3. \A c \in d.cols \union ({s.table} \X s.cols) : c = <<c[1], c[2]>>
  BY <1>0 DEF IsDatabase
<1>4. /\ IsDatabase(e) /\ e.cols = d.cols \union ({s.table} \X s.cols) /\ e.cells = d.cells
      /\ e.refs = d.refs
  BY <1>0, <1>2, <1>3 DEF IsDatabase
<1>5. <<s.table, "id">> \in d.cols
  BY DEF Refused, Exists
<1>6. Based(e)
  BY <1>0, <1>4, <1>5 DEF Based
<1> QED
  BY <1>0, <1>4, <1>6, FitsShape

LEMMA OtherKeeps ==
  ASSUME NEW X, NEW P, NEW R, NEW d, Fits(d, Shape(X, P, R)), NEW s,
         s.op \in {"index", "adopt", "update", "skip"} \/ (s.op = "register" /\ s.cols
           \subseteq 1..Newest)
  PROVE  Fits(Executed(d, s), Shape(X, P, R))
<1> DEFINE e == Executed(d, s)
<1>0. IsDatabase(d) /\ Based(d) /\ X \subseteq d.cells /\ P \subseteq d.cols /\ d.refs \subseteq R
  BY FitsShape
<1>1. CASE s.op \in {"index", "update", "skip"}
  <2>1. e = d
    BY <1>1 DEF Executed
  <2> QED
    BY <2>1
<1>2. CASE s.op = "register" /\ s.cols \subseteq 1..Newest
  <2>1. e = [d EXCEPT !.names = @ \union s.cols]
    BY <1>2 DEF Executed
  <2>2. e = [cols |-> d.cols, cells |-> d.cells, refs |-> d.refs, names |-> d.names \union s.cols]
    BY <1>0, <2>1 DEF IsDatabase
  <2>3. IsDatabase(e) /\ e.cols = d.cols /\ e.cells = d.cells /\ e.refs = d.refs
    BY <1>0, <1>2, <2>2 DEF IsDatabase
  <2>4. Based(e)
    BY <1>0, <2>3 DEF Based
  <2> QED
    BY <1>0, <2>3, <2>4, FitsShape
<1>3. CASE s.op = "adopt"
  <2> DEFINE cells == d.cells \union Moved(d.cells, "user_playlists", "playlists")
  <2>1. e = [d EXCEPT !.cells = @ \union {<<"playlists", x[2], x[3]>> :
                                          x \in {y \in @ : y[1] = "user_playlists"}}]
    BY <1>3 DEF Executed
  <2>2. e = [cols |-> d.cols, cells |-> cells, refs |-> d.refs, names |-> d.names]
    BY <1>0, <2>1 DEF IsDatabase, Moved
  <2>3. \A x \in cells : x = <<x[1], x[2], x[3]>> /\ x[3] \in Rows
    BY <1>0 DEF IsDatabase, Moved
  <2>4. IsDatabase(e) /\ e.cols = d.cols /\ e.cells = cells /\ e.refs = d.refs
    BY <1>0, <2>2, <2>3 DEF IsDatabase
  <2>5. Based(e)
    BY <1>0, <2>4 DEF Based
  <2> QED
    BY <1>0, <2>4, <2>5, FitsShape
<1> QED
  BY <1>1, <1>2, <1>3

ThemeCell(x) == x[1] = "users" /\ x[2] = "theme_next"

\* theme_next is renamed: what was the theme there is the theme.
LEMMA ThemeBackShape ==
  ASSUME NEW X, NEW P, NEW R, NEW d, Fits(d, Shape(X, P, R))
  PROVE  Fits(Executed(d, ThemeBack),
              Shape({IF ThemeCell(x) THEN <<"users", "theme", x[3]>> ELSE x : x \in X},
                    (P \ {<<"users", "theme_next">>}) \union {<<"users", "theme">>}, R))
<1> DEFINE e == Executed(d, ThemeBack)
           cols == (d.cols \ ({"users"} \X {"theme_next"})) \union {<<"users", "theme">>}
           cells == {IF ThemeCell(x) THEN <<x[1], "theme", x[3]>> ELSE x : x \in d.cells}
<1>0. IsDatabase(d) /\ Based(d) /\ X \subseteq d.cells /\ P \subseteq d.cols /\ d.refs \subseteq R
  BY FitsShape
<1>1. e = [d EXCEPT !.cols = cols, !.cells = cells]
  BY DEF Executed, ThemeBack, RenameColumn, Statement, ThemeCell
<1>2. e = [cols |-> cols, cells |-> cells, refs |-> d.refs, names |-> d.names]
  BY <1>0, <1>1 DEF IsDatabase
<1>3. /\ \A c \in cols : c = <<c[1], c[2]>>
      /\ \A x \in cells : x = <<x[1], x[2], x[3]>> /\ x[3] \in Rows
  BY <1>0 DEF IsDatabase
<1> HIDE DEF cols, cells
<1>4. IsDatabase(e) /\ e.cols = cols /\ e.cells = cells /\ e.refs = d.refs
  BY <1>0, <1>2, <1>3 DEF IsDatabase
<1>5. Based(e)
  <2> SUFFICES ASSUME NEW c \in cols, c[2] = "id", NEW b \in Base(c[1]) PROVE <<c[1], b>> \in cols
    BY <1>4 DEF Based, Table
  <2>1. c \in d.cols
    BY DEF cols
  <2>2. <<c[1], b>> \in d.cols
    BY <2>1, <1>0 DEF Based, Table
  <2>3. ~(c[1] = "users" /\ b = "theme_next")
    BY BaseSwaps
  <2> QED
    BY <2>2, <2>3 DEF cols
<1>6. {IF ThemeCell(x) THEN <<"users", "theme", x[3]>> ELSE x : x \in X} \subseteq cells
  BY <1>0 DEF cells, ThemeCell
<1>7. (P \ {<<"users", "theme_next">>}) \union {<<"users", "theme">>} \subseteq cols
  BY <1>0 DEF cols
<1> QED
  BY <1>0, <1>4, <1>5, <1>6, <1>7, FitsShape

LEMMA MildKeeps ==
  ASSUME NEW C, IsPrecious(C), NEW P, P \subseteq Kept, NEW d, Fits(d, Home(C, P)),
         NEW s, Mild(s), ~Refused(d, s)
  PROVE  Fits(Executed(d, s), Home(C, P \union Provided(s)))
<1> USE DEF Home
<1>1. CASE s.op \in {"create", "createnew"} /\ Grows(s)
  <2>3. Base(s.table) \subseteq s.cols /\ (s.to = "none" \/ <<s.table, s.to>> \in Hanging)
    BY <1>1 DEF Grows
  <2>4. Fits(d, Shape(C, P, Hanging))
    OBVIOUS
  <2>1. Fits(Executed(d, s), Shape(C, P \union Table(s.table), Hanging))
    <3> HIDE DEF Home
    <3> QED
      BY <1>1, <2>3, <2>4, CreateKeeps
  <2>2. P \union Provided(s) \subseteq P \union Table(s.table)
    BY <1>1 DEF Provided
  <2> QED
    BY <2>1, <2>2, FitsWeaker
<1>2. CASE s.op = "add"
  <2>1. Fits(Executed(d, s), Shape(C, P \union ({s.table} \X s.cols), Hanging))
    BY <1>2, AddKeeps
  <2>2. P \union Provided(s) \subseteq P \union ({s.table} \X s.cols)
    BY <1>2 DEF Provided
  <2> QED
    BY <2>1, <2>2, FitsWeaker
<1>3. CASE s.op \in {"index", "adopt", "update", "skip"}
  <2>1. Fits(Executed(d, s), Shape(C, P, Hanging))
    BY <1>3, OtherKeeps
  <2>2. P \union Provided(s) \subseteq P
    BY <1>3 DEF Provided
  <2> QED
    BY <2>1, <2>2, FitsWeaker
<1>4. CASE s.op = "dropif" /\ s.table \in Copies
  <2>1. Executed(d, s) = Dropped(d, s.table)
    BY <1>4 DEF Executed
  <2>2. \A x \in C : x[1] # s.table
    BY <1>4 DEF IsPrecious, Valued, Copies, Spare
  <2>3. \A x : <<x, s.table>> \notin Hanging
    BY <1>4 DEF Hanging, Copies, Spare
  <2>4. \A c \in P : c[1] # s.table
    BY <1>4, KeptConfined DEF Confined
  <2> DEFINE X == {x \in C : x[1] # s.table /\ <<x[1], s.table>> \notin Hanging}
  <2>5. Fits(Executed(d, s), Shape(X, Besides(P, s.table), Besides(Hanging, s.table)))
    BY <2>1, DropShape
  <2>6. Provided(s) = {}
    BY <1>4 DEF Provided
  <2>7. /\ C \subseteq X
        /\ P \union Provided(s) \subseteq Besides(P, s.table) /\ Besides(Hanging, s.table)
             \subseteq Hanging
    BY <2>2, <2>3, <2>4, <2>6 DEF Besides
  <2> HIDE DEF X
  <2> QED
    BY <2>5, <2>7, FitsWeaker
<1>5. CASE s = ThemeBack
  <2>1. Fits(Executed(d, s), Shape({IF ThemeCell(x) THEN <<"users", "theme", x[3]>> ELSE x :
          x \in C},
                                   (P \ {<<"users", "theme_next">>}) \union {<<"users", "theme">>},
                                   Hanging))
    BY <1>5, ThemeBackShape
  <2>2. \A x \in C : ~ThemeCell(x)
    BY DEF IsPrecious, Valued, ThemeCell
  <2>3. C \subseteq {IF ThemeCell(x) THEN <<"users", "theme", x[3]>> ELSE x : x \in C}
    BY <2>2
  <2>4. <<"users", "theme_next">> \notin P
    BY KeptConfined DEF Confined
  <2>5. Provided(s) \subseteq {<<"users", "theme">>}
    BY <1>5 DEF Provided, ThemeBack, RenameColumn, Statement
  <2>6. P \union Provided(s) \subseteq (P \ {<<"users", "theme_next">>})
          \union {<<"users", "theme">>}
    BY <2>4, <2>5
  <2> QED
    BY <2>1, <2>3, <2>6, FitsWeaker
<1> QED
  BY <1>1, <1>2, <1>3, <1>4, <1>5 DEF Mild, Grows

-----------------------------------------------------------------------------
(* Scripts of statements. An annotation gives the shape of the database    *)
(* before each statement, as in Hoare's logic.                             *)

IsScript(todo) == \E S : todo \in Seq(S)

(* No transaction has begun within the first i statements, and what those  *)
(* provide.                                                                *)
NoWrite(todo, i) == \A j \in 1..i : ~IsWrite(todo[j])
ProvidedBy(todo, i) == UNION {Provided(todo[j]) : j \in 1..i}

(* J annotates the statements of todo: each one, unless it is refused,     *)
(* takes a database that fits the shape before it to one that fits the     *)
(* shape after it.                                                         *)
Annotates(J, todo) ==
  \A i \in 1..Len(todo) : \A d :
    Fits(d, J[i - 1]) /\ ~Refused(d, todo[i]) => Fits(Executed(d, todo[i]), J[i])

(* On a database with the promised columns P, todo keeps every row that    *)
(* was there, what is durable statement by statement included, and         *)
(* delivers what it provides.                                              *)
Harmless(todo, P) ==
  /\ IsScript(todo)
  /\ \A i \in 1..Len(todo) : NoWrite(todo, i) => Mild(todo[i])
  /\ \A C : IsPrecious(C) =>
       \E J : /\ Annotates(J, todo)
              /\ \A i \in 0..Len(todo) :
                   NoWrite(todo, i) => J[i] = Home(C, P \union ProvidedBy(todo, i))
              /\ J[Len(todo)] = Home(C, P \union ProvidedBy(todo, Len(todo)))

(* In a transaction: what is left to do takes the work d to a database     *)
(* that has the rows C and the columns Q.                                  *)
Secure(C, d, todo, Q) ==
  /\ IsScript(todo)
  /\ \E J : Fits(d, J[0]) /\ Annotates(J, todo) /\ J[Len(todo)] = Home(C, Q)

LEMMA ScriptFacts ==
  ASSUME NEW todo, IsScript(todo)
  PROVE  /\ Len(todo) \in Nat /\ DOMAIN todo = 1..Len(todo)
         /\ todo = <<>> <=> Len(todo) = 0
         /\ todo # <<>> => /\ IsScript(Tail(todo)) /\ Len(Tail(todo)) = Len(todo) - 1
                           /\ \A i \in 1..Len(Tail(todo)) : Tail(todo)[i] = todo[i + 1]
                           /\ Head(todo) = todo[1]
<1>1. PICK S : todo \in Seq(S)
  BY DEF IsScript
<1>2. Len(todo) \in Nat /\ DOMAIN todo = 1..Len(todo) /\ (todo = <<>> <=> Len(todo) = 0)
  BY <1>1, LenProperties, EmptySeq
<1>3. ASSUME todo # <<>>
      PROVE  /\ IsScript(Tail(todo)) /\ Len(Tail(todo)) = Len(todo) - 1
             /\ \A i \in 1..Len(Tail(todo)) : Tail(todo)[i] = todo[i + 1]
             /\ Head(todo) = todo[1]
  <2>1. /\ Tail(todo) \in Seq(S) /\ Len(Tail(todo)) = Len(todo) - 1
        /\ \A i \in 1..Len(Tail(todo)) : Tail(todo)[i] = todo[i + 1]
    BY <1>1, <1>3, HeadTailProperties
  <2>2. Head(todo) = todo[1]
    BY <1>1, <1>3
  <2> QED
    BY <2>1, <2>2 DEF IsScript
<1> QED
  BY <1>2, <1>3

LEMMA AnnotatesTail ==
  ASSUME NEW todo, IsScript(todo), todo # <<>>, NEW J, Annotates(J, todo)
  PROVE  LET K == [i \in 0..Len(Tail(todo)) |-> J[i + 1]]
         IN  /\ Annotates(K, Tail(todo)) /\ K[Len(Tail(todo))] = J[Len(todo)]
             /\ K[0] = J[1]
<1> DEFINE n == Len(Tail(todo))
           K == [i \in 0..n |-> J[i + 1]]
<1>1. n \in Nat /\ Len(todo) = n + 1 /\ \A i \in 1..n : Tail(todo)[i] = todo[i + 1]
  BY ScriptFacts
<1> HIDE DEF n
<1>2. Annotates(K, Tail(todo))
  <2> SUFFICES ASSUME NEW i \in 1..n, NEW d, Fits(d, K[i - 1]), ~Refused(d, Tail(todo)[i])
               PROVE  Fits(Executed(d, Tail(todo)[i]), K[i])
    BY DEF Annotates, n
  <2>1. K[i - 1] = J[i] /\ K[i] = J[i + 1] /\ Tail(todo)[i] = todo[i + 1] /\ i + 1 \in 1..Len(todo)
    BY <1>1
  <2>2. (i + 1) - 1 = i
    BY <1>1
  <2> HIDE DEF K
  <2> QED
    BY <2>1, <2>2 DEF Annotates
<1> QED
  BY <1>1, <1>2 DEF n

LEMMA SecureStep ==
  ASSUME NEW C, NEW d, NEW todo, NEW Q, Secure(C, d, todo, Q), todo # <<>>, ~Refused(d, Head(todo))
  PROVE  Secure(C, Executed(d, Head(todo)), Tail(todo), Q)
<1>1. PICK J : Fits(d, J[0]) /\ Annotates(J, todo) /\ J[Len(todo)] = Home(C, Q)
  BY DEF Secure
<1>2. IsScript(todo)
  BY DEF Secure
<1>3. 1 \in 1..Len(todo) /\ Head(todo) = todo[1] /\ IsScript(Tail(todo))
  BY <1>2, ScriptFacts
<1>4. Fits(Executed(d, Head(todo)), J[1])
  BY <1>1, <1>3 DEF Annotates
<1> DEFINE K == [i \in 0..Len(Tail(todo)) |-> J[i + 1]]
<1>5. Annotates(K, Tail(todo)) /\ K[Len(Tail(todo))] = J[Len(todo)] /\ K[0] = J[1]
  BY <1>1, <1>2, AnnotatesTail
<1> HIDE DEF K
<1> QED
  BY <1>1, <1>3, <1>4, <1>5 DEF Secure

LEMMA SecureEnd ==
  ASSUME NEW C, NEW d, NEW Q, Secure(C, d, <<>>, Q)
  PROVE  Fits(d, Home(C, Q))
<1>1. Len(<<>>) = 0
  BY EmptySeq
<1> QED
  BY <1>1 DEF Secure

LEMMA SecureStart ==
  ASSUME NEW todo, NEW P, Harmless(todo, P), NEW C, IsPrecious(C), NEW d, Fits(d, Home(C, P))
  PROVE  Secure(C, d, todo, P \union ProvidedBy(todo, Len(todo)))
<1>1. PICK J : /\ Annotates(J, todo)
               /\ \A i \in 0..Len(todo) : NoWrite(todo, i) => J[i]
                    = Home(C, P \union ProvidedBy(todo, i))
               /\ J[Len(todo)] = Home(C, P \union ProvidedBy(todo, Len(todo)))
  BY DEF Harmless
<1>2. IsScript(todo) /\ 0 \in 0..Len(todo)
  BY ScriptFacts DEF Harmless
<1>3. NoWrite(todo, 0) /\ ProvidedBy(todo, 0) = {}
  BY DEF NoWrite, ProvidedBy
<1>4. J[0] = Home(C, P \union {})
  BY <1>1, <1>2, <1>3
<1>5. P \union {} = P
  OBVIOUS
<1> QED
  BY <1>1, <1>2, <1>4, <1>5 DEF Secure

LEMMA ProvidedHead ==
  ASSUME NEW todo, IsScript(todo), todo # <<>>, NEW i \in 0..Len(Tail(todo))
  PROVE  ProvidedBy(todo, i + 1) = Provided(Head(todo)) \union ProvidedBy(Tail(todo), i)
<1>1. /\ Len(todo) \in Nat /\ Len(Tail(todo)) = Len(todo) - 1 /\ Head(todo) = todo[1]
      /\ \A j \in 1..Len(Tail(todo)) : Tail(todo)[j] = todo[j + 1]
  BY ScriptFacts
<1>2. \A j \in 1..i : Tail(todo)[j] = todo[j + 1]
  BY <1>1
<1>3. ASSUME NEW j \in 1..(i + 1)
      PROVE  Provided(todo[j]) \subseteq Provided(Head(todo)) \union ProvidedBy(Tail(todo), i)
  <2>1. CASE j = 1
    BY <2>1, <1>1
  <2>2. CASE j # 1
    <3>1. j - 1 \in 1..i /\ (j - 1) + 1 = j
      BY <2>2, <1>1
    <3>2. Tail(todo)[j - 1] = todo[j]
      BY <3>1, <1>2
    <3> QED
      BY <3>1, <3>2 DEF ProvidedBy
  <2> QED
    BY <2>1, <2>2
<1>4. ASSUME NEW j \in 1..i PROVE Provided(Tail(todo)[j]) \subseteq ProvidedBy(todo, i + 1)
  <2>1. j + 1 \in 1..(i + 1) /\ Tail(todo)[j] = todo[j + 1]
    BY <1>1, <1>2
  <2> QED
    BY <2>1 DEF ProvidedBy
<1>5. Provided(Head(todo)) \subseteq ProvidedBy(todo, i + 1)
  <2>1. 1 \in 1..(i + 1)
    BY <1>1
  <2> QED
    BY <1>1, <2>1 DEF ProvidedBy
<1>6. ProvidedBy(todo, i + 1) \subseteq Provided(Head(todo)) \union ProvidedBy(Tail(todo), i)
  BY <1>3 DEF ProvidedBy
<1>7. ProvidedBy(Tail(todo), i) \subseteq ProvidedBy(todo, i + 1)
  BY <1>4 DEF ProvidedBy
<1> QED
  BY <1>5, <1>6, <1>7

LEMMA HarmlessTail ==
  ASSUME NEW todo, NEW P, Harmless(todo, P), todo # <<>>, ~IsWrite(Head(todo))
  PROVE  Mild(Head(todo)) /\ Harmless(Tail(todo), P \union Provided(Head(todo)))
<1> DEFINE n == Len(Tail(todo))
<1>1. /\ IsScript(todo) /\ IsScript(Tail(todo)) /\ n \in Nat /\ Len(todo) = n + 1 /\ Head(todo)
           = todo[1]
      /\ \A i \in 1..n : Tail(todo)[i] = todo[i + 1]
  BY ScriptFacts DEF Harmless
<1> HIDE DEF n
<1>2. ASSUME NEW i \in 0..n, NoWrite(Tail(todo), i) PROVE NoWrite(todo, i + 1)
  <2> SUFFICES ASSUME NEW j \in 1..(i + 1) PROVE ~IsWrite(todo[j])
    BY DEF NoWrite
  <2>1. CASE j = 1
    BY <2>1, <1>1
  <2>2. CASE j # 1
    <3>1. j - 1 \in 1..i /\ j - 1 \in 1..n /\ (j - 1) + 1 = j
      BY <2>2, <1>1
    <3> QED
      BY <3>1, <1>1, <1>2 DEF NoWrite
  <2> QED
    BY <2>1, <2>2
<1>3. Mild(Head(todo))
  <2>1. 1 \in 1..Len(todo) /\ NoWrite(todo, 1)
    BY <1>1 DEF NoWrite
  <2> QED
    BY <2>1, <1>1 DEF Harmless
<1>4. ASSUME NEW i \in 1..n, NoWrite(Tail(todo), i) PROVE Mild(Tail(todo)[i])
  <2>1. i + 1 \in 1..Len(todo) /\ Tail(todo)[i] = todo[i + 1] /\ i \in 0..n
    BY <1>1
  <2> QED
    BY <2>1, <1>2, <1>4 DEF Harmless
<1>5. ASSUME NEW C, IsPrecious(C)
      PROVE  \E K : /\ Annotates(K, Tail(todo))
                    /\ \A i \in 0..n : NoWrite(Tail(todo), i) =>
                         K[i] = Home(C, (P \union Provided(Head(todo)))
                           \union ProvidedBy(Tail(todo), i))
                    /\ K[n] = Home(C, (P \union Provided(Head(todo)))
                         \union ProvidedBy(Tail(todo), n))
  <2>1. PICK J : /\ Annotates(J, todo)
                 /\ \A i \in 0..Len(todo) : NoWrite(todo, i) => J[i]
                      = Home(C, P \union ProvidedBy(todo, i))
                 /\ J[Len(todo)] = Home(C, P \union ProvidedBy(todo, Len(todo)))
    BY <1>5 DEF Harmless
  <2> DEFINE K == [i \in 0..n |-> J[i + 1]]
  <2>2. Annotates(K, Tail(todo))
    BY <2>1, <1>1, AnnotatesTail DEF n
  <2>3. ASSUME NEW i \in 0..n
        PROVE  P \union ProvidedBy(todo, i + 1)
                 = (P \union Provided(Head(todo))) \union ProvidedBy(Tail(todo), i)
    BY <1>1, ProvidedHead DEF n
  <2>4. ASSUME NEW i \in 0..n, NoWrite(Tail(todo), i)
        PROVE  K[i] = Home(C, (P \union Provided(Head(todo))) \union ProvidedBy(Tail(todo), i))
    <3>1. K[i] = J[i + 1] /\ i + 1 \in 0..Len(todo)
      BY <1>1
    <3> QED
      BY <3>1, <1>2, <2>1, <2>3, <2>4
  <2>5. K[n] = Home(C, (P \union Provided(Head(todo))) \union ProvidedBy(Tail(todo), n))
    <3>1. K[n] = J[n + 1] /\ n \in 0..n
      BY <1>1
    <3> QED
      BY <3>1, <1>1, <2>1, <2>3
  <2> QED
    BY <2>2, <2>4, <2>5
<1> QED
  BY <1>1, <1>3, <1>4, <1>5 DEF Harmless, n

LEMMA HarmlessMild ==
  ASSUME NEW todo, IsScript(todo), \A i \in 1..Len(todo) : Mild(todo[i]), NEW P, P \subseteq Kept
  PROVE  Harmless(todo, P)
<1> SUFFICES ASSUME NEW C, IsPrecious(C)
             PROVE  \E J : /\ Annotates(J, todo)
                           /\ \A i \in 0..Len(todo) : J[i] = Home(C, P \union ProvidedBy(todo, i))
  BY ScriptFacts DEF Harmless
<1> DEFINE J == [i \in 0..Len(todo) |-> Home(C, P \union ProvidedBy(todo, i))]
<1>1. Len(todo) \in Nat
  BY ScriptFacts
<1>2. ASSUME NEW i \in 1..Len(todo), NEW d, Fits(d, J[i - 1]), ~Refused(d, todo[i])
      PROVE  Fits(Executed(d, todo[i]), J[i])
  <2>1. /\ J[i - 1] = Home(C, P \union ProvidedBy(todo, i - 1))
        /\ J[i] = Home(C, P \union ProvidedBy(todo, i))
    BY <1>1
  <2>2. P \union ProvidedBy(todo, i - 1) \subseteq Kept
    BY DEF ProvidedBy, Provided
  <2>3. Fits(Executed(d, todo[i]), Home(C, (P \union ProvidedBy(todo, i - 1))
          \union Provided(todo[i])))
    BY <1>2, <2>1, <2>2, MildKeeps
  <2>4. 1..i = 1..(i - 1) \union {i}
    BY <1>1
  <2>5. (P \union ProvidedBy(todo, i - 1)) \union Provided(todo[i]) = P \union ProvidedBy(todo, i)
    BY <2>4 DEF ProvidedBy
  <2> QED
    BY <2>1, <2>3, <2>5
<1>3. Annotates(J, todo)
  <2> HIDE DEF J
  <2> QED
    BY <1>2 DEF Annotates
<1>4. \A i \in 0..Len(todo) : J[i] = Home(C, P \union ProvidedBy(todo, i))
  OBVIOUS
<1> QED
  BY <1>3, <1>4

LEMMA ConcatFacts ==
  ASSUME NEW a, IsScript(a), NEW b, IsScript(b)
  PROVE  /\ IsScript(a \o b) /\ Len(a) \in Nat /\ Len(b) \in Nat /\ Len(a \o b) = Len(a) + Len(b)
         /\ \A i \in 1..Len(a) : (a \o b)[i] = a[i]
         /\ \A i \in 1..Len(b) : (a \o b)[Len(a) + i] = b[i]
<1>1. PICK S : a \in Seq(S)
  BY DEF IsScript
<1>2. PICK T : b \in Seq(T)
  BY DEF IsScript
<1>3. a \in Seq(S \union T) /\ b \in Seq(S \union T)
  BY <1>1, <1>2, SeqMonotonic
<1>4. /\ a \o b \in Seq(S \union T) /\ Len(a \o b) = Len(a) + Len(b)
      /\ \A i \in 1..Len(a) + Len(b) : (a \o b)[i] = IF i <= Len(a) THEN a[i] ELSE b[i - Len(a)]
  BY <1>3, ConcatProperties
<1>5. Len(a) \in Nat /\ Len(b) \in Nat
  BY <1>1, <1>2, LenProperties
<1>6. ASSUME NEW i \in 1..Len(b) PROVE (a \o b)[Len(a) + i] = b[i]
  <2>1. /\ Len(a) + i \in 1..Len(a) + Len(b) /\ ~(Len(a) + i <= Len(a)) /\ (Len(a) + i) - Len(a) = i
    BY <1>5
  <2> QED
    BY <2>1, <1>4
<1>7. \A i \in 1..Len(a) : i \in 1..Len(a) + Len(b) /\ i <= Len(a)
  BY <1>5
<1> QED
  BY <1>4, <1>5, <1>6, <1>7 DEF IsScript

LEMMA ProvidedConcat ==
  ASSUME NEW a, IsScript(a), NEW b, IsScript(b)
  PROVE  /\ \A i \in 0..Len(a) : ProvidedBy(a \o b, i) = ProvidedBy(a, i)
         /\ \A i \in 0..Len(b) :
              ProvidedBy(a \o b, Len(a) + i) = ProvidedBy(a, Len(a)) \union ProvidedBy(b, i)
<1>1. /\ Len(a) \in Nat /\ Len(b) \in Nat
      /\ \A i \in 1..Len(a) : (a \o b)[i] = a[i]
      /\ \A i \in 1..Len(b) : (a \o b)[Len(a) + i] = b[i]
  BY ConcatFacts
<1>2. ASSUME NEW i \in 0..Len(a) PROVE ProvidedBy(a \o b, i) = ProvidedBy(a, i)
  <2>1. \A j \in 1..i : (a \o b)[j] = a[j]
    BY <1>1
  <2> QED
    BY <2>1 DEF ProvidedBy
<1>3. ASSUME NEW i \in 0..Len(b)
      PROVE  ProvidedBy(a \o b, Len(a) + i) = ProvidedBy(a, Len(a)) \union ProvidedBy(b, i)
  <2>1. ASSUME NEW j \in 1..(Len(a) + i)
        PROVE  Provided((a \o b)[j]) \subseteq ProvidedBy(a, Len(a)) \union ProvidedBy(b, i)
    <3>1. CASE j <= Len(a)
      <4>1. j \in 1..Len(a)
        BY <3>1, <1>1
      <4> QED
        BY <4>1, <1>1 DEF ProvidedBy
    <3>2. CASE ~(j <= Len(a))
      <4>1. j - Len(a) \in 1..i /\ j - Len(a) \in 1..Len(b) /\ Len(a) + (j - Len(a)) = j
        BY <3>2, <1>1
      <4>2. (a \o b)[j] = b[j - Len(a)]
        BY <4>1, <1>1
      <4> QED
        BY <4>1, <4>2 DEF ProvidedBy
    <3> QED
      BY <3>1, <3>2
  <2>2. ASSUME NEW j \in 1..Len(a) PROVE Provided(a[j]) \subseteq ProvidedBy(a \o b, Len(a) + i)
    <3>1. j \in 1..(Len(a) + i) /\ (a \o b)[j] = a[j]
      BY <1>1
    <3> QED
      BY <3>1 DEF ProvidedBy
  <2>3. ASSUME NEW j \in 1..i PROVE Provided(b[j]) \subseteq ProvidedBy(a \o b, Len(a) + i)
    <3>1. Len(a) + j \in 1..(Len(a) + i) /\ (a \o b)[Len(a) + j] = b[j]
      BY <1>1
    <3> QED
      BY <3>1 DEF ProvidedBy
  <2>4. ProvidedBy(a \o b, Len(a) + i) \subseteq ProvidedBy(a, Len(a)) \union ProvidedBy(b, i)
    BY <2>1 DEF ProvidedBy
  <2>5. ProvidedBy(a, Len(a)) \subseteq ProvidedBy(a \o b, Len(a) + i)
    BY <2>2 DEF ProvidedBy
  <2>6. ProvidedBy(b, i) \subseteq ProvidedBy(a \o b, Len(a) + i)
    BY <2>3 DEF ProvidedBy
  <2> QED
    BY <2>4, <2>5, <2>6
<1> QED
  BY <1>2, <1>3

LEMMA HarmlessConcat ==
  ASSUME NEW a, NEW b, NEW P, Harmless(a, P), Harmless(b, P \union ProvidedBy(a, Len(a)))
  PROVE  Harmless(a \o b, P)
<1> DEFINE m == Len(a)
           n == Len(b)
           Q == P \union ProvidedBy(a, m)
<1>1. /\ IsScript(a) /\ IsScript(b) /\ IsScript(a \o b) /\ m \in Nat /\ n \in Nat
      /\ Len(a \o b) = m + n
      /\ \A i \in 1..m : (a \o b)[i] = a[i]
      /\ \A i \in 1..n : (a \o b)[m + i] = b[i]
  <2>1. IsScript(a) /\ IsScript(b)
    BY DEF Harmless
  <2> QED
    BY <2>1, ConcatFacts
<1>2. /\ \A i \in 0..m : ProvidedBy(a \o b, i) = ProvidedBy(a, i)
      /\ \A i \in 0..n : ProvidedBy(a \o b, m + i) = ProvidedBy(a, m) \union ProvidedBy(b, i)
  BY <1>1, ProvidedConcat
<1> HIDE DEF m, n, Q
<1>3. ASSUME NEW i \in 0..m, NoWrite(a \o b, i) PROVE NoWrite(a, i)
  <2>1. \A j \in 1..i : j \in 1..m
    BY <1>1
  <2> QED
    BY <2>1, <1>1, <1>3 DEF NoWrite
<1>4. ASSUME NEW i \in 0..n, NoWrite(a \o b, m + i) PROVE NoWrite(b, i)
  <2> SUFFICES ASSUME NEW j \in 1..i PROVE ~IsWrite(b[j])
    BY DEF NoWrite
  <2>1. m + j \in 1..(m + i) /\ (a \o b)[m + j] = b[j]
    BY <1>1
  <2> QED
    BY <2>1, <1>4 DEF NoWrite
<1>5. ASSUME NEW i \in 1..(m + n), NoWrite(a \o b, i) PROVE Mild((a \o b)[i])
  <2>1. CASE i <= m
    <3>1. i \in 1..m /\ i \in 0..m
      BY <1>1, <2>1
    <3> QED
      BY <3>1, <1>1, <1>3, <1>5 DEF Harmless, m
  <2>2. CASE ~(i <= m)
    <3>1. i - m \in 1..n /\ i - m \in 0..n /\ m + (i - m) = i
      BY <1>1, <2>2
    <3>2. NoWrite(b, i - m) /\ (a \o b)[i] = b[i - m]
      BY <3>1, <1>1, <1>4, <1>5
    <3> QED
      BY <3>1, <3>2 DEF Harmless, n
  <2> QED
    BY <2>1, <2>2
<1>6. ASSUME NEW C, IsPrecious(C)
      PROVE  \E L : /\ Annotates(L, a \o b)
                    /\ \A i \in 0..(m + n) :
                         NoWrite(a \o b, i) => L[i] = Home(C, P \union ProvidedBy(a \o b, i))
                    /\ L[m + n] = Home(C, P \union ProvidedBy(a \o b, m + n))
  <2>1. PICK J : /\ Annotates(J, a)
                 /\ \A i \in 0..m : NoWrite(a, i) => J[i] = Home(C, P \union ProvidedBy(a, i))
                 /\ J[m] = Home(C, P \union ProvidedBy(a, m))
    BY <1>6 DEF Harmless, m
  <2>2. PICK K : /\ Annotates(K, b)
                 /\ \A i \in 0..n : NoWrite(b, i) => K[i] = Home(C, Q \union ProvidedBy(b, i))
                 /\ K[n] = Home(C, Q \union ProvidedBy(b, n))
    BY <1>6 DEF Harmless, n, m, Q
  <2> DEFINE L == [i \in 0..(m + n) |-> IF i <= m THEN J[i] ELSE K[i - m]]
  <2>3. J[m] = K[0]
    <3>1. NoWrite(b, 0) /\ ProvidedBy(b, 0) = {} /\ 0 \in 0..n
      BY <1>1 DEF NoWrite, ProvidedBy
    <3>2. K[0] = Home(C, Q \union {})
      BY <2>2, <3>1
    <3>3. Q \union {} = P \union ProvidedBy(a, m)
      BY DEF Q
    <3> QED
      BY <2>1, <3>2, <3>3
  <2>4. /\ \A i \in 0..m : L[i] = J[i]
        /\ \A i \in 0..n : L[m + i] = K[i]
    <3>1. \A i \in 0..m : i \in 0..(m + n) /\ i <= m
      BY <1>1
    <3>2. ASSUME NEW i \in 0..n PROVE L[m + i] = K[i]
      <4>1. CASE i = 0
        BY <4>1, <2>3, <1>1
      <4>2. CASE i # 0
        <5>1. m + i \in 0..(m + n) /\ ~(m + i <= m) /\ (m + i) - m = i
          BY <4>2, <1>1
        <5> QED
          BY <5>1
      <4> QED
        BY <4>1, <4>2
    <3> QED
      BY <3>1, <3>2
  <2> HIDE DEF L
  <2>5. Annotates(L, a \o b)
    <3> SUFFICES ASSUME NEW i \in 1..(m + n), NEW d, Fits(d, L[i - 1]), ~Refused(d, (a \o b)[i])
                 PROVE  Fits(Executed(d, (a \o b)[i]), L[i])
      BY <1>1 DEF Annotates
    <3>1. CASE i <= m
      <4>1. i \in 1..m /\ i \in 0..m /\ i - 1 \in 0..m
        BY <3>1, <1>1
      <4> QED
        BY <4>1, <2>1, <2>4, <1>1 DEF Annotates, m
    <3>2. CASE ~(i <= m)
      <4>1. i - m \in 1..n /\ i - m \in 0..n /\ (i - m) - 1 \in 0..n /\ m + (i - m) = i
            /\ m + ((i - m) - 1) = i - 1
        BY <3>2, <1>1
      <4>2. L[i] = K[i - m] /\ L[i - 1] = K[(i - m) - 1] /\ (a \o b)[i] = b[i - m]
        BY <4>1, <2>4, <1>1
      <4> QED
        BY <4>1, <4>2, <2>2 DEF Annotates, n
    <3> QED
      BY <3>1, <3>2
  <2>6. ASSUME NEW i \in 0..n
        PROVE  P \union ProvidedBy(a \o b, m + i) = Q \union ProvidedBy(b, i)
    BY <1>2 DEF Q
  <2>7. ASSUME NEW i \in 0..(m + n), NoWrite(a \o b, i)
        PROVE  L[i] = Home(C, P \union ProvidedBy(a \o b, i))
    <3>1. CASE i <= m
      <4>1. i \in 0..m
        BY <3>1, <1>1
      <4> QED
        BY <4>1, <1>2, <1>3, <2>1, <2>4, <2>7
    <3>2. CASE ~(i <= m)
      <4>1. i - m \in 0..n /\ m + (i - m) = i
        BY <3>2, <1>1
      <4>2. NoWrite(b, i - m) /\ L[i] = K[i - m]
            /\ P \union ProvidedBy(a \o b, i) = Q \union ProvidedBy(b, i - m)
        BY <4>1, <1>4, <2>4, <2>6, <2>7
      <4> QED
        BY <4>1, <4>2, <2>2
    <3> QED
      BY <3>1, <3>2
  <2>8. L[m + n] = Home(C, P \union ProvidedBy(a \o b, m + n))
    <3>1. n \in 0..n
      BY <1>1
    <3> QED
      BY <3>1, <2>2, <2>4, <2>6
  <2> QED
    BY <2>5, <2>7, <2>8
<1> QED
  BY <1>1, <1>5, <1>6 DEF Harmless

-----------------------------------------------------------------------------
(* Scripts of mild statements, put together from CREATE, ADD COLUMN and the*)
(* like.                                                                   *)

LEMMA MildStatements ==
  /\ \A t, more : Mild(CreateIf(t, more)) /\ Mild(CreateNew(t, "none"))
  /\ \A t, more : t \in {"party_room_queue_items", "party_room_federated_peers"}
                  => Mild(CreateChild(t, more, "party_rooms"))
  /\ \A t, c : Mild(Add(t, c)) /\ Mild(Index(t, c))
  /\ \A t : Mild(Trigger(t)) /\ Mild(Update(t))
  /\ \A t \in Copies : Mild(DropIf(t))
  /\ Mild(Adopt) /\ Mild(Skip) /\ Mild(ThemeBack)
<1>1. \A t, more : Grows(CreateIf(t, more)) /\ Grows(CreateNew(t, "none"))
  BY DEF Grows, CreateIf, CreateNew, Statement
<1>2. \A t, more : t \in {"party_room_queue_items", "party_room_federated_peers"}
                  => Grows(CreateChild(t, more, "party_rooms"))
  BY DEF Grows, CreateChild, Statement, Hanging
<1>3. \A t, c : Grows(Add(t, c)) /\ Grows(Index(t, c)) /\ Grows(Update(t))
  BY DEF Grows, Add, Index, Update, Statement
<1>5. Grows(Adopt) /\ Grows(Skip)
  BY DEF Grows, Adopt, Skip, Statement
<1>6. \A t \in Copies : Mild(DropIf(t))
  BY DEF Mild, DropIf, Statement
<1> QED
  BY <1>1, <1>2, <1>3, <1>5, <1>6 DEF Mild, Trigger

LEMMA ProvidedStatements ==
  /\ \A t, more : Provided(CreateIf(t, more)) = Kept \intersect Table(t)
  /\ \A t, more, p : Provided(CreateChild(t, more, p)) = Kept \intersect Table(t)
  /\ \A t, c : Provided(Add(t, c)) = Kept \intersect {<<t, c>>}
  /\ \A t, to : Provided(Rename(t, to)) = Kept \intersect ({to} \X Base(t))
  /\ Provided(ThemeBack) = Kept \intersect {<<"users", "theme">>}
BY DEF Provided, CreateIf, CreateChild, Add, Rename, ThemeBack, RenameColumn, Statement

(* A script of mild statements that adds to db what is missing of S. *)
Simple(todo, db, S) ==
  /\ IsScript(todo)
  /\ \A i \in 1..Len(todo) : Mild(todo[i])
  /\ S \subseteq Kept
  /\ S \subseteq db.cols \union ProvidedBy(todo, Len(todo))

LEMMA SimpleConcat ==
  ASSUME NEW a, NEW b, NEW db, NEW S, NEW T, Simple(a, db, S), Simple(b, db, T)
  PROVE  Simple(a \o b, db, S \union T)
<1>1. /\ IsScript(a \o b) /\ Len(a) \in Nat /\ Len(b) \in Nat /\ Len(a \o b) = Len(a) + Len(b)
      /\ \A i \in 1..Len(a) : (a \o b)[i] = a[i]
      /\ \A i \in 1..Len(b) : (a \o b)[Len(a) + i] = b[i]
  BY ConcatFacts DEF Simple
<1>2. ASSUME NEW i \in 1..Len(a) + Len(b) PROVE Mild((a \o b)[i])
  <2>1. CASE i <= Len(a)
    BY <2>1, <1>1 DEF Simple
  <2>2. CASE ~(i <= Len(a))
    <3>1. i - Len(a) \in 1..Len(b) /\ Len(a) + (i - Len(a)) = i
      BY <1>1, <2>2
    <3>2. (a \o b)[i] = b[i - Len(a)]
      BY <3>1, <1>1
    <3> QED
      BY <3>1, <3>2 DEF Simple
  <2> QED
    BY <2>1, <2>2
<1>3. ProvidedBy(a \o b, Len(a) + Len(b)) = ProvidedBy(a, Len(a)) \union ProvidedBy(b, Len(b))
  <2>1. Len(b) \in 0..Len(b)
    BY <1>1
  <2> QED
    BY <2>1, ProvidedConcat DEF Simple
<1> QED
  BY <1>1, <1>2, <1>3 DEF Simple

LEMMA SimpleMissing ==
  ASSUME NEW db, NEW t, NEW names, IsScript(names)
  PROVE  Simple(Missing(db, t, names), db, Kept \intersect Fields(t, ListedIn(names)))
<1> DEFINE todo == Missing(db, t, names)
           St == {Add(t, names[i]) : i \in 1..Len(names)} \union {Skip}
<1>1. Len(names) \in Nat /\ DOMAIN names = 1..Len(names)
  BY ScriptFacts
<1>2. todo = [i \in 1..Len(names) |-> IF Has(db, t, names[i]) THEN Skip ELSE Add(t, names[i])]
  BY <1>1 DEF Missing
<1>3. todo \in [1..Len(names) -> St]
  BY <1>2
<1>4. todo \in Seq(St) /\ Len(todo) = Len(names)
  BY <1>1, <1>3
<1> HIDE DEF todo, St
<1>5. \A i \in 1..Len(names) : Mild(todo[i])
  BY <1>2, MildStatements
<1>6. ASSUME NEW i \in 1..Len(names), <<t, names[i]>> \in Kept
      PROVE  <<t, names[i]>> \in db.cols \union ProvidedBy(todo, Len(names))
  <2>1. CASE Has(db, t, names[i])
    BY <2>1 DEF Has
  <2>2. CASE ~Has(db, t, names[i])
    <3>1. todo[i] = Add(t, names[i])
      BY <2>2, <1>2
    <3>2. <<t, names[i]>> \in Provided(todo[i])
      BY <3>1, <1>6, ProvidedStatements
    <3> QED
      BY <3>2 DEF ProvidedBy
  <2> QED
    BY <2>1, <2>2
<1>7. ASSUME NEW c \in Kept \intersect Fields(t, ListedIn(names))
      PROVE  c \in db.cols \union ProvidedBy(todo, Len(names))
  <2>1. PICK i \in 1..Len(names) : c = <<t, names[i]>>
    BY <1>1 DEF Fields, ListedIn
  <2> QED
    BY <2>1, <1>6
<1> QED
  BY <1>4, <1>5, <1>7 DEF Simple, IsScript, todo

LEMMA SimpleCreates ==
  ASSUME NEW todo, IsScript(todo), \A i \in 1..Len(todo) : Mild(todo[i]), NEW T,
         \A t \in T : \E i \in 1..Len(todo) : Provided(todo[i]) = Kept \intersect Table(t)
  PROVE  \A db : Simple(todo, db, Kept \intersect Tables(T))
BY DEF Simple, ProvidedBy, Tables

LEMMA SimpleMild ==
  ASSUME NEW todo, IsScript(todo), \A i \in 1..Len(todo) : Mild(todo[i])
  PROVE  \A db : Simple(todo, db, {})
BY DEF Simple

LEMMA SimpleEmpty == \A db : Simple(<<>>, db, {})
<1>1. <<>> \in Seq({}) /\ Len(<<>>) = 0
  BY EmptySeq
<1> QED
  BY <1>1 DEF Simple, IsScript

LEMMA SimpleWeaker ==
  ASSUME NEW todo, NEW db, NEW S, Simple(todo, db, S), NEW T, T \subseteq S
  PROVE  Simple(todo, db, T)
BY DEF Simple

LEMMA MissingAdds ==
  ASSUME NEW db, NEW t, NEW names, IsScript(names),
         NEW S, S \subseteq Kept, S \subseteq Fields(t, ListedIn(names))
  PROVE  Simple(Missing(db, t, names), db, S)
<1>1. Simple(Missing(db, t, names), db, Kept \intersect Fields(t, ListedIn(names)))
  BY SimpleMissing
<1> QED
  BY <1>1, SimpleWeaker

LEMMA TupleScripts ==
  /\ \A a : IsScript(<<a>>) /\ Len(<<a>>) = 1
  /\ \A a, b : IsScript(<<a, b>>) /\ Len(<<a, b>>) = 2
  /\ \A a, b, c : IsScript(<<a, b, c>>) /\ Len(<<a, b, c>>) = 3
  /\ \A a, b, c, d : IsScript(<<a, b, c, d>>) /\ Len(<<a, b, c, d>>) = 4
  /\ \A a, b, c, d, e : IsScript(<<a, b, c, d, e>>) /\ Len(<<a, b, c, d, e>>) = 5
  /\ \A a, b, c, d, e, f, g : IsScript(<<a, b, c, d, e, f, g>>) /\ Len(<<a, b, c, d, e, f, g>>) = 7
  /\ \A a, b, c, d, e, f, g, h, i, j : IsScript(<<a, b, c, d, e, f, g, h, i, j>>) /\ Len(<<a, b, c,
       d, e, f, g, h, i, j>>) = 10
<1>1. ASSUME NEW a PROVE IsScript(<<a>>) /\ Len(<<a>>) = 1
  <2>1. <<a>> \in Seq({a}) /\ Len(<<a>>) = 1
    OBVIOUS
  <2> QED
    BY <2>1 DEF IsScript
<1>2. ASSUME NEW a, NEW b PROVE IsScript(<<a, b>>) /\ Len(<<a, b>>) = 2
  <2>1. <<a, b>> \in Seq({a, b}) /\ Len(<<a, b>>) = 2
    OBVIOUS
  <2> QED
    BY <2>1 DEF IsScript
<1>3. ASSUME NEW a, NEW b, NEW c PROVE IsScript(<<a, b, c>>) /\ Len(<<a, b, c>>) = 3
  <2>1. <<a, b, c>> \in Seq({a, b, c}) /\ Len(<<a, b, c>>) = 3
    OBVIOUS
  <2> QED
    BY <2>1 DEF IsScript
<1>4. ASSUME NEW a, NEW b, NEW c, NEW d PROVE IsScript(<<a, b, c, d>>) /\ Len(<<a, b, c, d>>) = 4
  <2>1. <<a, b, c, d>> \in Seq({a, b, c, d}) /\ Len(<<a, b, c, d>>) = 4
    OBVIOUS
  <2> QED
    BY <2>1 DEF IsScript
<1>5. ASSUME NEW a, NEW b, NEW c, NEW d, NEW e PROVE IsScript(<<a, b, c, d, e>>) /\ Len(<<a, b, c,
               d, e>>) = 5
  <2>1. <<a, b, c, d, e>> \in Seq({a, b, c, d, e}) /\ Len(<<a, b, c, d, e>>) = 5
    OBVIOUS
  <2> QED
    BY <2>1 DEF IsScript
<1>6. ASSUME NEW a, NEW b, NEW c, NEW d, NEW e, NEW f,
               NEW g PROVE IsScript(<<a, b, c, d, e, f, g>>) /\ Len(<<a, b, c, d, e, f, g>>) = 7
  <2>1. <<a, b, c, d, e, f, g>> \in Seq({a, b, c, d, e, f, g}) /\ Len(<<a, b, c, d, e, f, g>>) = 7
    OBVIOUS
  <2> QED
    BY <2>1 DEF IsScript
<1>7. ASSUME NEW a, NEW b, NEW c, NEW d, NEW e, NEW f, NEW g, NEW h, NEW i,
               NEW j PROVE IsScript(<<a, b, c, d, e, f, g, h, i, j>>) /\ Len(<<a, b, c, d, e, f, g,
                 h, i, j>>) = 10
  <2>1. <<a, b, c, d, e, f, g, h, i, j>> \in Seq({a, b, c, d, e, f, g, h, i, j}) /\ Len(<<a, b, c,
          d, e, f, g, h, i, j>>) = 10
    OBVIOUS
  <2> QED
    BY <2>1 DEF IsScript
<1> QED
  BY <1>1, <1>2, <1>3, <1>4, <1>5, <1>6, <1>7

LEMMA PromiseKept == \A k \in 1..Newest : Promises[k] \subseteq Kept
BY DEF Kept, Promised

-----------------------------------------------------------------------------
(* The migrations that only add: each of these executes mild statements and*)
(* delivers its promise.                                                   *)

LEMMA Takes000 == \A db : Simple(M000(db), db, Promises[1])
<1> TAKE db
<1> DEFINE X == Kept \intersect Tables({"users", "download_settings", "tracks", "user_playlists",
             "playlist_tracks", "download_jobs", "token_blacklist"})
<1>1. Simple(M000(db), db, X)
  <2>1. IsScript(M000(db)) /\ Len(M000(db)) = 10 /\ \A i \in 1..10 : Mild(M000(db)[i])
    BY TupleScripts, MildStatements DEF M000
  <2>2. \A t \in {"users", "download_settings", "tracks", "user_playlists", "playlist_tracks",
          "download_jobs", "token_blacklist"} : \E i \in 1..10 : Provided(M000(db)[i]) = Kept
            \intersect Table(t)
    BY ProvidedStatements DEF M000, Trigger
  <2> QED
    BY <2>1, <2>2, SimpleCreates
<1>2. Promises[1] \subseteq X
  BY PromiseKept, Promise1 DEF Newest, Fields, Tables, ListedIn
<1> QED
  BY <1>1, <1>2, SimpleWeaker

LEMMA Takes001 == \A db : Simple(M001(db), db, Promises[2])
<1> TAKE db
<1> DEFINE a == Missing(db, "tracks", <<"duration", "filepath", "source_id", "file_hash",
             "source_provider">>)
           X == Kept \intersect Fields("tracks", ListedIn(<<"duration", "filepath", "source_id",
             "file_hash", "source_provider">>))
<1>1. Simple(a, db, X)
  BY TupleScripts, SimpleMissing
<1>2. Promises[2] \subseteq X
  BY PromiseKept, Promise2 DEF Newest, Fields, Tables, ListedIn
<1> QED
  BY <1>1, <1>2, SimpleWeaker DEF M001

LEMMA Takes002 == \A db : Simple(M002(db), db, Promises[3])
<1> TAKE db
<1> DEFINE X == Kept \intersect Tables({"user_favorites"})
<1>1. Simple(M002(db), db, X)
  <2>1. IsScript(M002(db)) /\ Len(M002(db)) = 2 /\ \A i \in 1..2 : Mild(M002(db)[i])
    BY TupleScripts, MildStatements DEF M002
  <2>2. \A t \in {"user_favorites"} : \E i \in 1..2 : Provided(M002(db)[i]) = Kept
          \intersect Table(t)
    BY ProvidedStatements DEF M002, Trigger
  <2> QED
    BY <2>1, <2>2, SimpleCreates
<1>2. Promises[3] \subseteq X
  BY PromiseKept, Promise3 DEF Newest, Fields, Tables, ListedIn
<1> QED
  BY <1>1, <1>2, SimpleWeaker

LEMMA Takes003 == \A db : Simple(M003(db), db, Promises[4])
<1> TAKE db
<1> DEFINE a == Missing(db, "download_settings", <<"lastfm_api_key", "lastfm_shared_secret",
             "youtube_cookies", "metadata_preferences">>)
           X == Kept \intersect Fields("download_settings",
             ListedIn(<<"lastfm_api_key", "lastfm_shared_secret", "youtube_cookies",
               "metadata_preferences">>))
<1>1. Simple(a, db, X)
  BY TupleScripts, SimpleMissing
<1>2. Promises[4] \subseteq X
  BY PromiseKept, Promise4 DEF Newest, Fields, Tables, ListedIn
<1> QED
  BY <1>1, <1>2, SimpleWeaker DEF M003

LEMMA Takes004 == \A db : Simple(M004(db), db, Promises[5])
<1> TAKE db
<1> DEFINE a == << CreateIf("playlists", {}), CreateIf("playlist_items", {"track_id_not_null"}) >>
           b == (IF Exists(db, "playlists") THEN Missing(db, "playlists",
             <<"is_public", "source_playlist_id">>) ELSE <<>>)
           X == Kept \intersect Tables({"playlists", "playlist_items"})
<1>1. Simple(a, db, X)
  <2>1. IsScript(a) /\ Len(a) = 2 /\ \A i \in 1..2 : Mild(a[i])
    BY TupleScripts, MildStatements
  <2>2. \A t \in {"playlists", "playlist_items"} : \E i \in 1..2 : Provided(a[i]) = Kept
          \intersect Table(t)
    BY ProvidedStatements DEF Trigger
  <2> HIDE DEF a
  <2> QED
    BY <2>1, <2>2, SimpleCreates
<1>2. Simple(b, db, {})
  <2>1. Simple(Missing(db, "playlists", <<"is_public", "source_playlist_id">>), db, {})
    BY TupleScripts, SimpleMissing, SimpleWeaker
  <2> QED
    BY <2>1, SimpleEmpty
<1>3. Promises[5] \subseteq X
  BY PromiseKept, Promise5 DEF Newest, Fields, Tables, ListedIn
<1> HIDE DEF a, b, X
<1>4. Simple(a \o b, db, X \union {})
  BY <1>1, <1>2, SimpleConcat
<1> QED
  BY <1>4, <1>3, SimpleWeaker DEF M004, a, b

LEMMA Takes005 == \A db : Simple(M005(db), db, Promises[6])
<1> TAKE db
<1> DEFINE a == << CreateIf("system_settings", {}) >>
           b == (IF Exists(db, "system_settings") THEN Missing(db, "system_settings",
             <<"autobackup_enabled", "autobackup_hour", "autobackup_minute",
               "autobackup_timezone">>) ELSE <<>>)
           X == Kept \intersect Tables({"system_settings"})
<1>1. Simple(a, db, X)
  <2>1. IsScript(a) /\ Len(a) = 1 /\ \A i \in 1..1 : Mild(a[i])
    BY TupleScripts, MildStatements
  <2>2. \A t \in {"system_settings"} : \E i \in 1..1 : Provided(a[i]) = Kept \intersect Table(t)
    BY ProvidedStatements DEF Trigger
  <2> HIDE DEF a
  <2> QED
    BY <2>1, <2>2, SimpleCreates
<1>2. Simple(b, db, {})
  <2>1. Simple(Missing(db, "system_settings", <<"autobackup_enabled", "autobackup_hour",
          "autobackup_minute", "autobackup_timezone">>), db, {})
    BY TupleScripts, SimpleMissing, SimpleWeaker
  <2> QED
    BY <2>1, SimpleEmpty
<1>3. Promises[6] \subseteq X
  BY PromiseKept, Promise6 DEF Newest, Fields, Tables, ListedIn
<1> HIDE DEF a, b, X
<1>4. Simple(a \o b, db, X \union {})
  BY <1>1, <1>2, SimpleConcat
<1> QED
  BY <1>4, <1>3, SimpleWeaker DEF M005, a, b

LEMMA Takes006 == \A db : Simple(M006(db), db, Promises[7])
<1> TAKE db
<1> DEFINE X == Kept \intersect Tables({"admin_jobs", "admin_operation_locks", "backup_artifacts"})
<1>1. Simple(M006(db), db, X)
  <2>1. IsScript(M006(db)) /\ Len(M006(db)) = 4 /\ \A i \in 1..4 : Mild(M006(db)[i])
    BY TupleScripts, MildStatements DEF M006
  <2>2. \A t \in {"admin_jobs", "admin_operation_locks", "backup_artifacts"} : \E i \in 1..4 :
          Provided(M006(db)[i]) = Kept \intersect Table(t)
    BY ProvidedStatements DEF M006, Trigger
  <2> QED
    BY <2>1, <2>2, SimpleCreates
<1>2. Promises[7] \subseteq X
  BY PromiseKept, Promise7 DEF Newest, Fields, Tables, ListedIn
<1> QED
  BY <1>1, <1>2, SimpleWeaker

LEMMA Takes007 == \A db : Simple(M007(db), db, Promises[8])
<1> TAKE db
<1> DEFINE a == Missing(db, "system_settings", <<"autobackup_timezone">>)
           X == Kept \intersect Fields("system_settings", ListedIn(<<"autobackup_timezone">>))
<1>1. Simple(a, db, X)
  BY TupleScripts, SimpleMissing
<1>2. Promises[8] \subseteq X
  BY PromiseKept, Promise8 DEF Newest, Fields, Tables, ListedIn
<1> QED
  BY <1>1, <1>2, SimpleWeaker DEF M007

LEMMA Takes008 == \A db : Simple(M008(db), db, Promises[9])
<1> TAKE db
<1> DEFINE a == Missing(db, "system_settings", <<"update_state_json">>)
           X == Kept \intersect Fields("system_settings", ListedIn(<<"update_state_json">>))
<1>1. Simple(a, db, X)
  BY TupleScripts, SimpleMissing
<1>2. Promises[9] \subseteq X
  BY PromiseKept, Promise9 DEF Newest, Fields, Tables, ListedIn
<1> QED
  BY <1>1, <1>2, SimpleWeaker DEF M008

LEMMA Takes009 == \A db : \A done \in Attempts : Simple(M009(done), db, Promises[10])
<1> TAKE db
<1> TAKE done \in Attempts
<1>1. \A i \in 1..5 : Mild(FullText[i])
  BY MildStatements DEF FullText
<1> DEFINE S == {FullText[i] : i \in 1..5}
<1>2. done \in Int /\ 1 \in Int /\ \A i \in 1..done : FullText[i] \in S /\ Mild(FullText[i])
  BY <1>1 DEF Attempts
<1> HIDE DEF S
<1>3. /\ M009(done) \in Seq(S) /\ Len(M009(done)) = done
      /\ \A i \in 1..done : M009(done)[i] = FullText[i]
  <2>1. /\ SubSeq(FullText, 1, done) \in Seq(S)
        /\ Len(SubSeq(FullText, 1, done)) = IF 1 <= done THEN done - 1 + 1 ELSE 0
        /\ \A i \in 1..(done - 1 + 1) : SubSeq(FullText, 1, done)[i] = FullText[1 + i - 1]
    BY <1>2, SubSeqProperties
  <2>2. /\ done - 1 + 1 = done /\ (IF 1 <= done THEN done - 1 + 1 ELSE 0) = done
        /\ \A i \in 1..done : 1 + i - 1 = i
    BY DEF Attempts
  <2> QED
    BY <2>1, <2>2 DEF M009
<1>4. IsScript(M009(done)) /\ \A i \in 1..Len(M009(done)) : Mild(M009(done)[i])
  BY <1>2, <1>3 DEF IsScript
<1> QED
  BY <1>4, Promise10, SimpleMild

LEMMA Takes010 == \A db : Simple(M010(db), db, Promises[11])
<1> TAKE db
<1> DEFINE a == Missing(db, "playlists", <<"cover_path", "cover_track_id">>)
           X == Kept \intersect Fields("playlists", ListedIn(<<"cover_path", "cover_track_id">>))
<1>1. Simple(a, db, X)
  BY TupleScripts, SimpleMissing
<1>2. Promises[11] \subseteq X
  BY PromiseKept, Promise11 DEF Newest, Fields, Tables, ListedIn
<1> QED
  BY <1>1, <1>2, SimpleWeaker DEF M010

LEMMA Takes011 == \A db : Simple(M011(db), db, Promises[12])
<1> TAKE db
<1> DEFINE a == Missing(db, "tracks", <<"artist_norm", "title_norm", "version_tag", "fingerprint">>)
           b == << Index("tracks", {"artist_norm", "title_norm", "version_tag", "fingerprint"}) >>
           X == Kept \intersect Fields("tracks", ListedIn(<<"artist_norm", "title_norm",
             "version_tag", "fingerprint">>))
<1>1. Simple(a, db, X)
  BY TupleScripts, SimpleMissing
<1>2. Simple(b, db, {})
  BY TupleScripts, MildStatements, SimpleMild
<1>3. Promises[12] \subseteq X
  BY PromiseKept, Promise12 DEF Newest, Fields, Tables, ListedIn
<1> HIDE DEF a, b, X
<1>4. Simple(a \o b, db, X \union {})
  BY <1>1, <1>2, SimpleConcat
<1> QED
  BY <1>4, <1>3, SimpleWeaker DEF M011, a, b

LEMMA Takes012 == \A db : Simple(M012(db), db, Promises[13])
<1> TAKE db
<1> DEFINE a == Missing(db, "download_jobs", <<"requested_title", "requested_source">>)
           X == Kept \intersect Fields("download_jobs",
             ListedIn(<<"requested_title", "requested_source">>))
<1>1. Simple(a, db, X)
  BY TupleScripts, SimpleMissing
<1>2. Promises[13] \subseteq X
  BY PromiseKept, Promise13 DEF Newest, Fields, Tables, ListedIn
<1> QED
  BY <1>1, <1>2, SimpleWeaker DEF M012

LEMMA Takes013 == \A db : Simple(M013(db), db, Promises[14])
<1> TAKE db
<1> DEFINE a == Missing(db, "download_jobs", <<"target_modern_playlist_id">>)
           b == (IF \E d \in db.cells : d[1] = "user_playlists" THEN <<Adopt>> ELSE <<>>)
           X == Kept \intersect Fields("download_jobs", ListedIn(<<"target_modern_playlist_id">>))
<1>1. Simple(a, db, X)
  BY TupleScripts, SimpleMissing
<1>2. Simple(b, db, {})
  <2>1. Simple(<<Adopt>>, db, {})
    BY TupleScripts, MildStatements, SimpleMild
  <2> QED
    BY <2>1, SimpleEmpty
<1>3. Promises[14] \subseteq X
  BY PromiseKept, Promise14 DEF Newest, Fields, Tables, ListedIn
<1> HIDE DEF a, b, X
<1>4. Simple(a \o b, db, X \union {})
  BY <1>1, <1>2, SimpleConcat
<1> QED
  BY <1>4, <1>3, SimpleWeaker DEF M013, a, b

LEMMA Takes016 == \A db : Simple(M016(db), db, Promises[17])
<1> TAKE db
<1> DEFINE a == << CreateIf("system_settings", {"update_state_json"}) >>
           b == Missing(db, "system_settings", <<"wrapped_enabled", "wrapped_visible_from",
             "wrapped_visible_until", "wrapped_artist_clip_message">>)
           Y == Kept \intersect Fields("system_settings",
             ListedIn(<<"wrapped_enabled", "wrapped_visible_from", "wrapped_visible_until",
               "wrapped_artist_clip_message">>))
<1>1. Simple(a, db, {})
  BY TupleScripts, MildStatements, SimpleMild
<1>2. Simple(b, db, Y)
  BY TupleScripts, SimpleMissing
<1>3. Promises[17] \subseteq Y
  BY PromiseKept, Promise17 DEF Newest, Fields, Tables, ListedIn
<1> HIDE DEF a, b, Y
<1>4. Simple(a \o b, db, {} \union Y)
  BY <1>1, <1>2, SimpleConcat
<1> QED
  BY <1>4, <1>3, SimpleWeaker DEF M016, a, b

LEMMA Takes017 == \A db : Simple(M017(db), db, Promises[18])
<1> TAKE db
<1> DEFINE X == Kept \intersect Tables({"track_delete_requests"})
<1>1. Simple(M017(db), db, X)
  <2>1. IsScript(M017(db)) /\ Len(M017(db)) = 2 /\ \A i \in 1..2 : Mild(M017(db)[i])
    BY TupleScripts, MildStatements DEF M017
  <2>2. \A t \in {"track_delete_requests"} : \E i \in 1..2 : Provided(M017(db)[i]) = Kept
          \intersect Table(t)
    BY ProvidedStatements DEF M017, Trigger
  <2> QED
    BY <2>1, <2>2, SimpleCreates
<1>2. Promises[18] \subseteq X
  BY PromiseKept, Promise18 DEF Newest, Fields, Tables, ListedIn
<1> QED
  BY <1>1, <1>2, SimpleWeaker

LEMMA Takes019 == \A db : Simple(M019(db), db, Promises[20])
<1> TAKE db
<1> DEFINE a == Missing(db, "users", <<"is_service_account">>)
           b == << CreateIf("federated_instances", {}), CreateIf("federated_tracks", {}),
             Index("federated_tracks", {"instance_id", "remote_id", "title_norm", "artist_norm"}) >>
           X == Kept \intersect Fields("users", ListedIn(<<"is_service_account">>))
           Y == Kept \intersect Tables({"federated_instances", "federated_tracks"})
<1>1. Simple(a, db, X)
  BY TupleScripts, SimpleMissing
<1>2. Simple(b, db, Y)
  <2>1. IsScript(b) /\ Len(b) = 3 /\ \A i \in 1..3 : Mild(b[i])
    BY TupleScripts, MildStatements
  <2>2. \A t \in {"federated_instances", "federated_tracks"} : \E i \in 1..3 : Provided(b[i])
          = Kept \intersect Table(t)
    BY ProvidedStatements DEF Trigger
  <2> HIDE DEF b
  <2> QED
    BY <2>1, <2>2, SimpleCreates
<1>3. Promises[20] \subseteq X \union Y
  BY PromiseKept, Promise20 DEF Newest, Fields, Tables, ListedIn
<1> HIDE DEF a, b, X, Y
<1>4. Simple(a \o b, db, X \union Y)
  BY <1>1, <1>2, SimpleConcat
<1> QED
  BY <1>4, <1>3, SimpleWeaker DEF M019, a, b

LEMMA Takes020 == \A db : Simple(M020(db), db, Promises[21])
<1> TAKE db
<1> DEFINE X == Kept \intersect Tables({"federation_outbound_peers"})
<1>1. Simple(M020(db), db, X)
  <2>1. IsScript(M020(db)) /\ Len(M020(db)) = 1 /\ \A i \in 1..1 : Mild(M020(db)[i])
    BY TupleScripts, MildStatements DEF M020
  <2>2. \A t \in {"federation_outbound_peers"} : \E i \in 1..1 : Provided(M020(db)[i]) = Kept
          \intersect Table(t)
    BY ProvidedStatements DEF M020, Trigger
  <2> QED
    BY <2>1, <2>2, SimpleCreates
<1>2. Promises[21] \subseteq X
  BY PromiseKept, Promise21 DEF Newest, Fields, Tables, ListedIn
<1> QED
  BY <1>1, <1>2, SimpleWeaker

LEMMA Takes021 == \A db : Simple(M021(db), db, Promises[22])
<1> TAKE db
<1> DEFINE a == Missing(db, "federation_outbound_peers", <<"token_prefix">>)
           b == << Index("federation_outbound_peers", {"token_prefix"}) >>
           X == Kept \intersect Fields("federation_outbound_peers", ListedIn(<<"token_prefix">>))
<1>1. Simple(a, db, X)
  BY TupleScripts, SimpleMissing
<1>2. Simple(b, db, {})
  BY TupleScripts, MildStatements, SimpleMild
<1>3. Promises[22] \subseteq X
  BY PromiseKept, Promise22 DEF Newest, Fields, Tables, ListedIn
<1> HIDE DEF a, b, X
<1>4. Simple(a \o b, db, X \union {})
  BY <1>1, <1>2, SimpleConcat
<1> QED
  BY <1>4, <1>3, SimpleWeaker DEF M021, a, b

LEMMA Takes022 == \A db : Simple(M022(db), db, Promises[23])
<1> TAKE db
<1> DEFINE a == Missing(db, "tracks", <<"genre", "year", "metadata_scanned_at">>)
           b == << Index("tracks", {"genre", "year"}) >>
           c == Missing(db, "playlists", <<"smart_rules_json", "smart_updated_at">>)
           X == Kept \intersect Fields("tracks", ListedIn(<<"genre", "year",
             "metadata_scanned_at">>))
           Z == Kept \intersect Fields("playlists",
             ListedIn(<<"smart_rules_json", "smart_updated_at">>))
<1>1. Simple(a, db, X)
  BY TupleScripts, SimpleMissing
<1>2. Simple(b, db, {})
  BY TupleScripts, MildStatements, SimpleMild
<1>3. Simple(c, db, Z)
  BY TupleScripts, SimpleMissing
<1>4. Promises[23] \subseteq X \union Z
  BY PromiseKept, Promise23 DEF Newest, Fields, Tables, ListedIn
<1> HIDE DEF a, b, c, X, Z
<1>5. Simple(a \o b, db, X \union {})
  BY <1>1, <1>2, SimpleConcat
<1>6. Simple((a \o b) \o c, db, (X \union {}) \union Z)
  BY <1>5, <1>3, SimpleConcat
<1> QED
  BY <1>6, <1>4, SimpleWeaker DEF M022, a, b, c

LEMMA Takes023 == \A db : Simple(M023(db), db, Promises[24])
<1> TAKE db
<1> DEFINE a == Missing(db, "users", <<"session_version">>)
           X == Kept \intersect Fields("users", ListedIn(<<"session_version">>))
<1>1. Simple(a, db, X)
  BY TupleScripts, SimpleMissing
<1>2. Promises[24] \subseteq X
  BY PromiseKept, Promise24 DEF Newest, Fields, Tables, ListedIn
<1> QED
  BY <1>1, <1>2, SimpleWeaker DEF M023

LEMMA Takes024 == \A db : Simple(M024(db), db, Promises[25])
<1> TAKE db
<1> DEFINE X == Kept \intersect Tables({"party_rooms", "party_room_queue_items"})
<1>1. Simple(M024(db), db, X)
  <2>1. IsScript(M024(db)) /\ Len(M024(db)) = 4 /\ \A i \in 1..4 : Mild(M024(db)[i])
    BY TupleScripts, MildStatements DEF M024
  <2>2. \A t \in {"party_rooms", "party_room_queue_items"} : \E i \in 1..4 : Provided(M024(db)[i])
          = Kept \intersect Table(t)
    BY ProvidedStatements DEF M024, Trigger
  <2> QED
    BY <2>1, <2>2, SimpleCreates
<1>2. Promises[25] \subseteq X
  BY PromiseKept, Promise25 DEF Newest, Fields, Tables, ListedIn
<1> QED
  BY <1>1, <1>2, SimpleWeaker

LEMMA Takes026 == \A db : Simple(M026(db), db, Promises[27])
<1> TAKE db
<1> DEFINE a == Missing(db, "tracks", <<"gain_db", "peak", "loudness_measured_at">>)
           X == Kept \intersect Fields("tracks", ListedIn(<<"gain_db", "peak",
             "loudness_measured_at">>))
<1>1. Simple(a, db, X)
  BY TupleScripts, SimpleMissing
<1>2. Promises[27] \subseteq X
  BY PromiseKept, Promise27 DEF Newest, Fields, Tables, ListedIn
<1> QED
  BY <1>1, <1>2, SimpleWeaker DEF M026

LEMMA Takes027 == \A db : Simple(M027(db), db, Promises[28])
<1> TAKE db
<1> DEFINE a == Missing(db, "playback_queue_states", <<"volume">>)
           X == Kept \intersect Fields("playback_queue_states", ListedIn(<<"volume">>))
<1>1. Simple(a, db, X)
  BY TupleScripts, SimpleMissing
<1>2. Promises[28] \subseteq X
  BY PromiseKept, Promise28 DEF Newest, Fields, Tables, ListedIn
<1> QED
  BY <1>1, <1>2, SimpleWeaker DEF M027

LEMMA Takes028 == \A db : Simple(M028(db), db, Promises[29])
<1> TAKE db
<1> DEFINE a == Missing(db, "system_settings", <<"downloader_mode">>)
           X == Kept \intersect Fields("system_settings", ListedIn(<<"downloader_mode">>))
<1>1. Simple(a, db, X)
  BY TupleScripts, SimpleMissing
<1>2. Promises[29] \subseteq X
  BY PromiseKept, Promise29 DEF Newest, Fields, Tables, ListedIn
<1> QED
  BY <1>1, <1>2, SimpleWeaker DEF M028

LEMMA Takes029 == \A db : Simple(M029(db), db, Promises[30])
<1> TAKE db
<1> DEFINE X == Kept \intersect Tables({"trg_playlist_clear_download_jobs",
             "trg_track_cleanup_references"})
<1>1. Simple(M029(db), db, X)
  <2>1. IsScript(M029(db)) /\ Len(M029(db)) = 2 /\ \A i \in 1..2 : Mild(M029(db)[i])
    BY TupleScripts, MildStatements DEF M029
  <2>2. \A t \in {"trg_playlist_clear_download_jobs", "trg_track_cleanup_references"} :
          \E i \in 1..2 : Provided(M029(db)[i]) = Kept \intersect Table(t)
    BY ProvidedStatements DEF M029, Trigger
  <2> QED
    BY <2>1, <2>2, SimpleCreates
<1>2. Promises[30] \subseteq X
  BY PromiseKept, Promise30 DEF Newest, Fields, Tables, ListedIn
<1> QED
  BY <1>1, <1>2, SimpleWeaker

LEMMA Takes030 == \A db : Simple(M030(db), db, Promises[31])
<1> TAKE db
<1> DEFINE a == Missing(db, "playlists", <<"is_collaborative", "revision">>)
           b == << CreateIf("playlist_collaborators", {}) >>
           X == Kept \intersect Fields("playlists", ListedIn(<<"is_collaborative", "revision">>))
           Y == Kept \intersect Tables({"playlist_collaborators"})
<1>1. Simple(a, db, X)
  BY TupleScripts, SimpleMissing
<1>2. Simple(b, db, Y)
  <2>1. IsScript(b) /\ Len(b) = 1 /\ \A i \in 1..1 : Mild(b[i])
    BY TupleScripts, MildStatements
  <2>2. \A t \in {"playlist_collaborators"} : \E i \in 1..1 : Provided(b[i]) = Kept
          \intersect Table(t)
    BY ProvidedStatements DEF Trigger
  <2> HIDE DEF b
  <2> QED
    BY <2>1, <2>2, SimpleCreates
<1>3. Promises[31] \subseteq X \union Y
  BY PromiseKept, Promise31 DEF Newest, Fields, Tables, ListedIn
<1> HIDE DEF a, b, X, Y
<1>4. Simple(a \o b, db, X \union Y)
  BY <1>1, <1>2, SimpleConcat
<1> QED
  BY <1>4, <1>3, SimpleWeaker DEF M030, a, b

LEMMA Takes031 == \A db : Simple(M031(db), db, Promises[32])
<1> TAKE db
<1> DEFINE a == Missing(db, "party_rooms", <<"is_federated">>)
           b == Missing(db, "party_room_queue_items",
             <<"fed_instance_id", "fed_remote_id", "remote_title", "remote_artist", "remote_album",
               "remote_duration", "remote_thumbnail">>)
           c == << CreateChild("party_room_federated_peers", {}, "party_rooms") >>
           X == Kept \intersect Fields("party_rooms", ListedIn(<<"is_federated">>))
           Y == Kept \intersect Fields("party_room_queue_items",
             ListedIn(<<"fed_instance_id", "fed_remote_id", "remote_title", "remote_artist",
               "remote_album", "remote_duration", "remote_thumbnail">>))
           Z == Kept \intersect Tables({"party_room_federated_peers"})
<1>1. Simple(a, db, X)
  BY TupleScripts, SimpleMissing
<1>2. Simple(b, db, Y)
  BY TupleScripts, SimpleMissing
<1>3. Simple(c, db, Z)
  <2>1. IsScript(c) /\ Len(c) = 1 /\ \A i \in 1..1 : Mild(c[i])
    BY TupleScripts, MildStatements
  <2>2. \A t \in {"party_room_federated_peers"} : \E i \in 1..1 : Provided(c[i]) = Kept
          \intersect Table(t)
    BY ProvidedStatements DEF Trigger
  <2> HIDE DEF c
  <2> QED
    BY <2>1, <2>2, SimpleCreates
<1>4. Promises[32] \subseteq X \union Y \union Z
  BY PromiseKept, Promise32 DEF Newest, Fields, Tables, ListedIn
<1> HIDE DEF a, b, c, X, Y, Z
<1>5. Simple(a \o b, db, X \union Y)
  BY <1>1, <1>2, SimpleConcat
<1>6. Simple((a \o b) \o c, db, (X \union Y) \union Z)
  BY <1>5, <1>3, SimpleConcat
<1> QED
  BY <1>6, <1>4, SimpleWeaker DEF M031, a, b, c

LEMMA Takes032 == \A db : Simple(M032(db), db, Promises[33])
<1> TAKE db
<1> DEFINE a == Missing(db, "playlists", <<"kind">>)
           b == Missing(db, "download_jobs", <<"target_position">>)
           X == Kept \intersect Fields("playlists", ListedIn(<<"kind">>))
           Y == Kept \intersect Fields("download_jobs", ListedIn(<<"target_position">>))
<1>1. Simple(a, db, X)
  BY TupleScripts, SimpleMissing
<1>2. Simple(b, db, Y)
  BY TupleScripts, SimpleMissing
<1>3. Promises[33] \subseteq X \union Y
  BY PromiseKept, Promise33 DEF Newest, Fields, Tables, ListedIn
<1> HIDE DEF a, b, X, Y
<1>4. Simple(a \o b, db, X \union Y)
  BY <1>1, <1>2, SimpleConcat
<1> QED
  BY <1>4, <1>3, SimpleWeaker DEF M032, a, b

LEMMA Takes034 == \A db : Simple(M034(db), db, Promises[35])
<1> TAKE db
<1> DEFINE a == Missing(db, "users", <<"theme">>)
           X == Kept \intersect Fields("users", ListedIn(<<"theme">>))
<1>1. Simple(a, db, X)
  BY TupleScripts, SimpleMissing
<1>2. Promises[35] \subseteq X
  BY PromiseKept, Promise35 DEF Newest, Fields, Tables, ListedIn
<1> QED
  BY <1>1, <1>2, SimpleWeaker DEF M034

LEMMA Takes036 == \A db : Simple(M036(db), db, Promises[37])
<1> TAKE db
<1> DEFINE X == Kept \intersect Tables({"native_collection_operations"})
<1>1. Simple(M036(db), db, X)
  <2>1. IsScript(M036(db)) /\ Len(M036(db)) = 1 /\ \A i \in 1..1 : Mild(M036(db)[i])
    BY TupleScripts, MildStatements DEF M036
  <2>2. \A t \in {"native_collection_operations"} : \E i \in 1..1 : Provided(M036(db)[i]) = Kept
          \intersect Table(t)
    BY ProvidedStatements DEF M036, Trigger
  <2> QED
    BY <2>1, <2>2, SimpleCreates
<1>2. Promises[37] \subseteq X
  BY PromiseKept, Promise37 DEF Newest, Fields, Tables, ListedIn
<1> QED
  BY <1>1, <1>2, SimpleWeaker

LEMMA Takes037 == \A db : Simple(M037(db), db, Promises[38])
<1> TAKE db
<1> DEFINE a == Missing(db, "users", <<"native_account_id">>)
           b == (IF \E d \in db.cells : d[1] = "users" THEN <<Update("users")>> ELSE <<>>)
           c == << Index("users", {"native_account_id"}) >>
           X == Kept \intersect Fields("users", ListedIn(<<"native_account_id">>))
<1>1. Simple(a, db, X)
  BY TupleScripts, SimpleMissing
<1>2. Simple(b, db, {})
  <2>1. Simple(<<Update("users")>>, db, {})
    BY TupleScripts, MildStatements, SimpleMild
  <2> QED
    BY <2>1, SimpleEmpty
<1>3. Simple(c, db, {})
  BY TupleScripts, MildStatements, SimpleMild
<1>4. Promises[38] \subseteq X
  BY PromiseKept, Promise38 DEF Newest, Fields, Tables, ListedIn
<1> HIDE DEF a, b, c, X
<1>5. Simple(a \o b, db, X \union {})
  BY <1>1, <1>2, SimpleConcat
<1>6. Simple((a \o b) \o c, db, (X \union {}) \union {})
  BY <1>5, <1>3, SimpleConcat
<1> QED
  BY <1>6, <1>4, SimpleWeaker DEF M037, a, b, c

-----------------------------------------------------------------------------
(* Migration 014 creates indexes only. Then what the migrations that rebuild*)
(* a table share: rows copied out and back are the rows there were.        *)

LEMMA Takes014 == \A db : Simple(M014(db), db, {})
<1> TAKE db
<1> DEFINE wanted == << Index("tracks", {"created_at"}),
                   Index("tracks", {"artist_norm", "title_norm", "fingerprint"}),
                   Index("tracks", {"source_provider", "created_at"}),
                   Index("playlist_items", {"playlist_id"}), Index("playlist_items", {"track_id"}),
                   Index("playlist_items", {"playlist_id", "position"}),
                   Index("download_jobs", {"user_id", "created_at"}),
                   Index("download_jobs", {"status", "created_at"}),
                   Index("user_favorites", {"user_id", "track_id"}) >>
           todo == [i \in DOMAIN wanted |-> IF ({wanted[i].table} \X wanted[i].cols)
             \subseteq db.cols
                                            THEN wanted[i] ELSE Skip]
<1>1. DOMAIN wanted = 1..9 /\ \A i \in 1..9 : Mild(wanted[i])
  BY MildStatements
<1> HIDE DEF wanted
<1>2. todo \in Seq({wanted[i] : i \in 1..9} \union {Skip}) /\ Len(todo) = 9
  BY <1>1
<1>3. \A i \in 1..9 : Mild(todo[i])
  BY <1>1, MildStatements
<1>4. todo = M014(db)
  BY DEF M014, wanted
<1> HIDE DEF todo
<1> QED
  BY <1>2, <1>3, <1>4 DEF Simple, IsScript

LEMMA HarmlessFrom ==
  ASSUME NEW todo, IsScript(todo), NEW k \in 1..Len(todo), IsWrite(todo[k]),
         \A i \in 1..(k - 1) : Mild(todo[i]) /\ Provided(todo[i]) = {},
         NEW P, P \subseteq Kept,
         \A C : IsPrecious(C) =>
           \E J : /\ Annotates(J, todo) /\ \A i \in 0..(k - 1) : J[i] = Home(C, P)
                  /\ J[Len(todo)] = Home(C, P \union ProvidedBy(todo, Len(todo)))
  PROVE  Harmless(todo, P)
<1>1. Len(todo) \in Nat
  BY ScriptFacts
<1>2. ASSUME NEW i \in 0..Len(todo), NoWrite(todo, i) PROVE i \in 0..(k - 1)
  <2>1. CASE k <= i
    <3>1. k \in 1..i
      BY <1>1, <2>1
    <3> QED
      BY <3>1, <1>2 DEF NoWrite
  <2> QED
    BY <1>1, <2>1
<1>3. \A i \in 1..Len(todo) : NoWrite(todo, i) => Mild(todo[i])
  <2> SUFFICES ASSUME NEW i \in 1..Len(todo), NoWrite(todo, i) PROVE Mild(todo[i])
    OBVIOUS
  <2>1. i \in 0..Len(todo)
    BY <1>1
  <2>2. i \in 1..(k - 1)
    BY <1>1, <1>2, <2>1
  <2> QED
    BY <2>2
<1>4. ASSUME NEW i \in 0..(k - 1) PROVE P \union ProvidedBy(todo, i) = P
  <2>1. \A j \in 1..i : j \in 1..(k - 1)
    BY <1>1
  <2>2. ProvidedBy(todo, i) = {}
    BY <2>1 DEF ProvidedBy
  <2> QED
    BY <2>2
<1> QED
  BY <1>2, <1>3, <1>4 DEF Harmless

(* The rows and columns of T come back under their name. *)
LEMMA MovedBack ==
  ASSUME NEW T, NEW V, T # V, Base(T) \subseteq Base(V),
         NEW C, \A x \in C : x = <<x[1], x[2], x[3]>> /\ x[1] # V,
         NEW P, \A c \in P : c = <<c[1], c[2]>> /\ c[1] # V /\ (c[1] = T => c[2] \in Base(V)),
         NEW R, NEW S, {<<Named(r[1], V, T), Named(r[2], V, T)>> : r \in R} \subseteq S,
         NEW d, Fits(d, Shape(Besides(C, T) \union Moved(C, T, V), Besides(P, T), R)),
         ~Refused(d, Rename(V, T))
  PROVE  Fits(Executed(d, Rename(V, T)), Shape(C, P \union ({T} \X Base(V)), S))
<1> DEFINE X == Besides(C, T) \union Moved(C, T, V)
           Q == Besides(P, T)
           Y == {<<Named(x[1], V, T), x[2], x[3]>> : x \in X}
           Z == {<<Named(c[1], V, T), c[2]>> : c \in Q \union Table(V)}
           U == {<<Named(r[1], V, T), Named(r[2], V, T)>> : r \in R}
<1>1. C \subseteq Y
  <2> SUFFICES ASSUME NEW x \in C PROVE x \in Y
    OBVIOUS
  <2>1. CASE x[1] = T
    <3>1. <<V, x[2], x[3]>> \in X
      BY <2>1 DEF Moved
    <3>2. <<T, x[2], x[3]>> \in Y
      BY <3>1 DEF Named
    <3> QED
      BY <2>1, <3>2
  <2>2. CASE x[1] # T
    <3>1. x \in X
      BY <2>2 DEF Besides
    <3>2. <<x[1], x[2], x[3]>> \in Y
      BY <3>1 DEF Named
    <3> QED
      BY <3>2
  <2> QED
    BY <2>1, <2>2
<1>2. {T} \X Base(V) \subseteq Z
  <2> SUFFICES ASSUME NEW b \in Base(V) PROVE <<T, b>> \in Z
    OBVIOUS
  <2>1. <<V, b>> \in Q \union Table(V)
    BY DEF Table
  <2> QED
    BY <2>1 DEF Named
<1>3. P \subseteq Z
  <2> SUFFICES ASSUME NEW c \in P PROVE c \in Z
    OBVIOUS
  <2>1. CASE c[1] = T
    BY <2>1, <1>2
  <2>2. CASE c[1] # T
    <3>1. c \in Q \union Table(V)
      BY <2>2 DEF Besides
    <3>2. <<c[1], c[2]>> \in Z
      BY <3>1 DEF Named
    <3> QED
      BY <3>2
  <2> QED
    BY <2>1, <2>2
<1>4. Fits(Executed(d, Rename(V, T)), Shape(Y, Z, U))
  <2> HIDE DEF X, Q
  <2>1. Fits(d, Shape(X, Q, R))
    BY DEF X, Q
  <2> QED
    BY <2>1, RenameShape
<1>5. U \subseteq S /\ P \union ({T} \X Base(V)) \subseteq Z
  BY <1>2, <1>3
<1> HIDE DEF Y, Z, U
<1> QED
  BY <1>1, <1>4, <1>5, FitsWeaker

(* What is dropped has been copied. *)
LEMMA DropsCopied ==
  ASSUME NEW T, NEW V, T # V, NEW C, NEW P, NEW R, \A x \in Besides(C, T) : <<x[1], T>> \notin R,
         <<V, T>> \notin R,
         NEW d, Fits(d, Shape(C \union Moved(C, T, V), P, R))
  PROVE  Fits(Dropped(d, T), Shape(Besides(C, T) \union Moved(C, T, V), Besides(P, T), R))
<1> DEFINE X == C \union Moved(C, T, V)
           Y == {x \in X : x[1] # T /\ <<x[1], T>> \notin R}
           Z == Besides(C, T) \union Moved(C, T, V)
<1>1. Fits(Dropped(d, T), Shape(Y, Besides(P, T), Besides(R, T)))
  <2> HIDE DEF X
  <2>1. Fits(d, Shape(X, P, R))
    BY DEF X
  <2> QED
    BY <2>1, DropShape
<1>2. Z \subseteq Y
  <2>1. \A x \in Moved(C, T, V) : x[1] = V
    BY DEF Moved
  <2> QED
    BY <2>1 DEF Besides
<1>3. Besides(R, T) \subseteq R
  BY DEF Besides
<1> HIDE DEF Y, Z
<1>4. Fits(Dropped(d, T), Shape(Z, Besides(P, T), R))
  BY <1>1, <1>2, <1>3, FitsWeaker
<1> QED
  BY <1>4 DEF Z

-----------------------------------------------------------------------------
(* Migration 018 rebuilds track_delete_requests.                           *)

LEMMA HomeFacts ==
  ASSUME NEW C, IsPrecious(C), NEW P, P \subseteq Kept
  PROVE  /\ \A x \in C : x = <<x[1], x[2], x[3]>> /\ x[1] \notin Copies
                         /\ x[1] # "party_room_federated_peers"
         /\ \A c \in P : /\ c = <<c[1], c[2]>> /\ c[1] \notin Copies
                         /\ c[1] = "track_delete_requests"
                              => c[2] \in Base("track_delete_requests_v2")
                         /\ c[1] = "playlist_items" => c[2] \in Base("playlist_items_federated")
                         /\ c[1] \in ListedIn(ItemTriggers) => c[2] \in Base(c[1])
<1>1. \A x \in C : x
        = <<x[1], x[2], x[3]>> /\ x[1] \notin Copies /\ x[1] # "party_room_federated_peers"
  BY DEF IsPrecious, Valued, Copies, Spare
<1>2. ListedIn(ItemTriggers) = {"trg_playlist_clear_download_jobs", "trg_track_cleanup_references"}
  BY DEF ListedIn, ItemTriggers
<1> QED
  BY <1>1, <1>2, KeptConfined DEF Confined

LEMMA MildNothing ==
  ASSUME NEW C, IsPrecious(C), NEW P, P \subseteq Kept, NEW d, Fits(d, Home(C, P)),
         NEW s, Mild(s), Provided(s) = {}, ~Refused(d, s)
  PROVE  Fits(Executed(d, s), Home(C, P))
<1>1. P \union {} = P
  OBVIOUS
<1> QED
  BY <1>1, MildKeeps

LEMMA NothingProvided ==
  /\ \A t : Provided(DropIf(t)) = {} /\ Provided(Drop(t)) = {}
  /\ \A t, p : Provided(CreateNew(t, p)) = {} /\ Provided(Copy(t, p)) = {}
  /\ \A t, c : Provided(Index(t, c)) = {}
  /\ \A t, c, u : Provided(CopyColumn(t, c, u)) = {} /\ Provided(DropColumn(t, c)) = {}
  /\ Provided(Skip) = {}
BY DEF Provided, DropIf, Drop, CreateNew, Copy, Index, CopyColumn, DropColumn, Skip, Statement

LEMMA CopyWrites == \A t, to : IsWrite(Copy(t, to))
BY DEF IsWrite, Copy, Statement

SwapRequests ==
  << DropIf("track_delete_requests_v2"), CreateNew("track_delete_requests_v2", "none"),
     Copy("track_delete_requests", "track_delete_requests_v2"),
     Drop("track_delete_requests"),
     Rename("track_delete_requests_v2", "track_delete_requests") >>

LEMMA RequestsHarmless ==
  ASSUME NEW P, P \subseteq Kept
  PROVE  Harmless(SwapRequests, P)
<1> DEFINE todo == SwapRequests
           T == "track_delete_requests"
           V == "track_delete_requests_v2"
<1>1. /\ todo \in Seq({todo[i] : i \in 1..5}) /\ Len(todo) = 5
      /\ todo[1] = DropIf(V) /\ todo[2] = CreateNew(V, "none") /\ todo[3] = Copy(T, V)
      /\ todo[4] = Drop(T) /\ todo[5] = Rename(V, T)
  BY DEF SwapRequests
<1> HIDE DEF todo
<1>2. \A i \in 1..2 : Mild(todo[i]) /\ Provided(todo[i]) = {}
  <2>1. V \in Copies
    BY DEF Copies, Spare
  <2> QED
    BY <1>1, <2>1, MildStatements, NothingProvided
<1>3. P \union ({T} \X Base(V)) = P \union ProvidedBy(todo, 5)
                                    \union ({T} \X Base(V))
  <2>1. \A i \in 1..4 : Provided(todo[i]) = {}
    BY <1>1, NothingProvided
  <2>2. ProvidedBy(todo, 5) \subseteq {T} \X Base(V)
    BY <1>1, <2>1, ProvidedStatements DEF ProvidedBy
  <2> QED
    BY <2>2
<1>4. ASSUME NEW C, IsPrecious(C)
      PROVE  \E J : /\ Annotates(J, todo) /\ \A i \in 0..2 : J[i] = Home(C, P)
                    /\ J[5] = Home(C, P \union ProvidedBy(todo, 5))
  <2> DEFINE J == [i \in 0..5 |->
                     IF i <= 2 THEN Home(C, P)
                     ELSE IF i = 3 THEN Shape(C \union Moved(C, T, V), P, Hanging)
                     ELSE IF i = 4 THEN Shape(Besides(C, T) \union Moved(C, T, V), Besides(P, T),
                       Hanging)
                     ELSE Home(C, P \union ProvidedBy(todo, 5))]
  <2>1. /\ J[0] = Home(C, P) /\ J[1] = Home(C, P) /\ J[2] = Home(C, P)
        /\ J[3] = Shape(C \union Moved(C, T, V), P, Hanging)
        /\ J[4] = Shape(Besides(C, T) \union Moved(C, T, V), Besides(P, T), Hanging)
        /\ J[5] = Home(C, P \union ProvidedBy(todo, 5))
    OBVIOUS
  <2> HIDE DEF J
  <2>2. ASSUME NEW d, Fits(d, J[0]), ~Refused(d, todo[1]) PROVE Fits(Executed(d, todo[1]), J[1])
    BY <1>2, <1>4, <2>1, <2>2, MildNothing
  <2>3. ASSUME NEW d, Fits(d, J[1]), ~Refused(d, todo[2]) PROVE Fits(Executed(d, todo[2]), J[2])
    BY <1>2, <1>4, <2>1, <2>3, MildNothing
  <2>4. ASSUME NEW d, Fits(d, J[2]), ~Refused(d, todo[3]) PROVE Fits(Executed(d, todo[3]), J[3])
    BY <1>1, <2>1, <2>4, CopyShape DEF Home
  <2>5. ASSUME NEW d, Fits(d, J[3]), ~Refused(d, todo[4]) PROVE Fits(Executed(d, todo[4]), J[4])
    <3>1. \A x : <<x, T>> \notin Hanging
      BY DEF Hanging
    <3>2. Executed(d, Drop(T)) = Dropped(d, T)
      BY DEF Executed, Drop, Statement
    <3> QED
      BY <1>1, <2>1, <2>5, <3>1, <3>2, DropsCopied
  <2>6. ASSUME NEW d, Fits(d, J[4]), ~Refused(d, todo[5]) PROVE Fits(Executed(d, todo[5]), J[5])
    <3>1. {<<Named(r[1], V, T), Named(r[2], V, T)>> : r \in Hanging} \subseteq Hanging
      BY DEF Hanging, Named
    <3>2. V \in Copies
      BY DEF Copies, Spare
    <3>3. /\ \A x \in C : x = <<x[1], x[2], x[3]>> /\ x[1] # V
          /\ \A c \in P : c = <<c[1], c[2]>> /\ c[1] # V /\ (c[1] = T => c[2] \in Base(V))
      BY <1>4, <3>2, HomeFacts
    <3>4. Fits(Executed(d, Rename(V, T)), Shape(C, P \union ({T} \X Base(V)), Hanging))
      BY <1>1, <2>1, <2>6, <3>1, <3>3, MovedBack, BaseSwaps
    <3>5. P \union ProvidedBy(todo, 5) \subseteq P \union ({T} \X Base(V))
      BY <1>3
    <3> QED
      BY <1>1, <2>1, <3>4, <3>5, FitsWeaker DEF Home
  <2>7. Annotates(J, todo)
    <3> SUFFICES ASSUME NEW i \in 1..5, NEW d, Fits(d, J[i - 1]), ~Refused(d, todo[i])
                 PROVE  Fits(Executed(d, todo[i]), J[i])
      BY <1>1 DEF Annotates
    <3> QED
      BY <2>2, <2>3, <2>4, <2>5, <2>6
  <2> QED
    BY <2>1, <2>7
<1>5. IsScript(todo) /\ 3 \in 1..Len(todo) /\ IsWrite(todo[3])
  BY <1>1, CopyWrites DEF IsScript
<1>6. Harmless(todo, P)
  <2>1. 3 - 1 = 2 /\ Len(todo) = 5
    BY <1>1
  <2> QED
    BY <2>1, <1>2, <1>4, <1>5, HarmlessFrom
<1> QED
  BY <1>6 DEF todo

-----------------------------------------------------------------------------
(* Migration 025 rebuilds party_rooms and their queues.                    *)

SwapRooms ==
  << DropIf("party_room_queue_items_v2"), DropIf("party_rooms_v2"),
     CreateNew("party_rooms_v2", "none"),
     Copy("party_rooms", "party_rooms_v2"),
     CreateNew("party_room_queue_items_v2", QueueParent),
     Copy("party_room_queue_items", "party_room_queue_items_v2"),
     Drop("party_room_queue_items"), Drop("party_rooms"),
     Rename("party_rooms_v2", "party_rooms"),
     Rename("party_room_queue_items_v2", "party_room_queue_items"),
     Index("party_rooms", {"owner_id"}), Index("party_room_queue_items", QueueColumns) >>

LEMMA RoomsConfined ==
  ASSUME NEW P, P \subseteq Promised(26)
  PROVE  P \subseteq Kept
         /\ \A c \in P : /\ c = <<c[1], c[2]>> /\ c[1] \notin Copies
                         /\ c[1] = "party_rooms" => c[2] \in Base("party_rooms_v2")
                         /\ c[1] = "party_room_queue_items"
                              => c[2] \in Base("party_room_queue_items_v2")
<1>1. \A c \in P : \E k \in 1..26 : c \in Promises[k]
  BY DEF Promised
<1>2. \A k \in 1..26 : k \in 1..Newest /\ k <= 26
  BY DEF Newest
<1>3. \A c \in P : \E k \in 1..Newest : c \in Promises[k] /\ k <= 26 /\ Confined(c, k)
  BY <1>1, <1>2, PromisesConfined
<1> QED
  BY <1>3 DEF Kept, Promised, Confined

LEMMA RoomsHarmless ==
  ASSUME NEW P, P \subseteq Promised(26)
  PROVE  Harmless(SwapRooms, P)
<1> DEFINE todo == SwapRooms
           r == "party_rooms"
           rr == "party_rooms_v2"
           q == "party_room_queue_items"
           qq == "party_room_queue_items_v2"
           Mid == Hanging \union {<<qq, rr>>}
           Renamed == Hanging \union {<<qq, r>>}
           P1 == Besides(P, q)
           P2 == P \union ({r} \X Base(rr))
           P3 == P2 \union ({q} \X Base(qq))
           Q == P \union ProvidedBy(todo, 12)
<1>1. /\ todo \in Seq({todo[i] : i \in 1..12}) /\ Len(todo) = 12
      /\ todo[1] = DropIf(qq) /\ todo[2] = DropIf(rr) /\ todo[3] = CreateNew(rr, "none")
      /\ todo[4] = Copy(r, rr) /\ todo[5] = CreateNew(qq, rr) /\ todo[6] = Copy(q, qq)
      /\ todo[7] = Drop(q) /\ todo[8] = Drop(r) /\ todo[9] = Rename(rr, r) /\ todo[10]
           = Rename(qq, q)
      /\ todo[11] = Index(r, {"owner_id"}) /\ todo[12] = Index(q, QueueColumns)
  BY DEF SwapRooms, QueueParent
<1> HIDE DEF todo
<1>2. qq \in Copies /\ rr \in Copies /\ r \notin Copies /\ q \notin Copies
  BY DEF Copies, Spare
<1>3. \A i \in 1..3 : Mild(todo[i]) /\ Provided(todo[i]) = {}
  <2>1. Mild(DropIf(qq)) /\ Mild(DropIf(rr)) /\ Mild(CreateNew(rr, "none"))
    BY <1>2, MildStatements
  <2>2. Provided(DropIf(qq)) = {} /\ Provided(DropIf(rr)) = {} /\ Provided(CreateNew(rr, "none"))
          = {}
    BY NothingProvided
  <2>3. \A i \in 1..3 : i = 1 \/ i = 2 \/ i = 3
    OBVIOUS
  <2> QED
    BY <1>1, <2>1, <2>2, <2>3
<1>4. /\ P \subseteq Kept
      /\ \A c \in P : /\ c = <<c[1], c[2]>> /\ c[1] \notin Copies
                      /\ c[1] = r => c[2] \in Base(rr)
                      /\ c[1] = q => c[2] \in Base(qq)
  BY RoomsConfined
<1>5. ProvidedBy(todo, 12) \subseteq P3 /\ Q \subseteq P3
  <2>1. \A i \in 1..12 : i \notin {9, 10} => Provided(todo[i]) = {}
    BY <1>1, NothingProvided
  <2>2. Provided(todo[9]) \subseteq {r} \X Base(rr) /\ Provided(todo[10]) \subseteq {q} \X Base(qq)
    BY <1>1, ProvidedStatements
  <2>3. ProvidedBy(todo, 12) \subseteq ({r} \X Base(rr)) \union ({q} \X Base(qq))
    BY <2>1, <2>2 DEF ProvidedBy
  <2> QED
    BY <2>3
<1> HIDE DEF Q
<1>6. ASSUME NEW C, IsPrecious(C)
      PROVE  \E J : /\ Annotates(J, todo) /\ \A i \in 0..3 : J[i] = Home(C, P)
                    /\ J[12] = Home(C, Q)
  <2> DEFINE X4 == C \union Moved(C, r, rr)
             C1 == Besides(C, q) \union Moved(C, q, qq)
             X7 == C1 \union Moved(C1, r, rr)
             X8 == Besides(C1, r) \union Moved(C1, r, rr)
             J == [i \in 0..12 |->
                     IF i <= 3 THEN Home(C, P)
                     ELSE IF i = 4 THEN Shape(X4, P, Hanging)
                     ELSE IF i = 5 THEN Shape(X4, P, Mid)
                     ELSE IF i = 6 THEN Shape(X4 \union Moved(X4, q, qq), P, Mid)
                     ELSE IF i = 7 THEN Shape(X7, P1, Mid)
                     ELSE IF i = 8 THEN Shape(X8, Besides(P1, r), Mid)
                     ELSE IF i = 9 THEN Shape(C1, Besides(P2, q), Renamed)
                     ELSE Home(C, Q)]
  <2>1. /\ J[0] = Home(C, P) /\ J[1] = Home(C, P) /\ J[2] = Home(C, P) /\ J[3] = Home(C, P)
        /\ J[4] = Shape(X4, P, Hanging) /\ J[5] = Shape(X4, P, Mid)
        /\ J[6] = Shape(X4 \union Moved(X4, q, qq), P, Mid)
        /\ J[7] = Shape(X7, P1, Mid) /\ J[8] = Shape(X8, Besides(P1, r), Mid)
        /\ J[9] = Shape(C1, Besides(P2, q), Renamed)
        /\ J[10] = Home(C, Q) /\ J[11] = Home(C, Q) /\ J[12] = Home(C, Q)
    <3> HIDE DEF X4, C1, X7, X8, P1, P2, Mid, Renamed
    <3> QED
      OBVIOUS
  <2> HIDE DEF J
  <2>2. \A x \in C : x
          = <<x[1], x[2], x[3]>> /\ x[1] \notin Copies /\ x[1] # "party_room_federated_peers"
    BY <1>4, <1>6, HomeFacts
  <2>3. ASSUME NEW i \in 1..3, NEW d, Fits(d, J[i - 1]), ~Refused(d, todo[i])
        PROVE  Fits(Executed(d, todo[i]), J[i])
    <3>1. J[i - 1] = Home(C, P) /\ J[i] = Home(C, P)
      BY <2>1
    <3> QED
      BY <1>3, <1>4, <1>6, <2>3, <3>1, MildNothing
  <2>4. ASSUME NEW d, Fits(d, J[3]), ~Refused(d, todo[4]) PROVE Fits(Executed(d, todo[4]), J[4])
    BY <1>1, <2>1, <2>4, CopyShape DEF Home
  <2>5. ASSUME NEW d, Fits(d, J[4]), ~Refused(d, todo[5]) PROVE Fits(Executed(d, todo[5]), J[5])
    <3> DEFINE s == CreateNew(qq, rr)
    <3>1. /\ s.op \in {"create", "createnew"} /\ Base(s.table) \subseteq s.cols
          /\ s.table = qq /\ s.to = rr
      BY DEF CreateNew, Statement
    <3>0. Hanging \subseteq Mid
      OBVIOUS
    <3>3. s.to = "none" \/ <<s.table, s.to>> \in Mid
      BY <3>1
    <3> HIDE DEF s, X4, Mid
    <3>2. Fits(d, Shape(X4, P, Mid))
      <4>1. X4 \subseteq X4 /\ P \subseteq P
        OBVIOUS
      <4>2. Fits(d, Shape(X4, P, Hanging))
        BY <2>1, <2>5
      <4> QED
        BY <3>0, <4>1, <4>2, FitsWeaker
    <3>4. Fits(Executed(d, s), Shape(X4, P \union Table(s.table), Mid))
      BY <3>1, <3>2, <3>3, CreateKeeps
    <3>5. Fits(Executed(d, s), Shape(X4, P, Mid))
      <4>1. X4 \subseteq X4 /\ P \subseteq P \union Table(s.table) /\ Mid \subseteq Mid
        OBVIOUS
      <4> QED
        BY <3>4, <4>1, FitsWeaker
    <3> QED
      BY <1>1, <2>1, <3>5 DEF s
  <2>6. ASSUME NEW d, Fits(d, J[5]), ~Refused(d, todo[6]) PROVE Fits(Executed(d, todo[6]), J[6])
    <3> HIDE DEF X4
    <3> QED
      BY <1>1, <2>1, <2>6, CopyShape
  <2>7. ASSUME NEW d, Fits(d, J[6]), ~Refused(d, todo[7]) PROVE Fits(Executed(d, todo[7]), J[7])
    <3>1. Fits(d, Shape(X4 \union Moved(X4, q, qq), P, Mid))
      BY <2>1, <2>7
    <3>2. \A x : <<x, q>> \notin Mid
      BY DEF Hanging
    <3>3. Executed(d, Drop(q)) = Dropped(d, q)
      BY DEF Executed, Drop, Statement
    <3>4. Fits(Dropped(d, q), Shape(Besides(X4, q) \union Moved(X4, q, qq), P1, Mid))
      <4> HIDE DEF X4, Mid
      <4> QED
        BY <3>1, <3>2, DropsCopied
    <3>5. X7 \subseteq Besides(X4, q) \union Moved(X4, q, qq)
      <4>1. Besides(C, q) \subseteq Besides(X4, q)
        BY DEF Besides
      <4>2. Moved(C, q, qq) \subseteq Moved(X4, q, qq)
        BY DEF Moved
      <4>3. Moved(C1, r, rr) \subseteq Moved(C, r, rr)
        BY DEF Moved, Besides
      <4>4. Moved(C, r, rr) \subseteq Besides(X4, q)
        <5>1. \A x \in Moved(C, r, rr) : x[1] = rr
          BY DEF Moved
        <5> QED
          BY <5>1 DEF Besides
      <4> HIDE DEF X4
      <4> QED
        BY <4>1, <4>2, <4>3, <4>4
    <3> HIDE DEF X4, X7, Mid, P1
    <3> QED
      BY <1>1, <2>1, <3>3, <3>4, <3>5, FitsWeaker
  <2>8. ASSUME NEW d, Fits(d, J[7]), ~Refused(d, todo[8]) PROVE Fits(Executed(d, todo[8]), J[8])
    <3>1. Executed(d, Drop(r)) = Dropped(d, r)
      BY DEF Executed, Drop, Statement
    <3>2. \A x \in Besides(C1, r) : <<x[1], r>> \notin Mid
      <4>1. \A x \in C1 : x[1] # q /\ x[1] # "party_room_federated_peers"
        BY <2>2 DEF Besides, Moved
      <4> QED
        BY <4>1 DEF Besides, Hanging
    <3>3. <<rr, r>> \notin Mid
      BY DEF Hanging
    <3> HIDE DEF C1, Mid, P1
    <3> QED
      BY <1>1, <2>1, <2>8, <3>1, <3>2, <3>3, DropsCopied
  <2>9. ASSUME NEW d, Fits(d, J[8]), ~Refused(d, todo[9]) PROVE Fits(Executed(d, todo[9]), J[9])
    <3>1. {<<Named(x[1], rr, r), Named(x[2], rr, r)>> : x \in Mid} \subseteq Renamed
      BY DEF Hanging, Named
    <3>2. \A x \in C1 : x = <<x[1], x[2], x[3]>> /\ x[1] # rr
      BY <1>2, <2>2 DEF Besides, Moved
    <3>3. \A c \in P1 : c = <<c[1], c[2]>> /\ c[1] # rr /\ (c[1] = r => c[2] \in Base(rr))
      BY <1>2, <1>4 DEF Besides
    <3>4. Besides(P2, q) \subseteq P1 \union ({r} \X Base(rr))
      BY DEF Besides
    <3> HIDE DEF C1, P1, P2, Mid, Renamed
    <3>5. Fits(Executed(d, Rename(rr, r)), Shape(C1, P1 \union ({r} \X Base(rr)), Renamed))
      BY <1>1, <2>1, <2>9, <3>1, <3>2, <3>3, MovedBack, BaseSwaps
    <3> QED
      BY <1>1, <2>1, <3>4, <3>5, FitsWeaker
  <2>10. ASSUME NEW d, Fits(d, J[9]), ~Refused(d, todo[10]) PROVE Fits(Executed(d, todo[10]), J[10])
    <3>1. {<<Named(x[1], qq, q), Named(x[2], qq, q)>> : x \in Renamed} \subseteq Hanging
      BY DEF Hanging, Named
    <3>2. \A x \in C : x = <<x[1], x[2], x[3]>> /\ x[1] # qq
      BY <1>2, <2>2
    <3>3. \A c \in P2 : c = <<c[1], c[2]>> /\ c[1] # qq /\ (c[1] = q => c[2] \in Base(qq))
      <4>1. \A c \in {r} \X Base(rr) : c = <<c[1], c[2]>> /\ c[1] = r
        BY Pairs
      <4> QED
        BY <1>2, <1>4, <4>1
    <3> HIDE DEF P2, Renamed
    <3>4. Fits(Executed(d, Rename(qq, q)), Shape(C, P2 \union ({q} \X Base(qq)), Hanging))
      BY <1>1, <2>1, <2>10, <3>1, <3>2, <3>3, MovedBack, BaseSwaps
    <3> QED
      BY <1>1, <1>5, <2>1, <3>4, FitsWeaker DEF Home
  <2>11. ASSUME NEW i \in 11..12, NEW d, Fits(d, J[i - 1]), ~Refused(d, todo[i])
         PROVE  Fits(Executed(d, todo[i]), J[i])
    <3>1. J[i - 1] = Home(C, Q) /\ J[i] = Home(C, Q)
      BY <2>1
    <3>2. Mild(todo[i]) /\ Provided(todo[i]) = {}
      BY <1>1, MildStatements, NothingProvided
    <3>3. Q \subseteq Kept
      BY <1>4 DEF Q, ProvidedBy, Provided
    <3> QED
      BY <1>6, <2>11, <3>1, <3>2, <3>3, MildNothing
  <2>12. Annotates(J, todo)
    <3> SUFFICES ASSUME NEW i \in 1..12, NEW d, Fits(d, J[i - 1]), ~Refused(d, todo[i])
                 PROVE  Fits(Executed(d, todo[i]), J[i])
      BY <1>1 DEF Annotates
    <3> QED
      BY <2>3, <2>4, <2>5, <2>6, <2>7, <2>8, <2>9, <2>10, <2>11
  <2> QED
    BY <2>1, <2>12
<1>7. IsScript(todo) /\ 4 \in 1..Len(todo) /\ IsWrite(todo[4])
  BY <1>1, CopyWrites DEF IsScript
<1>8. Harmless(todo, P)
  <2>1. 4 - 1 = 3 /\ Len(todo) = 12
    BY <1>1
  <2> QED
    BY <2>1, <1>3, <1>4, <1>6, <1>7, HarmlessFrom DEF Q
<1> QED
  BY <1>8 DEF todo

-----------------------------------------------------------------------------
(* Migrations put together from a rebuilding and from mild statements.     *)

(* A script that keeps what it finds and delivers S to a database like db. *)
Serves(todo, db, S) ==
  /\ IsScript(todo)
  /\ \A i \in 1..Len(todo) : todo[i].op # "register"
  /\ S \subseteq db.cols \union ProvidedBy(todo, Len(todo))
  /\ \A P : P \subseteq Kept => Harmless(todo, P)

LEMMA MildRegistersNothing == \A s : Mild(s) => s.op # "register"
BY DEF Mild, Grows, ThemeBack, RenameColumn, Statement

LEMMA SimpleServes ==
  ASSUME NEW todo, NEW db, NEW S, Simple(todo, db, S)
  PROVE  Serves(todo, db, S)
<1>1. \A i \in 1..Len(todo) : todo[i].op # "register"
  BY MildRegistersNothing DEF Simple
<1> QED
  BY <1>1, HarmlessMild DEF Simple, Serves

LEMMA ProvidedInKept == \A todo, i : ProvidedBy(todo, i) \subseteq Kept
BY DEF ProvidedBy, Provided

LEMMA ServesConcat ==
  ASSUME NEW a, NEW b, NEW db, NEW S, NEW T, Serves(a, db, S), Serves(b, db, T)
  PROVE  Serves(a \o b, db, S \union T)
<1>1. IsScript(a \o b) /\ Len(a \o b) = Len(a) + Len(b) /\ Len(a) \in Nat /\ Len(b) \in Nat
  BY ConcatFacts DEF Serves
<1>2. ProvidedBy(a \o b, Len(a) + Len(b)) = ProvidedBy(a, Len(a)) \union ProvidedBy(b, Len(b))
  <2>1. Len(b) \in 0..Len(b)
    BY <1>1
  <2> QED
    BY <2>1, ProvidedConcat DEF Serves
<1>4. \A i \in 1..Len(a \o b) : (a \o b)[i].op # "register"
  <2> SUFFICES ASSUME NEW i \in 1..Len(a) + Len(b) PROVE (a \o b)[i].op # "register"
    BY <1>1
  <2>1. CASE i <= Len(a)
    <3>1. i \in 1..Len(a) /\ (a \o b)[i] = a[i]
      BY <1>1, <2>1, ConcatFacts DEF Serves
    <3> QED
      BY <3>1 DEF Serves
  <2>2. CASE ~(i <= Len(a))
    <3>1. i - Len(a) \in 1..Len(b) /\ Len(a) + (i - Len(a)) = i
      BY <1>1, <2>2
    <3>2. (a \o b)[i] = b[i - Len(a)]
      BY <3>1, ConcatFacts DEF Serves
    <3> QED
      BY <3>1, <3>2 DEF Serves
  <2> QED
    BY <2>1, <2>2
<1>3. ASSUME NEW P, P \subseteq Kept PROVE Harmless(a \o b, P)
  <2>1. P \union ProvidedBy(a, Len(a)) \subseteq Kept
    BY <1>3, ProvidedInKept
  <2> QED
    BY <1>3, <2>1, HarmlessConcat DEF Serves
<1> QED
  BY <1>1, <1>2, <1>3, <1>4 DEF Serves

LEMMA ServesWeaker ==
  ASSUME NEW todo, NEW db, NEW S, Serves(todo, db, S), NEW T, T \subseteq S
  PROVE  Serves(todo, db, T)
BY DEF Serves

LEMMA Takes015 ==
  ASSUME NEW db, Exists(db, "download_jobs")
  PROVE  Simple(M015(db), db, Promises[16])
<1> DEFINE names == <<"original_input_url", "requested_artist", "requested_album",
             "resolution_mode",
                  "resolved_title", "resolved_artist", "resolved_album", "resolved_track_id",
                  "resolved_track_count", "engine_used", "fallback_reason", "error_type">>
           F == Fields("download_jobs", ListedIn(names))
           index == << Index("download_jobs", {"resolved_track_id", "engine_used", "error_type"}) >>
           queue == << CreateIf("playback_queue_states", {}),
                       Index("playback_queue_states", {"user_id"}) >>
           N == {"original_input_url", "requested_artist", "requested_album", "resolution_mode",
                 "resolved_title", "resolved_artist", "resolved_album", "resolved_track_id",
                 "resolved_track_count", "engine_used", "fallback_reason", "error_type"}
<1>1. names \in Seq(N) /\ N = ListedIn(names)
  BY DEF ListedIn
<1>2. Promises[16] = F \union Table("playback_queue_states")
  BY <1>1, Promise16
<1>3. index \in Seq({index[1]}) /\ Len(index) = 1 /\ \A i \in 1..1 : Mild(index[i])
  BY MildStatements
<1>4. /\ queue \in Seq({queue[i] : i \in 1..2}) /\ Len(queue) = 2
      /\ \A i \in 1..2 : Mild(queue[i])
      /\ Provided(queue[1]) = Kept \intersect Table("playback_queue_states")
  BY MildStatements, ProvidedStatements
<1>5. M015(db) = (Missing(db, "download_jobs", names) \o index) \o queue
  BY DEF M015
<1>6. F \union Table("playback_queue_states") \subseteq Kept
  BY <1>2, PromiseKept DEF Newest
<1> HIDE DEF names, index, queue, F, N
<1>7. IsScript(names) /\ IsScript(index) /\ IsScript(queue)
  BY <1>1, <1>3, <1>4 DEF IsScript
<1>8. Simple(Missing(db, "download_jobs", names), db, F)
  <2>1. F \subseteq Kept /\ F \subseteq Fields("download_jobs", ListedIn(names))
    BY <1>6 DEF F
  <2> QED
    BY <1>7, <2>1, MissingAdds
<1>9. Simple(index, db, {})
  BY <1>3, <1>7 DEF Simple
<1>10. Simple(queue, db, Table("playback_queue_states"))
  BY <1>4, <1>6, <1>7 DEF Simple, ProvidedBy
<1>11. Simple(Missing(db, "download_jobs", names) \o index, db, F \union {})
  BY <1>8, <1>9, SimpleConcat
<1>12. Simple(M015(db), db, (F \union {}) \union Table("playback_queue_states"))
  BY <1>5, <1>10, <1>11, SimpleConcat
<1> QED
  BY <1>2, <1>12

LEMMA Takes018 ==
  ASSUME NEW db, Table("track_delete_requests") \subseteq db.cols
  PROVE  Serves(M018(db), db, Promises[19])
<1> DEFINE T == "track_delete_requests"
           indexes == << Index(T, RequestColumns \union {"user_seen_at"}) >>
<1>1. Exists(db, T)
  BY BaseHasId DEF Exists, Table
<1>2. Promises[19] = {<<T, "user_seen_at">>}
  BY Promise19 DEF Fields
<1>3. Simple(indexes, db, {})
  <2>1. indexes \in Seq({indexes[1]}) /\ Len(indexes) = 1 /\ \A i \in 1..1 : Mild(indexes[i])
    BY MildStatements
  <2> HIDE DEF indexes
  <2> QED
    BY <2>1 DEF Simple, IsScript
<1>4. CASE Has(db, T, "user_seen_at") /\ M018(db) = indexes
  <2>1. Simple(indexes, db, Promises[19])
    <3>1. Promises[19] \subseteq Kept
      BY PromiseKept DEF Newest
    <3> QED
      BY <1>2, <1>3, <1>4, <3>1 DEF Simple, Has
  <2> QED
    BY <1>4, <2>1, SimpleServes
<1>5. CASE M018(db) = SwapRequests \o indexes
  <2>1. Serves(SwapRequests, db, Promises[19])
    <3>1. /\ SwapRequests \in Seq({SwapRequests[i] : i \in 1..5}) /\ Len(SwapRequests) = 5
          /\ SwapRequests[5] = Rename("track_delete_requests_v2", T)
      BY DEF SwapRequests
    <3>2. Promises[19] \subseteq Provided(SwapRequests[5])
      <4>1. Promises[19] \subseteq Kept
        BY PromiseKept DEF Newest
      <4> QED
        BY <1>2, <3>1, <4>1, ProvidedStatements, BaseSwaps
    <3>3. Promises[19] \subseteq ProvidedBy(SwapRequests, 5)
      BY <3>2 DEF ProvidedBy
    <3>4. \A i \in 1..5 : SwapRequests[i].op # "register"
      BY DEF SwapRequests, DropIf, CreateNew, Copy, Drop, Rename, Statement
    <3> QED
      BY <3>1, <3>3, <3>4, RequestsHarmless DEF Serves, IsScript
  <2>2. Serves(M018(db), db, Promises[19] \union {})
    <3> HIDE DEF indexes
    <3> QED
      BY <1>3, <1>5, <2>1, SimpleServes, ServesConcat
  <2> QED
    BY <2>2
<1> QED
  BY <1>1, <1>4, <1>5 DEF M018, SwapRequests

LEMMA Takes025 ==
  ASSUME NEW db, Table("party_rooms") \subseteq db.cols, NEW P, P \subseteq Promised(26)
  PROVE  /\ Harmless(M025(db), P)
         /\ \A i \in 1..Len(M025(db)) : M025(db)[i].op # "register"
         /\ Promises[26] \subseteq db.cols \union ProvidedBy(M025(db), Len(M025(db)))
<1> DEFINE R == "party_rooms"
<1>1. Exists(db, R)
  BY BaseHasId DEF Exists, Table
<1>2. Promises[26] = {<<R, "admits_loading">>} /\ Promises[26] \subseteq Kept
  BY Promise26, PromiseKept DEF Fields, Newest
<1>3. CASE Has(db, R, "admits_loading")
  <2>1. M025(db) = <<>>
    BY <1>3 DEF M025
  <2>2. Serves(<<>>, db, {})
    BY SimpleEmpty, SimpleServes
  <2>3. P \subseteq Kept
    BY RoomsConfined
  <2> QED
    BY <1>2, <1>3, <2>1, <2>2, <2>3 DEF Has, Serves
<1>4. CASE ~Has(db, R, "admits_loading")
  <2>1. M025(db) = SwapRooms
    BY <1>1, <1>4 DEF M025, SwapRooms
  <2>2. Len(SwapRooms) = 12 /\ SwapRooms[9] = Rename("party_rooms_v2", R)
    BY DEF SwapRooms
  <2>5. \A i \in 1..12 : SwapRooms[i].op # "register"
    BY DEF SwapRooms, DropIf, CreateNew, Copy, Drop, Rename, Index, Statement
  <2>3. Promises[26] \subseteq Provided(SwapRooms[9])
    BY <1>2, <2>2, ProvidedStatements, BaseSwaps
  <2>4. Promises[26] \subseteq ProvidedBy(SwapRooms, 12)
    BY <2>3 DEF ProvidedBy
  <2> QED
    BY <2>1, <2>2, <2>4, <2>5, RoomsHarmless
<1> QED
  BY <1>3, <1>4

-----------------------------------------------------------------------------
(* Migration 033 rebuilds playlist_items.                                  *)

LEMMA DropOther ==
  ASSUME NEW X, NEW P, NEW R, NEW d, Fits(d, Shape(X, P, R)), NEW t,
         \A x : <<x, t>> \notin R, \A x \in X : x[1] # t
  PROVE  Fits(Executed(d, Drop(t)), Shape(X, Besides(P, t), R))
<1> DEFINE Y == {x \in X : x[1] # t /\ <<x[1], t>> \notin R}
<1>1. Executed(d, Drop(t)) = Dropped(d, t)
  BY DEF Executed, Drop, Statement
<1>2. Fits(Dropped(d, t), Shape(Y, Besides(P, t), Besides(R, t)))
  BY DropShape
<1>3. X \subseteq Y /\ Besides(R, t) \subseteq R /\ Besides(P, t) \subseteq Besides(P, t)
  BY DEF Besides
<1> HIDE DEF Y
<1> QED
  BY <1>1, <1>2, <1>3, FitsWeaker

LEMMA SkipKeeps == \A d : Executed(d, Skip) = d
BY DEF Executed, Skip, Statement

LEMMA TriggerCreates ==
  ASSUME NEW X, NEW P, NEW R, NEW d, Fits(d, Shape(X, P, R)), NEW t
  PROVE  Fits(Executed(d, Trigger(t)), Shape(X, P \union Table(t), R))
<1>1. ASSUME NEW s, s = Trigger(t)
      PROVE  Fits(Executed(d, s), Shape(X, P \union Table(s.table), R))
  <2>1. s.op \in {"create", "createnew"}
    BY <1>1 DEF Trigger, CreateIf, Statement
  <2>2. Base(s.table) \subseteq s.cols
    BY <1>1 DEF Trigger, CreateIf, Statement
  <2>3. s.to = "none" \/ <<s.table, s.to>> \in R
    BY <1>1 DEF Trigger, CreateIf, Statement
  <2> QED
    BY <2>1, <2>2, <2>3, CreateKeeps
<1>2. Trigger(t).table = t
  BY DEF Trigger, CreateIf, Statement
<1> QED
  BY <1>1, <1>2

SwapItems(one, two) ==
  LET IfThere(p, s) == IF p THEN s ELSE Skip
  IN  << CreateNew("playlist_items_federated", "none"),
         Copy("playlist_items", "playlist_items_federated"),
         IfThere(one, Drop(ItemTriggers[1])), IfThere(two, Drop(ItemTriggers[2])),
         Drop("playlist_items"), Rename("playlist_items_federated", "playlist_items"),
         Index("playlist_items", ItemColumns),
         IfThere(one, Trigger(ItemTriggers[1])), IfThere(two, Trigger(ItemTriggers[2])) >>

LEMMA ItemsHarmless ==
  ASSUME NEW one \in BOOLEAN, NEW two \in BOOLEAN, NEW P, P \subseteq Kept
  PROVE  Harmless(SwapItems(one, two), P)
<1> DEFINE todo == SwapItems(one, two)
           T == "playlist_items"
           V == "playlist_items_federated"
           u == "trg_playlist_clear_download_jobs"
           v == "trg_track_cleanup_references"
           P3 == IF one THEN Besides(P, u) ELSE P
           P4 == IF two THEN Besides(P3, v) ELSE P3
           P6 == P4 \union ({T} \X Base(V))
           P8 == IF one THEN P6 \union Table(u) ELSE P6
           P9 == IF two THEN P8 \union Table(v) ELSE P8
           Q == P \union ProvidedBy(todo, 9)
<1>1. /\ todo \in Seq({todo[i] : i \in 1..9}) /\ Len(todo) = 9
      /\ todo[1] = CreateNew(V, "none") /\ todo[2] = Copy(T, V)
      /\ todo[3] = (IF one THEN Drop(u) ELSE Skip) /\ todo[4] = (IF two THEN Drop(v) ELSE Skip)
      /\ todo[5] = Drop(T) /\ todo[6] = Rename(V, T) /\ todo[7] = Index(T, ItemColumns)
      /\ todo[8] = (IF one THEN Trigger(u) ELSE Skip) /\ todo[9]
           = (IF two THEN Trigger(v) ELSE Skip)
  BY DEF SwapItems, ItemTriggers
<1> HIDE DEF todo
<1>2. V \in Copies /\ ListedIn(ItemTriggers) = {u, v}
  BY DEF Copies, Spare, ListedIn, ItemTriggers
<1>3. \A i \in 1..1 : Mild(todo[i]) /\ Provided(todo[i]) = {}
  BY <1>1, MildStatements, NothingProvided
<1>4. /\ \A c \in P : /\ c = <<c[1], c[2]>> /\ c[1] # V
                      /\ c[1] = T => c[2] \in Base(V)
                      /\ c[1] \in {u, v} => c[2] \in Base(c[1])
  <2>1. IsPrecious({})
    BY DEF IsPrecious
  <2> QED
    BY <1>2, <2>1, HomeFacts
<1>5. Q \subseteq P9
  <2>1. Provided(Skip) = {} /\ Provided(Trigger(u)) \subseteq Table(u) /\ Provided(Trigger(v))
          \subseteq Table(v)
    BY ProvidedStatements, NothingProvided DEF Trigger
  <2>2. Provided(todo[6]) \subseteq {T} \X Base(V)
    BY <1>1, ProvidedStatements
  <2>3. \A i \in {1, 2, 5, 7} : Provided(todo[i]) = {}
    BY <1>1, NothingProvided
  <2>4. Provided(todo[3]) = {} /\ Provided(todo[4]) = {}
    BY <1>1, NothingProvided
  <2>5. /\ Provided(todo[8]) \subseteq (IF one THEN Table(u) ELSE {})
        /\ Provided(todo[9]) \subseteq (IF two THEN Table(v) ELSE {})
    BY <1>1, <2>1
  <2>6. \A i \in 1..9 : i \in {1, 2, 5, 7} \/ i = 3 \/ i = 4 \/ i = 6 \/ i = 8 \/ i = 9
    OBVIOUS
  <2>7. \A i \in 1..9 : Provided(todo[i]) \subseteq P9
    BY <2>2, <2>3, <2>4, <2>5, <2>6
  <2>8. ProvidedBy(todo, 9) \subseteq P9
    BY <2>7 DEF ProvidedBy
  <2>9. \A c \in P : (c[1] = u => c \in Table(u)) /\ (c[1] = v => c \in Table(v))
    BY <1>4 DEF Table
  <2>10. P \subseteq P9
    BY <2>9 DEF Besides
  <2> QED
    BY <2>8, <2>10
<1> HIDE DEF Q
<1>6. ASSUME NEW C, IsPrecious(C)
      PROVE  \E J : /\ Annotates(J, todo) /\ \A i \in 0..1 : J[i] = Home(C, P)
                    /\ J[9] = Home(C, Q)
  <2> DEFINE X == C \union Moved(C, T, V)
             Y == Besides(C, T) \union Moved(C, T, V)
             J == [i \in 0..9 |->
                     IF i <= 1 THEN Home(C, P)
                     ELSE IF i = 2 THEN Shape(X, P, Hanging)
                     ELSE IF i = 3 THEN Shape(X, P3, Hanging)
                     ELSE IF i = 4 THEN Shape(X, P4, Hanging)
                     ELSE IF i = 5 THEN Shape(Y, Besides(P4, T), Hanging)
                     ELSE IF i <= 7 THEN Shape(C, P6, Hanging)
                     ELSE IF i = 8 THEN Shape(C, P8, Hanging)
                     ELSE Home(C, Q)]
  <2>1. /\ J[0] = Home(C, P) /\ J[1] = Home(C, P)
        /\ J[2] = Shape(X, P, Hanging) /\ J[3] = Shape(X, P3, Hanging) /\ J[4]
             = Shape(X, P4, Hanging)
        /\ J[5] = Shape(Y, Besides(P4, T), Hanging)
        /\ J[6] = Shape(C, P6, Hanging) /\ J[7] = Shape(C, P6, Hanging)
        /\ J[8] = Shape(C, P8, Hanging) /\ J[9] = Home(C, Q)
    <3> HIDE DEF X, Y, P3, P4, P6, P8
    <3> QED
      OBVIOUS
  <2> HIDE DEF J
  <2>2. \A x \in C : x = <<x[1], x[2], x[3]>> /\ x[1] # V /\ x[1] \notin {u, v}
    BY <1>6 DEF IsPrecious, Valued
  <2>3. /\ \A x : <<x, u>> \notin Hanging /\ <<x, v>> \notin Hanging /\ <<x, T>> \notin Hanging
        /\ \A x \in X : x[1] # u /\ x[1] # v
    BY <2>2 DEF Hanging, Moved
  <2>4. ASSUME NEW d, Fits(d, J[0]), ~Refused(d, todo[1]) PROVE Fits(Executed(d, todo[1]), J[1])
    <3>1. Mild(todo[1]) /\ Provided(todo[1]) = {}
      BY <1>3
    <3> QED
      BY <1>6, <2>1, <2>4, <3>1, MildNothing
  <2>5. ASSUME NEW d, Fits(d, J[1]), ~Refused(d, todo[2]) PROVE Fits(Executed(d, todo[2]), J[2])
    BY <1>1, <2>1, <2>5, CopyShape DEF Home
  <2>6. ASSUME NEW d, Fits(d, J[2]), ~Refused(d, todo[3]) PROVE Fits(Executed(d, todo[3]), J[3])
    <3> HIDE DEF X
    <3>1. CASE one
      BY <1>1, <2>1, <2>3, <2>6, <3>1, DropOther
    <3>2. CASE ~one
      BY <1>1, <2>1, <2>6, <3>2, SkipKeeps
    <3> QED
      BY <3>1, <3>2
  <2>7. ASSUME NEW d, Fits(d, J[3]), ~Refused(d, todo[4]) PROVE Fits(Executed(d, todo[4]), J[4])
    <3> HIDE DEF X, P3
    <3>1. CASE two
      BY <1>1, <2>1, <2>3, <2>7, <3>1, DropOther
    <3>2. CASE ~two
      BY <1>1, <2>1, <2>7, <3>2, SkipKeeps
    <3> QED
      BY <3>1, <3>2
  <2>8. ASSUME NEW d, Fits(d, J[4]), ~Refused(d, todo[5]) PROVE Fits(Executed(d, todo[5]), J[5])
    <3>1. Executed(d, Drop(T)) = Dropped(d, T)
      BY DEF Executed, Drop, Statement
    <3>2. Fits(d, Shape(C \union Moved(C, T, V), P4, Hanging)) /\ T # V
      BY <2>1, <2>8
    <3>3. (\A x \in Besides(C, T) : <<x[1], T>> \notin Hanging) /\ <<V, T>> \notin Hanging
      BY <2>3
    <3> HIDE DEF P4
    <3>4. Fits(Dropped(d, T), Shape(Besides(C, T) \union Moved(C, T, V), Besides(P4, T), Hanging))
      BY <3>2, <3>3, DropsCopied
    <3> QED
      BY <1>1, <2>1, <3>1, <3>4
  <2>9. ASSUME NEW d, Fits(d, J[5]), ~Refused(d, todo[6]) PROVE Fits(Executed(d, todo[6]), J[6])
    <3>1. {<<Named(r[1], V, T), Named(r[2], V, T)>> : r \in Hanging} \subseteq Hanging
      BY DEF Hanging, Named
    <3>2. P4 \subseteq P
      BY DEF Besides
    <3>3. \A c \in P4 : c = <<c[1], c[2]>> /\ c[1] # V /\ (c[1] = T => c[2] \in Base(V))
      BY <1>4, <3>2
    <3> HIDE DEF P4
    <3>4. Fits(d, Shape(Besides(C, T) \union Moved(C, T, V), Besides(P4, T), Hanging))
      BY <2>1, <2>9
    <3>5. T # V /\ Base(T) \subseteq Base(V) /\ ~Refused(d, Rename(V, T))
      BY <1>1, <2>9, BaseSwaps
    <3>6. \A x \in C : x = <<x[1], x[2], x[3]>> /\ x[1] # V
      BY <2>2
    <3>7. Fits(Executed(d, Rename(V, T)), Shape(C, P4 \union ({T} \X Base(V)), Hanging))
      BY <3>1, <3>3, <3>4, <3>5, <3>6, MovedBack
    <3> QED
      BY <1>1, <2>1, <3>7
  <2>10. ASSUME NEW d, Fits(d, J[6]), ~Refused(d, todo[7]) PROVE Fits(Executed(d, todo[7]), J[7])
    <3>1. todo[7].op = "index"
      BY <1>1 DEF Index, Statement
    <3> HIDE DEF P6
    <3> QED
      BY <2>1, <2>10, <3>1, OtherKeeps
  <2>11. ASSUME NEW d, Fits(d, J[7]), ~Refused(d, todo[8]) PROVE Fits(Executed(d, todo[8]), J[8])
    <3> HIDE DEF P6
    <3>1. CASE one
      BY <1>1, <2>1, <2>11, <3>1, TriggerCreates
    <3>2. CASE ~one
      BY <1>1, <2>1, <2>11, <3>2, SkipKeeps
    <3> QED
      BY <3>1, <3>2
  <2>12. ASSUME NEW d, Fits(d, J[8]), ~Refused(d, todo[9]) PROVE Fits(Executed(d, todo[9]), J[9])
    <3>1. Fits(Executed(d, todo[9]), Shape(C, P9, Hanging))
      <4> HIDE DEF P8
      <4>1. CASE two
        BY <1>1, <2>1, <2>12, <4>1, TriggerCreates
      <4>2. CASE ~two
        BY <1>1, <2>1, <2>12, <4>2, SkipKeeps
      <4> QED
        BY <4>1, <4>2
    <3>2. C \subseteq C /\ Hanging \subseteq Hanging
      OBVIOUS
    <3> HIDE DEF P9
    <3> QED
      BY <1>5, <2>1, <3>1, <3>2, FitsWeaker DEF Home
  <2>13. Annotates(J, todo)
    <3> SUFFICES ASSUME NEW i \in 1..9, NEW d, Fits(d, J[i - 1]), ~Refused(d, todo[i])
                 PROVE  Fits(Executed(d, todo[i]), J[i])
      BY <1>1 DEF Annotates
    <3> QED
      BY <2>4, <2>5, <2>6, <2>7, <2>8, <2>9, <2>10, <2>11, <2>12
  <2> QED
    BY <2>1, <2>13
<1>7. IsScript(todo) /\ 2 \in 1..Len(todo) /\ IsWrite(todo[2])
  BY <1>1, CopyWrites DEF IsScript
<1>8. Harmless(todo, P)
  <2>1. 2 - 1 = 1 /\ Len(todo) = 9
    BY <1>1
  <2> QED
    BY <2>1, <1>3, <1>6, <1>7, HarmlessFrom DEF Q
<1> QED
  BY <1>8 DEF todo

-----------------------------------------------------------------------------
(* Migration 033 as a whole; migration 035 rebuilds the column theme.      *)

LEMMA Takes033 == \A db : Serves(M033(db), db, Promises[34])
<1> TAKE db
<1> DEFINE two == <<"source_instance_id", "source_remote_playlist_id">>
           one(i) == Exists(db, ItemTriggers[i])
           rows == SwapItems(one(1), one(2))
           swap == IF ~Has(db, "playlist_items", "track_id_not_null") THEN <<>> ELSE rows
           last == << CreateIf("federated_playlist_collaborators", {}) >>
           a == Missing(db, "playlists", two)
           b == Missing(db, "playlist_items", FederatedColumns)
           Fa == Fields("playlists", ListedIn(two))
           Fb == Fields("playlist_items", ListedIn(FederatedColumns))
           Tc == Table("federated_playlist_collaborators")
<1>1. two \in Seq({"source_instance_id", "source_remote_playlist_id"})
      /\ ListedIn(two) = {"source_instance_id", "source_remote_playlist_id"}
  BY DEF ListedIn
<1>2. FederatedColumns \in Seq({FederatedColumns[i] : i \in 1..5})
  BY DEF FederatedColumns
<1>3. Promises[34] = (Fa \union Fb) \union Tc
  BY <1>1, Promise34
<1>4. (Fa \union Fb) \union Tc \subseteq Kept
  BY <1>3, PromiseKept DEF Newest
<1>5. last \in Seq({last[1]}) /\ Len(last) = 1 /\ Mild(last[1]) /\ Provided(last[1]) = Kept
        \intersect Tc
  BY MildStatements, ProvidedStatements
<1>6. M033(db) = ((a \o b) \o swap) \o last
  BY DEF M033, SwapItems
<1>7. one(1) \in BOOLEAN /\ one(2) \in BOOLEAN
  BY DEF Exists
<1>8. IsScript(two) /\ IsScript(FederatedColumns) /\ IsScript(last)
  <2> HIDE DEF two, last
  <2> QED
    BY <1>1, <1>2, <1>5 DEF IsScript
<1>9. Serves(a, db, Fa)
  <2> HIDE DEF two
  <2>1. Fa \subseteq Kept /\ Fa \subseteq Fields("playlists", ListedIn(two))
    BY <1>4
  <2> HIDE DEF Fa
  <2>2. Simple(a, db, Fa)
    BY <1>8, <2>1, MissingAdds
  <2> QED
    BY <2>2, SimpleServes
<1>10. Serves(b, db, Fb)
  <2>1. Fb \subseteq Kept /\ Fb \subseteq Fields("playlist_items", ListedIn(FederatedColumns))
    BY <1>4
  <2> HIDE DEF Fb
  <2>2. Simple(b, db, Fb)
    BY <1>8, <2>1, MissingAdds
  <2> QED
    BY <2>2, SimpleServes
<1>11. Serves(last, db, Tc)
  <2> HIDE DEF last
  <2>1. Simple(last, db, Tc)
    BY <1>4, <1>5, <1>8 DEF Simple, ProvidedBy
  <2> QED
    BY <2>1, SimpleServes
<1>12. Serves(swap, db, {})
  <2>1. Serves(<<>>, db, {})
    BY SimpleEmpty, SimpleServes
  <2>2. Serves(rows, db, {})
    <3>4. Len(rows) = 9 /\ \A i \in 1..9 : rows[i].op # "register"
      BY DEF SwapItems, CreateNew, Copy, Drop, Rename, Index, Trigger, CreateIf, Skip, Statement
    <3> HIDE DEF rows
    <3>1. \A P : P \subseteq Kept => Harmless(rows, P)
      BY <1>7, ItemsHarmless DEF rows
    <3>2. Harmless(rows, {})
      BY <3>1
    <3> QED
      BY <3>1, <3>2, <3>4 DEF Serves, Harmless
  <2> QED
    BY <2>1, <2>2
<1> HIDE DEF a, b, swap, last, Fa, Fb, Tc
<1>13. Serves(a \o b, db, Fa \union Fb)
  BY <1>9, <1>10, ServesConcat
<1>14. Serves((a \o b) \o swap, db, (Fa \union Fb) \union {})
  BY <1>12, <1>13, ServesConcat
<1>15. Serves(((a \o b) \o swap) \o last, db, ((Fa \union Fb) \union {}) \union Tc)
  BY <1>11, <1>14, ServesConcat
<1>16. ((Fa \union Fb) \union {}) \union Tc = (Fa \union Fb) \union Tc
  OBVIOUS
<1> QED
  BY <1>3, <1>6, <1>15, <1>16

(* The theme. *)

InTheme(x) == x[1] = "users" /\ x[2] \in {"theme"}
Themes(X) == {<<x[1], "theme_next", x[3]>> : x \in {y \in X : InTheme(y)}}

LEMMA CopyThemeShape ==
  ASSUME NEW X, NEW P, NEW R, NEW d, Fits(d, Shape(X, P, R))
  PROVE  Fits(Executed(d, CopyColumn("users", "theme", "theme_next")),
           Shape(X \union Themes(X), P, R))
<1> DEFINE e == Executed(d, CopyColumn("users", "theme", "theme_next"))
           cells == d.cells \union Themes(d.cells)
<1>0. IsDatabase(d) /\ Based(d) /\ X \subseteq d.cells /\ P \subseteq d.cols /\ d.refs \subseteq R
  BY FitsShape
<1>1. e = [d EXCEPT !.cells = cells]
  BY DEF Executed, CopyColumn, Statement, Themes, InTheme
<1>2. e = [cols |-> d.cols, cells |-> cells, refs |-> d.refs, names |-> d.names]
  BY <1>0, <1>1 DEF IsDatabase
<1>3. \A x \in cells : x = <<x[1], x[2], x[3]>> /\ x[3] \in Rows
  BY <1>0 DEF IsDatabase, Themes
<1>4. X \union Themes(X) \subseteq cells
  BY <1>0 DEF Themes
<1> HIDE DEF cells
<1>5. IsDatabase(e) /\ e.cols = d.cols /\ e.cells = cells /\ e.refs = d.refs
  BY <1>0, <1>2, <1>3 DEF IsDatabase
<1>6. Based(e)
  BY <1>0, <1>5 DEF Based
<1> QED
  BY <1>0, <1>4, <1>5, <1>6, FitsShape

LEMMA DropThemeShape ==
  ASSUME NEW X, NEW P, NEW R, NEW d, Fits(d, Shape(X, P, R))
  PROVE  Fits(Executed(d, DropColumn("users", "theme")),
              Shape({x \in X : ~InTheme(x)}, P \ {<<"users", "theme">>}, R))
<1> DEFINE e == Executed(d, DropColumn("users", "theme"))
           cols == d.cols \ {<<"users", "theme">>}
           cells == {x \in d.cells : ~InTheme(x)}
<1>0. IsDatabase(d) /\ Based(d) /\ X \subseteq d.cells /\ P \subseteq d.cols /\ d.refs \subseteq R
  BY FitsShape
<1>1. e = [d EXCEPT !.cols = cols, !.cells = cells]
  <2>1. {"users"} \X {"theme"} = {<<"users", "theme">>}
    OBVIOUS
  <2> QED
    BY <2>1 DEF Executed, DropColumn, Statement, InTheme
<1>2. e = [cols |-> cols, cells |-> cells, refs |-> d.refs, names |-> d.names]
  BY <1>0, <1>1 DEF IsDatabase
<1>3. /\ \A c \in cols : c = <<c[1], c[2]>>
      /\ \A x \in cells : x = <<x[1], x[2], x[3]>> /\ x[3] \in Rows
  BY <1>0 DEF IsDatabase
<1>4. {x \in X : ~InTheme(x)} \subseteq cells /\ P \ {<<"users", "theme">>} \subseteq cols
  BY <1>0
<1>5. Based([cols |-> cols])
  <2> SUFFICES ASSUME NEW c \in d.cols, c[2] = "id", NEW b \in Base(c[1])
               PROVE  <<c[1], b>> \in cols
    BY DEF Based, Table
  <2>1. <<c[1], b>> \in d.cols
    BY <1>0 DEF Based, Table
  <2>2. ~(c[1] = "users" /\ b = "theme")
    BY BaseSwaps
  <2> QED
    BY <2>1, <2>2
<1> HIDE DEF cells, cols
<1>6. IsDatabase(e) /\ e.cols = cols /\ e.cells = cells /\ e.refs = d.refs
  BY <1>0, <1>2, <1>3 DEF IsDatabase
<1>7. Based(e)
  BY <1>5, <1>6 DEF Based
<1> QED
  BY <1>0, <1>4, <1>6, <1>7, FitsShape

SwapTheme == << CopyColumn("users", "theme", "theme_next"), DropColumn("users", "theme"),
  ThemeBack >>

LEMMA ThemeHarmless ==
  ASSUME NEW P, P \subseteq Kept
  PROVE  Harmless(SwapTheme, P)
<1> DEFINE todo == SwapTheme
           theme == <<"users", "theme">>
           Q == P \union ProvidedBy(todo, 3)
<1>1. /\ todo \in Seq({todo[i] : i \in 1..3}) /\ Len(todo) = 3
      /\ todo[1] = CopyColumn("users", "theme", "theme_next")
      /\ todo[2] = DropColumn("users", "theme") /\ todo[3] = ThemeBack
  BY DEF SwapTheme
<1> HIDE DEF todo
<1>2. Q \subseteq P \union {theme}
  <2>1. Provided(todo[1]) = {} /\ Provided(todo[2]) = {} /\ Provided(todo[3]) \subseteq {theme}
    BY <1>1, NothingProvided, ProvidedStatements
  <2>2. \A i \in 1..3 : i = 1 \/ i = 2 \/ i = 3
    OBVIOUS
  <2> QED
    BY <2>1, <2>2 DEF ProvidedBy
<1>3. <<"users", "theme_next">> \notin P
  BY KeptConfined DEF Confined
<1> HIDE DEF Q
<1>4. ASSUME NEW C, IsPrecious(C)
      PROVE  \E J : /\ Annotates(J, todo) /\ \A i \in 0..0 : J[i] = Home(C, P)
                    /\ J[3] = Home(C, Q)
  <2> DEFINE X == C \union Themes(C)
             Y == {x \in X : ~InTheme(x)}
             J == [i \in 0..3 |-> IF i = 0 THEN Home(C, P)
                                  ELSE IF i = 1 THEN Shape(X, P, Hanging)
                                  ELSE IF i = 2 THEN Shape(Y, P \ {theme}, Hanging)
                                  ELSE Home(C, Q)]
  <2>1. /\ J[0] = Home(C, P) /\ J[1] = Shape(X, P, Hanging)
        /\ J[2] = Shape(Y, P \ {theme}, Hanging) /\ J[3] = Home(C, Q)
    <3> HIDE DEF X, Y
    <3> QED
      OBVIOUS
  <2> HIDE DEF J
  <2>2. ASSUME NEW d, Fits(d, J[0]), ~Refused(d, todo[1]) PROVE Fits(Executed(d, todo[1]), J[1])
    BY <1>1, <2>1, <2>2, CopyThemeShape DEF Home
  <2>3. ASSUME NEW d, Fits(d, J[1]), ~Refused(d, todo[2]) PROVE Fits(Executed(d, todo[2]), J[2])
    <3> HIDE DEF X
    <3> QED
      BY <1>1, <2>1, <2>3, DropThemeShape
  <2>4. ASSUME NEW d, Fits(d, J[2]), ~Refused(d, todo[3]) PROVE Fits(Executed(d, todo[3]), J[3])
    <3> DEFINE Z == {IF ThemeCell(x) THEN <<"users", "theme", x[3]>> ELSE x : x \in Y}
               O == ((P \ {theme}) \ {<<"users", "theme_next">>}) \union {theme}
    <3>1. C \subseteq Z
      <4> SUFFICES ASSUME NEW x \in C PROVE x \in Z
        OBVIOUS
      <4>1. x = <<x[1], x[2], x[3]>> /\ <<x[1], x[2]>> \in Valued
        BY <1>4 DEF IsPrecious
      <4>2. ~ThemeCell(x)
        BY <4>1 DEF Valued, ThemeCell
      <4>3. CASE InTheme(x)
        <5> DEFINE y == <<x[1], "theme_next", x[3]>>
        <5>1. y \in Y /\ ThemeCell(y)
          BY <4>3 DEF Themes, InTheme, ThemeCell
        <5>2. x = <<"users", "theme", y[3]>>
          BY <4>1, <4>3 DEF InTheme
        <5> HIDE DEF y
        <5> QED
          BY <5>1, <5>2
      <4>4. CASE ~InTheme(x)
        BY <4>2, <4>4
      <4> QED
        BY <4>3, <4>4
    <3>2. Q \subseteq O
      BY <1>2, <1>3
    <3>3. Fits(Executed(d, ThemeBack), Shape(Z, O, Hanging))
      <4> HIDE DEF Y
      <4> QED
        BY <2>1, <2>4, ThemeBackShape
    <3>4. Hanging \subseteq Hanging
      OBVIOUS
    <3> HIDE DEF Z, O
    <3> QED
      BY <1>1, <2>1, <3>1, <3>2, <3>3, <3>4, FitsWeaker DEF Home
  <2>5. Annotates(J, todo)
    <3> SUFFICES ASSUME NEW i \in 1..3, NEW d, Fits(d, J[i - 1]), ~Refused(d, todo[i])
                 PROVE  Fits(Executed(d, todo[i]), J[i])
      BY <1>1 DEF Annotates
    <3> QED
      BY <2>2, <2>3, <2>4
  <2> QED
    BY <2>1, <2>5
<1>5. IsScript(todo) /\ 1 \in 1..Len(todo) /\ IsWrite(todo[1])
  BY <1>1 DEF IsScript, IsWrite, CopyColumn, Statement
<1>6. Harmless(todo, P)
  <2>1. 1 - 1 = 0 /\ Len(todo) = 3 /\ \A i \in 1..0 : Mild(todo[i]) /\ Provided(todo[i]) = {}
    BY <1>1
  <2> QED
    BY <2>1, <1>4, <1>5, HarmlessFrom DEF Q
<1> QED
  BY <1>6 DEF todo

LEMMA Takes035 == \A db : Serves(M035(db), db, Promises[36])
<1> TAKE db
<1> DEFINE next == <<"theme_next">>
           a == Missing(db, "users", next)
           swap == << CopyColumn("users", "theme", "theme_next"), DropColumn("users", "theme") >>
           back == << ThemeBack >>
<1>1. Promises[36] = {<<"users", "theme">>} /\ Promises[36] \subseteq Kept
  BY Promise36, PromiseKept DEF Fields, Newest
<1>2. next \in Seq({"theme_next"})
  OBVIOUS
<1>3. back \in Seq({ThemeBack}) /\ Len(back) = 1 /\ back[1] = ThemeBack
  OBVIOUS
<1>4. /\ swap \in Seq({swap[1], swap[2]}) /\ Len(swap) = 2
      /\ swap[1] = SwapTheme[1] /\ swap[2] = SwapTheme[2]
  BY DEF SwapTheme
<1>5. M035(db) = (a \o (IF Has(db, "users", "theme") THEN swap ELSE <<>>)) \o back
  BY DEF M035, ThemeBack
<1>6. Len(SwapTheme) = 3 /\ SwapTheme[3] = ThemeBack
  BY DEF SwapTheme
<1> HIDE DEF next, swap, back
<1>7. Serves(a, db, {})
  <2>1. IsScript(next) /\ {} \subseteq Kept /\ {} \subseteq Fields("users", ListedIn(next))
    BY <1>2 DEF IsScript
  <2> QED
    BY <2>1, MissingAdds, SimpleServes
<1>8. Promises[36] \subseteq Provided(ThemeBack)
  BY <1>1, ProvidedStatements
<1>9. Serves(back, db, Promises[36])
  <2>1. Simple(back, db, Promises[36])
    BY <1>1, <1>3, <1>8, MildStatements DEF Simple, IsScript, ProvidedBy
  <2> QED
    BY <2>1, SimpleServes
<1>10. Serves(SwapTheme, db, Promises[36])
  <2>1. Promises[36] \subseteq ProvidedBy(SwapTheme, 3)
    BY <1>6, <1>8 DEF ProvidedBy
  <2>4. \A i \in 1..3 : SwapTheme[i].op # "register"
    BY DEF SwapTheme, CopyColumn, DropColumn, ThemeBack, RenameColumn, Statement
  <2>2. \A P : P \subseteq Kept => Harmless(SwapTheme, P)
    BY ThemeHarmless
  <2>3. Harmless(SwapTheme, {})
    BY <2>2
  <2> QED
    BY <1>6, <2>1, <2>2, <2>3, <2>4 DEF Serves, Harmless
<1> HIDE DEF a
<1>11. CASE Has(db, "users", "theme")
  <2>1. PICK S : a \in Seq(S)
    BY <1>7 DEF Serves, IsScript
  <2> DEFINE St == S \union {swap[1], swap[2], ThemeBack}
  <2>2. a \in Seq(St) /\ swap \in Seq(St) /\ back \in Seq(St)
    BY <1>3, <1>4, <2>1
  <2>6. swap \o back = SwapTheme
    <3>1. /\ Len(swap \o back) = 3 /\ (swap \o back)[1] = swap[1] /\ (swap \o back)[2] = swap[2]
          /\ (swap \o back)[3] = back[1] /\ swap \o back \in Seq(St)
      <4> HIDE DEF St
      <4>1. /\ swap \o back \in Seq(St) /\ Len(swap \o back) = Len(swap) + Len(back)
            /\ \A i \in 1 .. Len(swap) + Len(back) :
                 (swap \o back)[i] = IF i <= Len(swap) THEN swap[i] ELSE back[i - Len(swap)]
        BY <2>2, ConcatProperties
      <4> QED
        BY <1>3, <1>4, <4>1
    <3>2. SwapTheme \in Seq({SwapTheme[i] : i \in 1..3})
      BY DEF SwapTheme
    <3>3. \A i \in 1..3 : (swap \o back)[i] = SwapTheme[i]
      BY <1>3, <1>4, <1>6, <3>1
    <3> HIDE DEF St
    <3> QED
      BY <1>6, <3>1, <3>2, <3>3, SeqEqual
  <2> HIDE DEF St
  <2>7. (a \o swap) \o back = a \o (swap \o back)
    BY ONLY <2>2, ConcatAssociative
  <2>3. (a \o swap) \o back = a \o SwapTheme
    BY <2>6, <2>7
  <2>4. Serves(a \o SwapTheme, db, {} \union Promises[36])
    BY <1>7, <1>10, ServesConcat
  <2>5. {} \union Promises[36] = Promises[36]
    OBVIOUS
  <2> QED
    BY <1>5, <1>11, <2>3, <2>4, <2>5
<1>12. CASE ~Has(db, "users", "theme")
  <2>1. Serves(<<>>, db, {})
    BY SimpleEmpty, SimpleServes
  <2>2. Serves(a \o <<>>, db, {} \union {})
    BY <1>7, <2>1, ServesConcat
  <2>3. Serves((a \o <<>>) \o back, db, ({} \union {}) \union Promises[36])
    BY <1>9, <2>2, ServesConcat
  <2>4. ({} \union {}) \union Promises[36] = Promises[36]
    OBVIOUS
  <2> QED
    BY <1>5, <1>12, <2>3, <2>4
<1> QED
  BY <1>11, <1>12

-----------------------------------------------------------------------------
(* Each of the 38 migrations carries a database from the promises before it*)
(* to its own, and keeps the rows.                                         *)

(* What the statements of migration n do to a database like db that has    *)
(* the promised columns of those before it.                                *)
Carries(todo, db, n) ==
  /\ IsScript(todo)
  /\ \A i \in 1..Len(todo) : todo[i].op # "register"
  /\ Promises[n] \subseteq db.cols \union ProvidedBy(todo, Len(todo))
  /\ Harmless(todo, Promised(n) \intersect db.cols)

LEMMA PromisedFacts ==
  /\ \A n \in 1..Newest : Promised(n) \subseteq Kept /\ Promises[n] \subseteq Promised(n)
                          /\ Promised(n) = Promised(n - 1) \union Promises[n]
  /\ \A n \in 0..Newest : \A k \in 1..n : Promises[k] \subseteq Promised(n)
<1>1. \A n \in 0..Newest : \A k \in 1..n : k \in 1..Newest
  BY DEF Newest
<1>2. \A n \in 1..Newest : n \in 0..Newest /\ n \in 1..n /\ \A k \in 1..n : k \in 1..(n - 1) \/ k
        = n
  BY DEF Newest
<1>3. \A n \in 1..Newest : \A k \in 1..(n - 1) : k \in 1..n
  BY DEF Newest
<1> QED
  BY <1>1, <1>2, <1>3 DEF Promised, Kept

LEMMA ServesCarries ==
  ASSUME NEW n \in 1..Newest, NEW todo, NEW db, Serves(todo, db, Promises[n])
  PROVE  Carries(todo, db, n)
<1>1. Promised(n) \intersect db.cols \subseteq Kept
  BY PromisedFacts
<1> QED
  BY <1>1 DEF Serves, Carries

LEMMA SimpleCarries ==
  ASSUME NEW n \in 1..Newest, NEW todo, NEW db, Simple(todo, db, Promises[n])
  PROVE  Carries(todo, db, n)
BY SimpleServes, ServesCarries

LEMMA MigrationCarries ==
  ASSUME NEW n \in 1..Newest, NEW db, Promised(n - 1) \subseteq db.cols, NEW done \in Attempts
  PROVE  Carries(MIGRATIONS(db, done)[n], db, n)
<1>0. \A k \in 1..38 : k \in 1..Newest
  BY DEF Newest
<1>1. \A k \in 1..(n - 1) : Promises[k] \subseteq db.cols
  BY DEF Promised
<1>2. CASE n \in {1, 2, 3, 4, 5, 6, 7, 8}
  <2>1. Simple(MIGRATIONS(db, done)[n], db, Promises[n])
    BY <1>2, Takes000, Takes001, Takes002, Takes003, Takes004, Takes005, Takes006, Takes007
         DEF MIGRATIONS
  <2> QED
    BY <2>1, SimpleCarries
<1>3. CASE n \in {9, 10, 11, 12, 13, 14, 17}
  <2>1. Simple(MIGRATIONS(db, done)[n], db, Promises[n])
    BY <1>3, Takes008, Takes009, Takes010, Takes011, Takes012, Takes013, Takes016 DEF MIGRATIONS
  <2> QED
    BY <2>1, SimpleCarries
<1>4. CASE n \in {18, 20, 21, 22, 23, 24, 25, 27, 28}
  <2>1. Simple(MIGRATIONS(db, done)[n], db, Promises[n])
    BY <1>4, Takes017, Takes019, Takes020, Takes021, Takes022, Takes023, Takes024, Takes026,
         Takes027 DEF MIGRATIONS
  <2> QED
    BY <2>1, SimpleCarries
<1>5. CASE n \in {29, 30, 31, 32, 33, 35, 37, 38}
  <2>1. Simple(MIGRATIONS(db, done)[n], db, Promises[n])
    BY <1>5, Takes028, Takes029, Takes030, Takes031, Takes032, Takes034, Takes036, Takes037
         DEF MIGRATIONS
  <2> QED
    BY <2>1, SimpleCarries
<1>6. ASSUME n = 15 PROVE Carries(MIGRATIONS(db, done)[n], db, n)
  <2>1. MIGRATIONS(db, done)[15] = M014(db) /\ 15 \in 1..Newest
    BY <1>0 DEF MIGRATIONS
  <2>2. Promises[15] = {}
    BY DEF Promises
  <2> QED
    BY <1>6, <2>1, <2>2, Takes014, SimpleCarries
<1>7. ASSUME n = 16 PROVE Carries(MIGRATIONS(db, done)[n], db, n)
  <2>1. MIGRATIONS(db, done)[16] = M015(db) /\ 16 \in 1..Newest
    BY <1>0 DEF MIGRATIONS
  <2>2. Promises[1] \subseteq db.cols
    BY <1>7, <1>1
  <2>3. <<"download_jobs", "id">> \in Promises[1]
    BY Promise1, BaseHasId DEF Tables, Table
  <2>4. Simple(M015(db), db, Promises[16])
    BY <2>2, <2>3, Takes015 DEF Exists
  <2> QED
    BY <1>7, <2>1, <2>4, SimpleCarries
<1>8. ASSUME n = 19 PROVE Carries(MIGRATIONS(db, done)[n], db, n)
  <2>1. MIGRATIONS(db, done)[19] = M018(db) /\ 19 \in 1..Newest
    BY <1>0 DEF MIGRATIONS
  <2>2. Promises[18] \subseteq db.cols
    BY <1>8, <1>1
  <2>3. Serves(M018(db), db, Promises[19])
    BY <2>2, Promise18, Takes018
  <2> QED
    BY <1>8, <2>1, <2>3, ServesCarries
<1>9. ASSUME n = 26 PROVE Carries(MIGRATIONS(db, done)[n], db, n)
  <2>1. MIGRATIONS(db, done)[26] = M025(db) /\ 26 \in 1..Newest
    BY <1>0 DEF MIGRATIONS
  <2>2. Promises[25] \subseteq db.cols
    BY <1>9, <1>1
  <2>3. Table("party_rooms") \subseteq db.cols
    BY <2>2, Promise25 DEF Tables
  <2>4. Promised(26) \intersect db.cols \subseteq Promised(26) /\ Promised(26) \intersect db.cols
          \subseteq Kept
    BY <2>1, PromisedFacts
  <2>5. Carries(M025(db), db, 26)
    BY <2>3, <2>4, Takes025 DEF Carries, Harmless
  <2> QED
    BY <1>9, <2>1, <2>5
<1>10. ASSUME n = 34 PROVE Carries(MIGRATIONS(db, done)[n], db, n)
  <2>1. MIGRATIONS(db, done)[34] = M033(db) /\ 34 \in 1..Newest
    BY <1>0 DEF MIGRATIONS
  <2> QED
    BY <1>10, <2>1, Takes033, ServesCarries
<1>11. ASSUME n = 36 PROVE Carries(MIGRATIONS(db, done)[n], db, n)
  <2>1. MIGRATIONS(db, done)[36] = M035(db) /\ 36 \in 1..Newest
    BY <1>0 DEF MIGRATIONS
  <2> QED
    BY <1>11, <2>1, Takes035, ServesCarries
<1> QED
  BY <1>2, <1>3, <1>4, <1>5, <1>6, <1>7, <1>8, <1>9, <1>10, <1>11 DEF Newest

(* The statements of a migration end with its record, and record nothing   *)
(* before.                                                                 *)
Ends(todo, n) ==
  /\ IsScript(todo) /\ todo # <<>> /\ todo[Len(todo)] = Register(n)
  /\ \A i \in 1..(Len(todo) - 1) : todo[i].op # "register"

LEMMA RegisterHarmless ==
  ASSUME NEW n \in 1..Newest, NEW P, P \subseteq Kept
  PROVE  /\ Harmless(<<Register(n)>>, P) /\ Len(<<Register(n)>>) = 1
         /\ <<Register(n)>>[1] = Register(n) /\ IsWrite(Register(n))
         /\ ProvidedBy(<<Register(n)>>, 1) = {} /\ Register(n).op = "register" /\ Register(n).cols
              = {n}
<1> DEFINE todo == <<Register(n)>>
           s == Register(n)
<1>1. todo \in Seq({s}) /\ Len(todo) = 1 /\ todo[1] = s
  OBVIOUS
<1>2. IsWrite(s) /\ s.op = "register" /\ s.cols = {n} /\ Provided(s) = {}
  BY DEF IsWrite, Register, Statement, Provided
<1> HIDE DEF todo, s
<1>3. ProvidedBy(todo, 1) = {} /\ ProvidedBy(todo, 0) = {}
  BY <1>1, <1>2 DEF ProvidedBy
<1>4. ~NoWrite(todo, 1)
  BY <1>1, <1>2 DEF NoWrite
<1>5. ASSUME NEW C, IsPrecious(C)
      PROVE  \E J : /\ Annotates(J, todo)
                    /\ \A i \in 0..1 : J[i] = Home(C, P)
  <2> DEFINE J == [i \in 0..1 |-> Home(C, P)]
  <2>1. \A i \in 0..1 : J[i] = Home(C, P)
    OBVIOUS
  <2> HIDE DEF J
  <2>2. Annotates(J, todo)
    <3> SUFFICES ASSUME NEW i \in 1..1, NEW d, Fits(d, J[i - 1]), ~Refused(d, todo[i])
                 PROVE  Fits(Executed(d, todo[i]), J[i])
      BY <1>1 DEF Annotates
    <3>1. J[i - 1] = Home(C, P) /\ J[i] = Home(C, P) /\ todo[i] = s
      BY <1>1, <2>1
    <3>2. Fits(Executed(d, s), Shape(C, P, Hanging))
      BY <1>2, <3>1, OtherKeeps DEF Home
    <3> QED
      BY <3>1, <3>2 DEF Home
  <2> QED
    BY <2>1, <2>2
<1>6. P \union {} = P
  OBVIOUS
<1>7. Harmless(todo, P)
  <2>1. IsScript(todo)
    BY <1>1 DEF IsScript
  <2>2. \A i \in 1..Len(todo) : NoWrite(todo, i) => Mild(todo[i])
    BY <1>1, <1>4
  <2>3. \A i \in 0..1 : P \union ProvidedBy(todo, i) = P
    BY <1>3
  <2>4. ASSUME NEW C, IsPrecious(C)
        PROVE  \E J : /\ Annotates(J, todo)
                      /\ \A i \in 0..1 : NoWrite(todo, i) => J[i]
                           = Home(C, P \union ProvidedBy(todo, i))
                      /\ J[1] = Home(C, P \union ProvidedBy(todo, 1))
    <3>1. PICK J : Annotates(J, todo) /\ \A i \in 0..1 : J[i] = Home(C, P)
      BY <1>5, <2>4
    <3>2. \A i \in 0..1 : J[i] = Home(C, P \union ProvidedBy(todo, i))
      BY <2>3, <3>1
    <3> QED
      BY <3>1, <3>2
  <2> QED
    BY <1>1, <2>1, <2>2, <2>4 DEF Harmless
<1> QED
  BY <1>1, <1>2, <1>3, <1>7 DEF todo, s

LEMMA PlanCarries ==
  ASSUME NEW n \in 1..Newest, NEW db, Promised(n - 1) \subseteq db.cols, NEW done \in Attempts
  PROVE  LET todo == MIGRATIONS(db, done)[n] \o <<Register(n)>>
             P == Promised(n) \intersect db.cols
         IN  /\ Ends(todo, n) /\ Harmless(todo, P)
             /\ Promised(n) \subseteq P \union ProvidedBy(todo, Len(todo))
<1> DEFINE body == MIGRATIONS(db, done)[n]
           last == <<Register(n)>>
           todo == body \o last
           P == Promised(n) \intersect db.cols
<1>1. Carries(body, db, n)
  BY MigrationCarries
<1>2. \A Q : Q \subseteq Kept =>
        Harmless(last, Q) /\ Len(last) = 1 /\ last[1] = Register(n) /\ ProvidedBy(last, 1) = {}
  BY RegisterHarmless
<1>3. P \subseteq Kept
  BY PromisedFacts
<1> HIDE DEF body, last, P
<1>4. IsScript(body) /\ IsScript(last) /\ Len(last) = 1 /\ last[1] = Register(n)
  BY <1>1, <1>2, <1>3 DEF Carries, Harmless
<1>5. /\ IsScript(todo) /\ Len(body) \in Nat /\ Len(todo) = Len(body) + 1
      /\ \A i \in 1..Len(body) : todo[i] = body[i]
      /\ todo[Len(body) + 1] = Register(n)
  <2>1. /\ IsScript(body \o last) /\ Len(body) \in Nat /\ Len(body \o last) = Len(body) + Len(last)
        /\ \A i \in 1..Len(body) : (body \o last)[i] = body[i]
        /\ \A i \in 1..Len(last) : (body \o last)[Len(body) + i] = last[i]
    <3>1. IsScript(body) /\ IsScript(last)
      BY <1>4
    <3> QED
      BY ONLY <3>1, ConcatFacts
  <2> QED
    BY <1>4, <2>1
<1>6. ProvidedBy(todo, Len(todo)) = ProvidedBy(body, Len(body)) \union ProvidedBy(last, 1)
  <2>1. \A i \in 0..Len(last) :
          ProvidedBy(body \o last, Len(body) + i) = ProvidedBy(body, Len(body))
            \union ProvidedBy(last, i)
    BY ONLY <1>4, ProvidedConcat
  <2>2. 1 \in 0..Len(last)
    BY <1>4
  <2> QED
    BY <1>5, <2>1, <2>2
<1>7. Harmless(todo, P)
  <2>1. P \union ProvidedBy(body, Len(body)) \subseteq Kept
    BY <1>3, ProvidedInKept
  <2>2. Harmless(body, P)
    BY <1>1 DEF Carries, P
  <2> QED
    BY <1>2, <2>1, <2>2, HarmlessConcat
<1>8. Ends(todo, n)
  <2>1. todo # <<>>
    BY <1>5, ScriptFacts
  <2>2. \A i \in 1..(Len(todo) - 1) : i \in 1..Len(body)
    BY <1>5
  <2> QED
    BY <1>1, <1>5, <2>1, <2>2 DEF Ends, Carries
<1>9. Promised(n) \subseteq P \union ProvidedBy(todo, Len(todo))
  <2>1. Promised(n) = Promised(n - 1) \union Promises[n]
    BY PromisedFacts
  <2>2. Promises[n] \subseteq db.cols \union ProvidedBy(body, Len(body))
    BY <1>1 DEF Carries
  <2> QED
    BY <1>6, <2>1, <2>2 DEF P
<1> QED
  BY <1>7, <1>8, <1>9 DEF body, last, P

-----------------------------------------------------------------------------
(* A process that runs the migrations, and what others may do to the       *)
(* database meanwhile.                                                     *)

(* The rows that must survive, and a script that is mild until it writes.  *)
Precious(d) == {x \in d.cells : <<x[1], x[2]>> \in Valued}
Shaped(d) == d = [cols |-> d.cols, cells |-> d.cells, refs |-> d.refs, names |-> d.names]
MildFirst(todo) == IsScript(todo) /\ \A i \in 1..Len(todo) : NoWrite(todo, i) => Mild(todo[i])

(* A process at work on migration n: before its transaction, in it, and in *)
(* it when the migration is on record there.                               *)
Preparing(x, d, n) ==
  /\ x.txn = FALSE /\ Ends(x.todo, n) /\ MildFirst(x.todo)
  /\ x.applied \subseteq 1..(n - 1) /\ 1..(n - 1) \subseteq d.names
  /\ n \notin d.names => \E P : /\ P \subseteq Kept \intersect d.cols /\ Harmless(x.todo, P)
                                /\ Promised(n) \subseteq P \union ProvidedBy(x.todo, Len(x.todo))

Writing(x, d, n) ==
  /\ x.txn = TRUE /\ Ends(x.todo, n) /\ Shaped(x.work)
  /\ x.applied \subseteq 1..(n - 1) /\ 1..(n - 1) \subseteq x.work.names
  /\ d.names \subseteq x.work.names /\ \E m \in 0..Newest : x.work.names = 1..m
  /\ n \notin x.work.names => \E Q : Promised(n) \subseteq Q /\ Secure(Precious(d), x.work, x.todo,
       Q)

Written(x, d, n) ==
  /\ x.txn = TRUE /\ x.todo = <<>>
  /\ x.applied \subseteq 1..n /\ x.work.names = 1..n /\ d.names \subseteq 1..(n - 1)
  /\ Fits(x.work, Home(Precious(d), Promised(n)))

Starting(x, d) ==
  /\ x.txn = FALSE /\ x.todo = <<>> /\ x.next = 1
  /\ \E k \in 0..Newest : x.applied = 1..k /\ x.applied \subseteq d.names

Process(x, d) ==
  /\ x = [pc |-> x.pc, applied |-> x.applied, next |-> x.next, todo |-> x.todo, txn |-> x.txn,
          work |-> x.work]
  /\ \/ x.pc # "run" /\ x.txn = FALSE /\ x.todo = <<>>
     \/ x.pc = "run" /\ Starting(x, d)
     \/ x.pc = "run" /\ \E n \in 1..Newest :
          x.next = n + 1 /\ (Preparing(x, d, n) \/ Writing(x, d, n) \/ Written(x, d, n))

(* What a process may do to the committed database: a statement, or a      *)
(* transaction that records a migration.                                   *)
Onward(d, e) ==
  \/ d.names = e.names /\ Kept \intersect d.cols \subseteq e.cols
  \/ \E n \in 1..Newest : e.names = 1..n /\ d.names \subseteq 1..(n - 1)

LEMMA PreciousFacts == \A d : IsDatabase(d) => IsPrecious(Precious(d)) /\ Precious(d)
  \subseteq d.cells
BY DEF Precious, IsPrecious, IsDatabase

LEMMA SoundFacts ==
  ASSUME NEW d, Sound(d)
  PROVE  /\ IsDatabase(d) /\ Based(d) /\ Shaped(d) /\ Applied(d)
         /\ \E m \in 0..Newest : d.names = 1..m
         /\ IsPrecious(Precious(d)) /\ Precious(d) \subseteq d.cells
         /\ \A P : P \subseteq Kept \intersect d.cols => Fits(d, Home(Precious(d), P))
         /\ \A n : 1..n \subseteq d.names => Promised(n) \subseteq d.cols
<1>1. IsDatabase(d) /\ Based(d) /\ Shaped(d) /\ Applied(d) /\ d.refs \subseteq Hanging
      /\ \E m \in 0..Newest : d.names = 1..m
  BY DEF Sound, Shaped, IsDatabase, Hanging
<1>2. IsPrecious(Precious(d)) /\ Precious(d) \subseteq d.cells
  BY <1>1, PreciousFacts
<1>3. \A P : P \subseteq Kept \intersect d.cols => Fits(d, Home(Precious(d), P))
  BY <1>1, <1>2, FitsShape DEF Home
<1>4. \A n : 1..n \subseteq d.names => Promised(n) \subseteq d.cols
  BY <1>1 DEF Applied, Promised
<1> QED
  BY <1>1, <1>2, <1>3, <1>4

LEMMA FitsSound ==
  ASSUME NEW d, NEW C, NEW P, Fits(d, Home(C, P)), NEW n \in 0..Newest, d.names = 1..n,
         \A k \in 1..n : Promises[k] \subseteq P
  PROVE  Sound(d)
<1>1. IsDatabase(d) /\ Based(d) /\ P \subseteq d.cols /\ d.refs \subseteq Hanging
  BY FitsShape DEF Home
<1>2. Applied(d)
  BY <1>1 DEF Applied
<1> QED
  BY <1>1, <1>2 DEF Sound, Hanging

LEMMA ExecutedShaped ==
  ASSUME NEW d, Shaped(d), NEW s
  PROVE  /\ Shaped(Executed(d, s))
         /\ Executed(d, s).names = d.names \union (IF s.op = "register" THEN s.cols ELSE {})
<1> DEFINE e == Executed(d, s)
           Like(f) == /\ f = [cols |-> f.cols, cells |-> f.cells, refs |-> f.refs,
                          names |-> f.names]
                      /\ f.names = d.names
<1>1. ASSUME NEW f, NEW X, f = [d EXCEPT !.cols = X] \/ f = [d EXCEPT !.cells = X] PROVE Like(f)
  <2>1. CASE f = [d EXCEPT !.cols = X]
    <3>1. f = [cols |-> X, cells |-> d.cells, refs |-> d.refs, names |-> d.names]
      BY <2>1 DEF Shaped
    <3> QED
      BY <3>1
  <2>2. CASE f = [d EXCEPT !.cells = X]
    <3>1. f = [cols |-> d.cols, cells |-> X, refs |-> d.refs, names |-> d.names]
      BY <2>2 DEF Shaped
    <3> QED
      BY <3>1
  <2> QED
    BY <1>1, <2>1, <2>2
<1>2. ASSUME NEW f, NEW X, NEW Y,
             f = [d EXCEPT !.cols = X, !.cells = Y] \/ f = [d EXCEPT !.cols = X, !.refs = Y]
      PROVE  Like(f)
  <2>1. CASE f = [d EXCEPT !.cols = X, !.cells = Y]
    <3>1. f = [cols |-> X, cells |-> Y, refs |-> d.refs, names |-> d.names]
      BY <2>1 DEF Shaped
    <3> QED
      BY <3>1
  <2>2. CASE f = [d EXCEPT !.cols = X, !.refs = Y]
    <3>1. f = [cols |-> X, cells |-> d.cells, refs |-> Y, names |-> d.names]
      BY <2>2 DEF Shaped
    <3> QED
      BY <3>1
  <2> QED
    BY <1>2, <2>1, <2>2
<1>3. ASSUME NEW f, NEW X, NEW Y, NEW Z, f = [d EXCEPT !.cols = X, !.cells = Y, !.refs
               = Z] PROVE Like(f)
  <2>1. f = [cols |-> X, cells |-> Y, refs |-> Z, names |-> d.names]
    BY <1>3 DEF Shaped
  <2> QED
    BY <2>1
<1>4. Like(d)
  BY DEF Shaped
<1>5. ASSUME NEW f, NEW X, f = [d EXCEPT !.names = X] PROVE Shaped(f) /\ f.names = X
  <2>1. f = [cols |-> d.cols, cells |-> d.cells, refs |-> d.refs, names |-> X]
    BY <1>5 DEF Shaped
  <2> QED
    BY <2>1 DEF Shaped
<1> HIDE DEF Like
<1>6. CASE s.op = "register"
  <2>1. e = [d EXCEPT !.names = @ \union s.cols]
    BY <1>6 DEF Executed
  <2> QED
    BY <1>5, <1>6, <2>1
<1>7. CASE s.op # "register"
  <2>1. Like(e)
    <3>1. CASE s.op \in {"create", "createnew"}
      BY <1>2, <1>4, <3>1 DEF Executed
    <3>2. CASE s.op = "add"
      BY <1>1, <3>2 DEF Executed
    <3>3. CASE s.op \in {"drop", "dropif"}
      BY <1>3, <3>3 DEF Executed, Dropped
    <3>4. CASE s.op = "rename"
      BY <1>3, <3>4 DEF Executed
    <3>5. CASE s.op \in {"copy", "copycolumn", "adopt"}
      BY <1>1, <3>5 DEF Executed
    <3>6. CASE s.op \in {"dropcolumn", "renamecolumn"}
      BY <1>2, <3>6 DEF Executed
    <3>7. CASE s.op \notin {"create", "createnew", "add", "drop", "dropif", "rename", "copy",
                 "copycolumn",
                            "adopt", "dropcolumn", "renamecolumn"}
      BY <1>4, <1>7, <3>7 DEF Executed
    <3> QED
      BY <3>1, <3>2, <3>3, <3>4, <3>5, <3>6, <3>7
  <2> QED
    BY <1>7, <2>1 DEF Like, Shaped
<1> QED
  BY <1>6, <1>7

LEMMA EndsTail ==
  ASSUME NEW n \in 1..Newest, NEW todo, Ends(todo, n)
  PROVE  /\ Head(todo).op = "register" => Tail(todo) = <<>> /\ Head(todo) = Register(n)
         /\ Head(todo).op # "register" => Ends(Tail(todo), n)
<1> DEFINE t == Tail(todo)
<1>1. /\ IsScript(todo) /\ IsScript(t) /\ Len(todo) \in Nat /\ Len(t)
           = Len(todo) - 1 /\ Len(todo) # 0
      /\ Head(todo) = todo[1] /\ \A i \in 1..Len(t) : t[i] = todo[i + 1]
  BY ScriptFacts DEF Ends
<1>2. t = <<>> <=> Len(t) = 0
  BY <1>1, ScriptFacts
<1> HIDE DEF t
<1>3. CASE Len(todo) = 1
  <2>1. Head(todo) = Register(n) /\ t = <<>>
    BY <1>1, <1>2, <1>3 DEF Ends
  <2> QED
    BY <2>1 DEF Register, Statement, t
<1>4. CASE Len(todo) # 1
  <2>1. Head(todo).op # "register"
    BY <1>1, <1>4 DEF Ends
  <2>2. t # <<>> /\ t[Len(t)] = Register(n)
    BY <1>1, <1>2, <1>4 DEF Ends
  <2>3. \A i \in 1..(Len(t) - 1) : t[i].op # "register"
    BY <1>1, <1>4 DEF Ends
  <2> QED
    BY <1>1, <2>1, <2>2, <2>3 DEF Ends, t
<1> QED
  BY <1>3, <1>4

LEMMA MildFirstTail ==
  ASSUME NEW todo, MildFirst(todo), todo # <<>>, ~IsWrite(Head(todo))
  PROVE  Mild(Head(todo)) /\ MildFirst(Tail(todo))
<1> DEFINE t == Tail(todo)
<1>1. /\ IsScript(t) /\ Len(todo) \in Nat /\ Len(t) = Len(todo) - 1 /\ Len(todo) # 0
      /\ Head(todo) = todo[1] /\ \A i \in 1..Len(t) : t[i] = todo[i + 1]
  BY ScriptFacts DEF MildFirst
<1> HIDE DEF t
<1>2. Mild(todo[1])
  BY <1>1 DEF MildFirst, NoWrite
<1>3. ASSUME NEW i \in 1..Len(t), NoWrite(t, i) PROVE Mild(t[i])
  <2>1. i + 1 \in 1..Len(todo) /\ t[i] = todo[i + 1]
    BY <1>1
  <2>2. NoWrite(todo, i + 1)
    <3> SUFFICES ASSUME NEW j \in 1..(i + 1) PROVE ~IsWrite(todo[j])
      BY DEF NoWrite
    <3>1. CASE j = 1
      BY <1>1, <3>1
    <3>2. CASE j # 1
      <4>1. j - 1 \in 1..i /\ j - 1 \in 1..Len(t) /\ (j - 1) + 1 = j
        BY <1>1, <3>2
      <4>2. t[j - 1] = todo[j]
        BY <1>1, <4>1
      <4> QED
        BY <1>3, <4>1, <4>2 DEF NoWrite
    <3> QED
      BY <3>1, <3>2
  <2> QED
    BY <2>1, <2>2 DEF MildFirst
<1> QED
  BY <1>1, <1>2, <1>3 DEF MildFirst, t

(* A statement outside a transaction. *)
LEMMA StatementKeeps ==
  ASSUME NEW d, Sound(d), NEW s, Mild(s), ~Refused(d, s)
  PROVE  LET e == Executed(d, s)
         IN  /\ Sound(e) /\ Onward(d, e) /\ Precious(d) \subseteq e.cells /\ e.names = d.names
             /\ (Kept \intersect d.cols) \union Provided(s) \subseteq e.cols
<1> DEFINE e == Executed(d, s)
           P == Kept \intersect d.cols
<1>1. /\ IsPrecious(Precious(d)) /\ Fits(d, Home(Precious(d), P)) /\ Shaped(d) /\ Applied(d)
      /\ P \subseteq Kept
  BY SoundFacts
<1>2. PICK m \in 0..Newest : d.names = 1..m
  BY SoundFacts
<1> HIDE DEF e, P
<1>3. Fits(e, Home(Precious(d), P \union Provided(s)))
  BY <1>1, MildKeeps DEF e
<1>4. e.names = d.names
  BY <1>1, MildRegistersNothing, ExecutedShaped DEF e
<1>5. Precious(d) \subseteq e.cells /\ P \union Provided(s) \subseteq e.cols
  BY <1>3, FitsShape DEF Home
<1>6. \A k \in 1..m : Promises[k] \subseteq P \union Provided(s)
  <2>1. \A k \in 1..m : k \in 1..Newest
    BY DEF Newest
  <2> QED
    BY <1>1, <1>2, <2>1, PromiseKept DEF Applied, P
<1>7. Sound(e)
  BY <1>2, <1>3, <1>4, <1>6, FitsSound
<1> QED
  BY <1>4, <1>5, <1>7 DEF Onward, e, P

LEMMA OthersGoOn ==
  ASSUME NEW x, NEW d, NEW e, Process(x, d), x.txn = FALSE, Sound(d), Sound(e), Onward(d, e)
  PROVE  Process(x, e)
<1>1. d.names \subseteq e.names
  BY DEF Onward
<1>2. CASE x.pc # "run"
  BY <1>2 DEF Process
<1>3. CASE x.pc = "run" /\ Starting(x, d)
  BY <1>1, <1>3 DEF Process, Starting
<1>4. ASSUME x.pc = "run", NEW n \in 1..Newest, x.next = n + 1, Preparing(x, d, n)
      PROVE  Process(x, e)
  <2>1. 1..(n - 1) \subseteq e.names
    BY <1>1, <1>4 DEF Preparing
  <2>2. ASSUME n \notin e.names
        PROVE  \E P : /\ P \subseteq Kept \intersect e.cols /\ Harmless(x.todo, P)
                      /\ Promised(n) \subseteq P \union ProvidedBy(x.todo, Len(x.todo))
    <3>1. CASE d.names = e.names /\ Kept \intersect d.cols \subseteq e.cols
      <4>1. PICK P : /\ P \subseteq Kept \intersect d.cols /\ Harmless(x.todo, P)
                     /\ Promised(n) \subseteq P \union ProvidedBy(x.todo, Len(x.todo))
        BY <1>4, <2>2, <3>1 DEF Preparing
      <4>2. P \subseteq Kept \intersect e.cols
        BY <3>1, <4>1
      <4> QED
        BY <4>1, <4>2
    <3>2. ASSUME NEW m \in 1..Newest, e.names = 1..m, d.names \subseteq 1..(m - 1) PROVE FALSE
      <4>1. m < n
        BY <2>2, <3>2
      <4>2. m \in 1..(n - 1)
        BY <4>1
      <4>3. m \in d.names
        BY <1>4, <4>2 DEF Preparing
      <4> QED
        BY <3>2, <4>3
    <3> QED
      BY <3>1, <3>2 DEF Onward
  <2>3. Preparing(x, e, n)
    BY <1>4, <2>1, <2>2 DEF Preparing
  <2> QED
    BY <1>4, <2>3 DEF Process
<1> QED
  BY <1>2, <1>3, <1>4 DEF Process, Writing, Written

-----------------------------------------------------------------------------
(* The steps of a process: choosing a migration, executing a statement, and*)
(* committing.                                                             *)

LEMMA NumberFacts ==
  /\ \A n \in 1..Newest :
       /\ n \in Nat /\ n >= 1 /\ n - 1 \in Nat /\ n - 1 \in 0..Newest /\ n \in 0..Newest
                          /\ 1..(n - 1) \subseteq 1..n /\ (1..(n - 1)) \union {n} = 1..n
                          /\ (n - 1) + 1 = n /\ 1..((n - 1) - 1) \subseteq 1..(n - 1)
  /\ \A m \in 0..Newest : m \in Nat
BY DEF Newest

Least(U) == CHOOSE m \in U : \A k \in U : m <= k
ViewOf(x, d) == IF x.txn THEN x.work ELSE d

(* What Prepare and Execute set, and from what. *)
Prepares(x, d, K, U, n, v, done, todo, y) ==
  /\ done \in Attempts
  /\ x.pc = "run" /\ x.todo = <<>> /\ K \in 1..Newest
  /\ U = {i \in x.next..K : i \notin x.applied} /\ U # {} /\ n = Least(U)
  /\ v = ViewOf(x, d) /\ todo = MIGRATIONS(v, done)[n] \o <<Register(n)>>
  /\ y = [x EXCEPT !.todo = todo, !.next = n + 1]

Executes(x, d, s, txn, after, todo, work, y, e) ==
  /\ x.pc = "run" /\ x.todo # <<>> /\ s = Head(x.todo) /\ ~Refused(ViewOf(x, d), s)
  /\ txn = (x.txn \/ IsWrite(s)) /\ after = Executed(ViewOf(x, d), s)
  /\ todo = Tail(x.todo) /\ work = (IF txn THEN after ELSE Blank)
  /\ y = [x EXCEPT !.todo = todo, !.txn = txn, !.work = work]
  /\ e = (IF txn THEN d ELSE after)

(* The next migration of a process is the one after those it knows to be   *)
(* on record.                                                              *)
LEMMA NextMigration ==
  ASSUME NEW x, NEW d, Process(x, d), Sound(d), x.pc = "run", x.todo = <<>>, NEW K \in 1..Newest,
         NEW U, U = {n \in x.next..K : n \notin x.applied}, U # {}
  PROVE  \E n \in 1..Newest :
           /\ n = Least(U)
           /\ x.applied \subseteq 1..(n - 1) /\ 1..(n - 1) \subseteq ViewOf(x, d).names
           /\ x.txn = FALSE \/ (x.txn = TRUE /\ Written(x, d, n - 1))
<1> DEFINE first == Least(U)
<1>1. ASSUME NEW n \in Nat, x.next \in 1..(n + 1), \A k \in U : n + 1 <= k, n + 1 \in x.next..K
               => n + 1 \in U
      PROVE  first = n + 1 /\ n + 1 \in 1..Newest
  <2>1. PICK k \in U : n + 1 <= k
    BY <1>1
  <2>2. k \in x.next..K /\ K \in Nat /\ K <= Newest /\ Newest \in Nat
    <3>1. k \in x.next..K
      OBVIOUS
    <3>2. K \in 1..Newest
      OBVIOUS
    <3>3. K \in Nat /\ K <= Newest /\ Newest \in Nat
      BY ONLY <3>2 DEF Newest
    <3> QED
      BY <3>1, <3>3
  <2>3. n + 1 \in x.next..K /\ n + 1 \in 1..Newest
    BY <1>1, <2>1, <2>2
  <2>4. n + 1 \in U
    BY <1>1, <2>3
  <2>5. \A m \in U : m \in Nat
    BY <1>1
  <2>6. first \in U /\ \A j \in U : first <= j
    BY <1>1, <2>4 DEF Least
  <2>7. first <= n + 1 /\ n + 1 <= first /\ first \in Nat
    BY <1>1, <2>4, <2>5, <2>6
  <2> HIDE DEF first
  <2> QED
    BY <2>3, <2>7
<1>2. CASE Starting(x, d)
  <2>1. PICK k \in 0..Newest : x.applied = 1..k /\ x.applied \subseteq d.names
    BY <1>2 DEF Starting
  <2>2. x.next = 1 /\ x.txn = FALSE /\ k \in Nat /\ U = {n \in 1..K : n \notin 1..k}
    <3>1. x.next = 1 /\ x.txn = FALSE
      BY <1>2 DEF Starting
    <3>2. k \in Nat
      BY <2>1, NumberFacts
    <3> QED
      BY <2>1, <3>1, <3>2
  <2>3. first = k + 1 /\ k + 1 \in 1..Newest
    <3>1. \A m \in U : m \in 1..K /\ m \notin 1..k
      BY <2>2
    <3>2. \A m \in U : k + 1 <= m
      BY ONLY <2>2, <3>1
    <3>3. k + 1 \in x.next..K => k + 1 \in U
      BY <2>2
    <3>4. x.next \in 1..(k + 1)
      BY <2>2
    <3> HIDE DEF first
    <3> QED
      BY <1>1, <2>2, <3>2, <3>3, <3>4
  <2>4. (k + 1) - 1 = k /\ ViewOf(x, d) = d
    BY <2>2 DEF ViewOf
  <2> QED
    BY <2>1, <2>2, <2>3, <2>4
<1>3. ASSUME NEW n \in 1..Newest, x.next = n + 1, Written(x, d, n)
      PROVE  first = n + 1 /\ n + 1 \in 1..Newest
  <2>1. x.applied \subseteq 1..n /\ n \in Nat
    BY <1>3 DEF Written, Newest
  <2>2. U = {m \in (n + 1)..K : m \notin x.applied}
    BY <1>3
  <2>3. \A k \in U : n + 1 <= k
    BY <2>1, <2>2 DEF Newest
  <2>4. n + 1 \in x.next..K => n + 1 \in U
    BY <1>3, <2>1, <2>2
  <2> HIDE DEF first
  <2> QED
    BY <1>1, <1>3, <2>1, <2>3, <2>4
<1>4. ASSUME NEW n \in 1..Newest, x.next = n + 1, Written(x, d, n)
      PROVE  /\ first = n + 1 /\ n + 1 \in 1..Newest /\ (n + 1) - 1 = n /\ x.txn = TRUE
             /\ x.applied \subseteq 1..n /\ 1..n \subseteq ViewOf(x, d).names
  <2>1. x.txn = TRUE /\ x.applied \subseteq 1..n /\ x.work.names = 1..n
    BY <1>4 DEF Written
  <2>2. ViewOf(x, d) = x.work
    BY <2>1 DEF ViewOf
  <2>3. (n + 1) - 1 = n
    BY NumberFacts
  <2> HIDE DEF first
  <2> QED
    BY <1>3, <1>4, <2>1, <2>2, <2>3
<1> HIDE DEF first
<1>5. Starting(x, d) \/ \E n \in 1..Newest : x.next = n + 1 /\ Written(x, d, n)
  BY DEF Process, Preparing, Writing, Ends
<1> QED
  BY <1>2, <1>4, <1>5 DEF first

LEMMA PrepareFrom ==
  ASSUME NEW x, NEW d, Process(x, d), Sound(d), x.pc = "run", x.todo = <<>>,
         NEW n, n \in 1..Newest, x.applied \subseteq 1..(n - 1),
         NEW v, v = ViewOf(x, d), 1..(n - 1) \subseteq v.names,
         x.txn = FALSE \/ (x.txn = TRUE /\ Written(x, d, n - 1)),
         NEW done \in Attempts, NEW todo, todo = MIGRATIONS(v, done)[n] \o <<Register(n)>>,
         NEW y, y = [x EXCEPT !.todo = todo, !.next = n + 1]
  PROVE  Process(y, d) /\ y.txn = x.txn
<1> DEFINE P == Promised(n) \intersect v.cols
<1>1. n \in Nat /\ n - 1 \in Nat /\ n - 1 \in 0..Newest /\ 1..((n - 1) - 1) \subseteq 1..(n - 1)
  BY NumberFacts
<1>2. y = [pc |-> x.pc, applied |-> x.applied, next |-> n + 1, todo |-> todo, txn |-> x.txn,
           work |-> x.work]
  BY DEF Process
<1>3. x.txn = FALSE => v = d
  BY DEF ViewOf
<1>4. x.txn = TRUE => v = x.work
  BY DEF ViewOf
<1>5. Promised(n - 1) \subseteq v.cols
  <2>1. CASE x.txn = FALSE
    BY <1>3, <2>1, SoundFacts
  <2>2. CASE x.txn = TRUE /\ Written(x, d, n - 1)
    <3>1. Fits(v, Home(Precious(d), Promised(n - 1)))
      BY <1>4, <2>2 DEF Written
    <3> QED
      BY <3>1, FitsShape DEF Home
  <2> QED
    BY <2>1, <2>2
<1>6. /\ Ends(todo, n) /\ Harmless(todo, P)
      /\ Promised(n) \subseteq P \union ProvidedBy(todo, Len(todo))
  BY <1>5, PlanCarries
<1>7. P \subseteq Kept \intersect v.cols
  BY PromisedFacts
<1> HIDE DEF P
<1>10. /\ y.todo = todo /\ y.applied = x.applied /\ y.work = x.work
       /\ y.pc = "run" /\ y.next = n + 1 /\ y.txn = x.txn
       /\ y = [pc |-> y.pc, applied |-> y.applied, next |-> y.next, todo |-> y.todo, txn |-> y.txn,
               work |-> y.work]
  BY <1>2
<1>8. CASE x.txn = FALSE
  <2>1. MildFirst(todo)
    BY <1>6 DEF Harmless, MildFirst
  <2>2. Preparing(y, d, n)
    BY <1>3, <1>6, <1>7, <1>8, <1>10, <2>1 DEF Preparing
  <2> QED
    BY <1>10, <2>2 DEF Process
<1>9. CASE x.txn = TRUE /\ Written(x, d, n - 1)
  <2>2. /\ v.names = 1..(n - 1) /\ d.names \subseteq 1..((n - 1) - 1)
        /\ Fits(v, Home(Precious(d), Promised(n - 1)))
    BY <1>4, <1>9 DEF Written
  <2>3. d.names \subseteq v.names
    BY <1>1, <2>2
  <2>4. IsDatabase(v) /\ Shaped(v) /\ Based(v) /\ Precious(d) \subseteq v.cells /\ v.refs
          \subseteq Hanging
    BY <2>2, FitsShape DEF Home, IsDatabase, Shaped
  <2>5. Fits(v, Home(Precious(d), P))
    BY <1>7, <2>4, FitsShape DEF Home
  <2>6. IsPrecious(Precious(d))
    BY SoundFacts
  <2>7. Secure(Precious(d), v, todo, P \union ProvidedBy(todo, Len(todo)))
    BY <1>6, <2>5, <2>6, SecureStart
  <2>8. y.txn = TRUE /\ y.work = v /\ \E m \in 0..Newest : v.names = 1..m
    BY <1>1, <1>4, <1>9, <1>10, <2>2
  <2>10. d.names \subseteq y.work.names /\ 1..(n - 1) \subseteq y.work.names
        /\ \E m \in 0..Newest : y.work.names = 1..m
    BY <2>3, <2>8
  <2>13. Secure(Precious(d), y.work, y.todo, P \union ProvidedBy(todo, Len(todo)))
    BY <1>10, <2>7, <2>8
  <2>11. \E Q : Promised(n) \subseteq Q /\ Secure(Precious(d), y.work, y.todo, Q)
    BY <1>6, <2>13
  <2>12. Ends(y.todo, n) /\ Shaped(y.work) /\ y.applied \subseteq 1..(n - 1)
    BY <1>6, <1>10, <2>4, <2>8
  <2>9. Writing(y, d, n)
    BY <2>8, <2>10, <2>11, <2>12 DEF Writing
  <2> QED
    BY <1>10, <2>9 DEF Process
<1> QED
  BY <1>8, <1>9, <1>10

LEMMA PreparesProcess ==
  \A x, d, K, U, n, v, done, todo, y :
    Process(x, d) /\ Sound(d) /\ Prepares(x, d, K, U, n, v, done, todo, y) => Process(y, d) /\ y.txn
      = x.txn
<1> SUFFICES ASSUME NEW x, NEW d, NEW K, NEW U, NEW n, NEW v, NEW done, NEW todo, NEW y,
                    Process(x, d), Sound(d), Prepares(x, d, K, U, n, v, done, todo, y)
             PROVE  Process(y, d) /\ y.txn = x.txn
  OBVIOUS
<1>0. /\ x.pc = "run" /\ x.todo = <<>> /\ K \in 1..Newest
      /\ U = {i \in x.next..K : i \notin x.applied} /\ U # {} /\ n = Least(U)
      /\ v = ViewOf(x, d) /\ todo = MIGRATIONS(v, done)[n] \o <<Register(n)>>
      /\ y = [x EXCEPT !.todo = todo, !.next = n + 1]
  BY DEF Prepares
<1> USE <1>0
<1>1. \E m \in 1..Newest :
        /\ m = n /\ x.applied \subseteq 1..(m - 1) /\ 1..(m - 1) \subseteq ViewOf(x, d).names
        /\ x.txn = FALSE \/ (x.txn = TRUE /\ Written(x, d, m - 1))
  <2>1. /\ Process(x, d) /\ Sound(d) /\ x.pc = "run" /\ x.todo = <<>> /\ K \in 1..Newest
        /\ U = {i \in x.next..K : i \notin x.applied} /\ U # {} /\ n = Least(U)
    OBVIOUS
  <2> QED
    BY ONLY <2>1, NextMigration
<1>2. /\ n \in 1..Newest /\ x.applied \subseteq 1..(n - 1) /\ 1..(n - 1) \subseteq v.names
      /\ x.txn = FALSE \/ (x.txn = TRUE /\ Written(x, d, n - 1))
  BY <1>1
<1>3. v = ViewOf(x, d) /\ done \in Attempts /\ todo = MIGRATIONS(v, done)[n] \o <<Register(n)>>
  BY DEF Prepares
<1>4. y = [x EXCEPT !.todo = todo, !.next = n + 1]
  OBVIOUS
<1>5. Process(x, d) /\ Sound(d) /\ x.pc = "run" /\ x.todo = <<>>
  OBVIOUS
<1> QED
  BY ONLY <1>2, <1>3, <1>4, <1>5, PrepareFrom

(* A statement that is not refused. *)
LEMMA ExecutesProcess ==
  \A x, d, s, txn, after, todo, work, y, e :
    Process(x, d) /\ Sound(d) /\ Executes(x, d, s, txn, after, todo, work, y, e)
    => /\ Process(y, e) /\ Sound(e) /\ (e = d \/ Onward(d, e)) /\ Precious(d) \subseteq e.cells
<1> SUFFICES ASSUME NEW x, NEW d, NEW s, NEW txn, NEW after, NEW todo, NEW work, NEW y, NEW e,
                    Process(x, d), Sound(d), Executes(x, d, s, txn, after, todo, work, y, e)
             PROVE  /\ Process(y, e) /\ Sound(e) /\ (e = d \/ Onward(d, e)) /\ Precious(d)
                      \subseteq e.cells
  OBVIOUS
<1>0. /\ x.pc = "run" /\ x.todo # <<>> /\ s = Head(x.todo) /\ ~Refused(ViewOf(x, d), s)
      /\ txn = (x.txn \/ IsWrite(s)) /\ after = Executed(ViewOf(x, d), s)
      /\ todo = Tail(x.todo) /\ work = (IF txn THEN after ELSE Blank)
      /\ y = [x EXCEPT !.todo = todo, !.txn = txn, !.work = work]
      /\ e = (IF txn THEN d ELSE after)
  BY DEF Executes
<1> USE <1>0
<1>1. PICK n \in 1..Newest : x.next = n + 1 /\ (Preparing(x, d, n) \/ Writing(x, d, n))
  BY DEF Process, Starting, Written
<1>2. x.txn \in BOOLEAN /\ txn \in BOOLEAN /\ Ends(x.todo, n) /\ (x.txn => Writing(x, d, n))
      /\ (~x.txn => x.txn = FALSE /\ Preparing(x, d, n))
  BY <1>1 DEF Preparing, Writing, IsWrite
<1>3. y = [pc |-> x.pc, applied |-> x.applied, next |-> x.next, todo |-> Tail(x.todo), txn |-> txn,
           work |-> IF txn THEN after ELSE Blank]
  <2>1. y = [x EXCEPT !.todo = todo, !.txn = txn, !.work = work]
    OBVIOUS
  <2>2. y = [pc |-> x.pc, applied |-> x.applied, next |-> x.next, todo |-> todo, txn |-> txn,
          work |-> work]
    BY <2>1 DEF Process
  <2> QED
    BY <2>2
<1>4. /\ y.pc = "run" /\ y.next = n + 1 /\ y.applied = x.applied /\ y.todo = Tail(x.todo) /\ y.txn
           = txn
      /\ txn => y.work = after
      /\ y = [pc |-> y.pc, applied |-> y.applied, next |-> y.next, todo |-> y.todo, txn |-> y.txn,
              work |-> y.work]
  BY <1>1, <1>3
<1>5. /\ s.op = "register" => y.todo = <<>> /\ s = Register(n) /\ s.cols = {n}
      /\ s.op # "register" => Ends(y.todo, n)
  <2>1. /\ Head(x.todo).op = "register" => Tail(x.todo) = <<>> /\ Head(x.todo) = Register(n)
        /\ Head(x.todo).op # "register" => Ends(Tail(x.todo), n)
    BY <1>1, <1>2, EndsTail
  <2>2. Register(n).cols = {n}
    BY DEF Register, Statement
  <2> QED
    BY <1>4, <2>1, <2>2
<1>6. CASE txn = FALSE
  <2>1. ~x.txn /\ ~IsWrite(s) /\ Preparing(x, d, n) /\ e = after /\ ViewOf(x, d) = d
    BY <1>2, <1>6 DEF ViewOf
  <2>2. Mild(s) /\ MildFirst(y.todo)
    BY <1>4, <2>1, MildFirstTail DEF Preparing
  <2>3. /\ Sound(e) /\ Onward(d, e) /\ Precious(d) \subseteq e.cells /\ e.names = d.names
        /\ (Kept \intersect d.cols) \union Provided(s) \subseteq e.cols
    BY <2>1, <2>2, StatementKeeps
  <2>4. s.op # "register"
    BY <2>1 DEF IsWrite
  <2>5. ASSUME n \notin e.names
        PROVE  \E P : /\ P \subseteq Kept \intersect e.cols /\ Harmless(y.todo, P)
                      /\ Promised(n) \subseteq P \union ProvidedBy(y.todo, Len(y.todo))
    <3>1. PICK P : /\ P \subseteq Kept \intersect d.cols /\ Harmless(x.todo, P)
                   /\ Promised(n) \subseteq P \union ProvidedBy(x.todo, Len(x.todo))
      BY <2>1, <2>3, <2>5 DEF Preparing
    <3> DEFINE O == P \union Provided(s)
    <3>2. Harmless(y.todo, O)
      BY <1>4, <2>1, <3>1, HarmlessTail
    <3>3. O \subseteq Kept \intersect e.cols
      BY <2>3, <3>1 DEF Provided
    <3>4. ProvidedBy(x.todo, Len(x.todo)) = Provided(s) \union ProvidedBy(y.todo, Len(y.todo))
      <4>1. IsScript(x.todo)
        BY <1>2 DEF Ends
      <4>2. Len(y.todo) \in 0..Len(y.todo) /\ Len(x.todo) = Len(y.todo) + 1
        BY <1>4, <4>1, ScriptFacts
      <4>3. /\ Tail(x.todo) = y.todo /\ Len(y.todo) \in 0..Len(Tail(x.todo))
            /\ Len(x.todo) = Len(y.todo) + 1 /\ Head(x.todo) = s
        BY <1>4, <4>2
      <4>4. ProvidedBy(x.todo, Len(y.todo) + 1)
              = Provided(Head(x.todo)) \union ProvidedBy(Tail(x.todo), Len(y.todo))
        BY <4>1, <4>3, ProvidedHead
      <4> QED
        BY <4>3, <4>4
    <3> QED
      BY <3>1, <3>2, <3>3, <3>4
  <2>6. Preparing(y, e, n)
    BY <1>4, <1>5, <1>6, <2>1, <2>2, <2>3, <2>4, <2>5 DEF Preparing
  <2> QED
    BY <1>2, <1>4, <2>1, <2>3, <2>6 DEF Process
<1>7. CASE txn = TRUE
  <2> DEFINE v == ViewOf(x, d)
             C == Precious(d)
  <2>1. /\ e = d /\ y.work = after /\ after = Executed(v, s) /\ Precious(d) \subseteq e.cells
    BY <1>4, <1>7, SoundFacts
  <2>2. /\ Shaped(v) /\ x.applied \subseteq 1..(n - 1) /\ 1..(n - 1) \subseteq v.names
        /\ d.names \subseteq v.names /\ \E m \in 0..Newest : v.names = 1..m
        /\ n \notin v.names => \E Q : Promised(n) \subseteq Q /\ Secure(C, v, x.todo, Q)
    <3>1. CASE x.txn
      BY <1>2, <3>1 DEF ViewOf, Writing
    <3>2. CASE ~x.txn
      <4>1. v = d /\ Preparing(x, d, n)
        BY <1>2, <3>2 DEF ViewOf
      <4>2. Shaped(d) /\ \E m \in 0..Newest : d.names = 1..m
        BY SoundFacts
      <4>3. ASSUME n \notin d.names
            PROVE  \E Q : Promised(n) \subseteq Q /\ Secure(C, d, x.todo, Q)
        <5>1. PICK P : /\ P \subseteq Kept \intersect d.cols /\ Harmless(x.todo, P)
                       /\ Promised(n) \subseteq P \union ProvidedBy(x.todo, Len(x.todo))
          BY <4>1, <4>3 DEF Preparing
        <5>2. IsPrecious(C) /\ Fits(d, Home(C, P))
          BY <5>1, SoundFacts
        <5>3. Secure(C, d, x.todo, P \union ProvidedBy(x.todo, Len(x.todo)))
          BY <5>1, <5>2, SecureStart
        <5> QED
          BY <5>1, <5>3
      <4> QED
        BY <4>1, <4>2, <4>3 DEF Preparing
    <3> QED
      BY <1>2, <3>1, <3>2
  <2> HIDE DEF v, C
  <2>3. /\ Shaped(after) /\ after.names = v.names \union (IF s.op = "register" THEN s.cols ELSE {})
    <3>1. Shaped(v)
      BY <2>2
    <3>2. Shaped(Executed(v, s))
          /\ Executed(v, s).names = v.names \union (IF s.op = "register" THEN s.cols ELSE {})
      BY ONLY <3>1, ExecutedShaped
    <3> QED
      BY <2>1, <3>2
  <2>4. ASSUME n \notin v.names
        PROVE  \E Q : Promised(n) \subseteq Q /\ Secure(C, after, y.todo, Q)
    BY <1>4, <2>1, <2>2, <2>4, SecureStep DEF v
  <2>5. CASE s.op # "register"
    <3>1. after.names = v.names
      BY <2>3, <2>5
    <3>2. Writing(y, d, n)
      BY <1>4, <1>5, <1>7, <2>1, <2>2, <2>3, <2>4, <2>5, <3>1 DEF Writing, C
    <3> QED
      BY <1>2, <1>4, <2>1, <3>2 DEF Process
  <2>6. CASE s.op = "register"
    <3>1. y.todo = <<>> /\ s.cols = {n} /\ after.names = v.names \union {n}
      BY <1>5, <2>3, <2>6
    <3>2. n \notin v.names
      <4>1. ~RecordedTwice(v, s)
        BY <2>6 DEF Refused, v
      <4> QED
        BY <2>6, <3>1, <4>1 DEF RecordedTwice
    <3>3. PICK m \in 0..Newest : v.names = 1..m
      BY <2>2
    <3>4. m = n - 1
      <4>1. m \in Nat /\ n \in Nat /\ n >= 1
        BY <1>1, <3>3, NumberFacts
      <4>2. ~(n <= m)
        BY <3>2, <3>3, <4>1
      <4>3. n - 1 <= m
        <5>1. CASE n = 1
          BY <4>1, <5>1
        <5>2. CASE n # 1
          <6>1. n - 1 \in 1..m
            BY <2>2, <3>3, <4>1, <5>2
          <6> QED
            BY <6>1
        <5> QED
          BY <5>1, <5>2
      <4> QED
        BY <4>1, <4>2, <4>3
    <3>5. after.names = 1..n /\ d.names \subseteq 1..(n - 1) /\ x.applied \subseteq 1..n
      <4>1. v.names = 1..(n - 1)
        BY <3>3, <3>4
      <4>2. 1..(n - 1) \subseteq 1..n /\ (1..(n - 1)) \union {n} = 1..n
        BY <1>1, NumberFacts
      <4> QED
        BY <2>2, <3>1, <4>1, <4>2
    <3>6. PICK Q : Promised(n) \subseteq Q /\ Secure(C, after, <<>>, Q)
      BY <2>4, <3>1, <3>2
    <3>7. Fits(after, Home(C, Q))
      BY <3>6, SecureEnd
    <3>8. Fits(after, Home(C, Promised(n)))
      BY <3>6, <3>7, FitsShape DEF Home
    <3>9. Written(y, d, n)
      BY <1>4, <1>7, <2>1, <3>1, <3>5, <3>8 DEF Written, C
    <3> QED
      BY <1>2, <1>4, <2>1, <3>9 DEF Process
  <2> QED
    BY <2>5, <2>6
<1> QED
  BY <1>2, <1>6, <1>7

LEMMA CommitKeeps ==
  ASSUME NEW x, NEW d, Process(x, d), Sound(d), x.pc = "run", x.todo = <<>>,
         NEW e, e = ViewOf(x, d)
  PROVE  /\ Sound(e) /\ (e = d \/ Onward(d, e)) /\ Precious(d) \subseteq e.cells
<1>1. CASE x.txn = FALSE
  BY <1>1, SoundFacts DEF ViewOf
<1>2. ASSUME NEW n \in 1..Newest, Written(x, d, n)
      PROVE  /\ Sound(e) /\ (e = d \/ Onward(d, e)) /\ Precious(d) \subseteq e.cells
  <2>1. e = x.work /\ e.names = 1..n /\ d.names \subseteq 1..(n - 1)
        /\ Fits(e, Home(Precious(d), Promised(n))) /\ n \in 0..Newest
    BY <1>2 DEF Written, ViewOf, Newest
  <2>2. Sound(e)
    BY <2>1, FitsSound, PromisedFacts
  <2>3. Precious(d) \subseteq e.cells
    BY <2>1, FitsShape DEF Home
  <2> QED
    BY <2>1, <2>2, <2>3 DEF Onward
<1> QED
  BY <1>1, <1>2 DEF Process, Starting, Preparing, Writing, Ends

-----------------------------------------------------------------------------
(* The invariant and the theorems.                                         *)

(* The inductive invariant: every process is where one of the four stages  *)
(* above leaves it, on a sound database, and one at most is in a           *)
(* transaction.                                                            *)
MigrationsInv ==
  /\ Sound(disk)
  /\ run = [r \in Runners |-> run[r]]
  /\ \A r \in Runners : Process(run[r], disk)
  /\ \A r, o \in Runners : run[r].txn = TRUE /\ run[o].txn = TRUE => r = o

LEMMA IdleProcess ==
  ASSUME NEW d, NEW p, p # "run"
  PROVE  Process(Idle(p), d) /\ Idle(p).txn = FALSE
BY DEF Idle, Process

LEMMA BegunProcess ==
  ASSUME NEW d, Sound(d), NEW y, y = [Idle("run") EXCEPT !.applied = d.names]
  PROVE  Process(y, d) /\ y.txn = FALSE
<1>1. y = [pc |-> "run", applied |-> d.names, next |-> 1, todo |-> <<>>, txn |-> FALSE,
        work |-> Blank]
  BY DEF Idle
<1>2. PICK m \in 0..Newest : d.names = 1..m
  BY SoundFacts
<1>3. Starting(y, d)
  BY <1>1, <1>2 DEF Starting
<1> QED
  BY <1>1, <1>3 DEF Process

LEMMA TxnBoolean == \A x, d : Process(x, d) => x.txn = TRUE \/ x.txn = FALSE
BY DEF Process, Starting, Preparing, Writing, Written

LEMMA OneMoves ==
  ASSUME MigrationsInv, NEW r \in Runners, NEW y, run' = [run EXCEPT ![r] = y],
         Process(y, disk'), Sound(disk'),
         disk' = disk \/ (Onward(disk, disk') /\ \A o \in Runners \ {r} : run[o].txn = FALSE),
         y.txn = TRUE => \A o \in Runners \ {r} : run[o].txn = FALSE
  PROVE  MigrationsInv'
<1>1. run' = [o \in Runners |-> IF o = r THEN y ELSE run[o]]
  BY DEF MigrationsInv
<1>2. run' = [o \in Runners |-> run'[o]] /\ run'[r] = y /\ \A o \in Runners \ {r} : run'[o] = run[o]
  BY <1>1
<1>3. ASSUME NEW o \in Runners PROVE Process(run'[o], disk')
  <2>1. CASE o = r
    BY <1>2, <2>1
  <2>2. CASE o # r
    <3>1. run'[o] = run[o] /\ Process(run[o], disk) /\ Sound(disk)
      BY <1>2, <2>2 DEF MigrationsInv
    <3>2. CASE disk' = disk
      BY <3>1, <3>2
    <3>3. CASE Onward(disk, disk') /\ run[o].txn = FALSE
      BY <3>1, <3>3, OthersGoOn
    <3> QED
      BY <2>2, <3>2, <3>3
  <2> QED
    BY <2>1, <2>2
<1>4. ASSUME NEW o \in Runners, NEW p \in Runners, run'[o].txn = TRUE, run'[p].txn = TRUE PROVE o
               = p
  BY <1>2, <1>4 DEF MigrationsInv
<1> QED
  BY <1>2, <1>3, <1>4 DEF MigrationsInv

LEMMA MigrationsInitially == MigrationsInit => MigrationsInv
<1> SUFFICES ASSUME MigrationsInit PROVE MigrationsInv
  OBVIOUS
<1>1. run = [r \in Runners |-> Idle("down")] /\ Sound(disk)
  BY MigrationsAssumption DEF MigrationsInit
<1>2. \A r \in Runners : run[r] = Idle("down")
  BY <1>1
<1>3. \A r \in Runners : Process(run[r], disk) /\ run[r].txn = FALSE
  <2>1. Process(Idle("down"), disk) /\ Idle("down").txn = FALSE
    BY IdleProcess
  <2> QED
    BY <1>2, <2>1
<1>4. run = [r \in Runners |-> run[r]]
  BY <1>1
<1> QED
  BY <1>1, <1>3, <1>4 DEF MigrationsInv

(* Every step keeps the invariant, and what rows the database has. *)
LEMMA MigrationsStep ==
  MigrationsInv /\ [MigrationsNext]_migrationVars => MigrationsInv' /\ Precious(disk)
    \subseteq disk'.cells
<1> SUFFICES ASSUME MigrationsInv, [MigrationsNext]_migrationVars
             PROVE  MigrationsInv' /\ Precious(disk) \subseteq disk'.cells
  OBVIOUS
<1>0. Sound(disk) /\ Precious(disk) \subseteq disk.cells
  BY SoundFacts DEF MigrationsInv
<1>1. CASE UNCHANGED migrationVars
  BY <1>0, <1>1 DEF migrationVars, MigrationsInv
<1>2. ASSUME NEW r \in Runners, Begin(r) \/ Advance(r) \/ Crash(r)
      PROVE  MigrationsInv' /\ Precious(disk) \subseteq disk'.cells
  <2> DEFINE x == run[r]
             OthersIdle == \A o \in Runners \ {r} : run[o].txn = FALSE
  <2>1. Process(x, disk)
    BY DEF MigrationsInv
  <2>2. x.txn = TRUE => OthersIdle
    <3>1. \A o \in Runners : run[o].txn = TRUE \/ run[o].txn = FALSE
      BY TxnBoolean DEF MigrationsInv
    <3> QED
      BY <3>1 DEF MigrationsInv
  <2>3. View(r) = ViewOf(x, disk)
    BY DEF View, ViewOf
  <2> HIDE DEF x
  <2>4. CASE Begin(r)
    <3> DEFINE y == [Idle("run") EXCEPT !.applied = disk.names]
    <3>1. run' = [run EXCEPT ![r] = y] /\ disk' = disk
      BY <2>4 DEF Begin
    <3> HIDE DEF y
    <3>2. Process(y, disk) /\ y.txn = FALSE
      BY <1>0, BegunProcess DEF y
    <3> QED
      BY <1>0, <3>1, <3>2, OneMoves
  <2>5. CASE Prepare(r)
    <3>0. PICK done \in Attempts :
          run' = [run EXCEPT ![r].todo = MIGRATIONS(View(r), done)[Least(Unapplied(r))]
                                           \o <<Register(Least(Unapplied(r)))>>,
                             ![r].next = Least(Unapplied(r)) + 1]
      BY <2>5 DEF Prepare, Least
    <3> DEFINE U == Unapplied(r)
               n == Least(U)
               v == ViewOf(x, disk)
               todo == MIGRATIONS(v, done)[n] \o <<Register(n)>>
               y == [x EXCEPT !.todo = todo, !.next = n + 1]
    <3>1. /\ x.pc = "run" /\ x.todo = <<>> /\ U # {} /\ disk' = disk
          /\ U = {i \in x.next..Knows[r] : i \notin x.applied} /\ Knows[r] \in 1..Newest
      BY <2>5, MigrationsAssumption DEF Prepare, Unapplied, x
    <3>2. run' = [run EXCEPT ![r].todo = MIGRATIONS(View(r), done)[n] \o <<Register(n)>>, ![r].next
            = n + 1]
      BY <3>0
    <3> HIDE DEF U, n
    <3>5. v = ViewOf(x, disk) /\ todo = MIGRATIONS(v, done)[n] \o <<Register(n)>>
          /\ y = [x EXCEPT !.todo = todo, !.next = n + 1] /\ n = Least(U) /\ done \in Attempts
      BY DEF n
    <3> HIDE DEF v, todo
    <3>3. run' = [run EXCEPT ![r] = y]
      <4>1. run' = [run EXCEPT ![r].todo = todo, ![r].next = n + 1]
        BY <2>3, <3>2, <3>5
      <4>2. run = [o \in Runners |-> run[o]]
        BY DEF MigrationsInv
      <4> QED
        BY <4>1, <4>2 DEF x
    <3> HIDE DEF y
    <3>4. Process(y, disk) /\ y.txn = x.txn
      <4>1. Prepares(x, disk, Knows[r], U, n, v, done, todo, y)
        BY ONLY <3>1, <3>5 DEF Prepares
      <4> QED
        BY ONLY <1>0, <2>1, <4>1, PreparesProcess
    <3> QED
      BY <1>0, <2>2, <3>1, <3>3, <3>4, OneMoves
  <2>6. CASE Execute(r)
    <3> DEFINE s == Head(x.todo)
               v == ViewOf(x, disk)
               txn == x.txn \/ IsWrite(s)
               after == Executed(v, s)
               todo == Tail(x.todo)
               work == IF txn THEN after ELSE Blank
               y == [x EXCEPT !.todo = todo, !.txn = txn, !.work = work]
    <3>1. x.pc = "run" /\ x.todo # <<>> /\ (x.txn \/ ~Locked(r))
      BY <2>6 DEF Execute, x
    <3>2. OthersIdle
      <4>1. CASE x.txn = TRUE
        BY <2>2, <4>1
      <4>2. CASE x.txn = FALSE
        <5>1. \A o \in Runners \ {r} : ~run[o].txn
          BY <3>1, <4>2 DEF Locked
        <5>2. \A o \in Runners : run[o].txn = TRUE \/ run[o].txn = FALSE
          BY TxnBoolean DEF MigrationsInv
        <5> QED
          BY <5>1, <5>2
      <4> QED
        BY <2>1, <4>1, <4>2, TxnBoolean
    <3>3. CASE Refused(v, s)
      <4>1. run' = [run EXCEPT ![r] = Idle("failed")] /\ disk' = disk
        BY <2>3, <2>6, <3>3 DEF Execute, x
      <4> QED
        BY <1>0, <4>1, IdleProcess, OneMoves
    <3>4. CASE ~Refused(v, s)
      <4>1. /\ run' = [run EXCEPT ![r].todo = Tail(@), ![r].txn = txn,
                                  ![r].work = IF txn THEN after ELSE Blank]
            /\ disk' = IF txn THEN disk ELSE after
        BY <2>3, <2>6, <3>4 DEF Execute, x
      <4>5. run' = [run EXCEPT ![r].todo = todo, ![r].txn = txn, ![r].work = work]
        BY <4>1 DEF x
      <4>3. /\ s = Head(x.todo) /\ ~Refused(ViewOf(x, disk), s) /\ txn = (x.txn \/ IsWrite(s))
            /\ after = Executed(ViewOf(x, disk), s) /\ todo = Tail(x.todo)
            /\ work = (IF txn THEN after ELSE Blank)
            /\ y = [x EXCEPT !.todo = todo, !.txn = txn, !.work = work]
        BY <3>4
      <4> HIDE DEF s, v, txn, after, todo, work, y
      <4>2. run' = [run EXCEPT ![r] = y]
        <5>3. run = [o \in Runners |-> run[o]]
          BY DEF MigrationsInv
        <5>4. run' = [run EXCEPT ![r] = [x EXCEPT !.todo = todo, !.txn = txn, !.work = work]]
          BY <4>5, <5>3 DEF x
        <5> QED
          BY <4>3, <5>4
      <4>4. /\ Process(y, disk') /\ Sound(disk') /\ (disk' = disk \/ Onward(disk, disk'))
            /\ Precious(disk) \subseteq disk'.cells
        <5>1. PICK e : e = disk'
          OBVIOUS
        <5>2. e = (IF txn THEN disk ELSE after)
          BY <4>1, <5>1
        <5>4. /\ Process(y, e) /\ Sound(e) /\ (e = disk \/ Onward(disk, e)) /\ Precious(disk)
                   \subseteq e.cells
          <6>1. Executes(x, disk, s, txn, after, todo, work, y, e)
            BY ONLY <3>1, <4>3, <5>2 DEF Executes
          <6> QED
            BY ONLY <1>0, <2>1, <6>1, ExecutesProcess
        <5> QED
          BY <5>1, <5>4
      <4> QED
        BY <3>2, <4>2, <4>4, OneMoves
    <3> QED
      BY <3>3, <3>4
  <2>7. CASE Commit(r)
    <3>1. /\ x.pc = "run" /\ x.todo = <<>> /\ disk' = ViewOf(x, disk)
          /\ run' = [run EXCEPT ![r] = Idle("up")]
      BY <2>3, <2>7 DEF Commit, x
    <3>2. Sound(disk') /\ (disk' = disk \/ Onward(disk, disk')) /\ Precious(disk)
            \subseteq disk'.cells
      BY <1>0, <2>1, <3>1, CommitKeeps
    <3>3. x.txn # TRUE => disk' = disk
      BY <2>1, <3>1, TxnBoolean DEF ViewOf
    <3>4. Process(Idle("up"), disk') /\ Idle("up").txn = FALSE
      BY IdleProcess
    <3> QED
      BY <2>2, <3>1, <3>2, <3>3, <3>4, OneMoves
  <2>8. CASE Crash(r)
    <3>1. run' = [run EXCEPT ![r] = Idle("failed")] /\ disk' = disk
      BY <2>8 DEF Crash
    <3> QED
      BY <1>0, <3>1, IdleProcess, OneMoves
  <2>9. CASE Restart(r)
    <3>1. run' = [run EXCEPT ![r] = Idle("down")] /\ disk' = disk
      BY <2>9 DEF Restart
    <3> QED
      BY <1>0, <3>1, IdleProcess, OneMoves
  <2> QED
    BY <1>2, <2>4, <2>5, <2>6, <2>7, <2>8, <2>9 DEF Advance
<1> QED
  BY <1>1, <1>2 DEF MigrationsNext

LEMMA MigrationsInvariant == MigrationsSpec => []MigrationsInv
<1>1. MigrationsInv /\ [MigrationsNext]_migrationVars => MigrationsInv'
  BY MigrationsStep
<1> QED
  BY <1>1, MigrationsInitially, PTL DEF MigrationsSpec

(* The schema stays sound: whatever is interrupted, run twice or run by an *)
(* older release, the migrations on record are the first ones and have     *)
(* been applied, tables keep the columns they were created with, and no    *)
(* row hangs from a table that a migration drops.                          *)
THEOREM SchemaStaysSound == MigrationsSpec => []Sound(disk)
<1>1. MigrationsInv => Sound(disk)
  BY DEF MigrationsInv
<1> QED
  BY <1>1, MigrationsInvariant, PTL

(* A migration on record has been applied (RecordedIsApplied), for any     *)
(* number of processes, releases, rows, crashes and starting databases.    *)
THEOREM RecordedMigrationsApplied == MigrationsSpec => []RecordedIsApplied
<1>1. MigrationsInv => RecordedIsApplied
  BY DEF MigrationsInv, Sound, RecordedIsApplied
<1> QED
  BY <1>1, MigrationsInvariant, PTL

(* No row and no preference is lost when a table or a column is rebuilt    *)
(* (RowsSurvive), wherever a process dies and whatever another one does.   *)
THEOREM RowsAreKept == MigrationsSpec => RowsSurvive
<1>1. MigrationsInv /\ [MigrationsNext]_migrationVars
      => [{d \in disk.cells : <<d[1], d[2]>> \in Valued} \subseteq disk'.cells]_migrationVars
  BY MigrationsStep DEF Precious
<1> QED
  BY <1>1, MigrationsInvariant, PTL DEF MigrationsSpec, RowsSurvive
=============================================================================
