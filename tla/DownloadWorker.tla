--------------------------- MODULE DownloadWorker ---------------------------
(***************************************************************************)
(* The isolated downloader (downloader-worker/worker.py) and its client in *)
(* the concierge (downloader_worker_client.py).  A download is submitted   *)
(* under a fresh id, polled and copied; when anything goes wrong the job   *)
(* is cancelled, and only when that is confirmed does the concierge fall   *)
(* back to its own downloader.  Requests, their answers and both processes *)
(* can be lost.                                                            *)
(***************************************************************************)
EXTENDS Naturals, FiniteSets

CONSTANTS Attempts,    \* calls of download_with_worker, each with a job id of its own (uuid4)
          WorkerSlots, \* CONCURRENT_DOWNLOADS: threads of the executor
          Automatic    \* the downloader mode: "automatic", or "worker" (no fallback)

ASSUME WorkerAssumption == WorkerSlots \in Nat \ {0} /\ Automatic \in BOOLEAN

Finished == {"completed", "failed", "cancelled"}   \* TERMINAL_WORKER_STATUSES
WorkerStatuses == {"absent", "pending", "running"} \cup Finished
Outcomes == {"imported", "legacy", "failed", "abandoned", "dead"}
Places ==
  {"idle", "posting", "polling", "copying", "copied", "unusable", "cancelling", "confirming"}

VARIABLES
  jobs,       \* worker: the status in jobs, or "absent"
  cancel,     \* worker: cancel_event of the job
  thread,     \* worker: _run_job of the job: "none", "queued" in the executor, "active"
  files,      \* staging volume: the jobs's folder is missing ("none"), "partial" or has "audio"
  post,       \* POST /jobs: "none", "sent", "answered", or "late": its client gave up on it
  pc,         \* client: where download_with_worker is
  submitted   \* client: its local variable of that name

workerVars == <<jobs, cancel, thread, files>>
clientVars == <<pc, submitted>>
downloadVars == <<workerVars, post, clientVars>>

WorkerInit ==
  /\ jobs = [a \in Attempts |-> "absent"]
  /\ cancel = [a \in Attempts |-> FALSE]
  /\ thread = [a \in Attempts |-> "none"]
  /\ files = [a \in Attempts |-> "none"]
  /\ post = [a \in Attempts |-> "none"]
  /\ pc = [a \in Attempts |-> "idle"]
  /\ submitted = [a \in Attempts |-> FALSE]
-----------------------------------------------------------------------------
(* The worker. *)

(* _prune_terminal_jobs removes finished jobs that are old enough, with     *)
(* their folders.                                                           *)
Prunable == {a \in Attempts : jobs[a] \in Finished}
Unless(old, f, gone) == [a \in Attempts |-> IF a \in old THEN gone ELSE f[a]]

(* create_job prunes, enters a new job and queues its thread.  Its early    *)
(* return for a known id is never taken: each id is posted once.            *)
CreateJob(a) ==
  /\ post[a] \in {"sent", "late"}
  /\ \E old \in SUBSET Prunable :
       /\ jobs' = [Unless(old, jobs, "absent") EXCEPT ![a] = "pending"]
       /\ files' = Unless(old, files, "none")
  /\ cancel' = [cancel EXCEPT ![a] = FALSE]
  /\ thread' = [thread EXCEPT ![a] = "queued"]
  /\ post' = [post EXCEPT ![a] = IF @ = "sent" THEN "answered" ELSE "none"]
  /\ UNCHANGED clientVars

(* GET /status prunes as well. *)
AskStatus ==
  /\ \E old \in (SUBSET Prunable) \ {{}} :
       jobs' = Unless(old, jobs, "absent") /\ files' = Unless(old, files, "none")
  /\ UNCHANGED <<cancel, thread, post, clientVars>>

\* mutant: an active job is removed at once, under its thread
DeleteAtOnce(a) ==
  /\ jobs' = [jobs EXCEPT ![a] = "absent"]
  /\ files' = [files EXCEPT ![a] = "none"]
  /\ cancel' = [cancel EXCEPT ![a] = TRUE]

(* delete_job asks an active job to stop and removes a finished one. *)
Delete(a) ==
  /\ jobs' = [jobs EXCEPT ![a] = IF @ \in Finished THEN "absent" ELSE @]
  /\ files' = [files EXCEPT ![a] = IF jobs[a] \in Finished THEN "none" ELSE @]
  /\ cancel' = [cancel EXCEPT ![a] = @ \/ jobs[a] \in {"pending", "running"}]

(* _run_job gets a thread of the executor, clears the folder and starts...  *)
Working == {a \in Attempts : thread[a] = "active"}
GetsThread(a) == thread[a] = "queued" /\ Cardinality(Working) < WorkerSlots

ThreadStarts(a) ==
  /\ GetsThread(a) /\ ~cancel[a]
  /\ jobs' = [jobs EXCEPT ![a] = "running"]
  /\ thread' = [thread EXCEPT ![a] = "active"]
  /\ files' = [files EXCEPT ![a] = "partial"]
  /\ UNCHANGED <<cancel, post, clientVars>>

(* ... or finds that the job was cancelled in the queue, or that its        *)
(* deadline, which counts from the submission, has passed.                  *)
ThreadSkips(a) ==
  /\ GetsThread(a)
  /\ jobs' = [jobs EXCEPT ![a] = "cancelled"]
  /\ thread' = [thread EXCEPT ![a] = "none"]
  /\ cancel' = [cancel EXCEPT ![a] = TRUE]
  /\ UNCHANGED <<files, post, clientVars>>

ThreadEnds(a, status, left) ==
  /\ thread[a] = "active"
  /\ jobs' = [jobs EXCEPT ![a] = status]
  /\ thread' = [thread EXCEPT ![a] = "none"]
  /\ files' = [files EXCEPT ![a] = left]
  /\ UNCHANGED <<post, clientVars>>

(* A download may complete or fail after the last look at cancel_event. *)
ThreadCompletes(a) == ThreadEnds(a, "completed", "audio") /\ UNCHANGED cancel
ThreadFails(a) == ThreadEnds(a, "failed", "partial") /\ UNCHANGED cancel

\* mutant: only cancel_event is looked at, not the deadline
ThreadHeeds(a) == cancel[a] /\ ThreadEnds(a, "cancelled", "partial") /\ UNCHANGED cancel

(* _raise_if_cancelled: cancel_event is set, or the deadline sets it. *)
ThreadInterrupted(a) ==
  /\ ThreadEnds(a, "cancelled", "partial")
  /\ cancel' = [cancel EXCEPT ![a] = TRUE]

(* The container restarts: jobs and threads are gone, connections are       *)
(* reset, and folders stay on the volume.                                   *)
WorkerRestarts ==
  /\ jobs' = [a \in Attempts |-> "absent"]
  /\ cancel' = [a \in Attempts |-> FALSE]
  /\ thread' = [a \in Attempts |-> "none"]
  /\ post' = [a \in Attempts |-> "none"]
  /\ UNCHANGED <<files, clientVars>>

(* The storage purge of the administrators (_run_storage_purge_job) removes *)
(* empty folders and files with an old time stamp, which a downloader may   *)
(* take from the source.  It spares folders that are named like the id of   *)
(* an unfinished download; those of the worker are called aoede-<id>-<hex>. *)
StagingName(a) == <<"aoede", a>>
Protected == {a \in Attempts : pc[a] \in Places}
Purge ==
  /\ \E stale \in SUBSET {a \in Attempts : files[a] # "none" /\ StagingName(a) \notin Protected} :
       stale # {} /\ files' = Unless(stale, files, "none")
  /\ UNCHANGED <<jobs, cancel, thread, post, clientVars>>
-----------------------------------------------------------------------------
(* The client. *)
Goes(a, place) == pc' = [pc EXCEPT ![a] = place]

(* WorkerUnavailable and WorkerDownloadFailed reach _download_source. *)
Fallback == IF Automatic THEN "legacy" ELSE "failed"

Submit(a) ==
  /\ pc[a] = "idle" /\ Goes(a, "posting")
  /\ post' = [post EXCEPT ![a] = "sent"]
  /\ UNCHANGED <<workerVars, submitted>>

Accepted(a) ==
  /\ pc[a] = "posting" /\ post[a] = "answered"
  /\ Goes(a, "polling")
  /\ submitted' = [submitted EXCEPT ![a] = TRUE]
  /\ post' = [post EXCEPT ![a] = "none"]
  /\ UNCHANGED workerVars

(* POST /jobs is refused, reset or times out; a request that timed out may  *)
(* still be on its way.  Nothing is cancelled, since submitted is not set.  *)
PostFails(a) ==
  /\ pc[a] = "posting" /\ Goes(a, Fallback)
  /\ \E rest \in {"none", "late"} :
       /\ rest = "late" => post[a] = "sent"
       /\ post' = [post EXCEPT ![a] = rest]
  /\ UNCHANGED <<workerVars, submitted>>

(* A poll sees that the job is over. *)
PollFinished(a) ==
  /\ pc[a] = "polling" /\ jobs[a] \in Finished
  /\ Goes(a, IF jobs[a] = "completed" THEN "copying" ELSE "unusable")
  /\ UNCHANGED <<workerVars, post, submitted>>

(* A poll is answered with 404, fails, or the deadline has passed. *)
StopPolling(a) ==
  /\ pc[a] = "polling" /\ Goes(a, "cancelling")
  /\ UNCHANGED <<workerVars, post, submitted>>

(* _copy_outputs copies all or nothing. *)
Copy(a) ==
  /\ pc[a] = "copying"
  /\ (files[a] = "audio" /\ Goes(a, "copied")) \/ Goes(a, "unusable")
  /\ UNCHANGED <<workerVars, post, submitted>>

(* The finally clause deletes a finished job, if the worker can be reached. *)
CleanUp(a) ==
  /\ pc[a] \in {"copied", "unusable"}
  /\ Goes(a, IF pc[a] = "copied" THEN "imported" ELSE Fallback)
  /\ Delete(a) \/ UNCHANGED <<jobs, files, cancel>>
  /\ UNCHANGED <<thread, post, submitted>>

\* mutant: the answer to DELETE is taken for the end of the job
CancelUnconfirmed(a) ==
  /\ pc[a] = "cancelling"
  /\ \/ Delete(a) /\ Goes(a, Fallback)
     \/ UNCHANGED <<jobs, files, cancel>> /\ Goes(a, "abandoned")
  /\ UNCHANGED <<thread, post, submitted>>

(* _cancel_and_confirm, first half: DELETE, whose answer may be lost.       *)
(* WorkerCleanupPending fails the download.                                 *)
Cancel(a) ==
  /\ pc[a] = "cancelling"
  /\ \/ Delete(a) /\ Goes(a, "confirming")
     \/ Delete(a) /\ Goes(a, "abandoned")
     \/ UNCHANGED <<jobs, files, cancel>> /\ Goes(a, "abandoned")
  /\ UNCHANGED <<thread, post, submitted>>

(* Second half: poll until the job is absent or over, for thirty seconds. *)
Confirm(a) ==
  /\ pc[a] = "confirming"
  /\ \/ jobs[a] = "absent" /\ Goes(a, Fallback) /\ UNCHANGED <<jobs, files, cancel>>
     \/ jobs[a] \in Finished /\ Delete(a) /\ Goes(a, Fallback)
     \/ jobs[a] \in Finished /\ Delete(a) /\ Goes(a, "abandoned")
     \/ Goes(a, "abandoned") /\ UNCHANGED <<jobs, files, cancel>>
  /\ UNCHANGED <<thread, post, submitted>>

(* The concierge restarts; requests it has sent may still arrive. *)
ConciergeRestarts ==
  /\ pc' = [a \in Attempts |-> IF pc[a] \in {"idle", "imported", "failed", "abandoned"}
                                 THEN pc[a] ELSE "dead"]
  /\ \E arrive \in SUBSET {a \in Attempts : post[a] \in {"sent", "late"}} :
       post' = [a \in Attempts |-> IF a \in arrive THEN "late" ELSE "none"]
  /\ UNCHANGED <<workerVars, submitted>>
-----------------------------------------------------------------------------
ClientStep(a) ==
  \/ Accepted(a) \/ PostFails(a) \/ PollFinished(a) \/ StopPolling(a) \/ Copy(a)
  \/ CleanUp(a) \/ Cancel(a) \/ Confirm(a)

WorkerNext ==
  \/ \E a \in Attempts :
       \/ Submit(a) \/ ClientStep(a) \/ CreateJob(a)
       \/ ThreadStarts(a) \/ ThreadSkips(a) \/ ThreadCompletes(a) \/ ThreadFails(a)
       \/ ThreadInterrupted(a)
  \/ AskStatus \/ Purge \/ WorkerRestarts \/ ConciergeRestarts

WorkerSpec == WorkerInit /\ [][WorkerNext]_downloadVars

(* Requests and loops of the client have timeouts, so it always goes on.    *)
(* The executor serves its queue, and a job runs into its deadline; that it *)
(* completes or fails before is not assumed.                                *)
FairWorkerSpec ==
  /\ WorkerSpec
  /\ \A a \in Attempts :
       /\ WF_downloadVars(ClientStep(a)) /\ WF_downloadVars(ThreadInterrupted(a))
       /\ WF_downloadVars(ThreadStarts(a) \/ ThreadSkips(a))
-----------------------------------------------------------------------------
(* Type correctness. *)
WorkerTypeOK ==
  /\ jobs \in [Attempts -> WorkerStatuses]
  /\ cancel \in [Attempts -> BOOLEAN]
  /\ thread \in [Attempts -> {"none", "queued", "active"}]
  /\ files \in [Attempts -> {"none", "partial", "audio"}]
  /\ post \in [Attempts -> {"none", "sent", "late", "answered"}]
  /\ pc \in [Attempts -> Places \cup Outcomes]
  /\ submitted \in [Attempts -> BOOLEAN]

(* The worker neither works nor will work on the download. *)
Quiet(a) == thread[a] = "none" /\ post[a] \notin {"sent", "late"}

(* "The worker may still be writing, so starting legacy fallback is unsafe" *)
(* (WorkerCleanupPending): once a submission was acknowledged, the          *)
(* concierge downloads by itself only when the worker has stopped, whatever *)
(* was lost, restarted, pruned or cancelled meanwhile.                      *)
FallbackAfterStop == \A a \in Attempts : pc[a] = "legacy" /\ submitted[a] => Quiet(a)

(* A job that the worker does not know, or calls finished, has no thread:   *)
(* what 404 and a final status mean to _cancel_and_confirm.                 *)
NoHiddenThreads == \A a \in Attempts : jobs[a] \in {"absent"} \cup Finished => thread[a] = "none"

(* Audio is copied into the library only after its thread has ended.        *)
CopiesAtRest == \A a \in Attempts : pc[a] \in {"copying", "copied"} => thread[a] = "none"

(* Every accepted job leaves the executor, also when its client is gone:    *)
(* its own deadline frees the slot.                                         *)
SlotsComeFree == \A a \in Attempts : (thread[a] # "none") ~> (thread[a] = "none")
=============================================================================
