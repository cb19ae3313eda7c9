------------------------------ MODULE SongPool ------------------------------
(***************************************************************************)
(* How a requested song comes into the shared pool (downloader_service.py, *)
(* routers/music/downloads.py, track_identity.py, importer.py): threads    *)
(* look it up, fetch it with one engine after another, and put file and    *)
(* row into the pool, beside an administrator who deletes songs and a      *)
(* process that may be restarted.                                          *)
(***************************************************************************)
EXTENDS Naturals, FiniteSets, Sequences

CONSTANTS Songs,        \* songs: artist, title and version
          Copies,       \* the contents that engines produce for a song
          Part,         \* the content that an engine leaves behind when it fails
          Names,        \* file names in the pool before a suffix is added
          NameOf,       \* [Songs -> Names]: several songs may get one name
          Asks,         \* requests: what the link identifies, the songs behind it, the engines
          Jobs, Slots,  \* requests, and how many of them run at a time
          MaxEvents     \* bound on deletions, imports and restarts

(* _download_source and the engines of a Spotify link behind it.            *)
Engines == {"federation", "worker", "spotiflac", "auth", "anonymous", "basic", "query", "ytdlp"}

ASSUME SongPoolAssumption ==
  /\ Jobs \subseteq Nat
  /\ NameOf \in [Songs -> Names]
  /\ Part \in Copies
  /\ Slots \in Nat \ {0} /\ MaxEvents \in Nat
  /\ "local" \notin Songs /\ "" \notin Copies
  /\ Asks \subseteq [source : Songs \cup {"local"}, songs : SUBSET Songs, titled : BOOLEAN,
                      engines : Seq(Engines)]
  \* a link identifies the songs behind it
  /\ \A a, b \in Asks : a.source = b.source /\ a.source # "local" => a.songs = b.songs

None == [song |-> "none", copy |-> "none", source |-> "none"]    \* no file
NoPath == <<"none", "">>
NoTrack == [song |-> "none", copy |-> "none", source |-> "none", path |-> NoPath]
NoAsk == [source |-> "local", songs |-> {}, titled |-> FALSE, engines |-> <<>>]
Files == [song : Songs, copy : Copies, source : Songs \cup {"local"}]
Paths == Names \X (Copies \cup {""})
Rows == [song : Songs, copy : Copies, source : Songs \cup {"local"}, path : Paths]

VARIABLES
  pool,     \* the file at each path
  rows,     \* tracks
  job,      \* requests, with the place of the thread that serves each
  deletes,  \* paths of deleted tracks whose file is about to be removed
  stray,    \* history: paths where a crash, a failure or a deletion may have left a file
  ever,     \* history: songs that have had a row
  events    \* how many deletions, imports and restarts there were

vars == <<pool, rows, job, deletes, stray, ever, events>>

NoJob == [status |-> "none", ask |-> NoAsk, step |-> "idle", left |-> <<>>, folder |-> {},
          file |-> None, path |-> NoPath, track |-> NoTrack, count |-> 0]

Init ==
  /\ pool = [p \in Paths |-> None]
  /\ rows = {}
  /\ job = [j \in Jobs |-> NoJob]
  /\ deletes = {}
  /\ stray = {}
  /\ ever = {}
  /\ events = 0
-----------------------------------------------------------------------------
At(j, step) == job[j].step = step
Running == {j \in Jobs : job[j].step \notin {"idle", "queued", "raised"}}

(* The thread is done: its temporary folder goes with it.                   *)
Ended(ask, status) == [NoJob EXCEPT !.ask = ask, !.status = status]

Becomes(j, it) == job' = [job EXCEPT ![j] = it]
End(j, status) == Becomes(j, Ended(job[j].ask, status))

(* What is raised outside the try, or by its own handler, is only logged:   *)
(* the thread is over and the job stays on record as it is.                 *)
Abandoned(ask, status) == [NoJob EXCEPT !.ask = ask, !.status = status, !.step = "raised"]
Raised(j) == Becomes(j, Abandoned(job[j].ask, job[j].status))

(* The handler records the failure, when the database lets it.              *)
Fails(j) == End(j, "failed") \/ Raised(j)

Ask(j, a) ==
  /\ job[j] = NoJob /\ \A k \in Jobs : k < j => job[k] # NoJob
  /\ Becomes(j, [NoJob EXCEPT !.status = "pending", !.ask = a, !.step = "queued"])
  /\ UNCHANGED <<pool, rows, deletes, stray, ever>>

(* process_download waits for one of the slots; the thread first looks at   *)
(* the storage limit, as it was last measured.                              *)
Served(j) == At(j, "queued") /\ Cardinality(Running) < Slots

Begin(j) ==
  /\ Served(j)
  /\ Becomes(j, [job[j] EXCEPT !.status = "processing", !.step = "look"])
  /\ UNCHANGED <<pool, rows, deletes, stray, ever>>

Refuse(j) ==
  /\ Served(j) /\ Fails(j)
  /\ UNCHANGED <<pool, rows, deletes, stray, ever>>

(* find_existing_track by the id of the link, by content, by identity.      *)
BySource(source) == {r \in rows : r.source = source /\ source # "local"}
ByContent(f) == {r \in rows : r.song = f.song /\ r.copy = f.copy}
BySong(song) == {r \in rows : r.song = song}

Known(f) ==
  IF BySource(f.source) # {} THEN BySource(f.source)
  ELSE IF ByContent(f) # {} THEN ByContent(f) ELSE BySong(f.song)

(* A song of a collection is also known by the title that was asked for.    *)
KnownBefore(a) ==
  IF BySource(a.source) # {} \/ ~a.titled THEN BySource(a.source)
  ELSE UNION {BySong(s) : s \in a.songs}

(* The list or the track of a known song may be gone when they are linked,  *)
(* before any try (_link_track_to_playlist).                                *)
Look(j) ==
  LET known == KnownBefore(job[j].ask)
  IN /\ At(j, "look")
     /\ \/ (\E r \in known : pool[r.path] # None) /\ End(j, "completed")
        \/ Raised(j)
        \/ /\ known = {} \/ \E r \in known : pool[r.path] = None
           /\ Becomes(j, [job[j] EXCEPT !.step = "fetch", !.left = job[j].ask.engines])
     /\ UNCHANGED <<pool, rows, deletes, stray, ever>>

(* An engine succeeds when it says so and the folder has audio, whoever put *)
(* it there; one that fails may leave parts of files behind.                *)
Produced(j, copies) ==
  {[song |-> s, copy |-> c, source |-> job[j].ask.source] : s \in job[j].ask.songs, c \in copies}

Whole(j) == Produced(j, Copies \ {Part})
Parts(j) == Produced(j, {Part})

Engine(j) == Head(job[j].left)
Rest(j) == Tail(job[j].left)

Delivers(j, got) ==
  /\ job[j].folder \cup got # {}
  /\ Becomes(j, [job[j] EXCEPT !.step = "files", !.folder = @ \cup got])

Leaves(j, parts, left) == Becomes(j, [job[j] EXCEPT !.folder = @ \cup parts, !.left = left])

(* A peer sends one file, and what has come of it stays; the files of the   *)
(* worker are copied all or none.  When it cannot be stopped, or is to be   *)
(* the only one, no other engine is tried.                                  *)
FetchRemote(j) ==
  /\ Engine(j) \in {"federation", "worker"}
  /\ \/ \E got \in SUBSET Whole(j) \ {{}} :
          /\ Engine(j) = "federation" => \E f \in got : got = {f}
          /\ Delivers(j, got)
     \/ \E parts \in SUBSET Parts(j), left \in {Rest(j), <<>>} :
          /\ Engine(j) = "worker" => parts = {}
          /\ Leaves(j, parts, left)

(* The commands of SpotiFLAC and spotDL.  After an error in the metadata    *)
(* spotDL is not tried again.                                               *)
RunCommand(j) ==
  /\ Engine(j) \in {"spotiflac", "auth", "anonymous", "basic"}
  /\ \/ \E got \in SUBSET Whole(j) : Delivers(j, got)
     \/ \E parts \in SUBSET Parts(j), left \in {Rest(j), <<"query">>} :
          /\ Engine(j) \in {"spotiflac", "basic"} => left = Rest(j)
          /\ Leaves(j, parts, left)

(* yt-dlp, with the link or with searches for the title.                    *)
RunYtdlp(j) ==
  /\ Engine(j) \in {"query", "ytdlp"}
  /\ \/ \E got \in SUBSET Whole(j) : Delivers(j, got)
     \/ \E parts \in SUBSET Parts(j) : Leaves(j, parts, Rest(j))

Attempt(j) ==
  /\ At(j, "fetch") /\ job[j].left # <<>>
  /\ FetchRemote(j) \/ RunCommand(j) \/ RunYtdlp(j)
  /\ UNCHANGED <<pool, rows, deletes, stray, ever>>

(* No engine is left, or something is raised on the way.                    *)
GiveUp(j) ==
  /\ At(j, "fetch") \/ At(j, "files")
  /\ Fails(j)
  /\ UNCHANGED <<pool, rows, deletes, stray, ever>>

(* Each file is looked up again by what it turned out to be.  A new one     *)
(* gets a path, with its hash when there is a file at the plain one; the    *)
(* file of a track that has lost its own is put where it was.               *)
Free(p) == pool[p] = None
PathFor(f) ==
  IF Free(<<NameOf[f.song], "">>) THEN <<NameOf[f.song], "">> ELSE <<NameOf[f.song], f.copy>>

Unreadable(j) ==
  /\ At(j, "files")
  /\ \E f \in job[j].folder : Becomes(j, [job[j] EXCEPT !.folder = @ \ {f}])
  /\ UNCHANGED <<pool, rows, deletes, stray, ever>>

Count(j, f) ==
  Becomes(j, [job[j] EXCEPT !.step = "files", !.folder = @ \ {f}, !.count = 1, !.file = None,
                            !.path = NoPath, !.track = NoTrack])

Place(j, f, step, path, r) ==
  Becomes(j, [job[j] EXCEPT !.step = step, !.file = f, !.path = path, !.track = r])

Take(j) ==
  /\ At(j, "files")
  /\ \E f \in job[j].folder :
       \/ Known(f) = {} /\ Place(j, f, "placing", PathFor(f), NoTrack)
       \/ \E r \in Known(f) : IF Free(r.path) THEN Place(j, f, "restoring", r.path, r)
                                              ELSE Count(j, f)
  /\ UNCHANGED <<pool, rows, deletes, stray, ever>>

(* shutil.move puts the file there whatever is there by now.                *)
Put(j) ==
  /\ At(j, "placing")
  /\ pool' = [pool EXCEPT ![job[j].path] = job[j].file]
  /\ Becomes(j, [job[j] EXCEPT !.step = "placed"])
  /\ UNCHANGED <<rows, deletes, stray, ever>>

RowFor(f, p) == [song |-> f.song, copy |-> f.copy, source |-> f.source, path |-> p]

(* Paths, contents and the ids of links are unique in the table.            *)
Unique(f, p) ==
  /\ BySource(f.source) = {} /\ ByContent(f) = {}
  /\ \A r \in rows : r.path # p

\* mutant: a file whose row is refused stays where it was put
CommitLeaving(j) ==
  LET f == job[j].file  p == job[j].path
  IN /\ At(j, "placed")
     /\ \/ /\ Unique(f, p)
           /\ rows' = rows \cup {RowFor(f, p)} /\ ever' = ever \cup {f.song}
           /\ Count(j, f)
        \/ Fails(j) /\ UNCHANGED <<rows, ever>>
     /\ UNCHANGED <<pool, deletes, stray>>

(* The row is refused when another thread was first, or when the database   *)
(* is locked; the file is then taken back and goes with the folder.         *)
Commit(j) ==
  LET f == job[j].file  p == job[j].path
  IN /\ At(j, "placed")
     /\ \/ /\ Unique(f, p)
           /\ rows' = rows \cup {RowFor(f, p)} /\ ever' = ever \cup {f.song}
           /\ Count(j, f)
           /\ UNCHANGED pool
        \/ /\ Fails(j)
           /\ pool' = [pool EXCEPT ![p] = None]
           /\ UNCHANGED <<rows, ever>>
     /\ UNCHANGED <<deletes, stray>>

(* The track may have been deleted since it was looked up: the file is in   *)
(* the pool by then, and the thread fails.                                  *)
Restore(j) ==
  LET f == job[j].file  p == job[j].path
  IN /\ At(j, "restoring")
     /\ pool' = [pool EXCEPT ![p] = f]
     /\ IF job[j].track \in rows
        THEN Count(j, f) /\ UNCHANGED stray
        ELSE Fails(j) /\ stray' = stray \cup {p}
     /\ UNCHANGED <<rows, deletes, ever>>

\* mutant: no file at all is enough
FinishAnyway(j) ==
  /\ At(j, "files") /\ job[j].folder = {}
  /\ End(j, "completed")
  /\ UNCHANGED <<pool, rows, deletes, stray, ever>>

(* The files are through; without any of them the job has failed.           *)
Finish(j) ==
  /\ At(j, "files") /\ job[j].folder = {}
  /\ IF job[j].count = 0 THEN Fails(j) ELSE End(j, "completed")
  /\ UNCHANGED <<pool, rows, deletes, stray, ever>>
-----------------------------------------------------------------------------
(* _delete_track_from_library commits the deletion and then removes the     *)
(* file; a removal that fails leaves it.                                    *)
DeleteRow(r) ==
  /\ deletes = {}
  /\ rows' = rows \ {r}
  /\ deletes' = {r.path}
  /\ UNCHANGED <<pool, job, stray, ever>>

RemoveFile(p) ==
  /\ deletes' = deletes \ {p}
  /\ \/ pool' = [pool EXCEPT ![p] = None] /\ UNCHANGED stray
     \/ stray' = stray \cup {p} /\ UNCHANGED pool
  /\ UNCHANGED <<rows, job, ever>>

(* import_one, run from the command line, moves a file and inserts its row; *)
(* when the insertion fails the file stays.                                 *)
ImportLocal(s, c) ==
  LET f == [song |-> s, copy |-> c, source |-> "local"]
      p == PathFor(f)
  IN /\ ByContent(f) = {} /\ BySong(s) = {}
     /\ pool' = [pool EXCEPT ![p] = f]
     /\ IF Unique(f, p)
        THEN rows' = rows \cup {RowFor(f, p)} /\ ever' = ever \cup {s} /\ UNCHANGED stray
        ELSE stray' = stray \cup {p} /\ UNCHANGED <<rows, ever>>
     /\ UNCHANGED <<job, deletes>>

\* mutant: jobs that were waiting are not swept
RestartProcessing ==
  /\ job' = [j \in Jobs |-> IF At(j, "idle") THEN job[j]
                            ELSE Ended(job[j].ask, IF At(j, "queued") THEN "pending" ELSE "failed")]
  /\ deletes' = {}
  /\ stray' = stray \cup deletes \cup {job[j].path : j \in {k \in Jobs : At(k, "placed")}}
  /\ UNCHANGED <<pool, rows, ever>>

(* The process ends with its threads; at startup the jobs they served have  *)
(* failed (mark_stuck_download_jobs_failed).                                *)
Restart ==
  /\ job' = [j \in Jobs |-> IF At(j, "idle") THEN job[j]
                            ELSE Ended(job[j].ask, "failed")]
  /\ deletes' = {}
  /\ stray' = stray \cup deletes \cup {job[j].path : j \in {k \in Jobs : At(k, "placed")}}
  /\ UNCHANGED <<pool, rows, ever>>

ThreadStep(j) ==
  \/ Begin(j) \/ Refuse(j) \/ Look(j) \/ Attempt(j) \/ GiveUp(j) \/ Unreadable(j) \/ Take(j)
  \/ Put(j) \/ Commit(j) \/ Restore(j) \/ Finish(j)

Event ==
  \/ \E r \in rows : DeleteRow(r)
  \/ \E s \in Songs, k \in Copies \ {Part} : ImportLocal(s, k)
  \/ Restart

Next ==
  \/ \E j \in Jobs, a \in Asks : Ask(j, a) /\ UNCHANGED events
  \/ \E j \in Jobs : ThreadStep(j) /\ UNCHANGED events
  \/ \E p \in deletes : RemoveFile(p) /\ UNCHANGED events
  \/ Event /\ events < MaxEvents /\ events' = events + 1

(* Threads go on, and the semaphore serves who waits.                       *)
Fairness == \A j \in Jobs : WF_vars(ThreadStep(j) /\ UNCHANGED events)

Spec == Init /\ [][Next]_vars /\ Fairness
-----------------------------------------------------------------------------
(* Tracks, files and jobs keep their types (database.py, Track and          *)
(* DownloadJob).                                                            *)
Steps == {"idle", "queued", "look", "fetch", "files", "placing", "placed", "restoring", "raised"}
JobRecords ==
  [status : {"none", "pending", "processing", "completed", "failed"}, ask : Asks \cup {NoAsk},
   step : Steps, left : Seq(Engines), folder : SUBSET Files, file : Files \cup {None},
   path : Paths \cup {NoPath}, track : Rows \cup {NoTrack}, count : {0, 1}]

TypeOK ==
  /\ pool \in [Paths -> Files \cup {None}]
  /\ rows \subseteq Rows
  /\ job \in [Jobs -> JobRecords]
  /\ deletes \subseteq Paths /\ stray \subseteq Paths
  /\ ever \subseteq Songs /\ events \in 0 .. MaxEvents

(* Every file of the pool belongs to a track, or to a thread that has put   *)
(* it there and not inserted its row, or to a deletion under way, or was    *)
(* left by a crash or a failure (_move_into_pool_and_create_track: failed   *)
(* commits do not leave orphan files).                                      *)
Placed == {job[j].path : j \in {k \in Jobs : At(k, "placed")}}

NoOrphans ==
  \A p \in Paths :
    pool[p] # None => p \in {r.path : r \in rows} \cup Placed \cup deletes \cup stray

(* A track plays its song, or what its link gave when its file was brought  *)
(* back: no thread leaves another song at its path (_process_download_sync).*)
PlaysItsSong ==
  \A r \in rows :
    r.path \notin Placed \cup deletes \cup stray =>
      \/ pool[r.path] = None
      \/ pool[r.path].song = r.song
      \/ pool[r.path].source = r.source /\ r.source # "local"

(* A job that was asked for ends, by its thread or by a restart, unless     *)
(* something was raised that its handler did not record; such a job waits   *)
(* for the sweep of the next start (run_download_in_background).            *)
EveryJobEnds ==
  \A j \in Jobs : (job[j].status \in {"pending", "processing"})
                    ~> (job[j].status \in {"completed", "failed"} \/ At(j, "raised"))

(* The downloads keep the promise of SongRequests.                          *)
Requests == INSTANCE SongRequests WITH
  status <- [j \in Jobs |-> job[j].status],
  wants <- [j \in Jobs |-> job[j].ask.songs],
  library <- {r.song : r \in rows}

RequestsSpec == Requests!Spec
=============================================================================
