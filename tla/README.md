# A TLA+ development for Aoede

Aoede is a self-hosted music server. One Python process, the *concierge* (FastAPI, SQLAlchemy on
SQLite, one event loop and its worker threads), serves the web and mobile clients. Beside it run
an *updater* container, a *downloader worker* container, one Navidrome container per user, and other
Aoede servers it federates with. This directory holds TLA+ models of the parts of it whose
correctness depends on the order in which things happen, the TLC configurations that check them on
small instances, and theorems that TLAPS proves for all instances.

All paths below are relative to `src/Aoede/concierge/` or, where that has none such, to
`src/Aoede/` or `src/`.
`PROJECT.json` maps every definition that models code to its file and lines (`map`), lists the
hazards and the properties that watch them (`hazards`), the runs (`runs`), one plausible bug for
every property, which the property catches (`mutants`), and the theorems (`theorems`).

    tlc -workers 2 -config AdminJobs.cfg MCAdminOps.tla    # a run
    tlapm PartyProofs.tla                                  # the proofs of a module

Contents: 1 inventory - 2 modules and code - 3 runs and bounds - 4 fairness - 5 what is proved -
6 what is only model-checked - 7 observations - 8 what is not modelled - 9 plan.

## 1. Inventory

Three shapes of concurrency decide how each part is modelled:

* *handlers* of the concierge run on one event loop and are atomic between two `await`s;
* *jobs* run in threads with database sessions of their own and interleave at every commit;
* *containers* share the database or a volume with the concierge and talk HTTP to it; each can
  restart at any moment.

| Component | State | Operations | Interacts with | Hard | Correct when |
|---|---|---|---|---|---|
| Administrative jobs (`job_service.py`) | tables `admin_jobs`, `admin_operation_locks` | queue, update, prune; acquire, reclaim, release, heartbeat; startup sweep | every administrative operation | three commits per acquisition, deletion by primary key, reused ids, expiry, crashes | operations exclude each other, the lock comes back, jobs are reported |
| Backup, restore, autobackup (`backup_service.py`) | `backup_artifacts`, two archives on disk | write, rotate, install, record; restore | job lock; replaces the database the jobs live in | crash or ignored error between two steps | a recorded backup is a whole archive |
| Updates (`update_service.py`, `updater_api.py`, `ops_core.py`) | job rows, lock, checkout, containers and images | check, queue, POST, preflight, plan, reset, migrate, compose, health | updater container over HTTP and the database, git, docker | lost answers, restarts of both sides, half-done updates | a restart leaves a running update alone; what an update left undone is on record |
| Schema migrations (`ops_core.py`) | the schema, `schema_migrations` | 38 migrations at every start and in every update | all | implicit transactions, crashes between statements, two processes | what is on record was applied; no row is lost |
| Party playback (`party_service.py`) | `party_rooms`, `party_queue_items` | play, pause, seek, next, previous, ended, ready, add, remove, normalize | players of every listener, clock task, track deletion, federation | late and repeated reports, awaits, long gaps, restarts | index, status and clock agree; nobody is rewound |
| Party presence (`PartyHub`) | connections, leave tasks, reservations, closed ids (memory) | reserve, subscribe, unsubscribe, timers, close, open | event streams, playback | timers against streams; ids that SQLite reuses | capacity holds; music plays for somebody |
| Party handlers (`routers/music/party.py`) | none of their own | create, join, stream, control, add, remove, delete | playback, presence, federated peers | checks before an await, use after it | music stops when nobody is left |
| Downloader worker (`downloader-worker/worker.py`, `downloader_worker_client.py`) | job table and executor (memory), staging volume | submit, poll, cancel, delete, prune, run | concierge downloads over HTTP, shared volume, storage purge | lost requests and answers, restarts of both sides | the concierge falls back only when the worker has stopped |
| Download jobs and the song pool (`downloader_service.py`, `importer.py`, `track_identity.py`) | `download_jobs`, `tracks`, pool files, a semaphore | queue, look up, fetch by engine after engine, place, commit, restore, import | worker, playlists, deletion of songs | two downloads of one song or path, partial import | every row has its song's file; every file has a row |
| Playlists (`routers/music/playlists.py`, `downloads.py`, `smart_playlists.py`) | playlists, items, members, revisions, M3U files, jobs that fill them | create, edit, reorder, copy, share, invite, rename, publish, delete, import collections, retry | library, federation, clients with old revisions | handlers that await Navidrome or peers; threads; reused ids | exports cover lists; no edit is lost; one download per position |
| Favorites, Navidrome (`routers/music/favorites.py`) | `user_favorites`, "Liked Songs" file | like, unlike, pull stars and lists | Navidrome | two stores without a transaction | a list with songs survives a pull |
| Song deletion and requests (`deletion_service.py`, `delete_requests.py`) | requests, references to tracks | ask, approve, reject, acknowledge, delete | playlists, party queues, pool | rows that still name the song, reused ids | nothing dangles |
| Wrapped (`wrapped_service.py`, `personalization_service.py`) | raw reports, summaries, snapshots, lock, marker | report, view, regenerate, daily pipeline, reset | clients that report late and twice | summaries built from one moment's rows and stored at another | what is served is what the rows say |
| Accounts, sessions, user containers (`auth.py`, `main.py`, `manager.py`, `reaper.py`, `routers/admin.py`) | users, tokens, blacklist, container, address cache | login, logout, password, delete; spawn, reap, gateway | Docker, Navidrome | reads before a thread's verification; reaper against request | no session outlives its password or its logout |
| Federation (`federation_service.py`, `routers/federation.py`) | rows of instances, mirrored catalogue, cursor | pair, check, pull page by page, change, delete | other servers | pulls cut off or meeting each other; silence | the mirror misses nothing behind the cursor; silence hides |
| Player queue of the browser | page state | insert, shuffle, persist | playback endpoint | - | not modelled |
| Statistics, recommendations, radio | none | compute | history | - | not modelled |
| Metadata, lyrics, covers, search, loudness, streaming, secrets, maintenance, sign-in | caches, files | fetch, measure, serve | external services | - | not modelled, see section 8 |
| Android, iOS, desktop clients; installation | - | - | - | - | not modelled |

## 2. Modules and the code they model

    AdminOps         <- MCAdminOps        AdminOpsProofs
    Deployment       <- MCDeployment      DeploymentProofs
    Migrations       <- MCMigrations      (proved about in DeploymentProofs, too)
    PartyPlayback    <- MCPartyPlayback   PartyProofs
    PartyHub                              (implements Presence, by INSTANCE ... WITH)
    Presence                              (abstract)
    PartyRoom        <- MCPartyRoom       (EXTENDS PartyPlayback, PartyHub)
    DownloadWorker   <- MCDownloadWorker  DownloadProofs (EXTENDS DownloadWorker, SongPool)
    SongPool         <- MCSongPool        (implements SongRequests, by INSTANCE ... WITH)
    SongRequests                          (abstract)
    Playlists
    Library          <- MCLibrary         LibraryProofs  (Library EXTENDS Playlists)
    Wrapped          <- MCWrapped         WrappedProofs
    Accounts         <- MCAccounts        AccountsProofs
    Federation       <- MCFederation      FederationProofs

The `MC` modules only add constants and symmetry for TLC; the `Proofs` modules extend the component
and TLAPS. Operators whose comment begins with *mutant*, or which stand beside the definition they
spoil, are the plausible bugs that `PROJECT.json` pairs with the properties; no specification uses
them.

**AdminOps.** `jobs`, `lock` and `rows` are the three tables; `files` the two archives on disk;
`boot` the life of the concierge; `pc`, `kind`, `job`, `tmp` the threads. A session commit is one
step, so every other thread, a crash, or the updater runs between any two commits. `acquire_lock` is
`AcquireRead` (the look), `AcquireClear` (deletion of a stale row by its primary key, whatever row
has it by then) and `AcquireInsert`, `AcquireBroken` (the unique name or the foreign key refuses) or
`AcquireLost`. `release_lock` is `Release`, which deletes the row without looking whose it is. A
final `update_admin_job` is `Settled` with the prune in the same call, which the foreign key may
refuse (`PruneFails`). Backup is `WriteArchive`, `Rotate` (with its swallowed error), `Install`,
`Record`; restore is `BeginRestore`, `CopyDatabase`, which replaces the tables by archived ones. An
update is `Queue`, the POST and, in the updater, `Preflight`, the lock and the run. `OnLoop` and
`LoopFree` keep two async handlers from interleaving; threads and the updater still do. `owner` and
`robbed` are history: whose insert the row is, and whose row somebody else deleted.

**Deployment.** The inside of one update: `Check`, `Plan` (git diff, which may fail and name nothing (`Diff`),
`_select_services_for_update`, `_pending_update_services`, which `Pending` reads back from the job table), `Reset`, backup and
migrations, `Compose` with one `Recreate` per service, `ComposeEnds` (killed at its time limit, or
waved through), `Healthy`, `Finish`. A revision is a number and `Changes` says what kinds of files
its commit touches; `deployed` and `built` are the revisions each service was recreated and its
image built from. The updater dies at any step (`UpdaterDies`), also because the concierge restarts
it ten minutes after a start; `OtherTakes` is any other operation that holds the lock. History:
`robbed`, `overtaken`, `missed` (section 7).

**Migrations.** `M000` to `M037` are the statements of each migration as it settles on them for the
schema it finds; `Refused` is what SQLite refuses, `Executed` what it does, including cascades.
sqlite3 opens a transaction before the first INSERT, UPDATE or DELETE: until then every statement is
durable by itself (`Execute`, `txn`). A process reads the names on record once (`Begin`), settles on
the statements of a migration (`Prepare`), executes them and the record of its name, and commits
after the last one; it may die anywhere, and another one with older or newer code runs beside it.
A table is named by its columns, of which one, `id`, says that it is there; a trigger and a full-text
table are tables without others. `Skip` is a column or trigger that the migration finds it need not
touch. `M009`, the full-text index, passes over the first of its statements that fails, for whatever
reason, and goes on record with what it has done (`Attempts`). `Past` is the set of databases to begin with: `Sound` ones, whose migrations on record are the
first ones and have been applied. `Promises` says of each migration which tables and columns it
answers for; `MCMigrations` computes the database each release has left (`After`), and checks
that the promises leave nothing out (`PromisesAreComplete`).

**PartyPlayback.** A room row is a record, one handler one action, because a handler reads, commits
and broadcasts without yielding. The broadcast normalizes the room again and commits; `Commit`
includes it. The handler that yields, `add_queue_track` for a federated song, is `AddAsked` and
`AddAnswered`: the object read before the await supplies the index and revision that are compared
and written after it (`Added`). `Ended` is the set of items that playback has run through, over
several songs at once after a long gap; `_remove_queue_items` is `Removed`.

**PartyHub.** `users` are the keys of `_connections[id]`, `tab` the event streams (`orphan` after
`close_room` forgot their queues), `leaving` and `reserved` the tasks, `known` whether the id is a
key of `_connections`, `closed` whether it is in `_closed_rooms`. A created room is one that receives
the same id again. Deleting an account takes the row and does not tell the hub (`DeleteAccount`).
**Presence** is what this promises: a place for everybody who listens, never more places than there
are, and a place that stays until it is given up; `PartyHub!PlacesAreKept` is that specification with
`places` the listeners and reservations together, `listening` those with a live queue.

**PartyRoom** composes the two over shared steps: who may command (`HostCommands`, `GuestReports`),
the last place given up stops the music (`PlaceGivenUp`, `PauseIfEmpty`), the clock visits only rooms
that are keys of `_connections` (`Tick`), deletion and reuse of the id while a request waits for a
peer (`PeerAnswers`), and restarts, which empty the hub and pause every room (`Dies`, `Starts`).

**DownloadWorker.** An attempt is one call of `download_with_worker` with a fresh job id. On the
worker `jobs`, `cancel`, `thread`, `files`; on the wire `post`, which becomes late when its client
has given up on it; at the client `pc`, `submitted`. `Delete` is `delete_job` in all states of a
job; a thread may complete or fail after its last look at `cancel_event`. `Cancel` and `Confirm` are
`_cancel_and_confirm` with every answer lost or not. Either side restarts at any step; the staging
volume survives. `Purge` is the administrators' storage purge.

**SongPool.** One request from its row to its end, in the steps of its thread: `Look` (source id,
content, artist and title), `Attempt` for each engine in turn, with the partial file a failed engine
leaves, `Take` (identification and deduplication), `Put` (choice of path and move), `Commit` or its
roll-back, `Restore` of a row whose file is gone, `Finish`. A step may end in `Raised`: an exception
before the `try` (a list or track that is gone when they are linked), or one whose handler cannot
commit, is only logged, and the job stays under way until the next start sweeps it. Beside it `DeleteRow` and `RemoveFile`,
`ImportLocal`, `Restart`. A file is what was asked for, the content an engine produced, and the
source it goes by. **SongRequests** is what this promises: a request is begun once, ends once, and
completes only if a song it asked for has been in the library; `SongPool!RequestsSpec` is that
specification under the refinement mapping that forgets threads and files.

**Playlists and Library.** `list`, `items`, `export`, `job` are rows and M3U files; `handler` a
handler suspended at an await with what it was asked; a handler that does not await is one action.
Downloads run in threads and are cut at their commits (`Place`, `Choose`, `Link`, `Sync`, `End`,
`Fail`). SQLite's ids come back (`NextId`); `births` numbers lists so that properties can tell a
list from its successor. `Export` writes a list's M3U file with its local songs; for lists in `Unwritable`
it may fail, which the code only logs, and leave no file or a short one (`Write`). Copying a list again
whose name has changed is two steps, `AskCopy`, which removes the file, and `CopyAgain`, after Navidrome
has been waited for; a list whose file has not been written since is in `stale`. `Read` is what a client has last seen, `Reorder` what it sends back.
`FillMix` is the thread of `save_mix_as_playlist`. Library adds favorites with their file, the pull
from Navidrome (`PullFavorites`, `PullLists`; Navidrome may answer anything), and the requests to
delete a song (`AskDeletion`, `Approve`, `Reject`, `Acknowledge`); `Detach` and `ForgetWishes` are
what the deletion of a song leaves in the other tables.

**Wrapped.** A report is made (`Emit`), sent until answered (`Report`, so at least once and in any
order) and becomes one row of `raw`. A summary is built from the rows of one moment and stored in a
later step, by views (`ViewBuilds`, `ViewStores`), regenerations under the lock, of one user or from
the API without one (`Start`, `Build`, `Store`, `Settle`, `Freeze`, `End`) and the daily pipeline.
`Fresh` compares count and latest row, as the code does. A read of the rows that fails is passed
over (`Partial`): the summary is then of part of the sessions, or of none. `lock` has the job that
labels it, once it does, and its age.

**Accounts.** One account name, its sessions and its container. A login is `LoginReads` and
`LoginEnds` (verification in a thread), a logout three steps, a gateway request `Wants`, `Ask...`,
`PasswordVerified`, `Send`; `get_or_spawn_container` is `SpawnLooks`, `SpawnStarts`, `SpawnCreates`,
`SpawnWaits` and blocks the loop (`LoopFree`), as do the three steps of a deletion,
`DeleteContainer`, `DeleteHome` and `DeleteRow`. In threads, and so between any two of these, are
logouts, the reaper's look and act (`ReaperReads`, `ReaperStops`) and a download that exports its
list and makes the directories again (`ExportList`). Days pass (`Day`), and the blacklist is pruned by age (`Prune`).

**Federation.** `TickStarts`, `TickVisits`, `Checked`, `Claim`, `PullPage`, `PullFails` are the
loop and the synchronisations asked for by hand; `row` is looked up by its number again after each
commit and may have been changed, deleted or created anew by then. A pull whose row has gone, or whose
page cannot be stored, ends without giving up its claim (`Raised`, `Unstored`; `Stuck` are such
claims). `reused` and `moved` are history.

## 3. Runs and bounds

| Run | Asks | Bounds |
|---|---|---|
| `admin_jobs` | Can two operations run at once, is a lock row left behind, does a job hang? `ExclusiveUnlessRobbed`, `NoGhostLock`, `JobsSettle` | 2 threads; checks, silent refreshes, monitor views, scans; 3 job ids, retention 1 |
| `admin_restore` | What do crashes leave? `RecordedBackupExists` | 2 threads (symmetric); backup, restore, apply-update; 2 job ids |
| `deployment` | What is left undone, and do we know? `StaleIsOnRecord`, `NoDowngrade` | 2 revisions, of concierge and worker image, then of worker source and proxy; 2 updates |
| `migrations` | Do interrupted starts get over it? `RecordedIsApplied`, `RowsSurvive`, `StartsSucceed` | a concierge that knows 38 migrations, an updater that knows 30, from eighteen releases; 1 row per table; 2 crashes |
| `party_queue` | Can commands, edits, late adds, ticks and restarts rewind a song or hold it? `NoRewind`, `EditsKeepSong`, `SongEnds` | 3 items of two songs (2 units, unknown length); positions and gaps to 3; commands to revision 5 |
| `room_music` | Whom does the music play for? `PlaysForSomebody`, `PlayingIsTicked`, `PlacesAreKept`, `MusicStops` | host, guest, guest of a peer; 1 tab, 2 places; 2 items of length 1; commands to revision 2 |
| `worker_fallback` | When does the concierge download by itself? `FallbackAfterStop`, `NoHiddenThreads`, `SlotsComeFree` | 2 downloads, 1 thread, automatic mode |
| `song_pool` | Which file is whose, and does each request end? `NoOrphans`, `PlaysItsSong`, `RequestsSpec`, `EveryJobEnds` | 2 songs with one file name, 2 requests (by link through two engines, by title through the worker), 2 threads, 2 deletions, imports or restarts |
| `library` | What do awaits, threads, pulls and reused ids do to lists and favorites? `NoDangling`, `OneJobPerPosition`, `ExportCoversList`, `UnlikedIsNotListed`, `SongsSurviveSync`, `NoLostReorder` | 2 users and 2 handlers (symmetric), a local and a remote track, 2 lists (the second cannot always be written), 3 jobs, retention 1, 3 requests |
| `wrapped` | Is what is shown what the rows say? `ServedIsTrue`, `SnapshotIsComplete`, `EveryPlaySummarised` | 1 user, 1 session with two kinds of reports, two locked runs, one without lock, one of the user; a year of 2 days; 2 incidents |
| `accounts` | Which sessions work, does a row go before its container, is who asks served? `SessionsKnowPassword`, `LoggedOutStaysOut`, `RowGoesLast`, `AskerIsServed` | 1 login, 2 accounts of one name, 2 passwords, sessions of 1 and 3 days, 2 addresses, 1 incident (the reaper, a background call, a download, a failure or a restart) |
| `federation` | Is a catalogue complete, does silence show? `CursorCovers`, `SilentIsHidden`, `CatalogueArrives` | one remote with 2 songs, one with none; 1 row, 1 synchronisation by hand, pages of 1; 3 incidents |

Why these bounds are enough:

* *AdminOps.* The races are between a holder and one other; threads that end start again, so two
  threads run any number of operations. With retention 1 and 3 ids, ids are pruned and reused. Each
  run restricts `Kinds` to the operations its properties are about: `NoGhostLock` is about a server
  whose updater is not involved, since a dead updater does leave its row until a rule takes it.
* *Deployment.* Two updates suffice for the record that one leaves and the next reads; the changes
  are chosen so that a service needs an image in one and none in the other.
* *Migrations.* Among the eighteen starting points are the empty database and each release whose next
  migration rebuilds a table, copies one into another or renames a column (013, 018, 025, 033, 035).
  The updater's 30 migrations end before the last two of these, so processes with different code meet.
* *Playback.* `MaxRev` bounds commands, not ticks or time: five suffice for an add that waits while
  the room is filled, played, advanced and emptied. `MaxLag` lets one tick run past a whole song.
* *Room.* A place each for two of three people, so somebody always competes for the last one.
* *Worker.* Downloads interact only through the executor and the prune.
* *SongPool.* The two songs share a name, so both look for the same path; the link and the title
  may mean the same song, so both deduplications are met.
* *Library.* Two handlers so that a list can go, and its id come back, while another handler waits.
  A collection of one song with three jobs gives retries of pruned jobs. The run begins with a list of
  some songs, or with a public list and another user's copy of it, so that the three requests go to what
  meets; what comes first in the first list are songs of this instance. Exports fail for one of the two
  lists, the copy or what is created beside the first: every failure doubles what follows.
* *Wrapped, Accounts, Federation.* The incidents are what administrators, time limits and failures
  do, each at most a few times (once in `accounts`, whose liveness property is the costliest: there a logout
  meets every other step, but a background call does not meet the reaper); the regular steps between them are not bounded by it, so every order
  of them is met around every choice of that many incidents.

Every property has a mutant in `PROJECT.json` that its run refutes under the same bounds, so no
property holds because the interesting case does not fit. Deadlock is checked in the runs of AdminOps,
of parties and of the worker; in the others the models may stop where their counters end (requests,
incidents, days, events) and the configuration says `CHECK_DEADLOCK FALSE`. `SYMMETRY` is used only
in the two runs without liveness properties whose identities are interchangeable (`admin_restore`,
`library`).

## 4. Fairness

* `AdminOps!FairSpec`: each thread advances (its loops are finite or have a deadline; progress
  reports do not count) and a dead container is restarted until one startup gets through. The second
  half of a startup is strongly fair because a crash may interrupt it between its two commits.
* `PartyPlayback!PlayFairSpec`: the clock task ticks, time passes, a dead concierge restarts.
* `PartyRoom!RoomFairSpec`: leave tasks and reservations run out, restarts happen. Nobody is assumed
  to open or close a tab.
* `DownloadWorker!FairWorkerSpec`: the client goes on (each request and loop has a timeout), the
  executor serves its queue, and a running job is interrupted at its deadline. Neither the success of
  a job nor the arrival of a request is assumed.
* `SongPool`: the thread of each job goes on. `Migrations`: a running process goes on and a
  service, unlike an update, is started again.
* `Wrapped!FairSpec`: the daily pipeline goes on and days pass. Page views, administrators and
  clients are not assumed to do anything.
* `Accounts`: the gateway, spawning, deletions, logouts and the reaper go on, and the address cache ages. No
  request is assumed to be made.
* `Federation`: the loop and the tasks go on (a page arrives *or* the pull fails), and time passes:
  fifteen minutes and half an hour run out. That a remote answers is a hypothesis of the property.

## 5. What is proved

Theorems hold for every value of the constants that satisfies the named assumptions of the modules.
Those assumptions give constants their types, make sets of people, songs and plays finite where sizes are
compared, and otherwise state facts of the code that a reader can check there: `SeedAssumption` (the
items a room begins with have distinct ids, the primary key), `SongPoolAssumption` (a link identifies
its songs). No module reaches a RECURSIVE operator; the recursive function `PartyPlayback!Into` is
shown to be well defined where it is used.

**AdminOps** (`AdminOpsProofs`). *`TypeCorrect`*, from one lemma per helper. *`HoldersAreProtected`,
`Exclusion`*: that two holders exclude each other is not inductive, since it says nothing of the row.
`HoldersProtected` ties each holder to the row: who is inside owns it or was robbed of it; `owner` is
one value, so of two holders one was robbed. *`NoGhosts`*, for instances without apply-update:
`GhostInv` says where a row without a live owner can come from. *`RecordedBackups`*: a restore
brings old rows back, so `BackupInv` speaks of *any* database, live, archived or in a thread's hands.

**Deployment** (`DeploymentProofs`). *`DeploymentInvariant`*, with the invariant in layers.
Unconditionally: types; `JobTable` (what a row says at each place of its thread; rows are created one
after the other); `Carried` (what a thread has read and not yet lost is in its row). While no update
was robbed of its lock: `Alone` (who works holds the lock), `Compared` (the difference a thread has
computed is that to the present workspace), `Inherited` (it has taken over what earlier failures
left), `Brought` (what it has recreated is up to date). While, besides, none was overtaken:
`HolderIsLatest`, and `Record`, which says of each service where the knowledge of its being stale
is. *`OneAtATime`*, *`NothingForgotten`* (`StaleIsOnRecord`) and *`OnlyForward`* (`NoDowngrade`)
follow. The first attempts at `Record` failed for two reasons in the code; they became the history
variables `overtaken` and `missed` and the first two observations on deployment in section 7. A `git
diff` that failed is excused by `missed` too, for the services it should have named and only for them.

**Migrations** (`DeploymentProofs`, second half). For any number of starting services and updaters,
each with the code of any release, any rows, any number of crashes and any sound database to begin
with: *`SchemaStaysSound`* (the migrations on record are always the first ones, what each promises
is there (009 promises nothing, since it may give up its index), no table lacks a column it was created with, and rows hang from party rooms only),
*`RecordedMigrationsApplied`* (`RecordedIsApplied`) and *`RowsAreKept`* (`RowsSurvive`). The
argument, in the order of the module:

* A *shape* names rows and columns a database must have and the cascades it may have; `Annotates`
  puts a shape before each statement of a script, as in Hoare's logic. The content of a column moves by
  copying, dropping and renaming (`CopyShape`, `DropShape`, `RenameShape`); `MovedBack` is why a
  rebuilt table has the rows it had.
* *`Harmless`*: a script keeps every row and every promised column from wherever it is entered, and
  what it does before its first INSERT, UPDATE or DELETE is *mild*, since each such statement is
  durable by itself and may be the last: it adds, drops a leftover copy of a rebuilt table, whose rows
  are nobody's, or renames `theme_next` to the promised `theme`.
  The lemmas `RequestsHarmless`, `RoomsHarmless`, `ItemsHarmless` and `ThemeHarmless` show it of
  the four rebuildings, each for every database; that of the rooms depends on `QueueParent`, the order of
  the drops and there being no cascade but from rooms.
* *`Carries`*: on a database with the promises of the migrations before it, a migration is harmless and
  delivers its own (`Takes000` to `Takes037`, `MigrationCarries`).
* *Processes.* A process is `Starting` (nothing read but the names), `Preparing` (before its
  transaction), `Writing` (in it; `Secure`: what is left to do leads to the promise, from the work done so
  far) or `Written` (recorded, not committed). What others do to the database meanwhile is
  `Onward`: a mild statement, or a transaction that records a migration (`OthersGoOn`). A process
  that has overslept such a transaction may find the schema changed under the statements it has settled on;
  then nothing is claimed of its work any more, because the UNIQUE name of its record is refused
  and the transaction rolled back. `MigrationsInv` says that each process is in one of these
  places on a sound database and one at most is in a transaction.

No induction over a list is needed: the scripts are of fixed length, and what a script provides is a
union over its positions.

**Party** (`PartyProofs`). *`PlayTypes`, `PlayConsistency`*: each operator (`Normalized`, `Added`,
`Removed`, `Paused`, `Jump`, ...) maps good rooms to good rooms, and each action composes them;
`RankGrows` and `RankOnto` carry `Removed` for queues of any length. *`NormalizationArrives`*: on
every queue `Into` is the one solution of its recursion (`IntoSolved`, by a least counterexample),
`Ended` is a stretch that begins at the current item (`EndedStretch`), and normalization ends at the
first item that is not over and skips none that is not. *`ClockRunsOn`* (`NoRewind`) and
*`EditsSpareTheSong`* (`EditsKeepSong`), for every instance: the invariant `OrderInv` adds that
items have distinct ids and that a waiting add which saw no current song saw position 0. Steps
fall into those that leave the queue alone (`Steady`: the song that goes on is not set back), seeks,
and edits (`Edited`: the song stays, at the same position, or is gone). *`HubTypes`, `Capacity`,
`Grace`, `Ticked`, `Openness`* come from `HubInv`, the five together with `LiveAreUsers`.
*`HubImplementsPresence`*: each step of the hub is a step of Presence or a stutter; nobody is counted
twice (`PlacesAdd`), so the sum the code compares is the number of abstract places.
*Composition*: `RoomStepsHub` shows that each step of the room is a step of the hub with
administrators or leaves it alone, and `RoomStepsPlay` that it is a step of playback, starts a new room
or pauses one. So *`RoomKeepsPlaces`*,
*`RoomImplementsPresence`*, *`RoomStaysConsistent`* and *`RoomClockRunsOn`* hold in the
composed room, also when the answer of a peer meets another room than it was asked for; and
*`MusicNeedsListeners`*, *`MusicIsTicked`* relate the two parts: every command that starts a room needs
a member, and every step that takes the last member pauses it.

**DownloadWorker and SongPool** (`DownloadProofs`). *`WorkerInvariant`*: `Matched` (job and thread
agree), `Fresh` (a request that may still arrive finds no job of its id), `Informed` (what the client
knows at each place of its code); *`WorkerTypes`, `SafeFallback`, `QuietCopies`, `KnownThreads`*
follow. `SafeFallback` needs the acknowledgement: see section 7 for what happens without. For the pool,
*`TypeCorrect`* includes what the fields of a job mean at each step; *`FilesAreHeld`* (`FileInv`:
one row per path, and every file is a row's, a thread's that has just put it there, or excused)
carries *`NoFileIsLost`* and *`TracksPlayTheirSong`*. *`ImplementsRequests`* is the refinement: each
step of a thread is a step of `SongRequests` under the mapping, or a stutter.

**Library** (`LibraryProofs`; the proof covers the whole of `Playlists` and `Library`). The
invariant `LibInv` is `ListRows`, `ItemRows`, `JobRowsKept` (a job names a live list, and a job under
way is the newest of its position), `Waiting` (what suspended handlers hold), `Files` (each item is on
file unless the writing is still to come, failed or was cut off) and `Readers` (who has read a list at its
present revision has seen each of its items), with `Surrounded` for favorites, requests and the
file of liked songs. Steps are first brought to a few forms (`Moves`: a list after a step was
made by it, or has no new item without a later revision), and each part is kept by each form.
*`TypeCorrect`, `NothingDangles`, `PositionsHaveOneJob`, `FilesCoverLists`, `UnlikedLeavesFile`,
`ListsSurvive`, `ReordersLoseNothing`*: all six properties of the run, for any set `Unwritable`. `Readers` is not kept by
`FillMix`, which adds songs without a revision; hence `filling` in what a client has read.

**Wrapped** (`WrappedProofs`). *`TypeCorrect`*. *`ServedSummaries`*: `Sound` says that every
summary anywhere (stored, in a view's or a run's hands) was built from rows that are still there,
if not from all of them; one that has as many rows as there are now, has all of them (`Known` lists the summaries a step can
have got). *`LockedRunsAreAlone`*: `Guarded` relates the row of the lock to who acquires and who works.
*`Snapshots`*: `Complete` follows what a run that began after the year's end has read to the
snapshot; that later reports take no session out of the count (`ReportsAgree`) is the lemma on which
it rests.

**Accounts** (`AccountsProofs`). *`SessionsAreKnown`*: `SessionInv` says of every token and login
under way that its session version is behind the account's or its password is the same.
*`LoggedOutIsFinal`*: `LogoutInv` adds the ages of a token and of its row in the blacklist, which
together never pass the longest life of a session. *`RowsGoLast`* (`RowGoesLast`): `DeletionInv` says
that nobody looks for a container while an account is deleted and that none has come back;
*`TypeCorrect`*.

**Federation** (`FederationProofs`). *`NothingIsMissed`* (`CursorCovers`): `CursorInv` is that
numbers and cursors are among those given, that no two workers pull one row (`Claimed`), and that a
pull goes on from what its row says (`UpToDate`); `PageIsFirst` shows that a page leaves no gap.
*`NoStepBack`*, an action property no run states, follows; *`TypeCorrect`*.

## 6. What is only model-checked, and why

* Liveness under fairness: `JobsSettle`, `SongEnds`, `MusicStops`, `SlotsComeFree`, `EveryJobEnds`,
  `StartsSucceed`, `EveryPlaySummarised`, `AskerIsServed`, `SilentIsHidden`, `CatalogueArrives`.
  TLAPS has no ENABLED, so no weak-fairness argument can be made in it.
* That `Promises` is complete (`PromisesAreComplete`): TLC evaluates it for the 38 lists. `FoldLeft`
  over a list of statements would need an induction over data, which the provers installed with TLAPS
  cannot instantiate.
* That a migration is not refused when it runs alone: part of `StartsSucceed`.

## 7. Observations

Behaviour met while modelling that a maintainer may want to know of. The models contain it, or
exclude it where said. Three contradict comments of the code: on the lock at a startup (the fourth below), on the full-text
search, and on the claim of a pull.

*Administrative operations.*
* Every runner calls `release_lock` in its `finally` block, also when it did not get the lock, and
  `release_lock` deletes the row without comparing its job (`job_service.py:265`): a refused check
  deletes the running one's lock, and a third operation then runs beside it (`robbed`).
* The pruning that `update_admin_job` ends with may violate the lock's foreign key; without a
  `finally`, a completed job is then reported failed (`job_service.py:59`). The loudness handler lets
  an error of `acquire_lock` through (`routers/admin.py:1672`).
* The zombie rule compares `acquired_at` (`update_service.py:874`) while its message says "of
  inactivity" (`:882`): an operation of half an hour that reports progress is a zombie.
* A POST to the updater that times out fails the job; a restart of the concierge then finds no
  unfinished update and deletes the lock the updater holds (`update_service.py:1150`,
  `main.py:187-199`), although `main.py:188` says it is kept for an update that runs. The POST blocks the event loop for up to ten
  seconds (`update_service.py:1147`).
* A crash between creating an apply-update job and its POST leaves a queued job every startup spares
  (`update_service.py:1130`). A stale lock row keeps autobackups from starting
  (`backup_service.py:452`), since the scheduler looks at the table without the reclaim rule.
* The storage purge compares worker job ids with folders named `aoede-<id>-<hex>`
  (`routers/admin.py:813`), so the folder of a running download is not protected.

*Deployment.*
* Pending services are looked for among jobs with *lower* ids. An update whose thread reaches the
  lock only after a newer one has completed, and which then fails, is hidden by it (`overtaken`).
* A compose run killed at its time limit, with the old containers answering the health check, is
  "completed" with nothing recreated (`missed`); a service waved through and later recreated without a
  build keeps its old image.
* An updater killed after the reset, with its lock expired, leaves a job "running" for ever; each
  start of the concierge restarts the updater ten minutes later whatever it does; a failing `git
  diff` is taken for no changes (`update_service.py:1056`), so the reset goes ahead, nothing is recreated
  for it and the update is reported complete (`missed`); pending services depend on the retained history; a refused update's
  `finally` deletes the running one's lock.

*Migrations.* 009 passes over a statement that fails and goes on record (`ops_core.py:799`). Its comment
says that queries fall back to LIKE; they do when the table is missing, but over a table without
triggers or content the query succeeds and finds nothing (`routers/music/search.py:36-45`), and no later
start tries again. 033 creates its table without IF NOT EXISTS before its transaction opens (`Wedged`);
PRAGMA foreign_keys=OFF in 018 has no effect inside a transaction (`ops_core.py:1147`); two migrating
processes can drop each other's `_v2` tables.

*Parties.*
* `add_track` compares and writes index and revision read before it awaited a peer
  (`party_service.py:370`): if the room was empty then and plays its second song by now, everybody is
  sent back to the first (the exception in `EditsKeepSong`). The add goes to whatever room has the
  id by then (`routers/music/party.py:402`), and membership was checked before the await.
* `reserve` makes no reservation for somebody in the grace period and leaves the leave task running
  (`party_service.py:689`): the promised place may be gone when the stream opens.
* A pause between two ticks may store a position past the end (`:558`), and the next play starts
  over; `ready` sets the position to 0 also after a seek (`:546`), and players send it once only; a
  late `ended` starts a paused room (`:526`, against docs/PARTY-ROOMS.md:65); deleting an account does
  not tell the hub (`routers/admin.py:455`, against `party_service.py:800`); a `pause_room` that meets
  a locked database is not retried (`:763`); a stream whose generator never starts is never
  unsubscribed (`routers/music/party.py:488`); docs/PARTY-ROOMS.md:27 says one room per user, the code
  counts local and federated rooms apart (`:238`).

*Downloads.*
* `submitted` is set after the answer to `POST /jobs` (`downloader_worker_client.py:347`). If the
  request times out after the worker accepted the job, nothing is cancelled and both download.
* A worker that restarts forgets its jobs but not their folders (`worker.py:676`). A partial file of
  a legacy engine satisfies the next engine's `_has_downloaded_audio`; a timeout does not kill
  spotiflac or spotdl. Two threads may choose one path; a crash between move and commit, or a failing
  insert of `import_one`, leaves a file without a row (`stray`). docs/CONFIGURATION.md:39 calls the
  limit one per user; the semaphore is global. The storage limit is checked once, against a cached
  figure. A track or list deleted between deduplication and link leaves the job "processing" until the
  next start; `EveryJobEnds` promises an end or such an exception (`Raised`), nothing better holds. A
  refresh of smart lists that raises after the job completed (`downloader_service.py:628`) turns it failed,
  with its song in the library; the model ends the job before the refresh.

*Lists, favorites, deletion.*
* `FillMix` adds songs without raising the revision: a client that read the mix before they came may,
  after tracks were deleted and imported, send a reorder at the current revision that loses items
  (excluded through `filling`). Between its items and its M3U file a pull may delete the list.
* `import_collection` writes no M3U file; until its first song is exported, a pull for its owner
  finds the list neither in Navidrome nor on disk and deletes it (`favorites.py:186-201`). The same
  befalls a list whose deletion was cut off by a restart.
* Copying a list again under a new name removes the file of the copy and awaits Navidrome before it
  writes it (`playlists.py:840-854`): a pull in between finds the copy neither in Navidrome nor on disk and
  deletes it with its songs (`favorites.py:191-198`). An export that fails is only logged
  (`playlists.py:503`), with the same end at the next pull. `Settled` excuses exactly these lists. If the
  ids have been given away during the await, the copy fills whatever list has them.
* An invitation of a user of another instance is awaited; if the list was deleted meanwhile and its id
  reused, the new list is shared. A delete that awaits Navidrome acts on a reused id, too.
* Pulled favorites are not written to the file of liked songs, and deleted songs stay in it; a star
  task overtaken by its opposite lets the next pull like a song again; an approval commits before
  the deletion, so a crash leaves an approved request and its song. Deleting a track neither raises
  revisions nor exports lists anew. `user_favorites` has no unique key.

*Wrapped.* The daily pipeline never finalizes a year, and its last day, after the run, is never
summarised unless somebody asks (hence `day < YearDays`); a snapshot is taken only by regenerating a past
year, and a run that straddles the year's end freezes an incomplete one; a run without the lock
releases the unlabelled lock of another; a crash leaves the lock for up to four hours; a
regeneration under way re-saves the summary of a user who has been reset; retries of
`record_track_play` count twice in the statistics; a report answered with an error is not retried.
A read of the rows that fails is taken for a year without rows (`wrapped_service.py:554`): its summary
is stored over a good one until somebody looks at the year again, the pipeline counts its day as done,
and a snapshot made of it is final (`misread`, and the last case of `EveryPlaySummarised`).

*Accounts.* Lowering REMEMBER_SESSION_DAYS between restarts shortens the pruning window below the life
of older tokens; a gateway request or a favorite that read the account before its deletion creates
the container anew afterwards, and a download the directories (`rewritten`): `RowGoesLast` ends at the
commit. Logging out on one device stops the container another uses; a cached
address is only checked for the container's existence; X-Idempotency-Key is ignored by the server.

*Federation.* The status that hides a silent instance is refreshed by the serial loop only
(docstring: a user "must NEVER see its tracks"); songs whose number the publisher reuses, edits and
deletions are never synchronised again (`reused`); changing an instance's address keeps its cursor
(`moved`); a deleted row aborts the whole tick; a failed pull is retried half an hour later. Deleting a
row during its pull, or a flush that fails, leaves the number claimed (`federation_service.py:289`
reads `instance.id` of a row that cannot be read any more), although the comment above says the slot is
always released; SQLite gives the number to the next row, which is never synchronised before a restart
(`CatalogueArrives` excludes it through `Stuck`).

*Provider sign-in* (not modelled): start overwrites a pending sign-in, and the final pop of an older
callback removes the newer one; a validated callback that waits for the lock reconnects after a
disconnect.

## 8. What is not modelled

Within the modelled parts: a failing write of the file of liked songs and a failing removal of a list's
file; failing commits other than those the code provokes itself; the content
of event streams (eight messages, the oldest dropped) and the browser, whose reports are
unconstrained inputs; provider sessions and progress messages; matching of titles and Navidrome's
scans; rankings and the whole party's summary in Wrapped; limits on attempts and
service accounts in Accounts; proxying and progress counters in Federation; the order of numbers within
archives, songs and messages, which no property tells apart.

Without a module: the player queue of the browser (one page, last writer wins), statistics and
recommendations (computed on request from one reading), metadata, lyrics, covers, search, loudness and
streaming (I/O against caches), secrets, limits and request checks (one request at a time),
library maintenance (passes over single rows; the janitor is called by nothing), provider sign-in (one
session behind a lock), clients and installation (outside).

## 9. Plan

1. The operation lock as an abstract specification (`Exclusive`: at most one inside, nobody evicted)
   that AdminOps implements as long as nobody is robbed.
2. A theorem that a process which migrates alone is refused no statement, unless the database is
   `Wedged`: the safety part of `StartsSucceed`.
3. Splitting `NoGhosts` so that it also covers instances with the updater, with the zombie rule as
   the excuse of a row it left.
4. The queues of eight messages of a party's streams, with the browser's view of the revision.
5. Two remotes and two rows in the federation run, once its state space allows.
