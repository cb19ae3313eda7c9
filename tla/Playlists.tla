----------------------------- MODULE Playlists -----------------------------
(***************************************************************************)
(* Playlists and collections (routers/music/playlists.py, downloads.py,    *)
(* smart_playlists.py, deletion_service.py): their rows, items, revisions  *)
(* and exported M3U files, and the download jobs that fill them.  Handlers *)
(* run on one event loop and are interrupted only where they await; the    *)
(* downloads run in threads beside them.                                   *)
(***************************************************************************)
EXTENDS Naturals, FiniteSets, FiniteSetsExt

CONSTANTS Users, Tracks,
          Remote,       \* the tracks whose lookup asks another instance, and so awaits
          Unwritable,   \* bound: the lists whose file may fail to be written
          Requests,     \* request ids that clients send with a creation
          Handlers,     \* handlers that may be suspended at the same time
          MaxLists, MaxJobs,   \* bounds on the rows alive together
          Batches,      \* how many songs a collection may have
          Keep,         \* DOWNLOAD_JOB_HISTORY_LIMIT
          MaxRequests          \* bound on what clients ask for in a run

ASSUME PlaylistsAssumption ==
  /\ IsFiniteSet(Tracks) /\ Remote \subseteq Tracks
  /\ {MaxLists, MaxJobs, Keep, MaxRequests} \subseteq Nat \ {0}
  /\ Batches \subseteq Nat \ {0}

Lists == 1 .. MaxLists
Jobs == 1 .. MaxJobs

VARIABLES
  library,    \* the tracks that have a row
  list,       \* playlists by id; an unused id has kind "none"
  items,      \* playlist items: list, track, position
  export,     \* what was last written to the M3U file of a list: its <<track, position>> lines
  onDisk,     \* the lists whose M3U file exists
  operation,  \* native_collection_operations: "none", "made", or "gone" with its playlist
  job,        \* download_jobs, with the place of the thread that works on each
  handler,    \* suspended handlers and what they were asked
  seen,       \* what each client has last read
  stale,      \* history: lists whose export failed or was cut off by a failure or a restart
  births,     \* history: how many lists have been made
  requests    \* how many requests clients have made

libraryVars == <<library, items>>
listVars == <<list, export, onDisk, operation, births>>
vars == <<libraryVars, listVars, job, handler, seen, stale, requests>>

NoList == [kind |-> "none", owner |-> "none", public |-> FALSE, shared |-> FALSE, members |-> {},
           source |-> 0, revision |-> 0, request |-> "none", born |-> 0]
NoJob == [phase |-> "none", list |-> 0, pos |-> 0, track |-> "none", at |-> 0]
Idle == [op |-> "idle", user |-> "none", list |-> 0, source |-> 0, track |-> "none", request |-> "none"]
Unread == [list |-> 0, revision |-> 0, born |-> 0, filling |-> FALSE, items |-> {}]

Live == {l \in Lists : list[l].kind # "none"}
Of(l) == {i \in items : i.list = l}
Positions(l) == {i.pos : i \in Of(l)}
MaxOf(S) == IF S = {} THEN 0 ELSE Max(S)
JobRows == {j \in Jobs : job[j].phase # "none"}

(* "pending" is pending, processing and downloading in the code, while the  *)
(* song is not there yet; "stuck" is a row whose thread died of an error    *)
(* outside the handler of process_download.                                 *)
ActivePhases == {"pending", "choosing", "linked", "stuck"}
Importing(l) == {j \in Jobs : job[j].list = l /\ job[j].phase \in ActivePhases}
Reserved(l) == {job[j].pos : j \in {k \in JobRows : job[k].list = l}}

-----------------------------------------------------------------------------
(* Rows.  SQLite gives a new row the id after the largest one in use, so an *)
(* id comes back once the newest row is gone.                               *)
NextId(used) == MaxOf(used) + 1

(* generate_m3u_for_playlist writes the local songs in order.  A failure is *)
(* logged only; it may leave a file behind that is cut short.               *)
Lines(of) == {<<i.track, i.pos>> : i \in {k \in of : k.track \in library \ Remote}}

Write(l, of, files, disk) ==
  \/ /\ export' = [files EXCEPT ![l] = Lines(of)]
     /\ onDisk' = disk \cup {l}
     /\ stale' = stale \ {l}
  \/ /\ l \in Unwritable
     /\ export' = files
     /\ onDisk' \in {disk, disk \cup {l}}
     /\ stale' = stale \cup {l}

Without(l) == [export EXCEPT ![l] = {}]
Export(l, of) == Write(l, of, export, onDisk)

NewRow(l, row, of) ==
  /\ l = NextId(Live) /\ l \in Lists
  /\ births' = births + 1
  /\ list' = [list EXCEPT ![l] = [row EXCEPT !.born = births + 1]]
  /\ items' = items \cup of

MakeList(l, row, of) == NewRow(l, row, of) /\ Write(l, of, Without(l), onDisk \ {l})

Item(l, t, p) == [list |-> l, track |-> t, pos |-> p]
Copied(l, of) == {Item(l, i.track, i.pos) : i \in of}
Count(of, t) == Cardinality({i \in of : i.track = t})
SameTracks(a, b) == \A t \in Tracks : Count(a, t) = Count(b, t)

(* The orders of some items, and the ways to fill a list from a set of      *)
(* tracks.                                                                  *)
Orders(l, of) ==
  LET n == Cardinality(of)
  IN {new \in {{Item(l, f[p], p) : p \in 1 .. n} : f \in [1 .. n -> {i.track : i \in of}]} :
        SameTracks(new, of)}

Fillings(l, from) == UNION {Orders(l, {Item(l, t, 1) : t \in S}) : S \in SUBSET from}

\* mutant: a list that is not shared keeps its revision
EditQuietly(l, new) ==
  /\ items' = (items \ Of(l)) \cup new
  /\ list' = [list EXCEPT ![l].revision = IF list[l].shared THEN @ + 1 ELSE @]
  /\ Export(l, new)
  /\ UNCHANGED <<library, operation, births, job, seen>>

(* An edit: new items, the next revision, and the export behind it.         *)
Edit(l, new) ==
  /\ items' = (items \ Of(l)) \cup new
  /\ list' = [list EXCEPT ![l].revision = @ + 1]
  /\ Export(l, new)
  /\ UNCHANGED <<library, operation, births, job, seen>>

(* An instance in use: somebody has a list with some songs (bound: those of *)
(* this instance first), or has had one with songs of this instance copied  *)
(* by somebody else.                                                        *)
OwnFirst(of) == \A i, k \in of : i.track \in Remote /\ k.track \notin Remote => i.pos > k.pos

First(u) == [NoList EXCEPT !.kind = "own", !.owner = u]
FirstCopy(u) == [NoList EXCEPT !.kind = "copy", !.owner = u, !.source = 1]

InitLists ==
  \/ /\ \E u \in Users : list = [l \in Lists |-> IF l = 1 THEN First(u) ELSE NoList]
     /\ items \in {of \in Orders(1, {Item(1, t, 1) : t \in Tracks}) : OwnFirst(of)}
  \/ /\ 2 \in Lists
     /\ \E u \in Users : \E v \in Users \ {u} :
           list = [l \in Lists |-> CASE l = 1 -> [First(u) EXCEPT !.public = TRUE]
                                      [] l = 2 -> FirstCopy(v)
                                      [] OTHER -> NoList]
     /\ \E of \in Orders(1, {Item(1, t, 1) : t \in Tracks \ Remote}) : items = of \cup Copied(2, of)

Init ==
  /\ library = Tracks
  /\ InitLists
  /\ export = [l \in Lists |-> Lines(Of(l))]
  /\ onDisk = Live
  /\ operation = [r \in Users \X Requests |-> "none"]
  /\ job = [j \in Jobs |-> NoJob]
  /\ handler = [h \in Handlers |-> Idle]
  /\ seen = [u \in Users |-> Unread]
  /\ stale = {}
  /\ births = 0
  /\ requests = 0

Member(u, l) == list[l].owner = u \/ (list[l].shared /\ u \in list[l].members)
Readable(u, l) == l \in Live /\ (Member(u, l) \/ list[l].public)
Editable(u, l) == l \in Live /\ Member(u, l) /\ list[l].kind = "own"

Free(h) == handler[h] = Idle
Suspend(h, request) == Free(h) /\ handler' = [handler EXCEPT ![h] = request]
Resume(h, op) == handler[h].op = op /\ handler' = [handler EXCEPT ![h] = Idle]
-----------------------------------------------------------------------------
(* create_playlist looks the operation up, asks for the tracks of other     *)
(* instances, and commits the list with its deduplication key.              *)
Insert(u, r, l) ==
  \E of \in Fillings(l, library) :
    /\ MakeList(l, [NoList EXCEPT !.kind = "own", !.owner = u, !.request = r], of)
    /\ operation' = [operation EXCEPT ![<<u, r>>] = "made"]
    /\ UNCHANGED <<library, job, seen>>

AskCreate(u, r, h) ==
  /\ operation[<<u, r>>] = "none"
  /\ Suspend(h, [Idle EXCEPT !.op = "create", !.user = u, !.request = r])
  /\ UNCHANGED <<libraryVars, listVars, job, seen, stale>>

(* The unique key fails the second of two creations, which then answers     *)
(* with the first one's list.                                               *)
Create(h) ==
  /\ Resume(h, "create")
  /\ LET u == handler[h].user  r == handler[h].request
     IN \/ operation[<<u, r>>] = "none" /\ \E l \in Lists : Insert(u, r, l)
        \/ operation[<<u, r>>] # "none" /\ UNCHANGED <<libraryVars, listVars, job, seen, stale>>

(* add_to_playlist: a track of this instance is added at once, one of       *)
(* another instance after its lookup, when the checks are old.              *)
AddAt(l, t) ==
  IF \E i \in Of(l) : i.track = t
  THEN UNCHANGED <<libraryVars, listVars, job, seen, stale>>
  ELSE Edit(l, Of(l) \cup {Item(l, t, MaxOf(Positions(l) \cup Reserved(l)) + 1)})

Add(u, l, t) ==
  /\ Editable(u, l) /\ t \in library \ Remote
  /\ AddAt(l, t)
  /\ UNCHANGED handler

AskAdd(u, l, t, h) ==
  /\ Editable(u, l) /\ t \in library \cap Remote
  /\ Suspend(h, [Idle EXCEPT !.op = "add", !.user = u, !.list = l, !.track = t])
  /\ UNCHANGED <<libraryVars, listVars, job, seen, stale>>

(* When the list is gone the foreign key refuses the item.                  *)
AddRemote(h) ==
  /\ Resume(h, "add")
  /\ IF handler[h].list \in Live
     THEN AddAt(handler[h].list, handler[h].track)
     ELSE UNCHANGED <<libraryVars, listVars, job, seen, stale>>

Remove(u, l, i) ==
  /\ Editable(u, l) /\ i \in Of(l)
  /\ Edit(l, Of(l) \ {i})
  /\ UNCHANGED handler

(* A client reads a list and sends a new order of what it saw.  A list that *)
(* is not shared may be sent without its revision.  "born" and "filling"    *)
(* (the songs of a mix, or of the copy that had this id, are still to come) *)
(* are history, not sent.                                                   *)
Filling(l) == \E h \in Handlers : handler[h].op \in {"mix", "copy"} /\ handler[h].list = l

AsSent(l) == [list |-> l, revision |-> list[l].revision, born |-> list[l].born,
              filling |-> Filling(l), items |-> Of(l)]

Read(u, l) ==
  /\ Readable(u, l)
  /\ seen' = [seen EXCEPT ![u] = AsSent(l)]
  /\ UNCHANGED <<libraryVars, listVars, job, handler, stale>>

Reorder(u, l) ==
  /\ Editable(u, l) /\ seen[u].list = l /\ seen[u].items # {}
  /\ Importing(l) = {}
  /\ SameTracks(seen[u].items, Of(l))
  /\ \E new \in Orders(l, seen[u].items) : Edit(l, new)
  /\ UNCHANGED handler

ReorderSeen(u, l) == seen[u].revision = list[l].revision /\ Reorder(u, l)
ReorderBlind(u, l) == ~list[l].shared /\ Reorder(u, l)

(* delete_playlist removes the M3U file, awaits Navidrome, and deletes the  *)
(* row that has the id by then; jobs and operations forget the list.        *)
AskDelete(u, l, h) ==
  /\ l \in Live /\ list[l].owner = u
  /\ Suspend(h, [Idle EXCEPT !.op = "delete", !.user = u, !.list = l])
  /\ export' = Without(l) /\ onDisk' = onDisk \ {l}
  /\ UNCHANGED <<libraryVars, list, operation, births, job, seen, stale>>

DropLists(S) ==
  /\ list' = [l \in Lists |-> IF l \in S THEN NoList ELSE list[l]]
  /\ items' = {i \in items : i.list \notin S}
  /\ operation' = [o \in DOMAIN operation |->
       IF \E l \in S : o = <<list[l].owner, list[l].request>> THEN "gone" ELSE operation[o]]
  /\ job' = [j \in Jobs |-> IF job[j].list \in S THEN [job[j] EXCEPT !.list = 0] ELSE job[j]]
  /\ UNCHANGED <<library, export, onDisk, births, seen, stale>>

Delete(h) == Resume(h, "delete") /\ DropLists({handler[h].list} \cap Live)

(* update_playlist awaits Navidrome and then writes the export again.       *)
AskRename(u, l, h) ==
  /\ Editable(u, l) /\ list[l].owner = u
  /\ Suspend(h, [Idle EXCEPT !.op = "rename", !.user = u, !.list = l])
  /\ UNCHANGED <<libraryVars, listVars, job, seen, stale>>

FileAgain(l) == IF l \in Live THEN Export(l, Of(l)) ELSE UNCHANGED <<export, onDisk, stale>>

Rename(h) ==
  /\ Resume(h, "rename")
  /\ FileAgain(handler[h].list)
  /\ UNCHANGED <<libraryVars, list, operation, births, job, seen>>

FileMix(h) ==
  /\ Resume(h, "mixed")
  /\ FileAgain(handler[h].list)
  /\ UNCHANGED <<libraryVars, list, operation, births, job, seen>>

Publish(u, l) ==
  /\ l \in Live /\ list[l].owner = u /\ list[l].kind # "copy"
  /\ list' = [list EXCEPT ![l].public = ~@]
  /\ UNCHANGED <<libraryVars, export, onDisk, operation, births, job, handler, seen, stale>>

Copies(u, s) == {l \in Live : list[l].owner = u /\ list[l].source = s}

\* mutant: the file of a list that is filled again stays as it was
RefillQuietly(l, new) ==
  /\ items' = (items \ Of(l)) \cup new
  /\ UNCHANGED <<list, export, onDisk, stale>>

Refill(l, new) ==
  /\ items' = (items \ Of(l)) \cup new
  /\ Export(l, new)
  /\ UNCHANGED list

(* copy_public_playlist makes a copy, or fills the one there is.            *)
Copy(u, s) ==
  /\ s \in Live /\ list[s].public /\ list[s].owner # u
  /\ \/ \E l \in Copies(u, s) : Refill(l, Copied(l, Of(s))) /\ UNCHANGED births
     \/ /\ Copies(u, s) = {}
        /\ \E l \in Lists :
             MakeList(l, [NoList EXCEPT !.kind = "copy", !.owner = u, !.source = s], Copied(l, Of(s)))
  /\ UNCHANGED <<library, operation, job, handler, seen>>

(* When its name is to change, the file of the copy is removed and Navidrome *)
(* awaited before whatever has the ids by then is filled; if one of the two *)
(* is gone, the handler fails.                                              *)
AskCopy(u, s, h) ==
  /\ s \in Live /\ list[s].public /\ list[s].owner # u
  /\ \E l \in Copies(u, s) :
       /\ Suspend(h, [Idle EXCEPT !.op = "copy", !.user = u, !.list = l, !.source = s])
       /\ export' = Without(l) /\ onDisk' = onDisk \ {l}
  /\ UNCHANGED <<libraryVars, list, operation, births, job, seen, stale>>

CopyAgain(h) ==
  /\ Resume(h, "copy")
  /\ LET l == handler[h].list  s == handler[h].source
     IN IF {l, s} \subseteq Live
        THEN Refill(l, Copied(l, Of(s)))
        ELSE stale' = stale \cup {l} /\ UNCHANGED <<items, list, export, onDisk>>
  /\ UNCHANGED <<library, operation, births, job, seen>>

(* copy_remote keeps one copy of a public collection of another instance;   *)
(* it looks for its own copy when that instance has answered.               *)
Elsewhere == MaxLists + 1

CopyRemote(u) ==
  /\ \/ \E l \in Copies(u, Elsewhere) : \E new \in Fillings(l, Remote) : Edit(l, new)
     \/ /\ Copies(u, Elsewhere) = {}
        /\ \E l \in Lists : \E new \in Fillings(l, Remote) :
             MakeList(l, [NoList EXCEPT !.kind = "copy", !.owner = u, !.source = Elsewhere,
                                        !.revision = 1], new)
        /\ UNCHANGED <<library, operation, job, seen>>
  /\ UNCHANGED handler

(* Smart playlists are filled by their rules (_materialize): on creation,   *)
(* when the rules change, on demand, and after downloads and favorites.     *)
CreateSmart(u) ==
  /\ \E l \in Lists : \E new \in Fillings(l, library \ Remote) :
       MakeList(l, [NoList EXCEPT !.kind = "smart", !.owner = u], new)
  /\ UNCHANGED <<library, operation, job, handler, seen>>

RefreshSmart(l) ==
  /\ list[l].kind = "smart"
  /\ \E new \in Fillings(l, library \ Remote) : Refill(l, new)
  /\ UNCHANGED <<library, operation, births, job, handler, seen>>

(* The songs of a year's summary become a list at once.                     *)
SaveTopSongs(u) ==
  /\ \E l \in Lists : \E new \in Fillings(l, library) \ {{}} :
       MakeList(l, [NoList EXCEPT !.kind = "own", !.owner = u], new)
  /\ UNCHANGED <<library, operation, job, handler, seen>>

(* Saving a mix runs in a thread of its own: the row, then the items whose  *)
(* songs are there by then, then the file.                                  *)
NewList(u, l) ==
  /\ NewRow(l, [NoList EXCEPT !.kind = "own", !.owner = u], {})
  /\ export' = Without(l) /\ onDisk' = onDisk \ {l} /\ stale' = stale \ {l}

SaveMix(u, h) ==
  /\ \E l \in Lists :
       NewList(u, l) /\ Suspend(h, [Idle EXCEPT !.op = "mix", !.user = u, !.list = l])
  /\ UNCHANGED <<library, operation, job, seen>>

FillMix(h) ==
  LET l == handler[h].list
  IN /\ handler[h].op = "mix"
     /\ IF l \in Live
        THEN /\ \E new \in Fillings(l, library) : items' = items \cup new
             /\ handler' = [handler EXCEPT ![h].op = "mixed"]
        ELSE handler' = [handler EXCEPT ![h] = Idle] /\ UNCHANGED items
     /\ UNCHANGED <<library, listVars, job, seen, stale>>

Share(l, m) ==
  /\ LET row == list[l]
     IN list' = [list EXCEPT ![l] = [row EXCEPT !.members = row.members \cup {m}, !.shared = TRUE,
                                                !.revision = row.revision + 1]]
  /\ UNCHANGED <<libraryVars, export, onDisk, operation, births, job, seen, stale>>

AddCollaborator(u, l, m) ==
  /\ Editable(u, l) /\ list[l].owner = u /\ m # u
  /\ Share(l, m)
  /\ UNCHANGED handler

(* A user of another instance is looked up there (invite_remote), and the   *)
(* list that has the id by then is shared; if none has, the foreign key     *)
(* refuses the invitation.                                                  *)
AskInvite(u, l, h) ==
  /\ Editable(u, l) /\ list[l].owner = u
  /\ Suspend(h, [Idle EXCEPT !.op = "invite", !.user = u, !.list = l])
  /\ UNCHANGED <<libraryVars, listVars, job, seen, stale>>

Invite(h) ==
  /\ Resume(h, "invite")
  /\ IF handler[h].list \in Live
     THEN \E m \in Users \ {handler[h].user} : Share(handler[h].list, m)
     ELSE UNCHANGED <<libraryVars, listVars, job, seen, stale>>

RemoveCollaborator(u, l, m) ==
  /\ l \in Live /\ (list[l].owner = u \/ u = m) /\ m \in list[l].members
  /\ LET row == list[l]
     IN list' = [list EXCEPT ![l] = [row EXCEPT !.members = row.members \ {m},
                                                !.revision = row.revision + 1]]
  /\ UNCHANGED <<libraryVars, export, onDisk, operation, births, job, handler, seen, stale>>

(* _delete_track_from_library with detach_track_references: the items go,   *)
(* revisions and exports stay.                                              *)
DeleteTrack(t) ==
  /\ t \in library \ Remote
  /\ library' = library \ {t}
  /\ items' = {i \in items : i.track # t}
  /\ UNCHANGED <<listVars, job, handler, seen, stale>>
-----------------------------------------------------------------------------
(* Downloads into lists.  import_collection makes a list and a job for each *)
(* of its positions; start_download adds to a list the user owns.           *)
(* _prune_terminal_download_jobs keeps the newest jobs that are over (of a  *)
(* user; here those of all users count together: a smaller Keep); one       *)
(* that failed to fill its position is kept until the position is filled.   *)
(* The thread of a job that has just ended then finds no row to export.     *)
Over(table, j) ==
  \/ table[j].phase \in {"completed", "ended"}
  \/ /\ table[j].phase = "failed"
     /\ table[j].list = 0 \/ table[j].pos = 0 \/ table[j].pos \in Positions(table[j].list)

Prunable(table) ==
  {j \in Jobs : Over(table, j) /\ Cardinality({k \in Jobs : Over(table, k) /\ k > j}) >= Keep}

Pruned(table) == [j \in Jobs |-> IF j \in Prunable(table) THEN NoJob ELSE table[j]]

CutByPruning(table) == {table[j].list : j \in {k \in Prunable(table) : table[k].phase = "ended"}}

(* The list of downloads prunes whenever it is looked at.                   *)
Prune ==
  /\ Prunable(job) # {}
  /\ job' = Pruned(job)
  /\ stale' = stale \cup CutByPruning(job)
  /\ UNCHANGED <<libraryVars, listVars, handler, seen>>

NewJob(l, p) == [NoJob EXCEPT !.phase = "pending", !.list = l, !.pos = p]

ImportCollection(u) ==
  LET first == NextId(JobRows)
  IN \E l \in Lists, n \in Batches :
       /\ first + n - 1 \in Jobs
       /\ NewList(u, l)
       /\ job' = [j \in Jobs |-> IF j \in first .. (first + n - 1)
                                 THEN NewJob(l, j - first + 1) ELSE job[j]]
       /\ UNCHANGED <<library, operation, handler, seen>>

With(table, new) == [table EXCEPT ![NextId({j \in Jobs : table[j].phase # "none"})] = new]
HasRoom(table) == table[MaxJobs].phase = "none"

StartDownload(u, l) ==
  /\ l \in Live /\ list[l].owner = u /\ HasRoom(Pruned(job))
  /\ job' = With(Pruned(job), NewJob(l, 0))
  /\ stale' = stale \cup CutByPruning(job)
  /\ UNCHANGED <<libraryVars, listVars, handler, seen>>

(* retry_download: only the latest job of a position, and only when it has  *)
(* failed.                                                                  *)
SameSlot(j) == {k \in JobRows : job[k].list = job[j].list /\ job[k].pos = job[j].pos}

\* mutant: any failed job of a position may be tried again
RetryAny(j) ==
  /\ job[j].phase = "failed" /\ HasRoom(job)
  /\ LET asked == With(job, NewJob(job[j].list, job[j].pos))
     IN job' = Pruned(asked) /\ stale' = stale \cup CutByPruning(asked)
  /\ UNCHANGED <<libraryVars, listVars, handler, seen>>

Retry(j) ==
  /\ job[j].phase = "failed" /\ HasRoom(job)
  /\ (job[j].list # 0 /\ job[j].pos # 0) => job[Max(SameSlot(j))].phase = "failed"
  /\ LET asked == With(job, NewJob(job[j].list, job[j].pos))
     IN job' = Pruned(asked) /\ stale' = stale \cup CutByPruning(asked)
  /\ UNCHANGED <<libraryVars, listVars, handler, seen>>

SetPhase(j, from, to) == job[j].phase = from /\ job' = [job EXCEPT ![j].phase = to]

(* The song is there, found in the library or newly imported; the thread    *)
(* reads where it goes (_link_track_to_playlist) and writes it afterwards.  *)
Taken(j, t) ==
  IF job[j].pos = 0 THEN \E i \in Of(job[j].list) : i.track = t
                    ELSE Item(job[j].list, t, job[j].pos) \in items
Place(j) ==
  IF job[j].pos = 0 \/ job[j].pos \in Positions(job[j].list)
  THEN MaxOf(Positions(job[j].list)) + 1 ELSE job[j].pos

Choose(j, t) ==
  /\ job[j].phase = "pending" /\ t \in Tracks \ Remote
  /\ library' = library \cup {t}
  /\ job' = IF job[j].list = 0 \/ Taken(j, t)
            THEN [job EXCEPT ![j].phase = "linked", ![j].track = t]
            ELSE [job EXCEPT ![j].phase = "choosing", ![j].track = t, ![j].at = Place(j)]
  /\ UNCHANGED <<items, listVars, handler, seen, stale>>

Link(j) ==
  /\ job[j].list # 0 /\ job[j].track \in library
  /\ SetPhase(j, "choosing", "linked")
  /\ items' = items \cup {Item(job[j].list, job[j].track, job[j].at)}
  /\ list' = [list EXCEPT ![job[j].list].revision = @ + 1]
  /\ UNCHANGED <<library, export, onDisk, operation, births, handler, seen, stale>>

(* The list or the track was deleted in between: the job fails, or, when    *)
(* the song was found before the download, its thread dies outside the try. *)
LinkFails(j) ==
  /\ job[j].list = 0 \/ job[j].track \notin library
  /\ SetPhase(j, "choosing", "failed") \/ SetPhase(j, "choosing", "stuck")
  /\ UNCHANGED <<libraryVars, listVars, handler, seen, stale>>

(* The job is completed; the event loop exports the list after it.          *)
End(j) ==
  /\ SetPhase(j, "linked", "ended")
  /\ UNCHANGED <<libraryVars, listVars, handler, seen, stale>>

Sync(j) ==
  /\ SetPhase(j, "ended", "completed")
  /\ FileAgain(job[j].list)
  /\ UNCHANGED <<libraryVars, list, operation, births, handler, seen>>

(* A job that fails after its link leaves the export behind.                *)
Fail(j) ==
  /\ SetPhase(j, "pending", "failed") \/ SetPhase(j, "linked", "failed")
  /\ stale' = IF job[j].phase = "linked" THEN stale \cup {job[j].list} ELSE stale
  /\ UNCHANGED <<libraryVars, listVars, handler, seen>>

(* The concierge restarts: handlers and threads are gone, and               *)
(* mark_stuck_download_jobs_failed sweeps the jobs they worked on.          *)
CutOff == {handler[h].list : h \in {k \in Handlers : handler[k].op \in {"delete", "copy", "mixed"}}}
          \cup {job[j].list : j \in {k \in Jobs : job[k].phase \in {"linked", "ended"}}}

Restart ==
  /\ handler' = [h \in Handlers |-> Idle]
  /\ job' = [j \in Jobs |-> CASE job[j].phase \in ActivePhases -> [job[j] EXCEPT !.phase = "failed"]
                              [] job[j].phase = "ended" -> [job[j] EXCEPT !.phase = "completed"]
                              [] OTHER -> job[j]]
  /\ stale' = stale \cup CutOff
  /\ UNCHANGED <<libraryVars, listVars, seen>>
-----------------------------------------------------------------------------
HandlerStep(h) ==
  \/ Create(h) \/ AddRemote(h) \/ Delete(h) \/ Rename(h) \/ CopyAgain(h) \/ Invite(h)
  \/ FillMix(h) \/ FileMix(h)
JobStep(j) ==
  \/ Link(j) \/ LinkFails(j) \/ End(j) \/ Sync(j) \/ Fail(j)
  \/ \E t \in Tracks : Choose(j, t)

(* What clients and an administrator ask for.  Members on other instances   *)
(* reach the same handlers (federation_collection).                         *)
Request ==
  \/ \E u \in Users, l \in Lists :
       \/ Read(u, l) \/ ReorderSeen(u, l) \/ ReorderBlind(u, l)
       \/ Publish(u, l) \/ Copy(u, l) \/ StartDownload(u, l)
       \/ \E t \in Tracks : Add(u, l, t)
       \/ \E i \in items : Remove(u, l, i)
       \/ \E m \in Users : AddCollaborator(u, l, m) \/ RemoveCollaborator(u, l, m)
       \/ \E h \in Handlers : AskDelete(u, l, h) \/ AskRename(u, l, h) \/ AskCopy(u, l, h)
                              \/ AskInvite(u, l, h)
       \/ \E h \in Handlers, t \in Tracks : AskAdd(u, l, t, h)
  \/ \E u \in Users : ImportCollection(u) \/ CreateSmart(u) \/ CopyRemote(u) \/ SaveTopSongs(u)
  \/ \E u \in Users, h \in Handlers : SaveMix(u, h)
  \/ \E u \in Users, r \in Requests, h \in Handlers : AskCreate(u, r, h)
  \/ \E l \in Lists : RefreshSmart(l)
  \/ \E t \in Tracks : DeleteTrack(t)
  \/ \E j \in Jobs : Retry(j)

(* What runs by itself once it was asked for.                              *)
Progress ==
  \/ \E h \in Handlers : HandlerStep(h)
  \/ \E j \in Jobs : JobStep(j)
  \/ Prune

Counted == requests < MaxRequests /\ requests' = requests + 1

Next ==
  \/ (Request \/ Restart) /\ Counted
  \/ Progress /\ UNCHANGED requests

Spec == Init /\ [][Next]_vars
-----------------------------------------------------------------------------
(* Rows, jobs, suspended handlers and what clients have read keep their     *)
(* types (database.py).                                                     *)
Ids == Lists \cup {0}
ItemType == [list : Lists, track : Tracks, pos : Nat \ {0}]
ListType == [kind : {"none", "own", "smart", "copy"}, owner : Users \cup {"none"}, public : BOOLEAN,
             shared : BOOLEAN, members : SUBSET Users, source : Ids \cup {Elsewhere}, revision : Nat,
             request : Requests \cup {"none"}, born : Nat]
JobType == [phase : ActivePhases \cup {"none", "ended", "completed", "failed"},
            list : Ids, pos : Nat, track : Tracks \cup {"none"}, at : Nat]
SeenType == [list : Ids, revision : Nat, born : Nat, filling : BOOLEAN, items : SUBSET ItemType]
HandlerType == [op : {"idle", "create", "add", "delete", "rename", "copy", "invite", "mix", "mixed"},
                user : Users \cup {"none"},
                list : Ids, source : Ids, track : Tracks \cup {"none"}, request : Requests \cup {"none"}]

TypeOK ==
  /\ library \subseteq Tracks
  /\ list \in [Lists -> ListType]
  /\ items \subseteq ItemType
  /\ export \in [Lists -> SUBSET (Tracks \X Nat)]
  /\ onDisk \subseteq Lists
  /\ operation \in [Users \X Requests -> {"none", "made", "gone"}]
  /\ job \in [Jobs -> JobType]
  /\ handler \in [Handlers -> HandlerType]
  /\ seen \in [Users -> SeenType] /\ stale \subseteq Ids
  /\ births \in Nat /\ requests \in 0 .. MaxRequests

(* Every item refers to a list and a track that exist, whatever was deleted *)
(* while a handler or a download was under way (deletion_service.py).       *)
NoDanglingItems == \A i \in items : i.list \in Live /\ i.track \in library

(* At most one job works on a position of a collection (retry_download).    *)
OneJobPerPosition ==
  \A j \in Jobs : (job[j].phase \in ActivePhases /\ job[j].list # 0 /\ job[j].pos # 0)
    => \A k \in SameSlot(j) : job[k].phase \in ActivePhases => k = j

(* The M3U file of a list has each of its songs where the list has it, but  *)
(* between an import or a mix and its export, while the list is being       *)
(* deleted or copied again under a new name, or after an export failed or   *)
(* was cut off (sync_edited_playlist).                                      *)
Settled(l) ==
  /\ l \in Live \ stale
  /\ \A h \in Handlers : ~(handler[h].op \in {"delete", "copy", "mixed"} /\ handler[h].list = l)
  /\ \A j \in Jobs : ~(job[j].phase \in {"linked", "ended"} /\ job[j].list = l)

ExportCoversList == \A l \in Lists : Settled(l) => Lines(Of(l)) \subseteq export[l]

(* A reorder that states its revision starts from the items and positions   *)
(* its client has read, unless its songs were still to come from a mix or a *)
(* copy: filling it leaves the revision (reorder_playlist_tracks).          *)
NoLostReorder ==
  [][\A u \in Users, l \in Lists :
       ReorderSeen(u, l) /\ seen[u].born = list[l].born /\ ~seen[u].filling
         => seen[u].items = Of(l)]_vars
=============================================================================
