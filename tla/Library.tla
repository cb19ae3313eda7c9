------------------------------ MODULE Library ------------------------------
(***************************************************************************)
(* What surrounds the playlists of an instance: favorites and the two-way  *)
(* synchronisation with each user's Navidrome (routers/music/favorites.py),*)
(* requests to delete a song and their review (delete_requests.py,         *)
(* routers/admin.py), and the deletion of a song with all that refers to   *)
(* it.  Navidrome is external and may answer anything: other clients set   *)
(* and take stars there, tasks that tell it of a like overtake each other  *)
(* or fail unnoticed, and it knows the playlists whose files it has found. *)
(***************************************************************************)
EXTENDS Playlists

VARIABLES
  fav,      \* user_favorites: <<user, track>>
  liked,    \* the "Liked Songs" file of each user: its tracks
  wishes,   \* track_delete_requests
  lost      \* history: songs that have been deleted

favVars == <<fav, liked>>
libVars == <<vars, favVars, wishes, lost>>
idle == <<library, items, listVars, job, handler, seen, stale>>

Local == library \ Remote
FavoritesOf(u, rows) == {t \in Tracks : <<u, t>> \in rows}

LibInit ==
  /\ Init
  /\ fav = {} /\ liked = [u \in Users |-> {}]
  /\ wishes = {} /\ lost = {}
-----------------------------------------------------------------------------
(* Deleting a song.  _delete_track_from_library, with the triggers of the   *)
(* schema, takes its favorites along and leaves requests without a song.    *)
ForgetWishes(rows) ==
  {IF w.track \in library' THEN w ELSE [w EXCEPT !.track = "none"] : w \in rows}

\* mutant: favorites are left to the foreign key
DetachItemsOnly ==
  /\ UNCHANGED fav
  /\ lost' = lost \cup (library \ library')

Detach ==
  /\ fav' = {f \in fav : f[2] \in library'}
  /\ lost' = lost \cup (library \ library')

Around == Detach /\ wishes' = ForgetWishes(wishes) /\ UNCHANGED liked
ListRequest == Request /\ Around
ListProgress == Progress /\ Around

-----------------------------------------------------------------------------
(* Favorites.  Each change rewrites the user's file, refreshes the user's   *)
(* smart playlists and starts a task that tells Navidrome.                  *)
SmartOf(u) == {l \in Live : list[l].kind = "smart" /\ list[l].owner = u}

RefreshSmartOf(u) ==
  /\ \E new \in [SmartOf(u) -> UNION {Fillings(l, Local) : l \in SmartOf(u)}] :
       /\ \A l \in SmartOf(u) : new[l] \in Fillings(l, Local)
       /\ items' = {i \in items : i.list \notin SmartOf(u)} \cup UNION {new[l] : l \in SmartOf(u)}
       /\ \E failed \in SUBSET (SmartOf(u) \cap Unwritable) :
            /\ export' = [l \in Lists |-> IF l \in SmartOf(u) \ failed THEN Lines(new[l]) ELSE export[l]]
            /\ \E cut \in SUBSET failed : onDisk' = onDisk \cup cut \cup (SmartOf(u) \ failed)
            /\ stale' = (stale \ SmartOf(u)) \cup failed
  /\ UNCHANGED <<library, list, operation, births, job, handler, seen>>

\* mutant: the file is written on a like only
SaveLiked(u, t, likes) ==
  /\ fav' = IF likes THEN fav \cup {<<u, t>>} ELSE fav \ {<<u, t>>}
  /\ liked' = IF likes THEN [liked EXCEPT ![u] = FavoritesOf(u, fav')] ELSE liked

Save(u, t, likes) ==
  /\ fav' = IF likes THEN fav \cup {<<u, t>>} ELSE fav \ {<<u, t>>}
  /\ liked' = [liked EXCEPT ![u] = FavoritesOf(u, fav')]

AddFavorite(u, t) ==
  /\ t \in Local /\ <<u, t>> \notin fav
  /\ Save(u, t, TRUE) /\ RefreshSmartOf(u)
  /\ UNCHANGED <<wishes, lost>>

RemoveFavorite(u, t) ==
  /\ <<u, t>> \in fav
  /\ Save(u, t, FALSE) /\ RefreshSmartOf(u)
  /\ UNCHANGED <<wishes, lost>>

(* sync_navidrome_to_local: what has a star becomes a favorite; nothing is  *)
(* taken away, and the file is not written.                                 *)
PullFavorites(u) ==
  /\ \E songs \in SUBSET Local : fav' = fav \cup ({u} \X songs)
  /\ fav' # fav
  /\ UNCHANGED <<idle, liked, wishes, lost>>

Owned(u) == {l \in Live : list[l].owner = u}

\* mutant: the file on disk is not looked for
PullMissing(u) ==
  /\ \E gone \in SUBSET Owned(u) : gone # {} /\ DropLists(gone)
  /\ UNCHANGED <<handler, favVars, wishes, lost>>

(* ... and a list whose name Navidrome did not mention is deleted when its  *)
(* file is not there either.                                                *)
PullLists(u) ==
  /\ \E gone \in SUBSET (Owned(u) \ onDisk) : gone # {} /\ DropLists(gone)
  /\ UNCHANGED <<handler, favVars, wishes, lost>>
-----------------------------------------------------------------------------
(* Requests to delete a song. *)
Pending == {w \in wishes : w.status = "pending"}

Wish(u, t) ==
  [id |-> Cardinality(wishes) + 1, user |-> u, track |-> t, status |-> "pending", read |-> FALSE]

AskDeletion(u, t) ==
  /\ t \in Local
  /\ ~\E w \in Pending : w.user = u /\ w.track = t
  /\ wishes' = wishes \cup {Wish(u, t)}
  /\ UNCHANGED <<idle, favVars, lost>>

Answered(w, status) == [w EXCEPT !.status = status, !.read = FALSE]

(* The other requests for the song lose it, and are approved if pending.    *)
Approved(w) ==
  {IF v = w THEN [Answered(v, "approved") EXCEPT !.track = "none"]
   ELSE IF w.track = "none" \/ v.track # w.track THEN v
   ELSE [(IF v \in Pending THEN Answered(v, "approved") ELSE v) EXCEPT !.track = "none"] : v \in wishes}

(* resolve_song_delete_request commits the answers and then deletes the     *)
(* song; a restart between the two leaves it.                               *)
Approve(w) ==
  /\ w \in Pending
  /\ wishes' = Approved(w)
  /\ \/ DeleteTrack(w.track) /\ Detach /\ UNCHANGED liked
     \/ w.track \in Local /\ Restart /\ UNCHANGED <<favVars, lost>>
     \/ w.track \notin Local /\ UNCHANGED <<idle, favVars, lost>>

Reject(w) ==
  /\ w \in Pending
  /\ wishes' = (wishes \ {w}) \cup {Answered(w, "rejected")}
  /\ UNCHANGED <<idle, favVars, lost>>

Acknowledge(u) ==
  /\ wishes' = {IF w.user = u /\ w \notin Pending THEN [w EXCEPT !.read = TRUE] ELSE w : w \in wishes}
  /\ wishes' # wishes
  /\ UNCHANGED <<idle, favVars, lost>>
-----------------------------------------------------------------------------
LibRequest ==
  \/ \E u \in Users, t \in Tracks \ Remote :
       AddFavorite(u, t) \/ RemoveFavorite(u, t) \/ AskDeletion(u, t)
  \/ \E u \in Users : PullFavorites(u) \/ PullLists(u) \/ Acknowledge(u)
  \/ ListRequest
  \/ Restart /\ UNCHANGED <<favVars, wishes, lost>>

LibProgress ==
  \/ ListProgress /\ UNCHANGED requests
  \/ (\E w \in wishes : Approve(w) \/ Reject(w)) /\ UNCHANGED requests

LibNext ==
  \/ LibRequest /\ Counted
  \/ LibProgress

LibSpec == LibInit /\ [][LibNext]_libVars
-----------------------------------------------------------------------------
(* Favorites, files, stars and requests keep their types.                   *)
LibTypeOK ==
  /\ TypeOK
  /\ fav \subseteq Users \X Tracks
  /\ liked \in [Users -> SUBSET Tracks] /\ lost \subseteq Tracks
  /\ wishes \subseteq [id : Nat, user : Users, track : Tracks \cup {"none"}, read : BOOLEAN,
                       status : {"pending", "approved", "rejected"}]

(* "Keep historical references consistent" (deletion_service.py:1): items,  *)
(* favorites and requests name lists and songs that exist, whatever was     *)
(* deleted while a handler, a download or a pull was under way.             *)
NoDangling ==
  /\ NoDanglingItems
  /\ \A f \in fav : f[2] \in library
  /\ \A w \in wishes : w.track \in library \cup {"none"}

(* A song that its user does not like (any more) is not in the user's file, *)
(* in whatever order likes and pulls arrive; a song that was deleted stays  *)
(* in the files that have it.                                               *)
UnlikedIsNotListed == \A u \in Users : liked[u] \ lost \subseteq FavoritesOf(u, fav)

(* A pull from Navidrome never deletes a list with songs, unless its owner  *)
(* is deleting it or copying it again under a new name, or its export is    *)
(* still to come, has failed or was cut off: a new list is on disk before   *)
(* the pull can look (sync_navidrome_to_local).                             *)
SongsSurviveSync ==
  [][\A l \in Lists : Settled(l) /\ Of(l) # {} => l \in Live']_libVars

=============================================================================
