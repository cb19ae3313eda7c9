---------------------------- MODULE PartyPlayback ----------------------------
(***************************************************************************)
(* The shared queue and the playback clock of one party room               *)
(* (party_service.py).  A room row is a record; each handler is one step,  *)
(* because handlers run on the event loop and do not yield it between the  *)
(* read of the room and their commit.  The one that does, adding a song    *)
(* that a federated peer has to be asked about, is split at the await.     *)
(*                                                                         *)
(* Every handler ends with hub.broadcast, which normalizes the room and    *)
(* commits again: that is part of the action.                              *)
(*                                                                         *)
(* Time is a number of units.  A room stores a position and, while it      *)
(* plays, how long ago playback_started_at was; the start is announced one *)
(* unit ahead (PARTY_START_DELAY_MS).  index counts from 1 and 0 is the    *)
(* code's -1.                                                              *)
(***************************************************************************)
EXTENDS Integers, Sequences, FiniteSets

CONSTANTS Songs,      \* what a queue item plays, with its length
          Length,     \* length of a song; 0 when the server does not know it
          MaxItem,    \* bound: queue item ids are 1..MaxItem
          MaxQueue,   \* MAX_QUEUE_ITEMS
          Seed,       \* the queue the room was created with
          MaxLag,     \* bound: longest time between two normalizations
          MaxPos,     \* bound: longest position
          MaxRev      \* bound: commands are taken up to this revision

Items == [id : 1..MaxItem, song : Songs]

ASSUME LengthAssumption == Length \in [Songs -> Nat]
ASSUME SeedAssumption ==
  /\ Seed \in Seq(Items) /\ Len(Seed) <= MaxQueue
  /\ \A j, k \in DOMAIN Seed : Seed[j].id = Seed[k].id => j = k
ASSUME PlayBoundsAssumption ==
  MaxItem \in Nat /\ MaxQueue \in Nat /\ MaxLag \in Nat /\ MaxPos \in Nat /\ MaxRev \in Nat

VARIABLES room,    \* the row in party_rooms with its queue items
          adding,  \* an add that awaits a federated peer, and what it read of the room
          up       \* the concierge process

playVars == <<room, adding, up>>
-----------------------------------------------------------------------------
(* Rooms. *)

Active == {"playing", "loading"}
Never == -2           \* playback_started_at is NULL
Lead == -1            \* it is PARTY_START_DELAY_MS ahead
NoAdd == [index |-> 0, pos |-> 0, rev |-> -1]

Rooms == [queue : Seq(Items), index : Nat, status : Active \cup {"paused"},
          pos : Nat, since : Int, rev : Nat]
NewRoom == [queue |-> Seed, index |-> IF Seed = <<>> THEN 0 ELSE 1, status |-> "paused",
            pos |-> 0, since |-> Never, rev |-> 0]

HasCurrent(r) == r.index \in DOMAIN r.queue
Current(r) == r.queue[r.index]
Duration(r, k) == Length[r.queue[k].song]
Bump(r) == [r EXCEPT !.rev = @ + 1]
Halt(r) == [r EXCEPT !.status = "paused", !.since = Never]
CueUp(r, k) == [r EXCEPT !.index = k, !.pos = 0, !.status = "loading", !.since = Never]

(* _effective_position_ms *)
Effective(r) == IF r.status = "playing" /\ r.since > 0 THEN r.pos + r.since ELSE r.pos

(* How far playback is into the k-th item if it ran through those before it *)
Into(r) == LET into[k \in r.index..Len(r.queue)] ==
                 IF k = r.index THEN Effective(r) ELSE into[k - 1] - Duration(r, k - 1)
           IN  into
Over(r, k) == Duration(r, k) > 0 /\ Into(r)[k] >= Duration(r, k)
Ended(r) == {k \in r.index..Len(r.queue) : \A j \in r.index..k : Over(r, j)}

\* mutant: the clock is restarted without saving what has been played
ForgetfulNormalized(r) ==
  IF r.status # "playing" \/ ~HasCurrent(r) \/ r.since < 0 THEN r
  ELSE IF Ended(r) = {} THEN [r EXCEPT !.since = 0]
  ELSE Bump(CueUp(r, r.index))

(* normalize_playback *)
Normalized(r) ==
  LET arrival == r.index + Cardinality(Ended(r))
      last == Len(r.queue)
  IN  IF r.status # "playing" THEN r
      ELSE IF ~HasCurrent(r)
           THEN Bump(Halt([r EXCEPT !.pos = 0,
                             !.index = IF r.queue = <<>> THEN 0
                                       ELSE IF r.index < 1 THEN 1 ELSE last]))
      ELSE IF r.since = Lead THEN r
      ELSE IF arrival > last THEN Bump(Halt([r EXCEPT !.index = last, !.pos = Duration(r, last)]))
      ELSE IF arrival > r.index THEN Bump(CueUp(r, arrival))
      ELSE [r EXCEPT !.pos = Effective(r), !.since = 0]

\* the handler commits r and broadcasts
Commit(r) == room' = Normalized(r) /\ UNCHANGED <<adding, up>>
Open == up /\ room.rev < MaxRev
-----------------------------------------------------------------------------
(* control_room *)

Play ==
  /\ Open
  /\ LET r == Normalized(room)
         atEnd == ~HasCurrent(r) \/ (Duration(r, r.index) > 0 /\ r.pos >= Duration(r, r.index))
     IN  /\ r.queue # <<>>
         /\ IF r.status \in Active THEN Commit(r)
            ELSE Commit(Bump(IF atEnd THEN CueUp(r, 1)
                             ELSE [r EXCEPT !.status = "loading", !.since = Never]))

Pause ==
  /\ Open
  /\ LET r == Normalized(room) IN Commit(Bump(Halt([r EXCEPT !.pos = Effective(r)])))

Seek(p) ==
  /\ Open
  /\ LET r == Normalized(room)
         d == Duration(r, r.index)
     IN  /\ HasCurrent(r)
         /\ Commit(Bump([r EXCEPT !.pos = IF d > 0 /\ p > d THEN d ELSE p,
                                  !.since = IF r.status = "playing" THEN 0 ELSE Never]))

\* previous and next: what plays has to load again, a paused room stays paused
Jump(r, k) == [r EXCEPT !.index = k, !.pos = 0, !.since = Never,
                        !.status = IF @ = "playing" THEN "loading" ELSE @]

NextSong ==
  /\ Open /\ room.queue # <<>>
  /\ LET last == Len(room.queue)
     IN  Commit(Bump(IF room.index >= last THEN Jump(Halt(room), last)
                     ELSE Jump(room, room.index + 1)))

PreviousSong ==
  /\ Open /\ room.queue # <<>>
  /\ Commit(Bump(Jump(room, IF room.index > 1 THEN room.index - 1 ELSE 1)))

(* A player reports that the item it was playing is over.  Reports for      *)
(* another item are answered with success and change nothing.               *)
SongEnded(id, byOwner) ==
  /\ Open /\ room.queue # <<>>
  /\ IF ~HasCurrent(room) \/ Current(room).id # id THEN Commit(room)
     ELSE /\ byOwner \/ Duration(room, room.index) = 0
          /\ Commit(Bump(IF room.index = Len(room.queue)
                         THEN Halt([room EXCEPT !.pos = Duration(room, room.index)])
                         ELSE CueUp(room, room.index + 1)))

(* A player has buffered the item that is loading: the clock starts. *)
Ready(id) ==
  /\ Open
  /\ LET r == Normalized(room)
     IN  IF ~HasCurrent(r) \/ r.status # "loading" THEN Commit(room)
         ELSE IF Current(r).id # id THEN Commit(room)
         ELSE Commit(Bump([r EXCEPT !.status = "playing", !.pos = 0, !.since = Lead]))
-----------------------------------------------------------------------------
(* The queue. *)

\* sqlite hands out an id above every row that is left
NewItems == {i \in Items : \A k \in DOMAIN room.queue : room.queue[k].id < i.id}

\* mutant: the new song goes to the front
AddedInFront(item, read) == [room EXCEPT !.queue = <<item>> \o @, !.rev = @ + 1]

(* add_track works with the index and the revision its request read: only   *)
(* attributes that it changes from what it read are written.                *)
Added(item, read) ==
  [room EXCEPT !.queue = Append(@, item),
               !.index = IF read.index < 1 THEN 1 ELSE @,
               !.pos = IF read.index < 1 /\ read.pos # 0 THEN 0 ELSE @,
               !.rev = read.rev + 1]
Seen == [index |-> room.index, pos |-> room.pos, rev |-> room.rev]

AddSong(item) ==
  /\ Open /\ Len(room.queue) < MaxQueue /\ item \in NewItems
  /\ Commit(Added(item, Seen))

\* an add that has to ask a federated peer about the song first
AddAsked ==
  /\ Open /\ adding = NoAdd
  /\ adding' = Seen
  /\ UNCHANGED <<room, up>>

AddAnswered(item) ==
  /\ up /\ adding # NoAdd /\ Len(room.queue) < MaxQueue /\ item \in NewItems
  /\ room' = Normalized(Added(item, adding))
  /\ adding' = NoAdd
  /\ UNCHANGED up

AddRefused ==
  /\ up /\ adding # NoAdd
  /\ adding' = NoAdd
  /\ UNCHANGED <<room, up>>

\* the queue positions that stay when the items with these ids go
Stay(r, ids) == {k \in DOMAIN r.queue : r.queue[k].id \notin ids}
Rank(K, k) == Cardinality({j \in K : j <= k})
Kept(r, ids) == LET K == Stay(r, ids)
                IN  [n \in 1..Cardinality(K) |-> r.queue[CHOOSE k \in K : Rank(K, k) = n]]

(* _remove_queue_items: the current song keeps its place, or its successor  *)
(* in the queue takes over, or the room has no current song.                *)
Removed(r, ids) ==
  LET K == Stay(r, ids)
      left == [r EXCEPT !.queue = Kept(r, ids)]
      idle == Halt([left EXCEPT !.index = 0, !.pos = 0])
  IN  Bump(IF K = {} THEN idle
           ELSE IF HasCurrent(r)
             THEN IF r.index \in K THEN [left EXCEPT !.index = Rank(K, r.index)]
                  ELSE IF \E k \in K : k > r.index THEN Jump(left, Rank(K, r.index) + 1)
                  ELSE idle
           ELSE IF r.index > Len(r.queue) THEN idle
           ELSE left)

RemoveItem(id) ==
  /\ Open /\ \E k \in DOMAIN room.queue : room.queue[k].id = id
  /\ Commit(Removed(room, {id}))

(* remove_track_from_queues, when a track is deleted from the library: no   *)
(* broadcast follows                                                        *)
TrackDeleted(song) ==
  /\ Open
  /\ LET ids == {room.queue[k].id : k \in {k \in DOMAIN room.queue : room.queue[k].song = song}}
     IN  ids # {} /\ room' = Removed(room, ids)
  /\ UNCHANGED <<adding, up>>
-----------------------------------------------------------------------------
(* The clock, presence and restarts. *)

\* a clock tick, a broadcast or a room detail request
ClockTick == up /\ Commit(room) /\ room' # room

(* pause_room, when the last listener is gone *)
Paused(r) == IF r.status \in Active THEN Bump(Halt([r EXCEPT !.pos = Effective(r)])) ELSE r
PauseRoom == up /\ room.status \in Active /\ room' = Paused(room) /\ UNCHANGED <<adding, up>>

Crash == up /\ up' = FALSE /\ adding' = NoAdd /\ UNCHANGED room

(* startup, pause_all_rooms *)
Restart == ~up /\ up' = TRUE /\ room' = Paused(room) /\ UNCHANGED adding

TimePasses ==
  /\ room.since # Never /\ room.since < MaxLag /\ room.pos + room.since < MaxPos
  /\ room' = [room EXCEPT !.since = @ + 1]
  /\ UNCHANGED <<adding, up>>

PlayInit == room = NewRoom /\ adding = NoAdd /\ up = TRUE

PlayCommand ==
  \/ Play \/ Pause \/ NextSong \/ PreviousSong
  \/ \E p \in 0..MaxPos : Seek(p)
  \/ \E id \in 1..MaxItem : (\E o \in BOOLEAN : SongEnded(id, o)) \/ Ready(id) \/ RemoveItem(id)
  \/ \E item \in Items : AddSong(item) \/ AddAnswered(item)
  \/ AddAsked \/ AddRefused
  \/ \E song \in Songs : TrackDeleted(song)

PlayNext == PlayCommand \/ ClockTick \/ PauseRoom \/ Crash \/ Restart \/ TimePasses

PlaySpec == PlayInit /\ [][PlayNext]_playVars
-----------------------------------------------------------------------------
(* Type correctness. *)
PlayTypeOK ==
  /\ room \in Rooms
  /\ adding \in [index : Nat, pos : Nat, rev : Nat] \cup {NoAdd}
  /\ up \in BOOLEAN

Consistent(r) ==
  /\ r.index <= Len(r.queue)
  /\ r.status \in Active => r.index >= 1
  /\ r.since = Never <=> r.status # "playing"
  /\ r.since >= Never
  /\ r.index = 0 => r.pos = 0

(* "the room's current-track invariant" (_remove_queue_items): the index    *)
(* is the position of a queue item or the queue has no current song, a room *)
(* that plays or loads has one, and the clock runs exactly while it plays.  *)
(* Holds across every order of queue edits, commands, clock ticks, late     *)
(* adds and restarts.                                                       *)
PlaybackConsistent == Consistent(room)

Plays(id) == room.status = "playing" /\ HasCurrent(room) /\ Current(room).id = id

(* "Resetting playback_started_at here would discard elapsed server time    *)
(* and rewind every listener" (control_room): while one item keeps playing, *)
(* no command, repeated or not, no edit of the queue and no broadcast moves *)
(* the clock back; only a seek does.                                        *)
NoRewind ==
  [][\A id \in 1..MaxItem :
       Plays(id) /\ Plays(id)' =>
         Effective(room)' >= Effective(room) \/ \E p \in 0..MaxPos : Seek(p)]_playVars

(* Adding songs and removing others leave the song that plays, and its      *)
(* clock, alone, unless that song is just over.  The exception is an add    *)
(* that found the room without a current song before it awaited a peer.     *)
EditsKeepSong ==
  [][\A id \in 1..MaxItem :
       /\ Plays(id) /\ Ended(room) = {}
       /\ room'.queue # room.queue
       /\ \E k \in DOMAIN room'.queue : room'.queue[k].id = id
       => \/ Plays(id)' /\ Effective(room)' = Effective(room)
          \/ adding # NoAdd /\ adding.index = 0]_playVars

(* The clock ticks every two seconds, time passes, and a dead concierge is  *)
(* restarted.                                                               *)
PlayFairness == WF_playVars(ClockTick) /\ WF_playVars(TimePasses) /\ WF_playVars(Restart)
PlayFairSpec == PlaySpec /\ PlayFairness

(* A song whose length the server knows comes to its end, whatever else is  *)
(* broadcast, added or reported meanwhile: normalization loses no time.     *)
SongEnds ==
  \A id \in 1..MaxItem :
    Plays(id) /\ Duration(room, room.index) > 0 ~> ~Plays(id)
=============================================================================
