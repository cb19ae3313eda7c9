------------------------------ MODULE PartyRoom ------------------------------
(***************************************************************************)
(* A party room as its listeners meet it: the playback of PartyPlayback,   *)
(* commanded by the members that PartyHub counts (routers/music/party.py). *)
(* The last one to leave stops the music; the room can be deleted and its  *)
(* id given to a new one while a request for the old one waits for a peer. *)
(***************************************************************************)
EXTENDS PartyPlayback, PartyHub

CONSTANT GuestsQueue   \* allow_guests_queue

ASSUME GuestsAssumption == GuestsQueue \in BOOLEAN

VARIABLE owner   \* owner_id

roomVars == <<playVars, hubVars, owner>>

(* require_membership: the caller is signed in, or relayed, and is_member *)
Admitted(u) == up /\ exists /\ Caller(u) /\ u \in Members
HostAway == owner \notin Members
MayAdd(u) == Admitted(u) /\ (u = owner \/ GuestsQueue)
Idle == UNCHANGED <<hubVars, owner>>
-----------------------------------------------------------------------------
(* control_playback and remove_queue_track, by the owner *)
HostCommands ==
  /\ Admitted(owner) /\ Idle
  /\ \/ Play \/ Pause \/ NextSong \/ PreviousSong
     \/ \E p \in 0..MaxPos : Seek(p)
     \/ \E id \in 1..MaxItem : SongEnded(id, TRUE) \/ Ready(id) \/ RemoveItem(id)

(* A guest's player may report that a song ended or is ready while the      *)
(* owner is away.                                                           *)
GuestReports(u) ==
  /\ u # owner /\ Admitted(u) /\ HostAway /\ Idle
  /\ \E id \in 1..MaxItem : SongEnded(id, FALSE) \/ Ready(id)

(* add_queue_track, with the wait for a federated peer *)
Adds(u) == MayAdd(u) /\ Idle /\ \E item \in Items : AddSong(item)

AsksPeer(u) == MayAdd(u) /\ AddAsked /\ Idle

(* The session still holds the room it read before the wait; the insert and *)
(* the update go to whatever row has the id now.                            *)
PeerAnswers == exists /\ Idle /\ \E item \in Items : AddAnswered(item)
AddFails == Idle /\ AddRefused
-----------------------------------------------------------------------------
(* Joining and leaving. *)
Arrives(u) ==
  /\ up /\ (Join(u) \/ \E t \in Tabs : Subscribe(u, t))
  /\ UNCHANGED <<playVars, owner>>

TabCloses(u) ==
  /\ up /\ \E t \in Tabs : Unsubscribe(u, t)
  /\ UNCHANGED <<playVars, owner>>

(* The last member takes the music with it: _finish_leave and               *)
(* _expire_reservation call pause_room, which does nothing when the row is  *)
(* gone.                                                                    *)
PauseIfEmpty ==
  /\ room' = IF exists /\ Empty' THEN Paused(room) ELSE room
  /\ UNCHANGED <<adding, up, owner>>

\* mutant: a place that was reserved and never used is just dropped
PlaceDropped(u) ==
  /\ up /\ (FinishLeave(u) \/ ExpireReservation(u))
  /\ IF u \in users THEN PauseIfEmpty ELSE UNCHANGED <<playVars, owner>>

PlaceGivenUp(u) == up /\ (FinishLeave(u) \/ ExpireReservation(u)) /\ PauseIfEmpty
-----------------------------------------------------------------------------
(* The room and the process. *)
Created(u) ==
  /\ up /\ u \in accounts /\ Create
  /\ room' = NewRoom /\ owner' = u
  /\ UNCHANGED <<adding, up>>

RowGone == room' = NewRoom /\ UNCHANGED <<adding, up, owner>>
Deleted == up /\ owner \in accounts /\ Delete /\ RowGone

AccountDeleted(u) ==
  /\ up /\ DeleteAccount(u, exists /\ u = owner)
  /\ IF exists /\ u = owner THEN RowGone ELSE UNCHANGED <<playVars, owner>>

(* party_clock_tick looks at the rooms that have a key in _connections *)
Tick == known /\ exists /\ ClockTick /\ Idle
LibraryShrinks == up /\ exists /\ Idle /\ \E song \in Songs : TrackDeleted(song)
Time == exists /\ TimePasses /\ Idle

Dies == Crash /\ Forget /\ UNCHANGED owner
Starts == Restart /\ Idle

RoomInit == PlayInit /\ HubInit /\ owner \in accounts

RoomNext ==
  \/ HostCommands
  \/ \E u \in Users : \/ GuestReports(u) \/ Adds(u) \/ AsksPeer(u) \/ Arrives(u) \/ TabCloses(u)
                      \/ PlaceGivenUp(u) \/ Created(u) \/ AccountDeleted(u)
  \/ PeerAnswers \/ AddFails \/ Deleted \/ Tick \/ LibraryShrinks \/ Time \/ Dies \/ Starts

RoomSpec == RoomInit /\ [][RoomNext]_roomVars

(* Leave tasks and reservations run out, and a dead concierge is restarted. *)
RoomFairSpec ==
  RoomSpec /\ WF_roomVars(Starts) /\ \A u \in Users : WF_roomVars(PlaceGivenUp(u))
-----------------------------------------------------------------------------
(* "Music stops when the last listener disconnects" (PARTY-ROOMS.md:66):    *)
(* while the process is up, no room plays or loads for nobody, whatever the *)
(* order of commands, late reports, leave tasks, deletions and restarts.    *)
PlaysForSomebody == up /\ exists /\ room.status \in Active => ~Empty

(* ... and the clock ticks for each room that plays, so that it moves on to *)
(* the next song (party_clock_tick).                                        *)
PlayingIsTicked == up /\ exists /\ room.status = "playing" => known

Expected == reserved # {} \/ \E u \in Users : Live(u)

(* "Music stops when the last listener disconnects", as a promise: once     *)
(* nobody listens or has a place reserved, the room is paused unless        *)
(* somebody comes back.                                                     *)
MusicStops ==
  (exists /\ room.status \in Active /\ ~Expected) ~> (~exists \/ room.status = "paused" \/ Expected)
=============================================================================
