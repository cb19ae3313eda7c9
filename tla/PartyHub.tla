------------------------------- MODULE PartyHub -------------------------------
(***************************************************************************)
(* Who listens to one party room id (class PartyHub in party_service.py).  *)
(*                                                                         *)
(* A listener joins (POST, which reserves a place), then opens an event    *)
(* stream per browser tab.  When the last tab of a listener goes, a leave  *)
(* task gives the place up after a grace period.  All of it is in the      *)
(* memory of the process; only the room row is persistent.  No method of   *)
(* the hub suspends while it holds the lock, and each handler reads the    *)
(* row and calls the hub without yielding, so a handler is one step.       *)
(*                                                                         *)
(* SQLite hands the id of a deleted room out again: a room that is created *)
(* here is one that gets this id.                                          *)
(***************************************************************************)
EXTENDS Integers, FiniteSets

CONSTANTS Users, Tabs,
          Peers,      \* those of the users whose account is on another instance
          MaxUsers    \* the room's max_users

ASSUME HubAssumption == MaxUsers \in Nat /\ IsFiniteSet(Users) /\ Peers \subseteq Users

VARIABLES exists,    \* the row is in party_rooms
          accounts,  \* users with an account here that is not deleted
          closed,    \* the id is in _closed_rooms
          known,     \* the id is a key of _connections: the clock ticks for it
          users,     \* the keys of _connections[id]
          tab,       \* event streams: their queue is live, or an orphan that the hub forgot
          leaving,   \* users with a task in _leave_tasks
          reserved   \* users with a task in _reservations

hubVars == <<exists, accounts, closed, known, users, tab, leaving, reserved>>
memory == <<known, users, tab, leaving, reserved>>

Live(u) == \E t \in Tabs : tab[u][t] = "live"
Members == users \cup reserved         \* is_member
Empty == users = {} /\ reserved = {}
Full(u) == u \notin Members /\ Cardinality(users) + Cardinality(reserved) >= MaxUsers

(* Guests of another instance come through its relay (remote_room), which   *)
(* keeps nothing: a request that gets lost there is one that is not made    *)
(* here, an answer that gets lost changes nothing.  federation_party checks *)
(* token and invitation each time (refused is not made, again) and hands    *)
(* what arrives to the handlers of the room, under a name of its own.       *)
Relayed(u) == u \in Peers
Caller(u) == u \in accounts \/ Relayed(u)
Serves(u) == exists /\ ~closed /\ Caller(u)
NoTabs == [u \in Users |-> [t \in Tabs |-> "closed"]]

HubInit ==
  /\ exists = TRUE /\ accounts = Users \ Peers /\ closed = FALSE /\ known = FALSE
  /\ users = {} /\ leaving = {} /\ reserved = {}
  /\ tab = NoTabs
-----------------------------------------------------------------------------
(* reserve: a listener who is still in the grace period gets no reservation *)
(* of its own.                                                              *)
Join(u) ==
  /\ Serves(u) /\ ~Full(u)
  /\ known' = TRUE
  /\ reserved' = IF u \in users THEN reserved ELSE reserved \cup {u}
  /\ UNCHANGED <<exists, accounts, closed, users, tab, leaving>>

\* mutant: the places held for others are not counted
AdmitsUnreserved(u) == u \in users \/ Cardinality(users) < MaxUsers

Admits(u) == u \in users \/ Cardinality(users) + Cardinality(reserved \ {u}) < MaxUsers

(* subscribe: the reservation, if any, is used up *)
Subscribe(u, t) ==
  /\ Serves(u) /\ tab[u][t] = "closed" /\ Admits(u)
  /\ known' = TRUE
  /\ users' = users \cup {u}
  /\ tab' = [tab EXCEPT ![u][t] = "live"]
  /\ leaving' = leaving \ {u}
  /\ reserved' = reserved \ {u}
  /\ UNCHANGED <<exists, accounts, closed>>

(* unsubscribe, when the stream's generator ends.  The stream of a room     *)
(* that was deleted ends late: its queue is in no set any more.             *)
Unsubscribe(u, t) ==
  /\ tab[u][t] # "closed"
  /\ tab' = [tab EXCEPT ![u][t] = "closed"]
  /\ leaving' = IF u \in users /\ ~Live(u)' THEN leaving \cup {u} ELSE leaving
  /\ UNCHANGED <<exists, accounts, closed, known, users, reserved>>

\* mutant: the name goes, the entry in _connections stays
FinishLeaveKeeps(u) ==
  /\ u \in leaving /\ ~Live(u)
  /\ leaving' = leaving \ {u}
  /\ UNCHANGED <<exists, accounts, closed, known, users, tab, reserved>>

\* mutant: a reservation does not keep the room alive
FinishLeaveLast(u) ==
  /\ u \in leaving /\ ~Live(u)
  /\ leaving' = leaving \ {u}
  /\ users' = users \ {u}
  /\ UNCHANGED <<exists, accounts, closed, tab, reserved>>
  /\ known' = (known /\ users' # {})

(* _finish_leave, after leave_grace_seconds *)
FinishLeave(u) ==
  /\ u \in leaving /\ ~Live(u)
  /\ leaving' = leaving \ {u}
  /\ users' = users \ {u}
  /\ UNCHANGED <<exists, accounts, closed, tab, reserved>>
  /\ known' = (known /\ ~Empty')

(* _expire_reservation, after reservation_seconds *)
ExpireReservation(u) ==
  /\ u \in reserved
  /\ reserved' = reserved \ {u}
  /\ UNCHANGED <<exists, accounts, closed, known, users, tab, leaving>>
-----------------------------------------------------------------------------
(* create_room, then open_room *)
Create ==
  /\ ~exists /\ accounts # {}
  /\ exists' = TRUE /\ closed' = FALSE
  /\ UNCHANGED <<accounts, memory>>

(* delete_room, then close_room: the streams stay open without a queue that *)
(* the hub knows                                                            *)
Delete ==
  /\ exists
  /\ exists' = FALSE /\ closed' = TRUE /\ known' = FALSE
  /\ users' = {} /\ leaving' = {} /\ reserved' = {}
  /\ tab' = [u \in Users |-> [t \in Tabs |-> IF tab[u][t] = "closed" THEN "closed" ELSE "orphan"]]
  /\ UNCHANGED accounts

(* An administrator deletes an account.  The row of a room goes with its   *)
(* owner; the hub is not told.                                              *)
DeleteAccount(u, owns) ==
  /\ u \in accounts
  /\ owns => exists
  /\ accounts' = accounts \ {u}
  /\ exists' = (exists /\ ~owns)
  /\ UNCHANGED <<closed, memory>>

(* the process ends; the next one starts with an empty hub *)
Forget ==
  /\ known' = FALSE /\ closed' = FALSE
  /\ users' = {} /\ leaving' = {} /\ reserved' = {}
  /\ tab' = NoTabs
  /\ UNCHANGED <<exists, accounts>>

HubNext ==
  \/ \E u \in Users : \/ Join(u) \/ FinishLeave(u) \/ ExpireReservation(u)
                      \/ \E t \in Tabs : Subscribe(u, t) \/ Unsubscribe(u, t)
  \/ Create \/ Delete \/ Forget

\* one room id, with administrators who delete users
HubSpec ==
  HubInit /\ [][HubNext \/ \E u \in Users, owns \in BOOLEAN : DeleteAccount(u, owns)]_hubVars
-----------------------------------------------------------------------------
(* Type correctness. *)
HubTypeOK ==
  /\ exists \in BOOLEAN /\ closed \in BOOLEAN /\ known \in BOOLEAN
  /\ {accounts, users, leaving, reserved} \subseteq SUBSET Users
  /\ tab \in [Users -> [Tabs -> {"closed", "live", "orphan"}]]

(* "Party room is full" (reserve, subscribe): listeners, listeners in their *)
(* grace period and reserved places together never exceed the limit, and    *)
(* nobody counts twice, whatever the order of joins, streams, timers and    *)
(* deletions.                                                               *)
WithinCapacity ==
  /\ users \cap reserved = {}
  /\ Cardinality(users) + Cardinality(reserved) <= MaxUsers

(* A listener whose tabs are all gone has a task that will give its place   *)
(* up, and nobody who has a tab open has one (unsubscribe, subscribe).      *)
GraceExact == leaving = {u \in users : ~Live(u)}

(* The clock ticks for every room with a member: _connections keeps its key *)
(* (party_clock_tick).                                                      *)
MembersAreTicked == ~Empty => known

(* "Allow a newly created room to use an ID SQLite previously reused"       *)
(* (open_room): a room that exists can be joined.                           *)
RoomIsOpen == exists => ~closed

Present == INSTANCE Presence WITH places <- Members, listening <- {u \in Users : Live(u)}

(* The hub keeps what Presence promises: nobody is let in without a place   *)
(* (reserve, subscribe), and nobody who listens, or has just closed a tab   *)
(* and may be back, loses one but to the end of the grace period, of a      *)
(* reservation, of the room or of the process.                              *)
PlacesAreKept == Present!Spec
=============================================================================
