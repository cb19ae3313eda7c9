------------------------------ MODULE Presence ------------------------------
(***************************************************************************)
(* What a party room promises the people it lets in: never more places     *)
(* than it has, a place for everybody who listens, and a place that is     *)
(* kept for who has just stopped listening until it is given up.  How      *)
(* streams, reservations and timers bring that about is PartyHub.          *)
(***************************************************************************)
EXTENDS Naturals, FiniteSets

CONSTANTS Users, MaxUsers

VARIABLES places,      \* who has a place
          listening    \* who is connected

vars == <<places, listening>>

Init == places = {} /\ listening = {}

Free == Cardinality(places) < MaxUsers

\* a place is promised to somebody who has yet to connect
Promise(u) == u \notin places /\ Free /\ places' = places \cup {u} /\ UNCHANGED listening

Listen(u) ==
  /\ u \in places \/ Free
  /\ places' = places \cup {u} /\ listening' = listening \cup {u}

\* the place stays
Stop(u) == listening' = listening \ {u} /\ UNCHANGED places

Release(u) == u \in places \ listening /\ places' = places \ {u} /\ UNCHANGED listening

\* the room is closed, or the process ends
Clear == places' = {} /\ listening' = {}

Next == Clear \/ \E u \in Users : Promise(u) \/ Listen(u) \/ Stop(u) \/ Release(u)

Spec == Init /\ [][Next]_vars
=============================================================================
