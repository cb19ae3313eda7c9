--------------------------- MODULE SongRequests ---------------------------
(***************************************************************************)
(* What the downloads promise, whatever threads, engines and files do: a   *)
(* request is worked on once, ends completed or failed and stays so, and   *)
(* it completes only when a song it asked for has been in the library.     *)
(***************************************************************************)
CONSTANTS Jobs, Songs

VARIABLES
  status,    \* of each request
  wants,     \* the songs a request asks for
  library,   \* the songs that have a row
  ever       \* the songs that have ever had one

vars == <<status, wants, library, ever>>

Statuses == {"none", "pending", "processing", "completed", "failed"}
Active == {"pending", "processing"}

Init ==
  /\ status = [j \in Jobs |-> "none"]
  /\ wants = [j \in Jobs |-> {}]
  /\ library \in SUBSET Songs
  /\ ever = library

Move(j, from, to) ==
  /\ status[j] = from
  /\ status' = [status EXCEPT ![j] = to]
  /\ UNCHANGED <<library, ever>>

Ask(j, songs) == Move(j, "none", "pending") /\ wants' = [wants EXCEPT ![j] = songs]
Begin(j) == Move(j, "pending", "processing") /\ UNCHANGED wants
Complete(j) ==
  /\ Move(j, "processing", "completed") /\ UNCHANGED wants
  /\ wants[j] \cap ever # {}
Fail(j) == (\E from \in Active : Move(j, from, "failed")) /\ UNCHANGED wants

(* The library gains the songs that are asked for, or that an administrator *)
(* imports, and loses what is deleted.                                      *)
Gain(s) == library' = library \cup {s} /\ ever' = ever \cup {s} /\ UNCHANGED <<status, wants>>
Lose(s) == library' = library \ {s} /\ UNCHANGED <<status, wants, ever>>

(* A restart fails every request that is under way.                         *)
Sweep ==
  /\ status' = [j \in Jobs |-> IF status[j] \in Active THEN "failed" ELSE status[j]]
  /\ UNCHANGED <<wants, library, ever>>

Next ==
  \/ \E j \in Jobs : Begin(j) \/ Complete(j) \/ Fail(j) \/ (\E songs \in SUBSET Songs : Ask(j, songs))
  \/ \E s \in Songs : Gain(s) \/ Lose(s)
  \/ Sweep

Spec == Init /\ [][Next]_vars
=============================================================================
