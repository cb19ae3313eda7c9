-------------------------- MODULE MCPartyPlayback --------------------------
(* A song of two units and one whose length the server does not know. *)
EXTENDS PartyPlayback

MCLength == [s \in {"short", "live"} |-> IF s = "short" THEN 2 ELSE 0]
MCSeed == <<[id |-> 1, song |-> "short"]>>
=============================================================================
