----------------------------- MODULE MCPartyRoom -----------------------------
(* Small instances of a party room with its listeners. *)
EXTENDS PartyRoom

MCLength == [s \in Songs |-> 1]
MCSeed == <<[id |-> 1, song |-> CHOOSE s \in Songs : TRUE]>>
==============================================================================
