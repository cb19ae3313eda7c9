----------------------------- MODULE MCSongPool -----------------------------
(* Two songs with one file name: one is asked for by its link, and either   *)
(* may be what a title finds.  Of the engines of a Spotify link there are   *)
(* two.                                                                     *)
EXTENDS SongPool, TLC

CONSTANTS a, b, c, part, name

MCNameOf == (a :> name) @@ (b :> name)
MCAsks ==
  {[source |-> a, songs |-> {a}, titled |-> FALSE, engines |-> <<"auth", "query">>],
   [source |-> "local", songs |-> {a, b}, titled |-> TRUE, engines |-> <<"worker">>]}
=============================================================================
