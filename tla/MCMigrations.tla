---------------------------- MODULE MCMigrations ----------------------------
(* Migrations checked by TLC: the concierge, and an updater with older code, *)
(* from the databases that past releases have left.                          *)
EXTENDS Migrations, SequencesExt

CONSTANT Releases   \* how many migrations the releases had that are started from

MCKnows == [r \in Runners |-> IF r \in Starters THEN 38 ELSE 30]

\* Migration n run to its end on the database db, with no failure passed over.
Migrated(db, n) == FoldLeft(Executed, db, MIGRATIONS(db, Len(FullText))[n] \o <<Register(n)>>)

\* The database after the first n migrations.
After[n \in 0..Newest] ==
  IF n = 0 THEN Executed(Blank, CreateIf("schema_migrations", {}))
  ELSE CHOOSE after \in {Migrated(db, n) : db \in {After[n - 1]}} : TRUE

Filled(db) == [db EXCEPT !.cells = {<<c[1], c[2], r>> : c \in Valued \intersect db.cols, r \in Rows}]

\* A database left by release n, or by a release 24 whose rooms do not admit "loading".
Left(n, db) ==
  {Filled(db)} \union
  (IF n = 25 THEN {Filled([db EXCEPT !.cols = @ \ {<<"party_rooms", "admits_loading">>}])} ELSE {})

MCPast == UNION {Left(n, After[n]) : n \in Releases}

(* The promises leave nothing out that the migrations create, but for the full-text search. *)
Markers == {<<"playlist_items", "track_id_not_null">>, <<"party_rooms", "admits_loading">>,
            <<"schema_migrations", "id">>}
           \union Tables({"tracks_fts", "tracks_ai", "tracks_ad", "tracks_au"})
ASSUME PromisesAreComplete ==
  \A n \in 0..Newest : After[n].cols \ Markers = UNION {Promises[k] : k \in 1..n} \ Markers
=============================================================================
