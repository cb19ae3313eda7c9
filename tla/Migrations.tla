----------------------------- MODULE Migrations -----------------------------
(***************************************************************************)
(* The schema migrations of ops_core.py: the ordered list MIGRATIONS and   *)
(* apply_schema_migrations, which every start of the concierge runs and    *)
(* which the updater runs in the middle of an update.                      *)
(*                                                                         *)
(* sqlite3 opens a transaction before the first INSERT, UPDATE or DELETE   *)
(* only: what a run executes before it is durable statement by statement,  *)
(* everything after it becomes durable together, at the end of the run.    *)
(* Two processes may run at once, and either may die between any two       *)
(* statements.                                                             *)
(*                                                                         *)
(* A database is the set of its columns (a table is there when its "id"    *)
(* is), the values some rows hold, the tables that cascade from another,   *)
(* and the numbers of the migrations it has on record.  Of a table only    *)
(* the columns are named that a later statement reads, adds or indexes.    *)
(***************************************************************************)
EXTENDS Naturals, Sequences, FiniteSets

CONSTANTS Starters,    \* processes that migrate when they start, and are started again
          Updaters,    \* processes that migrate when an administrator asks for an update
          Knows,       \* how many of the migrations the code of each one has
          Past,        \* databases that the first process may find
          Rows,        \* rows of the tables that some migration rebuilds
          MaxCrashes   \* bound: deaths of a process

Runners == Starters \union Updaters
Newest == 38

VARIABLES disk, run, crashes
migrationVars == <<disk, run, crashes>>

ListedIn(names) == {names[i] : i \in DOMAIN names}

(* Tables: the columns that each one has had since it was created.         *)

RequestColumns == {"user_id", "track_id", "status", "requested_at"}
QueueColumns == {"room_id", "track_id", "position"}
ItemColumns == {"playlist_id", "track_id", "position"}
FederatedColumns == <<"federated_track_id", "remote_instance_id", "remote_playlist_id",
                      "remote_item_id", "remote_metadata_json">>

Columns ==
  [users |-> {"username"},
   download_settings |-> {"lastfm_api_key", "lastfm_shared_secret", "youtube_cookies",
                          "metadata_preferences"},
   tracks |-> {"duration", "filepath", "source_id", "file_hash", "source_provider", "created_at"},
   download_jobs |-> {"user_id", "status", "created_at", "target_modern_playlist_id",
                      "resolved_track_id"},
   token_blacklist |-> {"token"},
   user_favorites |-> {"user_id", "track_id"},
   playlists |-> {"is_public", "source_playlist_id", "cover_path", "cover_track_id"},
   playlist_items |-> ItemColumns,
   playlist_items_federated |-> ItemColumns \union ListedIn(FederatedColumns),
   system_settings |-> {"autobackup_enabled", "autobackup_hour", "autobackup_minute",
                        "autobackup_timezone"},
   admin_jobs |-> {"job_type", "status"},
   playback_queue_states |-> {"user_id"},
   track_delete_requests |-> RequestColumns,
   track_delete_requests_v2 |-> RequestColumns \union {"user_seen_at"},
   federated_tracks |-> {"instance_id", "remote_id", "title_norm", "artist_norm"},
   party_rooms |-> {"owner_id"},
   party_rooms_v2 |-> {"owner_id", "admits_loading"},
   party_room_queue_items |-> QueueColumns,
   party_room_queue_items_v2 |-> QueueColumns]

Base(t) == {"id"} \union (IF t \in DOMAIN Columns THEN Columns[t] ELSE {})

(* Statements.                                                             *)

Statement(op, t, cols, to) == [op |-> op, table |-> t, cols |-> cols, to |-> to]

CreateIf(t, more)      == Statement("create", t, Base(t) \union more, "none")
CreateChild(t, more, parent) == Statement("create", t, Base(t) \union more, parent)
CreateNew(t, parent)   == Statement("createnew", t, Base(t), parent)
Add(t, c)              == Statement("add", t, {c}, "none")
Index(t, cols)         == Statement("index", t, cols, "none")
Trigger(name)          == CreateIf(name, {})
DropIf(t)              == Statement("dropif", t, {}, "none")
Drop(t)                == Statement("drop", t, {}, "none")
Rename(t, to)          == Statement("rename", t, {}, to)
Copy(t, to)            == Statement("copy", t, {}, to)
CopyColumn(t, c, to)   == Statement("copycolumn", t, {c}, to)
DropColumn(t, c)       == Statement("dropcolumn", t, {c}, "none")
RenameColumn(t, c, to) == Statement("renamecolumn", t, {c}, to)
Adopt                  == Statement("adopt", "playlists", {}, "none")
Update(t)              == Statement("update", t, {}, "none")
Register(n)            == Statement("register", "schema_migrations", {n}, "none")
Skip                   == Statement("skip", "none", {}, "none")   \* the migration finds nothing to do

\* INSERT, UPDATE and DELETE open a transaction; the rest does not.
IsWrite(s) == s.op \in {"copy", "copycolumn", "adopt", "update", "register"}

Exists(db, t) == <<t, "id">> \in db.cols
Has(db, t, c) == <<t, c>> \in db.cols

\* A second record of a migration violates the UNIQUE constraint on its name.
RecordedTwiceIgnored(db, s) == FALSE
RecordedTwice(db, s) == s.op = "register" /\ s.cols \subseteq db.names

\* What SQLite refuses.
Refused(db, s) ==
  CASE s.op = "createnew" -> Exists(db, s.table)
    [] s.op = "add" -> ~Exists(db, s.table) \/ \E c \in s.cols : Has(db, s.table, c)
    [] s.op \in {"index", "dropcolumn"} -> \E c \in s.cols : ~Has(db, s.table, c)
    [] s.op \in {"drop", "update"} -> ~Exists(db, s.table)
    [] s.op = "rename" -> ~Exists(db, s.table) \/ Exists(db, s.to)
    [] s.op = "copy" -> ~Exists(db, s.table) \/ ~Exists(db, s.to)
    [] s.op \in {"copycolumn", "renamecolumn"} ->
         \/ \E c \in s.cols : ~Has(db, s.table, c)
         \/ s.op = "copycolumn" /\ ~Has(db, s.table, s.to)
         \/ s.op = "renamecolumn" /\ Has(db, s.table, s.to)
    [] s.op = "adopt" -> ~Exists(db, "user_playlists") \/ ~Exists(db, "playlists")
    [] OTHER -> RecordedTwice(db, s)

\* A dropped table takes along the rows that cascade from its own.
Dropped(db, t) ==
  [db EXCEPT !.cols = {c \in @ : c[1] # t},
             !.cells = {d \in @ : d[1] # t /\ <<d[1], t>> \notin db.refs},
             !.refs = {r \in @ : r[1] # t}]

Executed(db, s) ==
  LET renamed(t) == IF t = s.table THEN s.to ELSE t
      inColumn(d) == d[1] = s.table /\ d[2] \in s.cols
  IN
  CASE s.op \in {"create", "createnew"} ->
         IF Exists(db, s.table) THEN db
         ELSE [db EXCEPT !.cols = @ \union ({s.table} \X s.cols),
                         !.refs = @ \union (IF s.to = "none" THEN {} ELSE {<<s.table, s.to>>})]
    [] s.op = "add" -> [db EXCEPT !.cols = @ \union ({s.table} \X s.cols)]
    [] s.op \in {"drop", "dropif"} -> Dropped(db, s.table)
    [] s.op = "rename" ->
         [db EXCEPT !.cols = {<<renamed(c[1]), c[2]>> : c \in @},
                    !.cells = {<<renamed(d[1]), d[2], d[3]>> : d \in @},
                    !.refs = {<<renamed(r[1]), renamed(r[2])>> : r \in @}]
    [] s.op = "copy" ->
         [db EXCEPT !.cells = @ \union {<<s.to, d[2], d[3]>> : d \in {x \in @ : x[1] = s.table}}]
    [] s.op = "copycolumn" ->
         [db EXCEPT !.cells = @ \union {<<d[1], s.to, d[3]>> : d \in {x \in @ : inColumn(x)}}]
    [] s.op = "dropcolumn" ->
         [db EXCEPT !.cols = @ \ ({s.table} \X s.cols), !.cells = {d \in @ : ~inColumn(d)}]
    [] s.op = "renamecolumn" ->
         [db EXCEPT !.cols = (@ \ ({s.table} \X s.cols)) \union {<<s.table, s.to>>},
                    !.cells = {IF inColumn(d) THEN <<d[1], s.to, d[3]>> ELSE d : d \in @}]
    [] s.op = "adopt" ->
         [db EXCEPT !.cells = @ \union {<<"playlists", d[2], d[3]>> :
                                         d \in {x \in @ : x[1] = "user_playlists"}}]
    [] s.op = "register" -> [db EXCEPT !.names = @ \union s.cols]
    [] OTHER -> db

MissingUnchecked(db, t, names) == [i \in DOMAIN names |-> Add(t, names[i])]

\* ALTER TABLE ... ADD COLUMN for the columns that PRAGMA table_info does not show.
Missing(db, t, names) ==
  [i \in DOMAIN names |-> IF Has(db, t, names[i]) THEN Skip ELSE Add(t, names[i])]

-----------------------------------------------------------------------------
(* The migrations: the statements each one executes when it finds the      *)
(* database db.                                                            *)

M000(db) ==
  << CreateIf("users", {}), Index("users", {"username"}), CreateIf("download_settings", {}),
     CreateIf("tracks", {}), Index("tracks", {"filepath", "source_id", "file_hash"}),
     CreateIf("user_playlists", {}), CreateIf("playlist_tracks", {}), CreateIf("download_jobs", {}),
     CreateIf("token_blacklist", {}), Index("token_blacklist", {"token"}) >>

M001(db) == Missing(db, "tracks", <<"duration", "filepath", "source_id", "file_hash",
                                    "source_provider">>)

M002(db) == << CreateIf("user_favorites", {}),
               Index("user_favorites", {"user_id", "track_id"}) >>

M003(db) == Missing(db, "download_settings", <<"lastfm_api_key", "lastfm_shared_secret",
                                               "youtube_cookies", "metadata_preferences">>)

M004(db) ==
  << CreateIf("playlists", {}), CreateIf("playlist_items", {"track_id_not_null"}) >>
  \o (IF Exists(db, "playlists")
      THEN Missing(db, "playlists", <<"is_public", "source_playlist_id">>) ELSE <<>>)

M005(db) ==
  << CreateIf("system_settings", {}) >>
  \o (IF Exists(db, "system_settings")
      THEN Missing(db, "system_settings", <<"autobackup_enabled", "autobackup_hour",
                                            "autobackup_minute", "autobackup_timezone">>)
      ELSE <<>>)

M006(db) ==
  << CreateIf("admin_jobs", {}), Index("admin_jobs", {"job_type", "status"}),
     CreateIf("admin_operation_locks", {}), CreateIf("backup_artifacts", {}) >>

M007(db) == Missing(db, "system_settings", <<"autobackup_timezone">>)

M008(db) == Missing(db, "system_settings", <<"update_state_json">>)

\* The full-text table and its triggers.  A statement that fails, for whatever reason, ends them
\* after the first `done`, and the migration goes on record all the same.
FullText == << CreateIf("tracks_fts", {}), Trigger("tracks_ai"), Trigger("tracks_ad"),
               Trigger("tracks_au"), Update("tracks_fts") >>
Attempts == 0..5
M009(done) == SubSeq(FullText, 1, done)

M010(db) == Missing(db, "playlists", <<"cover_path", "cover_track_id">>)

M011(db) ==
  Missing(db, "tracks", <<"artist_norm", "title_norm", "version_tag", "fingerprint">>)
  \o << Index("tracks", {"artist_norm", "title_norm", "version_tag", "fingerprint"}) >>

M012(db) == Missing(db, "download_jobs", <<"requested_title", "requested_source">>)

M013(db) ==
  Missing(db, "download_jobs", <<"target_modern_playlist_id">>)
  \o (IF \E d \in db.cells : d[1] = "user_playlists" THEN <<Adopt>> ELSE <<>>)

\* An index is created where its table has the columns.
M014(db) ==
  LET wanted == << Index("tracks", {"created_at"}),
                   Index("tracks", {"artist_norm", "title_norm", "fingerprint"}),
                   Index("tracks", {"source_provider", "created_at"}),
                   Index("playlist_items", {"playlist_id"}), Index("playlist_items", {"track_id"}),
                   Index("playlist_items", {"playlist_id", "position"}),
                   Index("download_jobs", {"user_id", "created_at"}),
                   Index("download_jobs", {"status", "created_at"}),
                   Index("user_favorites", {"user_id", "track_id"}) >>
  IN  [i \in DOMAIN wanted |-> IF ({wanted[i].table} \X wanted[i].cols) \subseteq db.cols
                               THEN wanted[i] ELSE Skip]

M015(db) ==
  (IF Exists(db, "download_jobs")
   THEN Missing(db, "download_jobs",
                <<"original_input_url", "requested_artist", "requested_album", "resolution_mode",
                  "resolved_title", "resolved_artist", "resolved_album", "resolved_track_id",
                  "resolved_track_count", "engine_used", "fallback_reason", "error_type">>)
        \o << Index("download_jobs", {"resolved_track_id", "engine_used", "error_type"}) >>
   ELSE <<>>)
  \o << CreateIf("playback_queue_states", {}),
        Index("playback_queue_states", {"user_id"}) >>

M016(db) ==
  << CreateIf("system_settings", {"update_state_json"}) >>
  \o Missing(db, "system_settings", <<"wrapped_enabled", "wrapped_visible_from",
                                      "wrapped_visible_until", "wrapped_artist_clip_message">>)

M017(db) == << CreateIf("track_delete_requests", {}),
               Index("track_delete_requests", RequestColumns) >>

\* PRAGMA foreign_keys=OFF has no effect in a transaction; nothing cascades from this table.
M018(db) ==
  LET indexes == << Index("track_delete_requests", RequestColumns \union {"user_seen_at"}) >>
  IN  IF ~Exists(db, "track_delete_requests") THEN <<>>
      ELSE IF /\ ~Has(db, "track_delete_requests", "track_id_not_null")
              /\ Has(db, "track_delete_requests", "user_seen_at") THEN indexes
      ELSE << DropIf("track_delete_requests_v2"),
              CreateNew("track_delete_requests_v2", "none"),
              Copy("track_delete_requests", "track_delete_requests_v2"),
              Drop("track_delete_requests"),
              Rename("track_delete_requests_v2", "track_delete_requests") >> \o indexes

M019(db) ==
  Missing(db, "users", <<"is_service_account">>)
  \o << CreateIf("federated_instances", {}),
        CreateIf("federated_tracks", {}),
        Index("federated_tracks", {"instance_id", "remote_id", "title_norm", "artist_norm"}) >>

M020(db) == << CreateIf("federation_outbound_peers", {}) >>

M021(db) == Missing(db, "federation_outbound_peers", <<"token_prefix">>)
            \o << Index("federation_outbound_peers", {"token_prefix"}) >>

M022(db) == Missing(db, "tracks", <<"genre", "year", "metadata_scanned_at">>)
            \o << Index("tracks", {"genre", "year"}) >>
            \o Missing(db, "playlists", <<"smart_rules_json", "smart_updated_at">>)

M023(db) == Missing(db, "users", <<"session_version">>)

M024(db) ==
  << CreateIf("party_rooms", {"admits_loading"}), Index("party_rooms", {"owner_id"}),
     CreateChild("party_room_queue_items", {}, "party_rooms"),
     Index("party_room_queue_items", QueueColumns) >>

\* The new queue refers to the new rooms: dropping the old ones must not cascade to it.
QueueParentKept == "party_rooms"
QueueParent == "party_rooms_v2"

\* Older releases created party_rooms with a CHECK that does not admit "loading".
M025(db) ==
  IF ~Exists(db, "party_rooms") \/ Has(db, "party_rooms", "admits_loading") THEN <<>>
  ELSE << DropIf("party_room_queue_items_v2"), DropIf("party_rooms_v2"),
          CreateNew("party_rooms_v2", "none"),
          Copy("party_rooms", "party_rooms_v2"),
          CreateNew("party_room_queue_items_v2", QueueParent),
          Copy("party_room_queue_items", "party_room_queue_items_v2"),
          Drop("party_room_queue_items"), Drop("party_rooms"),
          Rename("party_rooms_v2", "party_rooms"),
          Rename("party_room_queue_items_v2", "party_room_queue_items"),
          Index("party_rooms", {"owner_id"}), Index("party_room_queue_items", QueueColumns) >>

M026(db) == Missing(db, "tracks", <<"gain_db", "peak", "loudness_measured_at">>)

M027(db) == Missing(db, "playback_queue_states", <<"volume">>)

M028(db) == Missing(db, "system_settings", <<"downloader_mode">>)

M029(db) == << Trigger("trg_playlist_clear_download_jobs"), Trigger("trg_track_cleanup_references") >>

M030(db) == Missing(db, "playlists", <<"is_collaborative", "revision">>)
            \o << CreateIf("playlist_collaborators", {}) >>

M031(db) ==
  Missing(db, "party_rooms", <<"is_federated">>)
  \o Missing(db, "party_room_queue_items",
             <<"fed_instance_id", "fed_remote_id", "remote_title", "remote_artist", "remote_album",
               "remote_duration", "remote_thumbnail">>)
  \o << CreateChild("party_room_federated_peers", {}, "party_rooms") >>

M032(db) == Missing(db, "playlists", <<"kind">>) \o Missing(db, "download_jobs", <<"target_position">>)

\* The triggers that name playlist_items are dropped before it and created again after.
ItemTriggers == <<"trg_playlist_clear_download_jobs", "trg_track_cleanup_references">>

M033(db) ==
  Missing(db, "playlists", <<"source_instance_id", "source_remote_playlist_id">>)
  \o Missing(db, "playlist_items", FederatedColumns)
  \o (IF ~Has(db, "playlist_items", "track_id_not_null") THEN <<>>
      ELSE LET IfThere(i, s) == IF Exists(db, ItemTriggers[i]) THEN s ELSE Skip
           IN  << CreateNew("playlist_items_federated", "none"),
                  Copy("playlist_items", "playlist_items_federated"),
                  IfThere(1, Drop(ItemTriggers[1])), IfThere(2, Drop(ItemTriggers[2])),
                  Drop("playlist_items"), Rename("playlist_items_federated", "playlist_items"),
                  Index("playlist_items", ItemColumns),
                  IfThere(1, Trigger(ItemTriggers[1])), IfThere(2, Trigger(ItemTriggers[2])) >>)
  \o << CreateIf("federated_playlist_collaborators", {}) >>

M034(db) == Missing(db, "users", <<"theme">>)

M035(db) ==
  Missing(db, "users", <<"theme_next">>)
  \o (IF Has(db, "users", "theme")
      THEN << CopyColumn("users", "theme", "theme_next"), DropColumn("users", "theme") >>
      ELSE <<>>)
  \o << RenameColumn("users", "theme_next", "theme") >>

M036(db) == << CreateIf("native_collection_operations", {}) >>

M037(db) ==
  Missing(db, "users", <<"native_account_id">>)
  \o (IF \E d \in db.cells : d[1] = "users" THEN <<Update("users")>> ELSE <<>>)
  \o << Index("users", {"native_account_id"}) >>

MIGRATIONS(db, done) ==
  << M000(db), M001(db), M002(db), M003(db), M004(db), M005(db), M006(db), M007(db), M008(db),
     M009(done), M010(db), M011(db), M012(db), M013(db), M014(db), M015(db), M016(db), M017(db),
     M018(db), M019(db), M020(db), M021(db), M022(db), M023(db), M024(db), M025(db), M026(db),
     M027(db), M028(db), M029(db), M030(db), M031(db), M032(db), M033(db), M034(db), M035(db),
     M036(db), M037(db) >>

-----------------------------------------------------------------------------
(* Databases.                                                              *)

Table(t) == {t} \X Base(t)
Tables(T) == UNION {Table(t) : t \in T}
Fields(t, names) == {t} \X names

(* What each migration promises: that the tables and columns are there     *)
(* which the concierge reads once the migration is on record.  009 passes  *)
(* over its failures and promises nothing: the full-text search may be     *)
(* missing, or be half there.                                              *)
Promises ==
  << Tables({"users", "download_settings", "tracks", "user_playlists", "playlist_tracks",
             "download_jobs", "token_blacklist"}),
     Fields("tracks", {"duration", "filepath", "source_id", "file_hash", "source_provider"}),
     Table("user_favorites"),
     Fields("download_settings", {"lastfm_api_key", "lastfm_shared_secret", "youtube_cookies",
                                  "metadata_preferences"}),
     Tables({"playlists", "playlist_items"}),
     Table("system_settings"),
     Tables({"admin_jobs", "admin_operation_locks", "backup_artifacts"}),
     Fields("system_settings", {"autobackup_timezone"}),
     Fields("system_settings", {"update_state_json"}),
     {},
     Fields("playlists", {"cover_path", "cover_track_id"}),
     Fields("tracks", {"artist_norm", "title_norm", "version_tag", "fingerprint"}),
     Fields("download_jobs", {"requested_title", "requested_source"}),
     Fields("download_jobs", {"target_modern_playlist_id"}),
     {},
     Table("playback_queue_states")
       \union Fields("download_jobs",
                {"original_input_url", "requested_artist", "requested_album", "resolution_mode",
                 "resolved_title", "resolved_artist", "resolved_album", "resolved_track_id",
                 "resolved_track_count", "engine_used", "fallback_reason", "error_type"}),
     Fields("system_settings", {"wrapped_enabled", "wrapped_visible_from", "wrapped_visible_until",
                                "wrapped_artist_clip_message"}),
     Table("track_delete_requests"),
     Fields("track_delete_requests", {"user_seen_at"}),
     Fields("users", {"is_service_account"}) \union Tables({"federated_instances", "federated_tracks"}),
     Table("federation_outbound_peers"),
     Fields("federation_outbound_peers", {"token_prefix"}),
     Fields("tracks", {"genre", "year", "metadata_scanned_at"})
       \union Fields("playlists", {"smart_rules_json", "smart_updated_at"}),
     Fields("users", {"session_version"}),
     Tables({"party_rooms", "party_room_queue_items"}),
     Fields("party_rooms", {"admits_loading"}),
     Fields("tracks", {"gain_db", "peak", "loudness_measured_at"}),
     Fields("playback_queue_states", {"volume"}),
     Fields("system_settings", {"downloader_mode"}),
     Tables({"trg_playlist_clear_download_jobs", "trg_track_cleanup_references"}),
     Fields("playlists", {"is_collaborative", "revision"}) \union Table("playlist_collaborators"),
     Fields("party_rooms", {"is_federated"}) \union Table("party_room_federated_peers")
       \union Fields("party_room_queue_items",
                {"fed_instance_id", "fed_remote_id", "remote_title", "remote_artist",
                 "remote_album", "remote_duration", "remote_thumbnail"}),
     Fields("playlists", {"kind"}) \union Fields("download_jobs", {"target_position"}),
     Fields("playlists", {"source_instance_id", "source_remote_playlist_id"})
       \union Fields("playlist_items", ListedIn(FederatedColumns))
       \union Table("federated_playlist_collaborators"),
     Fields("users", {"theme"}), Fields("users", {"theme"}),
     Table("native_collection_operations"),
     Fields("users", {"native_account_id"}) >>

IsDatabase(db) ==
  /\ db = [cols |-> db.cols, cells |-> db.cells, refs |-> db.refs, names |-> db.names]
  /\ \A c \in db.cols \union db.refs : c = <<c[1], c[2]>>
  /\ \A d \in db.cells : d = <<d[1], d[2], d[3]>> /\ d[3] \in Rows
  /\ db.names \subseteq 1..Newest

(* A database is sound when its migrations on record are the first ones    *)
(* and have been applied, its tables have the columns they were created    *)
(* with, and nothing cascades from a table but what belongs to a room.     *)
Applied(db) == \A n \in db.names : Promises[n] \subseteq db.cols
Based(db) == \A c \in db.cols : c[2] = "id" => Table(c[1]) \subseteq db.cols
Sound(db) ==
  /\ IsDatabase(db)
  /\ \E n \in 0..Newest : db.names = 1..n
  /\ Applied(db) /\ Based(db)
  /\ db.refs \subseteq {"party_room_queue_items", "party_room_federated_peers"} \X {"party_rooms"}

ASSUME MigrationsAssumption ==
  /\ Knows \in [Runners -> 1..Newest]
  /\ \A db \in Past : Sound(db)
  /\ MaxCrashes \in Nat

-----------------------------------------------------------------------------
(* apply_schema_migrations, run by several processes.                      *)

Blank == [cols |-> {}, cells |-> {}, refs |-> {}, names |-> {}]
Idle(pc) == [pc |-> pc, applied |-> {}, next |-> 1, todo |-> <<>>, txn |-> FALSE, work |-> Blank]

MigrationsInit ==
  /\ disk \in Past
  /\ run = [r \in Runners |-> Idle("down")]
  /\ crashes = 0

\* What a statement of r reads: its own transaction's work, or the committed database.
View(r) == IF run[r].txn THEN run[r].work ELSE disk

Locked(r) == \E o \in Runners \ {r} : run[o].txn

\* _ensure_schema_migrations_table, then the names on record are read once.
Begin(r) ==
  /\ run[r].pc = "down"
  /\ run' = [run EXCEPT ![r] = [Idle("run") EXCEPT !.applied = disk.names]]
  /\ UNCHANGED <<disk, crashes>>

Unapplied(r) == {n \in run[r].next..Knows[r] : n \notin run[r].applied}

\* The next migration reads the schema and settles on its statements; its name is recorded after.
Prepare(r) ==
  /\ run[r].pc = "run" /\ run[r].todo = <<>> /\ Unapplied(r) # {}
  /\ LET n == CHOOSE m \in Unapplied(r) : \A k \in Unapplied(r) : m <= k
     IN  \E done \in Attempts :
           run' = [run EXCEPT ![r].todo = MIGRATIONS(View(r), done)[n] \o <<Register(n)>>,
                              ![r].next = n + 1]
  /\ UNCHANGED <<disk, crashes>>

\* A statement waits for another process's transaction; a refused one ends the run.
Execute(r) ==
  /\ run[r].pc = "run" /\ run[r].todo # <<>>
  /\ run[r].txn \/ ~Locked(r)
  /\ LET s == Head(run[r].todo)
         txn == run[r].txn \/ IsWrite(s)
         after == Executed(View(r), s)
     IN  IF Refused(View(r), s)
         THEN /\ run' = [run EXCEPT ![r] = Idle("failed")]
              /\ UNCHANGED disk
         ELSE /\ run' = [run EXCEPT ![r].todo = Tail(@), ![r].txn = txn,
                                    ![r].work = IF txn THEN after ELSE Blank]
              /\ disk' = IF txn THEN disk ELSE after
  /\ UNCHANGED crashes

Commit(r) ==
  /\ run[r].pc = "run" /\ run[r].todo = <<>> /\ Unapplied(r) = {}
  /\ disk' = View(r)
  /\ run' = [run EXCEPT ![r] = Idle("up")]
  /\ UNCHANGED crashes

\* What an open transaction did is rolled back.
Crash(r) ==
  /\ crashes < MaxCrashes
  /\ run[r].pc \in {"run", "up"}
  /\ run' = [run EXCEPT ![r] = Idle("failed")]
  /\ crashes' = crashes + 1
  /\ UNCHANGED disk

\* Docker starts a service that has exited again; a failed update job is not taken up again.
Restart(r) ==
  /\ r \in Starters
  /\ run[r].pc = "failed"
  /\ run' = [run EXCEPT ![r] = Idle("down")]
  /\ UNCHANGED <<disk, crashes>>

Advance(r) == Prepare(r) \/ Execute(r) \/ Commit(r) \/ Restart(r)

MigrationsNext == \E r \in Runners : Begin(r) \/ Advance(r) \/ Crash(r)

\* A process that runs goes on and a service is started; no update need ever be asked for.
MigrationsSpec ==
        /\ MigrationsInit /\ [][MigrationsNext]_migrationVars
        /\ \A r \in Runners : WF_migrationVars(Advance(r))
        /\ \A r \in Starters : WF_migrationVars(Begin(r))

-----------------------------------------------------------------------------
(* Properties.                                                             *)

\* A migration on record has been applied: whatever was interrupted, rolled back or run twice
\* by two processes, a database that names a migration has every column it adds, but for 009,
\* which goes on record though its statements failed.
RecordedIsApplied == Applied(disk)

\* The tables, and the column, that migrations rebuild.
Valued == {<<"playlist_items", "id">>, <<"party_rooms", "id">>, <<"party_room_queue_items", "id">>,
           <<"track_delete_requests", "id">>, <<"user_playlists", "id">>, <<"users", "theme">>}

\* No row and no preference is lost when a table or a column is rebuilt: what the committed
\* database holds in one of these tables stays in it, whatever is interrupted or done twice.
RowsSurvive ==
  [][{d \in disk.cells : <<d[1], d[2]>> \in Valued} \subseteq disk'.cells]_migrationVars

\* The one interruption no restart gets over: migration 033 creates its new table before it
\* opens its transaction, and creates it without IF NOT EXISTS.
Wedged == /\ Exists(disk, "playlist_items_federated")
          /\ Has(disk, "playlist_items", "track_id_not_null")

\* However its starts are interrupted, and whatever an update does beside it, a service comes
\* up in the end with the schema it knows, unless the database is wedged.
StartsSucceed == \A r \in Starters : <>(run[r].pc = "up" \/ Wedged)
=============================================================================
