------------------------------ MODULE Accounts ------------------------------
(***************************************************************************)
(* One user name: the account behind it, its sessions and its Navidrome    *)
(* container (auth.py, main.py, manager.py, reaper.py, and the account     *)
(* handlers of routers/admin.py and routers/user.py).                      *)
(*                                                                         *)
(* Handlers that are async def run on the event loop, and are one action   *)
(* as long as they do not await.  Logging in and the Subsonic interface    *)
(* verify a password in a thread and go on with the row they read before.  *)
(* Finding the container of a user blocks the loop, and so does deleting   *)
(* an account; logging out, the reaper and downloads run in threads, and   *)
(* may come between any two steps of either.                               *)
(*                                                                         *)
(* Time is counted in days for sessions; half an hour of idleness and the  *)
(* five minutes of the address cache are events.  Attempt limits, admin    *)
(* rights and service accounts are left out.                               *)
(***************************************************************************)
EXTENDS Naturals

CONSTANTS Remember,      \* days a remembered session lasts (REMEMBER_SESSION_DAYS)
          Ordinary,      \* days an ordinary one lasts
          Addresses,     \* what Docker may give the container
          MaxLogins,     \* bound: sessions
          MaxAccounts,   \* bound: accounts that have had the name
          MaxPasswords,  \* bound: passwords set
          MaxIncidents,  \* bound: reaps, restarts, failures, background calls
          None

ASSUME AccountsAssumption ==
  /\ Remember \in Nat \ {0} /\ Ordinary \in 1..Remember
  /\ MaxLogins \in Nat /\ MaxAccounts \in Nat /\ MaxPasswords \in Nat /\ MaxIncidents \in Nat
  /\ None \notin Nat \cup {"purge", "record"}
  /\ None \notin [id : Nat, sv : Nat, pw : Nat]
  /\ None \notin [id : Nat, sv : Nat, pw : Nat, left : Nat]
  /\ None \notin [typed : Nat, seen : [id : Nat, sv : Nat, pw : Nat]]

VARIABLES
  account,    \* the row of the user: None, or its identity, session version and password
  created,    \* how many accounts have had this name
  passwords,  \* how many passwords have been set: a password is the number of its setting
  tokens,     \* the session tokens: what each says, the password it cost, its days left
  revoked,    \* the rows of token_blacklist: None, or their age in days
  logins,     \* logins that wait for the verification of their password
  out,        \* the logout under way: None, or its token and where it is
  home,       \* the user's directories exist
  container,  \* None, or whether it runs and its address
  cache,      \* ip_cache: None, or the address and whether it is older than five minutes
  recent,     \* last_access is less than half an hour old
  deleting,   \* the deletion under way: None, or what is its next step
  exporting,  \* a download thread of the user has yet to export its list
  reaping,    \* the reaper has found the user idle and has not stopped the container yet
  client,     \* the request a client makes of the gateway
  spawn,      \* the call of get_or_spawn_container under way: it blocks the loop
  chore,      \* a call of Navidrome a handler has left to the background
  incidents   \* history: how many of them so far

\* History of what happened, read by the properties only.
VARIABLES
  loggedOut,  \* tokens whose logout was confirmed
  rewritten   \* a download has made the directories again that a deletion under way had purged

sessions == <<account, created, passwords, tokens, revoked, logins, loggedOut>>
containers == <<home, container, cache, recent, reaping, rewritten>>
requests == <<client, spawn, chore, exporting, deleting>>
vars == <<sessions, out, containers, requests, incidents>>

Logins == 1..MaxLogins
KeepADay == Ordinary
Keep == Remember + 1
Idle == [by |-> None, at |-> "idle", typed |-> None, seen |-> None, ip |-> None]
Player == 0          \* a Subsonic player: no session, the password with every request

Init ==
  /\ account = None /\ created = 0 /\ passwords = 0
  /\ tokens = [n \in Logins |-> None] /\ revoked = [n \in Logins |-> None]
  /\ logins = [n \in Logins |-> None]
  /\ loggedOut = {} /\ out = None
  /\ home = FALSE /\ container = None /\ cache = None
  /\ recent = FALSE /\ reaping = FALSE /\ rewritten = FALSE
  /\ client = Idle /\ spawn = None /\ chore = FALSE
  /\ deleting = None /\ exporting = FALSE
  /\ incidents = 0

\* mutant: an account is deleted in a thread
LoopFreeToDelete == spawn = None

\* Nothing else of the event loop runs while a container is looked for or an account deleted.
LoopFree == spawn = None /\ deleting = None

Incident == incidents < MaxIncidents /\ incidents' = incidents + 1

\* get_current_user and verify_token: neither expired nor revoked, and of this account.
Valid(n) ==
  /\ tokens[n] # None /\ tokens[n].left > 0
  /\ revoked[n] = None
  /\ account # None
  /\ tokens[n].id = account.id
  /\ tokens[n].sv = account.sv

-----------------------------------------------------------------------------
(* The administrator's and the user's changes of the account.              *)

\* create_user_in_db; the session version is drawn at random.
NewAccount == \E sv \in 1..2 : account' = [id |-> created + 1, sv |-> sv, pw |-> passwords + 1]

\* provision_user_env: an error is only logged.
Provisions == \/ home' = TRUE /\ UNCHANGED incidents
              \/ Incident /\ UNCHANGED home

CreateUser ==
  /\ LoopFree /\ account = None
  /\ created < MaxAccounts /\ passwords < MaxPasswords
  /\ NewAccount
  /\ created' = created + 1 /\ passwords' = passwords + 1
  /\ recent' = TRUE
  /\ Provisions
  /\ UNCHANGED <<tokens, revoked, logins, loggedOut, out, container, cache, reaping, rewritten,
                 requests>>

NewPassword ==
  /\ passwords < MaxPasswords
  /\ passwords' = passwords + 1
  /\ account' = [id |-> account.id, sv |-> account.sv + 1, pw |-> passwords + 1]
  /\ recent' = TRUE
  /\ UNCHANGED <<created, tokens, revoked, logins, loggedOut, out, home, container, cache,
                 reaping, rewritten, requests, incidents>>

\* The form asks for the current password too.
ChangePassword(n, current) ==
  /\ LoopFree /\ Valid(n) /\ current = account.pw
  /\ NewPassword

ResetPassword ==
  /\ LoopFree /\ account # None
  /\ NewPassword

\* delete_user: container, directories, row, each only when the one before is gone.
Deleting(from, to) == deleting = from /\ deleting' = to

DeleteContainer ==
  /\ LoopFree /\ account # None
  /\ \/ Deleting(None, "purge") /\ container' = None /\ cache' = None /\ UNCHANGED incidents
     \/ Incident /\ UNCHANGED <<deleting, container, cache>>         \* docker rm failed
  /\ UNCHANGED <<sessions, out, home, recent, reaping, rewritten, client, spawn, chore, exporting>>

DeleteHome ==
  /\ \/ Deleting("purge", "record") /\ home' = FALSE /\ UNCHANGED incidents
     \/ Deleting("purge", None) /\ home' \in {home, FALSE} /\ Incident
  /\ rewritten' = FALSE
  /\ UNCHANGED <<sessions, out, container, cache, recent, reaping, client, spawn, chore, exporting>>

DeleteRow ==
  /\ Deleting("record", None)
  /\ \/ account' = None /\ UNCHANGED incidents
     \/ Incident /\ UNCHANGED account                                \* the commit failed
  /\ rewritten' = FALSE
  /\ UNCHANGED <<created, passwords, tokens, revoked, logins, loggedOut, out, home, container, cache,
                 recent, reaping, client, spawn, chore, exporting>>

DeleteUser == DeleteContainer \/ DeleteHome \/ DeleteRow

-----------------------------------------------------------------------------
(* Sessions.                                                               *)

\* session_expiry: remembered, or not.
SessionDays == {Remember, Ordinary}

\* verify_password, against the row that was read.
Verified(typed, seen) == seen # None /\ typed = seen.pw

LoginReads(n, typed) ==
  /\ LoopFree
  /\ tokens[n] = None /\ logins[n] = None
  /\ \A k \in 1..n-1 : logins[k] # None \/ tokens[k] # None
  /\ account # None
  /\ logins' = [logins EXCEPT ![n] = [typed |-> typed, seen |-> account]]
  /\ UNCHANGED <<account, created, passwords, tokens, revoked, loggedOut, out, containers,
                 requests, incidents>>

LoginEndsWith(n, row) ==
  /\ LoopFree /\ logins[n] # None
  /\ logins' = [logins EXCEPT ![n] = None]
  /\ IF Verified(logins[n].typed, logins[n].seen)
     THEN \E days \in SessionDays :
            tokens' = [tokens EXCEPT ![n] = [id |-> row.id, sv |-> row.sv,
                                             pw |-> logins[n].typed, left |-> days]]
     ELSE UNCHANGED tokens
  /\ UNCHANGED <<account, created, passwords, revoked, loggedOut, out, containers, requests,
                 incidents>>

LoginEndsFresh(n) == LoginEndsWith(n, IF account = None THEN logins[n].seen ELSE account)

\* The token is minted from the row as it was when the password was looked up.
LoginEnds(n) == LoginEndsWith(n, logins[n].seen)

LogoutChecks(n) ==
  /\ out = None /\ Valid(n)
  /\ out' = [n |-> n, at |-> "checked"]
  /\ UNCHANGED <<sessions, containers, requests, incidents>>

LogoutRevokes ==
  /\ out # None /\ out.at = "checked"
  /\ \/ /\ revoked' = [revoked EXCEPT ![out.n] = IF @ = None THEN 0 ELSE @]
        /\ loggedOut' = loggedOut \union {out.n}
        /\ out' = [out EXCEPT !.at = "revoked"]
        /\ UNCHANGED incidents
     \/ /\ Incident                                     \* 503: the session stays
        /\ out' = None
        /\ UNCHANGED <<revoked, loggedOut>>
  /\ UNCHANGED <<account, created, passwords, tokens, logins, containers, requests>>

\* stop_user_container: look it up and stop it, then remove it.
LogoutStops ==
  /\ out # None /\ out.at = "revoked"
  /\ IF container = None
     THEN out' = None /\ UNCHANGED container
     ELSE /\ container' = [container EXCEPT !.running = FALSE]
          /\ out' = [out EXCEPT !.at = "stopped"]
  /\ UNCHANGED <<sessions, home, cache, recent, reaping, rewritten, requests, incidents>>

\* Docker refuses to remove one that has been started again.
LogoutRemoves ==
  /\ out # None /\ out.at = "stopped"
  /\ out' = None
  /\ IF container # None /\ ~container.running
     THEN container' = None /\ cache' = None
     ELSE UNCHANGED <<container, cache>>
  /\ UNCHANGED <<sessions, home, recent, reaping, rewritten, requests, incidents>>

\* prune_token_blacklist
Prune ==
  /\ \E n \in Logins : revoked[n] # None /\ revoked[n] > Keep
  /\ revoked' = [n \in Logins |-> IF revoked[n] # None /\ revoked[n] > Keep THEN None
                                  ELSE revoked[n]]
  /\ UNCHANGED <<account, created, passwords, tokens, logins, loggedOut, out, containers,
                 requests, incidents>>

Day ==
  /\ \E n \in Logins : tokens[n] # None /\ (tokens[n].left > 0 \/ revoked[n] # None)
  /\ tokens' = [n \in Logins |-> IF tokens[n] = None \/ tokens[n].left = 0 THEN tokens[n]
                                 ELSE [tokens[n] EXCEPT !.left = @ - 1]]
  /\ revoked' = [n \in Logins |-> IF revoked[n] = None \/ revoked[n] > Keep THEN revoked[n]
                                  ELSE revoked[n] + 1]
  /\ UNCHANGED <<account, created, passwords, logins, loggedOut, out, containers, requests,
                 incidents>>

-----------------------------------------------------------------------------
(* The gateway: a browser brings its session, a player the password.       *)

\* Somebody opens the player, and will ask again until it works or it is turned away.
Wants(by, typed) ==
  /\ client = Idle
  /\ client' = [Idle EXCEPT !.by = by, !.typed = typed]
  /\ UNCHANGED <<sessions, out, containers, spawn, chore, exporting, deleting, incidents>>

AskWithSession ==
  /\ LoopFree
  /\ client.by \in Logins /\ client.at = "idle"
  /\ IF Valid(client.by)
     THEN /\ client' = [client EXCEPT !.at = "spawning"]
          /\ spawn' = [who |-> "client", at |-> "looking"]
     ELSE client' = Idle /\ UNCHANGED spawn              \* sent to /login
  /\ UNCHANGED <<sessions, out, containers, chore, exporting, deleting, incidents>>

AskWithPassword ==
  /\ LoopFree
  /\ client.by = Player /\ client.at = "idle"
  /\ client' = [client EXCEPT !.at = "verifying", !.seen = account]
  /\ UNCHANGED <<sessions, out, containers, spawn, chore, exporting, deleting, incidents>>

PasswordVerified ==
  /\ LoopFree /\ client.at = "verifying"
  /\ IF Verified(client.typed, client.seen)
     THEN /\ client' = [client EXCEPT !.at = "spawning", !.seen = None]
          /\ spawn' = [who |-> "client", at |-> "looking"]
     ELSE client' = Idle /\ UNCHANGED spawn              \* 403
  /\ UNCHANGED <<sessions, out, containers, chore, exporting, deleting, incidents>>

\* The address get_or_spawn_container found may be of a container that has stopped since.
Send ==
  /\ LoopFree /\ client.at = "sending"
  /\ IF container # None /\ container.running /\ container.ip = client.ip
     THEN client' = Idle /\ recent' = TRUE
     ELSE client' = [client EXCEPT !.at = "idle", !.ip = None] /\ UNCHANGED recent    \* 502
  /\ UNCHANGED <<sessions, out, home, container, cache, reaping, rewritten, spawn, chore,
                 exporting, deleting, incidents>>

\* The handler of a favorite leaves the call of Navidrome to the background; it goes on with
\* the row of its handler, whatever has become of the account.
LeaveChore ==
  /\ LoopFree /\ account # None /\ ~chore
  /\ Incident
  /\ chore' = TRUE
  /\ UNCHANGED <<sessions, out, containers, client, spawn, exporting, deleting>>

RunChore ==
  /\ LoopFree /\ chore
  /\ chore' = FALSE
  /\ spawn' = [who |-> "chore", at |-> "looking"]
  /\ UNCHANGED <<sessions, out, containers, client, exporting, deleting, incidents>>

\* A download runs in a thread of its own, and exports the list it has filled: the directories
\* are made again where they are missing (generate_m3u_for_playlist).
StartDownload ==
  /\ LoopFree /\ account # None /\ ~exporting
  /\ Incident
  /\ exporting' = TRUE
  /\ UNCHANGED <<sessions, out, containers, client, spawn, chore, deleting>>

ExportList ==
  /\ exporting
  /\ exporting' = FALSE
  /\ home' = TRUE /\ rewritten' = (deleting = "record")
  /\ UNCHANGED <<sessions, out, container, cache, recent, reaping, client, spawn, chore, deleting,
                 incidents>>

-----------------------------------------------------------------------------
(* get_or_spawn_container                                                  *)

Returns(ip) ==
  /\ spawn' = None
  /\ client' = IF spawn.who = "client" THEN [client EXCEPT !.at = "sending", !.ip = ip] ELSE client

SpawnFails ==
  /\ spawn' = None
  /\ client' = IF spawn.who = "client" THEN [client EXCEPT !.at = "idle"] ELSE client

SpawnLooksWith(fresh) ==
  /\ spawn # None /\ spawn.at = "looking"
  /\ IF fresh /\ container # None
     THEN Returns(cache.ip) /\ UNCHANGED cache
     ELSE /\ spawn' = [spawn EXCEPT !.at = IF container = None THEN "creating"
                                           ELSE IF container.running THEN "waiting" ELSE "starting"]
          /\ cache' = IF fresh THEN None ELSE cache
          /\ UNCHANGED client
  /\ UNCHANGED <<sessions, out, home, container, recent, reaping, rewritten, chore, exporting,
                 deleting, incidents>>

SpawnLooksAgeless == SpawnLooksWith(cache # None)

\* A cached address younger than five minutes is good as long as the container exists.
SpawnLooks == SpawnLooksWith(cache # None /\ ~cache.old)

\* It may have been removed by a logout meanwhile, and is then created.
SpawnStarts ==
  /\ spawn # None /\ spawn.at = "starting"
  /\ IF container = None
     THEN spawn' = [spawn EXCEPT !.at = "creating"] /\ UNCHANGED container
     ELSE /\ \E ip \in Addresses : container' = [running |-> TRUE, ip |-> ip]
          /\ spawn' = [spawn EXCEPT !.at = "waiting"]
  /\ UNCHANGED <<sessions, out, home, cache, recent, reaping, rewritten, client, chore, exporting,
                 deleting, incidents>>

\* docker run makes the directories it mounts.
SpawnCreates ==
  /\ spawn # None /\ spawn.at = "creating"
  /\ \E ip \in Addresses : container' = [running |-> TRUE, ip |-> ip]
  /\ home' = TRUE
  /\ spawn' = [spawn EXCEPT !.at = "waiting"]
  /\ UNCHANGED <<sessions, out, cache, recent, reaping, rewritten, client, chore, exporting, deleting,
                 incidents>>

\* Only a container that runs accepts connections (wait_for_port).
Accepts == container # None /\ container.running

\* It answers, it does not within 15 seconds, or Docker has it no longer.
SpawnWaits ==
  /\ spawn # None /\ spawn.at = "waiting"
  /\ \/ /\ Accepts
        /\ cache' = [ip |-> container.ip, old |-> FALSE]
        /\ Returns(container.ip)
        /\ UNCHANGED incidents
     \/ /\ Accepts
        /\ Incident
        /\ SpawnFails /\ UNCHANGED cache
     \/ /\ ~Accepts
        /\ SpawnFails /\ UNCHANGED <<cache, incidents>>
  /\ UNCHANGED <<sessions, out, home, container, recent, reaping, rewritten, chore, exporting,
                 deleting>>

\* Docker cannot start or create the container.
SpawnRefused ==
  /\ spawn # None /\ spawn.at \in {"starting", "creating"}
  /\ Incident
  /\ SpawnFails
  /\ UNCHANGED <<sessions, out, containers, chore, exporting, deleting>>

-----------------------------------------------------------------------------
(* Time, the reaper and restarts.                                          *)

CacheAges ==
  /\ cache # None /\ ~cache.old
  /\ cache' = [cache EXCEPT !.old = TRUE]
  /\ UNCHANGED <<sessions, out, home, container, recent, reaping, rewritten, requests, incidents>>

\* Half an hour without a request: an address cached by the last one is old by then.
GrowsIdle ==
  /\ recent /\ (cache # None => cache.old) /\ client.at # "sending"
  /\ recent' = FALSE
  /\ UNCHANGED <<sessions, out, home, container, cache, reaping, rewritten, requests, incidents>>

ReaperReads ==
  /\ account # None /\ ~recent /\ ~reaping
  /\ Incident
  /\ reaping' = TRUE
  /\ UNCHANGED <<sessions, out, home, container, cache, recent, rewritten, requests>>

\* is_player_active asks the container; an error, or no answer, is a no.
PlayerActive == IF container # None /\ container.running THEN BOOLEAN ELSE {FALSE}

\* It stops a container that plays nothing, as far as it can tell.
ReaperStops ==
  /\ reaping
  /\ reaping' = FALSE
  /\ \E active \in PlayerActive :
       container' = IF active \/ container = None THEN container
                    ELSE [container EXCEPT !.running = FALSE]
  /\ UNCHANGED <<sessions, out, home, cache, recent, rewritten, requests, incidents>>

Restart ==
  /\ Incident
  /\ logins' = [n \in Logins |-> None]
  /\ out' = None /\ reaping' = FALSE
  /\ cache' = None /\ spawn' = None /\ chore' = FALSE
  /\ deleting' = None /\ exporting' = FALSE /\ rewritten' = FALSE
  /\ client' = [client EXCEPT !.at = "idle", !.seen = None, !.ip = None]
  /\ UNCHANGED <<account, created, passwords, tokens, revoked, loggedOut, home, container, recent>>

Next ==
  \/ CreateUser \/ ResetPassword \/ DeleteUser
  \/ \E n \in Logins :
       \/ \E typed \in 1..passwords : LoginReads(n, typed) \/ ChangePassword(n, typed)
       \/ LoginEnds(n) \/ LogoutChecks(n) \/ Wants(n, None)
  \/ LogoutRevokes \/ LogoutStops \/ LogoutRemoves \/ Prune \/ Day
  \/ \E typed \in 1..passwords : Wants(Player, typed)
  \/ AskWithSession \/ AskWithPassword \/ PasswordVerified \/ Send
  \/ LeaveChore \/ RunChore \/ StartDownload \/ ExportList
  \/ SpawnLooks \/ SpawnStarts \/ SpawnCreates \/ SpawnWaits \/ SpawnRefused
  \/ CacheAges \/ GrowsIdle \/ ReaperReads \/ ReaperStops \/ Restart

\* Threads and the loop go on, time passes, and a client that is not answered asks again.
Fairness ==
  /\ WF_vars(AskWithSession) /\ WF_vars(AskWithPassword) /\ WF_vars(PasswordVerified)
  /\ WF_vars(Send) /\ WF_vars(RunChore) /\ WF_vars(DeleteHome) /\ WF_vars(DeleteRow)
  /\ WF_vars(SpawnLooks) /\ WF_vars(SpawnStarts) /\ WF_vars(SpawnCreates) /\ WF_vars(SpawnWaits)
  /\ WF_vars(CacheAges)
  /\ WF_vars(LogoutRevokes) /\ WF_vars(LogoutStops) /\ WF_vars(LogoutRemoves)
  /\ WF_vars(ReaperStops)

Spec == Init /\ [][Next]_vars /\ Fairness

-----------------------------------------------------------------------------
(* Properties.                                                             *)

Account == [id : 1..MaxAccounts, sv : Nat, pw : 1..MaxPasswords]
Container == [running : BOOLEAN, ip : Addresses]
TypeOK ==
  /\ account \in Account \union {None}
  /\ created \in 0..MaxAccounts /\ passwords \in 0..MaxPasswords
  /\ tokens \in [Logins -> [id : 1..MaxAccounts, sv : Nat, pw : 1..MaxPasswords,
                            left : 0..Remember] \union {None}]
  /\ revoked \in [Logins -> 0..Keep + 1 \union {None}]
  /\ logins \in [Logins -> [typed : 1..MaxPasswords, seen : Account] \union {None}]
  /\ loggedOut \subseteq Logins
  /\ out \in [n : Logins, at : {"checked", "revoked", "stopped"}] \union {None}
  /\ chore \in BOOLEAN /\ home \in BOOLEAN /\ recent \in BOOLEAN
  /\ reaping \in BOOLEAN /\ rewritten \in BOOLEAN
  /\ exporting \in BOOLEAN /\ deleting \in {None, "purge", "record"}
  /\ container \in Container \union {None}
  /\ cache \in [ip : Addresses, old : BOOLEAN] \union {None}
  /\ incidents \in 0..MaxIncidents

\* A session that works was paid for with the password the account has now: changing it ends
\* every session of before, and a login that was being verified meanwhile yields none.
SessionsKnowPassword == \A n \in Logins : Valid(n) => tokens[n].pw = account.pw

\* A session that was logged out never works again, however long it was made to last and
\* whenever the blacklist is pruned.
LoggedOutStaysOut == \A n \in loggedOut : ~Valid(n)

\* "Do not delete DB state if the user container remains alive": from the removal of the
\* container to the commit no request, background call, logout or reaper brings it back, and the
\* directories are there then only if a download made them again (delete_user).
RowGoesLast ==
  [][account # None /\ account' = None => container = None /\ (home => rewritten)]_vars

\* Who keeps asking for the player gets it or is turned away: no reaper, logout, restart or
\* address gone stale stands in between for good.
AskerIsServed == (client # Idle) ~> (client = Idle)
=============================================================================
