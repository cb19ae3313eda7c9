--------------------------- MODULE AccountsProofs ---------------------------
(***************************************************************************)
(* Proofs about Accounts, for any lifetimes of sessions and any numbers of *)
(* sessions, accounts and passwords.                                       *)
(***************************************************************************)
EXTENDS Accounts, TLAPS

(* The steps of the gateway, of a container under way, of time and of the   *)
(* reaper leave accounts, sessions and logouts alone.                       *)
Passing ==
  \/ \E n \in Logins : Wants(n, None)
  \/ \E typed \in 1..passwords : Wants(Player, typed)
  \/ AskWithSession \/ AskWithPassword \/ PasswordVerified \/ Send
  \/ LeaveChore \/ RunChore \/ StartDownload \/ ExportList
  \/ SpawnLooks \/ SpawnStarts \/ SpawnCreates \/ SpawnWaits \/ SpawnRefused
  \/ CacheAges \/ GrowsIdle \/ ReaperReads \/ ReaperStops

LEMMA PassingBy == Passing => UNCHANGED <<sessions, out>>
BY DEF Passing, Wants, AskWithSession, AskWithPassword, PasswordVerified, Send, LeaveChore,
       RunChore, StartDownload, ExportList, SpawnLooks, SpawnLooksWith, SpawnStarts, SpawnCreates,
       SpawnWaits, SpawnRefused, CacheAges, GrowsIdle, ReaperReads, ReaperStops

(* What a step does to accounts and sessions. *)
LEMMA Cases ==
  ASSUME Next
  PROVE  \/ Passing \/ CreateUser \/ ResetPassword \/ DeleteUser
         \/ \E n \in Logins :
              \/ \E typed \in 1..passwords : LoginReads(n, typed) \/ ChangePassword(n, typed)
              \/ LoginEnds(n) \/ LogoutChecks(n)
         \/ LogoutRevokes \/ LogoutStops \/ LogoutRemoves \/ Prune \/ Day
         \/ Restart
BY DEF Next, Passing

-----------------------------------------------------------------------------
(* Types.                                                                   *)

LEMMA Bounds ==
  /\ Remember \in Nat \ {0} /\ Ordinary \in 1..Remember /\ Keep = Remember + 1
  /\ MaxAccounts \in Nat /\ MaxPasswords \in Nat /\ MaxIncidents \in Nat
BY AccountsAssumption DEF AccountsAssumption, Keep

Token == [id : 1..MaxAccounts, sv : Nat, pw : 1..MaxPasswords, left : 0..Remember]
Login == [typed : 1..MaxPasswords, seen : Account]
Logout == [n : Logins, at : {"checked", "revoked", "stopped"}]
Cached == [ip : Addresses, old : BOOLEAN]

(* The containers, as far as TypeOK speaks of them. *)
ContainerTypes ==
  /\ chore \in BOOLEAN /\ home \in BOOLEAN /\ recent \in BOOLEAN
  /\ reaping \in BOOLEAN /\ rewritten \in BOOLEAN
  /\ exporting \in BOOLEAN /\ deleting \in {None, "purge", "record"}
  /\ container \in Container \union {None}
  /\ cache \in Cached \union {None}
  /\ incidents \in 0..MaxIncidents

SessionTypes ==
  /\ account \in Account \union {None}
  /\ created \in 0..MaxAccounts /\ passwords \in 0..MaxPasswords
  /\ tokens \in [Logins -> Token \union {None}]
  /\ revoked \in [Logins -> 0..Keep + 1 \union {None}]
  /\ logins \in [Logins -> Login \union {None}]
  /\ loggedOut \subseteq Logins
  /\ out \in Logout \union {None}

LEMMA TypeParts == TypeOK <=> SessionTypes /\ ContainerTypes
BY DEF TypeOK, SessionTypes, ContainerTypes, Token, Login, Logout, Cached

(* What the steps make of rows, tokens and containers. *)
LEMMA Made ==
  /\ \A i \in 1..MaxAccounts, v \in Nat, p \in 1..MaxPasswords : [id |-> i, sv |-> v, pw |-> p] \in Account
  /\ \A a \in Account : a.id \in 1..MaxAccounts /\ a.sv \in Nat
  /\ \A typed \in 1..MaxPasswords, a \in Account : [typed |-> typed, seen |-> a] \in Login
  /\ \A l \in Login, d \in {Remember, Ordinary} :
       [id |-> l.seen.id, sv |-> l.seen.sv, pw |-> l.typed, left |-> d] \in Token
  /\ \A t \in Token : t.left # 0 => [t EXCEPT !.left = @ - 1] \in Token
<1> USE Bounds DEF Account, Login, Token
<1>1. ASSUME NEW t \in Token, t.left # 0 PROVE [t EXCEPT !.left = @ - 1] \in Token
  <2>1. [t EXCEPT !.left = @ - 1] = [id |-> t.id, sv |-> t.sv, pw |-> t.pw, left |-> t.left - 1]
    OBVIOUS
  <2>2. t.id \in 1..MaxAccounts /\ t.sv \in Nat /\ t.pw \in 1..MaxPasswords /\ t.left \in 0..Remember
    OBVIOUS
  <2>3. t.left - 1 \in 0..Remember
    BY <1>1, <2>2
  <2> QED
    BY <2>1, <2>2, <2>3
<1>2. ASSUME NEW l \in Login, NEW d \in {Remember, Ordinary}
      PROVE  [id |-> l.seen.id, sv |-> l.seen.sv, pw |-> l.typed, left |-> d] \in Token
  OBVIOUS
<1> QED
  BY <1>1, <1>2

LEMMA Put ==
  /\ \A n \in Logins : [n |-> n, at |-> "checked"] \in Logout
  /\ \A o \in Logout : [o EXCEPT !.at = "revoked"] \in Logout /\ [o EXCEPT !.at = "stopped"] \in Logout
  /\ \A o \in Logout : o.n \in Logins
  /\ \A i \in Addresses : [running |-> TRUE, ip |-> i] \in Container
  /\ \A c \in Container : [c EXCEPT !.running = FALSE] \in Container
  /\ \A c \in Container : [ip |-> c.ip, old |-> FALSE] \in Cached
  /\ \A c \in Cached : [c EXCEPT !.old = TRUE] \in Cached
BY DEF Logout, Container, Cached

LEMMA TypeInit == Init => TypeOK
<1> SUFFICES ASSUME Init PROVE SessionTypes /\ ContainerTypes
  BY TypeParts
<1>1. SessionTypes
  BY Bounds DEF Init, SessionTypes
<1>2. ContainerTypes
  <2>1. incidents \in 0..MaxIncidents
    BY Bounds DEF Init
  <2> QED
    BY <2>1, Zenon DEF Init, ContainerTypes
<1> QED
  BY <1>1, <1>2

LEMMA SessionTypeStep == SessionTypes /\ [Next]_vars => SessionTypes'
<1> SUFFICES ASSUME SessionTypes, [Next]_vars PROVE SessionTypes'
  OBVIOUS
<1> USE DEF SessionTypes, containers, requests
<1>1. CASE UNCHANGED vars \/ Passing
  BY <1>1, PassingBy DEF vars, sessions
<1>2. CASE CreateUser
  <2>1. PICK v \in 1..2 : account' = [id |-> created + 1, sv |-> v, pw |-> passwords + 1]
    BY <1>2 DEF CreateUser, NewAccount
  <2>2. created + 1 \in 1..MaxAccounts /\ passwords + 1 \in 1..MaxPasswords /\ v \in Nat
    BY <1>2, Bounds DEF CreateUser
  <2>3. account' \in Account
    BY <2>1, <2>2, Made
  <2>4. created' \in 0..MaxAccounts /\ passwords' \in 0..MaxPasswords
    BY <1>2, <2>2 DEF CreateUser
  <2> QED
    BY <1>2, <2>3, <2>4 DEF CreateUser
<1>3. CASE ResetPassword \/ \E n \in Logins, typed \in 1..passwords : ChangePassword(n, typed)
  <2>1. NewPassword /\ account \in Account
    BY <1>3 DEF ResetPassword, ChangePassword, Valid
  <2>2. passwords + 1 \in 1..MaxPasswords
    BY <2>1, Bounds DEF NewPassword
  <2>3. account' \in Account
    <3>1. account.id \in 1..MaxAccounts /\ account.sv + 1 \in Nat
      BY <2>1, Made
    <3>2. account' = [id |-> account.id, sv |-> account.sv + 1, pw |-> passwords + 1]
      BY <2>1 DEF NewPassword
    <3> QED
      BY <2>2, <3>1, <3>2, Made
  <2>4. passwords' \in 0..MaxPasswords
    BY <2>1, <2>2 DEF NewPassword
  <2> QED
    BY <2>1, <2>3, <2>4 DEF NewPassword
<1>4. CASE DeleteUser
  BY <1>4 DEF DeleteUser, DeleteContainer, DeleteHome, DeleteRow, sessions
<1>5. ASSUME NEW n \in Logins, NEW typed \in 1..passwords, LoginReads(n, typed)
      PROVE  SessionTypes'
  <2>1. typed \in 1..MaxPasswords
    BY Bounds
  <2>2. [typed |-> typed, seen |-> account] \in Login
    BY <1>5, <2>1, Made DEF LoginReads
  <2>3. logins' \in [Logins -> Login \union {None}]
    BY <1>5, <2>2 DEF LoginReads
  <2> QED
    BY <1>5, <2>3 DEF LoginReads
<1>6. ASSUME NEW n \in Logins, LoginEnds(n) PROVE SessionTypes'
  <2>1. logins[n] \in Login /\ logins' \in [Logins -> Login \union {None}]
    BY <1>6 DEF LoginEnds, LoginEndsWith
  <2>2. tokens' \in [Logins -> Token \union {None}]
    <3>1. UNCHANGED tokens \/ \E d \in {Remember, Ordinary} :
            tokens' = [tokens EXCEPT ![n] = [id |-> logins[n].seen.id, sv |-> logins[n].seen.sv,
                                             pw |-> logins[n].typed, left |-> d]]
      BY <1>6 DEF LoginEnds, LoginEndsWith, SessionDays
    <3>2. \A d \in {Remember, Ordinary} :
            [id |-> logins[n].seen.id, sv |-> logins[n].seen.sv, pw |-> logins[n].typed,
             left |-> d] \in Token
      BY <2>1, Made
    <3>3. \A t \in Token : [tokens EXCEPT ![n] = t] \in [Logins -> Token \union {None}]
      OBVIOUS
    <3> QED
      BY <3>1, <3>2, <3>3
  <2> QED
    BY <1>6, <2>1, <2>2 DEF LoginEnds, LoginEndsWith
<1>7. ASSUME NEW n \in Logins, LogoutChecks(n) PROVE SessionTypes'
  <2>1. out' \in Logout
    BY <1>7, Put DEF LogoutChecks
  <2> QED
    BY <1>7, <2>1 DEF LogoutChecks, sessions
<1>8. CASE LogoutRevokes
  <2>1. out \in Logout /\ out' \in Logout \union {None}
    <3>1. out \in Logout /\ out' \in {[out EXCEPT !.at = "revoked"], None}
      BY <1>8 DEF LogoutRevokes
    <3> QED
      BY <3>1, Put
  <2>2. loggedOut' \subseteq Logins
    BY <1>8, <2>1, Put DEF LogoutRevokes
  <2>3. revoked' \in [Logins -> 0..Keep + 1 \union {None}]
    BY <1>8, Bounds DEF LogoutRevokes
  <2> QED
    BY <1>8, <2>1, <2>2, <2>3 DEF LogoutRevokes
<1>9. CASE LogoutStops \/ LogoutRemoves
  <2>1. out' \in Logout \union {None}
    BY <1>9, Put DEF LogoutStops, LogoutRemoves
  <2> QED
    BY <1>9, <2>1 DEF LogoutStops, LogoutRemoves, sessions
<1>10. CASE Prune
  <2>1. revoked' \in [Logins -> 0..Keep + 1 \union {None}]
    BY <1>10 DEF Prune
  <2> QED
    BY <1>10, <2>1 DEF Prune
<1>11. CASE Day
  <2>1. tokens' \in [Logins -> Token \union {None}]
    <3>1. ASSUME NEW n \in Logins, tokens[n] # None, tokens[n].left # 0
          PROVE  [tokens[n] EXCEPT !.left = @ - 1] \in Token
      BY <3>1, Made
    <3> QED
      BY <1>11, <3>1 DEF Day
  <2>2. revoked' \in [Logins -> 0..Keep + 1 \union {None}]
    <3>1. ASSUME NEW n \in Logins, revoked[n] # None, ~(revoked[n] > Keep)
          PROVE  revoked[n] + 1 \in 0..Keep + 1
      BY <3>1, Bounds
    <3> QED
      BY <1>11, <3>1 DEF Day
  <2> QED
    BY <1>11, <2>1, <2>2 DEF Day
<1>12. CASE Restart
  BY <1>12 DEF Restart
<1> QED
  BY <1>1, <1>2, <1>3, <1>4, <1>5, <1>6, <1>7, <1>8, <1>9, <1>10, <1>11, <1>12, Cases

LEMMA IncidentTypes ==
  ASSUME incidents \in 0..MaxIncidents, Incident \/ UNCHANGED incidents
  PROVE  incidents' \in 0..MaxIncidents
BY Bounds DEF Incident

LEMMA ContainerTypeStep == ContainerTypes /\ [Next]_vars => ContainerTypes'
<1> SUFFICES ASSUME ContainerTypes, [Next]_vars PROVE ContainerTypes'
  OBVIOUS
<1> USE DEF ContainerTypes, containers, requests
<1>1. CASE UNCHANGED vars \/ AskWithSession \/ AskWithPassword \/ PasswordVerified
  BY <1>1 DEF vars, AskWithSession, AskWithPassword, PasswordVerified
<1>2. CASE CreateUser \/ ResetPassword \/ \E n \in Logins, typed \in 1..passwords : ChangePassword(n, typed)
  <2>1. UNCHANGED <<container, cache, reaping, rewritten, requests>> /\ recent' = TRUE
    BY <1>2 DEF CreateUser, ResetPassword, ChangePassword, NewPassword
  <2>2. home' \in BOOLEAN /\ (Incident \/ UNCHANGED incidents)
    BY <1>2 DEF CreateUser, ResetPassword, ChangePassword, NewPassword,
                Provisions
  <2> QED
    BY <2>1, <2>2, IncidentTypes
<1>3. CASE DeleteUser
  <2>1. container' \in {container, None} /\ cache' \in {cache, None}
    BY <1>3 DEF DeleteUser, DeleteContainer, DeleteHome, DeleteRow
  <2>2. home' \in BOOLEAN /\ rewritten' \in BOOLEAN /\ deleting' \in {None, "purge", "record"}
        /\ UNCHANGED <<recent, reaping, chore, exporting>>
    BY <1>3 DEF DeleteUser, DeleteContainer, DeleteHome, DeleteRow, Deleting
  <2>3. incidents' \in 0..MaxIncidents
    BY <1>3, IncidentTypes DEF DeleteUser, DeleteContainer, DeleteHome, DeleteRow
  <2> QED
    BY <2>1, <2>2, <2>3
<1>4. ASSUME NEW n \in Logins,
             (\E typed \in 1..passwords : LoginReads(n, typed)) \/ LoginEnds(n) \/ LogoutChecks(n)
               \/ Wants(n, None)
      PROVE  ContainerTypes'
  BY <1>4 DEF LoginReads, LoginEnds, LoginEndsWith, LogoutChecks, Wants
<1>5. CASE Prune \/ Day \/ LogoutRevokes
  <2>1. incidents' \in 0..MaxIncidents
    BY <1>5, IncidentTypes DEF LogoutRevokes, Prune, Day
  <2> QED
    BY <1>5, <2>1 DEF LogoutRevokes, Prune, Day
<1>6. CASE LogoutStops \/ LogoutRemoves
  <2>1. container' \in Container \union {None} /\ cache' \in {cache, None}
    BY <1>6, Put DEF LogoutStops, LogoutRemoves
  <2> QED
    BY <1>6, <2>1 DEF LogoutStops, LogoutRemoves
<1>7. CASE \/ \E typed \in 1..passwords : Wants(Player, typed)
           \/ RunChore \/ ExportList
  BY <1>7 DEF Wants, RunChore, ExportList
<1>8. CASE Send
  <2>1. recent' \in BOOLEAN
    BY <1>8 DEF Send
  <2> QED
    BY <1>8, <2>1 DEF Send
<1>9. CASE LeaveChore \/ StartDownload \/ SpawnRefused \/ ReaperReads
  <2>1. incidents' \in 0..MaxIncidents
    BY <1>9, IncidentTypes DEF LeaveChore, StartDownload, SpawnRefused, ReaperReads
  <2> QED
    BY <1>9, <2>1 DEF LeaveChore, StartDownload, SpawnRefused, ReaperReads
<1>10. CASE Restart
  <2>1. incidents' \in 0..MaxIncidents
    BY <1>10, IncidentTypes DEF Restart
  <2> QED
    BY <1>10, <2>1 DEF Restart
<1>11. CASE SpawnLooks
  <2>1. cache' \in {cache, None}
    BY <1>11 DEF SpawnLooks, SpawnLooksWith
  <2> QED
    BY <1>11, <2>1 DEF SpawnLooks, SpawnLooksWith
<1>12. CASE SpawnStarts \/ SpawnCreates
  <2>1. container' \in Container \union {None} /\ UNCHANGED cache
    BY <1>12, Put DEF SpawnStarts, SpawnCreates
  <2>2. home' \in BOOLEAN /\ UNCHANGED rewritten
    BY <1>12 DEF SpawnStarts, SpawnCreates
  <2> QED
    BY <1>12, <2>1, <2>2 DEF SpawnStarts, SpawnCreates
<1>13. CASE SpawnWaits
  <2>1. cache' \in Cached \union {None}
    BY <1>13, Put DEF SpawnWaits, Accepts
  <2>2. incidents' \in 0..MaxIncidents
    BY <1>13, IncidentTypes DEF SpawnWaits
  <2> QED
    BY <1>13, <2>1, <2>2 DEF SpawnWaits
<1>14. CASE CacheAges
  <2>1. cache' \in Cached
    BY <1>14, Put DEF CacheAges
  <2> QED
    BY <1>14, <2>1 DEF CacheAges
<1>15. CASE GrowsIdle
  BY <1>15 DEF GrowsIdle
<1>16. CASE ReaperStops
  <2>1. container' \in Container \union {None}
    BY <1>16, Put DEF ReaperStops
  <2> QED
    BY <1>16, <2>1 DEF ReaperStops
<1> QED
  BY <1>1, <1>2, <1>3, <1>4, <1>5, <1>6, <1>7, <1>8, <1>9, <1>10, <1>11, <1>12, <1>13, <1>14,
     <1>15, <1>16 DEF Next

(* Every variable of the account, its sessions and its container keeps to   *)
(* its type through every step of main.py, manager.py and the reaper.       *)
THEOREM TypeCorrect == Spec => []TypeOK
<1>1. TypeOK /\ [Next]_vars => TypeOK'
  <2>1. SessionTypes /\ ContainerTypes /\ [Next]_vars => SessionTypes' /\ ContainerTypes'
    BY SessionTypeStep, ContainerTypeStep
  <2>2. TypeOK' <=> SessionTypes' /\ ContainerTypes'
    BY DEF TypeOK, SessionTypes, ContainerTypes, Token, Login, Logout, Cached
  <2> QED
    BY <2>1, <2>2, TypeParts
<1> QED
  BY <1>1, TypeInit, PTL DEF Spec

-----------------------------------------------------------------------------
(* Sessions know the password.                                              *)

(* What was read from the row of an account, now or earlier: of the account *)
(* there is, it is an older version or tells its password.                  *)
Known(r) ==
  /\ r.id <= created
  /\ account # None /\ r.id = account.id =>
       r.sv < account.sv \/ (r.sv = account.sv /\ r.pw = account.pw)

(* The same of the state after a step. *)
KnownNext(r) ==
  /\ r.id <= created'
  /\ account' # None /\ r.id = account'.id =>
       r.sv < account'.sv \/ (r.sv = account'.sv /\ r.pw = account'.pw)

SessionInv ==
  /\ account # None => account.id <= created
  /\ \A n \in Logins : tokens[n] # None => Known(tokens[n])
  /\ \A n \in Logins : logins[n] # None => Known(logins[n].seen)

LEMMA RowCreated ==
  ASSUME SessionTypes, CreateUser
  PROVE  account' # None /\ account'.id = created + 1
<1>1. PICK v \in 1..2 : account' = [id |-> created + 1, sv |-> v, pw |-> passwords + 1]
  BY DEF CreateUser, NewAccount
<1>2. created + 1 \in 1..MaxAccounts /\ passwords + 1 \in 1..MaxPasswords /\ v \in Nat
  BY Bounds DEF CreateUser, SessionTypes
<1>3. account' # None
  BY <1>1, <1>2, AccountsAssumption DEF AccountsAssumption
<1> QED
  BY <1>1, <1>3

LEMMA RowChanged ==
  ASSUME SessionTypes, NewPassword, account # None
  PROVE  account' # None /\ account'.id = account.id /\ account'.sv = account.sv + 1
<1>1. account.id \in 1..MaxAccounts /\ account.sv \in Nat
  BY Made DEF SessionTypes
<1>2. account' = [id |-> account.id, sv |-> account.sv + 1, pw |-> passwords + 1]
  BY DEF NewPassword
<1>3. passwords + 1 \in Nat
  BY DEF SessionTypes
<1>4. account' # None
  BY <1>1, <1>2, <1>3, AccountsAssumption DEF AccountsAssumption
<1> QED
  BY <1>2, <1>4

(* What a step may do to the account. *)
LEMMA AccountStep ==
  ASSUME SessionTypes, [Next]_vars
  PROVE  \/ UNCHANGED <<account, created>>
         \/ /\ account' # None /\ created' = created + 1 /\ account'.id = created + 1
         \/ /\ account # None /\ account' # None /\ UNCHANGED created
            /\ account'.id = account.id /\ account'.sv = account.sv + 1
         \/ account' = None /\ UNCHANGED created
<1> USE DEF SessionTypes, containers, requests
<1>1. CASE UNCHANGED vars \/ Passing
  BY <1>1, PassingBy DEF vars, sessions
<1>2. CASE CreateUser
  BY <1>2, RowCreated DEF CreateUser
<1>3. CASE ResetPassword \/ \E n \in Logins, typed \in 1..passwords : ChangePassword(n, typed)
  <2>1. NewPassword /\ account # None
    BY <1>3 DEF ResetPassword, ChangePassword, Valid
  <2> QED
    BY <2>1, RowChanged DEF NewPassword
<1>4. CASE DeleteUser
  BY <1>4 DEF DeleteUser, DeleteContainer, DeleteHome, DeleteRow, sessions
<1>5. ASSUME NEW n \in Logins,
             (\E typed \in 1..passwords : LoginReads(n, typed)) \/ LoginEnds(n) \/ LogoutChecks(n)
      PROVE  UNCHANGED <<account, created>>
  BY <1>5 DEF LoginReads, LoginEnds, LoginEndsWith, LogoutChecks, sessions
<1>6. CASE LogoutRevokes \/ LogoutStops \/ LogoutRemoves \/ Prune \/ Day \/ Restart
  BY <1>6 DEF LogoutRevokes, LogoutStops, LogoutRemoves, Prune, Day, Restart, sessions
<1> QED
  BY <1>1, <1>2, <1>3, <1>4, <1>5, <1>6, Cases

LEMMA KnownStays ==
  ASSUME SessionTypes, [Next]_vars, NEW r, r.id \in Nat, r.sv \in Nat, Known(r),
         account # None => account.id <= created
  PROVE  KnownNext(r)
<1>1. created \in Nat
  BY DEF SessionTypes
<1>2. account # None => account.id \in Nat /\ account.sv \in Nat
  BY Made DEF SessionTypes
<1> QED
  BY <1>1, <1>2, AccountStep DEF Known, KnownNext

LEMMA Older ==
  /\ \A t \in Token : t.id \in Nat /\ t.sv \in Nat
  /\ \A a \in Account : a.id \in Nat /\ a.sv \in Nat
  /\ \A l \in Login : l.seen \in Account
BY Bounds DEF Token, Account, Login

LEMMA SessionsKnow == SessionTypes /\ SessionInv /\ [Next]_vars => SessionInv'
<1> SUFFICES ASSUME SessionTypes, SessionInv, [Next]_vars PROVE SessionInv'
  OBVIOUS
<1>1. (account # None => account.id <= created)'
  <2>1. created \in Nat /\ (account # None => account.id \in Nat)
    BY Made DEF SessionTypes
  <2> QED
    BY <2>1, AccountStep DEF SessionInv
<1>2. \A t \in Token : Known(t) => KnownNext(t)
  BY KnownStays, Older DEF SessionInv
<1>3. \A a \in Account : Known(a) => KnownNext(a)
  BY KnownStays, Older DEF SessionInv
<1>4. \A n \in Logins : logins[n] # None => logins[n] \in Login /\ KnownNext(logins[n].seen)
  BY <1>3, Older DEF SessionInv, SessionTypes
<1>5. \A n \in Logins : tokens[n] # None => tokens[n] \in Token /\ KnownNext(tokens[n])
  BY <1>2 DEF SessionInv, SessionTypes
<1> SUFFICES /\ \A n \in Logins : tokens'[n] # None => KnownNext(tokens'[n])
             /\ \A n \in Logins : logins'[n] # None => KnownNext(logins'[n].seen)
  BY <1>1 DEF SessionInv, Known, KnownNext
<1>6. CASE UNCHANGED <<tokens, logins>>
  BY <1>4, <1>5, <1>6
<1>7. ASSUME NEW n \in Logins, NEW typed \in 1..passwords, LoginReads(n, typed)
      PROVE  /\ \A k \in Logins : tokens'[k] # None => KnownNext(tokens'[k])
             /\ \A k \in Logins : logins'[k] # None => KnownNext(logins'[k].seen)
  <2>1. KnownNext(account) /\ UNCHANGED tokens
    <3>1. account \in Account /\ Known(account)
      BY <1>7, Older DEF LoginReads, SessionInv, Known, SessionTypes
    <3> QED
      BY <1>3, <1>7, <3>1 DEF LoginReads
  <2>2. \A k \in Logins : logins'[k] = IF k = n THEN [typed |-> typed, seen |-> account]
                                       ELSE logins[k]
    BY <1>7 DEF LoginReads, SessionTypes
  <2> QED
    BY <1>4, <1>5, <2>1, <2>2
<1>8. ASSUME NEW n \in Logins, LoginEnds(n)
      PROVE  /\ \A k \in Logins : tokens'[k] # None => KnownNext(tokens'[k])
             /\ \A k \in Logins : logins'[k] # None => KnownNext(logins'[k].seen)
  <2>1. \A k \in Logins : logins'[k] = IF k = n THEN None ELSE logins[k]
    BY <1>8 DEF LoginEnds, LoginEndsWith, SessionTypes
  <2>2. KnownNext(logins[n].seen)
    BY <1>4, <1>8 DEF LoginEnds, LoginEndsWith
  <2>3. CASE Verified(logins[n].typed, logins[n].seen)
    <3>1. PICK days \in {Remember, Ordinary} :
            tokens' = [tokens EXCEPT ![n] = [id |-> logins[n].seen.id, sv |-> logins[n].seen.sv,
                                             pw |-> logins[n].typed, left |-> days]]
      BY <1>8, <2>3 DEF LoginEnds, LoginEndsWith, SessionDays
    <3>2. KnownNext(tokens'[n])
      BY <2>2, <2>3, <3>1 DEF Verified, KnownNext, SessionTypes
    <3>3. \A k \in Logins : k # n => tokens'[k] = tokens[k]
      BY <3>1 DEF SessionTypes
    <3> QED
      BY <1>4, <1>5, <2>1, <3>2, <3>3
  <2>4. CASE UNCHANGED tokens
    BY <1>4, <1>5, <2>1, <2>4
  <2> QED
    BY <1>8, <2>3, <2>4 DEF LoginEnds, LoginEndsWith
<1>9. CASE Day
  <2>1. UNCHANGED logins
    BY <1>9 DEF Day
  <2>2. ASSUME NEW n \in Logins, tokens[n] # None
        PROVE  tokens'[n].id = tokens[n].id /\ tokens'[n].sv = tokens[n].sv
               /\ tokens'[n].pw = tokens[n].pw
    <3>1. tokens'[n] = tokens[n] \/ tokens'[n] = [tokens[n] EXCEPT !.left = @ - 1]
      BY <1>9, <2>2 DEF Day
    <3> QED
      BY <1>5, <2>2, <3>1 DEF Token
  <2>3. \A n \in Logins : tokens'[n] # None => tokens[n] # None
    BY <1>9 DEF Day
  <2>4. \A n \in Logins : tokens'[n] # None => KnownNext(tokens'[n])
    BY <1>5, <2>2, <2>3 DEF KnownNext
  <2> QED
    BY <1>4, <2>1, <2>4
<1>10. CASE Restart
  BY <1>5, <1>10 DEF Restart
<1>11. CASE CreateUser \/ ResetPassword \/ DeleteUser
  BY <1>6, <1>11 DEF CreateUser, ResetPassword, NewPassword, DeleteUser, DeleteContainer,
                     DeleteHome, DeleteRow, sessions
<1>12. ASSUME NEW n \in Logins,
              (\E typed \in 1..passwords : ChangePassword(n, typed)) \/ LogoutChecks(n)
       PROVE  UNCHANGED <<tokens, logins>>
  BY <1>12 DEF ChangePassword, NewPassword, LogoutChecks, sessions
<1>13. CASE LogoutRevokes \/ LogoutStops \/ LogoutRemoves \/ Prune
  BY <1>6, <1>13 DEF LogoutRevokes, LogoutStops, LogoutRemoves, Prune, sessions
<1>14. CASE UNCHANGED vars \/ Passing
  BY <1>6, <1>14, PassingBy DEF vars, sessions
<1> QED
  BY <1>6, <1>7, <1>8, <1>9, <1>10, <1>11, <1>12, <1>13, <1>14, Cases

(* A session that works was paid for with the password of now: changing the *)
(* password bumps session_version, which get_current_user compares.         *)
THEOREM SessionsAreKnown == Spec => []SessionsKnowPassword
<1>1. Init => SessionInv
  BY Bounds DEF Init, SessionInv
<1>2. TypeOK => SessionTypes
  BY TypeParts
<1>3. SessionTypes /\ SessionInv => SessionsKnowPassword
  <2> SUFFICES ASSUME SessionTypes, SessionInv, NEW n \in Logins, Valid(n)
               PROVE  tokens[n].pw = account.pw
    BY DEF SessionsKnowPassword
  <2>1. Known(tokens[n]) /\ tokens[n].id = account.id /\ tokens[n].sv = account.sv
        /\ account # None
    BY DEF SessionInv, Valid
  <2>2. account.sv \in Nat
    BY <2>1, Older DEF SessionTypes
  <2> QED
    BY <2>1, <2>2 DEF Known
<1> QED
  BY <1>1, <1>2, <1>3, TypeCorrect, SessionsKnow, PTL DEF Spec

-----------------------------------------------------------------------------
(* Logged out stays out: a row of the blacklist outlives its token, since   *)
(* the two ages together never pass the longest life of a session.          *)

Dead(t, age) == t # None /\ (t.left = 0 \/ (age # None /\ t.left + age <= Remember))

LogoutInv ==
  /\ \A n \in Logins : logins[n] # None => tokens[n] = None
  /\ \A n \in Logins : revoked[n] # None => Dead(tokens[n], revoked[n])
  /\ \A n \in loggedOut : Dead(tokens[n], revoked[n])
  /\ out # None => tokens[out.n] # None

LEMMA Ages ==
  /\ \A t \in Token : t.left \in Nat /\ t.left <= Remember /\ t # None
  /\ \A n \in Nat : n # None
  /\ Remember \in Nat /\ Keep = Remember + 1 /\ 0..Keep + 1 \subseteq Nat
BY Bounds, AccountsAssumption DEF Token, AccountsAssumption

LEMMA LoggedOutStays == SessionTypes /\ LogoutInv /\ [Next]_vars => LogoutInv'
<1> SUFFICES ASSUME SessionTypes, LogoutInv, [Next]_vars PROVE LogoutInv'
  OBVIOUS
<1> USE DEF LogoutInv
<1>1. CASE UNCHANGED vars \/ Passing
  BY <1>1, PassingBy DEF vars, sessions
<1>2. CASE CreateUser \/ DeleteUser \/ ResetPassword
  BY <1>2 DEF CreateUser, DeleteUser, DeleteContainer, DeleteHome, DeleteRow, ResetPassword,
              NewPassword, sessions
<1>3. ASSUME NEW n \in Logins, NEW typed \in 1..passwords, ChangePassword(n, typed)
      PROVE  LogoutInv'
  BY <1>3 DEF ChangePassword, NewPassword
<1>4. ASSUME NEW n \in Logins, NEW typed \in 1..passwords, LoginReads(n, typed)
      PROVE  LogoutInv'
  BY <1>4 DEF LoginReads, SessionTypes
<1>5. ASSUME NEW n \in Logins, LoginEnds(n) PROVE LogoutInv'
  <2>1. tokens[n] = None /\ revoked[n] = None /\ n \notin loggedOut /\ (out # None => out.n # n)
    BY <1>5 DEF LoginEnds, LoginEndsWith, Dead
  <2>2. \A k \in Logins : k # n => tokens'[k] = tokens[k] /\ logins'[k] = logins[k]
    BY <1>5 DEF LoginEnds, LoginEndsWith, SessionTypes
  <2>3. logins'[n] = None /\ UNCHANGED <<revoked, loggedOut, out>>
    BY <1>5 DEF LoginEnds, LoginEndsWith, SessionTypes
  <2>4. out # None => out.n \in Logins
    BY Put DEF SessionTypes
  <2> QED
    BY <2>1, <2>2, <2>3, <2>4 DEF SessionTypes
<1>6. ASSUME NEW n \in Logins, LogoutChecks(n) PROVE LogoutInv'
  BY <1>6 DEF LogoutChecks, Valid, sessions
<1>7. CASE LogoutRevokes
  <2>1. UNCHANGED <<tokens, logins>> /\ out # None /\ out.n \in Logins /\ tokens[out.n] \in Token
    BY <1>7, Put DEF LogoutRevokes, SessionTypes
  <2>2. out' # None => out'.n = out.n
    BY <1>7 DEF LogoutRevokes, SessionTypes, Logout
  <2>3. CASE /\ revoked' = [revoked EXCEPT ![out.n] = IF @ = None THEN 0 ELSE @]
             /\ loggedOut' = loggedOut \union {out.n}
    <3>1. Dead(tokens[out.n], revoked'[out.n])
      BY <2>1, <2>3, Ages DEF SessionTypes, Dead
    <3>2. \A k \in Logins : k # out.n => revoked'[k] = revoked[k]
      BY <2>3 DEF SessionTypes
    <3> QED
      BY <2>1, <2>2, <2>3, <3>1, <3>2 DEF SessionTypes
  <2>4. CASE UNCHANGED <<revoked, loggedOut>>
    BY <2>1, <2>2, <2>4
  <2> QED
    BY <1>7, <2>3, <2>4 DEF LogoutRevokes
<1>8. CASE LogoutStops \/ LogoutRemoves
  <2>1. UNCHANGED sessions /\ (out' # None => out # None /\ out'.n = out.n)
    BY <1>8 DEF LogoutStops, LogoutRemoves, SessionTypes, Logout
  <2> QED
    BY <2>1 DEF sessions
<1>9. CASE Prune
  <2>1. UNCHANGED <<tokens, logins, loggedOut, out>>
    BY <1>9 DEF Prune
  <2>2. \A k \in Logins : revoked'[k] = revoked[k]
                          \/ (revoked'[k] = None /\ revoked[k] # None /\ revoked[k] > Keep)
    BY <1>9 DEF Prune
  <2>3. ASSUME NEW k \in Logins, revoked[k] # None, revoked[k] > Keep
        PROVE  Dead(tokens[k], None)
    BY <2>3, Ages DEF SessionTypes, Dead
  <2> QED
    BY <2>1, <2>2, <2>3 DEF SessionTypes
<1>10. CASE Day
  <2>1. UNCHANGED <<logins, loggedOut, out>>
    BY <1>10 DEF Day
  <2>2. \A k \in Logins : tokens'[k] = None <=> tokens[k] = None
    BY <1>10, Ages, Made DEF Day, SessionTypes
  <2>3. \A k \in Logins : revoked'[k] = None <=> revoked[k] = None
    BY <1>10, Ages DEF Day, SessionTypes
  <2>4. ASSUME NEW k \in Logins, Dead(tokens[k], revoked[k])
        PROVE  Dead(tokens'[k], revoked'[k])
    <3>1. tokens[k] \in Token /\ tokens'[k] # None
      BY <2>2, <2>4 DEF Dead, SessionTypes
    <3>2. tokens'[k].left = IF tokens[k].left = 0 THEN 0 ELSE tokens[k].left - 1
      BY <1>10, <2>4, <3>1 DEF Day, Dead, Token
    <3>3. revoked[k] # None => revoked'[k] = IF revoked[k] > Keep THEN revoked[k] ELSE revoked[k] + 1
      BY <1>10 DEF Day
    <3> QED
      BY <2>3, <2>4, <3>1, <3>2, <3>3, Ages DEF Dead, SessionTypes
  <2> QED
    BY <2>1, <2>2, <2>3, <2>4, Put DEF SessionTypes
<1>11. CASE Restart
  BY <1>11 DEF Restart
<1> QED
  BY <1>1, <1>2, <1>3, <1>4, <1>5, <1>6, <1>7, <1>8, <1>9, <1>10, <1>11, Cases

(* A token whose logout was confirmed never works again: prune_token_blacklist *)
(* keeps a row a day longer than the longest session lasts.                    *)
THEOREM LoggedOutIsFinal == Spec => []LoggedOutStaysOut
<1>1. Init => LogoutInv
  BY DEF Init, LogoutInv
<1>2. TypeOK => SessionTypes
  BY TypeParts
<1>3. SessionTypes /\ LogoutInv => LoggedOutStaysOut
  BY Ages DEF SessionTypes, LogoutInv, LoggedOutStaysOut, Dead, Valid
<1> QED
  BY <1>1, <1>2, <1>3, TypeCorrect, LoggedOutStays, PTL DEF Spec

-----------------------------------------------------------------------------
(* The row goes last.                                                       *)

(* While an account is being deleted nobody looks for its container, and    *)
(* each step finds what the ones before it have left.                       *)
DeletionInv ==
  /\ deleting # None => spawn = None /\ container = None
  /\ deleting = "record" /\ home => rewritten

LEMMA DeletionStays == DeletionInv /\ [Next]_vars => DeletionInv'
<1> SUFFICES ASSUME DeletionInv, [Next]_vars PROVE DeletionInv'
  OBVIOUS
<1> USE DEF DeletionInv, containers, requests
<1>0. "purge" # "record" /\ None # "record" /\ None # "purge"
  BY AccountsAssumption DEF AccountsAssumption
<1>1. CASE UNCHANGED vars \/ Send \/ LeaveChore \/ StartDownload \/ CacheAges
           \/ GrowsIdle \/ ReaperReads \/ Restart
  BY <1>0, <1>1 DEF vars, Send, LeaveChore, StartDownload, CacheAges, GrowsIdle, ReaperReads,
              Restart, LoopFree
<1>12. CASE ExportList
  BY <1>12 DEF ExportList
<1>2. CASE AskWithSession \/ AskWithPassword \/ PasswordVerified \/ RunChore
  BY <1>2 DEF AskWithSession, AskWithPassword, PasswordVerified, RunChore, LoopFree
<1>3. CASE SpawnLooks \/ SpawnStarts \/ SpawnCreates \/ SpawnWaits \/ SpawnRefused
  <2>1. spawn # None /\ UNCHANGED deleting
    BY <1>3 DEF SpawnLooks, SpawnLooksWith, SpawnStarts, SpawnCreates, SpawnWaits, SpawnRefused
  <2> QED
    BY <1>0, <2>1
<1>4. CASE ReaperStops \/ LogoutStops \/ LogoutRemoves
  <2>1. UNCHANGED <<spawn, deleting, home, rewritten>> /\ (container = None => container' = None)
    BY <1>4 DEF ReaperStops, LogoutStops, LogoutRemoves
  <2> QED
    BY <2>1
<1>5. CASE LogoutRevokes \/ Prune \/ Day
  BY <1>5 DEF LogoutRevokes, Prune, Day
<1>6. CASE DeleteContainer
  BY <1>0, <1>6 DEF DeleteContainer, Deleting, LoopFree
<1>7. CASE DeleteHome
  BY <1>0, <1>7 DEF DeleteHome, Deleting
<1>8. CASE DeleteRow
  BY <1>0, <1>8 DEF DeleteRow, Deleting
<1>9. CASE CreateUser \/ ResetPassword \/ \E n \in Logins, typed \in 1..passwords : ChangePassword(n, typed)
  BY <1>0, <1>9 DEF CreateUser, ResetPassword, ChangePassword, NewPassword, LoopFree
<1>10. ASSUME NEW n \in Logins,
              \/ \E typed \in 1..passwords : LoginReads(n, typed)
              \/ LoginEnds(n) \/ LogoutChecks(n) \/ Wants(n, None)
       PROVE  DeletionInv'
  BY <1>10 DEF LoginReads, LoginEnds, LoginEndsWith, LogoutChecks, Wants
<1>11. CASE \E typed \in 1..passwords : Wants(Player, typed)
  BY <1>11 DEF Wants
<1> QED
  BY <1>1, <1>2, <1>3, <1>4, <1>5, <1>6, <1>7, <1>8, <1>9, <1>10, <1>11, <1>12 DEF Next, DeleteUser

(* Only delete_user takes the row, and at its last step.                    *)
LEMMA RowGoes ==
  ASSUME SessionTypes, [Next]_vars, account # None, account' = None
  PROVE  DeleteRow
<1> USE DEF containers, requests
<1>1. ~(UNCHANGED vars \/ Passing)
  BY PassingBy DEF vars, sessions
<1>2. ~CreateUser
  BY DEF CreateUser
<1>3. ~(ResetPassword \/ \E n \in Logins, typed \in 1..passwords : ChangePassword(n, typed))
  BY RowChanged DEF ResetPassword, ChangePassword, Valid
<1>4. ASSUME NEW n \in Logins,
             (\E typed \in 1..passwords : LoginReads(n, typed)) \/ LoginEnds(n) \/ LogoutChecks(n)
      PROVE  FALSE
  BY <1>4 DEF LoginReads, LoginEnds, LoginEndsWith, LogoutChecks, sessions
<1>5. ~(LogoutRevokes \/ LogoutStops \/ LogoutRemoves \/ Prune \/ Day \/ Restart)
  BY DEF LogoutRevokes, LogoutStops, LogoutRemoves, Prune, Day, Restart, sessions
<1>6. ~(DeleteContainer \/ DeleteHome)
  BY DEF DeleteContainer, DeleteHome, sessions
<1> QED
  BY <1>1, <1>2, <1>3, <1>4, <1>5, <1>6, Cases DEF DeleteUser

(* The row of an account goes when its container is gone and its            *)
(* directories have been purged: nothing of the event loop comes between    *)
(* the steps of delete_user, and what its threads do brings back no         *)
(* container.                                                               *)
THEOREM RowsGoLast == Spec => RowGoesLast
<1>1. Init => DeletionInv
  BY DEF Init, DeletionInv
<1>2. Spec => []DeletionInv
  BY <1>1, DeletionStays, PTL DEF Spec
<1>3. SessionTypes /\ DeletionInv /\ [Next]_vars
        => [account # None /\ account' = None => container = None /\ (home => rewritten)]_vars
  <2> SUFFICES ASSUME SessionTypes, DeletionInv, [Next]_vars, account # None, account' = None
               PROVE  container = None /\ (home => rewritten)
    OBVIOUS
  <2>1. deleting = "record"
    BY RowGoes DEF DeleteRow, Deleting
  <2>2. "record" # None
    BY AccountsAssumption DEF AccountsAssumption
  <2> QED
    BY <2>1, <2>2 DEF DeletionInv
<1>4. TypeOK => SessionTypes
  BY TypeParts
<1>5. Spec => [][Next]_vars
  BY DEF Spec
<1> QED
  BY <1>2, <1>3, <1>4, <1>5, TypeCorrect, PTL DEF RowGoesLast
=============================================================================
