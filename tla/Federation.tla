----------------------------- MODULE Federation -----------------------------
(***************************************************************************)
(* The catalogue of other instances, as this one mirrors it                *)
(* (federation_service.py and the administration of instances and tokens   *)
(* in routers/federation.py).                                              *)
(*                                                                         *)
(* A single loop visits the enabled instances one after the other, asks    *)
(* each for its health and, every half an hour, pulls the pages of its     *)
(* catalogue after a cursor kept in the row of the instance.  The          *)
(* administrator may ask for the same at any time, and may change, delete  *)
(* and create rows meanwhile; the row a pull goes on with is looked up by  *)
(* its number again after every commit.                                    *)
(*                                                                         *)
(* An instance is last seen within fifteen minutes or not; healthy and     *)
(* degraded, which are both playable, are not told apart, and progress     *)
(* counters and error texts are left out.  Songs are their numbers at the  *)
(* instance that publishes them.  A pull that ends in an error of the       *)
(* database may keep its claim on the row.                                 *)
(***************************************************************************)
EXTENDS Naturals, FiniteSets

CONSTANTS Remotes,       \* other instances
          Catalogue,     \* bound: the highest number each gives a song
          MaxRows,       \* bound: the highest number a row gets here
          Tasks,         \* bound: synchronisations asked for by hand at a time
          PageSize,      \* songs on a page
          MaxIncidents,  \* bound: outages, deletions, changes, failures, restarts
          None

Tick == "tick"
Ids == 1..MaxRows

ASSUME FederationAssumption ==
  /\ Catalogue \in [Remotes -> Nat]
  /\ MaxRows \in Nat
  /\ PageSize \in Nat \ {0} /\ MaxIncidents \in Nat
  /\ Tick \notin Tasks

VARIABLES
  published,  \* the songs each remote has now
  high,       \* the highest number each has ever given
  answers,    \* it is up, and the token it gave us is good
  row,        \* federated_instances: None, or where it is, whether it is enabled, playable,
              \* seen within fifteen minutes, and the cursor
  mirror,     \* federated_tracks of each row
  syncing,    \* _currently_syncing
  due,        \* half an hour has passed since the loop last pulled it (_last_sync_run)
  todo,       \* what the loop has still to visit in this round
  step,       \* for the loop and each task: None, or what it does with which row
  incidents   \* history: how many of them so far

\* History of what happened, read by the properties only.
VARIABLES
  reused,     \* <<r, k>> where the number k has been given twice at r
  moved       \* rows whose cursor is from another remote than they point to

remote == <<published, high, answers, reused>>
store == <<row, mirror, moved>>
vars == <<remote, store, syncing, due, todo, step, incidents>>

Numbers == UNION {1..Catalogue[r] : r \in Remotes}
Workers == Tasks \union {Tick}
NextNumber(S, k) == (\A x \in S : x < k) /\ (k = 1 \/ k - 1 \in S)
Rows == {i \in Ids : row[i] # None}

Pulling(w) == step[w] # None /\ step[w].at = "pulling"

Incident == incidents < MaxIncidents /\ incidents' = incidents + 1

Init ==
  /\ published = [r \in Remotes |-> {}] /\ high = [r \in Remotes |-> 0]
  /\ answers = [r \in Remotes |-> TRUE] /\ reused = {}
  /\ row = [i \in Ids |-> None] /\ mirror = [i \in Ids |-> {}] /\ moved = {}
  /\ syncing = {} /\ due = Ids /\ todo = {}
  /\ step = [w \in Workers |-> None]
  /\ incidents = 0

-----------------------------------------------------------------------------
(* The remotes.                                                            *)

\* SQLite gives the number after the highest there is: that of a deleted song may come again.
Publish(r) ==
  /\ \E k \in 1..Catalogue[r] :
       /\ NextNumber(published[r], k)
       /\ published' = [published EXCEPT ![r] = @ \union {k}]
       /\ high' = [high EXCEPT ![r] = IF k > @ THEN k ELSE @]
       /\ reused' = IF k <= high[r] THEN reused \union {<<r, k>>} ELSE reused
  /\ UNCHANGED <<answers, store, syncing, due, todo, step, incidents>>

Unpublish(r) ==
  /\ Incident
  /\ \E k \in published[r] : published' = [published EXCEPT ![r] = @ \ {k}]
  /\ UNCHANGED <<high, reused, answers, store, syncing, due, todo, step>>

\* It is out of reach, or its administrator revokes the token.
FallsSilent(r) ==
  /\ answers[r] /\ Incident
  /\ answers' = [answers EXCEPT ![r] = FALSE]
  /\ UNCHANGED <<published, high, reused, store, syncing, due, todo, step>>

\* It is back, or a new token has been issued and entered.
ComesBack(r) ==
  /\ ~answers[r]
  /\ answers' = [answers EXCEPT ![r] = TRUE]
  /\ UNCHANGED <<published, high, reused, store, syncing, due, todo, step, incidents>>

\* _verify_federation_token, at the remote: it answers to a token that is good.
Admits(r) == answers[r]

PageNewest(r, cursor) ==
  LET later == {k \in published[r] : k > cursor}
  IN {k \in later : Cardinality({x \in later : x > k}) < PageSize}

\* The songs on the page after the cursor, in the order of their numbers.
Page(r, cursor) ==
  LET later == {k \in published[r] : k > cursor}
  IN {k \in later : Cardinality({x \in later : x < k}) < PageSize}

-----------------------------------------------------------------------------
(* Administration of the rows.                                             *)

Create(r, enabled) ==
  /\ \E i \in Ids :
       /\ NextNumber(Rows, i)
       /\ row' = [row EXCEPT ![i] = [at |-> r, enabled |-> enabled, playable |-> FALSE,
                                     seen |-> FALSE, cursor |-> 0]]
       /\ moved' = IF \E w \in Workers : Pulling(w) /\ step[w].id = i
                   THEN moved \union {i} ELSE moved \ {i}
  /\ UNCHANGED <<remote, mirror, syncing, due, todo, step, incidents>>

Enable(i, enabled) ==
  /\ row[i] # None /\ row[i].enabled # enabled
  /\ Incident
  /\ row' = [row EXCEPT ![i] = [@ EXCEPT !.enabled = enabled]]
  /\ UNCHANGED <<remote, mirror, moved, syncing, due, todo, step>>

\* A new base_url keeps the cursor and the songs of the old one.
Move(i, r) ==
  /\ row[i] # None /\ row[i].at # r
  /\ Incident
  /\ row' = [row EXCEPT ![i] = [@ EXCEPT !.at = r]]
  /\ moved' = moved \union {i}
  /\ UNCHANGED <<remote, mirror, syncing, due, todo, step>>

\* The songs go with the row (ON DELETE CASCADE).
Delete(i) ==
  /\ row[i] # None
  /\ Incident
  /\ row' = [row EXCEPT ![i] = None]
  /\ mirror' = [mirror EXCEPT ![i] = {}]
  /\ UNCHANGED <<remote, moved, syncing, due, todo, step>>

AskSync(w, i) ==
  /\ step[w] = None /\ w # Tick
  /\ row[i] # None /\ row[i].enabled
  /\ step' = [step EXCEPT ![w] = [at |-> "checking", id |-> i]]
  /\ UNCHANGED <<remote, store, syncing, due, todo, incidents>>

-----------------------------------------------------------------------------
(* The loop.                                                               *)

TickStarts ==
  /\ todo = {} /\ step[Tick] = None
  /\ {i \in Rows : row[i].enabled} # {}
  /\ todo' = {i \in Rows : row[i].enabled}
  /\ due' = due \union (Ids \ todo')
  /\ UNCHANGED <<remote, store, syncing, step, incidents>>

\* A row that has gone since the round began ends the round with an error.
TickVisits ==
  /\ todo # {} /\ step[Tick] = None
  /\ \E i \in todo :
       /\ \A k \in todo : i <= k
       /\ IF row[i] = None
          THEN todo' = {} /\ UNCHANGED step
          ELSE /\ todo' = todo \ {i}
               /\ step' = [step EXCEPT ![Tick] = [at |-> "checking", id |-> i]]
  /\ UNCHANGED <<remote, store, syncing, due, incidents>>

-----------------------------------------------------------------------------
(* Health and synchronisation, by the loop or a task.                      *)

Done(w) == step' = [step EXCEPT ![w] = None] /\ UNCHANGED todo

\* mutant: nothing catches it, and the loop is over.
RaisedForGood(w) ==
  /\ step' = [step EXCEPT ![w] = IF w = Tick THEN [at |-> "dead", id |-> @.id] ELSE None]
  /\ todo' = IF w = Tick THEN {} ELSE todo

\* The worker is done with its row; an error that nothing catches also ends the round.
Raised(w) == step' = [step EXCEPT ![w] = None] /\ todo' = IF w = Tick THEN {} ELSE todo

\* compute_status: who does not answer now is playable as long as it was seen lately.
StatusAfter(i) == Admits(row[i].at) \/ row[i].seen

Seen(it, playable, answered) == [it EXCEPT !.playable = playable, !.seen = @ \/ answered]

CheckedWith(w, playable) ==
  LET i == step[w].id IN
  IF row[i] = None
  THEN Raised(w) /\ UNCHANGED <<row, due>>
  ELSE /\ row' = [row EXCEPT ![i] = Seen(@, playable, answers[@.at])]
       /\ IF playable /\ (w = Tick => i \in due)
          THEN /\ due' = IF w = Tick THEN due \ {i} ELSE due
               /\ step' = [step EXCEPT ![w] = [at |-> "claiming", id |-> i]]
               /\ UNCHANGED todo
          ELSE Done(w) /\ UNCHANGED due

CheckedOnAnswer(w) ==
  /\ step[w] # None /\ step[w].at = "checking"
  /\ CheckedWith(w, LET i == step[w].id IN
                      row[i] # None /\ (answers[row[i].at] \/ row[i].playable))
  /\ UNCHANGED <<remote, mirror, moved, syncing, incidents>>

Checked(w) ==
  /\ step[w] # None /\ step[w].at = "checking"
  /\ CheckedWith(w, row[step[w].id] # None /\ StatusAfter(step[w].id))
  /\ UNCHANGED <<remote, mirror, moved, syncing, incidents>>

Pull(i, from, cursor) == [at |-> "pulling", id |-> i, from |-> from, cursor |-> cursor]

\* One pull of a row at a time; where to pull from is read once, here.
Claim(w) ==
  LET i == step[w].id IN
  /\ step[w] # None /\ step[w].at = "claiming"
  /\ IF row[i] = None THEN Raised(w) /\ UNCHANGED syncing
     ELSE IF i \in syncing \/ ~row[i].enabled THEN Done(w) /\ UNCHANGED syncing
     ELSE /\ syncing' = syncing \union {i}
          /\ step' = [step EXCEPT ![w] = Pull(i, row[i].at, row[i].cursor)]
          /\ UNCHANGED todo
  /\ UNCHANGED <<remote, store, due, incidents>>

\* Every song is inserted or updated by its number: pulling one again adds nothing.
Upsert(i, page) == mirror' = [mirror EXCEPT ![i] = @ \union page]

PullEnds(w) == syncing' = syncing \ {step[w].id}

Reached(it, cursor) == [it EXCEPT !.cursor = cursor, !.seen = TRUE]

\* One page: its songs and the cursor in one transaction.  A short page is the last.  When the
\* row has gone, storing the page fails, reporting that fails, and so does looking up, in the
\* end, under which number the claim was made: it stays.
PullPage(w) ==
  /\ Pulling(w) /\ Admits(step[w].from)
  /\ LET i == step[w].id
         from == step[w].from
         page == Page(from, step[w].cursor)
     IN IF row[i] = None
        THEN Raised(w) /\ UNCHANGED <<row, mirror, syncing>>
        ELSE \E cursor \in page \union {step[w].cursor} :
               /\ \A k \in page : k <= cursor
               /\ Upsert(i, page)
               /\ row' = IF page = {} THEN row ELSE [row EXCEPT ![i] = Reached(@, cursor)]
               /\ IF Cardinality(page) < PageSize
                  THEN Done(w) /\ PullEnds(w)
                  ELSE /\ step' = [step EXCEPT ![w] = Pull(i, from, cursor)]
                       /\ UNCHANGED <<todo, syncing>>
  /\ UNCHANGED <<remote, moved, due, incidents>>

\* No answer: the pull reports it and gives up its claim, if the row is there to be told.
Unanswered(w) ==
  /\ ~Admits(step[w].from)
  /\ IF row[step[w].id] = None
     THEN Raised(w) /\ UNCHANGED syncing
     ELSE Done(w) /\ PullEnds(w)
  /\ UNCHANGED incidents

\* The database is locked.  After a failed flush the session answers nothing more, and the
\* claim stays as well.
Unstored(w) == Incident /\ Raised(w) /\ (PullEnds(w) \/ UNCHANGED syncing)

PullFails(w) ==
  /\ Pulling(w) /\ (Unanswered(w) \/ Unstored(w))
  /\ UNCHANGED <<remote, store, due>>

-----------------------------------------------------------------------------
(* Time and restarts.                                                      *)

Unseen(i) ==
  /\ row[i] # None /\ row[i].seen
  /\ row' = [row EXCEPT ![i] = [@ EXCEPT !.seen = FALSE]]
  /\ UNCHANGED <<remote, mirror, moved, syncing, due, todo, step, incidents>>

DueAgain(i) ==
  /\ i \notin due
  /\ due' = due \union {i}
  /\ UNCHANGED <<remote, store, syncing, todo, step, incidents>>

Restart ==
  /\ Incident
  /\ syncing' = {} /\ due' = Ids /\ todo' = {}
  /\ step' = [w \in Workers |-> None]
  /\ UNCHANGED <<remote, store>>

Next ==
  \/ \E r \in Remotes :
       \/ Publish(r) \/ Unpublish(r) \/ FallsSilent(r) \/ ComesBack(r)
       \/ \E enabled \in BOOLEAN : Create(r, enabled)
       \/ \E i \in Ids : Move(i, r)
  \/ \E i \in Ids :
       \/ \E enabled \in BOOLEAN : Enable(i, enabled)
       \/ Delete(i) \/ Unseen(i) \/ DueAgain(i)
       \/ \E w \in Tasks : AskSync(w, i)
  \/ TickStarts \/ TickVisits
  \/ \E w \in Workers : Checked(w) \/ Claim(w) \/ PullPage(w) \/ PullFails(w)
  \/ Restart

\* The loop and the tasks go on, and time passes.
Fairness ==
  /\ WF_vars(TickStarts) /\ WF_vars(TickVisits)
  /\ \A w \in Workers :
       WF_vars(Checked(w)) /\ WF_vars(Claim(w)) /\ WF_vars(PullPage(w) \/ PullFails(w))
  /\ \A i \in Ids : WF_vars(Unseen(i)) /\ WF_vars(DueAgain(i))

Spec == Init /\ [][Next]_vars /\ Fairness

-----------------------------------------------------------------------------
(* Properties.                                                             *)

RowRecords ==
  [at : Remotes, enabled : BOOLEAN, playable : BOOLEAN, seen : BOOLEAN, cursor : Nat]
StepRecords ==
  [at : {"checking", "claiming"}, id : Ids]
    \union [at : {"pulling"}, id : Ids, from : Remotes, cursor : Nat]

TypeOK ==
  /\ published \in [Remotes -> SUBSET Numbers] /\ high \in [Remotes -> Nat]
  /\ answers \in [Remotes -> BOOLEAN] /\ reused \subseteq Remotes \X Numbers
  /\ row \in [Ids -> RowRecords \union {None}]
  /\ mirror \in [Ids -> SUBSET Numbers] /\ moved \subseteq Ids
  /\ syncing \subseteq Ids /\ due \subseteq Ids /\ todo \subseteq Ids
  /\ step \in [Workers -> StepRecords \union {None}]
  /\ incidents \in 0..MaxIncidents

\* The songs of a remote whose number has only ever been one song's.
Lasting(r) == {k \in published[r] : <<r, k>> \notin reused}

\* What lies behind the cursor of a row is in the mirror, so a pull that goes on from it after
\* a failure or a restart misses nothing.
CursorCovers ==
  \A i \in Rows : i \notin moved =>
    {k \in Lasting(row[i].at) : k <= row[i].cursor} \subseteq mirror[i]

\* No pull undoes the progress of another: the cursor of a row never goes back.
CursorNeverBack ==
  [][\A i \in Rows : row'[i] # None /\ i \notin moved => row'[i].cursor >= row[i].cursor]_vars

\* A remote that falls silent for good disappears from search and from playing.
Shown(i) == row[i] # None /\ row[i].enabled /\ row[i].playable
SilentIsHidden ==
  \A i \in Ids :
    <>[](row[i] # None /\ ~answers[row[i].at]) => <>[]~Shown(i)

\* Claims that nobody is going to give up: no pull of the row is made before a restart.
Stuck == {i \in syncing : \A w \in Workers : Pulling(w) => step[w].id # i}

\* The catalogue of a remote that answers arrives here, whatever failed before, unless the
\* claim on its row is stuck.
CatalogueArrives ==
  \A i \in Ids :
    <>[](/\ row[i] # None /\ i \notin moved /\ row[i].enabled /\ answers[row[i].at]
         /\ i \notin Stuck)
      => []<>(row[i] # None /\ Lasting(row[i].at) \subseteq mirror[i])

=============================================================================
