------------------------------ MODULE Wrapped ------------------------------
(***************************************************************************)
(* The yearly summaries (wrapped_service.py, personalization_service.py).  *)
(* Clients report what is played, at least once and in any order; each     *)
(* user's reports are rows of a database of their own.  A summary is built *)
(* from the rows of one year and stored; a stored one is served while the  *)
(* number of rows and the latest of them are what it was built from.       *)
(* Regenerations by the administrator, the daily pipeline and page views   *)
(* all build and store summaries, each in several transactions; once the   *)
(* year is over a regeneration also freezes them in a snapshot.            *)
(*                                                                         *)
(* One year is modelled, of YearDays days; day YearDays + 1 stands for     *)
(* all that come after it.  A summary is the set of plays it counts, with  *)
(* the number and the latest of its rows; rankings, months and pictures    *)
(* are functions of these and left out, and so is the party's summary.     *)
(***************************************************************************)
EXTENDS Naturals, FiniteSets

CONSTANTS Users,        \* active accounts
          Plays,        \* sessions of somebody listening to a song
          Listener,     \* whose each play is
          Reports,      \* the reports a session may make: their kind, and if for long enough
          Jobs,         \* regenerations asked for by the administrator
          Kind,         \* what each job is: "locked", "open" or one user's
          YearDays,     \* bound: days in a year
          MaxIncidents, \* bound: jobs, views, resets, deletions, lost answers, failed reads, failures, timeouts
          None

Daily == "daily"
Runs == Jobs \union {Daily}
Kinds == {"locked", "open"} \union Users
Finals == {"play_complete", "skip"}
ReportKinds == [kind : Finals \union {"play_30s"}, long : BOOLEAN]

ASSUME WrappedAssumption ==
  /\ Listener \in [Plays -> Users]
  /\ Reports \subseteq ReportKinds
  /\ \A e \in Reports : e.kind # "skip" => e.long
  /\ Kind \in [Jobs -> Kinds]
  /\ Users \intersect {"locked", "open"} = {}
  /\ Daily \notin Jobs /\ None \notin Jobs
  /\ None \notin [job : Jobs \union {None}, old : BOOLEAN]
  /\ YearDays \in Nat \ {0}
  /\ MaxIncidents \in Nat
  /\ IsFiniteSet(Users) /\ IsFiniteSet(Plays)

VARIABLES
  day,        \* today, in UTC
  emitted,    \* the reports the clients have made, as stamped by their clocks
  outbox,     \* those the client has no answer for yet
  raw,        \* the rows of user_tracking_raw
  gone,       \* the plays whose song has been deleted since
  aggregate,  \* the stored summary of each user
  snapshot,   \* the frozen summary of each user
  view,       \* for each user, the summary a page view has built and not stored yet
  run,        \* for each regeneration, where it is
  lock,       \* the regeneration lock: None, or its job (None: no job yet) and its age
  marker,     \* the day the pipeline has last completed for (0: none)
  resetting,  \* users whose reset has not purged their rows yet
  incidents   \* history: how many of them so far

\* History of what happened, read by the properties only.
VARIABLES
  due,        \* the plays a summary built at the end of the year would count
  straddled,  \* users whose snapshot was built by a run begun before the year was over
  misread,    \* users whose snapshot was built from rows that could not be read
  wiped,      \* users who have been reset
  slipped     \* a run lost its lock to the timeout, or before its job was in the row
clients == <<emitted, outbox>>
history == <<due, straddled, misread, wiped, slipped>>
vars == <<day, clients, raw, gone, aggregate, snapshot, view, run, lock, marker, resetting,
          incidents, history>>

\* Of each run: where it is, the users left, the one whose summary it is about to store, the
\* summaries it has; history: if it was begun in the year, and whose rows it could not read.
Idle == [at |-> "idle", left |-> {}, held |-> None, got |-> [u \in Users |-> None],
         early |-> FALSE, missed |-> {}]

Init ==
  /\ day = 1
  /\ emitted = {} /\ outbox = {} /\ raw = {} /\ gone = {}
  /\ aggregate = [u \in Users |-> None]
  /\ snapshot = [u \in Users |-> None]
  /\ view = [u \in Users |-> None]
  /\ run = [r \in Runs |-> Idle]
  /\ lock = None /\ marker = 0 /\ resetting = {} /\ incidents = 0
  /\ due = {} /\ straddled = {} /\ misread = {} /\ wiped = {} /\ slipped = FALSE

Incident == incidents < MaxIncidents /\ incidents' = incidents + 1

-----------------------------------------------------------------------------
(* Summaries.                                                              *)

Closed == day > YearDays

RowsOf(u) == {e \in raw : Listener[e.play] = u}

\* When the latest row was made, if there is one.
Latest(rows) == {n \in {e.at : e \in rows} : \A e \in rows : e.at <= n}

\* The row that stands for a session: the completion, or else the skip, or else the halfway mark.
Terminal(p, rows) ==
  LET mine == {e \in rows : e.play = p}
      Of(kind) == {e \in mine : e.kind = kind}
  IN  IF Of("play_complete") # {} THEN Of("play_complete")
      ELSE IF Of("skip") # {} THEN Of("skip") ELSE Of("play_30s")

\* A session is looked up by its song.
Found == Plays \ gone

\* The sessions that count: completed, or listened to for long enough.
Counted(rows) == {p \in Found : \E e \in Terminal(p, rows) : e.long}

Summary(u) == [plays |-> Counted(RowsOf(u)), count |-> Cardinality(RowsOf(u)),
               latest |-> Latest(RowsOf(u))]

\* A read that fails is passed over: the summary is of what there is in the older table, which
\* has ends of sessions by the time they came in at, or of nothing.
Partial(u) ==
  {[plays |-> Counted(R), count |-> Cardinality(R), latest |-> {}] :
     R \in SUBSET {e \in RowsOf(u) : e.kind \in Finals}}

\* _fetch_canonical_tracking_rows: what a summary that is built now may be.
Built(u) == {Summary(u)} \union Partial(u)

\* A failing read is an incident.
Reads(u, s) == IF s = Summary(u) THEN UNCHANGED incidents ELSE Incident

\* Whose rows a run could not read, when s is what it got for u.
Missed(r, u, s) == IF s = Summary(u) THEN run[r].missed \ {u} ELSE run[r].missed \union {u}

\* _is_user_aggregate_stale, of a stored summary.
Fresh(u, s) ==
  /\ s # None
  /\ s.count = Cardinality(RowsOf(u))
  /\ s.latest = Latest(RowsOf(u))

-----------------------------------------------------------------------------
(* Reports.                                                                *)

\* The client stamps a report with the time and with an identity of its own.
NewReport(p, what) ==
  [play |-> p, kind |-> what.kind, long |-> what.long,
   at |-> 1 + Cardinality({e \in emitted : Listener[e.play] = Listener[p]})]

\* A session reports thirty seconds at most once, then how it ended.
Emit(p, what) ==
  LET mine == {e \in emitted : e.play = p}
      report == NewReport(p, what)
  IN  /\ ~Closed
      /\ \A e \in mine : e.kind \notin Finals
      /\ IF what.kind = "play_30s" THEN mine = {} ELSE mine # {} => what.long
      /\ emitted' = emitted \union {report}
      /\ outbox' = outbox \union {report}
      /\ UNCHANGED <<day, raw, gone, aggregate, snapshot, view, run, lock, marker, resetting,
                     incidents, history>>

\* record_tracking_event: a report that is there already is ignored.
Record(e) == raw' = raw \union {e}

\* recordListenEvent: the client sends a report again until it has an answer.
Sent(e, answered) ==
  IF answered THEN outbox' = outbox \ {e} /\ UNCHANGED incidents
              ELSE Incident /\ UNCHANGED outbox

Report(e, answered) ==
  /\ Record(e)
  /\ Sent(e, answered)
  /\ UNCHANGED <<day, emitted, gone, aggregate, snapshot, view, run, lock, marker, resetting,
                 history>>

DeleteSong(p) ==
  /\ Incident
  /\ gone' = gone \union {p}
  /\ UNCHANGED <<day, clients, raw, aggregate, snapshot, view, run, lock, marker, resetting,
                 history>>

-----------------------------------------------------------------------------
(* Page views: get_or_build_user_wrapped_summary.                          *)

ViewBuilds(u, force) ==
  /\ Incident
  /\ view[u] = None
  /\ force \/ ~Fresh(u, aggregate[u])
  /\ \E s \in Built(u) : view' = [view EXCEPT ![u] = s]
  /\ UNCHANGED <<day, clients, raw, gone, aggregate, snapshot, run, lock, marker, resetting,
                 history>>

ViewStoresAs(u, summary) ==
  /\ view[u] # None
  /\ aggregate' = [aggregate EXCEPT ![u] = summary]
  /\ view' = [view EXCEPT ![u] = None]
  /\ UNCHANGED <<day, clients, raw, gone, snapshot, run, lock, marker, resetting, incidents,
                 history>>
ViewStoresStamped(u) ==
  ViewStoresAs(u, [view[u] EXCEPT !.count = Cardinality(RowsOf(u)), !.latest = Latest(RowsOf(u))])

\* What is stored with the summary describes the rows it was built from.
ViewStores(u) == ViewStoresAs(u, view[u])

-----------------------------------------------------------------------------
(* The regeneration lock.                                                  *)

Locked(r) == r \in Jobs /\ Kind[r] = "locked"
Active(r) == run[r].at \notin {"idle", "done"}

\* A row that is four hours old is no obstacle: the next one to ask replaces it.
Vacant == lock # None => lock.old

Acquire(r) ==
  /\ Locked(r) /\ run[r] = Idle
  /\ Vacant
  /\ Incident
  /\ lock' = [job |-> None, old |-> FALSE]
  /\ run' = [run EXCEPT ![r].at = "acquired"]
  /\ UNCHANGED <<day, clients, raw, gone, aggregate, snapshot, view, marker, resetting, history>>

\* Where a run over the users starts.
Started(at, users) == [Idle EXCEPT !.at = at, !.left = users, !.early = ~Closed]

\* The job exists: its number goes into whatever row there is now, and it starts.
Label(r) ==
  /\ run[r].at = "acquired"
  /\ lock' = IF lock = None THEN None ELSE [job |-> r, old |-> FALSE]
  /\ run' = [run EXCEPT ![r] = Started("building", Users)]
  /\ UNCHANGED <<day, clients, raw, gone, aggregate, snapshot, view, marker, resetting, incidents,
                 history>>

\* The job could not be created: the row is deleted, whosever it is.
NotQueued(r) ==
  /\ run[r].at = "acquired"
  /\ lock' = None
  /\ run' = [run EXCEPT ![r].at = "done"]
  /\ Incident
  /\ slipped' = (slipped \/ \E k \in Runs \ {r} : Locked(k) /\ Active(k))
  /\ UNCHANGED <<day, clients, raw, gone, aggregate, snapshot, view, marker, resetting, due,
                 straddled, misread, wiped>>

\* release_wrapped_regeneration_lock, with the number of the job that ends.
Release(r) ==
  LET mine == lock # None /\ lock.job \in {None, r}
  IN  /\ lock' = IF mine THEN None ELSE lock
      /\ slipped' = (slipped \/ (/\ mine /\ lock.job = None
                                 /\ \E k \in Runs \ {r} : Locked(k) /\ Active(k)))

Ages ==
  /\ Incident
  /\ lock # None /\ ~lock.old
  /\ lock' = [lock EXCEPT !.old = TRUE]
  /\ slipped' = (slipped \/ \E k \in Runs : Locked(k) /\ Active(k))
  /\ UNCHANGED <<day, clients, raw, gone, aggregate, snapshot, view, run, marker, resetting, due,
                 straddled, misread, wiped>>

-----------------------------------------------------------------------------
(* Regenerations: regenerate_wrapped_year.                                 *)

\* A job that takes no lock: of all users, or of one.
Start(r) ==
  /\ Incident
  /\ r \in Jobs /\ ~Locked(r) /\ run[r] = Idle
  /\ run' = [run EXCEPT ![r] = Started("building", IF Kind[r] = "open" THEN Users ELSE {Kind[r]})]
  /\ UNCHANGED <<day, clients, raw, gone, aggregate, snapshot, view, lock, marker, resetting,
                 history>>

DailyStartsWith(mark) ==
  /\ run[Daily] = Idle /\ marker # day /\ ~Closed
  /\ run' = [run EXCEPT ![Daily] = Started("settling", Users)]
  /\ marker' = mark
  /\ UNCHANGED <<day, clients, raw, gone, aggregate, snapshot, view, lock, resetting, incidents,
                 history>>
DailyStartsMarked == DailyStartsWith(day)

\* The pipeline runs once a day, for the year it is.
DailyStarts == DailyStartsWith(marker)

\* The run goes on to another phase when it has been through its users.
Done(r, u, next, users) ==
  IF run[r].left = {u} THEN [run EXCEPT ![r].at = next, ![r].left = users]
                       ELSE [run EXCEPT ![r].left = @ \ {u}]

\* A forced run builds the summaries of all its users before it stores them.
Build(r, u) ==
  /\ run[r].at = "building" /\ u \in run[r].left
  /\ LET moved == Done(r, u, "storing", IF Kind[r] \in Users THEN {Kind[r]} ELSE Users)
     IN  \E s \in Built(u) :
           /\ Reads(u, s)
           /\ run' = [moved EXCEPT ![r].got[u] = s, ![r].missed = Missed(r, u, s)]
  /\ UNCHANGED <<day, clients, raw, gone, aggregate, snapshot, view, lock, marker, resetting,
                 history>>

\* The run of one user then goes through everybody for the party's summary and the snapshot.
Store(r, u) ==
  /\ run[r].at = "storing" /\ u \in run[r].left
  /\ aggregate' = [aggregate EXCEPT ![u] = run[r].got[u]]
  /\ run' = IF Kind[r] \in Users THEN Done(r, u, "settling", Users) ELSE Done(r, u, "freezing", {})
  /\ UNCHANGED <<day, clients, raw, gone, snapshot, view, lock, marker, resetting, incidents,
                 history>>

\* get_or_build_user_wrapped_summary: the stored summary if it is fresh, or a new one ...
SettleWith(r, u, fresh) ==
  /\ run[r].at = "settling" /\ run[r].held = None /\ u \in run[r].left
  /\ IF fresh
     THEN /\ run' = [Done(r, u, "freezing", {}) EXCEPT ![r].got[u] = aggregate[u],
                                                       ![r].missed = @ \ {u}]
          /\ UNCHANGED incidents
     ELSE \E s \in Built(u) :
            /\ Reads(u, s)
            /\ run' = [run EXCEPT ![r].got[u] = s, ![r].held = u, ![r].missed = Missed(r, u, s)]
  /\ UNCHANGED <<day, clients, raw, gone, aggregate, snapshot, view, lock, marker, resetting,
                 history>>
SettleUnchecked(r, u) == SettleWith(r, u, aggregate[u] # None)
Settle(r, u) == SettleWith(r, u, Fresh(u, aggregate[u]))

\* ... which is stored.
SettleStores(r, u) ==
  /\ run[r].at = "settling" /\ run[r].held = u
  /\ aggregate' = [aggregate EXCEPT ![u] = run[r].got[u]]
  /\ run' = [Done(r, u, "freezing", {}) EXCEPT ![r].held = None]
  /\ UNCHANGED <<day, clients, raw, gone, snapshot, view, lock, marker, resetting, incidents,
                 history>>

\* finalize_wrapped_year_snapshot: one transaction; what is there already is left as it is.
Freeze(r) ==
  /\ run[r].at = "freezing"
  /\ LET new == IF Closed THEN {u \in Users : snapshot[u] = None} ELSE {}
     IN  /\ snapshot' = [u \in Users |-> IF u \in new THEN run[r].got[u] ELSE snapshot[u]]
         /\ straddled' = IF run[r].early THEN straddled \union new ELSE straddled
         /\ misread' = misread \union (new \intersect run[r].missed)
  /\ run' = [run EXCEPT ![r].at = IF r = Daily THEN "marking" ELSE "ending"]
  /\ UNCHANGED <<day, clients, raw, gone, aggregate, view, lock, marker, resetting, incidents,
                 due, wiped, slipped>>

\* Only the runs of all users release the lock, those that never took it too.
End(r) ==
  /\ run[r].at = "ending"
  /\ run' = [run EXCEPT ![r] = [Idle EXCEPT !.at = "done"]]
  /\ IF Kind[r] \in Users THEN UNCHANGED <<lock, slipped>> ELSE Release(r)
  /\ UNCHANGED <<day, clients, raw, gone, aggregate, snapshot, view, marker, resetting, incidents,
                 due, straddled, misread, wiped>>

DailyMarks ==
  /\ run[Daily].at = "marking"
  /\ marker' = day
  /\ run' = [run EXCEPT ![Daily] = Idle]
  /\ UNCHANGED <<day, clients, raw, gone, aggregate, snapshot, view, lock, resetting, incidents,
                 history>>

\* A step fails: the job is over and releases its lock, the pipeline is tried again later.
Fail(r) ==
  /\ run[r].at \in {"building", "storing", "settling", "freezing", "marking"}
  /\ Incident
  /\ run' = [run EXCEPT ![r] = IF r = Daily THEN Idle ELSE [Idle EXCEPT !.at = "ending"]]
  /\ UNCHANGED <<day, clients, raw, gone, aggregate, snapshot, view, lock, marker, resetting,
                 history>>

-----------------------------------------------------------------------------
(* Resets, time and crashes.                                               *)

\* reset_user_wrapped_data forgets the summaries, then, if asked to, the rows.
Reset(u, purge) ==
  /\ Incident
  /\ u \notin resetting
  /\ aggregate' = [aggregate EXCEPT ![u] = None]
  /\ snapshot' = [snapshot EXCEPT ![u] = None]
  /\ straddled' = straddled \ {u} /\ misread' = misread \ {u}
  /\ wiped' = wiped \union {u}
  /\ resetting' = IF purge THEN resetting \union {u} ELSE resetting
  /\ UNCHANGED <<day, clients, raw, gone, view, run, lock, marker, due, slipped>>

Purge(u) ==
  /\ u \in resetting
  /\ raw' = raw \ RowsOf(u)
  /\ resetting' = resetting \ {u}
  /\ UNCHANGED <<day, clients, gone, aggregate, snapshot, view, run, lock, marker, incidents,
                 history>>

\* No day ends before its pipeline has run (it is tried every few minutes).
DayIsLong == marker = day

NextDay ==
  /\ ~Closed /\ DayIsLong
  /\ day' = day + 1
  /\ due' = IF day = YearDays THEN Counted(raw) ELSE {}
  /\ UNCHANGED <<clients, raw, gone, aggregate, snapshot, view, run, lock, marker, resetting,
                 incidents, straddled, misread, wiped, slipped>>

\* The process dies with its threads; the databases stay, the lock row among them.
Crash ==
  /\ Incident
  /\ run' = [r \in Runs |-> IF Active(r) /\ r # Daily THEN [Idle EXCEPT !.at = "done"]
                            ELSE IF r = Daily THEN Idle ELSE run[r]]
  /\ view' = [u \in Users |-> None]
  /\ resetting' = {}
  /\ UNCHANGED <<day, clients, raw, gone, aggregate, snapshot, lock, marker, history>>

-----------------------------------------------------------------------------
RunStep(r) ==
  \/ \E u \in Users : Build(r, u) \/ Store(r, u) \/ Settle(r, u) \/ SettleStores(r, u)
  \/ Freeze(r)
  \/ End(r)

Next ==
  \/ \E p \in Plays, what \in Reports : Emit(p, what)
  \/ \E e \in outbox, answered \in BOOLEAN : Report(e, answered)
  \/ \E p \in Plays : DeleteSong(p)
  \/ \E u \in Users, flag \in BOOLEAN : ViewBuilds(u, flag) \/ Reset(u, flag)
  \/ \E u \in Users : ViewStores(u) \/ Purge(u)
  \/ \E r \in Jobs : Acquire(r) \/ Label(r) \/ NotQueued(r) \/ Start(r)
  \/ \E r \in Runs : RunStep(r) \/ Fail(r)
  \/ DailyStarts \/ DailyMarks
  \/ Ages \/ NextDay \/ Crash

Spec == Init /\ [][Next]_vars

\* The scheduler's loop goes on, and so does the pipeline it runs.
DailyStep == DailyStarts \/ DailyMarks \/ RunStep(Daily)

FairSpec == Spec /\ WF_vars(DailyStep) /\ WF_vars(NextDay)

-----------------------------------------------------------------------------
\* The rows of user_wrapped_aggregate and wrapped_yearly_snapshots.
Summaries == [plays : SUBSET Plays, count : Nat, latest : SUBSET Nat]

TypeOK ==
  /\ day \in 1..(YearDays + 1)
  /\ emitted \subseteq [play : Plays, kind : Finals \union {"play_30s"}, long : BOOLEAN, at : Nat]
  /\ outbox \subseteq emitted /\ raw \subseteq emitted /\ gone \subseteq Plays
  /\ aggregate \in [Users -> Summaries \union {None}]
  /\ snapshot \in [Users -> Summaries \union {None}]
  /\ view \in [Users -> Summaries \union {None}]
  /\ run \in [Runs -> [at : {"idle", "acquired", "building", "storing", "settling", "freezing",
                             "marking", "ending", "done"},
                       left : SUBSET Users, held : Users \union {None},
                       got : [Users -> Summaries \union {None}], early : BOOLEAN,
                       missed : SUBSET Users]]
  /\ lock \in [job : Jobs \union {None}, old : BOOLEAN] \union {None}
  /\ marker \in 0..(YearDays + 1)
  /\ resetting \subseteq Users /\ straddled \subseteq Users /\ misread \subseteq Users
  /\ wiped \subseteq Users
  /\ incidents \in 0..MaxIncidents /\ slipped \in BOOLEAN /\ due \subseteq Plays

\* A stored summary that is served as up to date counts exactly the sessions that the rows
\* of the year have, whatever order the reports came in, how often each was sent and who
\* stored it; of songs that have been deleted since it may still count the sessions, and a
\* report that is sent again after a reset may make other rows look like those it counts.
ServedIsTrue ==
  \A u \in Users \ wiped : Fresh(u, aggregate[u]) => aggregate[u].plays \ gone = Counted(RowsOf(u))

\* The snapshot of a user who was not reset counts every session that had been reported when
\* the year ended, unless the run that took it was begun before or could not read the rows
\* of that very user: a read that failed for others, or for an earlier summary of the user,
\* is made good before the snapshot is taken.
SnapshotIsComplete ==
  \A u \in Users \ (wiped \union straddled \union misread) :
    snapshot[u] # None => {p \in due : Listener[p] = u} \ gone \subseteq snapshot[u].plays

\* Two regenerations that took the lock run at once only after one of them has been at it
\* for longer than the four hours, or lost the row before its job's number was in it.
OneLockedRun ==
  ~slipped => \A r, k \in Runs : Locked(r) /\ Active(r) /\ Locked(k) /\ Active(k) => r = k

\* What was reported before the last day of the year comes to be in the stored summary of
\* its listener, whoever else stores an older one meanwhile and whatever reads fail before,
\* unless it is deleted or reset, or the last day's pipeline cannot read the listener's rows.
EveryPlaySummarised ==
  \A p \in Plays :
    (p \in Counted(raw) /\ day < YearDays)
      ~> (\/ p \in gone \/ Listener[p] \in wiped
          \/ day = YearDays /\ Listener[p] \in run[Daily].missed
          \/ aggregate[Listener[p]] # None /\ p \in aggregate[Listener[p]].plays)
=============================================================================
