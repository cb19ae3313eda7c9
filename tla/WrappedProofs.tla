---------------------------- MODULE WrappedProofs ----------------------------
(***************************************************************************)
(* Proofs about Wrapped, for any users, plays, reports, regenerations and  *)
(* any number of days and incidents.                                       *)
(***************************************************************************)
EXTENDS Wrapped, FiniteSetTheorems, TLAPS

LEMMA Given ==
  /\ Listener \in [Plays -> Users] /\ Reports \subseteq ReportKinds
  /\ Daily \notin Jobs /\ None \notin Jobs
  /\ \A j \in Jobs \union {None} : None # [job |-> j, old |-> FALSE]
  /\ YearDays \in Nat /\ YearDays # 0 /\ MaxIncidents \in Nat
<1>1. Listener \in [Plays -> Users] /\ Reports \subseteq ReportKinds
      /\ Daily \notin Jobs /\ None \notin Jobs
      /\ YearDays \in Nat /\ YearDays # 0 /\ MaxIncidents \in Nat
  BY WrappedAssumption DEF WrappedAssumption
<1>2. None \notin [job : Jobs \union {None}, old : BOOLEAN]
  BY WrappedAssumption DEF WrappedAssumption
<1>3. ASSUME NEW j \in Jobs \union {None}, None = [job |-> j, old |-> FALSE] PROVE FALSE
  <2>1. [job |-> j, old |-> FALSE] \in [job : Jobs \union {None}, old : BOOLEAN]
    OBVIOUS
  <2> QED
    BY <1>2, <1>3, <2>1, Zenon
<1> QED
  BY <1>1, <1>3

-----------------------------------------------------------------------------
(* Types.                                                                   *)

ReportRecords == [play : Plays, kind : Finals \union {"play_30s"}, long : BOOLEAN, at : Nat]

Phases == {"idle", "acquired", "building", "storing", "settling", "freezing", "marking",
           "ending", "done"}
RunRecords == [at : Phases, left : SUBSET Users, held : Users \union {None},
               got : [Users -> Summaries \union {None}], early : BOOLEAN,
               missed : SUBSET Users]
LockRecords == [job : Jobs \union {None}, old : BOOLEAN]

ReportTypes ==
  /\ emitted \subseteq ReportRecords /\ IsFiniteSet(emitted)
  /\ outbox \subseteq emitted /\ raw \subseteq emitted /\ gone \subseteq Plays

StoredTypes ==
  /\ aggregate \in [Users -> Summaries \union {None}]
  /\ snapshot \in [Users -> Summaries \union {None}]
  /\ view \in [Users -> Summaries \union {None}]

RunTypes == run \in [Runs -> RunRecords]

RestTypes ==
  /\ day \in 1..(YearDays + 1) /\ marker \in 0..(YearDays + 1)
  /\ lock \in LockRecords \union {None}
  /\ resetting \subseteq Users /\ straddled \subseteq Users /\ misread \subseteq Users
  /\ wiped \subseteq Users
  /\ incidents \in 0..MaxIncidents /\ slipped \in BOOLEAN /\ due \subseteq Plays

Types == ReportTypes /\ StoredTypes /\ RunTypes /\ RestTypes

LEMMA TypesCover == Types => TypeOK
BY DEF Types, ReportTypes, StoredTypes, RunTypes, RestTypes, TypeOK, ReportRecords, RunRecords,
       LockRecords, Phases

LEMMA RowsAreFinite ==
  ASSUME ReportTypes, NEW u
  PROVE  IsFiniteSet(RowsOf(u)) /\ Cardinality(RowsOf(u)) \in Nat
<1>1. RowsOf(u) \subseteq emitted
  BY DEF RowsOf, ReportTypes
<1> QED
  BY <1>1, FS_Subset, FS_CardinalityType DEF ReportTypes

LEMMA SummaryTypes ==
  ASSUME ReportTypes, NEW u PROVE Built(u) \subseteq Summaries
<1>1. \A R : Counted(R) \in SUBSET Plays
  BY DEF Counted, Found
<1>2. \A R \in SUBSET RowsOf(u) : Cardinality(R) \in Nat
  BY RowsAreFinite, FS_Subset, FS_CardinalityType
<1>3. Latest(RowsOf(u)) \in SUBSET Nat
  <2>1. RowsOf(u) \subseteq ReportRecords
    BY DEF RowsOf, ReportTypes
  <2> QED
    BY <2>1 DEF Latest, ReportRecords
<1>4. Summary(u) \in Summaries
  BY <1>1, <1>2, <1>3 DEF Summary, Summaries
<1>5. Partial(u) \subseteq Summaries
  BY <1>1, <1>2 DEF Partial, Summaries
<1> QED
  BY <1>4, <1>5 DEF Built

LEMMA IncidentTypes ==
  ASSUME incidents \in 0..MaxIncidents, Incident \/ UNCHANGED incidents
  PROVE  incidents' \in 0..MaxIncidents
BY Given DEF Incident

LEMMA TypeInit == Init => Types
<1> SUFFICES ASSUME Init PROVE Types
  OBVIOUS
<1>1. ReportTypes
  BY FS_EmptySet DEF Init, ReportTypes
<1>2. StoredTypes
  BY DEF Init, StoredTypes
<1>3. RunTypes
  BY DEF Init, RunTypes, Idle, RunRecords, Phases
<1>4. RestTypes
  <2>1. 1 \in 1..(YearDays + 1) /\ 0 \in 0..(YearDays + 1) /\ 0 \in 0..MaxIncidents
    BY Given
  <2> QED
    BY <2>1 DEF Init, RestTypes
<1> QED
  BY <1>1, <1>2, <1>3, <1>4 DEF Types

LEMMA ReportTypesStep == Types /\ [Next]_vars => ReportTypes'
<1> SUFFICES ASSUME Types, [Next]_vars PROVE ReportTypes'
  OBVIOUS
<1> USE DEF Types
<1>1. ASSUME NEW p \in Plays, NEW what \in Reports, Emit(p, what) PROVE ReportTypes'
  <2>1. NewReport(p, what) \in ReportRecords
    <3>1. {e \in emitted : Listener[e.play] = Listener[p]} \subseteq emitted
      OBVIOUS
    <3>2. Cardinality({e \in emitted : Listener[e.play] = Listener[p]}) \in Nat
      BY <3>1, FS_Subset, FS_CardinalityType DEF ReportTypes
    <3>3. what.kind \in Finals \union {"play_30s"} /\ what.long \in BOOLEAN
      BY Given DEF ReportKinds
    <3> QED
      BY <3>2, <3>3 DEF NewReport, ReportRecords
  <2>2. emitted' = emitted \union {NewReport(p, what)}
        /\ outbox' = outbox \union {NewReport(p, what)} /\ UNCHANGED <<raw, gone>>
    BY <1>1 DEF Emit
  <2>3. IsFiniteSet(emitted')
    BY <2>2, FS_AddElement DEF ReportTypes
  <2> QED
    BY <2>1, <2>2, <2>3 DEF ReportTypes
<1>2. ASSUME NEW e \in outbox, NEW answered \in BOOLEAN, Report(e, answered) PROVE ReportTypes'
  BY <1>2 DEF Report, Record, Sent, ReportTypes
<1>3. ASSUME NEW p \in Plays, DeleteSong(p) PROVE ReportTypes'
  BY <1>3 DEF DeleteSong, ReportTypes, clients
<1>4. ASSUME NEW u \in Users, Purge(u) PROVE ReportTypes'
  BY <1>4 DEF Purge, ReportTypes, clients
<1>5. CASE UNCHANGED <<clients, raw, gone>>
  BY <1>5 DEF ReportTypes, clients
<1>6. ASSUME NEW u \in Users, NEW flag \in BOOLEAN, ViewBuilds(u, flag) \/ Reset(u, flag)
      PROVE  UNCHANGED <<clients, raw, gone>>
  BY <1>6 DEF ViewBuilds, Reset
<1>7. ASSUME NEW u \in Users, ViewStores(u) PROVE UNCHANGED <<clients, raw, gone>>
  BY <1>7 DEF ViewStores, ViewStoresAs
<1>8. ASSUME NEW r \in Jobs, Acquire(r) \/ Label(r) \/ NotQueued(r) \/ Start(r)
      PROVE  UNCHANGED <<clients, raw, gone>>
  BY <1>8 DEF Acquire, Label, NotQueued, Start
<1>9. ASSUME NEW r \in Runs, RunStep(r) \/ Fail(r) PROVE UNCHANGED <<clients, raw, gone>>
  BY <1>9 DEF RunStep, Build, Store, Settle, SettleWith, SettleStores, Freeze, End, Fail
<1>10. CASE DailyStarts \/ DailyMarks \/ Ages \/ NextDay \/ Crash \/ UNCHANGED vars
  BY <1>5, <1>10 DEF DailyStarts, DailyStartsWith, DailyMarks, Ages, NextDay, Crash, vars
<1> QED
  BY <1>1, <1>2, <1>3, <1>4, <1>5, <1>6, <1>7, <1>8, <1>9, <1>10 DEF Next

LEMMA StoredTypesStep == Types /\ [Next]_vars => StoredTypes'
<1> SUFFICES ASSUME Types, [Next]_vars PROVE StoredTypes'
  OBVIOUS
<1>0. \A u \in Users : Built(u) \subseteq Summaries
  BY SummaryTypes DEF Types
<1>1. \A r \in Runs : run[r].got \in [Users -> Summaries \union {None}]
  BY DEF Types, RunTypes, RunRecords
<1>2. CASE UNCHANGED <<aggregate, snapshot, view>>
  BY <1>2 DEF Types, StoredTypes
<1>3. ASSUME NEW u \in Users, NEW flag \in BOOLEAN, ViewBuilds(u, flag) \/ Reset(u, flag)
      PROVE  StoredTypes'
  BY <1>0, <1>3 DEF ViewBuilds, Reset, Types, StoredTypes
<1>4. ASSUME NEW u \in Users, ViewStores(u) \/ Purge(u) PROVE StoredTypes'
  BY <1>4 DEF ViewStores, ViewStoresAs, Purge, Types, StoredTypes
<1>5. ASSUME NEW r \in Runs, NEW u \in Users, Store(r, u) \/ SettleStores(r, u) PROVE StoredTypes'
  BY <1>1, <1>5 DEF Store, SettleStores, Types, StoredTypes
<1>6. ASSUME NEW r \in Runs, Freeze(r) PROVE StoredTypes'
  <2>1. PICK new \in SUBSET Users :
          snapshot' = [u \in Users |-> IF u \in new THEN run[r].got[u] ELSE snapshot[u]]
    BY <1>6 DEF Freeze
  <2> QED
    BY <1>1, <1>6, <2>1 DEF Freeze, Types, StoredTypes
<1>7. CASE Crash
  BY <1>7 DEF Crash, Types, StoredTypes
<1>8. ASSUME NEW r \in Runs, NEW u \in Users, Build(r, u) \/ Settle(r, u)
      PROVE  UNCHANGED <<aggregate, snapshot, view>>
  BY <1>8 DEF Build, Settle, SettleWith
<1>9. ASSUME NEW r \in Runs, End(r) \/ Fail(r) PROVE UNCHANGED <<aggregate, snapshot, view>>
  BY <1>9 DEF End, Fail
<1>10. ASSUME NEW r \in Jobs, Acquire(r) \/ Label(r) \/ NotQueued(r) \/ Start(r)
       PROVE  UNCHANGED <<aggregate, snapshot, view>>
  BY <1>10 DEF Acquire, Label, NotQueued, Start
<1>11. ASSUME NEW p \in Plays, NEW what \in Reports, Emit(p, what)
       PROVE  UNCHANGED <<aggregate, snapshot, view>>
  BY <1>11 DEF Emit
<1>12. ASSUME NEW e \in outbox, NEW answered \in BOOLEAN, Report(e, answered)
       PROVE  UNCHANGED <<aggregate, snapshot, view>>
  BY <1>12 DEF Report
<1>13. CASE DailyStarts \/ DailyMarks \/ Ages \/ NextDay \/ UNCHANGED vars
  BY <1>2, <1>13 DEF DailyStarts, DailyStartsWith, DailyMarks, Ages, NextDay, vars
<1>14. CASE \E r \in Runs : RunStep(r)
  BY <1>2, <1>5, <1>6, <1>8, <1>9, <1>14 DEF RunStep
<1>15. ASSUME NEW p \in Plays, DeleteSong(p) PROVE UNCHANGED <<aggregate, snapshot, view>>
  BY <1>15 DEF DeleteSong
<1> QED
  BY <1>2, <1>3, <1>4, <1>7, <1>9, <1>10, <1>11, <1>12, <1>13, <1>14, <1>15 DEF Next

\* What becomes of the record of a run, whatever is left of its users.
LEMMA DoneTypes ==
  ASSUME RunTypes, NEW r \in Runs, NEW u, NEW next \in Phases, NEW users \in SUBSET Users
  PROVE  Done(r, u, next, users) \in [Runs -> RunRecords]
BY DEF RunTypes, RunRecords, Done

LEMMA PutTypes ==
  ASSUME NEW f \in [Runs -> RunRecords], NEW r \in Runs, NEW u \in Users,
         NEW s \in Summaries \union {None}, NEW held \in Users \union {None},
         NEW missed \in SUBSET Users
  PROVE  /\ [f EXCEPT ![r].got[u] = s, ![r].missed = missed] \in [Runs -> RunRecords]
         /\ [f EXCEPT ![r].got[u] = s, ![r].held = held, ![r].missed = missed] \in [Runs -> RunRecords]
         /\ [f EXCEPT ![r].held = held] \in [Runs -> RunRecords]
<1>1. f[r] \in RunRecords
  OBVIOUS
<1>2. [f[r].got EXCEPT ![u] = s] \in [Users -> Summaries \union {None}]
  BY <1>1 DEF RunRecords
<1> QED
  BY <1>1, <1>2 DEF RunRecords

LEMMA RunTypesStep == Types /\ [Next]_vars => RunTypes'
<1> SUFFICES ASSUME Types, [Next]_vars PROVE RunTypes'
  OBVIOUS
<1>0. \A u \in Users : Built(u) \subseteq Summaries /\ aggregate[u] \in Summaries \union {None}
  BY SummaryTypes DEF Types, StoredTypes
<1>1. RunTypes /\ Idle \in RunRecords /\ \A r \in Runs : run[r].missed \in SUBSET Users
  BY DEF Types, RunTypes, Idle, RunRecords, Phases
<1>2. CASE UNCHANGED run
  BY <1>1, <1>2 DEF RunTypes
<1>3. ASSUME NEW at \in Phases, NEW users \in SUBSET Users PROVE Started(at, users) \in RunRecords
  BY DEF Started, Idle, RunRecords, Phases
<1>4. ASSUME NEW r \in Jobs, Acquire(r) \/ Label(r) \/ NotQueued(r) \/ Start(r) PROVE RunTypes'
  <2>1. r \in Runs
    BY DEF Runs
  <2>2. CASE Acquire(r) \/ NotQueued(r)
    <3>1. PICK at \in Phases : run' = [run EXCEPT ![r].at = at]
      BY <2>2 DEF Acquire, NotQueued, Phases
    <3> QED
      BY <1>1, <2>1, <3>1 DEF RunTypes, RunRecords
  <2>3. CASE Label(r)
    <3>1. run' = [run EXCEPT ![r] = Started("building", Users)] /\ "building" \in Phases
      BY <2>3 DEF Label, Phases
    <3> QED
      BY <1>1, <1>3, <2>1, <3>1 DEF RunTypes
  <2>4. CASE Start(r)
    <3>1. Kind[r] = "locked" \/ Kind[r] = "open" \/ Kind[r] \in Users
      BY WrappedAssumption DEF WrappedAssumption, Kinds
    <3>2. PICK users \in SUBSET Users : run' = [run EXCEPT ![r] = Started("building", users)]
      BY <2>4, <3>1 DEF Start, Locked
    <3>3. "building" \in Phases
      BY DEF Phases
    <3> QED
      BY <1>1, <1>3, <2>1, <3>2, <3>3 DEF RunTypes
  <2> QED
    BY <1>4, <2>2, <2>3, <2>4
<1>5. ASSUME NEW r \in Runs, NEW u \in Users, Build(r, u) PROVE RunTypes'
  <2>1. PICK next \in Phases, users \in SUBSET Users, s \in Built(u) :
          run' = [Done(r, u, next, users) EXCEPT ![r].got[u] = s, ![r].missed = Missed(r, u, s)]
    <3>1. (IF Kind[r] \in Users THEN {Kind[r]} ELSE Users) \in SUBSET Users /\ "storing" \in Phases
      BY DEF Phases
    <3>2. PICK s \in Built(u) :
            run' = [Done(r, u, "storing", IF Kind[r] \in Users THEN {Kind[r]} ELSE Users)
                      EXCEPT ![r].got[u] = s, ![r].missed = Missed(r, u, s)]
      BY <1>5 DEF Build
    <3> QED
      BY <3>1, <3>2
  <2>2. Done(r, u, next, users) \in [Runs -> RunRecords] /\ Missed(r, u, s) \in SUBSET Users
    BY <1>1, DoneTypes DEF Missed
  <2>3. s \in Summaries \union {None} /\ None \in Users \union {None}
    BY <1>0
  <2> QED
    BY <2>1, <2>2, <2>3, PutTypes DEF RunTypes
<1>6. ASSUME NEW r \in Runs, NEW u \in Users, Store(r, u) PROVE RunTypes'
  <2>1. PICK next \in Phases, users \in SUBSET Users : run' = Done(r, u, next, users)
    <3>1. "settling" \in Phases /\ "freezing" \in Phases /\ {} \in SUBSET Users /\ Users \in SUBSET Users
      BY DEF Phases
    <3> QED
      BY <1>6, <3>1 DEF Store
  <2> QED
    BY <1>1, <2>1, DoneTypes DEF RunTypes
<1>7. ASSUME NEW r \in Runs, NEW u \in Users, Settle(r, u) \/ SettleStores(r, u) PROVE RunTypes'
  <2>1. Done(r, u, "freezing", {}) \in [Runs -> RunRecords]
    <3>1. "freezing" \in Phases /\ {} \in SUBSET Users
      BY DEF Phases
    <3> QED
      BY <1>1, <3>1, DoneTypes
  <2>2. \/ run' = [Done(r, u, "freezing", {}) EXCEPT ![r].got[u] = aggregate[u],
                                                    ![r].missed = @ \ {u}]
        \/ \E s \in Built(u) :
             run' = [run EXCEPT ![r].got[u] = s, ![r].held = u, ![r].missed = Missed(r, u, s)]
        \/ run' = [Done(r, u, "freezing", {}) EXCEPT ![r].held = None]
    BY <1>7 DEF Settle, SettleWith, SettleStores
  <2>3. CASE run' = [Done(r, u, "freezing", {}) EXCEPT ![r].got[u] = aggregate[u],
                                                      ![r].missed = @ \ {u}]
    <3>1. run' = [Done(r, u, "freezing", {}) EXCEPT ![r].got[u] = aggregate[u],
                    ![r].missed = Done(r, u, "freezing", {})[r].missed \ {u}]
      BY <2>3
    <3>2. Done(r, u, "freezing", {})[r].missed \ {u} \in SUBSET Users
      BY <2>1 DEF RunRecords
    <3>3. None \in Users \union {None}
      OBVIOUS
    <3> QED
      BY <1>0, <2>1, <3>1, <3>2, <3>3, PutTypes DEF RunTypes
  <2>4. CASE \E s \in Built(u) :
               run' = [run EXCEPT ![r].got[u] = s, ![r].held = u, ![r].missed = Missed(r, u, s)]
    <3>1. PICK s \in Built(u) :
            run' = [run EXCEPT ![r].got[u] = s, ![r].held = u, ![r].missed = Missed(r, u, s)]
      BY <2>4
    <3>2. s \in Summaries \union {None} /\ Missed(r, u, s) \in SUBSET Users
      BY <1>0, <1>1 DEF Missed
    <3> QED
      BY <1>1, <3>1, <3>2, PutTypes DEF RunTypes
  <2>5. CASE run' = [Done(r, u, "freezing", {}) EXCEPT ![r].held = None]
    BY <1>0, <2>1, <2>5, PutTypes DEF RunTypes
  <2> QED
    BY <2>2, <2>3, <2>4, <2>5
<1>8. ASSUME NEW r \in Runs, Freeze(r) PROVE RunTypes'
  <2>1. PICK at \in Phases : run' = [run EXCEPT ![r].at = at]
    BY <1>8 DEF Freeze, Phases
  <2> QED
    BY <1>1, <2>1 DEF RunTypes, RunRecords
<1>9. ASSUME NEW r \in Runs, End(r) \/ Fail(r) PROVE RunTypes'
  <2>1. \A at \in Phases : [Idle EXCEPT !.at = at] \in RunRecords
    BY <1>1 DEF RunRecords
  <2>2. PICK new \in RunRecords : run' = [run EXCEPT ![r] = new]
    BY <1>1, <1>9, <2>1 DEF End, Fail, Phases
  <2> QED
    BY <1>1, <2>2 DEF RunTypes
<1>10. CASE DailyStarts \/ DailyMarks
  <2>1. Daily \in Runs /\ "settling" \in Phases
    BY DEF Runs, Phases
  <2>2. PICK new \in RunRecords : run' = [run EXCEPT ![Daily] = new]
    BY <1>1, <1>3, <1>10, <2>1 DEF DailyStarts, DailyStartsWith, DailyMarks
  <2> QED
    BY <1>1, <2>2 DEF RunTypes
<1>11. CASE Crash
  <2>1. [Idle EXCEPT !.at = "done"] \in RunRecords
    BY <1>1 DEF RunRecords, Phases
  <2> QED
    BY <1>1, <1>11, <2>1 DEF Crash, RunTypes
<1>12. ASSUME NEW p \in Plays, NEW what \in Reports, Emit(p, what) PROVE UNCHANGED run
  BY <1>12 DEF Emit
<1>13. ASSUME NEW e \in outbox, NEW answered \in BOOLEAN, Report(e, answered) PROVE UNCHANGED run
  BY <1>13 DEF Report
<1>14. ASSUME NEW p \in Plays, DeleteSong(p) PROVE UNCHANGED run
  BY <1>14 DEF DeleteSong
<1>15. ASSUME NEW u \in Users, NEW flag \in BOOLEAN, ViewBuilds(u, flag) \/ Reset(u, flag)
       PROVE  UNCHANGED run
  BY <1>15 DEF ViewBuilds, Reset
<1>16. ASSUME NEW u \in Users, ViewStores(u) \/ Purge(u) PROVE UNCHANGED run
  BY <1>16 DEF ViewStores, ViewStoresAs, Purge
<1>17. CASE Ages \/ NextDay \/ UNCHANGED vars
  BY <1>2, <1>17 DEF Ages, NextDay, vars
<1> QED
  BY <1>2, <1>4, <1>5, <1>6, <1>7, <1>8, <1>9, <1>10, <1>11, <1>12, <1>13, <1>14, <1>15, <1>16,
     <1>17 DEF Next, RunStep

LEMMA RestTypesStep == Types /\ [Next]_vars => RestTypes'
<1> SUFFICES ASSUME Types, [Next]_vars PROVE RestTypes'
  OBVIOUS
<1> USE DEF Types
<1>1. RestTypes /\ ReportTypes
  OBVIOUS
<1>2. Daily \notin Jobs /\ YearDays \in Nat /\ \A r \in Runs \ Jobs : r = Daily
  BY Given DEF Runs
<1>3. CASE UNCHANGED <<day, marker, lock, resetting, history>>
           /\ (Incident \/ UNCHANGED incidents)
  BY <1>1, <1>3, IncidentTypes DEF RestTypes, history
<1>4. ASSUME NEW p \in Plays, NEW what \in Reports, Emit(p, what)
      PROVE  UNCHANGED <<day, marker, lock, resetting, history>> /\ UNCHANGED incidents
  BY <1>4 DEF Emit
<1>5. ASSUME NEW e \in outbox, NEW answered \in BOOLEAN, Report(e, answered)
      PROVE  UNCHANGED <<day, marker, lock, resetting, history>>
             /\ (Incident \/ UNCHANGED incidents)
  BY <1>5 DEF Report, Sent
<1>6. ASSUME NEW p \in Plays, DeleteSong(p)
      PROVE  UNCHANGED <<day, marker, lock, resetting, history>> /\ Incident
  BY <1>6 DEF DeleteSong
<1>7. ASSUME NEW u \in Users, NEW flag \in BOOLEAN, ViewBuilds(u, flag)
      PROVE  UNCHANGED <<day, marker, lock, resetting, history>> /\ Incident
  BY <1>7 DEF ViewBuilds
<1>8. ASSUME NEW u \in Users, NEW flag \in BOOLEAN, Reset(u, flag) PROVE RestTypes'
  BY <1>1, <1>8, IncidentTypes DEF Reset, RestTypes
<1>9. ASSUME NEW u \in Users, ViewStores(u)
      PROVE  UNCHANGED <<day, marker, lock, resetting, history>> /\ UNCHANGED incidents
  BY <1>9 DEF ViewStores, ViewStoresAs
<1>10. ASSUME NEW u \in Users, Purge(u) PROVE RestTypes'
  BY <1>1, <1>10 DEF Purge, RestTypes, history
<1>11. ASSUME NEW r \in Jobs, Acquire(r) \/ Label(r) \/ NotQueued(r) \/ Start(r) PROVE RestTypes'
  <2>1. Incident \/ UNCHANGED incidents
    BY <1>11 DEF Acquire, Label, NotQueued, Start
  <2>2. incidents' \in 0..MaxIncidents
    BY <1>1, <2>1, IncidentTypes DEF RestTypes
  <2>3. lock' \in LockRecords \union {None}
    <3>1. lock' \in {lock, None, [job |-> None, old |-> FALSE], [job |-> r, old |-> FALSE]}
      BY <1>11 DEF Acquire, Label, NotQueued, Start
    <3>2. [job |-> None, old |-> FALSE] \in LockRecords /\ [job |-> r, old |-> FALSE] \in LockRecords
      BY DEF LockRecords
    <3> QED
      BY <1>1, <3>1, <3>2 DEF RestTypes
  <2>4. slipped' \in BOOLEAN
    <3>1. UNCHANGED history \/ slipped' = (slipped \/ \E k \in Runs \ {r} : Locked(k) /\ Active(k))
      BY <1>11 DEF Acquire, Label, NotQueued, Start
    <3> QED
      BY <1>1, <3>1 DEF RestTypes, history
  <2>5. UNCHANGED <<day, marker, resetting, due, straddled, misread, wiped>>
    BY <1>11 DEF Acquire, Label, NotQueued, Start, history
  <2> QED
    BY <1>1, <2>2, <2>3, <2>4, <2>5 DEF RestTypes
<1>12. ASSUME NEW r \in Runs, NEW u \in Users,
              Build(r, u) \/ Store(r, u) \/ Settle(r, u) \/ SettleStores(r, u)
       PROVE  UNCHANGED <<day, marker, lock, resetting, history>> /\ (Incident \/ UNCHANGED incidents)
  BY <1>12 DEF Build, Store, Settle, SettleWith, SettleStores, Reads
<1>13. ASSUME NEW r \in Runs, Freeze(r) PROVE RestTypes'
  <2>1. UNCHANGED <<day, marker, lock, resetting, incidents, due, wiped, slipped>>
        /\ straddled' \subseteq straddled \union Users /\ misread' \subseteq misread \union Users
    BY <1>13 DEF Freeze
  <2> QED
    BY <1>1, <2>1 DEF RestTypes
<1>14. ASSUME NEW r \in Runs, End(r) PROVE RestTypes'
  <2>1. UNCHANGED <<day, marker, resetting, incidents, due, straddled, misread, wiped>>
    BY <1>14 DEF End
  <2>2. lock' \in {lock, None}
    BY <1>14 DEF End, Release
  <2>3. slipped' \in BOOLEAN
    <3>1. UNCHANGED slipped
          \/ slipped' = (slipped \/ (/\ lock # None /\ lock.job \in {None, r} /\ lock.job = None
                                     /\ \E k \in Runs \ {r} : Locked(k) /\ Active(k)))
      BY <1>14 DEF End, Release
    <3> QED
      BY <1>1, <3>1 DEF RestTypes
  <2> QED
    BY <1>1, <2>1, <2>2, <2>3 DEF RestTypes
<1>15. ASSUME NEW r \in Runs, Fail(r)
       PROVE  UNCHANGED <<day, marker, lock, resetting, history>> /\ Incident
  BY <1>15 DEF Fail
<1>16. CASE DailyStarts \/ DailyMarks
  BY <1>1, <1>16 DEF DailyStarts, DailyStartsWith, DailyMarks, RestTypes, history
<1>17. CASE Ages
  <2>1. slipped' = (slipped \/ \E k \in Runs : Locked(k) /\ Active(k))
        /\ UNCHANGED <<day, marker, resetting, due, straddled, misread, wiped>> /\ Incident
    BY <1>17 DEF Ages
  <2>2. lock' \in LockRecords
    BY <1>1, <1>17 DEF Ages, RestTypes, LockRecords
  <2> QED
    BY <1>1, <2>1, <2>2, IncidentTypes DEF RestTypes
<1>18. CASE NextDay
  <2>1. Counted(raw) \subseteq Plays
    BY DEF Counted, Found
  <2>2. day' \in 1..(YearDays + 1)
    BY <1>1, <1>2, <1>18 DEF NextDay, Closed, RestTypes
  <2> QED
    BY <1>1, <1>18, <2>1, <2>2 DEF NextDay, RestTypes
<1>19. CASE Crash
  <2>1. UNCHANGED <<day, marker, lock, history>> /\ resetting' = {} /\ Incident
    BY <1>19 DEF Crash
  <2> QED
    BY <1>1, <2>1, IncidentTypes DEF RestTypes, history
<1>20. CASE UNCHANGED vars
  BY <1>3, <1>20 DEF vars
<1> QED
  BY <1>3, <1>4, <1>5, <1>6, <1>7, <1>8, <1>9, <1>10, <1>11, <1>12, <1>13, <1>14, <1>15, <1>16,
     <1>17, <1>18, <1>19, <1>20 DEF Next, RunStep

LEMMA TypeStep == Types /\ [Next]_vars => Types'
BY ReportTypesStep, StoredTypesStep, RunTypesStep, RestTypesStep DEF Types

LEMMA TypesAlways == Spec => []Types
BY TypeInit, TypeStep, PTL DEF Spec

\* The variables have their types, with any number of days and incidents: in particular
\* what is stored, shown or frozen is a whole summary or nothing (Wrapped, TypeOK).
THEOREM TypeCorrect == Spec => []TypeOK
BY TypesAlways, TypesCover, PTL

-----------------------------------------------------------------------------
(* What is stored and served counts the rows.                              *)

\* A summary was built from rows that are still there.
CountsRows(u, s) ==
  s # None => \E R \in SUBSET RowsOf(u) : s.count = Cardinality(R) /\ s.plays \ gone = Counted(R)

Sound ==
  /\ resetting \subseteq wiped
  /\ \A u \in Users \ wiped :
       /\ CountsRows(u, aggregate[u]) /\ CountsRows(u, view[u])
       /\ \A r \in Runs : CountsRows(u, run[r].got[u])

\* The summaries of a user there are, with those that might be built now.
Known(u) == Built(u) \union {None, aggregate[u], view[u]} \union {run[r].got[u] : r \in Runs}

LEMMA SummaryCounts ==
  ASSUME NEW u, NEW s \in Built(u) PROVE CountsRows(u, s)
<1>1. \A R : Counted(R) \ gone = Counted(R)
  BY DEF Counted, Found
<1>2. CASE s = Summary(u)
  BY <1>1, <1>2 DEF CountsRows, Summary
<1>3. CASE s \in Partial(u)
  <2>1. PICK R \in SUBSET {e \in RowsOf(u) : e.kind \in Finals} :
          s.plays = Counted(R) /\ s.count = Cardinality(R)
    BY <1>3 DEF Partial
  <2> QED
    BY <1>1, <2>1 DEF CountsRows
<1> QED
  BY <1>2, <1>3 DEF Built

LEMMA KnownCounts ==
  ASSUME Sound, NEW u \in Users \ wiped, NEW s \in Known(u) PROVE CountsRows(u, s)
<1>1. CASE s = None
  BY <1>1 DEF CountsRows
<1> QED
  BY <1>1, SummaryCounts DEF Sound, Known

\* Rows that come, and songs that go, leave it as sound as it was.
LEMMA StillCounts ==
  ASSUME NEW u, NEW s, CountsRows(u, s), RowsOf(u) \subseteq RowsOf(u)', gone \subseteq gone'
  PROVE  CountsRows(u, s)'
<1> SUFFICES ASSUME s # None
             PROVE  (\E R \in SUBSET RowsOf(u) :
                       s.count = Cardinality(R) /\ s.plays \ gone = Counted(R))'
  BY DEF CountsRows
<1>1. PICK R \in SUBSET RowsOf(u) : s.count = Cardinality(R) /\ s.plays \ gone = Counted(R)
  BY DEF CountsRows
<1>2. Counted(R)' = Counted(R) \ gone'
  BY DEF Counted, Found
<1> QED
  BY <1>1, <1>2

LEMMA RowsStay ==
  ASSUME [Next]_vars, resetting \subseteq wiped
  PROVE  /\ resetting' \subseteq wiped' /\ wiped \subseteq wiped' /\ gone \subseteq gone'
         /\ \A u \in Users \ wiped' : RowsOf(u) \subseteq RowsOf(u)'
<1>1. ASSUME raw \subseteq raw' PROVE \A u \in Users : RowsOf(u) \subseteq RowsOf(u)'
  BY <1>1 DEF RowsOf
<1>2. CASE UNCHANGED <<raw, gone, resetting, wiped>>
  BY <1>1, <1>2
<1>3. ASSUME NEW p \in Plays, NEW what \in Reports, Emit(p, what)
      PROVE  UNCHANGED <<raw, gone, resetting, wiped>>
  BY <1>3 DEF Emit, history
<1>4. ASSUME NEW e \in outbox, NEW answered \in BOOLEAN, Report(e, answered)
      PROVE  raw \subseteq raw' /\ UNCHANGED <<gone, resetting, wiped>>
  BY <1>4 DEF Report, Record, history
<1>5. ASSUME NEW p \in Plays, DeleteSong(p)
      PROVE  gone \subseteq gone' /\ UNCHANGED <<raw, resetting, wiped>>
  BY <1>5 DEF DeleteSong, history
<1>6. ASSUME NEW u \in Users, NEW flag \in BOOLEAN, ViewBuilds(u, flag)
      PROVE  UNCHANGED <<raw, gone, resetting, wiped>>
  BY <1>6 DEF ViewBuilds, history
<1>7. ASSUME NEW u \in Users, NEW flag \in BOOLEAN, Reset(u, flag)
      PROVE  UNCHANGED <<raw, gone>> /\ resetting' \subseteq wiped' /\ wiped \subseteq wiped'
  BY <1>7 DEF Reset
<1>8. ASSUME NEW u \in Users, ViewStores(u) PROVE UNCHANGED <<raw, gone, resetting, wiped>>
  BY <1>8 DEF ViewStores, ViewStoresAs, history
<1>9. ASSUME NEW v \in Users, Purge(v)
      PROVE  /\ resetting' \subseteq resetting /\ UNCHANGED <<gone, wiped>>
             /\ \A u \in Users \ wiped : RowsOf(u) \subseteq RowsOf(u)'
  <2>1. resetting' \subseteq resetting /\ UNCHANGED <<gone, wiped>>
    BY <1>9 DEF Purge, history
  <2>2. raw' = raw \ RowsOf(v) /\ v \in wiped
    BY <1>9 DEF Purge
  <2> QED
    BY <2>1, <2>2 DEF RowsOf
<1>10. ASSUME NEW r \in Jobs, Acquire(r) \/ Label(r) \/ NotQueued(r) \/ Start(r)
       PROVE  UNCHANGED <<raw, gone, resetting, wiped>>
  BY <1>10 DEF Acquire, Label, NotQueued, Start, history
<1>11. ASSUME NEW r \in Runs, RunStep(r) \/ Fail(r)
       PROVE  UNCHANGED <<raw, gone, resetting, wiped>>
  BY <1>11 DEF RunStep, Build, Store, Settle, SettleWith, SettleStores, Freeze, End, Fail, history
<1>12. CASE DailyStarts \/ DailyMarks \/ Ages \/ NextDay \/ UNCHANGED vars
  BY <1>2, <1>12 DEF DailyStarts, DailyStartsWith, DailyMarks, Ages, NextDay, history, vars
<1>13. CASE Crash
  BY <1>1, <1>13 DEF Crash, history
<1> QED
  BY <1>1, <1>2, <1>3, <1>4, <1>5, <1>6, <1>7, <1>8, <1>9, <1>10, <1>11, <1>12, <1>13 DEF Next

LEMMA DoneGot ==
  ASSUME RunTypes, NEW r \in Runs, NEW u, NEW next \in Phases, NEW users \in SUBSET Users,
         NEW k \in Runs
  PROVE  Done(r, u, next, users)[k].got = run[k].got
BY DEF RunTypes, RunRecords, Done

\* No step makes up a summary: it has it from the rows of now, or from where one was.
LEMMA NothingNew ==
  ASSUME Types, [Next]_vars, NEW u \in Users
  PROVE  /\ aggregate'[u] \in Known(u) /\ view'[u] \in Known(u)
         /\ \A r \in Runs : run'[r].got[u] \in Known(u)
<1>1. StoredTypes /\ RunTypes
  BY DEF Types
<1>2. \A r \in Runs : run[r] \in RunRecords /\ run[r].got \in [Users -> Summaries \union {None}]
  BY <1>1 DEF RunTypes, RunRecords
<1>3. None \in Known(u) /\ Built(u) \subseteq Known(u) /\ aggregate[u] \in Known(u)
      /\ view[u] \in Known(u) /\ \A r \in Runs : run[r].got[u] \in Known(u)
  BY DEF Known
<1>4. Idle.got[u] = None
  BY DEF Idle
<1>5. CASE UNCHANGED <<aggregate, view, run>>
  BY <1>3, <1>5
<1>6. ASSUME NEW p \in Plays, NEW what \in Reports, Emit(p, what)
      PROVE  UNCHANGED <<aggregate, view, run>>
  BY <1>6 DEF Emit
<1>7. ASSUME NEW e \in outbox, NEW answered \in BOOLEAN, Report(e, answered)
      PROVE  UNCHANGED <<aggregate, view, run>>
  BY <1>7 DEF Report
<1>8. ASSUME NEW p \in Plays, DeleteSong(p) PROVE UNCHANGED <<aggregate, view, run>>
  BY <1>8 DEF DeleteSong
<1>9. ASSUME NEW v \in Users, NEW flag \in BOOLEAN, ViewBuilds(v, flag)
      PROVE  view'[u] \in Known(u) /\ UNCHANGED <<aggregate, run>>
  BY <1>1, <1>3, <1>9 DEF ViewBuilds, StoredTypes
<1>10. ASSUME NEW v \in Users, NEW flag \in BOOLEAN, Reset(v, flag)
       PROVE  aggregate'[u] \in Known(u) /\ UNCHANGED <<view, run>>
  BY <1>1, <1>3, <1>10 DEF Reset, StoredTypes
<1>11. ASSUME NEW v \in Users, ViewStores(v)
       PROVE  aggregate'[u] \in Known(u) /\ view'[u] \in Known(u) /\ UNCHANGED run
  BY <1>1, <1>3, <1>11 DEF ViewStores, ViewStoresAs, StoredTypes
<1>12. ASSUME NEW v \in Users, Purge(v) PROVE UNCHANGED <<aggregate, view, run>>
  BY <1>12 DEF Purge
<1>13. ASSUME NEW r \in Jobs, Acquire(r) \/ Label(r) \/ NotQueued(r) \/ Start(r)
       PROVE  UNCHANGED <<aggregate, view>> /\ \A k \in Runs : run'[k].got[u] \in {None, run[k].got[u]}
  <2>1. UNCHANGED <<aggregate, view>>
    BY <1>13 DEF Acquire, Label, NotQueued, Start
  <2>2. r \in Runs
    BY DEF Runs
  <2>3. CASE Acquire(r) \/ NotQueued(r)
    <3>1. PICK at : run' = [run EXCEPT ![r].at = at]
      BY <2>3 DEF Acquire, NotQueued
    <3> QED
      BY <1>1, <1>2, <2>1, <2>2, <3>1 DEF RunTypes, RunRecords
  <2>4. CASE Label(r) \/ Start(r)
    <3>1. PICK users : run' = [run EXCEPT ![r] = Started("building", users)]
      BY <2>4 DEF Label, Start
    <3>2. Started("building", users).got[u] = None
      BY <1>4 DEF Started, Idle
    <3> QED
      BY <1>1, <2>1, <2>2, <3>1, <3>2 DEF RunTypes
  <2> QED
    BY <1>13, <2>3, <2>4
<1>14. ASSUME NEW r \in Runs, NEW v \in Users, Build(r, v)
       PROVE  UNCHANGED <<aggregate, view>> /\ \A k \in Runs : run'[k].got[u] \in Known(u)
  <2>1. PICK next \in Phases, users \in SUBSET Users, s \in Built(v) :
          run' = [Done(r, v, next, users) EXCEPT ![r].got[v] = s, ![r].missed = Missed(r, v, s)]
    <3>1. (IF Kind[r] \in Users THEN {Kind[r]} ELSE Users) \in SUBSET Users /\ "storing" \in Phases
      BY DEF Phases
    <3>2. PICK s \in Built(v) :
            run' = [Done(r, v, "storing", IF Kind[r] \in Users THEN {Kind[r]} ELSE Users)
                      EXCEPT ![r].got[v] = s, ![r].missed = Missed(r, v, s)]
      BY <1>14 DEF Build
    <3> QED
      BY <3>1, <3>2
  <2>2. Done(r, v, next, users) \in [Runs -> RunRecords]
        /\ \A k \in Runs : Done(r, v, next, users)[k].got = run[k].got
    BY <1>1, DoneTypes, DoneGot
  <2>3. \A k \in Runs : run'[k].got[u] = IF k = r /\ u = v THEN s ELSE run[k].got[u]
    BY <1>2, <2>1, <2>2 DEF RunRecords
  <2> QED
    BY <1>3, <1>14, <2>3 DEF Build
<1>15. ASSUME NEW r \in Runs, NEW v \in Users, Store(r, v)
       PROVE  /\ UNCHANGED view /\ aggregate'[u] \in Known(u)
              /\ \A k \in Runs : run'[k].got[u] = run[k].got[u]
  <2>1. PICK next \in Phases, users \in SUBSET Users : run' = Done(r, v, next, users)
    <3>1. "settling" \in Phases /\ "freezing" \in Phases /\ {} \in SUBSET Users /\ Users \in SUBSET Users
      BY DEF Phases
    <3> QED
      BY <1>15, <3>1 DEF Store
  <2>2. \A k \in Runs : run'[k].got[u] = run[k].got[u]
    BY <1>1, <2>1, DoneGot
  <2>3. aggregate'[u] \in {aggregate[u], run[r].got[u]} /\ UNCHANGED view
    BY <1>1, <1>15 DEF Store, StoredTypes
  <2> QED
    BY <1>3, <2>2, <2>3
<1>16. ASSUME NEW r \in Runs, NEW v \in Users, Settle(r, v) \/ SettleStores(r, v)
       PROVE  /\ UNCHANGED view /\ aggregate'[u] \in Known(u)
              /\ \A k \in Runs : run'[k].got[u] \in Known(u)
  <2>1. "freezing" \in Phases /\ {} \in SUBSET Users
    BY DEF Phases
  <2>2. Done(r, v, "freezing", {}) \in [Runs -> RunRecords]
        /\ \A k \in Runs : Done(r, v, "freezing", {})[k].got = run[k].got
    BY <1>1, <2>1, DoneTypes, DoneGot
  <2>3. UNCHANGED view /\ aggregate'[u] \in {aggregate[u], run[r].got[u]}
    BY <1>1, <1>16 DEF Settle, SettleWith, SettleStores, StoredTypes
  <2>4. CASE run' = [Done(r, v, "freezing", {}) EXCEPT ![r].got[v] = aggregate[v],
                                                     ![r].missed = @ \ {v}]
    <3>1. \A k \in Runs : run'[k].got[u] = IF k = r /\ u = v THEN aggregate[u] ELSE run[k].got[u]
      BY <1>2, <2>2, <2>4 DEF RunRecords
    <3> QED
      BY <1>3, <2>3, <3>1
  <2>5. CASE \E s \in Built(v) :
               run' = [run EXCEPT ![r].got[v] = s, ![r].held = v, ![r].missed = Missed(r, v, s)]
    <3>1. PICK s \in Built(v) :
            run' = [run EXCEPT ![r].got[v] = s, ![r].held = v, ![r].missed = Missed(r, v, s)]
      BY <2>5
    <3>2. \A k \in Runs : run'[k].got[u] = IF k = r /\ u = v THEN s ELSE run[k].got[u]
      BY <1>1, <1>2, <3>1 DEF RunTypes, RunRecords
    <3> QED
      BY <1>3, <2>3, <3>2
  <2>6. CASE run' = [Done(r, v, "freezing", {}) EXCEPT ![r].held = None]
    BY <1>2, <1>3, <2>2, <2>3, <2>6 DEF RunRecords
  <2> QED
    BY <1>16, <2>4, <2>5, <2>6 DEF Settle, SettleWith, SettleStores
<1>17. ASSUME NEW r \in Runs, Freeze(r)
       PROVE  UNCHANGED <<aggregate, view>> /\ \A k \in Runs : run'[k].got[u] = run[k].got[u]
  <2>1. PICK at : run' = [run EXCEPT ![r].at = at]
    BY <1>17 DEF Freeze
  <2> QED
    BY <1>1, <1>2, <1>17, <2>1 DEF Freeze, RunTypes, RunRecords
<1>18. ASSUME NEW r \in Runs, End(r) \/ Fail(r)
       PROVE  UNCHANGED <<aggregate, view>> /\ \A k \in Runs : run'[k].got[u] \in {None, run[k].got[u]}
  <2>1. PICK new : run' = [run EXCEPT ![r] = new] /\ new.got = Idle.got
    BY <1>18 DEF End, Fail, Idle
  <2> QED
    BY <1>1, <1>4, <1>18, <2>1 DEF End, Fail, RunTypes
<1>19. CASE DailyStarts \/ DailyMarks
  <2>0. Started("settling", Users).got = Idle.got
    BY DEF Started, Idle
  <2>1. PICK new : run' = [run EXCEPT ![Daily] = new] /\ new.got = Idle.got
    BY <1>19, <2>0 DEF DailyStarts, DailyStartsWith, DailyMarks
  <2>2. \A k \in Runs : run'[k].got[u] \in {None, run[k].got[u]}
    BY <1>1, <1>4, <2>1 DEF RunTypes
  <2> QED
    BY <1>3, <1>19, <2>2 DEF DailyStarts, DailyStartsWith, DailyMarks
<1>20. CASE Ages \/ NextDay \/ UNCHANGED vars
  BY <1>5, <1>20 DEF Ages, NextDay, vars
<1>21. CASE Crash
  <2>1. \A k \in Runs : run'[k].got[u] \in {None, run[k].got[u]}
    BY <1>4, <1>21 DEF Crash, Idle
  <2> QED
    BY <1>3, <1>21, <2>1 DEF Crash
<1>22. ASSUME NEW r \in Runs, RunStep(r)
       PROVE  /\ aggregate'[u] \in Known(u) /\ view'[u] \in Known(u)
              /\ \A k \in Runs : run'[k].got[u] \in Known(u)
  BY <1>3, <1>14, <1>15, <1>16, <1>17, <1>18, <1>22 DEF RunStep
<1> QED
  BY <1>3, <1>5, <1>6, <1>7, <1>8, <1>9, <1>10, <1>11, <1>12, <1>13, <1>18, <1>19, <1>20, <1>21,
     <1>22 DEF Next

LEMMA SoundStep == Types /\ Sound /\ [Next]_vars => Sound'
<1> SUFFICES ASSUME Types, Sound, [Next]_vars PROVE Sound'
  OBVIOUS
<1>1. /\ resetting' \subseteq wiped' /\ wiped \subseteq wiped' /\ gone \subseteq gone'
      /\ \A u \in Users \ wiped' : RowsOf(u) \subseteq RowsOf(u)'
  BY RowsStay DEF Sound
<1>2. ASSUME NEW u \in Users \ wiped', NEW s \in Known(u) PROVE CountsRows(u, s)'
  BY <1>1, <1>2, KnownCounts, StillCounts
<1>3. ASSUME NEW u \in Users \ wiped'
      PROVE  /\ CountsRows(u, aggregate[u])' /\ CountsRows(u, view[u])'
             /\ \A r \in Runs : CountsRows(u, run[r].got[u])'
  <2>1. PICK a \in Known(u) : aggregate'[u] = a
    BY NothingNew
  <2>2. PICK v \in Known(u) : view'[u] = v
    BY NothingNew
  <2>3. CountsRows(u, aggregate[u])' /\ CountsRows(u, view[u])'
    BY <1>2, <2>1, <2>2 DEF CountsRows
  <2>4. ASSUME NEW r \in Runs PROVE CountsRows(u, run[r].got[u])'
    <3>1. PICK g \in Known(u) : run'[r].got[u] = g
      BY NothingNew
    <3> QED
      BY <1>2, <3>1 DEF CountsRows
  <2> QED
    BY <2>3, <2>4
<1> QED
  BY <1>1, <1>3 DEF Sound

LEMMA SoundInit == Init => Sound
BY DEF Init, Sound, CountsRows, Idle

\* Rows as many as all there are, among all there are, are all there are.
LEMMA SoundServes == Types /\ Sound => ServedIsTrue
<1> SUFFICES ASSUME Types, Sound, NEW u \in Users \ wiped, Fresh(u, aggregate[u])
             PROVE  aggregate[u].plays \ gone = Counted(RowsOf(u))
  BY DEF ServedIsTrue
<1>1. PICK R \in SUBSET RowsOf(u) :
        aggregate[u].count = Cardinality(R) /\ aggregate[u].plays \ gone = Counted(R)
  BY DEF Fresh, Sound, CountsRows
<1>2. R = RowsOf(u)
  BY <1>1, RowsAreFinite, FS_Subset DEF Fresh, Types
<1> QED
  BY <1>1, <1>2

\* A stored summary that passes for fresh counts exactly the sessions the rows have, however
\* many pages, regenerations and daily runs build and store summaries at once, in whatever
\* order reports arrive or are repeated (Wrapped, ServedIsTrue).
THEOREM ServedSummaries == Spec => []ServedIsTrue
<1>1. Types /\ Sound /\ [Next]_vars => (Types /\ Sound)'
  BY TypeStep, SoundStep
<1> QED
  BY <1>1, TypeInit, SoundInit, SoundServes, PTL DEF Spec

-----------------------------------------------------------------------------
(* The regeneration lock.                                                  *)

Lockers == {r \in Runs : Locked(r)}
Holders == {r \in Lockers : Active(r)}
Acquirers == {r \in Runs : run[r].at = "acquired"}

\* Who runs under the lock has its row, young and with no other number than its own.
Guarded ==
  /\ Acquirers \subseteq Lockers
  /\ ~slipped => /\ \A r, k \in Holders : r = k
                 /\ \A r \in Holders : lock # None /\ ~lock.old /\ lock.job \in {None, r}

\* What a step does to where the runs are: one run moves, or all that were at work are done.
LEMMA OneMoves ==
  ASSUME Types, [Next]_vars
  PROVE  \/ /\ \A k \in Runs : run'[k].at \in {run[k].at, "done"} \/ k = Daily
            /\ \A k \in Runs : run'[k].at # "acquired" \/ run'[k].at = run[k].at
            /\ UNCHANGED slipped /\ UNCHANGED lock
         \/ \E r \in Runs :
              /\ \A k \in Runs \ {r} : run'[k] = run[k]
              /\ \/ Acquire(r) /\ r \in Jobs
                 \/ Label(r) \/ NotQueued(r)
                 \/ Start(r) /\ UNCHANGED <<lock, slipped>>
                 \/ End(r)
                 \/ /\ run[r].at \notin {"idle", "done"} \/ r = Daily
                    /\ run'[r].at # "acquired"
                    /\ UNCHANGED <<lock, slipped>>
         \/ Ages /\ UNCHANGED run
<1> DEFINE Other(r) == \A k \in Runs \ {r} : run'[k] = run[k]
           Moves(r) == /\ run[r].at \notin {"idle", "done"} \/ r = Daily
                       /\ run'[r].at # "acquired"
                       /\ UNCHANGED <<lock, slipped>>
<1>1. RunTypes /\ (\A r \in Runs : run[r] \in RunRecords) /\ Daily \in Runs
  BY DEF Types, RunTypes, Runs
<1>3. ASSUME NEW p \in Plays, NEW what \in Reports, Emit(p, what)
      PROVE  UNCHANGED <<run, lock, slipped>>
  BY <1>3 DEF Emit, history
<1>4. ASSUME NEW e \in outbox, NEW answered \in BOOLEAN, Report(e, answered)
      PROVE  UNCHANGED <<run, lock, slipped>>
  BY <1>4 DEF Report, history
<1>5. ASSUME NEW p \in Plays, DeleteSong(p) PROVE UNCHANGED <<run, lock, slipped>>
  BY <1>5 DEF DeleteSong, history
<1>6. ASSUME NEW v \in Users, NEW flag \in BOOLEAN, ViewBuilds(v, flag) \/ Reset(v, flag)
      PROVE  UNCHANGED <<run, lock, slipped>>
  BY <1>6 DEF ViewBuilds, Reset, history
<1>7. ASSUME NEW v \in Users, ViewStores(v) \/ Purge(v) PROVE UNCHANGED <<run, lock, slipped>>
  BY <1>7 DEF ViewStores, ViewStoresAs, Purge, history
<1>8. ASSUME NEW r \in Jobs, Acquire(r) \/ Label(r) \/ NotQueued(r) \/ Start(r)
      PROVE  r \in Runs /\ Other(r) /\ (Start(r) => UNCHANGED <<lock, slipped>>)
  <2>1. r \in Runs
    BY DEF Runs
  <2>2. Other(r)
    <3>1. CASE Acquire(r) \/ NotQueued(r)
      BY <1>1, <2>1, <3>1 DEF Acquire, NotQueued, RunTypes
    <3>2. CASE Label(r) \/ Start(r)
      BY <1>1, <2>1, <3>2 DEF Label, Start, RunTypes
    <3> QED
      BY <1>8, <3>1, <3>2
  <2> QED
    BY <2>1, <2>2 DEF Start, history
<1>9. ASSUME NEW r \in Runs, NEW u \in Users,
             Build(r, u) \/ Store(r, u) \/ Settle(r, u) \/ SettleStores(r, u)
      PROVE  Other(r) /\ Moves(r)
  <2>0. {"storing", "settling", "freezing"} \subseteq Phases
    BY DEF Phases
  <2>1. UNCHANGED <<lock, slipped>>
    BY <1>9 DEF Build, Store, Settle, SettleWith, SettleStores, history
  <2>2. PICK next \in Phases \ {"acquired"}, users \in SUBSET Users : \E got, held, missed :
             \/ run' = Done(r, u, next, users)
             \/ run' = [Done(r, u, next, users) EXCEPT ![r].got[u] = got, ![r].missed = missed]
             \/ run' = [run EXCEPT ![r].got[u] = got, ![r].held = held, ![r].missed = missed]
             \/ run' = [Done(r, u, next, users) EXCEPT ![r].held = held]
    <3>1. {} \in SUBSET Users /\ Users \in SUBSET Users
          /\ (IF Kind[r] \in Users THEN {Kind[r]} ELSE Users) \in SUBSET Users
      OBVIOUS
    <3>2. CASE Build(r, u)
      <4>1. PICK s \in Built(u) :
              run' = [Done(r, u, "storing", IF Kind[r] \in Users THEN {Kind[r]} ELSE Users)
                        EXCEPT ![r].got[u] = s, ![r].missed = Missed(r, u, s)]
        BY <3>2 DEF Build
      <4> QED
        BY <2>0, <3>1, <4>1
    <3>3. CASE Store(r, u)
      BY <2>0, <3>1, <3>3 DEF Store
    <3>4. CASE Settle(r, u)
      <4>1. \/ run' = [Done(r, u, "freezing", {}) EXCEPT ![r].got[u] = aggregate[u],
                         ![r].missed = Done(r, u, "freezing", {})[r].missed \ {u}]
            \/ \E s \in Built(u) :
                 run' = [run EXCEPT ![r].got[u] = s, ![r].held = u, ![r].missed = Missed(r, u, s)]
        BY <3>4 DEF Settle, SettleWith
      <4>2. CASE run' = [Done(r, u, "freezing", {}) EXCEPT ![r].got[u] = aggregate[u],
                          ![r].missed = Done(r, u, "freezing", {})[r].missed \ {u}]
        BY <2>0, <3>1, <4>2
      <4>3. CASE \E s \in Built(u) :
                   run' = [run EXCEPT ![r].got[u] = s, ![r].held = u, ![r].missed = Missed(r, u, s)]
        <5>1. PICK s \in Built(u) :
                run' = [run EXCEPT ![r].got[u] = s, ![r].held = u, ![r].missed = Missed(r, u, s)]
          BY <4>3
        <5>2. "freezing" \in Phases \ {"acquired"} /\ {} \in SUBSET Users
          BY <2>0, <3>1
        <5>3. \E got, held, missed :
                run' = [run EXCEPT ![r].got[u] = got, ![r].held = held, ![r].missed = missed]
          BY <5>1, Zenon
        <5> QED
          BY <5>2, <5>3, Zenon
      <4> QED
        BY <4>1, <4>2, <4>3
    <3>5. CASE SettleStores(r, u)
      BY <2>0, <3>1, <3>5 DEF SettleStores
    <3> QED
      BY <1>9, <3>2, <3>3, <3>4, <3>5
  <2>3. run[r].at \in {"building", "storing", "settling"}
    BY <1>9 DEF Build, Store, Settle, SettleWith, SettleStores
  <2>4. /\ \A k \in Runs \ {r} : Done(r, u, next, users)[k] = run[k]
        /\ Done(r, u, next, users)[r].at \in {run[r].at, next}
        /\ Done(r, u, next, users) \in [Runs -> RunRecords]
    <3>1. Done(r, u, next, users) \in [Runs -> RunRecords]
      BY <1>1, DoneTypes
    <3>2. \/ Done(r, u, next, users) = [run EXCEPT ![r].at = next, ![r].left = users]
          \/ Done(r, u, next, users) = [run EXCEPT ![r].left = @ \ {u}]
      BY DEF Done
    <3> QED
      BY <1>1, <3>1, <3>2 DEF RunTypes, RunRecords
  <2>5. Other(r) /\ run'[r].at \in {run[r].at, next}
    BY <1>1, <2>2, <2>4 DEF RunTypes, RunRecords
  <2> QED
    BY <2>1, <2>2, <2>3, <2>5
<1>10. ASSUME NEW r \in Runs, Freeze(r) PROVE Other(r) /\ Moves(r)
  BY <1>1, <1>10 DEF Freeze, RunTypes, RunRecords
<1>11. ASSUME NEW r \in Runs, Fail(r) PROVE Other(r) /\ Moves(r)
  BY <1>1, <1>11 DEF Fail, RunTypes, RunRecords, Idle, history
<1>12. ASSUME NEW r \in Runs, End(r) PROVE Other(r)
  BY <1>1, <1>12 DEF End, RunTypes
<1>13. CASE DailyStarts \/ DailyMarks
  <2>1. Started("settling", Users).at = "settling" /\ Idle.at = "idle"
    BY DEF Started, Idle
  <2>2. PICK new : run' = [run EXCEPT ![Daily] = new] /\ new.at # "acquired"
    BY <1>13, <2>1 DEF DailyStarts, DailyStartsWith, DailyMarks
  <2>3. UNCHANGED <<lock, slipped>>
    BY <1>13 DEF DailyStarts, DailyStartsWith, DailyMarks, history
  <2>4. Other(Daily) /\ Moves(Daily)
    BY <1>1, <2>2, <2>3 DEF RunTypes
  <2> QED
    BY <1>1, <2>4
<1>14. CASE Ages
  BY <1>14 DEF Ages
<1>15. CASE NextDay \/ UNCHANGED vars
  BY <1>15 DEF NextDay, vars, history
<1>16. CASE Crash
  BY <1>1, <1>16 DEF Crash, Idle, history
<1>17. CASE UNCHANGED <<run, lock, slipped>>
  BY <1>17
<1>18. CASE \E r \in Jobs : Acquire(r) \/ Label(r) \/ NotQueued(r) \/ Start(r)
  BY <1>8, <1>18
<1>19. CASE \E r \in Runs : RunStep(r) \/ Fail(r)
  BY <1>9, <1>10, <1>11, <1>12, <1>19 DEF RunStep
<1> QED
  BY <1>3, <1>4, <1>5, <1>6, <1>7, <1>13, <1>14, <1>15, <1>16, <1>17, <1>18, <1>19 DEF Next

LEMMA GuardedStep == Types /\ Guarded /\ [Next]_vars => Guarded'
<1> SUFFICES ASSUME Types, Guarded, [Next]_vars PROVE Guarded'
  OBVIOUS
<1>0. run \in [Runs -> RunRecords] /\ \A r \in Runs : run[r] \in RunRecords
  BY DEF Types, RunTypes
<1>1. Lockers' = Lockers /\ Lockers \subseteq Jobs /\ Daily \notin Lockers
  BY Given DEF Lockers, Locked, Runs
<1>2. ASSUME \A k \in Runs : run'[k].at \in {run[k].at, "done"} \/ k = Daily,
             \A k \in Runs : run'[k].at # "acquired" \/ run'[k].at = run[k].at,
             UNCHANGED slipped, UNCHANGED lock
      PROVE  Guarded'
  <2>1. Holders' \subseteq Holders
    BY <1>1, <1>2 DEF Holders, Lockers, Active
  <2>2. Acquirers' \subseteq Acquirers
    BY <1>2 DEF Acquirers
  <2> QED
    BY <1>1, <1>2, <2>1, <2>2 DEF Guarded
<1>3. CASE Ages /\ UNCHANGED run
  <2>1. slipped' = (slipped \/ Holders # {})
    BY <1>3 DEF Ages, Holders, Lockers
  <2>2. Holders' = Holders /\ Acquirers' = Acquirers
    BY <1>1, <1>3 DEF Holders, Acquirers, Active
  <2> QED
    BY <1>1, <2>1, <2>2 DEF Guarded
<1>4. ASSUME NEW r \in Runs, \A k \in Runs \ {r} : run'[k] = run[k]
      PROVE  /\ Holders' \ {r} = Holders \ {r} /\ Acquirers' \ {r} = Acquirers \ {r}
             /\ (run'[r].at # "acquired" => r \notin Acquirers')
             /\ (run'[r].at \in {"idle", "done"} => r \notin Holders')
  <2>1. Lockers \subseteq Runs
    BY DEF Lockers
  <2>2. Holders' \ {r} = Holders \ {r}
    BY <1>1, <1>4, <2>1 DEF Holders, Active
  <2>3. Acquirers' \ {r} = Acquirers \ {r}
    BY <1>4 DEF Acquirers
  <2> QED
    BY <2>2, <2>3 DEF Holders, Lockers, Acquirers, Active
<1>5. ASSUME NEW r \in Runs, \A k \in Runs \ {r} : run'[k] = run[k], Acquire(r), r \in Jobs
      PROVE  Guarded'
  <2>1. /\ r \in Lockers /\ Vacant /\ UNCHANGED slipped
        /\ lock' = [job |-> None, old |-> FALSE]
    BY <1>5 DEF Acquire, history, Lockers
  <2>2. ~slipped => Holders = {}
    BY <2>1 DEF Guarded, Vacant
  <2>3. lock' # None /\ ~lock'.old /\ lock'.job = None
    BY <2>1, Given
  <2> QED
    BY <1>1, <1>4, <1>5, <2>1, <2>2, <2>3 DEF Guarded
<1>6. ASSUME NEW r \in Runs, \A k \in Runs \ {r} : run'[k] = run[k], Label(r)
      PROVE  Guarded'
  <2>1. /\ run[r].at = "acquired" /\ UNCHANGED slipped
        /\ run' = [run EXCEPT ![r] = Started("building", Users)]
        /\ lock' = IF lock = None THEN None ELSE [job |-> r, old |-> FALSE]
    BY <1>6 DEF Label, history
  <2>2. r \in Holders /\ r \in Jobs
    BY <1>1, <2>1 DEF Guarded, Acquirers, Holders, Active
  <2>3. run'[r].at # "acquired"
    <3>1. Started("building", Users).at = "building"
      BY DEF Started, Idle
    <3> QED
      BY <1>0, <2>1, <3>1
  <2>4. ~slipped => lock # None /\ Holders \subseteq {r}
    BY <2>2 DEF Guarded
  <2>5. ~slipped' => lock' # None /\ ~lock'.old /\ lock'.job = r
    BY <2>1, <2>2, <2>4, Given
  <2>6. ~slipped' => Holders' \subseteq {r}
    BY <1>4, <1>6, <2>1, <2>4
  <2> QED
    BY <1>1, <1>4, <1>6, <2>3, <2>5, <2>6 DEF Guarded
<1>7. ASSUME NEW r \in Runs, \A k \in Runs \ {r} : run'[k] = run[k], NotQueued(r)
      PROVE  Guarded'
  <2>1. slipped' = (slipped \/ Holders \ {r} # {})
    BY <1>7 DEF NotQueued, Holders, Lockers
  <2>2. run'[r].at = "done"
    BY <1>0, <1>7 DEF NotQueued, RunRecords
  <2>3. r \notin Holders' /\ r \notin Acquirers'
    BY <1>4, <1>7, <2>2
  <2>4. Acquirers' \subseteq Acquirers /\ Holders' = Holders \ {r}
    BY <1>4, <1>7, <2>3
  <2> QED
    BY <1>1, <2>1, <2>4 DEF Guarded
<1>8. ASSUME NEW r \in Runs, \A k \in Runs \ {r} : run'[k] = run[k], Start(r),
             UNCHANGED <<lock, slipped>>
      PROVE  Guarded'
  <2>1. r \notin Lockers
    BY <1>8 DEF Start, Lockers
  <2>2. run'[r].at # "acquired"
    <3>1. \A users : Started("building", users).at = "building"
      BY DEF Started, Idle
    <3> QED
      BY <1>0, <1>8, <3>1 DEF Start
  <2>3. r \notin Holders' /\ r \notin Acquirers'
    BY <1>1, <2>1, <2>2 DEF Holders, Acquirers
  <2>4. Acquirers' \subseteq Acquirers /\ Holders' \subseteq Holders
    BY <1>4, <1>8, <2>3
  <2> QED
    BY <1>1, <1>8, <2>4 DEF Guarded
<1>9. ASSUME NEW r \in Runs, \A k \in Runs \ {r} : run'[k] = run[k], End(r)
      PROVE  Guarded'
  <2>1. run'[r].at = "done"
    <3>1. [Idle EXCEPT !.at = "done"].at = "done"
      BY DEF Idle
    <3> QED
      BY <1>0, <1>9, <3>1 DEF End
  <2>2. r \notin Holders' /\ r \notin Acquirers'
    BY <1>4, <1>9, <2>1
  <2>3. Acquirers' \subseteq Acquirers /\ Holders' = Holders \ {r}
    BY <1>4, <1>9, <2>2
  <2>4. CASE UNCHANGED <<lock, slipped>>
    BY <1>1, <2>3, <2>4 DEF Guarded
  <2>5. CASE Release(r)
    <3>1. /\ lock' = IF lock # None /\ lock.job \in {None, r} THEN None ELSE lock
          /\ slipped' = (slipped \/ (/\ lock # None /\ lock.job \in {None, r} /\ lock.job = None
                                     /\ Holders \ {r} # {}))
      BY <2>5 DEF Release, Holders, Lockers
    <3>2. ASSUME NEW k \in Holders', ~slipped' PROVE ~slipped /\ UNCHANGED lock
      <4>1. k # r /\ k \in Holders /\ ~slipped
        BY <2>3, <3>1, <3>2
      <4>2. lock # None /\ lock.job \in {None, k}
        BY <4>1 DEF Guarded
      <4> QED
        BY <3>1, <3>2, <4>1, <4>2
    <3> QED
      BY <1>1, <2>3, <3>1, <3>2 DEF Guarded
  <2> QED
    BY <1>9, <2>4, <2>5 DEF End
<1>10. ASSUME NEW r \in Runs, \A k \in Runs \ {r} : run'[k] = run[k],
              run[r].at \notin {"idle", "done"} \/ r = Daily, run'[r].at # "acquired",
              UNCHANGED <<lock, slipped>>
       PROVE  Guarded'
  <2>1. r \in Holders' => r \in Holders
    BY <1>1, <1>10 DEF Holders, Active
  <2>2. r \notin Acquirers'
    BY <1>10 DEF Acquirers
  <2>3. Acquirers' \subseteq Acquirers /\ Holders' \subseteq Holders
    BY <1>4, <1>10, <2>1, <2>2
  <2> QED
    BY <1>1, <1>10, <2>3 DEF Guarded
<1> QED
  BY <1>2, <1>3, <1>5, <1>6, <1>7, <1>8, <1>9, <1>10, OneMoves

\* Two regenerations under the lock never run at once, unless one outlives the four hours or
\* somebody whose job is not in the row yet has it deleted (Wrapped, OneLockedRun).
THEOREM LockedRunsAreAlone == Spec => []OneLockedRun
<1>1. Init => Guarded
  <2>1. Init => Acquirers = {} /\ Holders = {}
    <3>1. Lockers \subseteq Runs
      BY DEF Lockers
    <3> QED
      BY <3>1 DEF Init, Acquirers, Holders, Active, Idle
  <2> QED
    BY <2>1 DEF Guarded
<1>2. Types /\ Guarded /\ [Next]_vars => (Types /\ Guarded)'
  BY TypeStep, GuardedStep
<1>3. Guarded => OneLockedRun
  BY DEF Guarded, OneLockedRun, Holders, Lockers
<1> QED
  BY <1>1, <1>2, <1>3, TypeInit, PTL DEF Spec

-----------------------------------------------------------------------------
(* The snapshot.                                                           *)

Working == {"building", "storing", "settling"}
DueOf(u) == {p \in due : Listener[p] = u}

\* A session makes one report, or several of which each is long enough.
ReportsAgree ==
  /\ \A e \in emitted : e.kind # "skip" => e.long
  /\ \A e, f \in emitted : e.play = f.play /\ e # f => e.long /\ f.long

\* A summary counts what there was at the end of the year.
Has(u, s) == s # None => DueOf(u) \ gone \subseteq s.plays

\* What runs begun after the end of the year have read, and what is frozen of it, is complete;
\* before it there are none.
Complete ==
  /\ ReportsAgree
  /\ ~Closed => /\ due = {} /\ \A u \in Users : snapshot[u] = None
                /\ \A r \in Runs, u \in Users : /\ run[r].at \in Working => run[r].early
                                                /\ ~run[r].early => run[r].got[u] = None
  /\ \A u \in Users \ wiped :
       /\ DueOf(u) \ gone \subseteq Counted(RowsOf(u))
       /\ \A r \in Runs : ~run[r].early /\ u \notin run[r].missed => Has(u, run[r].got[u])
       /\ u \notin straddled \union misread => Has(u, snapshot[u])

\* More reports never take a session out of the count.
LEMMA CountGrows ==
  ASSUME NEW all, \A e \in all : e.kind \in Finals \union {"play_30s"},
         \A e, f \in all : e.play = f.play /\ e # f => e.long /\ f.long,
         NEW S \in SUBSET all, NEW T \in SUBSET S
  PROVE  Counted(T) \subseteq Counted(S)
<1> SUFFICES ASSUME NEW p \in Counted(T) PROVE p \in Counted(S)
  OBVIOUS
<1>1. PICK e \in Terminal(p, T) : e.long
  BY DEF Counted
<1>2. e \in S /\ e.play = p
  BY <1>1 DEF Terminal
<1>3. PICK f \in Terminal(p, S) : TRUE
  BY <1>2 DEF Terminal, Finals
<1>4. f \in S /\ f.play = p
  BY <1>3 DEF Terminal
<1>5. f.long
  BY <1>1, <1>2, <1>4
<1> QED
  BY <1>3, <1>5 DEF Counted

LEMMA AgreeStep == Types /\ ReportsAgree /\ [Next]_vars => ReportsAgree'
<1> SUFFICES ASSUME Types, ReportsAgree, [Next]_vars PROVE ReportsAgree'
  OBVIOUS
<1>1. ASSUME NEW p \in Plays, NEW what \in Reports, Emit(p, what) PROVE ReportsAgree'
  <2>1. /\ emitted' = emitted \union {NewReport(p, what)}
        /\ NewReport(p, what).play = p /\ NewReport(p, what).kind = what.kind
        /\ NewReport(p, what).long = what.long
    BY <1>1 DEF Emit, NewReport
  <2>2. what.kind # "skip" => what.long
    BY WrappedAssumption DEF WrappedAssumption
  <2>3. \A e \in emitted : e.play = p => e.kind = "play_30s" /\ what.long
    <3>1. \A e \in emitted : e.kind \in Finals \union {"play_30s"}
      BY DEF Types, ReportTypes, ReportRecords
    <3> QED
      BY <1>1, <3>1 DEF Emit
  <2> QED
    BY <2>1, <2>2, <2>3 DEF ReportsAgree
<1>2. CASE UNCHANGED emitted
  BY <1>2 DEF ReportsAgree
<1>3. ASSUME NEW e \in outbox, NEW answered \in BOOLEAN, Report(e, answered)
      PROVE  UNCHANGED emitted
  BY <1>3 DEF Report
<1>4. ASSUME NEW p \in Plays, DeleteSong(p) PROVE UNCHANGED emitted
  BY <1>4 DEF DeleteSong, clients
<1>5. ASSUME NEW u \in Users, NEW flag \in BOOLEAN, ViewBuilds(u, flag) \/ Reset(u, flag)
      PROVE  UNCHANGED emitted
  BY <1>5 DEF ViewBuilds, Reset, clients
<1>6. ASSUME NEW u \in Users, ViewStores(u) \/ Purge(u) PROVE UNCHANGED emitted
  BY <1>6 DEF ViewStores, ViewStoresAs, Purge, clients
<1>7. ASSUME NEW r \in Jobs, Acquire(r) \/ Label(r) \/ NotQueued(r) \/ Start(r)
      PROVE  UNCHANGED emitted
  BY <1>7 DEF Acquire, Label, NotQueued, Start, clients
<1>8. ASSUME NEW r \in Runs, RunStep(r) \/ Fail(r) PROVE UNCHANGED emitted
  BY <1>8 DEF RunStep, Build, Store, Settle, SettleWith, SettleStores, Freeze, End, Fail, clients
<1>9. CASE DailyStarts \/ DailyMarks \/ Ages \/ NextDay \/ Crash \/ UNCHANGED vars
  BY <1>2, <1>9 DEF DailyStarts, DailyStartsWith, DailyMarks, Ages, NextDay, Crash, clients, vars
<1> QED
  BY <1>1, <1>2, <1>3, <1>4, <1>5, <1>6, <1>7, <1>8, <1>9 DEF Next

\* The year ends with what is counted then; nothing else touches it.
LEMMA DueStep ==
  ASSUME Types, [Next]_vars
  PROVE  \/ UNCHANGED <<day, due>>
         \/ NextDay
<1>1. ASSUME NEW p \in Plays, NEW what \in Reports, Emit(p, what) PROVE UNCHANGED <<day, due>>
  BY <1>1 DEF Emit, history
<1>2. ASSUME NEW e \in outbox, NEW answered \in BOOLEAN, Report(e, answered)
      PROVE  UNCHANGED <<day, due>>
  BY <1>2 DEF Report, history
<1>3. ASSUME NEW p \in Plays, DeleteSong(p) PROVE UNCHANGED <<day, due>>
  BY <1>3 DEF DeleteSong, history
<1>4. ASSUME NEW u \in Users, NEW flag \in BOOLEAN, ViewBuilds(u, flag) \/ Reset(u, flag)
      PROVE  UNCHANGED <<day, due>>
  BY <1>4 DEF ViewBuilds, Reset, history
<1>5. ASSUME NEW u \in Users, ViewStores(u) \/ Purge(u) PROVE UNCHANGED <<day, due>>
  BY <1>5 DEF ViewStores, ViewStoresAs, Purge, history
<1>6. ASSUME NEW r \in Jobs, Acquire(r) \/ Label(r) \/ NotQueued(r) \/ Start(r)
      PROVE  UNCHANGED <<day, due>>
  BY <1>6 DEF Acquire, Label, NotQueued, Start, history
<1>7. ASSUME NEW r \in Runs, RunStep(r) \/ Fail(r) PROVE UNCHANGED <<day, due>>
  BY <1>7 DEF RunStep, Build, Store, Settle, SettleWith, SettleStores, Freeze, End, Fail, history
<1>8. CASE DailyStarts \/ DailyMarks \/ Ages \/ Crash \/ UNCHANGED vars
  BY <1>8 DEF DailyStarts, DailyStartsWith, DailyMarks, Ages, Crash, history, vars
<1> QED
  BY <1>1, <1>2, <1>3, <1>4, <1>5, <1>6, <1>7, <1>8 DEF Next

\* A snapshot is taken after the end of the year, from what a run has.
LEMMA SnapshotStep ==
  ASSUME Types, [Next]_vars, NEW u \in Users
  PROVE  \/ snapshot'[u] = None /\ u \in wiped'
         \/ /\ snapshot'[u] = snapshot[u]
            /\ u \in straddled \union misread => u \in straddled' \union misread'
         \/ /\ Closed
            /\ \E r \in Runs : /\ snapshot'[u] = run[r].got[u]
                               /\ run[r].early => u \in straddled'
                               /\ u \in run[r].missed => u \in misread'
<1> DEFINE Same == /\ snapshot'[u] = snapshot[u]
                   /\ u \in straddled \union misread => u \in straddled' \union misread'
<1>1. ASSUME NEW p \in Plays, NEW what \in Reports, Emit(p, what) PROVE Same
  BY <1>1 DEF Emit, history
<1>2. ASSUME NEW e \in outbox, NEW answered \in BOOLEAN, Report(e, answered) PROVE Same
  BY <1>2 DEF Report, history
<1>3. ASSUME NEW p \in Plays, DeleteSong(p) PROVE Same
  BY <1>3 DEF DeleteSong, history
<1>4. ASSUME NEW v \in Users, NEW flag \in BOOLEAN, ViewBuilds(v, flag) PROVE Same
  BY <1>4 DEF ViewBuilds, history
<1>5. ASSUME NEW v \in Users, NEW flag \in BOOLEAN, Reset(v, flag)
      PROVE  Same \/ (snapshot'[u] = None /\ u \in wiped')
  BY <1>5 DEF Reset, Types, StoredTypes
<1>6. ASSUME NEW v \in Users, ViewStores(v) \/ Purge(v) PROVE Same
  BY <1>6 DEF ViewStores, ViewStoresAs, Purge, history
<1>7. ASSUME NEW r \in Jobs, Acquire(r) \/ Label(r) \/ NotQueued(r) \/ Start(r) PROVE Same
  BY <1>7 DEF Acquire, Label, NotQueued, Start, history
<1>8. ASSUME NEW r \in Runs, NEW v \in Users,
             Build(r, v) \/ Store(r, v) \/ Settle(r, v) \/ SettleStores(r, v)
      PROVE  Same
  BY <1>8 DEF Build, Store, Settle, SettleWith, SettleStores, history
<1>9. ASSUME NEW r \in Runs, End(r) \/ Fail(r) PROVE Same
  BY <1>9 DEF End, Fail, history
<1>10. CASE DailyStarts \/ DailyMarks \/ Ages \/ NextDay \/ Crash \/ UNCHANGED vars
  BY <1>10 DEF DailyStarts, DailyStartsWith, DailyMarks, Ages, NextDay, Crash, history, vars
<1>11. ASSUME NEW r \in Runs, Freeze(r)
       PROVE  \/ Same
              \/ /\ Closed /\ snapshot'[u] = run[r].got[u]
                 /\ run[r].early => u \in straddled'
                 /\ u \in run[r].missed => u \in misread'
  BY <1>11 DEF Freeze
<1> QED
  BY <1>1, <1>2, <1>3, <1>4, <1>5, <1>6, <1>7, <1>8, <1>9, <1>10, <1>11 DEF Next, RunStep

\* Where a run has the summaries from, and when it was begun.
New(u, s) == s = Summary(u) \/ (Fresh(u, aggregate[u]) /\ s = aggregate[u])
Begins(r, u) ==
  run'[r].got[u] = None /\ (run'[r].at \in Working => run'[r].early = ~Closed)
GoesOn(r, u) ==
  /\ run'[r].early = run[r].early
  /\ run'[r].at \in Working => run[r].at \in Working
  /\ \/ run'[r].got[u] = run[r].got[u] /\ (u \in run[r].missed => u \in run'[r].missed)
     \/ run[r].at \in Working /\ (New(u, run'[r].got[u]) \/ u \in run'[r].missed)

LEMMA DoneIs ==
  ASSUME RunTypes, NEW r \in Runs, NEW u, NEW next \in Phases, NEW users \in SUBSET Users
  PROVE  \A k \in Runs : /\ Done(r, u, next, users)[k].early = run[k].early
                         /\ Done(r, u, next, users)[k].got = run[k].got
                         /\ Done(r, u, next, users)[k].missed = run[k].missed
                         /\ Done(r, u, next, users)[k].at \in {run[k].at, next}
                         /\ k # r => Done(r, u, next, users)[k] = run[k]
<1>1. run \in [Runs -> RunRecords] /\ run[r] \in RunRecords
  BY DEF RunTypes
<1>2. \/ Done(r, u, next, users) = [run EXCEPT ![r].at = next, ![r].left = users]
      \/ Done(r, u, next, users) = [run EXCEPT ![r].left = @ \ {u}]
  BY DEF Done
<1> QED
  BY <1>1, <1>2 DEF RunRecords

LEMMA GotStep ==
  ASSUME Types, [Next]_vars, NEW k \in Runs, NEW u \in Users
  PROVE  Begins(k, u) \/ GoesOn(k, u)
<1>1. /\ StoredTypes /\ RunTypes /\ run \in [Runs -> RunRecords] /\ Daily \in Runs
      /\ run[k] \in RunRecords /\ run[k].got \in [Users -> Summaries \union {None}]
  BY DEF Types, RunTypes, RunRecords, Runs
<1>2. Idle.got[u] = None /\ Idle.at = "idle" /\ Idle.early = FALSE /\ Idle \in RunRecords
  BY DEF Idle, RunRecords, Phases
<1>3. \A at, users : /\ Started(at, users).got[u] = None
                     /\ Started(at, users).early = ~Closed
  BY DEF Started, Idle
<1>4. ASSUME run'[k] = run[k] PROVE GoesOn(k, u)
  BY <1>4 DEF GoesOn
<1>5. CASE UNCHANGED run
  BY <1>4, <1>5
<1>6. ASSUME NEW p \in Plays, NEW what \in Reports, Emit(p, what) PROVE UNCHANGED run
  BY <1>6 DEF Emit
<1>7. ASSUME NEW e \in outbox, NEW answered \in BOOLEAN, Report(e, answered) PROVE UNCHANGED run
  BY <1>7 DEF Report
<1>8. ASSUME NEW p \in Plays, DeleteSong(p) PROVE UNCHANGED run
  BY <1>8 DEF DeleteSong
<1>9. ASSUME NEW v \in Users, NEW flag \in BOOLEAN, ViewBuilds(v, flag) \/ Reset(v, flag)
      PROVE  UNCHANGED run
  BY <1>9 DEF ViewBuilds, Reset
<1>10. ASSUME NEW v \in Users, ViewStores(v) \/ Purge(v) PROVE UNCHANGED run
  BY <1>10 DEF ViewStores, ViewStoresAs, Purge
<1>11. CASE Ages \/ NextDay \/ UNCHANGED vars
  BY <1>5, <1>11 DEF Ages, NextDay, vars
<1>12. ASSUME NEW r \in Jobs, Acquire(r) \/ NotQueued(r) PROVE GoesOn(k, u)
  <2>1. PICK at \in Phases \ Working : run' = [run EXCEPT ![r].at = at]
    BY <1>12 DEF Acquire, NotQueued, Phases, Working
  <2> QED
    BY <1>1, <2>1 DEF GoesOn, RunRecords, Runs
<1>13. ASSUME NEW r \in Jobs, Label(r) \/ Start(r) PROVE Begins(k, u) \/ GoesOn(k, u)
  <2>1. PICK users : run' = [run EXCEPT ![r] = Started("building", users)]
    BY <1>13 DEF Label, Start
  <2>2. CASE k = r
    BY <1>1, <1>3, <2>1, <2>2 DEF Begins
  <2>3. CASE k # r
    BY <1>1, <1>4, <2>1, <2>3
  <2> QED
    BY <2>2, <2>3
<1>14. ASSUME NEW r \in Runs, NEW v \in Users, Build(r, v) PROVE GoesOn(k, u)
  <2>1. PICK users \in SUBSET Users, s \in Built(v) :
          run' = [Done(r, v, "storing", users) EXCEPT ![r].got[v] = s, ![r].missed = Missed(r, v, s)]
    <3>1. (IF Kind[r] \in Users THEN {Kind[r]} ELSE Users) \in SUBSET Users
      OBVIOUS
    <3> QED
      BY <1>14, <3>1 DEF Build
  <2>2. "storing" \in Phases /\ "storing" \in Working /\ run[r].at \in Working
    BY <1>14 DEF Build, Phases, Working
  <2>3. /\ Done(r, v, "storing", users) \in [Runs -> RunRecords]
        /\ Done(r, v, "storing", users)[k].early = run[k].early
        /\ Done(r, v, "storing", users)[k].got = run[k].got
        /\ Done(r, v, "storing", users)[k].missed = run[k].missed
        /\ Done(r, v, "storing", users)[k].at \in {run[k].at, "storing"}
        /\ k # r => Done(r, v, "storing", users)[k] = run[k]
    BY <1>1, <2>2, DoneTypes, DoneIs
  <2>4. /\ run'[k].early = run[k].early /\ run'[k].at = Done(r, v, "storing", users)[k].at
        /\ run'[k].got[u] = IF k = r /\ u = v THEN s ELSE run[k].got[u]
        /\ run'[k].missed = IF k = r THEN Missed(r, v, s) ELSE run[k].missed
    BY <1>1, <2>1, <2>3 DEF RunRecords
  <2> QED
    BY <2>2, <2>3, <2>4 DEF GoesOn, New, Missed
<1>15. ASSUME NEW r \in Runs, NEW v \in Users, Store(r, v) PROVE GoesOn(k, u)
  <2>1. PICK next \in Phases, users \in SUBSET Users : run' = Done(r, v, next, users)
    <3>1. "settling" \in Phases /\ "freezing" \in Phases /\ {} \in SUBSET Users /\ Users \in SUBSET Users
      BY DEF Phases
    <3> QED
      BY <1>15, <3>1 DEF Store
  <2>2. run[r].at \in Working
    BY <1>15 DEF Store, Working
  <2>3. /\ run'[k].early = run[k].early /\ run'[k].got = run[k].got
        /\ run'[k].missed = run[k].missed
        /\ k # r => run'[k] = run[k]
    BY <1>1, <2>1, DoneIs
  <2> QED
    BY <2>2, <2>3 DEF GoesOn
<1>16. ASSUME NEW r \in Runs, NEW v \in Users, Settle(r, v) \/ SettleStores(r, v)
       PROVE  GoesOn(k, u)
  <2>1. "freezing" \in Phases /\ {} \in SUBSET Users /\ run[r].at \in Working
    BY <1>16 DEF Settle, SettleWith, SettleStores, Phases, Working
  <2>2. /\ Done(r, v, "freezing", {}) \in [Runs -> RunRecords]
        /\ Done(r, v, "freezing", {})[k].early = run[k].early
        /\ Done(r, v, "freezing", {})[k].got = run[k].got
        /\ Done(r, v, "freezing", {})[k].missed = run[k].missed
        /\ Done(r, v, "freezing", {})[k].at \in {run[k].at, "freezing"}
        /\ k # r => Done(r, v, "freezing", {})[k] = run[k]
    <3>1. Done(r, v, "freezing", {}) \in [Runs -> RunRecords]
      BY <1>1, <2>1, DoneTypes
    <3>2. /\ Done(r, v, "freezing", {})[k].early = run[k].early
          /\ Done(r, v, "freezing", {})[k].got = run[k].got
          /\ Done(r, v, "freezing", {})[k].missed = run[k].missed
          /\ Done(r, v, "freezing", {})[k].at \in {run[k].at, "freezing"}
          /\ k # r => Done(r, v, "freezing", {})[k] = run[k]
      BY <1>1, <2>1, DoneIs
    <3> QED
      BY <3>1, <3>2
  <2>3. CASE /\ Fresh(v, aggregate[v])
             /\ run' = [Done(r, v, "freezing", {}) EXCEPT ![r].got[v] = aggregate[v],
                                                          ![r].missed = @ \ {v}]
    <3>1. /\ run'[k].missed = IF k = r THEN run[k].missed \ {v} ELSE run[k].missed
          /\ run'[k].early = run[k].early /\ run'[k].at = Done(r, v, "freezing", {})[k].at
          /\ run'[k].got[u] = IF k = r /\ u = v THEN aggregate[u] ELSE run[k].got[u]
      BY <1>1, <2>2, <2>3 DEF RunRecords
    <3> QED
      BY <2>1, <2>2, <2>3, <3>1 DEF GoesOn, New
  <2>4. CASE \E s \in Built(v) :
               run' = [run EXCEPT ![r].got[v] = s, ![r].held = v, ![r].missed = Missed(r, v, s)]
    <3>0. PICK s \in Built(v) :
            run' = [run EXCEPT ![r].got[v] = s, ![r].held = v, ![r].missed = Missed(r, v, s)]
      BY <2>4
    <3>1. /\ run'[k].early = run[k].early /\ run'[k].at = run[k].at
          /\ run'[k].got[u] = IF k = r /\ u = v THEN s ELSE run[k].got[u]
          /\ run'[k].missed = IF k = r THEN Missed(r, v, s) ELSE run[k].missed
      BY <1>1, <3>0 DEF RunRecords
    <3> QED
      BY <2>1, <3>1 DEF GoesOn, New, Missed
  <2>5. CASE run' = [Done(r, v, "freezing", {}) EXCEPT ![r].held = None]
    <3>1. /\ run'[k].early = run[k].early /\ run'[k].at = Done(r, v, "freezing", {})[k].at
          /\ run'[k].got = run[k].got /\ run'[k].missed = run[k].missed
      BY <1>1, <2>2, <2>5 DEF RunRecords
    <3> QED
      BY <2>1, <2>2, <3>1 DEF GoesOn
  <2> QED
    BY <1>16, <2>3, <2>4, <2>5 DEF Settle, SettleWith, SettleStores
<1>17. ASSUME NEW r \in Runs, Freeze(r) PROVE GoesOn(k, u)
  <2>1. PICK at \in Phases \ Working : run' = [run EXCEPT ![r].at = at]
    BY <1>17 DEF Freeze, Phases, Working
  <2> QED
    BY <1>1, <2>1 DEF GoesOn, RunRecords
<1>18. ASSUME NEW r \in Runs, End(r) \/ Fail(r) PROVE Begins(k, u) \/ GoesOn(k, u)
  <2>0. \A at : [Idle EXCEPT !.at = at].got[u] = None /\ [Idle EXCEPT !.at = at].at = at
    BY DEF Idle
  <2>1. PICK new \in {[Idle EXCEPT !.at = "done"], [Idle EXCEPT !.at = "ending"], Idle} :
          run' = [run EXCEPT ![r] = new]
    BY <1>18 DEF End, Fail
  <2>2. new.got[u] = None /\ new.at \notin Working
    BY <1>2, <2>0 DEF Working
  <2>3. CASE k = r
    BY <1>1, <2>1, <2>2, <2>3 DEF Begins
  <2>4. CASE k # r
    BY <1>1, <1>4, <2>1, <2>4
  <2> QED
    BY <2>3, <2>4
<1>19. CASE DailyStarts \/ DailyMarks
  <2>1. PICK new \in {Idle, Started("settling", Users)} : run' = [run EXCEPT ![Daily] = new]
    BY <1>19 DEF DailyStarts, DailyStartsWith, DailyMarks
  <2>2. CASE k = Daily
    BY <1>1, <1>2, <1>3, <2>1, <2>2 DEF Begins, Working
  <2>3. CASE k # Daily
    BY <1>1, <1>4, <2>1, <2>3
  <2> QED
    BY <2>2, <2>3
<1>20. CASE Crash
  <2>1. \/ run'[k] = run[k] \/ run'[k] = Idle \/ run'[k] = [Idle EXCEPT !.at = "done"]
    BY <1>1, <1>20 DEF Crash
  <2>2. [Idle EXCEPT !.at = "done"].got[u] = None /\ [Idle EXCEPT !.at = "done"].at = "done"
    BY DEF Idle
  <2> QED
    BY <1>2, <1>4, <2>1, <2>2 DEF Begins, Working
<1> QED
  BY <1>4, <1>5, <1>6, <1>7, <1>8, <1>9, <1>10, <1>11, <1>12, <1>13, <1>14, <1>15, <1>16, <1>17,
     <1>18, <1>19, <1>20 DEF Next, RunStep

LEMMA CompleteStep == Types /\ Sound /\ Complete /\ [Next]_vars => Complete'
<1> SUFFICES ASSUME Types, Sound, Complete, [Next]_vars PROVE Complete'
  OBVIOUS
<1>1. ReportsAgree'
  BY AgreeStep DEF Complete
<1>2. /\ wiped \subseteq wiped' /\ gone \subseteq gone'
      /\ \A u \in Users \ wiped' : RowsOf(u) \subseteq RowsOf(u)'
  BY RowsStay DEF Sound
<1>3. \/ UNCHANGED <<day, due>> /\ UNCHANGED Closed
      \/ ~Closed /\ NextDay
  BY DueStep DEF NextDay, Closed
\* The count of a user's rows keeps what it has, but for the songs that go.
<1>4. ASSUME NEW u \in Users \ wiped'
      PROVE  Counted(RowsOf(u)) \ gone' \subseteq Counted(RowsOf(u))'
  <2>1. PICK T : T = RowsOf(u)
    OBVIOUS
  <2>2. PICK S : S = RowsOf(u)'
    OBVIOUS
  <2>3. PICK all : all = emitted'
    OBVIOUS
  <2>4. T \subseteq S /\ S \subseteq all
    <3>1. raw' \subseteq emitted'
      BY TypeStep DEF Types, ReportTypes
    <3> QED
      BY <1>2, <2>1, <2>2, <2>3, <3>1 DEF RowsOf
  <2>5. /\ \A e \in all : e.kind \in Finals \union {"play_30s"}
        /\ \A e, f \in all : e.play = f.play /\ e # f => e.long /\ f.long
    <3>1. emitted' \subseteq ReportRecords
      BY TypeStep DEF Types, ReportTypes
    <3> QED
      BY <1>1, <2>3, <3>1 DEF ReportsAgree, ReportRecords
  <2>6. Counted(T) \subseteq Counted(S)
    BY <2>4, <2>5, CountGrows
  <2>7. Counted(S)' = Counted(S) \ gone'
    BY <1>2 DEF Counted, Found
  <2>8. (Counted(RowsOf(u)))' = Counted(S)'
    BY <2>2
  <2> QED
    BY <2>1, <2>6, <2>7, <2>8
<1>5. ASSUME NEW u \in Users \ wiped' PROVE (DueOf(u) \ gone)' \subseteq Counted(RowsOf(u))'
  <2>1. CASE UNCHANGED due
    <3>1. DueOf(u) \ gone \subseteq Counted(RowsOf(u))
      BY <1>2 DEF Complete
    <3> QED
      BY <1>2, <1>4, <2>1, <3>1 DEF DueOf
  <2>2. CASE NextDay
    <3>1. UNCHANGED <<raw, gone>> /\ due' \subseteq Counted(raw)
      BY <2>2 DEF NextDay
    <3>2. {p \in Counted(raw) : Listener[p] = u} \subseteq Counted(RowsOf(u))
      BY DEF Counted, Terminal, RowsOf
    <3>3. (Counted(RowsOf(u)))' = Counted(RowsOf(u))
      BY <3>1 DEF Counted, Found, Terminal, RowsOf
    <3> QED
      BY <3>1, <3>2, <3>3 DEF DueOf
  <2> QED
    BY <1>3, <2>1, <2>2
\* Before the end of the year nothing is frozen, and the runs have begun.
<1>6. ASSUME ~Closed'
      PROVE  /\ due' = {} /\ \A u \in Users : snapshot'[u] = None
             /\ \A r \in Runs, u \in Users : /\ run'[r].at \in Working => run'[r].early
                                             /\ ~run'[r].early => run'[r].got[u] = None
  <2>1. ~Closed
    BY <1>3, <1>6
  <2>2. due' = {}
    <3>1. CASE NextDay
      <4>1. day \in Nat /\ YearDays \in Nat
        BY Given DEF Types, RestTypes
      <4> QED
        BY <1>6, <3>1, <4>1 DEF NextDay, Closed
    <3> QED
      BY <1>3, <2>1, <3>1 DEF Complete
  <2>3. \A u \in Users : snapshot'[u] = None
    BY <2>1, SnapshotStep DEF Complete
  <2>4. ASSUME NEW r \in Runs, NEW u \in Users
        PROVE  /\ run'[r].at \in Working => run'[r].early
               /\ ~run'[r].early => run'[r].got[u] = None
    <3>1. Begins(r, u) \/ GoesOn(r, u)
      BY GotStep
    <3> QED
      BY <2>1, <3>1 DEF Complete, Begins, GoesOn
  <2> QED
    BY <2>2, <2>3, <2>4
\* What a run begun since has got counts what there was.
<1>7. ASSUME NEW u \in Users \ wiped', NEW r \in Runs, ~run'[r].early, u \notin run'[r].missed
      PROVE  Has(u, run[r].got[u])'
  <2>1. Begins(r, u) \/ GoesOn(r, u)
    BY GotStep
  <2>2. CASE run'[r].got[u] = None
    BY <2>2 DEF Has
  <2>3. CASE /\ ~run[r].early /\ u \notin run[r].missed
             /\ run'[r].got[u] = run[r].got[u] /\ run[r].got[u] # None
    <3>1. Closed /\ UNCHANGED due
      BY <1>2, <1>3, <2>3 DEF Complete
    <3>2. DueOf(u) \ gone \subseteq run[r].got[u].plays
      BY <1>2, <2>3 DEF Complete, Has
    <3> QED
      BY <1>2, <2>3, <3>1, <3>2 DEF Has, DueOf
  <2>4. CASE ~run[r].early /\ run[r].at \in Working /\ New(u, run'[r].got[u])
    <3>1. Closed /\ UNCHANGED due
      BY <1>3, <2>4 DEF Complete
    <3>2. DueOf(u) \ gone \subseteq Counted(RowsOf(u))
      BY <1>2 DEF Complete
    <3>3. PICK s : s = run'[r].got[u] /\ New(u, s)
      BY <2>4
    <3>4. Counted(RowsOf(u)) \subseteq s.plays
      <4>1. CASE s = Summary(u)
        BY <4>1 DEF Summary
      <4>2. CASE Fresh(u, aggregate[u]) /\ s = aggregate[u]
        BY <1>2, <4>2, SoundServes DEF ServedIsTrue
      <4> QED
        BY <3>3, <4>1, <4>2 DEF New
    <3> QED
      BY <1>2, <3>1, <3>2, <3>3, <3>4 DEF Has, DueOf
  <2> QED
    BY <1>7, <2>1, <2>2, <2>3, <2>4 DEF Begins, GoesOn
\* ... and so does what is frozen from it.
<1>8. ASSUME NEW u \in Users \ wiped', u \notin straddled' \union misread'
      PROVE  Has(u, snapshot[u])'
  <2>1. PICK s : s = snapshot'[u]
    OBVIOUS
  <2>2. CASE s = None
    BY <2>1, <2>2 DEF Has
  <2>3. CASE s # None
    <3>1. Closed /\ UNCHANGED due
      BY <1>3, <2>1, <2>3, SnapshotStep DEF Complete
    <3>2. Has(u, s)
      <4>1. CASE /\ snapshot'[u] = snapshot[u]
                 /\ u \in straddled \union misread => u \in straddled' \union misread'
        BY <1>2, <1>8, <2>1, <4>1 DEF Complete
      <4>2. CASE \E r \in Runs : /\ snapshot'[u] = run[r].got[u]
                                 /\ run[r].early => u \in straddled'
                                 /\ u \in run[r].missed => u \in misread'
        BY <1>2, <1>8, <2>1, <4>2 DEF Complete
      <4> QED
        BY <1>8, <4>1, <4>2, SnapshotStep
    <3>3. DueOf(u)' = DueOf(u)
      BY <3>1 DEF DueOf
    <3> QED
      BY <1>2, <2>1, <2>3, <3>2, <3>3 DEF Has
  <2> QED
    BY <2>2, <2>3
<1> QED
  BY <1>1, <1>5, <1>6, <1>7, <1>8 DEF Complete

LEMMA CompleteInit == Init => Complete
<1> SUFFICES ASSUME Init PROVE Complete
  OBVIOUS
<1>1. ReportsAgree
  BY DEF Init, ReportsAgree
<1>2. ASSUME NEW r \in Runs, NEW u \in Users
      PROVE  run[r].at \notin Working /\ run[r].got[u] = None
  BY <1>2 DEF Init, Idle, Working
<1>3. \A u \in Users : DueOf(u) = {} /\ snapshot[u] = None
  BY DEF Init, DueOf
<1>4. due = {}
  BY DEF Init
<1> QED
  BY <1>1, <1>2, <1>3, <1>4 DEF Complete, Has

\* A snapshot has every session that had been reported when the year ended, whatever comes in
\* late and whatever reads have failed, unless its run was begun before or could not read the
\* rows of its user, or the user was reset (Wrapped, SnapshotIsComplete).
THEOREM Snapshots == Spec => []SnapshotIsComplete
<1>1. Init => Types /\ Sound /\ Complete
  BY TypeInit, SoundInit, CompleteInit
<1>2. Types /\ Sound /\ Complete /\ [Next]_vars => (Types /\ Sound /\ Complete)'
  BY TypeStep, SoundStep, CompleteStep
<1>3. Complete => SnapshotIsComplete
  BY DEF Complete, SnapshotIsComplete, Has, DueOf
<1> QED
  BY <1>1, <1>2, <1>3, PTL DEF Spec
=============================================================================
