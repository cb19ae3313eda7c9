-------------------------- MODULE FederationProofs --------------------------
(***************************************************************************)
(* Proofs about Federation, for any instances, catalogues, sizes of a page *)
(* and numbers of rows and of synchronisations under way.                  *)
(***************************************************************************)
EXTENDS Federation, FiniteSetTheorems, TLAPS

LEMMA Given ==
  /\ Catalogue \in [Remotes -> Nat] /\ MaxRows \in Nat
  /\ PageSize \in Nat /\ PageSize # 0 /\ MaxIncidents \in Nat /\ Tick \notin Tasks
BY FederationAssumption DEF FederationAssumption

-----------------------------------------------------------------------------
(* Rows and steps.                                                          *)

LEMMA RowFields ==
  ASSUME NEW it \in RowRecords
  PROVE  /\ it.at \in Remotes /\ it.enabled \in BOOLEAN /\ it.playable \in BOOLEAN
         /\ it.seen \in BOOLEAN /\ it.cursor \in Nat
BY DEF RowRecords

LEMMA RowSeen ==
  ASSUME NEW it \in RowRecords, NEW playable \in BOOLEAN, NEW answered \in BOOLEAN
  PROVE  LET new == Seen(it, playable, answered)
         IN new \in RowRecords /\ new.at = it.at /\ new.cursor = it.cursor
BY DEF RowRecords, Seen

LEMMA RowReached ==
  ASSUME NEW it \in RowRecords, NEW cursor \in Nat
  PROVE  LET new == Reached(it, cursor)
         IN new \in RowRecords /\ new.at = it.at /\ new.cursor = cursor
BY DEF RowRecords, Reached

LEMMA RowEnabled ==
  ASSUME NEW it \in RowRecords, NEW enabled \in BOOLEAN
  PROVE  LET new == [it EXCEPT !.enabled = enabled]
         IN new \in RowRecords /\ new.at = it.at /\ new.cursor = it.cursor
BY DEF RowRecords

LEMMA RowUnseen ==
  ASSUME NEW it \in RowRecords
  PROVE  LET new == [it EXCEPT !.seen = FALSE]
         IN new \in RowRecords /\ new.at = it.at /\ new.cursor = it.cursor
BY DEF RowRecords

LEMMA RowMoved ==
  ASSUME NEW it \in RowRecords, NEW r \in Remotes
  PROVE  [it EXCEPT !.at = r] \in RowRecords
BY DEF RowRecords

LEMMA RowCreated ==
  ASSUME NEW r \in Remotes, NEW enabled \in BOOLEAN
  PROVE  LET new == [at |-> r, enabled |-> enabled, playable |-> FALSE, seen |-> FALSE, cursor |-> 0]
         IN new \in RowRecords /\ new.at = r /\ new.cursor = 0
BY DEF RowRecords

LEMMA StepFields ==
  /\ \A s \in StepRecords : /\ s.id \in Ids
                            /\ s.at = "pulling" => s.from \in Remotes /\ s.cursor \in Nat
  /\ \A i \in Ids, r \in Remotes, c \in Nat :
       LET s == Pull(i, r, c)
       IN s \in StepRecords /\ s.at = "pulling" /\ s.id = i /\ s.from = r /\ s.cursor = c
  /\ \A i \in Ids, at \in {"checking", "claiming"} :
       LET s == [at |-> at, id |-> i] IN s \in StepRecords /\ s.at # "pulling"
BY DEF StepRecords, Pull

-----------------------------------------------------------------------------
(* Types.                                                                   *)

RemoteTypes ==
  /\ published \in [Remotes -> SUBSET Numbers] /\ high \in [Remotes -> Nat]
  /\ answers \in [Remotes -> BOOLEAN] /\ reused \subseteq Remotes \X Numbers

StoreTypes ==
  /\ row \in [Ids -> RowRecords \union {None}]
  /\ mirror \in [Ids -> SUBSET Numbers] /\ moved \subseteq Ids

LoopTypes ==
  /\ syncing \subseteq Ids /\ due \subseteq Ids /\ todo \subseteq Ids
  /\ step \in [Workers -> StepRecords \union {None}]
  /\ incidents \in 0..MaxIncidents

LEMMA TypeParts == TypeOK <=> RemoteTypes /\ StoreTypes /\ LoopTypes
BY DEF TypeOK, RemoteTypes, StoreTypes, LoopTypes

LEMMA IncidentTypes ==
  ASSUME incidents \in 0..MaxIncidents, Incident \/ UNCHANGED incidents
  PROVE  incidents' \in 0..MaxIncidents
BY Given DEF Incident

LEMMA NumberTypes == \A r \in Remotes : 1..Catalogue[r] \subseteq Numbers /\ Numbers \subseteq Nat
BY Given DEF Numbers

LEMMA RemoteTypesInit == Init => RemoteTypes
<1> SUFFICES ASSUME Init PROVE RemoteTypes
  OBVIOUS
<1>1. published \in [Remotes -> SUBSET Numbers]
  BY DEF Init
<1>2. high \in [Remotes -> Nat] /\ answers \in [Remotes -> BOOLEAN]
  BY DEF Init
<1> QED
  BY <1>1, <1>2 DEF Init, RemoteTypes

LEMMA TypeInit == Init => TypeOK
<1> SUFFICES ASSUME Init PROVE RemoteTypes /\ StoreTypes /\ LoopTypes
  BY TypeParts
<1>1. StoreTypes
  BY DEF Init, StoreTypes
<1>2. LoopTypes
  <2>1. incidents \in 0..MaxIncidents
    <3>1. incidents = 0 /\ MaxIncidents \in Nat
      BY Given DEF Init
    <3> QED
      BY <3>1
  <2> QED
    BY <2>1 DEF Init, LoopTypes
<1> QED
  BY <1>1, <1>2, RemoteTypesInit

LEMMA RemoteTypesStep == RemoteTypes /\ [Next]_vars => RemoteTypes'
<1> SUFFICES ASSUME RemoteTypes, [Next]_vars PROVE RemoteTypes'
  OBVIOUS
<1> USE DEF RemoteTypes
<1>1. ASSUME NEW r \in Remotes, Publish(r) PROVE RemoteTypes'
  <2>1. PICK k \in 1..Catalogue[r] :
          /\ published' = [published EXCEPT ![r] = @ \union {k}]
          /\ high' = [high EXCEPT ![r] = IF k > @ THEN k ELSE @]
          /\ reused' = IF k <= high[r] THEN reused \union {<<r, k>>} ELSE reused
    BY <1>1 DEF Publish
  <2>2. k \in Numbers /\ k \in Nat
    BY NumberTypes
  <2>3. published' \in [Remotes -> SUBSET Numbers]
    BY <2>1, <2>2
  <2>4. high' \in [Remotes -> Nat]
    BY <2>1, <2>2
  <2>5. reused' \subseteq Remotes \X Numbers
    BY <2>1, <2>2
  <2> QED
    BY <1>1, <2>3, <2>4, <2>5 DEF Publish
<1>2. ASSUME NEW r \in Remotes, Unpublish(r) \/ FallsSilent(r) \/ ComesBack(r) PROVE RemoteTypes'
  BY <1>2 DEF Unpublish, FallsSilent, ComesBack
<1>3. CASE UNCHANGED remote
  BY <1>3 DEF remote
<1>4. ASSUME NEW w \in Workers, Checked(w) \/ Claim(w) \/ PullPage(w) \/ PullFails(w)
      PROVE  UNCHANGED remote
  BY <1>4 DEF Checked, Claim, PullPage, PullFails
<1>5. CASE TickStarts \/ TickVisits \/ Restart
  BY <1>3, <1>5 DEF TickStarts, TickVisits, Restart
<1>6. ASSUME NEW i \in Ids,
             \/ \E enabled \in BOOLEAN : Enable(i, enabled)
             \/ Delete(i) \/ Unseen(i) \/ DueAgain(i)
             \/ \E w \in Tasks : AskSync(w, i)
             \/ \E r \in Remotes : Move(i, r)
      PROVE  UNCHANGED remote
  BY <1>6 DEF Enable, Delete, Unseen, DueAgain, AskSync, Move
<1>7. ASSUME NEW r \in Remotes, NEW enabled \in BOOLEAN, Create(r, enabled) PROVE UNCHANGED remote
  BY <1>7 DEF Create
<1>8. CASE UNCHANGED vars
  BY <1>3, <1>8 DEF vars
<1> QED
  BY <1>1, <1>2, <1>3, <1>4, <1>5, <1>6, <1>7, <1>8 DEF Next

(* The songs of a page are songs of the remote behind the cursor. *)
LEMMA PageTypes ==
  ASSUME RemoteTypes, NEW r \in Remotes, NEW c \in Nat
  PROVE  /\ Page(r, c) \subseteq Numbers
         /\ \A k \in Page(r, c) : k \in published[r] /\ k \in Nat /\ k > c
BY NumberTypes DEF RemoteTypes, Page

LEMMA StoreTypesStep == RemoteTypes /\ StoreTypes /\ LoopTypes /\ [Next]_vars => StoreTypes'
<1> SUFFICES ASSUME RemoteTypes, StoreTypes, LoopTypes, [Next]_vars PROVE StoreTypes'
  OBVIOUS
<1> USE DEF StoreTypes
<1>1. CASE UNCHANGED store
  BY <1>1 DEF store
<1>2. ASSUME NEW r \in Remotes, Publish(r) \/ Unpublish(r) \/ FallsSilent(r) \/ ComesBack(r)
      PROVE  UNCHANGED store
  BY <1>2 DEF Publish, Unpublish, FallsSilent, ComesBack
<1>3. ASSUME NEW r \in Remotes, NEW enabled \in BOOLEAN, Create(r, enabled) PROVE StoreTypes'
  <2>1. PICK i \in Ids :
          /\ row' = [row EXCEPT ![i] = [at |-> r, enabled |-> enabled, playable |-> FALSE,
                                        seen |-> FALSE, cursor |-> 0]]
          /\ moved' \in {moved \union {i}, moved \ {i}}
    BY <1>3 DEF Create
  <2>2. row' \in [Ids -> RowRecords \union {None}]
    BY <2>1, RowCreated
  <2> QED
    BY <1>3, <2>1, <2>2 DEF Create
<1>4. ASSUME NEW i \in Ids, NEW enabled \in BOOLEAN, Enable(i, enabled) PROVE StoreTypes'
  <2>1. row' = [row EXCEPT ![i] = [@ EXCEPT !.enabled = enabled]] /\ row[i] \in RowRecords
    BY <1>4 DEF Enable
  <2>2. row' \in [Ids -> RowRecords \union {None}]
    BY <2>1, RowEnabled
  <2> QED
    BY <1>4, <2>2 DEF Enable
<1>5. ASSUME NEW i \in Ids, NEW r \in Remotes, Move(i, r) PROVE StoreTypes'
  <2>1. row' = [row EXCEPT ![i] = [@ EXCEPT !.at = r]] /\ row[i] \in RowRecords
    BY <1>5 DEF Move
  <2>2. row' \in [Ids -> RowRecords \union {None}]
    BY <2>1, RowMoved
  <2> QED
    BY <1>5, <2>2 DEF Move
<1>6. ASSUME NEW i \in Ids, Delete(i) PROVE StoreTypes'
  BY <1>6 DEF Delete
<1>7. ASSUME NEW i \in Ids, Unseen(i) PROVE StoreTypes'
  <2>1. row' = [row EXCEPT ![i] = [@ EXCEPT !.seen = FALSE]] /\ row[i] \in RowRecords
    BY <1>7 DEF Unseen
  <2>2. row' \in [Ids -> RowRecords \union {None}]
    BY <2>1, RowUnseen
  <2> QED
    BY <1>7, <2>2 DEF Unseen
<1>8. ASSUME NEW w \in Workers, Checked(w) PROVE StoreTypes'
  <2>1. PICK i \in Ids : i = step[w].id
    BY <1>8, StepFields DEF Checked, LoopTypes
  <2>2. CASE UNCHANGED row
    BY <1>8, <2>2 DEF Checked
  <2>3. ASSUME NEW playable \in BOOLEAN, row[i] # None,
               row' = [row EXCEPT ![i] = Seen(@, playable, answers[@.at])]
        PROVE  row' \in [Ids -> RowRecords \union {None}]
    <3>1. row[i] \in RowRecords /\ answers[row[i].at] \in BOOLEAN
      BY <2>3, RowFields DEF RemoteTypes
    <3> QED
      BY <2>3, <3>1, RowSeen
  <2>4. row[i] # None => StatusAfter(i) \in BOOLEAN
    BY RowFields DEF StatusAfter, RemoteTypes
  <2>5. row' \in [Ids -> RowRecords \union {None}]
    BY <1>8, <2>1, <2>2, <2>3, <2>4 DEF Checked, CheckedWith
  <2> QED
    BY <1>8, <2>5 DEF Checked
<1>9. ASSUME NEW w \in Workers, PullPage(w) PROVE StoreTypes'
  <2>1. PICK i \in Ids, from \in Remotes, c \in Nat :
          i = step[w].id /\ from = step[w].from /\ c = step[w].cursor
    BY <1>9, StepFields DEF PullPage, Pulling, LoopTypes
  <2>2. CASE UNCHANGED <<row, mirror>>
    BY <1>9, <2>2 DEF PullPage
  <2>3. ASSUME NEW cursor \in Page(from, c) \union {c}, row[i] # None,
               Upsert(i, Page(from, c)),
               row' = row \/ row' = [row EXCEPT ![i] = Reached(@, cursor)]
        PROVE  row' \in [Ids -> RowRecords \union {None}] /\ mirror' \in [Ids -> SUBSET Numbers]
    <3>1. cursor \in Nat /\ Page(from, c) \subseteq Numbers
      BY PageTypes
    <3>2. row' \in [Ids -> RowRecords \union {None}]
      BY <2>3, <3>1, RowReached
    <3> QED
      BY <2>3, <3>1, <3>2 DEF Upsert
  <2>4. row' \in [Ids -> RowRecords \union {None}] /\ mirror' \in [Ids -> SUBSET Numbers]
    BY <1>9, <2>1, <2>2, <2>3 DEF PullPage
  <2> QED
    BY <1>9, <2>4 DEF PullPage
<1>10. ASSUME NEW w \in Workers, Claim(w) \/ PullFails(w) PROVE UNCHANGED store
  BY <1>10 DEF Claim, PullFails
<1>11. CASE TickStarts \/ TickVisits \/ Restart \/ UNCHANGED vars
  BY <1>1, <1>11 DEF TickStarts, TickVisits, Restart, vars
<1>12. ASSUME NEW i \in Ids, DueAgain(i) \/ \E w \in Tasks : AskSync(w, i) PROVE UNCHANGED store
  BY <1>12 DEF DueAgain, AskSync
<1> QED
  BY <1>1, <1>2, <1>3, <1>4, <1>5, <1>6, <1>7, <1>8, <1>9, <1>10, <1>11, <1>12 DEF Next

(* What a worker does next is a step again, or none.                        *)
LEMMA StepWritten ==
  ASSUME LoopTypes, NEW w \in Workers, NEW s \in StepRecords \union {None}
  PROVE  [step EXCEPT ![w] = s] \in [Workers -> StepRecords \union {None}]
BY DEF LoopTypes

LEMMA DoneTypes ==
  ASSUME LoopTypes, NEW w \in Workers, Done(w) \/ Raised(w)
  PROVE  step' \in [Workers -> StepRecords \union {None}] /\ todo' \subseteq Ids
BY DEF LoopTypes, Done, Raised

LEMMA LoopTypesStep == RemoteTypes /\ StoreTypes /\ LoopTypes /\ [Next]_vars => LoopTypes'
<1> SUFFICES ASSUME RemoteTypes, StoreTypes, LoopTypes, [Next]_vars PROVE LoopTypes'
  OBVIOUS
<1> DEFINE Loop == <<syncing, due, todo, step>>
<1>0. ASSUME UNCHANGED Loop, Incident \/ UNCHANGED incidents PROVE LoopTypes'
  BY <1>0, IncidentTypes DEF LoopTypes
<1>1. ASSUME NEW r \in Remotes, Publish(r) \/ Unpublish(r) \/ FallsSilent(r) \/ ComesBack(r)
      PROVE  LoopTypes'
  BY <1>0, <1>1 DEF Publish, Unpublish, FallsSilent, ComesBack
<1>2. ASSUME NEW r \in Remotes, NEW enabled \in BOOLEAN, Create(r, enabled) PROVE LoopTypes'
  BY <1>0, <1>2 DEF Create
<1>3. ASSUME NEW i \in Ids, \/ \E enabled \in BOOLEAN : Enable(i, enabled)
                            \/ \E r \in Remotes : Move(i, r)
                            \/ Delete(i) \/ Unseen(i)
      PROVE  LoopTypes'
  BY <1>0, <1>3 DEF Enable, Move, Delete, Unseen
<1>4. ASSUME NEW i \in Ids, NEW w \in Tasks, AskSync(w, i) PROVE LoopTypes'
  <2>1. PICK s \in StepRecords : s = [at |-> "checking", id |-> i]
    BY StepFields
  <2>2. w \in Workers
    BY DEF Workers
  <2>3. step' \in [Workers -> StepRecords \union {None}]
    BY <1>4, <2>1, <2>2, StepWritten DEF AskSync
  <2> QED
    BY <1>4, <2>3 DEF AskSync, LoopTypes
<1>5. CASE TickStarts
  BY <1>5 DEF TickStarts, LoopTypes, Rows
<1>6. CASE TickVisits
  <2>1. PICK i \in todo :
          IF row[i] = None
          THEN todo' = {} /\ UNCHANGED step
          ELSE /\ todo' = todo \ {i}
               /\ step' = [step EXCEPT ![Tick] = [at |-> "checking", id |-> i]]
    BY <1>6 DEF TickVisits
  <2>2. i \in Ids /\ Tick \in Workers
    BY DEF LoopTypes, Workers
  <2>3. PICK s \in StepRecords : s = [at |-> "checking", id |-> i]
    BY <2>2, StepFields
  <2>4. [step EXCEPT ![Tick] = s] \in [Workers -> StepRecords \union {None}]
    BY <2>2, StepWritten
  <2>5. step' \in [Workers -> StepRecords \union {None}] /\ todo' \subseteq Ids
    BY <2>1, <2>3, <2>4 DEF LoopTypes
  <2> QED
    BY <1>6, <2>5 DEF TickVisits, LoopTypes
<1>7. ASSUME NEW w \in Workers, Checked(w) PROVE LoopTypes'
  <2>1. PICK i \in Ids : i = step[w].id
    BY <1>7, StepFields DEF Checked, LoopTypes
  <2>2. PICK s \in StepRecords : s = [at |-> "claiming", id |-> i]
    BY StepFields
  <2>3. [step EXCEPT ![w] = s] \in [Workers -> StepRecords \union {None}]
    BY StepWritten
  <2>4. \/ Raised(w) /\ UNCHANGED due
        \/ Done(w) /\ UNCHANGED due
        \/ /\ due' = IF w = Tick THEN due \ {i} ELSE due
           /\ step' = [step EXCEPT ![w] = s]
           /\ UNCHANGED todo
    BY <1>7, <2>1, <2>2 DEF Checked, CheckedWith
  <2>5. step' \in [Workers -> StepRecords \union {None}] /\ todo' \subseteq Ids /\ due' \subseteq Ids
    BY <2>3, <2>4, DoneTypes DEF LoopTypes
  <2> QED
    BY <1>7, <2>5 DEF Checked, LoopTypes
<1>8. ASSUME NEW w \in Workers, Claim(w) PROVE LoopTypes'
  <2>1. PICK i \in Ids : i = step[w].id
    BY <1>8, StepFields DEF Claim, LoopTypes
  <2>2. CASE (Raised(w) \/ Done(w)) /\ UNCHANGED syncing
    BY <1>8, <2>2, DoneTypes DEF Claim, LoopTypes
  <2>3. ASSUME row[i] # None, syncing' = syncing \union {i}, UNCHANGED todo,
               step' = [step EXCEPT ![w] = Pull(i, row[i].at, row[i].cursor)]
        PROVE  LoopTypes'
    <3>1. PICK s \in StepRecords : s = Pull(i, row[i].at, row[i].cursor)
      BY <2>3, RowFields, StepFields DEF StoreTypes
    <3>2. step' \in [Workers -> StepRecords \union {None}]
      BY <2>3, <3>1, StepWritten
    <3> QED
      BY <1>8, <2>3, <3>2 DEF Claim, LoopTypes
  <2> QED
    BY <1>8, <2>1, <2>2, <2>3 DEF Claim
<1>9. ASSUME NEW w \in Workers, PullPage(w) PROVE LoopTypes'
  <2>1. PICK i \in Ids, from \in Remotes, c \in Nat :
          i = step[w].id /\ from = step[w].from /\ c = step[w].cursor
    BY <1>9, StepFields DEF PullPage, Pulling, LoopTypes
  <2>2. CASE (Raised(w) \/ Done(w)) /\ (PullEnds(w) \/ UNCHANGED syncing)
    BY <1>9, <2>2, DoneTypes DEF PullPage, LoopTypes, PullEnds
  <2>3. ASSUME NEW cursor \in Page(from, c) \union {c}, UNCHANGED <<todo, syncing>>,
               step' = [step EXCEPT ![w] = Pull(i, from, cursor)]
        PROVE  LoopTypes'
    <3>1. cursor \in Nat
      BY PageTypes
    <3>2. PICK s \in StepRecords : s = Pull(i, from, cursor)
      BY <3>1, StepFields
    <3>3. step' \in [Workers -> StepRecords \union {None}]
      BY <2>3, <3>2, StepWritten
    <3> QED
      BY <1>9, <2>3, <3>3 DEF PullPage, LoopTypes
  <2> QED
    BY <1>9, <2>1, <2>2, <2>3 DEF PullPage
<1>10. ASSUME NEW w \in Workers, PullFails(w) PROVE LoopTypes'
  <2>1. Raised(w) \/ Done(w)
    BY <1>10 DEF PullFails, Unanswered, Unstored
  <2>2. syncing' \subseteq Ids /\ UNCHANGED due
    BY <1>10 DEF PullFails, Unanswered, Unstored, PullEnds, LoopTypes
  <2>3. Incident \/ UNCHANGED incidents
    BY <1>10 DEF PullFails, Unanswered, Unstored
  <2> QED
    BY <2>1, <2>2, <2>3, DoneTypes, IncidentTypes DEF LoopTypes
<1>11. ASSUME NEW i \in Ids, DueAgain(i) PROVE LoopTypes'
  BY <1>11 DEF DueAgain, LoopTypes
<1>12. CASE Restart
  BY <1>12, IncidentTypes DEF Restart, LoopTypes
<1>13. CASE UNCHANGED vars
  BY <1>0, <1>13 DEF vars
<1> QED
  BY <1>1, <1>2, <1>3, <1>4, <1>5, <1>6, <1>7, <1>8, <1>9, <1>10, <1>11, <1>12, <1>13 DEF Next

LEMMA TypeStep == TypeOK /\ [Next]_vars => TypeOK'
<1> SUFFICES ASSUME TypeOK, [Next]_vars PROVE TypeOK'
  OBVIOUS
<1>1. RemoteTypes /\ StoreTypes /\ LoopTypes
  BY TypeParts
<1>2. RemoteTypes' /\ StoreTypes' /\ LoopTypes'
  BY <1>1, RemoteTypesStep, StoreTypesStep, LoopTypesStep
<1> QED
  BY <1>2 DEF TypeOK, RemoteTypes, StoreTypes, LoopTypes

(* Every row, step and mirrored song is always one of its kind, whatever the      *)
(* remotes answer and however the workers of check_instance_health and            *)
(* sync_instance interleave.                                                      *)
THEOREM TypeCorrect == Spec => []TypeOK
BY TypeInit, TypeStep, PTL DEF Spec

-----------------------------------------------------------------------------
(* What the cursor of a row stands for.                                     *)

\* A number has been given before it is published, and a cursor only reaches given ones.
NumbersGiven == \A r \in Remotes : \A k \in published[r] : k <= high[r]
CursorsGiven == \A i \in Rows : i \notin moved => row[i].cursor <= high[row[i].at]

\* _currently_syncing: whoever pulls a row has claimed it, alone.
Claimed ==
  /\ \A w \in Workers : Pulling(w) => step[w].id \in syncing
  /\ \A w, v \in Workers : Pulling(w) /\ Pulling(v) /\ step[w].id = step[v].id => w = v

\* Where a pull goes on from is what its row says, unless the row has been changed under it.
UpToDate ==
  \A w \in Workers : Pulling(w) /\ row[step[w].id] # None /\ step[w].id \notin moved
    => step[w].from = row[step[w].id].at /\ step[w].cursor = row[step[w].id].cursor

CursorInv == NumbersGiven /\ CursorsGiven /\ Claimed /\ UpToDate /\ CursorCovers

(* What is published up to a song on the page is on the page.               *)
LEMMA PageIsFirst ==
  ASSUME RemoteTypes, NEW r \in Remotes, NEW c \in Nat,
         NEW last \in Page(r, c), NEW k \in published[r], c < k, k <= last
  PROVE  k \in Page(r, c)
<1> DEFINE later == {x \in published[r] : x > c}
           Under(n) == {x \in later : x < n}
<1>1. last \in later /\ k \in later /\ k \in Nat /\ last \in Nat /\ later \subseteq Nat
  BY NumberTypes DEF Page, RemoteTypes
<1>2. Under(last) \subseteq 0..last
  BY <1>1
<1>3. IsFiniteSet(0..last)
  BY <1>1, FS_Interval
<1>4. IsFiniteSet(Under(last))
  BY <1>2, <1>3, FS_Subset
<1>5. Under(k) \subseteq Under(last)
  BY <1>1
<1>6. Cardinality(Under(k)) <= Cardinality(Under(last))
      /\ Cardinality(Under(k)) \in Nat /\ Cardinality(Under(last)) \in Nat
  BY <1>4, <1>5, FS_Subset, FS_CardinalityType
<1>7. Cardinality(Under(last)) < PageSize
  BY DEF Page
<1>8. Cardinality(Under(k)) < PageSize
  BY <1>6, <1>7, Given
<1> QED
  BY <1>1, <1>8 DEF Page

LEMMA CursorInit == Init => CursorInv
<1> SUFFICES ASSUME Init PROVE CursorInv
  OBVIOUS
<1>1. Rows = {} /\ \A w \in Workers : ~Pulling(w)
  BY DEF Init, Rows, Pulling
<1>2. NumbersGiven
  BY DEF Init, NumbersGiven
<1> QED
  BY <1>1, <1>2 DEF CursorInv, CursorsGiven, Claimed, UpToDate, CursorCovers

(* A step that starts no pull and keeps the place and the cursor of every row it  *)
(* leaves also leaves true what pulls and rows say of each other.                 *)
LEMMA PullsKept ==
  ASSUME LoopTypes, Claimed, UpToDate, UNCHANGED <<moved, syncing>>,
         \A i \in Ids : row'[i] # None =>
           row[i] # None /\ row'[i].at = row[i].at /\ row'[i].cursor = row[i].cursor,
         \A w \in Workers : Pulling(w)' => Pulling(w) /\ UNCHANGED step[w]
  PROVE  Claimed' /\ UpToDate'
<1>1. \A w \in Workers : Pulling(w) => step[w].id \in Ids
  BY StepFields DEF Pulling, LoopTypes
<1>2. Claimed'
  BY DEF Claimed
<1>3. UpToDate'
  BY <1>1 DEF UpToDate
<1> QED
  BY <1>2, <1>3

LEMMA RowsKept ==
  ASSUME NumbersGiven, CursorsGiven, CursorCovers, UNCHANGED <<remote, mirror, moved>>,
         \A i \in Rows' : i \in Rows /\ row'[i].at = row[i].at /\ row'[i].cursor = row[i].cursor
  PROVE  NumbersGiven' /\ CursorsGiven' /\ CursorCovers'
<1>1. NumbersGiven' /\ \A r \in Remotes : Lasting(r)' = Lasting(r)
  BY DEF NumbersGiven, remote, Lasting
<1>2. CursorsGiven'
  BY DEF CursorsGiven, remote
<1>3. CursorCovers'
  BY DEF CursorCovers, Lasting, remote
<1> QED
  BY <1>1, <1>2, <1>3

(* One page keeps the invariant: everything up to its last song comes with it. *)
LEMMA CursorPage ==
  ASSUME TypeOK, CursorInv, NEW w \in Workers, PullPage(w) PROVE CursorInv'
<1> USE DEF CursorInv
<1>0. RemoteTypes /\ StoreTypes /\ LoopTypes
  BY TypeParts
<1>1. PICK i \in Ids, from \in Remotes, c \in Nat :
        i = step[w].id /\ from = step[w].from /\ c = step[w].cursor
  BY <1>0, StepFields DEF PullPage, Pulling, LoopTypes
<1>2. UNCHANGED <<remote, moved>> /\ Pulling(w)
  BY DEF PullPage
<1>3. ASSUME row[i] = None PROVE CursorInv'
  <2>1. step' = [step EXCEPT ![w] = None] /\ UNCHANGED <<row, mirror, syncing>>
    BY <1>1, <1>3 DEF PullPage, Raised
  <2>2. \A v \in Workers : Pulling(v)' => Pulling(v) /\ v # w /\ UNCHANGED step[v]
    BY <1>0, <2>1 DEF Pulling, LoopTypes
  <2>3. Claimed' /\ UpToDate'
    BY <1>1, <1>2, <2>1, <2>2 DEF Claimed, UpToDate
  <2>4. NumbersGiven' /\ CursorsGiven' /\ CursorCovers'
    BY <1>2, <2>1, RowsKept DEF Rows
  <2> QED
    BY <2>3, <2>4
<1>4. ASSUME row[i] # None PROVE CursorInv'
  <2>1. PICK cursor \in Page(from, c) \union {c} :
          /\ \A k \in Page(from, c) : k <= cursor
          /\ Upsert(i, Page(from, c))
          /\ row' = IF Page(from, c) = {} THEN row ELSE [row EXCEPT ![i] = Reached(@, cursor)]
          /\ IF Cardinality(Page(from, c)) < PageSize
             THEN Done(w) /\ PullEnds(w)
             ELSE /\ step' = [step EXCEPT ![w] = Pull(i, from, cursor)]
                  /\ UNCHANGED <<todo, syncing>>
    BY <1>1, <1>4 DEF PullPage
  <2>2. mirror' = [mirror EXCEPT ![i] = @ \union Page(from, c)] /\ cursor \in Nat
    BY <1>0, <2>1, PageTypes DEF Upsert
  <2>3. \A v \in Workers \ {w} : UNCHANGED step[v] /\ (Pulling(v)' <=> Pulling(v))
    BY <1>0, <2>1 DEF Pulling, LoopTypes, Done
  <2>4. \A v \in Workers \ {w} : Pulling(v) => step[v].id # i
    BY <1>1, <1>2 DEF Claimed
  <2>5. row[i] \in RowRecords /\ row[i].cursor \in Nat
    BY <1>0, <1>4, RowFields DEF StoreTypes
  <2>6. \A j \in Ids \ {i} : row'[j] = row[j] /\ mirror'[j] = mirror[j]
    BY <1>0, <2>1, <2>2 DEF StoreTypes
  <2>7. CASE Page(from, c) = {}
    <3>1. UNCHANGED <<row, mirror>> /\ Cardinality(Page(from, c)) = 0
      BY <1>0, <2>1, <2>2, <2>7, FS_EmptySet DEF StoreTypes
    <3>2. Done(w) /\ PullEnds(w)
      BY <2>1, <3>1, Given
    <3>3. step'[w] = None /\ syncing' = syncing \ {i} /\ ~Pulling(w)'
      BY <1>0, <1>1, <3>2 DEF Done, PullEnds, Pulling, LoopTypes
    <3>4. Claimed' /\ UpToDate'
      BY <1>2, <2>3, <2>4, <3>1, <3>3 DEF Claimed, UpToDate
    <3>5. NumbersGiven' /\ CursorsGiven' /\ CursorCovers'
      BY <1>2, <3>1, RowsKept DEF Rows
    <3> QED
      BY <3>4, <3>5
  <2>8. CASE Page(from, c) # {}
    <3>1. cursor \in Page(from, c) /\ cursor > c /\ cursor \in published[from]
      BY <1>0, <2>1, <2>8, PageTypes
    <3>2. row'[i] = Reached(row[i], cursor) /\ mirror'[i] = mirror[i] \union Page(from, c)
      BY <1>0, <2>1, <2>2, <2>8 DEF StoreTypes
    <3>3. row'[i].at = row[i].at /\ row'[i].cursor = cursor /\ row'[i] \in RowRecords
      BY <2>2, <2>5, <3>2 DEF Reached, RowRecords
    <3>4. i \notin moved => from = row[i].at /\ c = row[i].cursor
      BY <1>1, <1>2, <1>4 DEF UpToDate
    <3>5. Pulling(w)' => /\ step'[w] = Pull(i, from, cursor)
                         /\ i \in syncing' /\ UNCHANGED syncing
      <4>1. CASE Done(w)
        BY <1>0, <4>1 DEF Done, Pulling, LoopTypes
      <4>2. CASE step' = [step EXCEPT ![w] = Pull(i, from, cursor)] /\ UNCHANGED syncing
        BY <1>0, <1>1, <1>2, <4>2 DEF LoopTypes, Claimed
      <4> QED
        BY <2>1, <4>1, <4>2
    <3>6. syncing' = syncing \/ syncing' = syncing \ {i}
      BY <1>1, <2>1 DEF PullEnds
    <3>7. Pull(i, from, cursor).id = i /\ Pull(i, from, cursor).from = from
          /\ Pull(i, from, cursor).cursor = cursor
      BY DEF Pull
    <3>8. Claimed'
      BY <1>2, <2>3, <2>4, <3>5, <3>6, <3>7 DEF Claimed
    <3>9. UpToDate'
      <4> SUFFICES ASSUME NEW v \in Workers, Pulling(v)', row'[step'[v].id] # None,
                          step'[v].id \notin moved'
                   PROVE  /\ step'[v].from = row'[step'[v].id].at
                          /\ step'[v].cursor = row'[step'[v].id].cursor
        BY DEF UpToDate
      <4>1. CASE v = w
        BY <1>2, <3>3, <3>4, <3>5, <3>7, <4>1
      <4>2. CASE v # w
        <5>1. Pulling(v) /\ step'[v] = step[v] /\ step[v].id # i
          BY <2>3, <2>4, <4>2
        <5>2. step[v].id \in Ids
          BY <1>0, <5>1, StepFields DEF Pulling, LoopTypes
        <5> QED
          BY <1>2, <2>6, <5>1, <5>2 DEF UpToDate
      <4> QED
        BY <4>1, <4>2
    <3>10. UNCHANGED <<published, high, reused>> /\ Rows' \subseteq Rows
      BY <1>0, <1>2, <1>4, <2>6, <3>3 DEF remote, Rows
    <3>11. NumbersGiven'
      BY <3>10 DEF NumbersGiven
    <3>12. CursorsGiven'
      BY <1>2, <2>6, <3>1, <3>3, <3>4, <3>10 DEF NumbersGiven, CursorsGiven, Rows
    <3>13. Lasting(from) \subseteq published[from]
      BY DEF Lasting
    <3>14. ASSUME i \notin moved, NEW k \in Lasting(from), k <= cursor PROVE k \in mirror'[i]
      <4>1. CASE k <= c
        BY <1>4, <3>2, <3>4, <3>14, <4>1 DEF CursorCovers, Rows
      <4>2. CASE c < k
        BY <1>0, <3>1, <3>2, <3>13, <3>14, <4>2, PageIsFirst
      <4>3. k \in Nat
        BY <1>0, <3>13, <3>14, NumberTypes DEF RemoteTypes
      <4> QED
        BY <4>1, <4>2, <4>3
    <3>15. CursorCovers'
      <4> SUFFICES ASSUME NEW j \in Rows', j \notin moved',
                          NEW k \in Lasting(row[j].at)', k <= row'[j].cursor
                   PROVE  k \in mirror'[j]
        BY DEF CursorCovers
      <4>1. CASE j = i
        <5>1. row'[j].at = from /\ j \notin moved
          BY <1>2, <3>3, <3>4, <4>1
        <5>2. k \in Lasting(from) /\ k <= cursor
          BY <3>3, <3>10, <4>1, <5>1 DEF Lasting
        <5> QED
          BY <3>14, <4>1, <5>1, <5>2
      <4>2. CASE j # i
        <5>1. j \in Rows /\ row'[j] = row[j] /\ mirror'[j] = mirror[j] /\ j \notin moved
          BY <1>2, <2>6, <3>10, <4>2 DEF Rows
        <5>2. k \in Lasting(row[j].at)
          BY <3>10, <5>1 DEF Lasting
        <5> QED
          BY <5>1, <5>2 DEF CursorCovers
      <4> QED
        BY <4>1, <4>2
    <3> QED
      BY <3>8, <3>9, <3>11, <3>12, <3>15
  <2> QED
    BY <2>7, <2>8
<1> QED
  BY <1>3, <1>4

LEMMA CursorStep == TypeOK /\ CursorInv /\ [Next]_vars => CursorInv'
<1> SUFFICES ASSUME TypeOK, CursorInv, [Next]_vars PROVE CursorInv'
  OBVIOUS
<1> USE DEF CursorInv
<1>0. RemoteTypes /\ StoreTypes /\ LoopTypes
  BY TypeParts
<1>1. ASSUME NEW r \in Remotes, Publish(r) PROVE CursorInv'
  <2>1. PICK k \in 1..Catalogue[r] :
          /\ published' = [published EXCEPT ![r] = @ \union {k}]
          /\ high' = [high EXCEPT ![r] = IF k > @ THEN k ELSE @]
          /\ reused' = IF k <= high[r] THEN reused \union {<<r, k>>} ELSE reused
    BY <1>1 DEF Publish
  <2>2. UNCHANGED <<store, syncing, step>> /\ UNCHANGED <<row, mirror, moved>>
    BY <1>1 DEF Publish, store
  <2>3. Claimed' /\ UpToDate'
    BY <1>0, <2>2, PullsKept DEF Pulling
  <2>4. \A x \in published[r] : x \in Nat
    BY <1>0, NumberTypes DEF RemoteTypes
  <2>5. k \in Nat /\ high[r] \in Nat
    BY <1>0 DEF RemoteTypes
  <2>6. \A s \in Remotes : high[s] \in Nat /\ high'[s] \in Nat /\ high[s] <= high'[s]
    BY <1>0, <2>1, <2>5 DEF RemoteTypes
  <2>7. k <= high'[r]
    BY <1>0, <2>1, <2>5 DEF RemoteTypes
  <2>8. NumbersGiven'
    <3> SUFFICES ASSUME NEW s \in Remotes, NEW x \in published'[s] PROVE x <= high'[s]
      BY DEF NumbersGiven
    <3>1. x \in published[s] \/ (s = r /\ x = k)
      BY <1>0, <2>1 DEF RemoteTypes
    <3>2. CASE x \in published[s]
      <4>1. x \in Nat /\ x <= high[s]
        BY <1>0, <3>2, NumberTypes DEF RemoteTypes, NumbersGiven
      <4> QED
        BY <2>6, <4>1
    <3> QED
      BY <2>7, <3>1, <3>2
  <2>9. \A i \in Rows : row[i].at \in Remotes /\ row[i].cursor \in Nat
    BY <1>0, RowFields DEF StoreTypes, Rows
  <2>10. CursorsGiven'
    <3> SUFFICES ASSUME NEW i \in Rows, i \notin moved PROVE row[i].cursor <= high'[row[i].at]
      BY <2>2 DEF CursorsGiven, Rows
    <3> QED
      BY <2>6, <2>9 DEF CursorsGiven
  <2>11. ASSUME NEW i \in Rows, i \notin moved, NEW x \in Lasting(row[i].at)', x <= row[i].cursor
         PROVE  x \in Lasting(row[i].at)
    <3>1. x \in published'[row[i].at] /\ <<row[i].at, x>> \notin reused'
      BY <2>2, <2>11 DEF Lasting
    <3>2. <<row[i].at, x>> \notin reused
      BY <2>1, <3>1
    <3>3. x \in published[row[i].at]
      <4> SUFFICES ASSUME x \notin published[row[i].at] PROVE FALSE
        OBVIOUS
      <4>1. row[i].at = r /\ x = k
        BY <1>0, <2>1, <2>9, <3>1 DEF RemoteTypes
      <4>2. k <= high[r]
        BY <2>5, <2>9, <2>11, <4>1 DEF CursorsGiven
      <4> QED
        BY <2>1, <3>1, <4>1, <4>2
    <3> QED
      BY <3>2, <3>3 DEF Lasting
  <2>12. CursorCovers'
    <3> SUFFICES ASSUME NEW i \in Rows, i \notin moved,
                        NEW x \in Lasting(row[i].at)', x <= row[i].cursor
                 PROVE  x \in mirror[i]
      BY <2>2 DEF CursorCovers, Rows
    <3> QED
      BY <2>11 DEF CursorCovers
  <2> QED
    BY <2>3, <2>8, <2>10, <2>12
<1>2. ASSUME NEW r \in Remotes, Unpublish(r) PROVE CursorInv'
  <2>1. PICK k \in published[r] : published' = [published EXCEPT ![r] = @ \ {k}]
    BY <1>2 DEF Unpublish
  <2>2. UNCHANGED <<high, reused, row, mirror, moved, syncing, step>>
    BY <1>2 DEF Unpublish, store
  <2>3. \A s \in Remotes : published'[s] \subseteq published[s]
    BY <1>0, <2>1 DEF RemoteTypes
  <2>4. Claimed' /\ UpToDate'
    BY <1>0, <2>2, PullsKept DEF Pulling
  <2>5. NumbersGiven' /\ CursorsGiven'
    BY <2>2, <2>3 DEF NumbersGiven, CursorsGiven, Rows
  <2>6. \A i \in Rows : row[i].at \in Remotes
    BY <1>0, RowFields DEF StoreTypes, Rows
  <2>7. CursorCovers'
    BY <2>2, <2>3, <2>6 DEF CursorCovers, Lasting, Rows
  <2> QED
    BY <2>4, <2>5, <2>7
<1>3. ASSUME NEW r \in Remotes, FallsSilent(r) \/ ComesBack(r) PROVE CursorInv'
  <2>1. UNCHANGED <<published, high, reused, row, mirror, moved, syncing, step>>
    BY <1>3 DEF FallsSilent, ComesBack, store
  <2>2. Claimed' /\ UpToDate'
    BY <1>0, <2>1, PullsKept DEF Pulling
  <2>3. NumbersGiven' /\ CursorsGiven' /\ CursorCovers'
    BY <2>1 DEF NumbersGiven, CursorsGiven, CursorCovers, Lasting, Rows
  <2> QED
    BY <2>2, <2>3
\* Actions that start no pull and keep the place and the cursor of every row they leave.
<1>4. ASSUME UNCHANGED <<remote, mirror, moved, syncing>>,
             \A i \in Ids : row'[i] # None =>
               row[i] # None /\ row'[i].at = row[i].at /\ row'[i].cursor = row[i].cursor,
             \A w \in Workers : Pulling(w)' => Pulling(w) /\ UNCHANGED step[w]
      PROVE  CursorInv'
  <2>1. Claimed' /\ UpToDate'
    BY <1>0, <1>4, PullsKept
  <2>2. NumbersGiven' /\ CursorsGiven' /\ CursorCovers'
    BY <1>4, RowsKept DEF Rows
  <2> QED
    BY <2>1, <2>2
<1>5. ASSUME NEW i \in Ids, NEW w \in Tasks, AskSync(w, i) PROVE CursorInv'
  <2>1. UNCHANGED <<remote, row, mirror, moved, syncing>>
    BY <1>5 DEF AskSync, store
  <2>2. w \in Workers /\ step' = [step EXCEPT ![w] = [at |-> "checking", id |-> i]]
    BY <1>5 DEF AskSync, Workers
  <2>3. \A v \in Workers : Pulling(v)' => Pulling(v) /\ UNCHANGED step[v]
    BY <1>0, <2>2 DEF Pulling, LoopTypes
  <2> QED
    BY <1>4, <2>1, <2>3
<1>6. CASE TickStarts
  BY <1>4, <1>6 DEF TickStarts, store, Pulling
<1>7. CASE TickVisits
  <2>1. UNCHANGED <<remote, row, mirror, moved, syncing>>
    BY <1>7 DEF TickVisits, store
  <2>2. UNCHANGED step \/ \E i \in Ids : step' = [step EXCEPT ![Tick] = [at |-> "checking", id |-> i]]
    BY <1>0, <1>7 DEF TickVisits, LoopTypes
  <2>3. \A v \in Workers : Pulling(v)' => Pulling(v) /\ UNCHANGED step[v]
    BY <1>0, <2>2 DEF Pulling, LoopTypes, Workers
  <2> QED
    BY <1>4, <2>1, <2>3
<1>8. ASSUME NEW w \in Workers, Checked(w) PROVE CursorInv'
  <2>1. PICK i \in Ids : i = step[w].id
    BY <1>0, <1>8, StepFields DEF Checked, LoopTypes
  <2>2. UNCHANGED <<remote, mirror, moved, syncing>>
    BY <1>8 DEF Checked
  <2>3. ~Pulling(w) /\ step[w].at = "checking"
    BY <1>8 DEF Checked, Pulling
  <2>4. \/ step' = [step EXCEPT ![w] = None]
        \/ step' = [step EXCEPT ![w] = [at |-> "claiming", id |-> i]]
    BY <1>8, <2>1 DEF Checked, CheckedWith, Done, Raised
  <2>5. \A v \in Workers : Pulling(v)' => Pulling(v) /\ UNCHANGED step[v]
    BY <1>0, <2>4 DEF Pulling, LoopTypes
  <2>6. \/ UNCHANGED row
        \/ /\ row[i] # None
           /\ \E p \in BOOLEAN : row' = [row EXCEPT ![i] = Seen(@, p, answers[@.at])]
    <3>1. row[i] # None => StatusAfter(i) \in BOOLEAN
      BY <1>0, RowFields DEF StatusAfter, RemoteTypes, StoreTypes
    <3> QED
      BY <1>8, <2>1, <3>1 DEF Checked, CheckedWith
  <2>7. \A j \in Ids : row'[j] # None =>
          row[j] # None /\ row'[j].at = row[j].at /\ row'[j].cursor = row[j].cursor
    <3>1. CASE UNCHANGED row
      BY <3>1
    <3>2. ASSUME row[i] # None, NEW p \in BOOLEAN,
                 row' = [row EXCEPT ![i] = Seen(@, p, answers[@.at])]
          PROVE  /\ row'[i].at = row[i].at /\ row'[i].cursor = row[i].cursor
                 /\ \A j \in Ids \ {i} : row'[j] = row[j]
      <4>1. row[i] \in RowRecords
        BY <1>0, <3>2 DEF StoreTypes
      <4>2. row'[i] = Seen(row[i], p, answers[row[i].at])
        BY <1>0, <3>2 DEF StoreTypes
      <4> QED
        BY <1>0, <3>2, <4>1, <4>2 DEF Seen, RowRecords, StoreTypes
    <3> QED
      BY <2>6, <3>1, <3>2
  <2> QED
    BY <1>4, <2>2, <2>5, <2>7
<1>9. ASSUME NEW i \in Ids, Unseen(i) \/ \E enabled \in BOOLEAN : Enable(i, enabled)
      PROVE  CursorInv'
  <2>1. UNCHANGED <<remote, mirror, moved, syncing, step>> /\ row[i] \in RowRecords
    BY <1>0, <1>9 DEF Unseen, Enable, StoreTypes
  <2>2. PICK e \in BOOLEAN : \/ row' = [row EXCEPT ![i] = [@ EXCEPT !.seen = e]]
                            \/ row' = [row EXCEPT ![i] = [@ EXCEPT !.enabled = e]]
    BY <1>9 DEF Unseen, Enable
  <2>3. row'[i].at = row[i].at /\ row'[i].cursor = row[i].cursor
    BY <1>0, <2>1, <2>2 DEF StoreTypes, RowRecords
  <2>4. row[i] # None /\ \A j \in Ids \ {i} : row'[j] = row[j]
    BY <1>0, <1>9, <2>2 DEF StoreTypes, Unseen, Enable
  <2> QED
    BY <1>4, <2>1, <2>3, <2>4 DEF Pulling
<1>10. ASSUME NEW r \in Remotes, NEW enabled \in BOOLEAN, Create(r, enabled) PROVE CursorInv'
  <2>1. PICK i \in Ids :
          /\ NextNumber(Rows, i)
          /\ row' = [row EXCEPT ![i] = [at |-> r, enabled |-> enabled, playable |-> FALSE,
                                        seen |-> FALSE, cursor |-> 0]]
          /\ moved' = IF \E w \in Workers : Pulling(w) /\ step[w].id = i
                      THEN moved \union {i} ELSE moved \ {i}
    BY <1>10 DEF Create
  <2>2. UNCHANGED <<published, high, reused, mirror, syncing, step>>
    BY <1>10 DEF Create, remote
  <2>3. row'[i].at = r /\ row'[i].cursor = 0
    BY <1>0, <2>1 DEF StoreTypes
  <2>4. \A j \in Ids \ {i} : row'[j] = row[j] /\ (j \in moved' <=> j \in moved)
    BY <1>0, <2>1 DEF StoreTypes
  <2>5. Claimed' /\ NumbersGiven'
    BY <2>2 DEF Claimed, NumbersGiven, Pulling
  <2>6. UpToDate'
    <3> SUFFICES ASSUME NEW w \in Workers, Pulling(w), row'[step[w].id] # None,
                        step[w].id \notin moved'
                 PROVE  /\ step[w].from = row'[step[w].id].at
                        /\ step[w].cursor = row'[step[w].id].cursor
      BY <2>2 DEF UpToDate, Pulling
    <3>1. step[w].id \in Ids \ {i}
      BY <1>0, <2>1, StepFields DEF Pulling, LoopTypes
    <3> QED
      BY <2>4, <3>1 DEF UpToDate
  <2>7. CursorsGiven'
    <3>1. high[r] \in Nat
      BY <1>0 DEF RemoteTypes
    <3> QED
      BY <2>2, <2>3, <2>4, <3>1 DEF CursorsGiven, Rows
  <2>8. CursorCovers'
    <3>1. \A k \in published[r] : k \in Nat /\ ~(k <= 0)
      BY <1>0, NumberTypes DEF RemoteTypes, Numbers
    <3> QED
      BY <2>2, <2>3, <2>4, <3>1 DEF CursorCovers, Lasting, Rows
  <2> QED
    BY <2>5, <2>6, <2>7, <2>8
<1>11. ASSUME NEW i \in Ids, NEW r \in Remotes, Move(i, r) PROVE CursorInv'
  <2>1. UNCHANGED <<published, high, reused, mirror, syncing, step>>
    BY <1>11 DEF Move, remote
  <2>2. moved' = moved \union {i} /\ row[i] # None /\ \A j \in Ids \ {i} : row'[j] = row[j]
    BY <1>0, <1>11 DEF Move, StoreTypes
  <2>3. Claimed' /\ NumbersGiven'
    BY <2>1 DEF Claimed, NumbersGiven, Pulling
  <2>4. UpToDate'
    <3>1. \A w \in Workers : Pulling(w) => step[w].id \in Ids
      BY <1>0, StepFields DEF Pulling, LoopTypes
    <3> QED
      BY <2>1, <2>2, <3>1 DEF UpToDate, Pulling
  <2>5. CursorsGiven' /\ CursorCovers'
    BY <2>1, <2>2 DEF CursorsGiven, CursorCovers, Lasting, Rows
  <2> QED
    BY <2>3, <2>4, <2>5
<1>12. ASSUME NEW i \in Ids, Delete(i) PROVE CursorInv'
  <2>1. UNCHANGED <<published, high, reused, moved, syncing, step>>
    BY <1>12 DEF Delete, remote
  <2>2. row'[i] = None /\ \A j \in Ids \ {i} : row'[j] = row[j] /\ mirror'[j] = mirror[j]
    BY <1>0, <1>12 DEF Delete, StoreTypes
  <2>3. Claimed' /\ UpToDate'
    BY <1>0, <2>1, <2>2, PullsKept DEF Pulling
  <2>4. NumbersGiven' /\ CursorsGiven' /\ CursorCovers'
    BY <2>1, <2>2 DEF NumbersGiven, CursorsGiven, CursorCovers, Lasting, Rows
  <2> QED
    BY <2>3, <2>4
<1>13. ASSUME NEW w \in Workers, Claim(w) PROVE CursorInv'
  <2>1. PICK i \in Ids : i = step[w].id
    BY <1>0, <1>13, StepFields DEF Claim, LoopTypes
  <2>2. UNCHANGED <<remote, row, mirror, moved>> /\ step[w].at = "claiming"
    BY <1>13 DEF Claim, store
  <2>3. CASE step' = [step EXCEPT ![w] = None] /\ UNCHANGED syncing
    <3>1. \A v \in Workers : Pulling(v)' => Pulling(v) /\ UNCHANGED step[v]
      BY <1>0, <2>3 DEF Pulling, LoopTypes
    <3> QED
      BY <1>4, <2>2, <2>3, <3>1
  <2>4. ASSUME row[i] # None, i \notin syncing, syncing' = syncing \union {i},
               step' = [step EXCEPT ![w] = Pull(i, row[i].at, row[i].cursor)]
        PROVE  CursorInv'
    <3>1. step'[w] = Pull(i, row[i].at, row[i].cursor) /\ \A v \in Workers \ {w} : step'[v] = step[v]
      BY <1>0, <2>4 DEF LoopTypes
    <3>2. step'[w].id = i /\ step'[w].from = row[i].at /\ step'[w].cursor = row[i].cursor
      BY <3>1 DEF Pull
    <3>3. \A v \in Workers \ {w} : Pulling(v)' => Pulling(v) /\ step[v].id # i
      BY <2>4, <3>1 DEF Pulling, Claimed
    <3>4. Claimed'
      BY <2>4, <3>1, <3>2, <3>3 DEF Claimed
    <3>5. UpToDate'
      BY <2>2, <3>1, <3>2, <3>3 DEF UpToDate
    <3>6. NumbersGiven' /\ CursorsGiven' /\ CursorCovers'
      BY <2>2, RowsKept DEF Rows
    <3> QED
      BY <3>4, <3>5, <3>6
  <2> QED
    BY <1>13, <2>1, <2>3, <2>4 DEF Claim, Done, Raised
<1>14. ASSUME NEW w \in Workers, PullFails(w) PROVE CursorInv'
  <2>1. /\ UNCHANGED <<remote, row, mirror, moved>> /\ Pulling(w)
        /\ syncing' = syncing \ {step[w].id} \/ UNCHANGED syncing
    BY <1>14 DEF PullFails, Unanswered, Unstored, PullEnds, store, Pulling
  <2>2. step' = [step EXCEPT ![w] = None]
    BY <1>14 DEF PullFails, Unanswered, Unstored, Done, Raised
  <2>3. \A v \in Workers : Pulling(v)' => v # w /\ Pulling(v) /\ UNCHANGED step[v]
    BY <1>0, <2>2 DEF Pulling, LoopTypes
  <2>4. Claimed' /\ UpToDate'
    BY <2>1, <2>3 DEF Claimed, UpToDate
  <2>5. NumbersGiven' /\ CursorsGiven' /\ CursorCovers'
    BY <2>1, RowsKept DEF Rows
  <2> QED
    BY <2>4, <2>5
<1>15. CASE Restart
  <2>1. UNCHANGED <<remote, row, mirror, moved>> /\ \A w \in Workers : ~Pulling(w)'
    BY <1>15 DEF Restart, store, Pulling
  <2>2. NumbersGiven' /\ CursorsGiven' /\ CursorCovers'
    BY <2>1, RowsKept DEF Rows
  <2> QED
    BY <2>1, <2>2 DEF Claimed, UpToDate
<1>16. CASE UNCHANGED vars \/ \E i \in Ids : DueAgain(i)
  BY <1>4, <1>16 DEF vars, store, DueAgain, Pulling
<1>17. ASSUME NEW w \in Workers, PullPage(w) PROVE CursorInv'
  BY <1>17, CursorPage
<1> QED
  BY <1>1, <1>2, <1>3, <1>5, <1>6, <1>7, <1>8, <1>9, <1>10, <1>11, <1>12, <1>13, <1>14, <1>15,
     <1>16, <1>17 DEF Next

(* What lies behind the cursor of a row is in its mirror: a pull that goes on from there  *)
(* after a failure, a restart or a pull by another worker misses no song whose number has *)
(* only ever been that song's, whatever the remote publishes or deletes meanwhile.        *)
THEOREM NothingIsMissed == Spec => []CursorCovers
<1>1. Init => TypeOK /\ CursorInv
  BY TypeInit, CursorInit
<1>2. TypeOK /\ CursorInv /\ [Next]_vars => TypeOK' /\ CursorInv'
  BY TypeStep, CursorStep
<1>3. CursorInv => CursorCovers
  BY DEF CursorInv
<1> QED
  BY <1>1, <1>2, <1>3, PTL DEF Spec

(* One pull stores its songs and its cursor where another may have been before: the claim *)
(* of _currently_syncing is why none of them sets the cursor back.                        *)
THEOREM NoStepBack == Spec => CursorNeverBack
<1> DEFINE Kept == \A i \in Rows : row'[i] # None /\ i \notin moved => row'[i].cursor >= row[i].cursor
<1>1. ASSUME TypeOK, CursorInv, [Next]_vars PROVE Kept
  <2>0. RemoteTypes /\ StoreTypes /\ LoopTypes
    BY <1>1, TypeParts
  <2>1. \A i \in Rows : i \in Ids /\ row[i].cursor \in Nat
    BY <2>0, RowFields DEF StoreTypes, Rows
  <2>2. ASSUME \A i \in Rows : row'[i] # None => row'[i].cursor = row[i].cursor PROVE Kept
    BY <2>1, <2>2
  <2>3. CASE UNCHANGED row
    BY <2>2, <2>3
  <2>4. ASSUME NEW r \in Remotes, NEW enabled \in BOOLEAN, Create(r, enabled) PROVE Kept
    <3>1. PICK i \in Ids \ Rows :
            row' = [row EXCEPT ![i] = [at |-> r, enabled |-> enabled, playable |-> FALSE,
                                       seen |-> FALSE, cursor |-> 0]]
      <4>1. \A i \in Ids : NextNumber(Rows, i) => i \notin Rows
        BY Given DEF NextNumber, Rows, Ids
      <4> QED
        BY <2>4, <4>1 DEF Create
    <3> QED
      BY <2>0, <2>2, <3>1 DEF StoreTypes, Rows
  <2>5. ASSUME NEW i \in Ids, Delete(i) PROVE Kept
    BY <2>0, <2>2, <2>5 DEF Delete, StoreTypes, Rows
  <2>6. ASSUME NEW i \in Ids, \/ \E enabled \in BOOLEAN : Enable(i, enabled)
                              \/ \E r \in Remotes : Move(i, r)
                              \/ Unseen(i)
        PROVE  Kept
    <3>1. row[i] \in RowRecords
      BY <2>0, <2>6 DEF Enable, Move, Unseen, StoreTypes
    <3>2. row'[i].cursor = row[i].cursor
      BY <2>0, <2>6, <3>1 DEF Enable, Move, Unseen, StoreTypes, RowRecords
    <3>3. \A j \in Rows \ {i} : row'[j] = row[j]
      BY <2>0, <2>6 DEF Enable, Move, Unseen, StoreTypes, Rows
    <3> QED
      BY <2>2, <3>2, <3>3
  <2>7. ASSUME NEW w \in Workers, Checked(w) PROVE Kept
    <3>1. PICK i \in Ids : i = step[w].id
      BY <2>0, <2>7, StepFields DEF Checked, LoopTypes
    <3>2. CASE UNCHANGED row
      BY <2>3, <3>2
    <3>3. ASSUME row[i] # None, NEW p, row' = [row EXCEPT ![i] = Seen(@, p, answers[@.at])]
          PROVE  Kept
      <4>1. row'[i] = Seen(row[i], p, answers[row[i].at]) /\ row[i] \in RowRecords
        BY <2>0, <3>3 DEF StoreTypes
      <4>2. row'[i].cursor = row[i].cursor
        BY <4>1 DEF Seen, RowRecords
      <4>3. \A j \in Rows \ {i} : row'[j] = row[j]
        BY <2>0, <3>3 DEF StoreTypes, Rows
      <4> QED
        BY <2>2, <4>2, <4>3
    <3> QED
      BY <2>7, <3>1, <3>2, <3>3 DEF Checked, CheckedWith
  <2>8. ASSUME NEW w \in Workers, PullPage(w) PROVE Kept
    <3>1. PICK i \in Ids, from \in Remotes, c \in Nat :
            i = step[w].id /\ from = step[w].from /\ c = step[w].cursor
      BY <2>0, <2>8, StepFields DEF PullPage, Pulling, LoopTypes
    <3>2. CASE UNCHANGED row
      BY <2>3, <3>2
    <3>3. ASSUME row[i] # None, NEW cursor \in Page(from, c) \union {c},
                 row' = [row EXCEPT ![i] = Reached(@, cursor)]
          PROVE  Kept
      <4>1. row[i] \in RowRecords /\ row'[i] = Reached(row[i], cursor)
        BY <2>0, <3>3 DEF StoreTypes
      <4>2. row'[i].cursor = cursor
        BY <4>1 DEF Reached, RowRecords
      <4>3. cursor \in Nat /\ cursor >= c
        BY <2>0, PageTypes
      <4>4. i \notin moved => row[i].cursor = c
        BY <1>1, <2>8, <3>1, <3>3 DEF CursorInv, UpToDate, PullPage
      <4>5. \A j \in Rows \ {i} : row'[j].cursor >= row[j].cursor
        BY <2>0, <2>1, <3>3 DEF StoreTypes, Rows
      <4> QED
        BY <4>2, <4>3, <4>4, <4>5
    <3> QED
      BY <2>8, <3>1, <3>2, <3>3 DEF PullPage
  <2>9. ASSUME NEW r \in Remotes, Publish(r) \/ Unpublish(r) \/ FallsSilent(r) \/ ComesBack(r)
        PROVE  Kept
    BY <2>3, <2>9 DEF Publish, Unpublish, FallsSilent, ComesBack, store
  <2>10. ASSUME NEW i \in Ids, DueAgain(i) \/ \E w \in Tasks : AskSync(w, i) PROVE Kept
    BY <2>3, <2>10 DEF DueAgain, AskSync, store
  <2>11. ASSUME NEW w \in Workers, Claim(w) \/ PullFails(w) PROVE Kept
    BY <2>3, <2>11 DEF Claim, PullFails, store
  <2>12. CASE TickStarts \/ TickVisits \/ Restart \/ UNCHANGED vars
    BY <2>3, <2>12 DEF TickStarts, TickVisits, Restart, store, vars
  <2> QED
    BY <1>1, <2>4, <2>5, <2>6, <2>7, <2>8, <2>9, <2>10, <2>11, <2>12 DEF Next
<1>2. TypeOK /\ CursorInv /\ [Next]_vars => [Kept]_vars
  BY <1>1
<1>3. Init => TypeOK /\ CursorInv
  BY TypeInit, CursorInit
<1>4. TypeOK /\ CursorInv /\ [Next]_vars => TypeOK' /\ CursorInv'
  BY TypeStep, CursorStep
<1> QED
  BY <1>2, <1>3, <1>4, PTL DEF Spec, CursorNeverBack
=============================================================================
