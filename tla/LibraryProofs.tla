---------------------------- MODULE LibraryProofs ----------------------------
(* Proofs about Playlists and Library, for all users, tracks, lists, jobs,   *)
(* handlers and limits: nothing dangles, a position has one job, a settled   *)
(* list is on file, and a reorder that states its revision loses nothing.    *)
EXTENDS Library, FiniteSetTheorems, WellFoundedInduction, TLAPS

-----------------------------------------------------------------------------
(* The largest of finitely many numbers.                                     *)

LEMMA LeastNumber ==
  ASSUME NEW T \in SUBSET Nat, T # {}
  PROVE  \E x \in T : \A y \in T : x <= y
<1> DEFINE R == OpToRel(<, Nat)
<1>1. IsWellFoundedOn(R, Nat)
  BY NatLessThanWellFounded
<1>2. PICK x \in T : \A y \in T : ~ (<<y, x>> \in R)
  <2> HIDE DEF R
  <2> QED
    BY <1>1, WFMin
<1>3. \A y \in T : y < x => <<y, x>> \in R
  BY DEF OpToRel
<1>4. \A y \in T : ~(y < x)
  <2> HIDE DEF R
  <2> QED
    BY <1>2, <1>3
<1> QED
  BY <1>4

(* The element with the fewest larger ones has none that is larger.          *)
LEMMA Largest ==
  ASSUME NEW S \in SUBSET Nat, IsFiniteSet(S), S # {}
  PROVE  Max(S) \in S /\ \A y \in S : Max(S) >= y
<1> DEFINE Above(x) == {y \in S : y > x}
<1> DEFINE Sizes == {Cardinality(Above(x)) : x \in S}
<1>1. \A x \in S : IsFiniteSet(Above(x)) /\ Cardinality(Above(x)) \in Nat
  BY FS_Subset, FS_CardinalityType
<1>2. Sizes \in SUBSET Nat /\ Sizes # {}
  BY <1>1
<1>3. PICK n \in Sizes : \A m \in Sizes : n <= m
  <2> HIDE DEF Sizes
  <2> QED
    BY <1>2, LeastNumber
<1>4. PICK x \in S : n = Cardinality(Above(x))
  BY <1>3
<1>5. \A y \in S : ~(y > x)
  <2> SUFFICES ASSUME NEW y \in S, y > x
               PROVE  FALSE
    OBVIOUS
  <2>a. y \in Above(x) /\ y \notin Above(y) /\ \A z \in Above(y) : z \in Above(x)
    OBVIOUS
  <2>1. Above(y) \in SUBSET Above(x) /\ Above(y) # Above(x)
    <3> HIDE DEF Above
    <3> QED
      BY <2>a
  <2>2. Cardinality(Above(y)) < Cardinality(Above(x))
    <3> HIDE DEF Above
    <3>1. Cardinality(Above(y)) <= Cardinality(Above(x))
      BY <1>1, <2>1, FS_Subset
    <3>2. Cardinality(Above(y)) # Cardinality(Above(x))
      BY <1>1, <2>1, FS_Subset
    <3> QED
      BY <1>1, <3>1, <3>2
  <2>3. Cardinality(Above(y)) \in Sizes
    OBVIOUS
  <2> HIDE DEF Sizes
  <2>4. n <= Cardinality(Above(y))
    BY <1>3, <2>3
  <2> HIDE DEF Above
  <2> QED
    BY <1>1, <1>4, <2>2, <2>4
<1>6. \E z \in S : \A y \in S : z >= y
  BY <1>5
<1>7. PICK z \in S : \A y \in S : z >= y
  BY <1>6
<1> QED
  BY <1>7, Zenon DEF Max

LEMMA LargestOrZero ==
  ASSUME NEW S \in SUBSET Nat, IsFiniteSet(S)
  PROVE  MaxOf(S) \in Nat /\ (\A y \in S : y <= MaxOf(S)) /\ (S = {} => MaxOf(S) = 0) /\ (S # {} => MaxOf(S) \in S)
<1>1. CASE S = {}
  BY <1>1 DEF MaxOf
<1>2. CASE S # {}
  BY <1>2, Largest DEF MaxOf
<1> QED
  BY <1>1, <1>2

(* A new row gets an id that none has.                                       *)
LEMMA NewIds ==
  ASSUME NEW n \in Nat, NEW S \in SUBSET (1 .. n)
  PROVE  IsFiniteSet(S) /\ NextId(S) \in Nat \ {0} /\ (\A y \in S : y < NextId(S))
         /\ (n \notin S => NextId(S) <= n \/ n = 0)
<1>a. IsFiniteSet(1 .. n)
  BY FS_Interval
<1>1. IsFiniteSet(S)
  BY <1>a, FS_Subset
<1>2. MaxOf(S) \in Nat /\ (\A y \in S : y <= MaxOf(S)) /\ (S = {} => MaxOf(S) = 0) /\ (S # {} => MaxOf(S) \in S)
  BY <1>1, LargestOrZero
<1> QED
  BY <1>1, <1>2 DEF NextId

-----------------------------------------------------------------------------
(* The items a list is filled with.                                          *)

Valid(l, new) == new \subseteq [list : {l}, track : library, pos : Nat \ {0}] /\ IsFiniteSet(new)

(* An order of some items has their tracks.                                  *)
LEMMA Ordered ==
  ASSUME NEW l, NEW of, IsFiniteSet(of), NEW new \in Orders(l, of)
  PROVE  /\ new \subseteq [list : {l}, track : {i.track : i \in of}, pos : Nat \ {0}]
         /\ IsFiniteSet(new) /\ SameTracks(new, of)
<1> DEFINE n == Cardinality(of)
<1>1. n \in Nat
  BY FS_CardinalityType
<1> DEFINE T == {i.track : i \in of}
<1>2. PICK f \in [1 .. n -> T] : new = {Item(l, f[p], p) : p \in 1 .. n}
  BY DEF Orders
<1>3. SameTracks(new, of)
  BY DEF Orders
<1> HIDE DEF n, T
<1>4. new \subseteq [list : {l}, track : T, pos : Nat \ {0}]
  BY <1>1, <1>2 DEF Item
<1> DEFINE g == [p \in 1 .. n |-> Item(l, f[p], p)]
<1>5. g \in Surjection(1 .. n, new)
  BY <1>2 DEF Surjection
<1>6. IsFiniteSet(1 .. n)
  BY <1>1, FS_Interval
<1>7. IsFiniteSet(new)
  BY <1>5, <1>6, FS_Surjection
<1> QED
  BY <1>3, <1>4, <1>7 DEF T

LEMMA Filled ==
  ASSUME PlaylistsAssumption, NEW l, NEW from \in SUBSET Tracks, NEW new \in Fillings(l, from)
  PROVE  new \subseteq [list : {l}, track : from, pos : Nat \ {0}] /\ IsFiniteSet(new)
<1>1. PICK S \in SUBSET from : new \in Orders(l, {Item(l, t, 1) : t \in S})
  BY DEF Fillings
<1> DEFINE of == {Item(l, t, 1) : t \in S}
<1>2. IsFiniteSet(S)
  BY FS_Subset DEF PlaylistsAssumption
<1>3. IsFiniteSet(of)
  <2> DEFINE g == [t \in S |-> Item(l, t, 1)]
  <2>1. g \in Surjection(S, of)
    BY DEF Surjection
  <2> QED
    BY <1>2, <2>1, FS_Surjection
<1>4. {i.track : i \in of} \subseteq from
  BY DEF Item
<1> HIDE DEF of
<1>5. new \subseteq [list : {l}, track : {i.track : i \in of}, pos : Nat \ {0}] /\ IsFiniteSet(new)
  BY <1>1, <1>3, Ordered DEF of
<1> QED
  BY <1>4, <1>5

(* Each track of a set of items is counted there.                            *)
LEMMA Counted1 ==
  ASSUME NEW of, IsFiniteSet(of), NEW t
  PROVE  Count(of, t) \in Nat /\ (Count(of, t) = 0 <=> ~\E i \in of : i.track = t)
<1> DEFINE those == {i \in of : i.track = t}
<1>1. IsFiniteSet(those)
  BY FS_Subset
<1> QED
  BY <1>1, FS_CardinalityType, FS_EmptySet DEF Count

LEMMA TracksAgree ==
  ASSUME NEW a, NEW b, IsFiniteSet(a), IsFiniteSet(b), SameTracks(a, b),
         NEW t \in Tracks, \E i \in a : i.track = t
  PROVE  \E i \in b : i.track = t
BY Counted1 DEF SameTracks

(* Of two sets with as many items for each track, neither is a proper part   *)
(* of the other.                                                             *)
LEMMA NoneMissing ==
  ASSUME NEW a, NEW b \in SUBSET a, IsFiniteSet(a), SameTracks(a, b), \A i \in a : i.track \in Tracks
  PROVE  a = b
<1> SUFFICES ASSUME NEW x \in a \ b
             PROVE  FALSE
  OBVIOUS
<1> DEFINE A == {i \in a : i.track = x.track}
<1> DEFINE B == {i \in b : i.track = x.track}
<1>1. IsFiniteSet(A) /\ B \in SUBSET A /\ B # A
  BY FS_Subset
<1>2. Cardinality(A) = Cardinality(B)
  BY DEF SameTracks, Count
<1> HIDE DEF A, B
<1> QED
  BY <1>1, <1>2, FS_Subset

-----------------------------------------------------------------------------
(* The inductive invariant.  Rows keep their types; an item names a list and *)
(* a song that are there, and only copies have a source.                     *)

ListRows ==
  /\ list \in [Lists -> ListType] /\ births \in Nat
  /\ \A l \in Lists : list[l].born <= births /\ (list[l].source # 0 => list[l].kind = "copy")

ItemRows ==
  /\ library \subseteq Tracks /\ Remote \subseteq library
  /\ items \subseteq ItemType /\ IsFiniteSet(items)
  /\ NoDanglingItems

(* A job names no list but a live one, and a job under way is the newest of  *)
(* its position.                                                             *)
JobTable(table, live) ==
  /\ table \in [Jobs -> JobType]
  /\ \A j \in Jobs : table[j].list # 0 => table[j].list \in live
  /\ \A j \in Jobs : table[j].phase = "choosing" => table[j].at # 0
  /\ \A j, k \in Jobs :
       /\ table[j].phase \in ActivePhases /\ table[j].list # 0 /\ table[j].pos # 0
       /\ table[k].phase # "none" /\ table[k].list = table[j].list /\ table[k].pos = table[j].pos
       => k <= j

JobRowsKept == JobTable(job, Live)

Waiting ==
  /\ handler \in [Handlers -> HandlerType]
  /\ \A h \in Handlers :
       /\ handler[h].op = "add" => handler[h].track \in Remote
       /\ handler[h].op = "create" => handler[h].user \in Users /\ handler[h].request \in Requests

(* A list is on file unless its file is still to be written or removed, or   *)
(* the writing was cut off.                                                  *)
Unfiled == stale \cup CutOff

Filed ==
  \A i \in items : i.list \notin Unfiled =>
    i.list \in onDisk /\ (i.track \notin Remote => <<i.track, i.pos>> \in export[i.list])

Files ==
  /\ export \in [Lists -> SUBSET (Tracks \X Nat)] /\ onDisk \subseteq Lists /\ stale \subseteq Ids
  /\ Filed

(* A client that has read a list at its revision has seen each of its items, *)
(* unless the songs of a mix, or of a copy, were still to come.              *)
BeingFilled == {handler[h].list : h \in {k \in Handlers : handler[k].op \in {"mix", "copy"}}}

ReadWell(client) ==
  \A l \in Lists :
    (/\ client.list = l /\ ~client.filling
     /\ list[l].kind = "own" /\ list[l].born = client.born)
    => /\ l \notin BeingFilled /\ client.revision <= list[l].revision
       /\ client.revision = list[l].revision => \A i \in items : i.list = l => i \in client.items

UpToDate == \A u \in Users : ReadWell(seen[u])

Readers ==
  /\ seen \in [Users -> SeenType]
  /\ \A u \in Users : IsFiniteSet(seen[u].items) /\ seen[u].born <= births
  /\ UpToDate

ListInv == ListRows /\ ItemRows /\ JobRowsKept /\ Waiting /\ Files /\ Readers

-----------------------------------------------------------------------------
(* The forms a step gives the rows.  A list that is there after a step was   *)
(* made by it, or was there before and has no new item but with a later      *)
(* revision, as a list that was waiting for its songs, or as a smart list or *)
(* copy.                                                                     *)
Moves ==
  /\ births' \in {births, births + 1}
  /\ \A l \in Lists : list'[l].kind # "none" =>
       \/ births' = births + 1 /\ list'[l].born = births + 1
       \/ /\ list[l].kind = list'[l].kind /\ list[l].born = list'[l].born
          /\ list[l].revision <= list'[l].revision
          /\ (list[l].kind = "own" /\ list'[l].revision = list[l].revision /\ l \notin BeingFilled)
             => \A i \in items' : i.list = l => i \in items

LEMMA Steady ==
  ASSUME ListRows, ItemRows, UNCHANGED <<library, items, list, births>>
  PROVE  ListRows' /\ ItemRows' /\ Moves
BY DEF ListRows, ItemRows, NoDanglingItems, Live, Moves, ListType

LEMMA Changed ==
  ASSUME ListRows, ItemRows, NEW l \in Live, NEW new, Valid(l, new),
         items' = (items \ Of(l)) \cup new,
         list' = [list EXCEPT ![l].revision = @ + 1], UNCHANGED <<library, births>>
  PROVE  ListRows' /\ ItemRows' /\ Moves /\ Live' = Live
<1>1. l \in Lists /\ list[l] \in ListType
  BY DEF Live, ListRows
<1>2. list'[l] = [list[l] EXCEPT !.revision = @ + 1] /\ \A k \in Lists \ {l} : list'[k] = list[k]
  BY <1>1 DEF ListRows
<1>3. ListRows'
  BY <1>1, <1>2 DEF ListRows, ListType
<1>4. Live' = Live
  BY <1>1, <1>2 DEF Live, ListType
<1>5. new \subseteq ItemType /\ IsFiniteSet(items')
  <2>1. new \subseteq ItemType
    BY <1>1 DEF Valid, ItemType, ItemRows
  <2>2. IsFiniteSet(items \ Of(l)) /\ IsFiniteSet(new)
    BY FS_Subset DEF ItemRows, Valid
  <2> QED
    BY <2>1, <2>2, FS_Union
<1>6. ItemRows'
  BY <1>4, <1>5 DEF ItemRows, NoDanglingItems, Valid
<1>7. Moves
  BY <1>1, <1>2 DEF Moves, ListRows, ListType, Of, Valid
<1> QED
  BY <1>3, <1>4, <1>6, <1>7

LEMMA Refilled ==
  ASSUME ListRows, ItemRows, NEW S \in SUBSET Live, NEW new \in SUBSET ItemType, IsFiniteSet(new),
         \A i \in new : i.list \in S /\ i.track \in library,
         \A l \in S : list[l].kind # "own" \/ l \in BeingFilled,
         items' = {i \in items : i.list \notin S} \cup new, UNCHANGED <<list, library, births>>
  PROVE  ListRows' /\ ItemRows' /\ Moves /\ Live' = Live
<1>1. ListRows' /\ Live' = Live
  BY DEF ListRows, ListType, Live
<1>2. IsFiniteSet(items')
  <2>1. IsFiniteSet({i \in items : i.list \notin S})
    BY FS_Subset DEF ItemRows
  <2> QED
    BY <2>1, FS_Union
<1>3. ItemRows'
  BY <1>1, <1>2 DEF ItemRows, NoDanglingItems
<1>4. Moves
  BY DEF Moves, ListRows, ListType
<1> QED
  BY <1>1, <1>3, <1>4

LEMMA Made ==
  ASSUME ListRows, ItemRows, NEW l \in Lists, l \notin Live, NEW row \in ListType, NEW of, Valid(l, of),
         row.kind # "none", row.source # 0 => row.kind = "copy", NewRow(l, row, of), UNCHANGED library
  PROVE  ListRows' /\ ItemRows' /\ Moves /\ Live' = Live \cup {l}
<1>1. list'[l] = [row EXCEPT !.born = births + 1] /\ \A k \in Lists \ {l} : list'[k] = list[k]
  BY DEF ListRows, NewRow
<1>2. births \in Nat /\ births' = births + 1
  BY DEF ListRows, NewRow
<1>3. [row EXCEPT !.born = births + 1] \in ListType
  BY <1>2 DEF ListType
<1>4. ListRows'
  <2>1. list' \in [Lists -> ListType]
    BY <1>3 DEF ListRows, NewRow
  <2>2. \A k \in Lists : list'[k].born <= births' /\ (list'[k].source # 0 => list'[k].kind = "copy")
    BY <1>1, <1>2 DEF ListRows, ListType
  <2> QED
    BY <1>2, <2>1, <2>2 DEF ListRows
<1>5. Live' = Live \cup {l}
  BY <1>1 DEF Live, ListType
<1>6. items' = items \cup of /\ of \subseteq ItemType /\ IsFiniteSet(items')
  <2>1. items' = items \cup of /\ of \subseteq ItemType
    BY DEF NewRow, Valid, ItemType, ItemRows
  <2> QED
    BY <2>1, FS_Union DEF ItemRows, Valid
<1>7. ItemRows'
  BY <1>5, <1>6 DEF ItemRows, NoDanglingItems, Valid
<1>8. Moves
  BY <1>1, <1>2, <1>6 DEF Moves, ListRows, ListType, Valid
<1> QED
  BY <1>4, <1>5, <1>7, <1>8

LEMMA MixFilled ==
  ASSUME ListRows, ItemRows, NEW l \in Live, l \in BeingFilled, NEW new, Valid(l, new),
         items' = items \cup new, UNCHANGED <<list, library, births>>
  PROVE  ListRows' /\ ItemRows' /\ Moves /\ Live' = Live
<1>1. ListRows' /\ Live' = Live
  BY DEF ListRows, ListType, Live
<1>2. new \subseteq ItemType /\ IsFiniteSet(items')
  <2>1. new \subseteq ItemType
    BY DEF Valid, ItemType, ItemRows, Live
  <2> QED
    BY <2>1, FS_Union DEF ItemRows, Valid
<1>3. ItemRows'
  BY <1>1, <1>2 DEF ItemRows, NoDanglingItems, Valid
<1>4. Moves
  BY DEF Moves, ListRows, ListType, Valid
<1> QED
  BY <1>1, <1>3, <1>4

LEMMA Dropped ==
  ASSUME ListRows, ItemRows, NEW S \in SUBSET Live, DropLists(S)
  PROVE  ListRows' /\ ItemRows' /\ Moves /\ Live' = Live \ S
<1>1. \A l \in Lists : list'[l] = IF l \in S THEN NoList ELSE list[l]
  BY DEF DropLists
<1>2. NoList \in ListType /\ NoList.born = 0 /\ NoList.source = 0 /\ NoList.kind = "none"
  BY DEF NoList, ListType, Ids
<1>3. ListRows'
  BY <1>1, <1>2 DEF ListRows, DropLists, ListType
<1>4. Live' = Live \ S
  BY <1>1, <1>2 DEF Live
<1>5. IsFiniteSet(items')
  BY FS_Subset DEF ItemRows, DropLists
<1>6. ItemRows'
  BY <1>4, <1>5 DEF ItemRows, NoDanglingItems, DropLists
<1>7. Moves
  BY <1>1, <1>2 DEF Moves, ListRows, ListType, DropLists
<1> QED
  BY <1>3, <1>4, <1>6, <1>7

LEMMA SongGone ==
  ASSUME ListRows, ItemRows, NEW t, DeleteTrack(t)
  PROVE  ListRows' /\ ItemRows' /\ Moves /\ Live' = Live
<1>1. UNCHANGED <<list, births>> /\ library' = library \ {t} /\ t \notin Remote
      /\ items' = {i \in items : i.track # t}
  BY DEF DeleteTrack, listVars
<1>2. ListRows' /\ Live' = Live
  BY <1>1 DEF ListRows, ListType, Live
<1>3. IsFiniteSet(items')
  BY <1>1, FS_Subset DEF ItemRows
<1>4. ItemRows'
  BY <1>1, <1>2, <1>3 DEF ItemRows, NoDanglingItems
<1>5. Moves
  BY <1>1 DEF Moves, ListRows, ListType
<1> QED
  BY <1>2, <1>4, <1>5

LEMMA SongCame ==
  ASSUME ListRows, ItemRows, NEW t \in Tracks, library' = library \cup {t}, UNCHANGED <<items, list, births>>
  PROVE  ListRows' /\ ItemRows' /\ Moves /\ Live' = Live
BY DEF ListRows, ItemRows, NoDanglingItems, Live, Moves, ListType

(* A row is shared or published and stays the list it is.                    *)
LEMMA Flagged ==
  ASSUME ListRows, ItemRows, NEW l \in Live, NEW row \in ListType,
         row.kind = list[l].kind, row.born = list[l].born, row.source = list[l].source,
         row.revision \in {list[l].revision, list[l].revision + 1},
         list' = [list EXCEPT ![l] = row], UNCHANGED <<library, items, births>>
  PROVE  ListRows' /\ ItemRows' /\ Moves /\ Live' = Live
<1>1. l \in Lists /\ list'[l] = row /\ \A k \in Lists \ {l} : list'[k] = list[k]
  BY DEF Live, ListRows
<1>2. ListRows'
  BY <1>1 DEF ListRows, ListType
<1>3. Live' = Live
  BY <1>1 DEF Live
<1>4. ItemRows'
  BY <1>3 DEF ItemRows, NoDanglingItems
<1>5. Moves
  BY <1>1 DEF Moves, ListRows, ListType
<1> QED
  BY <1>2, <1>3, <1>4, <1>5

-----------------------------------------------------------------------------
(* What lists are filled with is valid.                                      *)

LEMMA OwnItems ==
  ASSUME ItemRows, NEW l
  PROVE  Valid(l, Of(l))
<1>1. IsFiniteSet(Of(l))
  BY FS_Subset DEF Of, ItemRows
<1> QED
  BY <1>1 DEF Valid, Of, ItemRows, ItemType, NoDanglingItems

LEMMA PositionsCounted ==
  ASSUME ItemRows, NEW l
  PROVE  IsFiniteSet(Positions(l)) /\ Positions(l) \subseteq Nat
<1> DEFINE g == [i \in Of(l) |-> i.pos]
<1>1. g \in Surjection(Of(l), Positions(l))
  BY DEF Surjection, Positions
<1>2. IsFiniteSet(Of(l))
  BY FS_Subset DEF Of, ItemRows
<1>3. IsFiniteSet(Positions(l))
  BY <1>1, <1>2, FS_Surjection
<1> QED
  BY <1>3 DEF Positions, Of, ItemRows, ItemType

LEMMA ReservedCounted ==
  ASSUME PlaylistsAssumption, JobRowsKept, NEW l
  PROVE  IsFiniteSet(Reserved(l)) /\ Reserved(l) \subseteq Nat
<1> DEFINE those == {k \in JobRows : job[k].list = l}
<1> DEFINE g == [j \in those |-> job[j].pos]
<1>1. g \in Surjection(those, Reserved(l))
  BY DEF Surjection, Reserved
<1>2. IsFiniteSet(Jobs)
  BY FS_Interval DEF PlaylistsAssumption, Jobs
<1>3. IsFiniteSet(those)
  BY <1>2, FS_Subset DEF JobRows
<1>4. IsFiniteSet(Reserved(l))
  BY <1>1, <1>3, FS_Surjection
<1> QED
  BY <1>4 DEF Reserved, JobRows, JobRowsKept, JobTable, JobType

LEMMA Appended ==
  ASSUME PlaylistsAssumption, ItemRows, JobRowsKept, NEW l, NEW t \in library
  PROVE  Valid(l, Of(l) \cup {Item(l, t, MaxOf(Positions(l) \cup Reserved(l)) + 1)})
<1>1. IsFiniteSet(Positions(l) \cup Reserved(l)) /\ Positions(l) \cup Reserved(l) \in SUBSET Nat
  BY PositionsCounted, ReservedCounted, FS_Union
<1>2. MaxOf(Positions(l) \cup Reserved(l)) \in Nat
  BY <1>1, LargestOrZero
<1>3. Valid(l, Of(l))
  BY OwnItems
<1> DEFINE x == Item(l, t, MaxOf(Positions(l) \cup Reserved(l)) + 1)
<1>4. x \in [list : {l}, track : library, pos : Nat \ {0}]
  BY <1>2 DEF Item
<1> HIDE DEF x
<1>5. IsFiniteSet(Of(l) \cup {x})
  BY <1>3, FS_AddElement DEF Valid
<1>6. Valid(l, Of(l) \cup {x})
  BY <1>3, <1>4, <1>5 DEF Valid
<1> QED
  BY <1>6 DEF x

LEMMA Reordered ==
  ASSUME ItemRows, Readers, NEW u \in Users, NEW l, SameTracks(seen[u].items, Of(l)),
         NEW new \in Orders(l, seen[u].items)
  PROVE  Valid(l, new)
<1> DEFINE read == seen[u].items
<1>1. IsFiniteSet(read) /\ read \subseteq ItemType
  BY DEF Readers, SeenType
<1>2. IsFiniteSet(Of(l)) /\ \A i \in Of(l) : i.track \in library
  BY OwnItems DEF Valid
<1>3. \A i \in read : i.track \in library
  <2> SUFFICES ASSUME NEW i \in read
               PROVE  i.track \in library
    OBVIOUS
  <2>1. i.track \in Tracks
    BY <1>1 DEF ItemType
  <2>2. PICK k \in Of(l) : k.track = i.track
    BY <1>1, <1>2, <2>1, TracksAgree
  <2> QED
    BY <1>2, <2>2
<1>4. new \subseteq [list : {l}, track : {i.track : i \in read}, pos : Nat \ {0}] /\ IsFiniteSet(new)
  BY <1>1, Ordered
<1> HIDE DEF read
<1> QED
  BY <1>3, <1>4 DEF Valid

LEMMA CopiedItems ==
  ASSUME ItemRows, NEW l, NEW s
  PROVE  Valid(l, Copied(l, Of(s)))
<1> DEFINE g == [i \in Of(s) |-> Item(l, i.track, i.pos)]
<1>1. g \in Surjection(Of(s), Copied(l, Of(s)))
  BY DEF Surjection, Copied
<1>2. Valid(s, Of(s))
  BY OwnItems
<1>3. IsFiniteSet(Copied(l, Of(s)))
  BY <1>1, <1>2, FS_Surjection DEF Valid
<1> QED
  BY <1>2, <1>3 DEF Valid, Copied, Item

LEMMA FilledItems ==
  ASSUME PlaylistsAssumption, ItemRows, NEW l, NEW from \in SUBSET library, NEW new \in Fillings(l, from)
  PROVE  Valid(l, new)
<1>1. from \in SUBSET Tracks
  BY DEF ItemRows
<1> QED
  BY <1>1, Filled DEF Valid

-----------------------------------------------------------------------------
(* Every step gives the rows one of these forms.  What happens to lists from *)
(* outside (Library) is a refill of smart lists and a loss of lists that are *)
(* not on disk.                                                              *)
RowsKept == ListRows' /\ ItemRows' /\ Moves /\ Live \subseteq Live'

LEMMA SteadyRows ==
  ASSUME ListRows, ItemRows, UNCHANGED <<library, items, list, births>>
  PROVE  RowsKept
BY Steady DEF RowsKept, Live

LEMMA NewListRows ==
  ASSUME PlaylistsAssumption, ListRows, ItemRows, NEW l, NEW row \in ListType, NEW of, Valid(l, of),
         row.kind # "none", row.source # 0 => row.kind = "copy", NewRow(l, row, of), UNCHANGED library
  PROVE  RowsKept
<1>1. l \in Lists /\ l = NextId(Live)
  BY DEF NewRow
<1>2. Live \in SUBSET (1 .. MaxLists) /\ MaxLists \in Nat
  BY DEF Live, Lists, PlaylistsAssumption
<1>3. \A y \in Live : y < NextId(Live)
  BY <1>2, NewIds
<1>4. l \notin Live
  BY <1>1, <1>2, <1>3 DEF Lists
<1> QED
  BY <1>1, <1>4, Made DEF RowsKept

LEMMA EditRows ==
  ASSUME ListRows, ItemRows, NEW l \in Live, NEW new, Valid(l, new), Edit(l, new)
  PROVE  RowsKept
<1>1. items' = (items \ Of(l)) \cup new /\ list' = [list EXCEPT ![l].revision = @ + 1]
      /\ UNCHANGED <<library, births>>
  BY DEF Edit
<1> QED
  BY <1>1, Changed DEF RowsKept

LEMMA AddRows ==
  ASSUME PlaylistsAssumption, ListRows, ItemRows, JobRowsKept, NEW l \in Live, NEW t \in library, AddAt(l, t)
  PROVE  RowsKept
<1>1. CASE \E i \in Of(l) : i.track = t
  BY <1>1, SteadyRows DEF AddAt, libraryVars, listVars
<1>2. CASE ~\E i \in Of(l) : i.track = t
  BY <1>2, Appended, EditRows DEF AddAt
<1> QED
  BY <1>1, <1>2

LEMMA ReorderRows ==
  ASSUME ListRows, ItemRows, Readers, NEW u \in Users, NEW l \in Lists, Reorder(u, l)
  PROVE  RowsKept
<1>1. l \in Live /\ SameTracks(seen[u].items, Of(l))
  BY DEF Reorder, Editable
<1>2. PICK new \in Orders(l, seen[u].items) : Edit(l, new)
  BY DEF Reorder
<1>3. Valid(l, new)
  BY <1>1, Reordered
<1> QED
  BY <1>1, <1>2, <1>3, EditRows

LEMMA RefillRows ==
  ASSUME ListRows, ItemRows, NEW l \in Live, list[l].kind # "own" \/ l \in BeingFilled,
         NEW new, Valid(l, new), Refill(l, new), UNCHANGED <<library, births>>
  PROVE  RowsKept
<1>1. items' = {i \in items : i.list \notin {l}} \cup new /\ UNCHANGED list
  BY DEF Refill, Of
<1> DEFINE S == {l}
<1>2. S \in SUBSET Live /\ (\A k \in S : list[k].kind # "own" \/ k \in BeingFilled) /\ l \in S
  OBVIOUS
<1>3. new \in SUBSET ItemType /\ IsFiniteSet(new) /\ \A i \in new : i.list \in S /\ i.track \in library
  BY DEF Valid, ItemType, ItemRows, Live
<1>4. items' = {i \in items : i.list \notin S} \cup new
  BY <1>1
<1> HIDE DEF S
<1> QED
  BY <1>1, <1>2, <1>3, <1>4, Refilled DEF RowsKept

LEMMA InsertRows ==
  ASSUME PlaylistsAssumption, ListRows, ItemRows, NEW u \in Users, NEW r \in Requests, NEW l, Insert(u, r, l)
  PROVE  RowsKept
<1> DEFINE row == [NoList EXCEPT !.kind = "own", !.owner = u, !.request = r]
<1>1. PICK of \in Fillings(l, library) : NewRow(l, row, of) /\ UNCHANGED library
  BY DEF Insert, MakeList
<1>2. Valid(l, of)
  BY <1>1, FilledItems
<1>3. row \in ListType /\ row.kind = "own" /\ row.source = 0
  BY DEF NoList, ListType, Ids
<1> HIDE DEF row
<1> QED
  BY <1>1, <1>2, <1>3, NewListRows

LEMMA CopyRows ==
  ASSUME PlaylistsAssumption, ListRows, ItemRows, NEW u \in Users, NEW s \in Lists, Copy(u, s)
  PROVE  RowsKept
<1>1. s \in Live /\ UNCHANGED library
  BY DEF Copy
<1>2. CASE \E l \in Copies(u, s) : Refill(l, Copied(l, Of(s))) /\ UNCHANGED births
  <2>1. PICK l \in Copies(u, s) : Refill(l, Copied(l, Of(s))) /\ UNCHANGED births
    BY <1>2
  <2>2. l \in Live /\ list[l].source # 0
    BY <1>1 DEF Copies, Live, Lists
  <2>3. list[l].kind # "own"
    BY <2>2 DEF ListRows, Live
  <2> QED
    BY <1>1, <2>1, <2>2, <2>3, CopiedItems, RefillRows
<1>3. CASE \E l \in Lists :
             MakeList(l, [NoList EXCEPT !.kind = "copy", !.owner = u, !.source = s], Copied(l, Of(s)))
  <2> DEFINE row == [NoList EXCEPT !.kind = "copy", !.owner = u, !.source = s]
  <2>1. PICK l \in Lists : NewRow(l, row, Copied(l, Of(s)))
    BY <1>3 DEF MakeList
  <2>2. row \in ListType /\ row.kind = "copy"
    BY DEF NoList, ListType, Ids, Lists
  <2> HIDE DEF row
  <2> QED
    BY <1>1, <2>1, <2>2, CopiedItems, NewListRows
<1> QED
  BY <1>2, <1>3 DEF Copy

LEMMA CopyRemoteRows ==
  ASSUME PlaylistsAssumption, ListRows, ItemRows, NEW u \in Users, CopyRemote(u)
  PROVE  RowsKept
<1>1. Remote \in SUBSET library
  BY DEF ItemRows
<1>2. CASE \E l \in Copies(u, Elsewhere) : \E new \in Fillings(l, Remote) : Edit(l, new)
  <2>1. PICK l \in Copies(u, Elsewhere) : \E new \in Fillings(l, Remote) : Edit(l, new)
    BY <1>2
  <2>2. PICK new \in Fillings(l, Remote) : Edit(l, new)
    BY <2>1
  <2>3. l \in Live
    BY DEF Copies
  <2> QED
    BY <1>1, <2>2, <2>3, FilledItems, EditRows
<1>3. CASE /\ \E l \in Lists : \E new \in Fillings(l, Remote) :
                MakeList(l, [NoList EXCEPT !.kind = "copy", !.owner = u, !.source = Elsewhere,
                                           !.revision = 1], new)
           /\ UNCHANGED <<library, operation, job, seen>>
  <2> DEFINE row == [NoList EXCEPT !.kind = "copy", !.owner = u, !.source = Elsewhere, !.revision = 1]
  <2>1. PICK l \in Lists : \E new \in Fillings(l, Remote) : NewRow(l, row, new)
    BY <1>3 DEF MakeList
  <2>2. PICK new \in Fillings(l, Remote) : NewRow(l, row, new)
    BY <2>1
  <2>3. row \in ListType /\ row.kind = "copy"
    BY DEF NoList, ListType, Ids
  <2>4. Valid(l, new)
    BY <1>1, FilledItems
  <2> HIDE DEF row
  <2> QED
    BY <1>3, <2>2, <2>3, <2>4, NewListRows
<1> QED
  BY <1>2, <1>3 DEF CopyRemote

LEMMA CreateSmartRows ==
  ASSUME PlaylistsAssumption, ListRows, ItemRows, NEW u \in Users, CreateSmart(u)
  PROVE  RowsKept
<1> DEFINE row == [NoList EXCEPT !.kind = "smart", !.owner = u]
<1>1. PICK l \in Lists : \E new \in Fillings(l, library \ Remote) : NewRow(l, row, new)
  BY DEF CreateSmart, MakeList
<1>2. PICK new \in Fillings(l, library \ Remote) : NewRow(l, row, new)
  BY <1>1
<1>3. Valid(l, new) /\ UNCHANGED library
  BY FilledItems DEF CreateSmart
<1>4. row \in ListType /\ row.kind = "smart" /\ row.source = 0
  BY DEF NoList, ListType, Ids
<1> HIDE DEF row
<1> QED
  BY <1>2, <1>3, <1>4, NewListRows

LEMMA RefreshRows ==
  ASSUME PlaylistsAssumption, ListRows, ItemRows, NEW l \in Lists, RefreshSmart(l)
  PROVE  RowsKept
<1>1. PICK new \in Fillings(l, library \ Remote) : Refill(l, new)
  BY DEF RefreshSmart
<1>2. l \in Live /\ list[l].kind # "own" /\ UNCHANGED <<library, births>>
  BY DEF RefreshSmart, Live
<1>3. Valid(l, new)
  BY FilledItems
<1> QED
  BY <1>1, <1>2, <1>3, RefillRows

LEMMA SaveTopSongsRows ==
  ASSUME PlaylistsAssumption, ListRows, ItemRows, NEW u \in Users, SaveTopSongs(u)
  PROVE  RowsKept
<1> DEFINE row == [NoList EXCEPT !.kind = "own", !.owner = u]
<1>1. PICK l \in Lists : \E new \in Fillings(l, library) : NewRow(l, row, new)
  BY DEF SaveTopSongs, MakeList
<1>2. PICK new \in Fillings(l, library) : NewRow(l, row, new)
  BY <1>1
<1>3. Valid(l, new) /\ UNCHANGED library
  BY FilledItems DEF SaveTopSongs
<1>4. row \in ListType /\ row.kind = "own" /\ row.source = 0
  BY DEF NoList, ListType, Ids
<1> HIDE DEF row
<1> QED
  BY <1>2, <1>3, <1>4, NewListRows

LEMMA EmptyListRows ==
  ASSUME PlaylistsAssumption, ListRows, ItemRows, NEW u \in Users, NEW l, NewList(u, l), UNCHANGED library
  PROVE  RowsKept
<1> DEFINE row == [NoList EXCEPT !.kind = "own", !.owner = u]
<1>1. NewRow(l, row, {})
  BY DEF NewList
<1>2. Valid(l, {})
  BY FS_EmptySet DEF Valid
<1>3. row \in ListType /\ row.kind = "own" /\ row.source = 0
  BY DEF NoList, ListType, Ids
<1> HIDE DEF row
<1> QED
  BY <1>1, <1>2, <1>3, NewListRows

LEMMA FillMixRows ==
  ASSUME PlaylistsAssumption, ListRows, ItemRows, NEW h \in Handlers, FillMix(h)
  PROVE  RowsKept
<1> DEFINE l == handler[h].list
<1>1. UNCHANGED <<library, list, births>> /\ l \in BeingFilled
  BY DEF FillMix, listVars, BeingFilled
<1>2. CASE l \in Live
  <2>1. PICK new \in Fillings(l, library) : items' = items \cup new
    BY <1>2 DEF FillMix
  <2>2. Valid(l, new)
    BY FilledItems
  <2> HIDE DEF l
  <2> QED
    BY <1>1, <1>2, <2>1, <2>2, MixFilled DEF RowsKept
<1>3. CASE l \notin Live
  BY <1>1, <1>3, SteadyRows DEF FillMix
<1> QED
  BY <1>2, <1>3

LEMMA CopyAgainRows ==
  ASSUME ListRows, ItemRows, NEW h \in Handlers, CopyAgain(h)
  PROVE  RowsKept
<1> DEFINE l == handler[h].list
           s == handler[h].source
<1>1. UNCHANGED <<library, births>> /\ l \in BeingFilled
  BY DEF CopyAgain, Resume, BeingFilled
<1>2. CASE {l, s} \subseteq Live
  <2>1. Refill(l, Copied(l, Of(s))) /\ l \in Live
    BY <1>2 DEF CopyAgain
  <2>2. Valid(l, Copied(l, Of(s)))
    BY CopiedItems
  <2> HIDE DEF l, s
  <2> QED
    BY <1>1, <2>1, <2>2, RefillRows
<1>3. CASE ~({l, s} \subseteq Live)
  BY <1>1, <1>3, SteadyRows DEF CopyAgain
<1> QED
  BY <1>2, <1>3

LEMMA Successor == \A n \in Nat : n + 1 \in Nat
OBVIOUS

LEMMA FlagRows ==
  ASSUME ListRows, ItemRows, NEW l \in Live, NEW row,
         \/ row = [list[l] EXCEPT !.public = ~@]
         \/ \E m \in Users : row = [list[l] EXCEPT !.members = @ \cup {m}, !.shared = TRUE, !.revision = @ + 1]
         \/ \E m \in Users : row = [list[l] EXCEPT !.members = @ \ {m}, !.revision = @ + 1],
         list' = [list EXCEPT ![l] = row], UNCHANGED <<library, items, births>>
  PROVE  RowsKept
<1> DEFINE old == list[l]
<1>1. old \in ListType
  BY Zenon DEF ListRows, Live
<1> HIDE DEF old
<1>2. CASE row = [old EXCEPT !.public = ~@]
  <2>1. row \in ListType
    BY <1>1, <1>2, Zenon DEF ListType
  <2>2. row.kind = old.kind /\ row.born = old.born /\ row.source = old.source /\ row.revision = old.revision
    BY <1>1, <1>2 DEF ListType
  <2> QED
    BY <2>1, <2>2, Flagged DEF RowsKept, old
<1> DEFINE next == old.revision + 1
<1>a. old.revision \in Nat
  BY <1>1, Zenon DEF ListType
<1>c. next \in Nat
  BY <1>a, Successor, Zenon
<1> HIDE DEF next
<1>3. ASSUME NEW m \in Users, row = [old EXCEPT !.members = @ \cup {m}, !.shared = TRUE, !.revision = next]
      PROVE  RowsKept
  <2>1. row \in ListType
    BY <1>1, <1>c, <1>3, Zenon DEF ListType
  <2>2. row.kind = old.kind /\ row.born = old.born /\ row.source = old.source /\ row.revision = next
    BY <1>1, <1>3 DEF ListType
  <2> QED
    BY <2>1, <2>2, Flagged DEF RowsKept, old, next
<1>4. ASSUME NEW m \in Users, row = [old EXCEPT !.members = @ \ {m}, !.revision = next]
      PROVE  RowsKept
  <2>1. row \in ListType
    BY <1>1, <1>c, <1>4 DEF ListType
  <2>2. row.kind = old.kind /\ row.born = old.born /\ row.source = old.source /\ row.revision = next
    BY <1>1, <1>4 DEF ListType
  <2> QED
    BY <2>1, <2>2, Flagged DEF RowsKept, old, next
<1> QED
  BY <1>2, <1>3, <1>4 DEF old, next

LEMMA ShareRows ==
  ASSUME ListRows, ItemRows, NEW l \in Live, NEW m \in Users, Share(l, m)
  PROVE  RowsKept
<1> DEFINE row == [list[l] EXCEPT !.members = @ \cup {m}, !.shared = TRUE, !.revision = @ + 1]
<1>1. list' = [list EXCEPT ![l] = row] /\ UNCHANGED <<library, items, births>>
  BY Zenon DEF Share, libraryVars
<1>2. \E n \in Users :
        row = [list[l] EXCEPT !.members = @ \cup {n}, !.shared = TRUE, !.revision = @ + 1]
  OBVIOUS
<1> HIDE DEF row
<1> QED
  BY <1>1, <1>2, FlagRows

LEMMA LinkRows ==
  ASSUME ListRows, ItemRows, JobRowsKept, NEW j \in Jobs, Link(j)
  PROVE  RowsKept
<1> DEFINE l == job[j].list
<1> DEFINE x == Item(l, job[j].track, job[j].at)
<1>1. l \in Live /\ job[j].at \in Nat \ {0} /\ job[j].track \in library
  BY DEF Link, SetPhase, JobRowsKept, JobTable, JobType
<1>2. items' = items \cup {x} /\ list' = [list EXCEPT ![l].revision = @ + 1]
      /\ UNCHANGED <<library, births>>
  BY DEF Link
<1>3. Valid(l, Of(l))
  BY OwnItems
<1>4. x \in [list : {l}, track : library, pos : Nat \ {0}]
  BY <1>1 DEF Item
<1> HIDE DEF l, x
<1>5. Valid(l, Of(l) \cup {x})
  BY <1>3, <1>4, FS_AddElement DEF Valid
<1>6. items' = (items \ Of(l)) \cup (Of(l) \cup {x})
  BY <1>2 DEF Of
<1> QED
  BY <1>1, <1>2, <1>5, <1>6, Changed DEF RowsKept

LoseLists == \E S \in SUBSET (Live \ onDisk) : DropLists(S) /\ UNCHANGED handler
RefillSmart == \E u \in Users : RefreshSmartOf(u)

ListStep ==
  \/ Request \/ Progress \/ Restart
  \/ LoseLists \/ RefillSmart
  \/ UNCHANGED <<library, items, listVars, job, handler, seen, stale>>

RowsMoved ==
  ListRows' /\ ItemRows' /\ Moves /\ (Live \subseteq Live' \/ \E S \in SUBSET Live : DropLists(S))

LEMMA RefillSmartRows ==
  ASSUME PlaylistsAssumption, ListRows, ItemRows, NEW u \in Users, RefreshSmartOf(u)
  PROVE  RowsKept
<1> DEFINE S == SmartOf(u)
<1>1. PICK new \in [S -> UNION {Fillings(l, Local) : l \in S}] :
        /\ \A l \in S : new[l] \in Fillings(l, Local)
        /\ items' = {i \in items : i.list \notin S} \cup UNION {new[l] : l \in S}
  BY DEF RefreshSmartOf
<1>2. S \in SUBSET Live /\ \A l \in S : list[l].kind # "own"
  BY DEF SmartOf
<1>3. Local \in SUBSET library
  BY DEF Local
<1> HIDE DEF S
<1>4. \A l \in S : Valid(l, new[l])
  BY <1>1, <1>3, FilledItems
<1> DEFINE all == UNION {new[l] : l \in S}
<1>5. all \in SUBSET ItemType /\ \A i \in all : i.list \in S /\ i.track \in library
  BY <1>2, <1>4 DEF Valid, ItemType, ItemRows, Live
<1>6. IsFiniteSet(all)
  <2> DEFINE kept == {new[l] : l \in S}
  <2> DEFINE g == [l \in S |-> new[l]]
  <2>1. g \in Surjection(S, kept)
    BY DEF Surjection
  <2>2. IsFiniteSet(S)
    <3>1. IsFiniteSet(Lists)
      BY FS_Interval DEF Lists, PlaylistsAssumption
    <3> QED
      BY <1>2, <3>1, FS_Subset DEF Live
  <2>3. IsFiniteSet(kept) /\ \A x \in kept : IsFiniteSet(x)
    BY <1>4, <2>1, <2>2, FS_Surjection DEF Valid
  <2> QED
    BY <2>3, FS_UNION
<1>7. items' = {i \in items : i.list \notin S} \cup all /\ UNCHANGED <<list, library, births>>
  BY <1>1 DEF RefreshSmartOf
<1> HIDE DEF all
<1> QED
  BY <1>2, <1>5, <1>6, <1>7, Refilled DEF RowsKept

LEMMA RequestRows ==
  ASSUME PlaylistsAssumption, ListInv, Request
  PROVE  RowsKept
<1> USE DEF ListInv
<1>1. ASSUME NEW u \in Users, NEW l \in Lists, Read(u, l) \/ StartDownload(u, l)
      PROVE  RowsKept
  BY <1>1, SteadyRows DEF Read, StartDownload, libraryVars, listVars
<1>2. ASSUME NEW u \in Users, NEW l \in Lists, ReorderSeen(u, l) \/ ReorderBlind(u, l)
      PROVE  RowsKept
  BY <1>2, ReorderRows DEF ReorderSeen, ReorderBlind
<1>3. ASSUME NEW u \in Users, NEW l \in Lists, Publish(u, l)
      PROVE  RowsKept
  <2> DEFINE row == [list[l] EXCEPT !.public = ~@]
  <2>1. l \in Live /\ list' = [list EXCEPT ![l] = row] /\ UNCHANGED <<library, items, births>>
    BY <1>3, Zenon DEF Publish, libraryVars
  <2> QED
    BY <2>1, FlagRows
<1>4. ASSUME NEW u \in Users, NEW l \in Lists, Copy(u, l)
      PROVE  RowsKept
  BY <1>4, CopyRows
<1>5. ASSUME NEW u \in Users, NEW l \in Lists, NEW t \in Tracks, Add(u, l, t)
      PROVE  RowsKept
  BY <1>5, AddRows DEF Add, Editable
<1>6. ASSUME NEW u \in Users, NEW l \in Lists, NEW i \in items, Remove(u, l, i)
      PROVE  RowsKept
  <2>1. Valid(l, Of(l))
    BY OwnItems
  <2>2. Valid(l, Of(l) \ {i})
    BY <2>1, FS_Subset DEF Valid
  <2> QED
    BY <1>6, <2>2, EditRows DEF Remove, Editable
<1>7. ASSUME NEW u \in Users, NEW l \in Lists, NEW m \in Users,
             AddCollaborator(u, l, m) \/ RemoveCollaborator(u, l, m)
      PROVE  RowsKept
  <2>1. CASE AddCollaborator(u, l, m)
    BY <2>1, ShareRows DEF AddCollaborator, Editable
  <2>2. CASE RemoveCollaborator(u, l, m)
    <3>1. l \in Live /\ list' = [list EXCEPT ![l] = [list[l] EXCEPT !.members = list[l].members \ {m}, !.revision = list[l].revision + 1]]
          /\ UNCHANGED <<library, items, births>>
      BY <2>2 DEF RemoveCollaborator, libraryVars
    <3> DEFINE row == [list[l] EXCEPT !.members = @ \ {m}, !.revision = @ + 1]
    <3>2. /\ list' = [list EXCEPT ![l] = row]
          /\ \E n \in Users : row = [list[l] EXCEPT !.members = @ \ {n}, !.revision = @ + 1]
      BY <3>1, Zenon
    <3> HIDE DEF row
    <3> QED
      BY <3>1, <3>2, FlagRows
  <2> QED
    BY <1>7, <2>1, <2>2
<1>8. ASSUME NEW u \in Users, NEW l \in Lists, NEW h \in Handlers,
             \/ AskDelete(u, l, h) \/ AskRename(u, l, h) \/ AskCopy(u, l, h) \/ AskInvite(u, l, h)
             \/ \E t \in Tracks : AskAdd(u, l, t, h)
      PROVE  RowsKept
  BY <1>8, SteadyRows DEF AskDelete, AskRename, AskCopy, AskInvite, AskAdd, libraryVars, listVars
<1>9. ASSUME NEW u \in Users, ImportCollection(u)
      PROVE  RowsKept
  <2>1. PICK l \in Lists : NewList(u, l) /\ UNCHANGED library
    BY <1>9 DEF ImportCollection
  <2> QED
    BY <2>1, EmptyListRows
<1>10. ASSUME NEW u \in Users, CreateSmart(u) \/ CopyRemote(u) \/ SaveTopSongs(u)
       PROVE  RowsKept
  BY <1>10, CreateSmartRows, CopyRemoteRows, SaveTopSongsRows
<1>11. ASSUME NEW u \in Users, NEW h \in Handlers, SaveMix(u, h)
       PROVE  RowsKept
  <2>1. PICK l \in Lists : NewList(u, l) /\ UNCHANGED library
    BY <1>11 DEF SaveMix
  <2> QED
    BY <2>1, EmptyListRows
<1>12. ASSUME NEW u \in Users, NEW r \in Requests, NEW h \in Handlers, AskCreate(u, r, h)
       PROVE  RowsKept
  BY <1>12, SteadyRows DEF AskCreate, libraryVars, listVars
<1>13. ASSUME NEW l \in Lists, RefreshSmart(l)
       PROVE  RowsKept
  BY <1>13, RefreshRows
<1>14. ASSUME NEW t \in Tracks, DeleteTrack(t)
       PROVE  RowsKept
  BY <1>14, SongGone DEF RowsKept
<1>15. ASSUME NEW j \in Jobs, Retry(j)
       PROVE  RowsKept
  BY <1>15, SteadyRows DEF Retry, libraryVars, listVars
<1> QED
  BY <1>1, <1>2, <1>3, <1>4, <1>5, <1>6, <1>7, <1>8, <1>9, <1>10, <1>11, <1>12, <1>13, <1>14, <1>15,
     Zenon DEF Request

LEMMA ProgressRows ==
  ASSUME PlaylistsAssumption, ListInv, Progress
  PROVE  RowsKept \/ \E h \in Handlers : Delete(h)
<1> USE DEF ListInv
<1>1. ASSUME NEW h \in Handlers, Create(h)
      PROVE  RowsKept
  <2>1. ASSUME NEW u \in Users, NEW r \in Requests, NEW l \in Lists, Insert(u, r, l)
        PROVE  RowsKept
    BY <2>1, InsertRows
  <2>2. CASE UNCHANGED <<libraryVars, listVars, job, seen, stale>>
    BY <2>2, SteadyRows DEF libraryVars, listVars
  <2>3. handler[h].user \in Users /\ handler[h].request \in Requests
    BY <1>1 DEF Waiting, Create, Resume
  <2> QED
    BY <1>1, <2>1, <2>2, <2>3 DEF Create
<1>2. ASSUME NEW h \in Handlers, AddRemote(h)
      PROVE  RowsKept
  <2>1. handler[h].track \in library
    BY <1>2 DEF AddRemote, Resume, Waiting, ItemRows
  <2>2. CASE handler[h].list \in Live
    BY <1>2, <2>1, <2>2, AddRows DEF AddRemote
  <2>3. CASE handler[h].list \notin Live
    BY <1>2, <2>3, SteadyRows DEF AddRemote, libraryVars, listVars
  <2> QED
    BY <2>2, <2>3
<1>3. ASSUME NEW h \in Handlers, Rename(h) \/ FileMix(h)
      PROVE  RowsKept
  BY <1>3, SteadyRows DEF Rename, FileMix, libraryVars
<1>10. ASSUME NEW h \in Handlers, CopyAgain(h)
       PROVE  RowsKept
  BY <1>10, CopyAgainRows
<1>4. ASSUME NEW h \in Handlers, Invite(h)
      PROVE  RowsKept
  <2>1. CASE UNCHANGED <<libraryVars, listVars, job, seen, stale>>
    BY <2>1, SteadyRows DEF libraryVars, listVars
  <2>2. CASE handler[h].list \in Live
    BY <1>4, <2>2, ShareRows DEF Invite
  <2> QED
    BY <1>4, <2>1, <2>2 DEF Invite
<1>5. ASSUME NEW h \in Handlers, FillMix(h)
      PROVE  RowsKept
  BY <1>5, FillMixRows
<1>6. ASSUME NEW j \in Jobs, Link(j)
      PROVE  RowsKept
  BY <1>6, LinkRows
<1>7. ASSUME NEW j \in Jobs, LinkFails(j) \/ End(j) \/ Sync(j) \/ Fail(j)
      PROVE  RowsKept
  BY <1>7, SteadyRows DEF LinkFails, End, Sync, Fail, libraryVars, listVars
<1>8. ASSUME NEW j \in Jobs, NEW t \in Tracks, Choose(j, t)
      PROVE  RowsKept
  BY <1>8, SongCame DEF Choose, listVars, RowsKept
<1>9. ASSUME Prune
      PROVE  RowsKept
  <2>1. UNCHANGED <<library, items, list, births>>
    BY <1>9, Zenon DEF Prune, libraryVars, listVars
  <2> QED
    BY <2>1, SteadyRows
<1> QED
  BY <1>1, <1>2, <1>3, <1>4, <1>5, <1>6, <1>7, <1>8, <1>9, <1>10, Zenon
  DEF Progress, HandlerStep, JobStep

LEMMA DeleteRows ==
  ASSUME ListRows, ItemRows, NEW h \in Handlers, Delete(h)
  PROVE  RowsMoved /\ Live' = Live \ {handler[h].list}
<1> DEFINE S == {handler[h].list} \cap Live
<1>1. S \in SUBSET Live /\ DropLists(S)
  BY DEF Delete
<1>2. Live \ S = Live \ {handler[h].list}
  OBVIOUS
<1> HIDE DEF S
<1> QED
  BY <1>1, <1>2, Dropped DEF RowsMoved

LEMMA RowsStep ==
  ASSUME PlaylistsAssumption, ListInv, ListStep
  PROVE  RowsMoved
<1> USE DEF ListInv
<1>1. CASE Request
  BY <1>1, RequestRows DEF RowsKept, RowsMoved
<1>2. CASE Progress
  BY <1>2, ProgressRows, DeleteRows DEF RowsKept, RowsMoved
<1>3. CASE Restart
  BY <1>3, SteadyRows DEF Restart, libraryVars, listVars, RowsKept, RowsMoved
<1>4. CASE LoseLists
  BY <1>4, Dropped DEF LoseLists, RowsMoved
<1>5. CASE RefillSmart
  BY <1>5, RefillSmartRows DEF RefillSmart, RowsKept, RowsMoved
<1>6. CASE UNCHANGED <<library, items, listVars, job, handler, seen, stale>>
  BY <1>6, SteadyRows DEF listVars, RowsKept, RowsMoved
<1> QED
  BY <1>1, <1>2, <1>3, <1>4, <1>5, <1>6 DEF ListStep

-----------------------------------------------------------------------------
(* The table of jobs: rows are pruned, added at its end, and moved on.       *)

LEMMA JobsStay ==
  ASSUME JobRowsKept, UNCHANGED job, Live \subseteq Live'
  PROVE  JobRowsKept'
BY DEF JobRowsKept, JobTable

LEMMA JobsForget ==
  ASSUME ListRows, ItemRows, JobRowsKept, NEW S \in SUBSET Live, DropLists(S)
  PROVE  JobRowsKept'
<1>1. Live' = Live \ S
  BY Dropped
<1>2. \A j \in Jobs : job'[j] = IF job[j].list \in S THEN [job[j] EXCEPT !.list = 0] ELSE job[j]
  BY DEF DropLists
<1>3. \A j \in Jobs : job[j] \in JobType
  BY DEF JobRowsKept, JobTable
<1>a. 0 \in Ids
  BY DEF Ids
<1>4. \A j \in Jobs : job'[j] \in JobType
  BY <1>a, <1>2, <1>3 DEF JobType
<1>5. \A j \in Jobs : /\ job'[j].phase = job[j].phase /\ job'[j].pos = job[j].pos /\ job'[j].at = job[j].at
                      /\ job'[j].list = IF job[j].list \in S THEN 0 ELSE job[j].list
  BY <1>2, <1>3 DEF JobType
<1>6. job' \in [Jobs -> JobType]
  BY <1>4 DEF DropLists
<1>7. 0 \notin Live
  BY DEF Live, Lists
<1> QED
  BY <1>1, <1>5, <1>6, <1>7 DEF JobRowsKept, JobTable

LEMMA PrunedJobs ==
  ASSUME NEW table, NEW live, JobTable(table, live)
  PROVE  JobTable(Pruned(table), live)
<1>1. NoJob \in JobType /\ NoJob.list = 0 /\ NoJob.phase = "none"
  BY DEF NoJob, JobType, Ids
<1>2. Pruned(table) \in [Jobs -> JobType]
      /\ \A j \in Jobs : Pruned(table)[j] = IF j \in Prunable(table) THEN NoJob ELSE table[j]
  BY <1>1 DEF Pruned, JobTable
<1> QED
  BY <1>1, <1>2 DEF JobTable, ActivePhases

LEMMA AddedJob ==
  ASSUME PlaylistsAssumption, NEW table, NEW live, JobTable(table, live), HasRoom(table),
         NEW l \in Ids, NEW p \in Nat, l # 0 => l \in live,
         l # 0 /\ p # 0 => \A k \in Jobs : ~(/\ table[k].phase \in ActivePhases
                                              /\ table[k].list = l /\ table[k].pos = p)
  PROVE  JobTable(With(table, NewJob(l, p)), live)
<1> DEFINE used == {j \in Jobs : table[j].phase # "none"}
<1> DEFINE n == NextId(used)
<1> DEFINE new == NewJob(l, p)
<1>1. MaxJobs \in Nat \ {0}
  BY DEF PlaylistsAssumption
<1>2. used \in SUBSET (1 .. MaxJobs) /\ MaxJobs \notin used
  BY <1>1 DEF Jobs, HasRoom
<1>3. n \in Jobs /\ \A k \in used : k < n
  <2> HIDE DEF used
  <2>1. n \in Nat \ {0} /\ (\A y \in used : y < n) /\ n <= MaxJobs
    BY <1>1, <1>2, NewIds
  <2> QED
    BY <1>1, <2>1 DEF Jobs
<1>4. new \in JobType /\ new.phase = "pending" /\ new.list = l /\ new.pos = p
  BY DEF NewJob, NoJob, JobType, ActivePhases
<1>5. With(table, new) = [table EXCEPT ![n] = new]
  BY DEF With
<1>6. \A k \in Jobs \ {n} : table[k].phase # "none" => k < n
  BY <1>3
<1>7. n \in Nat /\ \A k \in Jobs : k \in Nat
  BY <1>3 DEF Jobs
<1> HIDE DEF used, n, new
<1> DEFINE after == [table EXCEPT ![n] = new]
<1>8. after \in [Jobs -> JobType] /\ after[n] = new /\ \A k \in Jobs \ {n} : after[k] = table[k]
  BY <1>3, <1>4 DEF JobTable
<1> HIDE DEF after
<1>9. JobTable(after, live)
  <2>1. \A j \in Jobs : after[j].list # 0 => after[j].list \in live
    BY <1>4, <1>8 DEF JobTable
  <2>2. \A j \in Jobs : after[j].phase = "choosing" => after[j].at # 0
    BY <1>4, <1>8 DEF JobTable
  <2>3. ASSUME NEW j \in Jobs, NEW k \in Jobs,
               after[j].phase \in ActivePhases, after[j].list # 0, after[j].pos # 0,
               after[k].phase # "none", after[k].list = after[j].list, after[k].pos = after[j].pos
        PROVE  k <= j
    <3>1. CASE j = n
      BY <1>6, <1>7, <1>8, <2>3, <3>1
    <3>2. CASE j # n /\ k = n
      BY <1>4, <1>8, <2>3, <3>2
    <3>3. CASE j # n /\ k # n
      BY <1>8, <2>3, <3>3 DEF JobTable
    <3> QED
      BY <3>1, <3>2, <3>3
  <2> QED
    BY <1>8, <2>1, <2>2, <2>3 DEF JobTable
<1> QED
  BY <1>5, <1>9 DEF after, new

LEMMA MovedJob ==
  ASSUME NEW table, NEW live, JobTable(table, live), NEW j \in Jobs, NEW row \in JobType,
         row.list = table[j].list, row.pos = table[j].pos, table[j].phase # "none",
         row.phase \in ActivePhases => table[j].phase \in ActivePhases,
         row.phase = "choosing" => row.at # 0
  PROVE  JobTable([table EXCEPT ![j] = row], live)
<1> DEFINE after == [table EXCEPT ![j] = row]
<1>1. after \in [Jobs -> JobType] /\ after[j] = row /\ \A k \in Jobs \ {j} : after[k] = table[k]
  BY DEF JobTable
<1> HIDE DEF after
<1> QED
  BY <1>1 DEF JobTable, after

LEMMA MovedPhase ==
  ASSUME JobRowsKept, NEW j \in Jobs, NEW from, NEW to, SetPhase(j, from, to), Live \subseteq Live',
         from # "none", to \in {"linked", "ended", "completed", "failed", "stuck"},
         to \in ActivePhases => from \in ActivePhases
  PROVE  JobRowsKept'
<1> DEFINE row == [job[j] EXCEPT !.phase = to]
<1>1. job[j] \in JobType /\ job[j].phase = from /\ job' = [job EXCEPT ![j] = row]
  BY DEF JobRowsKept, JobTable, SetPhase
<1>2. row \in JobType /\ row.list = job[j].list /\ row.pos = job[j].pos /\ row.phase = to
  BY <1>1 DEF JobType, ActivePhases
<1> HIDE DEF row
<1>3. JobTable([job EXCEPT ![j] = row], Live)
  <2>1. row.phase \in ActivePhases => job[j].phase \in ActivePhases
    BY <1>1, <1>2
  <2>2. row.phase # "choosing" /\ job[j].phase # "none"
    BY <1>1, <1>2
  <2> QED
    BY <1>2, <2>1, <2>2, MovedJob DEF JobRowsKept
<1> QED
  BY <1>1, <1>3 DEF JobRowsKept, JobTable

(* A position may be tried again when its newest job has failed: then none   *)
(* is under way.                                                             *)
LEMMA AskedAgain ==
  ASSUME PlaylistsAssumption, JobRowsKept, NEW j \in Jobs, Retry(j)
  PROVE  JobTable(With(job, NewJob(job[j].list, job[j].pos)), Live)
<1>1. job[j].list \in Ids /\ job[j].pos \in Nat /\ (job[j].list # 0 => job[j].list \in Live)
  BY DEF JobRowsKept, JobTable, JobType
<1>2. ASSUME job[j].list # 0, job[j].pos # 0, NEW k \in Jobs,
             job[k].phase \in ActivePhases, job[k].list = job[j].list, job[k].pos = job[j].pos
      PROVE  FALSE
  <2> DEFINE slot == SameSlot(j)
  <2> DEFINE m == Max(slot)
  <2>1. slot \in SUBSET Jobs /\ k \in slot
    BY <1>2 DEF SameSlot, JobRows, ActivePhases
  <2>2. slot \in SUBSET Nat /\ IsFiniteSet(slot)
    <3>1. MaxJobs \in Nat /\ Jobs = 1 .. MaxJobs
      BY DEF Jobs, PlaylistsAssumption
    <3>2. IsFiniteSet(1 .. MaxJobs)
      BY <3>1, FS_Interval
    <3> HIDE DEF slot
    <3>3. IsFiniteSet(slot)
      BY <2>1, <3>1, <3>2, FS_Subset
    <3>4. slot \in SUBSET Nat
      BY <2>1, <3>1
    <3> QED
      BY <3>3, <3>4
  <2>3. job[m].phase = "failed"
    BY <1>2 DEF Retry
  <2>4. \A x \in slot : job[x].phase # "none" /\ job[x].list = job[k].list /\ job[x].pos = job[k].pos
    BY <1>2 DEF SameSlot, JobRows
  <2> HIDE DEF slot
  <2>5. m \in slot /\ m >= k
    BY <2>1, <2>2, Largest
  <2>6. m <= k
    <3> HIDE DEF m
    <3> QED
      BY <1>2, <2>1, <2>4, <2>5 DEF JobRowsKept, JobTable
  <2>7. m = k
    <3> HIDE DEF m
    <3> QED
      BY <2>1, <2>2, <2>5, <2>6
  <2> QED
    BY <1>2, <2>3, <2>7 DEF ActivePhases
<1> QED
  BY <1>1, <1>2, AddedJob DEF Retry, JobRowsKept

LEMMA RetriedJobs ==
  ASSUME PlaylistsAssumption, JobRowsKept, NEW j \in Jobs, Retry(j), Live \subseteq Live'
  PROVE  JobRowsKept'
<1> DEFINE asked == With(job, NewJob(job[j].list, job[j].pos))
<1>1. JobTable(asked, Live)
  BY AskedAgain
<1>2. job' = Pruned(asked)
  BY DEF Retry
<1> HIDE DEF asked
<1>3. JobTable(Pruned(asked), Live)
  BY <1>1, PrunedJobs
<1> QED
  BY <1>2, <1>3 DEF JobRowsKept, JobTable

LEMMA StartedJob ==
  ASSUME PlaylistsAssumption, JobRowsKept, NEW u \in Users, NEW l \in Lists, StartDownload(u, l),
         Live \subseteq Live'
  PROVE  JobRowsKept'
<1>1. JobTable(Pruned(job), Live)
  BY PrunedJobs DEF JobRowsKept
<1>2. l \in Live /\ l \in Ids /\ HasRoom(Pruned(job)) /\ job' = With(Pruned(job), NewJob(l, 0))
  BY DEF StartDownload, Ids
<1>3. JobTable(With(Pruned(job), NewJob(l, 0)), Live)
  BY <1>1, <1>2, AddedJob
<1> QED
  BY <1>2, <1>3 DEF JobRowsKept, JobTable

(* The new list of a collection has no job yet, and one for each position.   *)
LEMMA ImportedJobs ==
  ASSUME PlaylistsAssumption, ListRows, JobRowsKept, NEW u \in Users, ImportCollection(u), ListRows',
         Live \subseteq Live'
  PROVE  JobRowsKept'
<1> DEFINE first == NextId(JobRows)
<1>1. PICK l \in Lists : \E n \in Batches :
        /\ first + n - 1 \in Jobs
        /\ NewList(u, l)
        /\ job' = [j \in Jobs |-> IF j \in first .. (first + n - 1)
                                  THEN NewJob(l, j - first + 1) ELSE job[j]]
  BY DEF ImportCollection
<1>2. PICK n \in Batches :
        /\ first + n - 1 \in Jobs
        /\ NewList(u, l)
        /\ job' = [j \in Jobs |-> IF j \in first .. (first + n - 1)
                                  THEN NewJob(l, j - first + 1) ELSE job[j]]
  BY <1>1
<1> DEFINE new == first .. (first + n - 1)
<1>3. l \notin Live /\ l \in Live'
  <2>1. Live \in SUBSET (1 .. MaxLists) /\ MaxLists \in Nat
    BY DEF Live, Lists, PlaylistsAssumption
  <2>2. \A y \in Live : y < NextId(Live)
    BY <2>1, NewIds
  <2>3. l = NextId(Live)
    BY <1>2 DEF NewList, NewRow
  <2>4. l \notin Live
    BY <2>2, <2>3 DEF Lists
  <2>5. list' = [list EXCEPT ![l] = [[NoList EXCEPT !.kind = "own", !.owner = u] EXCEPT !.born = births + 1]]
    BY <1>2 DEF NewList, NewRow
  <2>6. list'[l].kind = "own"
    BY <2>5 DEF NoList, ListRows
  <2> QED
    BY <2>4, <2>6 DEF Live
<1>4. first \in Nat \ {0} /\ \A j \in Jobs : j \in Nat /\ (j \in new => j - first + 1 \in Nat \ {0})
  <2>1. JobRows \in SUBSET (1 .. MaxJobs) /\ MaxJobs \in Nat
    BY DEF JobRows, Jobs, PlaylistsAssumption
  <2>2. first \in Nat \ {0}
    BY <2>1, NewIds
  <2> HIDE DEF first
  <2> QED
    BY <2>2 DEF Jobs
<1> HIDE DEF first
<1>5. \A j \in Jobs :
        /\ j \in new => /\ job'[j] \in JobType /\ job'[j].phase = "pending"
                        /\ job'[j].list = l /\ job'[j].pos = j - first + 1
        /\ j \notin new => job'[j] = job[j]
  <2>1. l \in Ids /\ "pending" \in ActivePhases
    BY DEF Ids, ActivePhases
  <2> QED
    BY <1>2, <1>4, <2>1 DEF NewJob, NoJob, JobType
<1> HIDE DEF new
<1>6. job' \in [Jobs -> JobType]
  BY <1>2, <1>5 DEF JobRowsKept, JobTable
<1>7. \A j \in Jobs : job'[j].list # 0 => job'[j].list \in Live'
  BY <1>3, <1>5 DEF JobRowsKept, JobTable
<1>8. \A j \in Jobs : job'[j].phase = "choosing" => job'[j].at # 0
  BY <1>5 DEF JobRowsKept, JobTable
<1>9. ASSUME NEW j \in Jobs, NEW k \in Jobs,
             job'[j].phase \in ActivePhases, job'[j].list # 0, job'[j].pos # 0,
             job'[k].phase # "none", job'[k].list = job'[j].list, job'[k].pos = job'[j].pos
      PROVE  k <= j
  <2>1. CASE j \in new /\ k \in new
    BY <1>4, <1>5, <1>9, <2>1
  <2>2. CASE j \in new /\ k \notin new
    BY <1>3, <1>5, <1>9, <2>2 DEF JobRowsKept, JobTable
  <2>3. CASE j \notin new /\ k \in new
    BY <1>3, <1>5, <1>9, <2>3 DEF JobRowsKept, JobTable
  <2>4. CASE j \notin new /\ k \notin new
    BY <1>5, <1>9, <2>4 DEF JobRowsKept, JobTable
  <2> QED
    BY <2>1, <2>2, <2>3, <2>4
<1> QED
  BY <1>6, <1>7, <1>8, <1>9 DEF JobRowsKept, JobTable

LEMMA ChosenJob ==
  ASSUME ItemRows, JobRowsKept, NEW j \in Jobs, NEW t \in Tracks, Choose(j, t), Live \subseteq Live'
  PROVE  JobRowsKept'
<1>1. job[j] \in JobType /\ job[j].phase = "pending" /\ "pending" \in ActivePhases
  BY DEF JobRowsKept, JobTable, Choose, ActivePhases
<1>2. CASE job' = [job EXCEPT ![j].phase = "linked", ![j].track = t]
  <2> DEFINE row == [job[j] EXCEPT !.phase = "linked", !.track = t]
  <2>1. job' = [job EXCEPT ![j] = row]
    BY <1>1, <1>2 DEF JobRowsKept, JobTable
  <2>2. row \in JobType /\ row.list = job[j].list /\ row.pos = job[j].pos /\ row.phase = "linked"
    BY <1>1 DEF JobType, ActivePhases
  <2> HIDE DEF row
  <2>3. JobTable([job EXCEPT ![j] = row], Live)
    BY <1>1, <2>2, MovedJob DEF JobRowsKept
  <2> QED
    BY <2>1, <2>3 DEF JobRowsKept, JobTable
<1>3. CASE job' = [job EXCEPT ![j].phase = "choosing", ![j].track = t, ![j].at = Place(j)]
  <2> DEFINE at == Place(j)
  <2>1. at \in Nat \ {0}
    <3> DEFINE used == Positions(job[j].list)
    <3>1. IsFiniteSet(used) /\ used \in SUBSET Nat
      BY PositionsCounted
    <3>2. MaxOf(used) \in Nat
      BY <3>1, LargestOrZero
    <3>3. job[j].pos \in Nat
      BY <1>1 DEF JobType
    <3> QED
      BY <3>2, <3>3 DEF Place
  <2> DEFINE row == [job[j] EXCEPT !.phase = "choosing", !.track = t, !.at = at]
  <2>2. job' = [job EXCEPT ![j] = row]
    BY <1>1, <1>3 DEF JobRowsKept, JobTable
  <2> HIDE DEF at
  <2>3. /\ row \in JobType /\ row.list = job[j].list /\ row.pos = job[j].pos
        /\ row.phase = "choosing" /\ row.at = at
    BY <1>1, <2>1 DEF JobType, ActivePhases
  <2> HIDE DEF row
  <2>4. JobTable([job EXCEPT ![j] = row], Live)
    BY <1>1, <2>1, <2>3, MovedJob DEF JobRowsKept
  <2> QED
    BY <2>2, <2>4 DEF JobRowsKept, JobTable
<1> QED
  BY <1>2, <1>3 DEF Choose

LEMMA RestartedJobs ==
  ASSUME JobRowsKept, Restart, Live \subseteq Live'
  PROVE  JobRowsKept'
<1>1. \A j \in Jobs : job'[j] = CASE job[j].phase \in ActivePhases -> [job[j] EXCEPT !.phase = "failed"]
                                  [] job[j].phase = "ended" -> [job[j] EXCEPT !.phase = "completed"]
                                  [] OTHER -> job[j]
  BY DEF Restart
<1>2. \A j \in Jobs : job[j] \in JobType /\ (job[j].phase = "ended" => job[j].phase \notin ActivePhases)
  BY DEF JobRowsKept, JobTable, ActivePhases
<1>3. \A j \in Jobs : /\ job'[j] \in JobType /\ job'[j].phase \notin ActivePhases
                      /\ job'[j].list = job[j].list
  <2> SUFFICES ASSUME NEW j \in Jobs
               PROVE  /\ job'[j] \in JobType /\ job'[j].phase \notin ActivePhases
                      /\ job'[j].list = job[j].list
    OBVIOUS
  <2>1. CASE job[j].phase \in ActivePhases
    BY <1>1, <1>2, <2>1 DEF JobType, ActivePhases
  <2>2. CASE job[j].phase = "ended"
    BY <1>1, <1>2, <2>2 DEF JobType, ActivePhases
  <2>3. CASE job[j].phase \notin ActivePhases /\ job[j].phase # "ended"
    BY <1>1, <1>2, <2>3
  <2> QED
    BY <2>1, <2>2, <2>3
<1>4. job' \in [Jobs -> JobType]
  BY <1>3 DEF Restart
<1> QED
  BY <1>3, <1>4 DEF JobRowsKept, JobTable, ActivePhases

LEMMA RequestJobs ==
  ASSUME PlaylistsAssumption, ListInv, Request, Live \subseteq Live', ListRows'
  PROVE  JobRowsKept'
<1> USE DEF ListInv
<1>1. ASSUME NEW u \in Users, NEW l \in Lists,
             Read(u, l) \/ ReorderSeen(u, l) \/ ReorderBlind(u, l) \/ Publish(u, l) \/ Copy(u, l)
      PROVE  JobRowsKept'
  <2>1. UNCHANGED job
    BY <1>1 DEF Read, ReorderSeen, ReorderBlind, Reorder, Edit, Publish, Copy
  <2> QED
    BY <2>1, JobsStay
<1>2. ASSUME NEW u \in Users, NEW l \in Lists, StartDownload(u, l)
      PROVE  JobRowsKept'
  BY <1>2, StartedJob
<1>3. ASSUME NEW u \in Users, NEW l \in Lists,
             \/ \E t \in Tracks : Add(u, l, t)
             \/ \E i \in items : Remove(u, l, i)
             \/ \E m \in Users : AddCollaborator(u, l, m) \/ RemoveCollaborator(u, l, m)
      PROVE  JobRowsKept'
  <2>1. UNCHANGED job
    BY <1>3 DEF Add, AddAt, Remove, Edit, AddCollaborator, RemoveCollaborator, Share
  <2> QED
    BY <2>1, JobsStay
<1>4. ASSUME NEW u \in Users, NEW l \in Lists, NEW h \in Handlers,
             \/ AskDelete(u, l, h) \/ AskRename(u, l, h) \/ AskCopy(u, l, h) \/ AskInvite(u, l, h)
             \/ \E t \in Tracks : AskAdd(u, l, t, h)
      PROVE  JobRowsKept'
  <2>1. UNCHANGED job
    BY <1>4 DEF AskDelete, AskRename, AskCopy, AskInvite, AskAdd
  <2> QED
    BY <2>1, JobsStay
<1>5. ASSUME NEW u \in Users, ImportCollection(u)
      PROVE  JobRowsKept'
  BY <1>5, ImportedJobs
<1>6. ASSUME NEW u \in Users, CreateSmart(u) \/ CopyRemote(u) \/ SaveTopSongs(u)
      PROVE  JobRowsKept'
  <2>1. UNCHANGED job
    BY <1>6 DEF CreateSmart, CopyRemote, SaveTopSongs, Edit
  <2> QED
    BY <2>1, JobsStay
<1>7. ASSUME NEW u \in Users, NEW h \in Handlers, SaveMix(u, h) \/ \E r \in Requests : AskCreate(u, r, h)
      PROVE  JobRowsKept'
  <2>1. UNCHANGED job
    BY <1>7 DEF SaveMix, AskCreate
  <2> QED
    BY <2>1, JobsStay
<1>8. ASSUME \/ \E l \in Lists : RefreshSmart(l)
             \/ \E t \in Tracks : DeleteTrack(t)
      PROVE  JobRowsKept'
  <2>1. UNCHANGED job
    BY <1>8 DEF RefreshSmart, DeleteTrack
  <2> QED
    BY <2>1, JobsStay
<1>9. ASSUME NEW j \in Jobs, Retry(j)
      PROVE  JobRowsKept'
  BY <1>9, RetriedJobs
<1> QED
  BY <1>1, <1>2, <1>3, <1>4, <1>5, <1>6, <1>7, <1>8, <1>9, Zenon DEF Request

LEMMA ProgressJobs ==
  ASSUME PlaylistsAssumption, ListInv, Progress, ~\E h \in Handlers : Delete(h), Live \subseteq Live'
  PROVE  JobRowsKept'
<1> USE DEF ListInv
<1>1. ASSUME NEW h \in Handlers,
             \/ Create(h) \/ AddRemote(h) \/ Rename(h) \/ CopyAgain(h)
             \/ Invite(h) \/ FillMix(h) \/ FileMix(h)
      PROVE  JobRowsKept'
  <2>1. UNCHANGED job
    BY <1>1 DEF Create, Insert, AddRemote, AddAt, Edit, Rename, CopyAgain, Invite, Share, FillMix, FileMix
  <2> QED
    BY <2>1, JobsStay
<1>2. ASSUME NEW j \in Jobs, Link(j) \/ LinkFails(j) \/ End(j) \/ Sync(j) \/ Fail(j)
      PROVE  JobRowsKept'
  <2>1. CASE SetPhase(j, "choosing", "linked")
    BY <2>1, MovedPhase DEF ActivePhases
  <2>2. CASE SetPhase(j, "choosing", "failed")
    BY <2>2, MovedPhase DEF ActivePhases
  <2>3. CASE SetPhase(j, "choosing", "stuck")
    BY <2>3, MovedPhase DEF ActivePhases
  <2>4. CASE SetPhase(j, "linked", "ended")
    BY <2>4, MovedPhase DEF ActivePhases
  <2>5. CASE SetPhase(j, "ended", "completed")
    BY <2>5, MovedPhase DEF ActivePhases
  <2>6. CASE SetPhase(j, "pending", "failed")
    BY <2>6, MovedPhase DEF ActivePhases
  <2>7. CASE SetPhase(j, "linked", "failed")
    BY <2>7, MovedPhase DEF ActivePhases
  <2> QED
    BY <1>2, <2>1, <2>2, <2>3, <2>4, <2>5, <2>6, <2>7 DEF Link, LinkFails, End, Sync, Fail
<1>3. ASSUME NEW j \in Jobs, NEW t \in Tracks, Choose(j, t)
      PROVE  JobRowsKept'
  BY <1>3, ChosenJob
<1>4. CASE Prune
  <2>1. job' = Pruned(job)
    BY <1>4 DEF Prune
  <2>2. JobTable(Pruned(job), Live)
    BY PrunedJobs DEF JobRowsKept
  <2> QED
    BY <2>1, <2>2 DEF JobRowsKept, JobTable
<1> QED
  BY <1>1, <1>2, <1>3, <1>4, Zenon DEF Progress, HandlerStep, JobStep

LEMMA JobsStep ==
  ASSUME PlaylistsAssumption, ListInv, ListStep
  PROVE  JobRowsKept'
<1> USE DEF ListInv
<1>1. CASE \E S \in SUBSET Live : DropLists(S)
  BY <1>1, JobsForget
<1>2. CASE Live \subseteq Live' /\ ~\E S \in SUBSET Live : DropLists(S)
  <2>1. ListRows'
    BY RowsStep DEF RowsMoved
  <2>2. ~LoseLists
    BY <1>2 DEF LoseLists
  <2>3. ~\E h \in Handlers : Delete(h)
    BY <1>2 DEF Delete
  <2>4. CASE Request
    BY <1>2, <2>1, <2>4, RequestJobs
  <2>5. CASE Progress
    BY <1>2, <2>3, <2>5, ProgressJobs
  <2>6. CASE Restart
    BY <1>2, <2>6, RestartedJobs
  <2>7. CASE RefillSmart \/ UNCHANGED <<library, items, listVars, job, handler, seen, stale>>
    BY <1>2, <2>7, JobsStay DEF RefillSmart, RefreshSmartOf
  <2> QED
    BY <2>2, <2>4, <2>5, <2>6, <2>7 DEF ListStep
<1> QED
  BY <1>1, <1>2, RowsStep DEF RowsMoved

-----------------------------------------------------------------------------
(* Handlers that wait.                                                       *)

LEMMA Suspended ==
  ASSUME Waiting, NEW h \in Handlers, NEW request \in HandlerType, Suspend(h, request),
         request.op = "add" => request.track \in Remote,
         request.op = "create" => request.user \in Users /\ request.request \in Requests
  PROVE  Waiting'
BY DEF Waiting, Suspend

LEMMA Resumed ==
  ASSUME Waiting, NEW h \in Handlers, NEW op, Resume(h, op)
  PROVE  Waiting'
<1>1. Idle \in HandlerType /\ Idle.op = "idle"
  BY DEF Idle, HandlerType, Ids
<1> QED
  BY <1>1 DEF Waiting, Resume

LEMMA HandlersStep ==
  ASSUME PlaylistsAssumption, ListInv, ListStep
  PROVE  Waiting'
<1> USE DEF ListInv
<1>1. ASSUME UNCHANGED handler
      PROVE  Waiting'
  BY <1>1 DEF Waiting
<1>2. ASSUME NEW u \in Users, NEW l \in Lists, NEW h \in Handlers,
             AskDelete(u, l, h) \/ AskRename(u, l, h) \/ AskInvite(u, l, h)
      PROVE  Waiting'
  <2>1. PICK op \in {"delete", "rename", "invite"} :
          Suspend(h, [Idle EXCEPT !.op = op, !.user = u, !.list = l])
    BY <1>2, Zenon DEF AskDelete, AskRename, AskInvite
  <2> DEFINE request == [Idle EXCEPT !.op = op, !.user = u, !.list = l]
  <2>2. request \in HandlerType /\ request.op = op
    BY DEF Idle, HandlerType, Ids
  <2> HIDE DEF request
  <2> QED
    BY <2>1, <2>2, Suspended DEF request
<1>11. ASSUME NEW u \in Users, NEW s \in Lists, NEW h \in Handlers, AskCopy(u, s, h)
       PROVE  Waiting'
  <2>1. PICK l \in Copies(u, s) :
          Suspend(h, [Idle EXCEPT !.op = "copy", !.user = u, !.list = l, !.source = s])
    BY <1>11 DEF AskCopy
  <2> DEFINE request == [Idle EXCEPT !.op = "copy", !.user = u, !.list = l, !.source = s]
  <2>2. request \in HandlerType /\ request.op = "copy"
    BY DEF Idle, HandlerType, Ids, Copies, Live
  <2> HIDE DEF request
  <2> QED
    BY <2>1, <2>2, Suspended DEF request
<1>3. ASSUME NEW u \in Users, NEW l \in Lists, NEW t \in Tracks, NEW h \in Handlers, AskAdd(u, l, t, h)
      PROVE  Waiting'
  <2> DEFINE request == [Idle EXCEPT !.op = "add", !.user = u, !.list = l, !.track = t]
  <2>1. Suspend(h, request) /\ t \in Remote
    BY <1>3 DEF AskAdd
  <2>2. request \in HandlerType /\ request.op = "add" /\ request.track = t
    BY DEF Idle, HandlerType, Ids
  <2> HIDE DEF request
  <2> QED
    BY <2>1, <2>2, Suspended
<1>4. ASSUME NEW u \in Users, NEW h \in Handlers, SaveMix(u, h)
      PROVE  Waiting'
  <2>1. PICK l \in Lists : Suspend(h, [Idle EXCEPT !.op = "mix", !.user = u, !.list = l])
    BY <1>4 DEF SaveMix
  <2> DEFINE request == [Idle EXCEPT !.op = "mix", !.user = u, !.list = l]
  <2>2. request \in HandlerType /\ request.op = "mix"
    BY DEF Idle, HandlerType, Ids
  <2> HIDE DEF request
  <2> QED
    BY <2>1, <2>2, Suspended DEF request
<1>5. ASSUME NEW u \in Users, NEW r \in Requests, NEW h \in Handlers, AskCreate(u, r, h)
      PROVE  Waiting'
  <2> DEFINE request == [Idle EXCEPT !.op = "create", !.user = u, !.request = r]
  <2>1. Suspend(h, request)
    BY <1>5 DEF AskCreate
  <2>2. request \in HandlerType /\ request.op = "create" /\ request.user = u /\ request.request = r
    BY DEF Idle, HandlerType, Ids
  <2> HIDE DEF request
  <2> QED
    BY <2>1, <2>2, Suspended
<1>6. CASE Request
  <2>1. ASSUME NEW u \in Users, NEW l \in Lists,
               \/ Read(u, l) \/ ReorderSeen(u, l) \/ ReorderBlind(u, l)
               \/ Publish(u, l) \/ Copy(u, l) \/ StartDownload(u, l)
               \/ \E t \in Tracks : Add(u, l, t)
               \/ \E i \in items : Remove(u, l, i)
               \/ \E m \in Users : AddCollaborator(u, l, m) \/ RemoveCollaborator(u, l, m)
        PROVE  UNCHANGED handler
    BY <2>1 DEF Read, ReorderSeen, ReorderBlind, Reorder, Publish, Copy, StartDownload, Add, Remove,
                AddCollaborator, RemoveCollaborator
  <2>2. ASSUME \/ \E u \in Users : ImportCollection(u) \/ CreateSmart(u) \/ CopyRemote(u) \/ SaveTopSongs(u)
               \/ \E l \in Lists : RefreshSmart(l)
               \/ \E t \in Tracks : DeleteTrack(t)
               \/ \E j \in Jobs : Retry(j)
        PROVE  UNCHANGED handler
    BY <2>2 DEF ImportCollection, CreateSmart, CopyRemote, SaveTopSongs, RefreshSmart, DeleteTrack, Retry
  <2> QED
    BY <1>1, <1>2, <1>3, <1>4, <1>5, <1>6, <1>11, <2>1, <2>2, Zenon DEF Request
<1>7. ASSUME NEW h \in Handlers, HandlerStep(h)
      PROVE  Waiting'
  <2>1. CASE \E op \in {"create", "add", "delete", "rename", "copy", "invite", "mixed"} : Resume(h, op)
    BY <2>1, Resumed
  <2>2. CASE FillMix(h)
    <3>1. CASE handler' = [handler EXCEPT ![h].op = "mixed"]
      <4> DEFINE row == [handler[h] EXCEPT !.op = "mixed"]
      <4>1. handler[h] \in HandlerType
        BY DEF Waiting
      <4>2. row \in HandlerType /\ row.op = "mixed"
        BY <4>1 DEF HandlerType
      <4>3. handler' = [handler EXCEPT ![h] = row]
        BY <3>1
      <4> HIDE DEF row
      <4> QED
        BY <4>2, <4>3 DEF Waiting
    <3>2. CASE handler' = [handler EXCEPT ![h] = Idle]
      BY <2>2, <3>2, Resumed DEF FillMix, Resume
    <3> QED
      BY <2>2, <3>1, <3>2 DEF FillMix
  <2> QED
    BY <1>7, <2>1, <2>2, Zenon DEF HandlerStep, Create, AddRemote, Delete, Rename, CopyAgain, Invite, FileMix
<1>8. CASE Progress
  <2>1. ASSUME Prune \/ \E j \in Jobs : JobStep(j)
        PROVE  UNCHANGED handler
    BY <2>1 DEF Prune, JobStep, Link, LinkFails, End, Sync, Fail, Choose
  <2> QED
    BY <1>1, <1>7, <1>8, <2>1, Zenon DEF Progress
<1>9. CASE Restart
  <2>1. Idle \in HandlerType /\ Idle.op = "idle"
    BY DEF Idle, HandlerType, Ids
  <2> QED
    BY <1>9, <2>1 DEF Restart, Waiting
<1>10. CASE LoseLists \/ RefillSmart \/ UNCHANGED <<library, items, listVars, job, handler, seen, stale>>
  <2>1. UNCHANGED handler
    BY <1>10 DEF LoseLists, RefillSmart, RefreshSmartOf
  <2> QED
    BY <1>1, <2>1
<1> QED
  BY <1>6, <1>8, <1>9, <1>10 DEF ListStep

-----------------------------------------------------------------------------
(* The lists whose file is behind: what waits or runs for a list ends by     *)
(* writing its file, by a note that it was cut off, or with the list.        *)

LEMMA CutOffStays ==
  ASSUME UNCHANGED <<job, handler>>
  PROVE  CutOff' = CutOff
BY DEF CutOff

LEMMA CutOffSuspended ==
  ASSUME Waiting, NEW h \in Handlers, NEW request, Suspend(h, request), UNCHANGED job
  PROVE  CutOff \subseteq CutOff' /\ (request.op \in {"delete", "copy"} => request.list \in CutOff')
<1>1. handler' = [handler EXCEPT ![h] = request] /\ handler[h].op = "idle"
  BY DEF Suspend, Free, Idle
<1> QED
  BY <1>1 DEF CutOff, Waiting

LEMMA CutOffResumed ==
  ASSUME Waiting, NEW h \in Handlers, NEW op, Resume(h, op), UNCHANGED job
  PROVE  /\ CutOff \subseteq CutOff' \cup {handler[h].list}
         /\ op \notin {"delete", "copy", "mixed"} => CutOff \subseteq CutOff'
<1>1. handler' = [handler EXCEPT ![h] = Idle] /\ handler[h].op = op
  BY DEF Resume
<1> QED
  BY <1>1 DEF CutOff, Waiting

LEMMA CutOffMixed ==
  ASSUME Waiting, NEW h \in Handlers, FillMix(h)
  PROVE  CutOff \subseteq CutOff' /\ (handler[h].list \in Live => handler[h].list \in CutOff')
<1>1. UNCHANGED job /\ handler[h].op = "mix"
  BY DEF FillMix
<1>2. CASE handler[h].list \in Live
  <2>1. handler' = [handler EXCEPT ![h].op = "mixed"]
    BY <1>2 DEF FillMix
  <2>2. handler'[h].op = "mixed" /\ handler'[h].list = handler[h].list
        /\ \A k \in Handlers \ {h} : handler'[k] = handler[k]
    BY <2>1 DEF Waiting, HandlerType
  <2> QED
    BY <1>1, <2>2 DEF CutOff
<1>3. CASE handler[h].list \notin Live
  <2>1. Resume(h, "mix")
    BY <1>1, <1>3 DEF FillMix, Resume
  <2> QED
    BY <1>1, <1>3, <2>1, CutOffResumed
<1> QED
  BY <1>2, <1>3

LEMMA CutOffPhase ==
  ASSUME JobRowsKept, NEW j \in Jobs, NEW from, NEW to, SetPhase(j, from, to), UNCHANGED handler
  PROVE  /\ CutOff \subseteq CutOff' \cup {job[j].list}
         /\ from \notin {"linked", "ended"} \/ to \in {"linked", "ended"} => CutOff \subseteq CutOff'
         /\ to \in {"linked", "ended"} => job[j].list \in CutOff'
<1>1. job[j] \in JobType /\ job[j].phase = from
  BY DEF JobRowsKept, JobTable, SetPhase
<1>2. job'[j].phase = to /\ job'[j].list = job[j].list /\ \A k \in Jobs \ {j} : job'[k] = job[k]
  BY <1>1 DEF JobRowsKept, JobTable, SetPhase, JobType
<1> QED
  BY <1>1, <1>2 DEF CutOff

LEMMA CutOffChosen ==
  ASSUME JobRowsKept, NEW j \in Jobs, NEW t, Choose(j, t)
  PROVE  CutOff \subseteq CutOff'
<1>1. \A k \in Jobs \ {j} : job'[k] = job[k]
  BY DEF Choose, JobRowsKept, JobTable
<1>2. job[j].phase = "pending" /\ UNCHANGED handler
  BY DEF Choose
<1> QED
  BY <1>1, <1>2 DEF CutOff

(* What pruning cuts off is noted.                                           *)
LEMMA CutOffPruned ==
  ASSUME NEW table, NEW k \in Jobs, table[k].phase \in {"linked", "ended"}
  PROVE  Pruned(table)[k] = table[k] \/ table[k].list \in CutByPruning(table)
<1>1. CASE k \notin Prunable(table)
  BY <1>1 DEF Pruned
<1>2. CASE k \in Prunable(table)
  BY <1>2 DEF Prunable, Over, CutByPruning
<1> QED
  BY <1>1, <1>2

LEMMA AddedKeeps ==
  ASSUME PlaylistsAssumption, NEW table, NEW live, JobTable(table, live), HasRoom(table), NEW new,
         NEW k \in Jobs, table[k].phase # "none"
  PROVE  With(table, new)[k] = table[k]
<1> DEFINE used == {j \in Jobs : table[j].phase # "none"}
<1>1. used \in SUBSET (1 .. MaxJobs) /\ MaxJobs \in Nat
  BY DEF PlaylistsAssumption, Jobs
<1>2. \A y \in used : y < NextId(used)
  <2> HIDE DEF used
  <2> QED
    BY <1>1, NewIds
<1>3. k # NextId(used)
  BY <1>2 DEF Jobs
<1> QED
  BY <1>3 DEF With, JobTable

LEMMA CutOffImported ==
  ASSUME PlaylistsAssumption, JobRowsKept, NEW u \in Users, ImportCollection(u)
  PROVE  CutOff \subseteq CutOff'
<1> DEFINE first == NextId(JobRows)
<1>1. PICK l \in Lists : \E n \in Batches :
        job' = [j \in Jobs |-> IF j \in first .. (first + n - 1)
                               THEN NewJob(l, j - first + 1) ELSE job[j]]
  BY DEF ImportCollection
<1>2. PICK n \in Batches :
        job' = [j \in Jobs |-> IF j \in first .. (first + n - 1)
                               THEN NewJob(l, j - first + 1) ELSE job[j]]
  BY <1>1
<1>3. JobRows \in SUBSET (1 .. MaxJobs) /\ MaxJobs \in Nat
  BY DEF JobRows, Jobs, PlaylistsAssumption
<1>4. first \in Nat /\ \A k \in JobRows : k < first
  BY <1>3, NewIds
<1> HIDE DEF first
<1>5. n \in Nat /\ \A k \in JobRows : k \in Nat
  BY <1>3 DEF PlaylistsAssumption
<1>6. \A k \in JobRows : k \notin first .. (first + n - 1)
  BY <1>4, <1>5
<1>7. \A k \in JobRows : job'[k] = job[k]
  BY <1>2, <1>6 DEF JobRows
<1>8. UNCHANGED handler
  BY DEF ImportCollection
<1> QED
  BY <1>7, <1>8 DEF CutOff, JobRows

-----------------------------------------------------------------------------
(* The forms a step gives the files.                                         *)

LEMMA FilesStay ==
  ASSUME Files, UNCHANGED <<export, onDisk>>, Unfiled \subseteq Unfiled', stale' \subseteq Ids,
         \A i \in items' : i \in items \/ i.list \in Unfiled'
  PROVE  Files'
BY DEF Files, Filed

LEMMA FilesLost ==
  ASSUME Files, UNCHANGED <<export, onDisk, stale>>,
         \A i \in items' : i \in items /\ (i.list \in Unfiled => i.list \in Unfiled')
  PROVE  Files'
BY DEF Files, Filed

LEMMA ValidLines ==
  ASSUME ItemRows, NEW l, NEW of, Valid(l, of)
  PROVE  /\ Lines(of) \subseteq Tracks \X Nat
         /\ \A i \in of : i.track \notin Remote => <<i.track, i.pos>> \in Lines(of)
BY DEF Valid, Lines, ItemRows

LEMMA Rewrites ==
  ASSUME NEW l, NEW of, NEW files, NEW disk, Write(l, of, files, disk), CutOff \subseteq CutOff' \cup {l}
  PROVE  Unfiled \subseteq Unfiled' \cup {l}
BY DEF Write, Unfiled

(* Whether it was written or not, the file of one list has been touched, and *)
(* it is the list's or the list is noted.                                    *)
LEMMA FilesWritten ==
  ASSUME ItemRows, Files, NEW l \in Lists, NEW of, Valid(l, of),
         NEW files \in {export, Without(l)}, NEW disk \in {onDisk, onDisk \ {l}}, Write(l, of, files, disk),
         CutOff \subseteq CutOff' \cup {l},
         \A i \in items' : i \in of \/ (i \in items /\ i.list # l)
  PROVE  Files'
<1>1. /\ Lines(of) \subseteq Tracks \X Nat
      /\ \A i \in of : i.track \notin Remote => <<i.track, i.pos>> \in Lines(of)
  BY ValidLines
<1>2. /\ files \in [Lists -> SUBSET (Tracks \X Nat)] /\ \A k \in Lists \ {l} : files[k] = export[k]
      /\ disk \subseteq Lists /\ onDisk \subseteq disk \cup {l}
  BY DEF Files, Without
<1>3. \/ export' = [files EXCEPT ![l] = Lines(of)] /\ onDisk' = disk \cup {l} /\ stale' = stale \ {l}
      \/ export' = files /\ onDisk' \in {disk, disk \cup {l}} /\ stale' = stale \cup {l}
  BY DEF Write
<1>4. /\ export' \in [Lists -> SUBSET (Tracks \X Nat)] /\ onDisk' \subseteq Lists /\ stale' \subseteq Ids
      /\ \A k \in Lists \ {l} : export'[k] = export[k]
      /\ onDisk \subseteq onDisk' \cup {l}
  BY <1>1, <1>2, <1>3 DEF Files, Ids
<1>5. l \in stale' \/ (export'[l] = Lines(of) /\ l \in onDisk')
  BY <1>2, <1>3
<1>6. \A i \in of : i.list = l
  BY DEF Valid
<1>7. Filed'
  <2> SUFFICES ASSUME NEW i \in items', i.list \notin Unfiled'
               PROVE  i.list \in onDisk' /\ (i.track \notin Remote => <<i.track, i.pos>> \in export'[i.list])
    BY DEF Filed
  <2>1. CASE i \in of
    BY <1>1, <1>5, <1>6, <2>1 DEF Unfiled
  <2>2. CASE i \in items /\ i.list # l
    <3>1. i.list \notin Unfiled /\ i.list \in Lists
      BY <2>2, Rewrites DEF ItemRows, ItemType
    <3> QED
      BY <1>4, <2>2, <3>1 DEF Files, Filed
  <2> QED
    BY <2>1, <2>2
<1> QED
  BY <1>4, <1>7 DEF Files

LEMMA FilesExport ==
  ASSUME ItemRows, Files, NEW l \in Lists, NEW of, Valid(l, of), Export(l, of),
         CutOff \subseteq CutOff' \cup {l},
         \A i \in items' : i \in of \/ (i \in items /\ i.list # l)
  PROVE  Files'
BY FilesWritten DEF Export

LEMMA FilesEdit ==
  ASSUME ItemRows, Files, NEW l \in Live, NEW new, Valid(l, new), Edit(l, new), CutOff \subseteq CutOff'
  PROVE  Files'
<1>1. Export(l, new) /\ items' = (items \ Of(l)) \cup new /\ l \in Lists
  BY DEF Edit, Live
<1>2. CutOff \subseteq CutOff' \cup {l}
  OBVIOUS
<1>3. \A i \in items' : i \in new \/ (i \in items /\ i.list # l)
  BY <1>1 DEF Of
<1> QED
  BY <1>1, <1>2, <1>3, FilesExport

LEMMA FilesRefill ==
  ASSUME ItemRows, Files, NEW l \in Live, NEW new, Valid(l, new), Refill(l, new),
         CutOff \subseteq CutOff' \cup {l}
  PROVE  Files'
<1>1. Export(l, new) /\ items' = (items \ Of(l)) \cup new /\ l \in Lists
  BY DEF Refill, Live
<1>2. \A i \in items' : i \in new \/ (i \in items /\ i.list # l)
  BY <1>1 DEF Of
<1> QED
  BY <1>1, <1>2, FilesExport

LEMMA NewRowIsNew ==
  ASSUME PlaylistsAssumption, ItemRows, NEW l, NEW row, NEW of, NewRow(l, row, of)
  PROVE  l \in Lists /\ l \notin Live /\ \A i \in items : i.list # l
<1>1. Live \in SUBSET (1 .. MaxLists) /\ MaxLists \in Nat
  BY DEF Live, Lists, PlaylistsAssumption
<1>2. \A y \in Live : y < NextId(Live)
  BY <1>1, NewIds
<1>3. l = NextId(Live) /\ l \in Lists
  BY DEF NewRow
<1>4. l \notin Live
  BY <1>2, <1>3 DEF Lists
<1> QED
  BY <1>3, <1>4 DEF ItemRows, NoDanglingItems

LEMMA FilesMade ==
  ASSUME PlaylistsAssumption, ItemRows, Files, NEW l, NEW row, NEW of, Valid(l, of),
         MakeList(l, row, of), CutOff \subseteq CutOff'
  PROVE  Files'
<1>1. Write(l, of, Without(l), onDisk \ {l}) /\ NewRow(l, row, of) /\ items' = items \cup of
  BY DEF MakeList, NewRow
<1>2. l \in Lists /\ \A i \in items : i.list # l
  BY <1>1, NewRowIsNew
<1>3. CutOff \subseteq CutOff' \cup {l}
  OBVIOUS
<1>4. \A i \in items' : i \in of \/ (i \in items /\ i.list # l)
  BY <1>1, <1>2
<1> QED
  BY <1>1, <1>2, <1>3, <1>4, FilesWritten

LEMMA FilesNew ==
  ASSUME PlaylistsAssumption, ItemRows, Files, NEW u, NEW l, NewList(u, l), CutOff \subseteq CutOff'
  PROVE  Files'
<1>1. /\ export' = [export EXCEPT ![l] = {}] /\ onDisk' = onDisk \ {l} /\ stale' = stale \ {l}
      /\ items' = items
  BY DEF NewList, NewRow, Without
<1>2. l \in Lists /\ \A i \in items : i.list # l
  BY NewRowIsNew DEF NewList
<1>3. \A k \in Lists \ {l} : export'[k] = export[k]
  BY <1>1 DEF Files
<1>4. Filed'
  <2> SUFFICES ASSUME NEW i \in items, i.list \notin Unfiled'
               PROVE  i.list \in onDisk' /\ (i.track \notin Remote => <<i.track, i.pos>> \in export'[i.list])
    BY <1>1 DEF Filed
  <2>1. i.list \in Lists /\ i.list # l
    BY <1>2 DEF ItemRows, ItemType
  <2>2. i.list \notin Unfiled
    BY <1>1, <2>1 DEF Unfiled
  <2> QED
    BY <1>1, <1>3, <2>1, <2>2 DEF Files, Filed
<1> QED
  BY <1>1, <1>4 DEF Files

LEMMA FilesAgain ==
  ASSUME ListRows, ItemRows, Files, NEW l, FileAgain(l), UNCHANGED items, Live' = Live,
         CutOff \subseteq CutOff' \cup {l}
  PROVE  Files'
<1>1. CASE l \in Live
  <2>1. Export(l, Of(l)) /\ l \in Lists
    BY <1>1 DEF FileAgain, Live
  <2>2. \A i \in items' : i \in Of(l) \/ (i \in items /\ i.list # l)
    BY DEF Of
  <2>3. Valid(l, Of(l))
    BY OwnItems
  <2> QED
    BY <2>1, <2>2, <2>3, FilesExport
<1>2. CASE l \notin Live
  <2>1. UNCHANGED <<export, onDisk, stale>>
    BY <1>2 DEF FileAgain
  <2>2. \A i \in items' : i \in items /\ (i.list \in Unfiled => i.list \in Unfiled')
    BY <1>2, <2>1 DEF Unfiled, ItemRows, NoDanglingItems
  <2> QED
    BY <2>1, <2>2, FilesLost
<1> QED
  BY <1>1, <1>2

LEMMA FilesAdd ==
  ASSUME PlaylistsAssumption, ItemRows, JobRowsKept, Files, NEW l \in Live, NEW t \in library, AddAt(l, t),
         CutOff \subseteq CutOff'
  PROVE  Files'
<1>1. CASE \E i \in Of(l) : i.track = t
  <2>1. UNCHANGED <<items, export, onDisk, stale>>
    BY <1>1 DEF AddAt, libraryVars, listVars
  <2> QED
    BY <2>1, FilesStay DEF Unfiled, Files
<1>2. CASE ~\E i \in Of(l) : i.track = t
  BY <1>2, Appended, FilesEdit DEF AddAt
<1> QED
  BY <1>1, <1>2

(* A list that is deleted takes its jobs and items along.                    *)
LEMMA FilesDropped ==
  ASSUME ListRows, ItemRows, JobRowsKept, Waiting, Files, NEW S \in SUBSET Live, DropLists(S),
         \/ UNCHANGED handler
         \/ \E h \in Handlers : Resume(h, "delete") /\ S = {handler[h].list} \cap Live
  PROVE  Files'
<1>1. Live' = Live \ S /\ ItemRows'
  BY Dropped
<1>2. \A j \in Jobs : job'[j] = IF job[j].list \in S THEN [job[j] EXCEPT !.list = 0] ELSE job[j]
  BY DEF DropLists
<1>3. UNCHANGED <<export, onDisk, stale>> /\ items' = {i \in items : i.list \notin S}
  BY DEF DropLists
<1>4. \A l \in Live \ S : l \in CutOff => l \in CutOff'
  <2> SUFFICES ASSUME NEW l \in Live \ S, l \in CutOff
               PROVE  l \in CutOff'
    OBVIOUS
  <2>1. CASE \E j \in Jobs : job[j].phase \in {"linked", "ended"} /\ job[j].list = l
    BY <1>2, <2>1 DEF CutOff
  <2>2. CASE \E h \in Handlers : handler[h].op \in {"delete", "copy", "mixed"} /\ handler[h].list = l
    <3>1. PICK h \in Handlers : handler[h].op \in {"delete", "copy", "mixed"} /\ handler[h].list = l
      BY <2>2
    <3>2. CASE UNCHANGED handler
      BY <3>1, <3>2 DEF CutOff
    <3>3. CASE \E k \in Handlers : Resume(k, "delete") /\ S = {handler[k].list} \cap Live
      <4>1. PICK k \in Handlers : Resume(k, "delete") /\ S = {handler[k].list} \cap Live
        BY <3>3
      <4>2. k # h
        BY <3>1, <4>1
      <4>3. handler'[h] = handler[h]
        BY <4>1, <4>2 DEF Resume, Waiting
      <4> QED
        BY <3>1, <4>3 DEF CutOff
    <3> QED
      BY <3>2, <3>3
  <2> QED
    BY <2>1, <2>2 DEF CutOff
<1>5. \A i \in items' : i \in items /\ (i.list \in Unfiled => i.list \in Unfiled')
  BY <1>1, <1>3, <1>4 DEF Unfiled, ItemRows, NoDanglingItems
<1> QED
  BY <1>3, <1>5, FilesLost

(* A file is removed before its handler waits.                               *)
LEMMA FileRemoved ==
  ASSUME ItemRows, Waiting, Files, NEW l \in Lists, NEW h \in Handlers, NEW request, Suspend(h, request),
         request.op \in {"delete", "copy"}, request.list = l,
         export' = Without(l), onDisk' = onDisk \ {l}, UNCHANGED <<items, stale, job>>
  PROVE  Files'
<1>1. CutOff \subseteq CutOff' /\ l \in CutOff'
  BY CutOffSuspended
<1>2. /\ export' \in [Lists -> SUBSET (Tracks \X Nat)]
      /\ \A k \in Lists \ {l} : export'[k] = export[k]
  BY DEF Files, Without
<1>3. Filed'
  <2> SUFFICES ASSUME NEW i \in items, i.list \notin Unfiled'
               PROVE  i.list \in onDisk' /\ (i.track \notin Remote => <<i.track, i.pos>> \in export'[i.list])
    BY DEF Filed
  <2>1. i.list \in Lists /\ i.list # l /\ i.list \notin Unfiled
    BY <1>1 DEF Unfiled, ItemRows, ItemType
  <2> QED
    BY <1>2, <2>1 DEF Files, Filed
<1> QED
  BY <1>2, <1>3 DEF Files

LEMMA RequestFiles ==
  ASSUME PlaylistsAssumption, ListInv, Request
  PROVE  Files'
<1> USE DEF ListInv
<1>0. stale \subseteq Ids
  BY DEF Files
<1>1. ASSUME UNCHANGED <<items, export, onDisk, stale>>, CutOff \subseteq CutOff'
      PROVE  Files'
  BY <1>0, <1>1, FilesStay DEF Unfiled
<1>2. ASSUME UNCHANGED <<job, handler>>
      PROVE  CutOff \subseteq CutOff'
  BY <1>2, CutOffStays
<1>3. ASSUME NEW u \in Users, NEW l \in Lists, Read(u, l) \/ Publish(u, l)
      PROVE  Files'
  <2>1. UNCHANGED <<items, export, onDisk, stale, job, handler>>
    BY <1>3 DEF Read, Publish, libraryVars, listVars
  <2> QED
    BY <1>1, <1>2, <2>1
<1>4. ASSUME NEW u \in Users, NEW l \in Lists, ReorderSeen(u, l) \/ ReorderBlind(u, l)
      PROVE  Files'
  <2>1. Reorder(u, l)
    BY <1>4 DEF ReorderSeen, ReorderBlind
  <2>2. l \in Live /\ SameTracks(seen[u].items, Of(l))
    BY <2>1 DEF Reorder, Editable
  <2>3. PICK new \in Orders(l, seen[u].items) : Edit(l, new)
    BY <2>1 DEF Reorder
  <2>4. Valid(l, new)
    BY <2>2, Reordered
  <2>5. UNCHANGED <<job, handler>>
    BY <2>1, <2>3 DEF Reorder, Edit
  <2> QED
    BY <1>2, <2>2, <2>3, <2>4, <2>5, FilesEdit
<1>5. ASSUME NEW u \in Users, NEW s \in Lists, Copy(u, s)
      PROVE  Files'
  <2>1. CutOff \subseteq CutOff'
    BY <1>2, <1>5 DEF Copy
  <2>2. CASE \E l \in Copies(u, s) : Refill(l, Copied(l, Of(s)))
    <3>1. PICK l \in Copies(u, s) : Refill(l, Copied(l, Of(s)))
      BY <2>2
    <3> QED
      BY <2>1, <3>1, CopiedItems, FilesRefill DEF Copies
  <2>3. CASE \E l \in Lists :
               MakeList(l, [NoList EXCEPT !.kind = "copy", !.owner = u, !.source = s], Copied(l, Of(s)))
    <3> DEFINE row == [NoList EXCEPT !.kind = "copy", !.owner = u, !.source = s]
    <3>1. PICK l \in Lists : MakeList(l, row, Copied(l, Of(s)))
      BY <2>3
    <3> HIDE DEF row
    <3> QED
      BY <2>1, <3>1, CopiedItems, FilesMade
  <2> QED
    BY <1>5, <2>2, <2>3 DEF Copy
<1>6. ASSUME NEW u \in Users, NEW l \in Lists, StartDownload(u, l)
      PROVE  Files'
  <2>1. HasRoom(Pruned(job)) /\ job' = With(Pruned(job), NewJob(l, 0))
        /\ stale' = stale \cup CutByPruning(job) /\ UNCHANGED <<items, export, onDisk, handler>>
    BY <1>6 DEF StartDownload, libraryVars, listVars
  <2>2. JobTable(Pruned(job), Live)
    BY PrunedJobs DEF JobRowsKept
  <2>3. ASSUME NEW j \in Jobs, job[j].phase \in {"linked", "ended"}
        PROVE  job'[j] = job[j] \/ job[j].list \in CutByPruning(job)
    <3>1. Pruned(job)[j] = job[j] \/ job[j].list \in CutByPruning(job)
      BY <2>3, CutOffPruned
    <3>2. CASE Pruned(job)[j] = job[j]
      <4>1. Pruned(job)[j].phase # "none"
        BY <2>3, <3>2
      <4> QED
        BY <2>1, <2>2, <3>2, <4>1, AddedKeeps
    <3> QED
      BY <3>1, <3>2
  <2>4. Unfiled \subseteq Unfiled'
    BY <2>1, <2>3 DEF Unfiled, CutOff
  <2>5. CutByPruning(job) \subseteq Ids
    BY DEF CutByPruning, Prunable, JobRowsKept, JobTable, JobType
  <2> QED
    BY <1>0, <2>1, <2>4, <2>5, FilesStay
<1>7. ASSUME NEW u \in Users, NEW l \in Lists, NEW t \in Tracks, Add(u, l, t)
      PROVE  Files'
  <2>1. l \in Live /\ t \in library /\ AddAt(l, t) /\ UNCHANGED handler
    BY <1>7 DEF Add, Editable
  <2>2. UNCHANGED job
    BY <2>1 DEF AddAt, Edit
  <2> QED
    BY <1>2, <2>1, <2>2, FilesAdd
<1>8. ASSUME NEW u \in Users, NEW l \in Lists, NEW i \in items, Remove(u, l, i)
      PROVE  Files'
  <2>1. l \in Live /\ Edit(l, Of(l) \ {i}) /\ UNCHANGED <<job, handler>>
    BY <1>8 DEF Remove, Editable, Edit
  <2>2. Valid(l, Of(l))
    BY OwnItems
  <2>3. Valid(l, Of(l) \ {i})
    BY <2>2, FS_Subset DEF Valid
  <2> QED
    BY <1>2, <2>1, <2>3, FilesEdit
<1>9. ASSUME NEW u \in Users, NEW l \in Lists, NEW m \in Users,
             AddCollaborator(u, l, m) \/ RemoveCollaborator(u, l, m)
      PROVE  Files'
  <2>1. UNCHANGED <<items, export, onDisk, stale, job, handler>>
    BY <1>9 DEF AddCollaborator, RemoveCollaborator, Share, libraryVars
  <2> QED
    BY <1>1, <1>2, <2>1
<1>10. ASSUME NEW u \in Users, NEW l \in Lists, NEW h \in Handlers, AskDelete(u, l, h)
       PROVE  Files'
  <2> DEFINE request == [Idle EXCEPT !.op = "delete", !.user = u, !.list = l]
  <2>1. Suspend(h, request) /\ export' = Without(l) /\ onDisk' = onDisk \ {l}
        /\ UNCHANGED <<items, stale, job>>
    BY <1>10 DEF AskDelete, libraryVars
  <2>2. request.op = "delete" /\ request.list = l
    BY DEF Idle
  <2> HIDE DEF request
  <2> QED
    BY <2>1, <2>2, FileRemoved
<1>20. ASSUME NEW u \in Users, NEW s \in Lists, NEW h \in Handlers, AskCopy(u, s, h)
       PROVE  Files'
  <2>1. PICK l \in Copies(u, s) :
          /\ Suspend(h, [Idle EXCEPT !.op = "copy", !.user = u, !.list = l, !.source = s])
          /\ export' = Without(l) /\ onDisk' = onDisk \ {l}
    BY <1>20 DEF AskCopy
  <2> DEFINE request == [Idle EXCEPT !.op = "copy", !.user = u, !.list = l, !.source = s]
  <2>2. Suspend(h, request) /\ l \in Lists /\ UNCHANGED <<items, stale, job>>
    BY <1>20, <2>1 DEF AskCopy, Copies, Live, libraryVars
  <2>3. request.op = "copy" /\ request.list = l
    BY DEF Idle
  <2> HIDE DEF request
  <2> QED
    BY <2>1, <2>2, <2>3, FileRemoved
<1>11. ASSUME NEW u \in Users, NEW h \in Handlers,
              \/ \E l \in Lists : AskRename(u, l, h) \/ AskInvite(u, l, h)
              \/ \E l \in Lists, t \in Tracks : AskAdd(u, l, t, h)
              \/ \E r \in Requests : AskCreate(u, r, h)
       PROVE  Files'
  <2>1. UNCHANGED <<items, export, onDisk, stale, job>>
    BY <1>11 DEF AskRename, AskInvite, AskAdd, AskCreate, libraryVars, listVars
  <2>2. \E request : Suspend(h, request)
    BY <1>11, Zenon DEF AskRename, AskInvite, AskAdd, AskCreate
  <2> QED
    BY <1>1, <2>1, <2>2, CutOffSuspended
<1>12. ASSUME NEW u \in Users, ImportCollection(u)
       PROVE  Files'
  <2>1. PICK l \in Lists : NewList(u, l)
    BY <1>12 DEF ImportCollection
  <2> QED
    BY <1>12, <2>1, CutOffImported, FilesNew
<1>13. ASSUME NEW u \in Users, CreateSmart(u)
       PROVE  Files'
  <2> DEFINE row == [NoList EXCEPT !.kind = "smart", !.owner = u]
  <2>1. PICK l \in Lists : \E new \in Fillings(l, library \ Remote) : MakeList(l, row, new)
    BY <1>13 DEF CreateSmart
  <2>2. PICK new \in Fillings(l, library \ Remote) : MakeList(l, row, new)
    BY <2>1
  <2>3. Valid(l, new) /\ UNCHANGED <<job, handler>>
    BY <1>13, FilledItems DEF CreateSmart
  <2> HIDE DEF row
  <2> QED
    BY <1>2, <2>2, <2>3, FilesMade
<1>14. ASSUME NEW u \in Users, CopyRemote(u)
       PROVE  Files'
  <2>1. Remote \in SUBSET library
    BY DEF ItemRows
  <2>2. CASE \E l \in Copies(u, Elsewhere) : \E new \in Fillings(l, Remote) : Edit(l, new)
    <3>1. PICK l \in Copies(u, Elsewhere) : \E new \in Fillings(l, Remote) : Edit(l, new)
      BY <2>2
    <3>2. PICK new \in Fillings(l, Remote) : Edit(l, new)
      BY <3>1
    <3>3. l \in Live /\ Valid(l, new) /\ UNCHANGED <<job, handler>>
      BY <1>14, <2>1, <3>2, FilledItems DEF Copies, CopyRemote, Edit
    <3> QED
      BY <1>2, <3>2, <3>3, FilesEdit
  <2>3. CASE /\ \E l \in Lists : \E new \in Fillings(l, Remote) :
                  MakeList(l, [NoList EXCEPT !.kind = "copy", !.owner = u, !.source = Elsewhere,
                                             !.revision = 1], new)
             /\ UNCHANGED <<library, operation, job, seen>>
    <3> DEFINE row == [NoList EXCEPT !.kind = "copy", !.owner = u, !.source = Elsewhere, !.revision = 1]
    <3>1. PICK l \in Lists : \E new \in Fillings(l, Remote) : MakeList(l, row, new)
      BY <2>3
    <3>2. PICK new \in Fillings(l, Remote) : MakeList(l, row, new)
      BY <3>1
    <3>3. Valid(l, new) /\ UNCHANGED <<job, handler>>
      BY <1>14, <2>1, <2>3, FilledItems DEF CopyRemote
    <3> HIDE DEF row
    <3> QED
      BY <1>2, <3>2, <3>3, FilesMade
  <2> QED
    BY <1>14, <2>2, <2>3 DEF CopyRemote
<1>15. ASSUME NEW u \in Users, SaveTopSongs(u)
       PROVE  Files'
  <2> DEFINE row == [NoList EXCEPT !.kind = "own", !.owner = u]
  <2>1. PICK l \in Lists : \E new \in Fillings(l, library) : MakeList(l, row, new)
    BY <1>15 DEF SaveTopSongs
  <2>2. PICK new \in Fillings(l, library) : MakeList(l, row, new)
    BY <2>1
  <2>3. Valid(l, new) /\ UNCHANGED <<job, handler>>
    BY <1>15, FilledItems DEF SaveTopSongs
  <2> HIDE DEF row
  <2> QED
    BY <1>2, <2>2, <2>3, FilesMade
<1>16. ASSUME NEW u \in Users, NEW h \in Handlers, SaveMix(u, h)
       PROVE  Files'
  <2>1. PICK l \in Lists : NewList(u, l) /\ \E request : Suspend(h, request)
    BY <1>16, Zenon DEF SaveMix
  <2>2. UNCHANGED job
    BY <1>16 DEF SaveMix
  <2> QED
    BY <2>1, <2>2, CutOffSuspended, FilesNew
<1>17. ASSUME NEW l \in Lists, RefreshSmart(l)
       PROVE  Files'
  <2>1. PICK new \in Fillings(l, library \ Remote) : Refill(l, new)
    BY <1>17 DEF RefreshSmart
  <2>2. l \in Live /\ UNCHANGED <<job, handler>>
    BY <1>17 DEF RefreshSmart, Live
  <2>3. Valid(l, new)
    BY FilledItems
  <2> QED
    BY <1>2, <2>1, <2>2, <2>3, FilesRefill
<1>18. ASSUME NEW t \in Tracks, DeleteTrack(t)
       PROVE  Files'
  <2>1. UNCHANGED <<export, onDisk, stale, job, handler>> /\ items' \subseteq items
    BY <1>18 DEF DeleteTrack, listVars
  <2> QED
    BY <1>0, <1>2, <2>1, FilesStay DEF Unfiled
<1>19. ASSUME NEW j \in Jobs, Retry(j)
       PROVE  Files'
  <2> DEFINE asked == With(job, NewJob(job[j].list, job[j].pos))
  <2>1. HasRoom(job) /\ job' = Pruned(asked) /\ stale' = stale \cup CutByPruning(asked)
        /\ UNCHANGED <<items, export, onDisk, handler>>
    BY <1>19 DEF Retry, libraryVars, listVars
  <2>2. \A k \in Jobs : job[k].phase \in {"linked", "ended"} => asked[k] = job[k]
    BY <2>1, AddedKeeps DEF JobRowsKept
  <2>3. asked \in [Jobs -> JobType]
    BY <1>19, AskedAgain DEF JobTable
  <2> HIDE DEF asked
  <2>4. ASSUME NEW k \in Jobs, job[k].phase \in {"linked", "ended"}
        PROVE  job'[k] = job[k] \/ job[k].list \in CutByPruning(asked)
    <3>1. asked[k] = job[k]
      BY <2>2, <2>4
    <3> QED
      BY <2>1, <2>4, <3>1, CutOffPruned
  <2>5. Unfiled \subseteq Unfiled'
    BY <2>1, <2>4 DEF Unfiled, CutOff
  <2>6. CutByPruning(asked) \subseteq Ids
    BY <2>3 DEF CutByPruning, Prunable, JobType
  <2> QED
    BY <1>0, <2>1, <2>5, <2>6, FilesStay
<1> QED
  BY <1>3, <1>4, <1>5, <1>6, <1>7, <1>8, <1>9, <1>10, <1>11, <1>12, <1>13, <1>14, <1>15, <1>16, <1>17,
     <1>18, <1>19, <1>20, Zenon DEF Request

LEMMA CutOffTyped ==
  ASSUME JobRowsKept, Waiting
  PROVE  CutOff \subseteq Ids
BY DEF CutOff, JobRowsKept, JobTable, JobType, Waiting, HandlerType

(* A restart notes what it cuts off.                                         *)
LEMMA RestartFiles ==
  ASSUME ListInv, Restart
  PROVE  Files'
<1> USE DEF ListInv
<1>1. UNCHANGED <<items, export, onDisk>> /\ stale' = stale \cup CutOff
  BY DEF Restart, libraryVars, listVars
<1>2. CutOff \subseteq Ids /\ stale \subseteq Ids
  BY CutOffTyped DEF Files
<1> QED
  BY <1>1, <1>2, FilesStay DEF Unfiled

LEMMA ProgressFiles ==
  ASSUME PlaylistsAssumption, ListInv, Progress
  PROVE  Files'
<1> USE DEF ListInv
<1>0. stale \subseteq Ids
  BY DEF Files
<1>1. ASSUME UNCHANGED <<items, export, onDisk, stale>>, CutOff \subseteq CutOff'
      PROVE  Files'
  BY <1>0, <1>1, FilesStay DEF Unfiled
<1>2. ASSUME NEW h \in Handlers, Create(h)
      PROVE  Files'
  <2>1. Resume(h, "create") /\ UNCHANGED job
    BY <1>2, Zenon DEF Create, Insert
  <2>2. CutOff \subseteq CutOff'
    BY <2>1, CutOffResumed
  <2>3. CASE UNCHANGED <<libraryVars, listVars, job, seen, stale>>
    BY <1>1, <2>2, <2>3 DEF libraryVars, listVars
  <2>4. ASSUME NEW u, NEW r, NEW l, Insert(u, r, l)
        PROVE  Files'
    <3> DEFINE row == [NoList EXCEPT !.kind = "own", !.owner = u, !.request = r]
    <3>1. PICK of \in Fillings(l, library) : MakeList(l, row, of)
      BY <2>4 DEF Insert
    <3>2. Valid(l, of)
      BY FilledItems
    <3> HIDE DEF row
    <3> QED
      BY <2>2, <3>1, <3>2, FilesMade
  <2> QED
    BY <1>2, <2>3, <2>4 DEF Create
<1>3. ASSUME NEW h \in Handlers, AddRemote(h)
      PROVE  Files'
  <2>1. Resume(h, "add") /\ UNCHANGED job
    BY <1>3 DEF AddRemote, AddAt, Edit
  <2>2. CutOff \subseteq CutOff'
    BY <2>1, CutOffResumed
  <2>3. handler[h].track \in library
    BY <2>1 DEF Resume, Waiting, ItemRows
  <2>4. CASE handler[h].list \in Live
    BY <1>3, <2>2, <2>3, <2>4, FilesAdd DEF AddRemote
  <2>5. CASE handler[h].list \notin Live
    BY <1>1, <1>3, <2>2, <2>5 DEF AddRemote, libraryVars, listVars
  <2> QED
    BY <2>4, <2>5
<1>4. ASSUME NEW h \in Handlers, Delete(h)
      PROVE  Files'
  <2> DEFINE S == {handler[h].list} \cap Live
  <2>1. S \in SUBSET Live /\ DropLists(S) /\ Resume(h, "delete")
    BY <1>4 DEF Delete
  <2>2. \E k \in Handlers : Resume(k, "delete") /\ S = {handler[k].list} \cap Live
    BY <2>1
  <2> HIDE DEF S
  <2> QED
    BY <2>1, <2>2, FilesDropped
<1>5. ASSUME NEW h \in Handlers, Rename(h) \/ FileMix(h)
      PROVE  Files'
  <2>1. FileAgain(handler[h].list) /\ UNCHANGED <<items, list, job>>
    BY <1>5 DEF Rename, FileMix, libraryVars
  <2>2. Live' = Live
    BY <2>1 DEF Live
  <2>3. \E op : Resume(h, op)
    BY <1>5 DEF Rename, FileMix
  <2>4. CutOff \subseteq CutOff' \cup {handler[h].list}
    BY <2>1, <2>3, CutOffResumed
  <2> QED
    BY <2>1, <2>2, <2>4, FilesAgain
<1>15. ASSUME NEW h \in Handlers, CopyAgain(h)
       PROVE  Files'
  <2> DEFINE l == handler[h].list
             s == handler[h].source
  <2>1. Resume(h, "copy") /\ UNCHANGED job
    BY <1>15 DEF CopyAgain
  <2>2. CutOff \subseteq CutOff' \cup {l}
    BY <2>1, CutOffResumed
  <2>3. CASE {l, s} \subseteq Live
    <3>1. Refill(l, Copied(l, Of(s))) /\ l \in Live
      BY <1>15, <2>3 DEF CopyAgain
    <3>2. Valid(l, Copied(l, Of(s)))
      BY CopiedItems
    <3> HIDE DEF l, s
    <3> QED
      BY <2>2, <3>1, <3>2, FilesRefill
  <2>4. CASE ~({l, s} \subseteq Live)
    <3>1. stale' = stale \cup {l} /\ UNCHANGED <<items, export, onDisk>>
      BY <1>15, <2>4 DEF CopyAgain
    <3>2. l \in Ids
      BY DEF Waiting, HandlerType
    <3> HIDE DEF l, s
    <3> QED
      BY <1>0, <2>2, <3>1, <3>2, FilesStay DEF Unfiled
  <2> QED
    BY <2>3, <2>4
<1>6. ASSUME NEW h \in Handlers, Invite(h)
      PROVE  Files'
  <2>1. Resume(h, "invite") /\ UNCHANGED <<items, export, onDisk, stale, job>>
    BY <1>6 DEF Invite, Share, libraryVars, listVars
  <2> QED
    BY <1>1, <2>1, CutOffResumed
<1>7. ASSUME NEW h \in Handlers, FillMix(h)
      PROVE  Files'
  <2> DEFINE l == handler[h].list
  <2>1. UNCHANGED <<export, onDisk, stale>>
    BY <1>7 DEF FillMix, listVars
  <2>2. CutOff \subseteq CutOff' /\ (l \in Live => l \in CutOff')
    BY <1>7, CutOffMixed
  <2>3. CASE l \in Live
    <3>1. PICK new \in Fillings(l, library) : items' = items \cup new
      BY <1>7, <2>3 DEF FillMix
    <3>2. Valid(l, new)
      BY FilledItems
    <3> HIDE DEF l
    <3>3. \A i \in items' : i \in items \/ i.list \in Unfiled'
      BY <2>2, <2>3, <3>1, <3>2 DEF Valid, Unfiled
    <3>4. Unfiled \subseteq Unfiled'
      BY <2>1, <2>2 DEF Unfiled
    <3> QED
      BY <1>0, <2>1, <3>3, <3>4, FilesStay
  <2>4. CASE l \notin Live
    BY <1>1, <1>7, <2>1, <2>2, <2>4 DEF FillMix
  <2> QED
    BY <2>3, <2>4
<1>8. ASSUME NEW j \in Jobs, Link(j)
      PROVE  Files'
  <2> DEFINE x == Item(job[j].list, job[j].track, job[j].at)
  <2>1. /\ SetPhase(j, "choosing", "linked") /\ items' = items \cup {x}
        /\ UNCHANGED <<export, onDisk, stale, handler>>
    BY <1>8 DEF Link
  <2>2. CutOff \subseteq CutOff' /\ job[j].list \in CutOff'
    BY <2>1, CutOffPhase
  <2>3. x.list = job[j].list
    BY DEF Item
  <2> HIDE DEF x
  <2>4. \A i \in items' : i \in items \/ i.list \in Unfiled'
    BY <2>1, <2>2, <2>3 DEF Unfiled
  <2>5. Unfiled \subseteq Unfiled'
    BY <2>1, <2>2 DEF Unfiled
  <2> QED
    BY <1>0, <2>1, <2>4, <2>5, FilesStay
<1>9. ASSUME NEW j \in Jobs, LinkFails(j)
      PROVE  Files'
  <2>1. PICK to \in {"failed", "stuck"} : SetPhase(j, "choosing", to)
    BY <1>9 DEF LinkFails
  <2>2. UNCHANGED <<items, export, onDisk, stale, handler>>
    BY <1>9 DEF LinkFails, libraryVars, listVars
  <2>3. CutOff \subseteq CutOff'
    BY <2>1, <2>2, CutOffPhase
  <2> QED
    BY <1>1, <2>2, <2>3
<1>10. ASSUME NEW j \in Jobs, End(j)
       PROVE  Files'
  <2>1. SetPhase(j, "linked", "ended") /\ UNCHANGED <<items, export, onDisk, stale, handler>>
    BY <1>10 DEF End, libraryVars, listVars
  <2>2. CutOff \subseteq CutOff'
    BY <2>1, CutOffPhase
  <2> QED
    BY <1>1, <2>1, <2>2
<1>11. ASSUME NEW j \in Jobs, Sync(j)
       PROVE  Files'
  <2>1. /\ SetPhase(j, "ended", "completed") /\ FileAgain(job[j].list)
        /\ UNCHANGED <<items, list, handler>>
    BY <1>11 DEF Sync, libraryVars
  <2>2. CutOff \subseteq CutOff' \cup {job[j].list}
    BY <2>1, CutOffPhase
  <2>3. Live' = Live
    BY <2>1 DEF Live
  <2> QED
    BY <2>1, <2>2, <2>3, FilesAgain
<1>12. ASSUME NEW j \in Jobs, Fail(j)
       PROVE  Files'
  <2>1. PICK from \in {"pending", "linked"} : SetPhase(j, from, "failed")
    BY <1>12 DEF Fail
  <2>2. UNCHANGED <<items, export, onDisk, handler>> /\ job[j].phase = from
        /\ stale' = IF from = "linked" THEN stale \cup {job[j].list} ELSE stale
    BY <1>12, <2>1 DEF Fail, SetPhase, libraryVars, listVars
  <2>3. CutOff \subseteq CutOff' \cup {job[j].list} /\ (from = "pending" => CutOff \subseteq CutOff')
    BY <2>1, <2>2, CutOffPhase
  <2>4. job[j].list \in Ids
    BY DEF JobRowsKept, JobTable, JobType
  <2>5. Unfiled \subseteq Unfiled' /\ stale' \subseteq Ids
    BY <1>0, <2>1, <2>2, <2>3, <2>4 DEF Unfiled
  <2> QED
    BY <2>2, <2>5, FilesStay
<1>13. ASSUME NEW j \in Jobs, NEW t \in Tracks, Choose(j, t)
       PROVE  Files'
  <2>1. UNCHANGED <<items, export, onDisk, stale>>
    BY <1>13 DEF Choose, listVars
  <2> QED
    BY <1>1, <1>13, <2>1, CutOffChosen
<1>14. CASE Prune
  <2>1. /\ job' = Pruned(job) /\ stale' = stale \cup CutByPruning(job)
        /\ UNCHANGED <<items, export, onDisk, handler>>
    BY <1>14 DEF Prune, libraryVars, listVars
  <2>2. ASSUME NEW k \in Jobs, job[k].phase \in {"linked", "ended"}
        PROVE  job'[k] = job[k] \/ job[k].list \in CutByPruning(job)
    BY <2>1, <2>2, CutOffPruned
  <2>3. Unfiled \subseteq Unfiled'
    BY <2>1, <2>2 DEF Unfiled, CutOff
  <2>4. CutByPruning(job) \subseteq Ids
    BY DEF CutByPruning, Prunable, JobRowsKept, JobTable, JobType
  <2> QED
    BY <1>0, <2>1, <2>3, <2>4, FilesStay
<1> QED
  BY <1>2, <1>3, <1>4, <1>5, <1>6, <1>7, <1>8, <1>9, <1>10, <1>11, <1>12, <1>13, <1>14, <1>15, Zenon
  DEF Progress, HandlerStep, JobStep

(* All smart lists of a user are filled and filed at once.                   *)
LEMMA RefillSmartFiles ==
  ASSUME PlaylistsAssumption, ListInv, NEW u \in Users, RefreshSmartOf(u)
  PROVE  Files'
<1> USE DEF ListInv
<1> DEFINE S == SmartOf(u)
<1>1. PICK new \in [S -> UNION {Fillings(l, Local) : l \in S}] :
        /\ \A l \in S : new[l] \in Fillings(l, Local)
        /\ items' = {i \in items : i.list \notin S} \cup UNION {new[l] : l \in S}
        /\ \E failed \in SUBSET (S \cap Unwritable) :
             /\ export' = [l \in Lists |-> IF l \in S \ failed THEN Lines(new[l]) ELSE export[l]]
             /\ \E cut \in SUBSET failed : onDisk' = onDisk \cup cut \cup (S \ failed)
             /\ stale' = (stale \ S) \cup failed
  BY DEF RefreshSmartOf
<1>a. PICK failed \in SUBSET S :
        /\ export' = [l \in Lists |-> IF l \in S \ failed THEN Lines(new[l]) ELSE export[l]]
        /\ \E cut \in SUBSET failed : onDisk' = onDisk \cup cut \cup (S \ failed)
        /\ stale' = (stale \ S) \cup failed
  BY <1>1
<1>2. S \in SUBSET Lists
  BY DEF SmartOf, Live
<1>3. Local \in SUBSET library
  BY DEF Local
<1>4. /\ onDisk' \subseteq onDisk \cup S /\ onDisk \cup (S \ failed) \subseteq onDisk'
      /\ stale' = (stale \ S) \cup failed /\ UNCHANGED <<job, handler>>
  BY <1>a DEF RefreshSmartOf
<1> HIDE DEF S
<1>5. \A l \in S : Valid(l, new[l])
  BY <1>1, <1>3, FilledItems
<1>6. \A l \in S : /\ Lines(new[l]) \subseteq Tracks \X Nat
                    /\ \A i \in new[l] : i.track \notin Remote => <<i.track, i.pos>> \in Lines(new[l])
  BY <1>5, ValidLines
<1>7. CutOff' = CutOff
  BY <1>4, CutOffStays
<1>8. export' \in [Lists -> SUBSET (Tracks \X Nat)]
  BY <1>a, <1>2, <1>6 DEF Files
<1>9. Filed'
  <2> SUFFICES ASSUME NEW i \in items', i.list \notin Unfiled'
               PROVE  i.list \in onDisk' /\ (i.track \notin Remote => <<i.track, i.pos>> \in export'[i.list])
    BY DEF Filed
  <2>1. CASE i \in items /\ i.list \notin S
    <3>1. i.list \in Lists /\ i.list \notin Unfiled
      BY <1>4, <1>7, <2>1 DEF Unfiled, ItemRows, ItemType
    <3>2. export'[i.list] = export[i.list]
      BY <1>a, <2>1, <3>1
    <3> QED
      BY <1>4, <2>1, <3>1, <3>2 DEF Files, Filed
  <2>2. ASSUME NEW l \in S, i \in new[l]
        PROVE  i.list \in onDisk' /\ (i.track \notin Remote => <<i.track, i.pos>> \in export'[i.list])
    <3>1. i.list = l /\ l \notin failed
      BY <1>4, <1>5, <2>2 DEF Valid, Unfiled
    <3>2. export'[l] = Lines(new[l])
      BY <1>a, <1>2, <3>1
    <3> QED
      BY <1>4, <1>6, <2>2, <3>1, <3>2
  <2> QED
    BY <1>1, <2>1, <2>2
<1> QED
  BY <1>2, <1>4, <1>8, <1>9 DEF Files, Ids

LEMMA FilesStep ==
  ASSUME PlaylistsAssumption, ListInv, ListStep
  PROVE  Files'
<1> USE DEF ListInv
<1>1. CASE LoseLists
  <2>1. PICK S \in SUBSET (Live \ onDisk) : DropLists(S) /\ UNCHANGED handler
    BY <1>1 DEF LoseLists
  <2> QED
    BY <2>1, FilesDropped
<1>2. CASE UNCHANGED <<library, items, listVars, job, handler, seen, stale>>
  <2>1. UNCHANGED <<items, export, onDisk, stale, job, handler>>
    BY <1>2 DEF listVars
  <2>2. CutOff' = CutOff
    BY <2>1, CutOffStays
  <2> QED
    BY <2>1, <2>2, FilesStay DEF Unfiled, Files
<1> QED
  BY <1>1, <1>2, RequestFiles, ProgressFiles, RestartFiles, RefillSmartFiles DEF ListStep, RefillSmart

-----------------------------------------------------------------------------
(* What clients have read.  Only a list that is new or a copy is filled from *)
(* outside.                                                                  *)

LEMMA FilledAfter ==
  ASSUME Waiting, NEW h \in Handlers, NEW row, row.op \notin {"mix", "copy"}, handler' = [handler EXCEPT ![h] = row]
  PROVE  BeingFilled' \subseteq BeingFilled
BY DEF Waiting, BeingFilled

LEMMA FilledResumed ==
  ASSUME Waiting, NEW h \in Handlers, NEW op, Resume(h, op)
  PROVE  BeingFilled' \subseteq BeingFilled
BY FilledAfter DEF Resume, Idle

LEMMA FilledBefore ==
  ASSUME PlaylistsAssumption, ListInv, ListStep, NEW l \in BeingFilled', l \notin BeingFilled
  PROVE  list'[l].born = births + 1 \/ list'[l].kind # "own"
<1> USE DEF ListInv
<1>1. ASSUME UNCHANGED handler
      PROVE  FALSE
  BY <1>1 DEF BeingFilled
<1>2. ASSUME NEW u \in Users, NEW k \in Lists, NEW h \in Handlers,
             AskDelete(u, k, h) \/ AskRename(u, k, h) \/ AskInvite(u, k, h)
      PROVE  FALSE
  <2>1. PICK op \in {"delete", "rename", "invite"} :
          Suspend(h, [Idle EXCEPT !.op = op, !.user = u, !.list = k])
    BY <1>2, Zenon DEF AskDelete, AskRename, AskInvite
  <2> DEFINE request == [Idle EXCEPT !.op = op, !.user = u, !.list = k]
  <2>2. request.op \notin {"mix", "copy"}
    BY DEF Idle
  <2>3. handler' = [handler EXCEPT ![h] = request]
    BY <2>1 DEF Suspend
  <2> HIDE DEF request
  <2> QED
    BY <2>2, <2>3, FilledAfter
<1>3. ASSUME NEW u \in Users, NEW k \in Lists, NEW t \in Tracks, NEW h \in Handlers, AskAdd(u, k, t, h)
      PROVE  FALSE
  <2> DEFINE request == [Idle EXCEPT !.op = "add", !.user = u, !.list = k, !.track = t]
  <2>1. handler' = [handler EXCEPT ![h] = request]
    BY <1>3 DEF AskAdd, Suspend
  <2>2. request.op \notin {"mix", "copy"}
    BY DEF Idle
  <2> HIDE DEF request
  <2> QED
    BY <2>1, <2>2, FilledAfter
<1>4. ASSUME NEW u \in Users, NEW r \in Requests, NEW h \in Handlers, AskCreate(u, r, h)
      PROVE  FALSE
  <2> DEFINE request == [Idle EXCEPT !.op = "create", !.user = u, !.request = r]
  <2>1. handler' = [handler EXCEPT ![h] = request]
    BY <1>4 DEF AskCreate, Suspend
  <2>2. request.op \notin {"mix", "copy"}
    BY DEF Idle
  <2> HIDE DEF request
  <2> QED
    BY <2>1, <2>2, FilledAfter
<1>5. ASSUME NEW u \in Users, NEW h \in Handlers, SaveMix(u, h)
      PROVE  list'[l].born = births + 1
  <2>1. PICK k \in Lists : NewList(u, k) /\ Suspend(h, [Idle EXCEPT !.op = "mix", !.user = u, !.list = k])
    BY <1>5 DEF SaveMix
  <2> DEFINE request == [Idle EXCEPT !.op = "mix", !.user = u, !.list = k]
  <2>2. handler' = [handler EXCEPT ![h] = request]
    BY <2>1 DEF Suspend
  <2>3. request.list = k
    BY DEF Idle
  <2> HIDE DEF request
  <2>4. l = k
    BY <2>2, <2>3 DEF BeingFilled, Waiting
  <2>5. list'[k] = [[NoList EXCEPT !.kind = "own", !.owner = u] EXCEPT !.born = births + 1]
    BY <2>1 DEF NewList, NewRow, ListRows
  <2> QED
    BY <2>4, <2>5 DEF NoList
<1>11. ASSUME NEW u \in Users, NEW s \in Lists, NEW h \in Handlers, AskCopy(u, s, h)
       PROVE  list'[l].kind # "own"
  <2>1. PICK k \in Copies(u, s) :
          Suspend(h, [Idle EXCEPT !.op = "copy", !.user = u, !.list = k, !.source = s])
    BY <1>11 DEF AskCopy
  <2> DEFINE request == [Idle EXCEPT !.op = "copy", !.user = u, !.list = k, !.source = s]
  <2>2. handler' = [handler EXCEPT ![h] = request]
    BY <2>1 DEF Suspend
  <2>3. request.list = k
    BY DEF Idle
  <2> HIDE DEF request
  <2>4. l = k
    BY <2>2, <2>3 DEF BeingFilled, Waiting
  <2>5. UNCHANGED list /\ k \in Lists /\ list[k].source # 0
    BY <1>11 DEF AskCopy, Copies, Live, Lists
  <2> QED
    BY <2>4, <2>5 DEF ListRows
<1>6. CASE Request
  <2>1. ASSUME NEW u \in Users, NEW k \in Lists,
               \/ Read(u, k) \/ ReorderSeen(u, k) \/ ReorderBlind(u, k)
               \/ Publish(u, k) \/ Copy(u, k) \/ StartDownload(u, k)
               \/ \E t \in Tracks : Add(u, k, t)
               \/ \E i \in items : Remove(u, k, i)
               \/ \E m \in Users : AddCollaborator(u, k, m) \/ RemoveCollaborator(u, k, m)
        PROVE  UNCHANGED handler
    BY <2>1 DEF Read, ReorderSeen, ReorderBlind, Reorder, Publish, Copy, StartDownload, Add, Remove,
                AddCollaborator, RemoveCollaborator
  <2>2. ASSUME \/ \E u \in Users : ImportCollection(u) \/ CreateSmart(u) \/ CopyRemote(u) \/ SaveTopSongs(u)
               \/ \E k \in Lists : RefreshSmart(k)
               \/ \E t \in Tracks : DeleteTrack(t)
               \/ \E j \in Jobs : Retry(j)
        PROVE  UNCHANGED handler
    BY <2>2 DEF ImportCollection, CreateSmart, CopyRemote, SaveTopSongs, RefreshSmart, DeleteTrack, Retry
  <2> QED
    BY <1>1, <1>2, <1>3, <1>4, <1>5, <1>6, <1>11, <2>1, <2>2, Zenon DEF Request
<1>7. ASSUME NEW h \in Handlers, HandlerStep(h)
      PROVE  FALSE
  <2>1. CASE \E op \in {"create", "add", "delete", "rename", "copy", "invite", "mixed"} : Resume(h, op)
    BY <2>1, FilledResumed
  <2>2. CASE FillMix(h)
    <3>1. CASE handler' = [handler EXCEPT ![h].op = "mixed"]
      <4> DEFINE row == [handler[h] EXCEPT !.op = "mixed"]
      <4>1. row.op = "mixed" /\ handler' = [handler EXCEPT ![h] = row]
        BY <3>1 DEF Waiting, HandlerType
      <4> HIDE DEF row
      <4> QED
        BY <4>1, FilledAfter
    <3>2. CASE handler' = [handler EXCEPT ![h] = Idle]
      BY <2>2, <3>2, FilledResumed DEF FillMix, Resume
    <3> QED
      BY <2>2, <3>1, <3>2 DEF FillMix
  <2> QED
    BY <1>7, <2>1, <2>2, Zenon DEF HandlerStep, Create, AddRemote, Delete, Rename, CopyAgain, Invite, FileMix
<1>8. CASE Progress
  <2>1. ASSUME Prune \/ \E j \in Jobs : JobStep(j)
        PROVE  UNCHANGED handler
    BY <2>1 DEF Prune, JobStep, Link, LinkFails, End, Sync, Fail, Choose
  <2> QED
    BY <1>1, <1>7, <1>8, <2>1, Zenon DEF Progress
<1>9. CASE Restart
  BY <1>9 DEF Restart, BeingFilled, Idle
<1>10. CASE LoseLists \/ RefillSmart \/ UNCHANGED <<library, items, listVars, job, handler, seen, stale>>
  <2>1. UNCHANGED handler
    BY <1>10 DEF LoseLists, RefillSmart, RefreshSmartOf
  <2> QED
    BY <1>1, <2>1
<1> QED
  BY <1>6, <1>8, <1>9, <1>10 DEF ListStep

(* What was read well stays so: an edit moves the revision, and a list made  *)
(* since is another one.                                                     *)
LEMMA ReadBefore ==
  ASSUME PlaylistsAssumption, ListInv, ListStep,
         NEW client \in SeenType, client.born <= births, ReadWell(client)
  PROVE  ReadWell(client)'
<1> USE DEF ListInv
<1> SUFFICES ASSUME NEW l \in Lists, client.list = l, ~client.filling,
                    list'[l].kind = "own", list'[l].born = client.born
             PROVE  /\ l \notin BeingFilled' /\ client.revision <= list'[l].revision
                    /\ client.revision = list'[l].revision =>
                         \A i \in items' : i.list = l => i \in client.items
  BY DEF ReadWell
<1>1. births \in Nat /\ client.born \in Nat /\ client.revision \in Nat /\ list[l].revision \in Nat
  BY DEF ListRows, ListType, SeenType
<1>2. Moves /\ list'[l].revision \in Nat
  BY RowsStep DEF RowsMoved, ListRows, ListType
<1>3. list'[l].born # births + 1
  BY <1>1
<1>4. /\ list[l].kind = "own" /\ list[l].born = client.born /\ list[l].revision <= list'[l].revision
      /\ (list'[l].revision = list[l].revision /\ l \notin BeingFilled)
         => \A i \in items' : i.list = l => i \in items
  BY <1>2, <1>3 DEF Moves
<1>5. /\ l \notin BeingFilled /\ client.revision <= list[l].revision
      /\ client.revision = list[l].revision => \A i \in items : i.list = l => i \in client.items
  BY <1>4 DEF ReadWell
<1>6. l \notin BeingFilled'
  BY <1>3, <1>5, FilledBefore
<1>7. client.revision = list'[l].revision => list'[l].revision = list[l].revision /\ client.revision = list[l].revision
  BY <1>1, <1>2, <1>4, <1>5
<1> QED
  BY <1>1, <1>2, <1>4, <1>5, <1>6, <1>7

LEMMA ReadNow ==
  ASSUME ListInv, NEW u \in Users, NEW l \in Lists, Read(u, l)
  PROVE  seen'[u] \in SeenType /\ IsFiniteSet(seen'[u].items) /\ seen'[u].born <= births'
         /\ ReadWell(seen[u])'
<1> USE DEF ListInv
<1>1. seen'[u] = AsSent(l) /\ UNCHANGED <<items, list, births, handler>>
  BY DEF Read, Readers, libraryVars, listVars
<1>2. list[l] \in ListType /\ list[l].born <= births /\ l \in Ids /\ Filling(l) \in BOOLEAN
  BY DEF ListRows, Filling, Ids
<1>3. IsFiniteSet(Of(l)) /\ Of(l) \subseteq ItemType
  BY FS_Subset DEF ItemRows, Of
<1>4. AsSent(l) \in SeenType
  BY <1>2, <1>3 DEF AsSent, SeenType, ListType
<1>5. ReadWell(AsSent(l))
  <2>1. ~Filling(l) => l \notin BeingFilled
    BY DEF Filling, BeingFilled
  <2>2. list[l].revision <= list[l].revision
    BY <1>2 DEF ListType
  <2> QED
    BY <2>1, <2>2 DEF ReadWell, AsSent, Of
<1>6. ReadWell(seen[u])'
  <2>1. PICK client : client = AsSent(l)
    OBVIOUS
  <2>2. ReadWell(client)'
    BY <1>1, <1>5, <2>1 DEF ReadWell, BeingFilled
  <2> QED
    BY <1>1, <2>1, <2>2
<1> QED
  BY <1>1, <1>2, <1>3, <1>4, <1>6 DEF AsSent

LEMMA ReadersStep ==
  ASSUME PlaylistsAssumption, ListInv, ListStep
  PROVE  Readers'
<1> USE DEF ListInv
<1>0. births \in Nat /\ births' \in {births, births + 1} /\ births <= births'
  BY RowsStep DEF RowsMoved, Moves, ListRows
<1>1. ASSUME NEW u \in Users, seen'[u] = seen[u]
      PROVE  seen'[u] \in SeenType /\ IsFiniteSet(seen'[u].items) /\ seen'[u].born <= births'
             /\ ReadWell(seen[u])'
  <2>1. PICK client : client = seen[u]
    OBVIOUS
  <2>2. client \in SeenType /\ client.born <= births /\ ReadWell(client) /\ IsFiniteSet(client.items)
    BY <2>1 DEF Readers, UpToDate
  <2>3. ReadWell(client)'
    BY <2>2, ReadBefore
  <2>4. client.born <= births'
    BY <1>0, <2>2 DEF SeenType
  <2> QED
    BY <1>1, <2>1, <2>2, <2>3, <2>4
<1>2. CASE \E u \in Users, l \in Lists : Read(u, l)
  <2>1. PICK u \in Users, l \in Lists : Read(u, l)
    BY <1>2
  <2>2. \A v \in Users \ {u} : seen'[v] = seen[v]
    BY <2>1 DEF Read, Readers
  <2>3. seen' = [seen EXCEPT ![u] = AsSent(l)]
    BY <2>1 DEF Read
  <2> QED
    BY <1>1, <2>1, <2>2, <2>3, ReadNow DEF Readers, UpToDate
<1>3. CASE ~\E u \in Users, l \in Lists : Read(u, l)
  <2>1. seen' = seen
    <3>1. CASE Request
      <4>1. ASSUME NEW u \in Users, NEW l \in Lists,
                   \/ ReorderSeen(u, l) \/ ReorderBlind(u, l)
                   \/ Publish(u, l) \/ Copy(u, l) \/ StartDownload(u, l)
                   \/ \E m \in Users : AddCollaborator(u, l, m) \/ RemoveCollaborator(u, l, m)
            PROVE  seen' = seen
        BY <4>1 DEF ReorderSeen, ReorderBlind, Reorder, Edit, Publish, Copy, StartDownload,
                    AddCollaborator, RemoveCollaborator, Share
      <4>2. ASSUME NEW u \in Users, NEW l \in Lists,
                   \/ \E t \in Tracks : Add(u, l, t)
                   \/ \E i \in items : Remove(u, l, i)
                   \/ \E h \in Handlers : \/ AskDelete(u, l, h) \/ AskRename(u, l, h)
                                          \/ AskCopy(u, l, h) \/ AskInvite(u, l, h)
                   \/ \E h \in Handlers, t \in Tracks : AskAdd(u, l, t, h)
            PROVE  seen' = seen
        BY <4>2 DEF Add, AddAt, Edit, Remove, AskDelete, AskRename, AskCopy, AskInvite, AskAdd
      <4>3. ASSUME NEW u \in Users,
                   \/ ImportCollection(u) \/ CreateSmart(u) \/ CopyRemote(u) \/ SaveTopSongs(u)
                   \/ \E h \in Handlers : SaveMix(u, h)
                   \/ \E r \in Requests, h \in Handlers : AskCreate(u, r, h)
            PROVE  seen' = seen
        BY <4>3 DEF ImportCollection, CreateSmart, CopyRemote, Edit, SaveTopSongs, SaveMix, AskCreate
      <4>4. ASSUME \/ \E l \in Lists : RefreshSmart(l)
                   \/ \E t \in Tracks : DeleteTrack(t)
                   \/ \E j \in Jobs : Retry(j)
            PROVE  seen' = seen
        BY <4>4 DEF RefreshSmart, DeleteTrack, Retry
      <4> QED
        BY <1>3, <3>1, <4>1, <4>2, <4>3, <4>4, Zenon DEF Request
    <3>2. CASE Progress
      <4>1. ASSUME NEW h \in Handlers, HandlerStep(h)
            PROVE  seen' = seen
        BY <4>1 DEF HandlerStep, Create, Insert, AddRemote, AddAt, Edit, Delete, DropLists, Rename,
                    CopyAgain, Invite, Share, FillMix, FileMix
      <4>2. ASSUME NEW j \in Jobs, JobStep(j)
            PROVE  seen' = seen
        BY <4>2 DEF JobStep, Link, LinkFails, End, Sync, Fail, Choose
      <4>3. Prune => seen' = seen
        BY DEF Prune
      <4> QED
        BY <3>2, <4>1, <4>2, <4>3 DEF Progress
    <3>3. CASE Restart \/ LoseLists \/ RefillSmart
      BY <3>3 DEF Restart, LoseLists, DropLists, RefillSmart, RefreshSmartOf
    <3> QED
      BY <3>1, <3>2, <3>3 DEF ListStep
  <2> QED
    BY <1>1, <2>1 DEF Readers, UpToDate
<1> QED
  BY <1>2, <1>3

(* Every step of the lists, whatever surrounds it, keeps the invariant.      *)
LEMMA ListInvStep ==
  ASSUME PlaylistsAssumption, ListInv, ListStep
  PROVE  ListInv'
BY RowsStep, JobsStep, HandlersStep, FilesStep, ReadersStep DEF ListInv, RowsMoved

(* A settled list with songs is on disk, and goes only when it is deleted.   *)
LEMMA ListsStay ==
  ASSUME PlaylistsAssumption, ListInv, ListStep, NEW l \in Lists, Settled(l), Of(l) # {}
  PROVE  l \in Live'
<1> USE DEF ListInv
<1>1. l \in Live /\ l \in onDisk /\ \A h \in Handlers : Delete(h) => handler[h].list # l
  <2>1. l \notin Unfiled
    BY DEF Settled, Unfiled, CutOff
  <2>2. l \in onDisk
    BY <2>1 DEF Files, Filed, Of
  <2> QED
    BY <2>2 DEF Settled, Delete, Resume
<1>2. CASE Live \subseteq Live'
  BY <1>1, <1>2
<1>3. CASE Request \/ RefillSmart
  BY <1>1, <1>3, RequestRows, RefillSmartRows DEF RowsKept, RefillSmart
<1>4. CASE Progress
  BY <1>1, <1>4, ProgressRows, DeleteRows DEF RowsKept
<1>5. CASE LoseLists
  <2>1. PICK S \in SUBSET (Live \ onDisk) : DropLists(S)
    BY <1>5 DEF LoseLists
  <2>2. Live' = Live \ S
    BY <2>1, Dropped
  <2> QED
    BY <1>1, <2>1, <2>2
<1>6. CASE Restart \/ UNCHANGED <<library, items, listVars, job, handler, seen, stale>>
  BY <1>2, <1>6 DEF Restart, listVars, Live
<1> QED
  BY <1>3, <1>4, <1>5, <1>6 DEF ListStep

(* The order a client sends has all items of the list it read.               *)
LEMMA ReorderLosesNothing ==
  ASSUME ListInv, NEW u \in Users, NEW l \in Lists, ReorderSeen(u, l),
         seen[u].born = list[l].born, ~seen[u].filling
  PROVE  seen[u].items = Of(l)
<1> USE DEF ListInv
<1>1. /\ seen[u].list = l /\ seen[u].revision = list[l].revision /\ list[l].kind = "own"
      /\ SameTracks(seen[u].items, Of(l))
  BY DEF ReorderSeen, Reorder, Editable
<1>2. Of(l) \in SUBSET seen[u].items
  BY <1>1 DEF Readers, UpToDate, ReadWell, Of
<1>3. IsFiniteSet(seen[u].items) /\ \A i \in seen[u].items : i.track \in Tracks
  BY DEF Readers, SeenType, ItemType
<1> QED
  BY <1>1, <1>2, <1>3, NoneMissing

(* The first list, and its copy, have songs that are there.                  *)
LEMMA FirstSongs ==
  ASSUME PlaylistsAssumption, NEW S \in SUBSET Tracks, NEW of \in Orders(1, {Item(1, t, 1) : t \in S})
  PROVE  /\ of \subseteq [list : {1}, track : Tracks, pos : Nat \ {0}] /\ IsFiniteSet(of)
         /\ Copied(2, of) \subseteq [list : {2}, track : Tracks, pos : Nat \ {0}] /\ IsFiniteSet(Copied(2, of))
<1>1. of \in Fillings(1, Tracks)
  BY DEF Fillings
<1>2. of \subseteq [list : {1}, track : Tracks, pos : Nat \ {0}] /\ IsFiniteSet(of)
  BY <1>1, Filled
<1> DEFINE g == [i \in of |-> Item(2, i.track, i.pos)]
<1>3. g \in Surjection(of, Copied(2, of))
  BY DEF Surjection, Copied
<1>4. IsFiniteSet(Copied(2, of))
  BY <1>2, <1>3, FS_Surjection
<1>5. Copied(2, of) \subseteq [list : {2}, track : Tracks, pos : Nat \ {0}]
  BY <1>2 DEF Copied, Item
<1> QED
  BY <1>2, <1>4, <1>5

LEMMA RowsInit ==
  ASSUME PlaylistsAssumption, InitLists, library = Tracks, births = 0
  PROVE  ListRows /\ ItemRows
<1>1. 1 \in Lists /\ 0 \notin Lists /\ MaxLists \in Nat
  BY DEF Lists, PlaylistsAssumption
<1>2. /\ NoList \in ListType /\ NoList.born = 0 /\ NoList.source = 0 /\ NoList.kind = "none"
      /\ \A u \in Users : \A row \in {First(u), [First(u) EXCEPT !.public = TRUE]} :
           row \in ListType /\ row.born = 0 /\ row.source = 0 /\ row.kind = "own"
  <2>1. NoList \in ListType /\ NoList.born = 0 /\ NoList.source = 0 /\ NoList.kind = "none"
    BY DEF NoList, ListType, Ids
  <2>2. ASSUME NEW u \in Users
        PROVE  First(u) \in ListType /\ First(u).born = 0 /\ First(u).source = 0 /\ First(u).kind = "own"
    BY DEF NoList, ListType, Ids, First
  <2>3. ASSUME NEW u \in Users, NEW row, row = [First(u) EXCEPT !.public = TRUE]
        PROVE  row \in ListType /\ row.born = 0 /\ row.source = 0 /\ row.kind = "own"
    <3>1. PICK first \in ListType : first = First(u)
      BY <2>2
    <3> QED
      BY <2>2, <2>3, <3>1 DEF ListType
  <2> QED
    BY <2>1, <2>2, <2>3
<1>3. \A v \in Users : /\ FirstCopy(v) \in ListType /\ FirstCopy(v).born = 0
                       /\ FirstCopy(v).source = 1 /\ FirstCopy(v).kind = "copy"
  BY <1>1 DEF NoList, ListType, Ids, FirstCopy
<1>4. CASE /\ \E u \in Users : list = [l \in Lists |-> IF l = 1 THEN First(u) ELSE NoList]
           /\ items \in {of \in Orders(1, {Item(1, t, 1) : t \in Tracks}) : OwnFirst(of)}
  <2>1. PICK u \in Users : list = [l \in Lists |-> IF l = 1 THEN First(u) ELSE NoList]
    BY <1>4
  <2>2. list \in [Lists -> ListType]
    BY <1>2, <2>1
  <2>5. list[1] = First(u) /\ \A l \in Lists \ {1} : list[l] = NoList
    BY <1>1, <2>1
  <2>3. ListRows /\ 1 \in Live
    <3>1. \A l \in Lists : list[l].born = 0 /\ list[l].source = 0
      BY <1>2, <2>5
    <3>2. list[1].kind = "own"
      BY <1>2, <2>5
    <3> QED
      BY <1>1, <2>2, <3>1, <3>2 DEF ListRows, Live
  <2>4. items \subseteq [list : {1}, track : Tracks, pos : Nat \ {0}] /\ IsFiniteSet(items)
    BY <1>4, FirstSongs
  <2> QED
    BY <1>1, <2>3, <2>4 DEF ItemRows, ItemType, NoDanglingItems, PlaylistsAssumption
<1>5. CASE /\ 2 \in Lists
           /\ \E u \in Users : \E v \in Users \ {u} :
                list = [l \in Lists |-> CASE l = 1 -> [First(u) EXCEPT !.public = TRUE]
                                           [] l = 2 -> FirstCopy(v)
                                           [] OTHER -> NoList]
           /\ \E of \in Orders(1, {Item(1, t, 1) : t \in Tracks \ Remote}) : items = of \cup Copied(2, of)
  <2>1. PICK u \in Users, v \in Users :
          list = [l \in Lists |-> CASE l = 1 -> [First(u) EXCEPT !.public = TRUE]
                                     [] l = 2 -> FirstCopy(v)
                                     [] OTHER -> NoList]
    BY <1>5
  <2>2. /\ list[1] = [First(u) EXCEPT !.public = TRUE] /\ list[2] = FirstCopy(v)
        /\ \A l \in Lists \ {1, 2} : list[l] = NoList
    <3> DEFINE public == [First(u) EXCEPT !.public = TRUE]
    <3> HIDE DEF public
    <3>1. list = [l \in Lists |-> CASE l = 1 -> public [] l = 2 -> FirstCopy(v) [] OTHER -> NoList]
      BY <2>1 DEF public
    <3>2. list[1] = public /\ list[2] = FirstCopy(v) /\ \A l \in Lists \ {1, 2} : list[l] = NoList
      BY <1>1, <1>5, <3>1
    <3> QED
      BY <3>2 DEF public
  <2>3. \A l \in Lists : list[l] \in ListType
    BY <1>2, <1>3, <2>2
  <2>4. list \in [Lists -> ListType]
    BY <2>1, <2>3
  <2>5. ListRows /\ {1, 2} \subseteq Live
    BY <1>1, <1>2, <1>3, <1>5, <2>2, <2>4 DEF ListRows, Live
  <2>6. PICK of \in Orders(1, {Item(1, t, 1) : t \in Tracks \ Remote}) : items = of \cup Copied(2, of)
    BY <1>5
  <2>7. /\ of \subseteq [list : {1}, track : Tracks, pos : Nat \ {0}] /\ IsFiniteSet(of)
        /\ Copied(2, of) \subseteq [list : {2}, track : Tracks, pos : Nat \ {0}] /\ IsFiniteSet(Copied(2, of))
    BY FirstSongs
  <2>8. IsFiniteSet(items) /\ items \subseteq [list : {1, 2}, track : Tracks, pos : Nat \ {0}]
    BY <2>6, <2>7, FS_Union
  <2> QED
    BY <1>1, <1>5, <2>5, <2>8 DEF ItemRows, ItemType, NoDanglingItems, PlaylistsAssumption
<1> QED
  BY <1>4, <1>5 DEF InitLists

LEMMA ListInvInit ==
  ASSUME PlaylistsAssumption, Init
  PROVE  ListInv
<1>1. /\ library = Tracks /\ births = 0 /\ InitLists
      /\ export = [l \in Lists |-> Lines(Of(l))] /\ onDisk = Live
      /\ job = [j \in Jobs |-> NoJob] /\ handler = [h \in Handlers |-> Idle]
      /\ seen = [v \in Users |-> Unread] /\ stale = {}
  BY DEF Init
<1>2. ListRows /\ ItemRows
  BY <1>1, RowsInit
<1>3. JobRowsKept
  BY <1>1 DEF JobRowsKept, JobTable, JobType, NoJob, Ids, ActivePhases
<1>4. Waiting
  BY <1>1 DEF Waiting, HandlerType, Idle, Ids
<1>5. Files
  <2>1. \A l \in Lists : /\ Lines(Of(l)) \subseteq Tracks \X Nat
                         /\ \A i \in Of(l) : i.track \notin Remote => <<i.track, i.pos>> \in Lines(Of(l))
    BY <1>2, OwnItems, ValidLines
  <2>2. \A i \in items : i.list \in Live /\ i.list \in Lists /\ i \in Of(i.list)
    BY <1>2 DEF ItemRows, NoDanglingItems, Live, Of
  <2>3. Filed
    BY <1>1, <2>1, <2>2 DEF Filed
  <2>4. Live \subseteq Lists /\ export \in [Lists -> SUBSET (Tracks \X Nat)]
    BY <1>1, <2>1 DEF Live
  <2> QED
    BY <1>1, <2>3, <2>4 DEF Files
<1>6. Readers
  <2>1. /\ Unread \in SeenType /\ Unread.items = {} /\ Unread.born = 0 /\ Unread.list = 0
    BY DEF Unread, SeenType, Ids
  <2>2. IsFiniteSet({}) /\ 0 \notin Lists
    BY FS_EmptySet DEF Lists
  <2>3. ReadWell(Unread)
    BY <2>1, <2>2 DEF ReadWell
  <2> QED
    BY <1>1, <2>1, <2>2, <2>3 DEF Readers, UpToDate
<1> QED
  BY <1>2, <1>3, <1>4, <1>5, <1>6 DEF ListInv

-----------------------------------------------------------------------------
(* What surrounds the lists: favorites and requests name songs that are      *)
(* there, and the file of a user has liked songs, or deleted ones.           *)
WishType == [id : Nat, user : Users, track : Tracks \cup {"none"}, read : BOOLEAN,
             status : {"pending", "approved", "rejected"}]

Surrounded ==
  /\ fav \subseteq Users \X Tracks /\ \A f \in fav : f[2] \in library
  /\ wishes \subseteq WishType /\ IsFiniteSet(wishes)
  /\ \A w \in wishes : w.track \in library \cup {"none"}
  /\ liked \in [Users -> SUBSET Tracks] /\ lost \subseteq Tracks
  /\ UnlikedIsNotListed

Counters ==
  /\ operation \in [Users \X Requests -> {"none", "made", "gone"}]
  /\ requests \in 0 .. MaxRequests

LibInv == ListInv /\ Surrounded /\ Counters

(* Favorites go with their song.                                             *)
LEMMA FavoritesDetached ==
  ASSUME Surrounded, library \subseteq Tracks, Detach, UNCHANGED liked
  PROVE  /\ fav' \subseteq Users \X Tracks /\ \A f \in fav' : f[2] \in library'
         /\ lost' \subseteq Tracks /\ UnlikedIsNotListed'
<1>1. fav' = {f \in fav : f[2] \in library'} /\ lost' = lost \cup (library \ library')
  BY DEF Detach
<1>2. UnlikedIsNotListed'
  <2> SUFFICES ASSUME NEW u \in Users, NEW t \in liked[u], t \notin lost'
               PROVE  t \in FavoritesOf(u, fav')
    BY DEF UnlikedIsNotListed
  <2>1. t \in Tracks /\ <<u, t>> \in fav
    BY <1>1 DEF Surrounded, UnlikedIsNotListed, FavoritesOf
  <2>2. t \in library
    BY <2>1 DEF Surrounded
  <2> QED
    BY <1>1, <2>1, <2>2 DEF FavoritesOf
<1> QED
  BY <1>1, <1>2 DEF Surrounded

(* A change of each row leaves as many or fewer.                             *)
LEMMA Rewritten ==
  ASSUME NEW f, NEW S, IsFiniteSet(S)
  PROVE  IsFiniteSet({f[w] : w \in S})
<1> DEFINE g == [w \in S |-> f[w]]
<1>1. g \in Surjection(S, {f[w] : w \in S})
  BY DEF Surjection
<1> QED
  BY <1>1, FS_Surjection

LEMMA WishesForgotten ==
  ASSUME Surrounded, library' \subseteq Tracks
  PROVE  /\ ForgetWishes(wishes) \subseteq WishType /\ IsFiniteSet(ForgetWishes(wishes))
         /\ \A w \in ForgetWishes(wishes) : w.track \in library' \cup {"none"}
<1> DEFINE f == [w \in wishes |-> IF w.track \in library' THEN w ELSE [w EXCEPT !.track = "none"]]
<1>1. \A w \in wishes : w \in WishType
  BY DEF Surrounded
<1>2. \A w \in wishes : f[w] \in WishType /\ f[w].track \in library' \cup {"none"}
  BY <1>1 DEF WishType
<1>3. ForgetWishes(wishes) = {f[w] : w \in wishes}
  BY DEF ForgetWishes
<1>4. IsFiniteSet(wishes)
  BY DEF Surrounded
<1> HIDE DEF f
<1> QED
  BY <1>2, <1>3, <1>4, Rewritten

LEMMA SurroundedLists ==
  ASSUME Surrounded, library \subseteq Tracks, library' \subseteq Tracks, Around
  PROVE  Surrounded'
<1>1. Detach /\ UNCHANGED liked /\ wishes' = ForgetWishes(wishes)
  BY DEF Around
<1> QED
  BY <1>1, FavoritesDetached, WishesForgotten DEF Surrounded

LEMMA Saved ==
  ASSUME Surrounded, NEW u \in Users, NEW t \in Tracks, NEW likes \in BOOLEAN, Save(u, t, likes),
         likes => t \in library, UNCHANGED <<library, wishes, lost>>
  PROVE  Surrounded'
<1>1. fav' \subseteq Users \X Tracks /\ \A f \in fav' : f[2] \in library'
  BY DEF Surrounded, Save
<1>2. liked' = [liked EXCEPT ![u] = FavoritesOf(u, fav')]
  BY DEF Save
<1>3. FavoritesOf(u, fav') \subseteq Tracks
  BY DEF FavoritesOf
<1>4. liked' \in [Users -> SUBSET Tracks] /\ liked'[u] = FavoritesOf(u, fav')
      /\ \A v \in Users \ {u} : liked'[v] = liked[v]
  BY <1>2, <1>3 DEF Surrounded
<1>5. \A v \in Users \ {u} : FavoritesOf(v, fav') = FavoritesOf(v, fav)
  BY DEF FavoritesOf, Save
<1>6. UnlikedIsNotListed'
  BY <1>4, <1>5 DEF UnlikedIsNotListed, Surrounded
<1> QED
  BY <1>1, <1>4, <1>6 DEF Surrounded

LEMMA Pulled ==
  ASSUME Surrounded, NEW u \in Users, library \subseteq Tracks, PullFavorites(u)
  PROVE  Surrounded'
<1>1. PICK songs \in SUBSET Local : fav' = fav \cup ({u} \X songs)
  BY DEF PullFavorites
<1>2. UNCHANGED <<library, liked, wishes, lost>>
  BY DEF PullFavorites, idle
<1>3. songs \subseteq library
  BY DEF Local
<1>4. UnlikedIsNotListed'
  BY <1>1, <1>2 DEF UnlikedIsNotListed, FavoritesOf, Surrounded
<1> QED
  BY <1>1, <1>2, <1>3, <1>4 DEF Surrounded

LEMMA Asked ==
  ASSUME Surrounded, NEW u \in Users, NEW t \in Tracks, AskDeletion(u, t)
  PROVE  Surrounded'
<1> DEFINE w == Wish(u, t)
<1>1. t \in library /\ wishes' = wishes \cup {w} /\ UNCHANGED <<library, fav, liked, lost>>
  BY DEF AskDeletion, Local, idle, favVars
<1>2. IsFiniteSet(wishes) /\ Cardinality(wishes) \in Nat
  BY FS_CardinalityType DEF Surrounded
<1>3. w \in WishType /\ w.track = t
  BY <1>2 DEF Wish, WishType
<1> HIDE DEF w
<1>4. IsFiniteSet(wishes')
  BY <1>1, <1>2, FS_AddElement
<1>5. UnlikedIsNotListed'
  BY <1>1 DEF UnlikedIsNotListed, FavoritesOf, Surrounded
<1> QED
  BY <1>1, <1>3, <1>4, <1>5 DEF Surrounded

LEMMA AnsweredWish ==
  ASSUME NEW w \in WishType, NEW status \in {"approved", "rejected"}
  PROVE  /\ Answered(w, status) \in WishType /\ Answered(w, status).track = w.track
         /\ [Answered(w, status) EXCEPT !.track = "none"] \in WishType
         /\ [Answered(w, status) EXCEPT !.track = "none"].track = "none"
         /\ [w EXCEPT !.track = "none"] \in WishType /\ [w EXCEPT !.track = "none"].track = "none"
BY DEF Answered, WishType

LEMMA Turned ==
  ASSUME Surrounded, NEW w \in wishes, Reject(w)
  PROVE  Surrounded'
<1>1. wishes' = (wishes \ {w}) \cup {Answered(w, "rejected")} /\ UNCHANGED <<library, fav, liked, lost>>
  BY DEF Reject, idle, favVars
<1>2. w \in WishType
  BY DEF Surrounded
<1>3. Answered(w, "rejected") \in WishType /\ Answered(w, "rejected").track = w.track
  BY <1>2, AnsweredWish
<1>4. IsFiniteSet(wishes')
  <2>1. IsFiniteSet(wishes \ {w})
    BY FS_Subset DEF Surrounded
  <2> QED
    BY <1>1, <2>1, FS_AddElement
<1>5. UnlikedIsNotListed'
  BY <1>1 DEF UnlikedIsNotListed, FavoritesOf, Surrounded
<1> QED
  BY <1>1, <1>3, <1>4, <1>5 DEF Surrounded

LEMMA ReadWish ==
  ASSUME NEW w \in WishType
  PROVE  [w EXCEPT !.read = TRUE] \in WishType /\ [w EXCEPT !.read = TRUE].track = w.track
BY Zenon DEF WishType

LEMMA Told ==
  ASSUME Surrounded, NEW u \in Users, Acknowledge(u)
  PROVE  Surrounded'
<1> DEFINE f == [w \in wishes |-> IF w.user = u /\ w \notin Pending THEN [w EXCEPT !.read = TRUE] ELSE w]
<1>1. wishes' = {f[w] : w \in wishes} /\ UNCHANGED <<library, fav, liked, lost>>
  BY DEF Acknowledge, idle, favVars
<1>2. \A w \in wishes : w \in WishType
  BY DEF Surrounded
<1>3. ASSUME NEW w \in wishes
      PROVE  f[w] \in WishType /\ f[w].track = w.track
  <2>1. f[w] = w \/ f[w] = [w EXCEPT !.read = TRUE]
    BY Zenon
  <2> HIDE DEF f
  <2> QED
    BY <1>2, <2>1, ReadWish
<1>4. IsFiniteSet(wishes)
  BY DEF Surrounded
<1> HIDE DEF f
<1>5. IsFiniteSet(wishes')
  BY <1>1, <1>4, Rewritten
<1>6. UnlikedIsNotListed'
  BY <1>1 DEF UnlikedIsNotListed, FavoritesOf, Surrounded
<1> QED
  BY <1>1, <1>3, <1>5, <1>6 DEF Surrounded

(* The requests for a song that is deleted forget it.                        *)
LEMMA ApprovedWishes ==
  ASSUME Surrounded, NEW w \in wishes
  PROVE  /\ Approved(w) \subseteq WishType /\ IsFiniteSet(Approved(w))
         /\ \A v \in Approved(w) : v.track \in (library \ {w.track}) \cup {"none"}
<1> DEFINE f == [v \in wishes |->
   IF v = w THEN [Answered(v, "approved") EXCEPT !.track = "none"]
   ELSE IF w.track = "none" \/ v.track # w.track THEN v
   ELSE [(IF v \in Pending THEN Answered(v, "approved") ELSE v) EXCEPT !.track = "none"]]
<1>1. Approved(w) = {f[v] : v \in wishes}
  BY DEF Approved
<1>2. IsFiniteSet(wishes)
  BY DEF Surrounded
<1>3. ASSUME NEW v \in wishes
      PROVE  f[v] \in WishType /\ f[v].track \in (library \ {w.track}) \cup {"none"}
  <2>1. v \in WishType /\ v.track \in library \cup {"none"}
    BY DEF Surrounded
  <2>2. CASE v = w
    BY <2>1, <2>2, AnsweredWish
  <2>3. CASE v # w /\ (w.track = "none" \/ v.track # w.track)
    <3>1. f[v] = v
      BY <2>3
    <3>2. v.track = w.track => v.track = "none"
      BY <2>3
    <3> HIDE DEF f
    <3> QED
      BY <2>1, <3>1, <3>2
  <2>4. CASE v # w /\ ~(w.track = "none" \/ v.track # w.track)
    <3>1. CASE v \in Pending
      BY <2>1, <2>4, <3>1, AnsweredWish
    <3>2. CASE v \notin Pending
      BY <2>1, <2>4, <3>2, AnsweredWish
    <3> QED
      BY <3>1, <3>2
  <2> QED
    BY <2>2, <2>3, <2>4
<1> HIDE DEF f
<1> QED
  BY <1>1, <1>2, <1>3, Rewritten

LEMMA Granted ==
  ASSUME Surrounded, library \subseteq Tracks, NEW w \in wishes, Approve(w)
  PROVE  Surrounded'
<1>1. /\ wishes' = Approved(w) /\ wishes' \subseteq WishType /\ IsFiniteSet(wishes')
      /\ \A v \in wishes' : v.track \in (library \ {w.track}) \cup {"none"}
  BY ApprovedWishes DEF Approve
<1>2. CASE DeleteTrack(w.track) /\ Detach /\ UNCHANGED liked
  <2>1. library' = library \ {w.track}
    BY <1>2 DEF DeleteTrack
  <2> QED
    BY <1>1, <1>2, <2>1, FavoritesDetached DEF Surrounded
<1>3. CASE UNCHANGED <<library, fav, liked, lost>>
  <2>1. UnlikedIsNotListed'
    BY <1>3 DEF UnlikedIsNotListed, FavoritesOf, Surrounded
  <2> QED
    BY <1>1, <1>3, <2>1 DEF Surrounded
<1> QED
  BY <1>2, <1>3 DEF Approve, Restart, libraryVars, idle, favVars

-----------------------------------------------------------------------------
(* The whole: a step of the library is a step of its lists.                  *)

LEMMA LibSteps ==
  ASSUME ListInv, LibNext \/ UNCHANGED libVars
  PROVE  ListStep
<1>1. ASSUME NEW u \in Users, NEW t \in Tracks \ Remote, AddFavorite(u, t) \/ RemoveFavorite(u, t)
      PROVE  ListStep
  BY <1>1 DEF AddFavorite, RemoveFavorite, ListStep, RefillSmart
<1>2. ASSUME UNCHANGED idle
      PROVE  ListStep
  BY <1>2 DEF idle, ListStep
<1>3. ASSUME NEW u \in Users, PullLists(u)
      PROVE  ListStep
  <2>1. PICK gone \in SUBSET (Owned(u) \ onDisk) : DropLists(gone)
    BY <1>3 DEF PullLists
  <2>2. gone \in SUBSET (Live \ onDisk) /\ UNCHANGED handler
    BY <1>3, <2>1 DEF PullLists, Owned
  <2> QED
    BY <2>1, <2>2 DEF ListStep, LoseLists
<1>4. CASE LibRequest
  <2>1. ASSUME NEW u \in Users, NEW t \in Tracks, AskDeletion(u, t)
        PROVE  ListStep
    BY <1>2, <2>1 DEF AskDeletion
  <2>2. ASSUME NEW u \in Users, PullFavorites(u) \/ Acknowledge(u)
        PROVE  ListStep
    BY <1>2, <2>2 DEF PullFavorites, Acknowledge
  <2>3. ListRequest \/ Restart => ListStep
    BY DEF ListRequest, ListStep
  <2> QED
    BY <1>1, <1>3, <1>4, <2>1, <2>2, <2>3 DEF LibRequest
<1>5. CASE LibProgress
  <2>1. ASSUME NEW w \in wishes, Reject(w)
        PROVE  ListStep
    BY <1>2, <2>1 DEF Reject
  <2>2. ASSUME NEW w \in wishes, Approve(w)
        PROVE  ListStep
    <3>1. CASE DeleteTrack(w.track)
      <4>1. w.track \in Tracks
        BY <3>1 DEF DeleteTrack, ListInv, ItemRows
      <4> QED
        BY <3>1, <4>1 DEF ListStep, Request
    <3>2. CASE Restart
      BY <3>2 DEF ListStep
    <3>3. CASE UNCHANGED idle
      BY <1>2, <3>3
    <3> QED
      BY <2>2, <3>1, <3>2, <3>3 DEF Approve
  <2>3. ListProgress => ListStep
    BY DEF ListProgress, ListStep
  <2> QED
    BY <1>5, <2>1, <2>2, <2>3 DEF LibProgress
<1>6. CASE UNCHANGED libVars
  BY <1>2, <1>6 DEF libVars, vars, libraryVars, idle
<1> QED
  BY <1>4, <1>5, <1>6 DEF LibNext

LEMMA SurroundedStep ==
  ASSUME PlaylistsAssumption, ListInv, Surrounded, LibNext \/ UNCHANGED libVars
  PROVE  Surrounded'
<1>1. library \subseteq Tracks /\ library' \subseteq Tracks
  BY LibSteps, ListInvStep DEF ListInv, ItemRows
<1>2. ASSUME UNCHANGED <<library, favVars, wishes, lost>>
      PROVE  Surrounded'
  BY <1>2 DEF Surrounded, UnlikedIsNotListed, FavoritesOf, favVars
<1>3. ASSUME NEW u \in Users, NEW t \in Tracks \ Remote, AddFavorite(u, t) \/ RemoveFavorite(u, t)
      PROVE  Surrounded'
  <2>1. CASE AddFavorite(u, t)
    BY <2>1, Saved DEF AddFavorite, RefreshSmartOf, Local
  <2>2. CASE RemoveFavorite(u, t)
    BY <2>2, Saved DEF RemoveFavorite, RefreshSmartOf
  <2> QED
    BY <1>3, <2>1, <2>2
<1>4. ASSUME NEW u \in Users, PullLists(u)
      PROVE  Surrounded'
  BY <1>2, <1>4 DEF PullLists, DropLists
<1>5. ListRequest \/ ListProgress => Surrounded'
  BY <1>1, SurroundedLists DEF ListRequest, ListProgress
<1>6. ASSUME Restart, UNCHANGED <<favVars, wishes, lost>>
      PROVE  Surrounded'
  BY <1>2, <1>6 DEF Restart, libraryVars
<1>7. CASE LibRequest
  BY <1>1, <1>3, <1>4, <1>5, <1>6, <1>7, Asked, Pulled, Told DEF LibRequest
<1>8. CASE LibProgress
  BY <1>1, <1>5, <1>8, Granted, Turned DEF LibProgress
<1>9. CASE UNCHANGED libVars
  BY <1>2, <1>9 DEF libVars, vars, libraryVars
<1> QED
  BY <1>7, <1>8, <1>9 DEF LibNext

LEMMA OperationsStep ==
  ASSUME ListInv, Counters, ListStep
  PROVE  operation' \in [Users \X Requests -> {"none", "made", "gone"}]
<1>1. ASSUME UNCHANGED operation
      PROVE  operation' \in [Users \X Requests -> {"none", "made", "gone"}]
  BY <1>1 DEF Counters
<1>2. ASSUME NEW S, DropLists(S)
      PROVE  operation' \in [Users \X Requests -> {"none", "made", "gone"}]
  BY <1>2 DEF DropLists, Counters
<1>3. CASE Request
  <2>1. ASSUME NEW u \in Users, NEW l \in Lists,
               \/ Read(u, l) \/ ReorderSeen(u, l) \/ ReorderBlind(u, l)
               \/ Publish(u, l) \/ Copy(u, l) \/ StartDownload(u, l)
               \/ \E m \in Users : AddCollaborator(u, l, m) \/ RemoveCollaborator(u, l, m)
        PROVE  UNCHANGED operation
    BY <2>1 DEF Read, ReorderSeen, ReorderBlind, Reorder, Edit, Publish, Copy, StartDownload,
                AddCollaborator, RemoveCollaborator, Share, listVars
  <2>2. ASSUME NEW u \in Users, NEW l \in Lists,
               \/ \E t \in Tracks : Add(u, l, t)
               \/ \E i \in items : Remove(u, l, i)
               \/ \E h \in Handlers : \/ AskDelete(u, l, h) \/ AskRename(u, l, h)
                                      \/ AskCopy(u, l, h) \/ AskInvite(u, l, h)
               \/ \E h \in Handlers, t \in Tracks : AskAdd(u, l, t, h)
        PROVE  UNCHANGED operation
    BY <2>2 DEF Add, AddAt, Edit, Remove, AskDelete, AskRename, AskCopy, AskInvite, AskAdd, listVars
  <2>3. ASSUME NEW u \in Users,
               \/ ImportCollection(u) \/ CreateSmart(u) \/ CopyRemote(u) \/ SaveTopSongs(u)
               \/ \E h \in Handlers : SaveMix(u, h)
               \/ \E r \in Requests, h \in Handlers : AskCreate(u, r, h)
        PROVE  UNCHANGED operation
    BY <2>3 DEF ImportCollection, CreateSmart, CopyRemote, Edit, SaveTopSongs, SaveMix, AskCreate, listVars
  <2>4. ASSUME \/ \E l \in Lists : RefreshSmart(l)
               \/ \E t \in Tracks : DeleteTrack(t)
               \/ \E j \in Jobs : Retry(j)
        PROVE  UNCHANGED operation
    BY <2>4 DEF RefreshSmart, DeleteTrack, Retry, listVars
  <2> QED
    BY <1>1, <1>3, <2>1, <2>2, <2>3, <2>4, Zenon DEF Request
<1>4. CASE Progress
  <2>1. ASSUME NEW h \in Handlers, Create(h)
        PROVE  operation' \in [Users \X Requests -> {"none", "made", "gone"}]
    <3>1. handler[h].user \in Users /\ handler[h].request \in Requests
      BY <2>1 DEF ListInv, Waiting, Create, Resume
    <3>2. operation' = operation
          \/ operation' = [operation EXCEPT ![<<handler[h].user, handler[h].request>>] = "made"]
      BY <2>1 DEF Create, Insert, listVars
    <3> QED
      BY <3>1, <3>2 DEF Counters
  <2>2. ASSUME NEW h \in Handlers,
               \/ AddRemote(h) \/ Rename(h) \/ CopyAgain(h)
               \/ Invite(h) \/ FillMix(h) \/ FileMix(h)
        PROVE  UNCHANGED operation
    BY <2>2 DEF AddRemote, AddAt, Edit, Rename, CopyAgain, Invite, Share, FillMix, FileMix, listVars
  <2>3. ASSUME NEW h \in Handlers, Delete(h)
        PROVE  operation' \in [Users \X Requests -> {"none", "made", "gone"}]
    BY <1>2, <2>3 DEF Delete
  <2>4. ASSUME NEW j \in Jobs, JobStep(j)
        PROVE  UNCHANGED operation
    BY <2>4 DEF JobStep, Link, LinkFails, End, Sync, Fail, Choose, listVars
  <2>5. Prune => UNCHANGED operation
    BY DEF Prune, listVars
  <2> QED
    BY <1>1, <1>4, <2>1, <2>2, <2>3, <2>4, <2>5, Zenon DEF Progress, HandlerStep
<1>5. CASE LoseLists
  BY <1>2, <1>5 DEF LoseLists
<1>6. CASE Restart \/ RefillSmart \/ UNCHANGED <<library, items, listVars, job, handler, seen, stale>>
  BY <1>1, <1>6 DEF Restart, RefillSmart, RefreshSmartOf, listVars
<1> QED
  BY <1>3, <1>4, <1>5, <1>6 DEF ListStep

LEMMA LibInvStep ==
  ASSUME PlaylistsAssumption, LibInv, LibNext \/ UNCHANGED libVars
  PROVE  LibInv'
<1> USE DEF LibInv
<1>1. ListStep
  BY LibSteps
<1>2. requests' \in 0 .. MaxRequests
  BY DEF LibNext, LibProgress, Counted, Counters, libVars, vars, PlaylistsAssumption
<1> QED
  BY <1>1, <1>2, ListInvStep, SurroundedStep, OperationsStep DEF Counters

LEMMA LibInvInit ==
  ASSUME PlaylistsAssumption, LibInit
  PROVE  LibInv
<1>1. ListInv
  BY ListInvInit DEF LibInit
<1>2. Surrounded
  BY FS_EmptySet DEF LibInit, Surrounded, UnlikedIsNotListed
<1>3. Counters
  BY DEF LibInit, Init, Counters, PlaylistsAssumption
<1> QED
  BY <1>1, <1>2, <1>3 DEF LibInv

LEMMA LibraryInvariant == LibSpec => []LibInv
<1>1. LibInit => LibInv
  BY PlaylistsAssumption, LibInvInit
<1>2. LibInv /\ [LibNext]_libVars => LibInv'
  BY PlaylistsAssumption, LibInvStep
<1> QED
  BY <1>1, <1>2, PTL DEF LibSpec

-----------------------------------------------------------------------------
(* Rows of lists, items, jobs, favorites and requests keep their types,      *)
(* through every handler, thread, pull, deletion and restart (database.py).  *)
THEOREM TypeCorrect == LibSpec => []LibTypeOK
<1>1. LibInv => TypeOK
  BY DEF LibInv, ListInv, ListRows, ItemRows, JobRowsKept, JobTable, Waiting, Files, Readers, Counters, TypeOK
<1>2. LibInv => LibTypeOK
  BY <1>1 DEF LibInv, Surrounded, WishType, LibTypeOK
<1> QED
  BY <1>2, LibraryInvariant, PTL

(* No item, favorite or request names a list or a song that is gone,         *)
(* whatever was deleted while it was on its way (deletion_service.py).       *)
THEOREM NothingDangles == LibSpec => []NoDangling
<1>1. LibInv => NoDangling
  BY DEF LibInv, ListInv, ItemRows, Surrounded, NoDangling
<1> QED
  BY <1>1, LibraryInvariant, PTL

(* At most one job works on a position of a collection, however often and    *)
(* on whichever of its jobs it is tried again (retry_download).              *)
THEOREM PositionsHaveOneJob == LibSpec => []OneJobPerPosition
<1>1. LibInv => OneJobPerPosition
  <2> SUFFICES ASSUME LibInv, NEW j \in Jobs, job[j].phase \in ActivePhases, job[j].list # 0, job[j].pos # 0,
                      NEW k \in SameSlot(j), job[k].phase \in ActivePhases
               PROVE  k = j
    BY DEF OneJobPerPosition
  <2>1. /\ k \in Jobs /\ job[k].list = job[j].list /\ job[k].pos = job[j].pos
        /\ job[k].phase # "none" /\ job[j].phase # "none"
    BY DEF SameSlot, JobRows, ActivePhases
  <2>2. k <= j /\ j <= k
    BY <2>1 DEF LibInv, ListInv, JobRowsKept, JobTable
  <2>3. j \in Nat /\ k \in Nat
    BY <2>1 DEF Jobs
  <2> QED
    BY <2>2, <2>3
<1> QED
  BY <1>1, LibraryInvariant, PTL

(* The M3U file of a settled list has each of its local songs where the list *)
(* has it, after every edit, import, refill and deletion (sync_edited_playlist). *)
THEOREM FilesCoverLists == LibSpec => []ExportCoversList
<1>1. LibInv => ExportCoversList
  <2> SUFFICES ASSUME LibInv, NEW l \in Lists, Settled(l)
               PROVE  Lines(Of(l)) \subseteq export[l]
    BY DEF ExportCoversList
  <2>1. l \notin Unfiled
    BY DEF Settled, Unfiled, CutOff
  <2>2. \A i \in Of(l) : i.track \notin Remote => <<i.track, i.pos>> \in export[l]
    BY <2>1 DEF LibInv, ListInv, Files, Filed, Of
  <2> QED
    BY <2>2 DEF Lines
<1> QED
  BY <1>1, LibraryInvariant, PTL

(* The file of liked songs names none that its user does not like, unless it *)
(* was deleted (favorites.py).                                               *)
THEOREM UnlikedLeavesFile == LibSpec => []UnlikedIsNotListed
<1>1. LibInv => UnlikedIsNotListed
  BY DEF LibInv, Surrounded
<1> QED
  BY <1>1, LibraryInvariant, PTL

(* A pull from Navidrome, and anything else but its deletion, leaves a       *)
(* settled list with songs (sync_navidrome_to_local).                        *)
THEOREM ListsSurvive == LibSpec => SongsSurviveSync
<1>1. LibInv /\ [LibNext]_libVars => [\A l \in Lists : Settled(l) /\ Of(l) # {} => l \in Live']_libVars
  BY PlaylistsAssumption, LibSteps, ListsStay DEF LibInv
<1> QED
  BY <1>1, LibraryInvariant, PTL DEF LibSpec, SongsSurviveSync

(* A reorder that states the revision its client has read starts from all    *)
(* items of the list (reorder_playlist_tracks).                              *)
THEOREM ReordersLoseNothing == LibSpec => NoLostReorder
<1>1. LibInv /\ [LibNext]_libVars =>
        [\A u \in Users, l \in Lists :
           ReorderSeen(u, l) /\ seen[u].born = list[l].born /\ ~seen[u].filling
             => seen[u].items = Of(l)]_vars
  BY ReorderLosesNothing DEF LibInv
<1> QED
  BY <1>1, LibraryInvariant, PTL DEF LibSpec, NoLostReorder
=============================================================================
