----------------------------- MODULE PartyProofs -----------------------------
(* Proofs about PartyPlayback, PartyHub and their composition PartyRoom, for *)
(* all songs, lengths, queues, users, tabs and limits: the playback is well  *)
(* formed and consistent, the hub counts its listeners, and music plays only *)
(* for members.                                                              *)
EXTENDS PartyRoom, FiniteSetTheorems, SequenceTheorems, WellFoundedInduction, TLAPS

Good(r) == r \in Rooms /\ Consistent(r)

Adding == adding \in [index : Nat, pos : Nat, rev : Nat] \cup {NoAdd} /\ up \in BOOLEAN

PlayInv == Good(room) /\ Adding

-----------------------------------------------------------------------------
(* A set of natural numbers has a smallest element. *)
LEMMA NatMin ==
  ASSUME NEW T \in SUBSET Nat, T # {}
  PROVE  \E x \in T : \A y \in T : x <= y
<1> DEFINE R == OpToRel(<, Nat)
<1>1. IsWellFoundedOn(R, Nat)
  BY NatLessThanWellFounded
<1>2. PICK x \in T : \A y \in T : ~ (<<y, x>> \in R)
  <2> HIDE DEF R
  <2> QED
    BY <1>1, WFMin
<1>3. \A y \in T : y < x => <<y, x>> \in R
  BY DEF OpToRel
<1>4. \A y \in T : ~(y < x)
  <2> HIDE DEF R
  <2> QED
    BY <1>2, <1>3
<1>5. x \in Nat /\ \A y \in T : y \in Nat
  OBVIOUS
<1>6. \A y \in T : x <= y
  <2> HIDE DEF R
  <2> QED
    BY <1>4, <1>5
<1> HIDE DEF R
<1> QED
  BY <1>6

(* How the rank grows. *)
Below(K, m) == {j \in K : j <= m}

LEMMA RankGrows ==
  ASSUME NEW L \in Nat, NEW K \in SUBSET (1..L)
  PROVE  /\ IsFiniteSet(K) /\ Cardinality(K) \in Nat
         /\ Rank(K, 0) = 0 /\ Rank(K, L) = Cardinality(K)
         /\ \A m \in Nat : Rank(K, m) \in Nat
         /\ \A m \in Nat \ {0} :
              Rank(K, m) = IF m \in K THEN Rank(K, m - 1) + 1 ELSE Rank(K, m - 1)
<1>1. IsFiniteSet(K) /\ Cardinality(K) \in Nat
  <2>1. IsFiniteSet(1..L)
    BY FS_Interval
  <2> QED
    BY <2>1, FS_Subset, FS_CardinalityType
<1>2. ASSUME NEW m \in Int PROVE IsFiniteSet(Below(K, m)) /\ Cardinality(Below(K, m)) \in Nat
  <2>1. Below(K, m) \subseteq K
    BY DEF Below
  <2> QED
    BY <1>1, <2>1, FS_Subset, FS_CardinalityType
<1>3. ASSUME NEW m \in Int PROVE Rank(K, m) = Cardinality(Below(K, m))
  BY DEF Rank, Below
<1>4. Rank(K, 0) = 0
  <2>1. \A j \in K : ~(j <= 0)
    OBVIOUS
  <2>2. Below(K, 0) = {}
    BY <2>1 DEF Below
  <2> QED
    BY <1>3, <2>2, FS_EmptySet
<1>5. Rank(K, L) = Cardinality(K)
  <2>1. \A j \in K : j <= L
    OBVIOUS
  <2>2. Below(K, L) = K
    BY <2>1 DEF Below
  <2> QED
    BY <1>3, <2>2
<1>6. ASSUME NEW m \in Nat \ {0}
      PROVE  Rank(K, m) = IF m \in K THEN Rank(K, m - 1) + 1 ELSE Rank(K, m - 1)
  <2>1. m - 1 \in Int /\ m \in Int
    OBVIOUS
  <2>2. \A j \in K : j <= m <=> j <= m - 1 \/ j = m
    OBVIOUS
  <2>3. /\ Rank(K, m) = Cardinality(Below(K, m)) /\ Rank(K, m - 1) = Cardinality(Below(K, m - 1))
        /\ IsFiniteSet(Below(K, m - 1))
    BY <1>2, <1>3, <2>1
  <2>4. CASE m \in K
    <3>1. Below(K, m) = Below(K, m - 1) \cup {m}
      BY <2>2, <2>4 DEF Below
    <3>2. m \notin Below(K, m - 1)
      BY DEF Below
    <3> QED
      BY <2>3, <2>4, <3>1, <3>2, FS_AddElement
  <2>5. CASE m \notin K
    <3>1. Below(K, m) = Below(K, m - 1)
      BY <2>2, <2>5 DEF Below
    <3> QED
      BY <2>3, <2>5, <3>1
  <2> QED
    BY <2>4, <2>5
<1>7. \A m \in Nat : Rank(K, m) \in Nat
  BY <1>2, <1>3
<1> QED
  BY <1>1, <1>4, <1>5, <1>6, <1>7

(* The elements of a finite set of positions have the ranks 1, 2, ... *)
LEMMA RankOnto ==
  ASSUME NEW L \in Nat, NEW K \in SUBSET (1..L), NEW n \in 1..Cardinality(K)
  PROVE  \E k \in K : Rank(K, k) = n
<1>1. /\ Cardinality(K) \in Nat /\ n \in Nat /\ n >= 1 /\ n <= Cardinality(K)
      /\ Rank(K, 0) = 0 /\ Rank(K, L) = Cardinality(K)
      /\ \A m \in Nat : Rank(K, m) \in Nat
  BY RankGrows
<1> DEFINE T == {m \in Nat : Rank(K, m) >= n}
<1>2. L \in T /\ T \in SUBSET Nat
  BY <1>1
<1>3. PICK m \in T : \A y \in T : m <= y
  <2> HIDE DEF T
  <2> QED
    BY <1>2, NatMin
<1>4. m \in Nat /\ Rank(K, m) >= n
  OBVIOUS
<1>5. m # 0
  BY <1>1, <1>4
<1>6. m - 1 \in Nat /\ ~(m <= m - 1)
  BY <1>4, <1>5
<1>7. ~(Rank(K, m - 1) >= n)
  BY <1>3, <1>6
<1>8. Rank(K, m) = IF m \in K THEN Rank(K, m - 1) + 1 ELSE Rank(K, m - 1)
  BY <1>4, <1>5, RankGrows
<1>9. Rank(K, m) \in Nat /\ Rank(K, m - 1) \in Nat
  BY <1>1, <1>4, <1>6
<1>10. m \in K
  BY <1>4, <1>7, <1>8
<1>11. Rank(K, m) = n
  BY <1>1, <1>4, <1>7, <1>8, <1>9, <1>10
<1> QED
  BY <1>10, <1>11

(* The rank of a position is between 1 and the size if the position is in   *)
(* the set, and there is room for one more if a later one is.               *)
LEMMA RankBounds ==
  ASSUME NEW L \in Nat, NEW K \in SUBSET (1..L), NEW i \in Nat
  PROVE  /\ Rank(K, i) \in Nat
         /\ i \in K => Rank(K, i) >= 1 /\ Rank(K, i) <= Cardinality(K)
         /\ (\E k \in K : k > i) => Rank(K, i) + 1 \in 1..Cardinality(K)
<1>1. IsFiniteSet(K) /\ Cardinality(K) \in Nat /\ Rank(K, i) \in Nat
  BY RankGrows
<1>2. Rank(K, i) = Cardinality(Below(K, i)) /\ Below(K, i) \subseteq K
  BY DEF Rank, Below
<1>3. Rank(K, i) <= Cardinality(K)
  BY <1>1, <1>2, FS_Subset
<1>4. ASSUME i \in K PROVE Rank(K, i) >= 1
  <2>1. i \in Nat \ {0} /\ i - 1 \in Nat
    BY <1>4
  <2>2. Rank(K, i) = Rank(K, i - 1) + 1 /\ Rank(K, i - 1) \in Nat
    BY <1>4, <2>1, RankGrows
  <2> QED
    BY <2>2
<1>5. ASSUME NEW k \in K, k > i PROVE Rank(K, i) + 1 \in 1..Cardinality(K)
  <2>1. k \notin Below(K, i)
    BY <1>5 DEF Below
  <2>2. Below(K, i) \cup {k} \subseteq K
    BY <1>2
  <2>3. IsFiniteSet(Below(K, i))
    BY <1>1, <1>2, FS_Subset
  <2>4. Cardinality(Below(K, i) \cup {k}) = Rank(K, i) + 1
    BY <1>2, <2>1, <2>3, FS_AddElement
  <2>5. Cardinality(Below(K, i) \cup {k}) <= Cardinality(K)
    BY <1>1, <2>2, FS_Subset
  <2> QED
    BY <1>1, <2>4, <2>5
<1> QED
  BY <1>1, <1>3, <1>4, <1>5

(* What stays of a queue is a queue of items. *)
LEMMA KeptList ==
  ASSUME NEW r \in Rooms, NEW ids
  PROVE  /\ Stay(r, ids) \subseteq 1..Len(r.queue)
         /\ Cardinality(Stay(r, ids)) \in Nat
         /\ Kept(r, ids) \in Seq(Items)
         /\ Len(Kept(r, ids)) = Cardinality(Stay(r, ids))
<1>1. r.queue \in Seq(Items) /\ Len(r.queue) \in Nat /\ DOMAIN r.queue = 1..Len(r.queue)
  BY DEF Rooms
<1>2. Stay(r, ids) \subseteq 1..Len(r.queue)
  BY <1>1 DEF Stay
<1>3. Cardinality(Stay(r, ids)) \in Nat
  BY <1>1, <1>2, RankGrows
<1>4. \A n \in 1..Cardinality(Stay(r, ids)) :
        r.queue[CHOOSE k \in Stay(r, ids) : Rank(Stay(r, ids), k) = n] \in Items
  <2> TAKE n \in 1..Cardinality(Stay(r, ids))
  <2>1. \E k \in Stay(r, ids) : Rank(Stay(r, ids), k) = n
    BY <1>1, <1>2, RankOnto
  <2>2. (CHOOSE k \in Stay(r, ids) : Rank(Stay(r, ids), k) = n) \in Stay(r, ids)
    BY <2>1
  <2>3. (CHOOSE k \in Stay(r, ids) : Rank(Stay(r, ids), k) = n) \in 1..Len(r.queue)
    BY <1>2, <2>2
  <2> QED
    BY <1>1, <2>3
<1>5. Kept(r, ids) \in [1..Cardinality(Stay(r, ids)) -> Items]
  BY <1>4 DEF Kept
<1>6. Kept(r, ids) \in Seq(Items) /\ Len(Kept(r, ids)) = Cardinality(Stay(r, ids))
  BY <1>3, <1>5
<1> QED
  BY <1>2, <1>3, <1>6
-----------------------------------------------------------------------------
(* Fields of a room. *)
LEMMA Fields ==
  ASSUME NEW r \in Rooms
  PROVE  /\ r.queue \in Seq(Items) /\ Len(r.queue) \in Nat /\ DOMAIN r.queue = 1..Len(r.queue)
         /\ r.queue = <<>> <=> Len(r.queue) = 0
         /\ r.index \in Nat /\ r.status \in {"playing", "loading", "paused"}
         /\ r.pos \in Nat /\ r.since \in Int /\ r.rev \in Nat
         /\ Effective(r) \in Nat
         /\ \A k \in 1..Len(r.queue) : Duration(r, k) \in Nat
<1>1. /\ r.queue \in Seq(Items) /\ r.index \in Nat /\ r.status \in {"playing", "loading", "paused"}
      /\ r.pos \in Nat /\ r.since \in Int /\ r.rev \in Nat
  BY DEF Rooms, Active
<1>2. /\ Len(r.queue) \in Nat /\ DOMAIN r.queue = 1..Len(r.queue)
      /\ r.queue = <<>> <=> Len(r.queue) = 0
  BY <1>1
<1>3. Effective(r) \in Nat
  BY <1>1 DEF Effective
<1>4. ASSUME NEW k \in 1..Len(r.queue) PROVE Duration(r, k) \in Nat
  <2>1. r.queue[k] \in Items
    BY <1>1, <1>2
  <2> QED
    BY <2>1, LengthAssumption DEF Duration, Items
<1> QED
  BY <1>1, <1>2, <1>3, <1>4

(* The items that are over when playback has got this far are items from    *)
(* the current one on.                                                      *)
LEMMA EndedSize ==
  ASSUME NEW r \in Rooms, HasCurrent(r)
  PROVE  /\ Cardinality(Ended(r)) \in Nat
         /\ r.index + Cardinality(Ended(r)) <= Len(r.queue) + 1
<1>1. r.index \in 1..Len(r.queue) /\ Len(r.queue) \in Nat
  BY Fields DEF HasCurrent
<1>2. /\ IsFiniteSet(r.index..Len(r.queue))
      /\ Cardinality(r.index..Len(r.queue)) = Len(r.queue) - r.index + 1
  <2>1. r.index \in Int /\ Len(r.queue) \in Int /\ ~(r.index > Len(r.queue))
    BY <1>1
  <2> QED
    BY <2>1, FS_Interval
<1>3. Ended(r) \subseteq r.index..Len(r.queue)
  BY DEF Ended
<1>4. /\ Cardinality(Ended(r)) <= Cardinality(r.index..Len(r.queue))
      /\ Cardinality(Ended(r)) \in Nat
  BY <1>2, <1>3, FS_Subset, FS_CardinalityType
<1> QED
  BY <1>1, <1>2, <1>4

(* The marks that stand for a missing or a future start. *)
LEMMA Marks == Never \in Int /\ Lead \in Int /\ Never = -2 /\ Lead = -1
BY DEF Never, Lead

(* The edits of a room. *)
LEMMA HaltGood ==
  ASSUME NEW r \in Rooms, r.index <= Len(r.queue), r.index = 0 => r.pos = 0
  PROVE  Good(Halt(r)) /\ Halt(r).queue = r.queue /\ Halt(r).status = "paused"
<1>1. Halt(r) \in Rooms
  BY Marks DEF Rooms, Halt, Active
<1>2. /\ Halt(r).queue = r.queue /\ Halt(r).index = r.index /\ Halt(r).pos = r.pos
      /\ Halt(r).status = "paused" /\ Halt(r).since = Never
  BY DEF Rooms, Halt
<1> QED
  BY <1>1, <1>2, Marks DEF Good, Consistent, Active

LEMMA BumpGood ==
  ASSUME NEW r, Good(r)
  PROVE  Good(Bump(r)) /\ Bump(r).queue = r.queue
<1>1. Bump(r) \in Rooms
  BY DEF Rooms, Bump, Good
<1>2. /\ Bump(r).queue = r.queue /\ Bump(r).index = r.index /\ Bump(r).pos = r.pos
      /\ Bump(r).status = r.status /\ Bump(r).since = r.since
  BY DEF Rooms, Bump, Good
<1> QED
  BY <1>1, <1>2 DEF Good, Consistent

LEMMA CueUpGood ==
  ASSUME NEW r \in Rooms, NEW k \in 1..Len(r.queue)
  PROVE  Good(CueUp(r, k))
<1>0. k \in Nat
  BY Fields
<1>1. CueUp(r, k) \in Rooms
  BY <1>0, Marks DEF Rooms, CueUp, Active
<1>2. /\ CueUp(r, k).queue = r.queue /\ CueUp(r, k).index = k /\ CueUp(r, k).pos = 0
      /\ CueUp(r, k).status = "loading" /\ CueUp(r, k).since = Never
  BY DEF Rooms, CueUp
<1> QED
  BY <1>1, <1>2, Marks, Fields DEF Good, Consistent, Active

LEMMA JumpGood ==
  ASSUME NEW r \in Rooms, NEW k \in 1..Len(r.queue)
  PROVE  Good(Jump(r, k))
<1>0. k \in Nat
  BY Fields
<1>1. Jump(r, k) \in Rooms
  BY <1>0, Marks DEF Rooms, Jump, Active
<1>2. /\ Jump(r, k).queue = r.queue /\ Jump(r, k).index = k /\ Jump(r, k).pos = 0
      /\ Jump(r, k).status = (IF r.status = "playing" THEN "loading" ELSE r.status)
      /\ Jump(r, k).since = Never
  BY DEF Rooms, Jump
<1> QED
  BY <1>1, <1>2, Marks, Fields DEF Good, Consistent, Active

LEMMA PausedGood ==
  ASSUME NEW r, Good(r)
  PROVE  Good(Paused(r))
<1>1. CASE r.status \in Active
  <2>1. r.index >= 1 /\ r.index \in Nat /\ Effective(r) \in Nat /\ r.index <= Len(r.queue)
    BY <1>1, Fields DEF Good, Consistent
  <2> DEFINE x == [r EXCEPT !.pos = Effective(r)]
  <2>2. x \in Rooms /\ x.index = r.index /\ x.queue = r.queue
    BY <2>1 DEF Good, Rooms
  <2>3. Paused(r) = Bump(Halt(x))
    BY <1>1 DEF Paused
  <2> HIDE DEF x
  <2>4. Good(Halt(x))
    BY <2>1, <2>2, HaltGood
  <2> QED
    BY <2>3, <2>4, BumpGood
<1>2. CASE r.status \notin Active
  BY <1>2 DEF Paused
<1> QED
  BY <1>1, <1>2

(* Normalization keeps a room consistent, whatever has ended meanwhile. *)
LEMMA NormalizedGood ==
  ASSUME NEW r, Good(r)
  PROVE  Good(Normalized(r))
<1> DEFINE n == Cardinality(Ended(r))
<1>1. /\ r \in Rooms /\ r.index \in Nat /\ Len(r.queue) \in Nat /\ r.index <= Len(r.queue)
      /\ DOMAIN r.queue = 1..Len(r.queue)
  BY Fields DEF Good, Consistent
<1>2. CASE r.status # "playing"
  BY <1>2 DEF Normalized
<1>3. CASE r.status = "playing"
  <2>1. HasCurrent(r) /\ r.index >= 1
    BY <1>1, <1>3 DEF HasCurrent, Good, Consistent, Active
  <2>2. n \in Nat /\ r.index + n <= Len(r.queue) + 1
    BY <1>1, <2>1, EndedSize
  <2> HIDE DEF n
  <2>3. CASE r.since = Lead
    BY <1>3, <2>1, <2>3 DEF Normalized
  <2>4. CASE r.since # Lead /\ r.index + n > Len(r.queue)
    <3> DEFINE x == [r EXCEPT !.index = Len(r.queue), !.pos = Duration(r, Len(r.queue))]
    <3>1. Normalized(r) = Bump(Halt(x))
      BY <1>3, <2>1, <2>4 DEF Normalized, n
    <3>2. Duration(r, Len(r.queue)) \in Nat
      BY <1>1, <2>1, Fields
    <3>3. x \in Rooms /\ x.index = Len(r.queue) /\ x.queue = r.queue
      BY <1>1, <3>2 DEF Rooms
    <3>4. Len(r.queue) # 0
      BY <1>1, <2>1
    <3> HIDE DEF x
    <3>5. Good(Halt(x))
      BY <1>1, <3>3, <3>4, HaltGood
    <3> QED
      BY <3>1, <3>5, BumpGood
  <2>5. CASE r.since # Lead /\ ~(r.index + n > Len(r.queue)) /\ r.index + n > r.index
    <3>1. Normalized(r) = Bump(CueUp(r, r.index + n))
      BY <1>3, <2>1, <2>5 DEF Normalized, n
    <3>2. r.index + n \in 1..Len(r.queue)
      BY <1>1, <2>1, <2>2, <2>5
    <3> QED
      BY <1>1, <3>1, <3>2, CueUpGood, BumpGood
  <2>6. CASE r.since # Lead /\ ~(r.index + n > Len(r.queue)) /\ ~(r.index + n > r.index)
    <3>1. Normalized(r) = [r EXCEPT !.pos = Effective(r), !.since = 0]
      BY <1>3, <2>1, <2>6 DEF Normalized, n
    <3>2. Normalized(r) \in Rooms
      <4>1. Effective(r) \in Nat
        BY <1>1, Fields
      <4>2. PICK e \in Nat : e = Effective(r)
        BY <4>1
      <4>3. [r EXCEPT !.pos = e] \in Rooms
        BY <1>1 DEF Rooms
      <4>4. ASSUME NEW x \in Rooms PROVE [x EXCEPT !.since = 0] \in Rooms
        BY DEF Rooms
      <4>5. [[r EXCEPT !.pos = e] EXCEPT !.since = 0] \in Rooms
        BY <4>3, <4>4
      <4> QED
        BY <3>1, <4>2, <4>5
    <3>3. /\ Normalized(r).queue = r.queue /\ Normalized(r).index = r.index
          /\ Normalized(r).status = "playing" /\ Normalized(r).since = 0
      BY <1>1, <1>3, <3>1 DEF Rooms
    <3> QED
      BY <1>1, <2>1, <3>2, <3>3, Marks DEF Good, Consistent, Active
  <2> QED
    BY <2>3, <2>4, <2>5, <2>6
<1> QED
  BY <1>2, <1>3
-----------------------------------------------------------------------------
(* Adding a song. *)
LEMMA AddedGood ==
  ASSUME Good(room), NEW item \in Items, NEW read \in [index : Nat, pos : Nat, rev : Nat]
  PROVE  Good(Added(item, read))
<1>1. room \in Rooms /\ room.queue \in Seq(Items) /\ Len(room.queue) \in Nat
  BY Fields DEF Good
<1>2. Append(room.queue, item) \in Seq(Items) /\ Len(Append(room.queue, item)) = Len(room.queue) + 1
  BY <1>1
<1> DEFINE x == Added(item, read)
<1>3. read.index \in Nat /\ read.rev + 1 \in Nat /\ room.index \in Nat /\ room.pos \in Nat
  BY <1>1, Fields
<1>4. x \in Rooms
  <2>1. ASSUME NEW q \in Seq(Items), NEW k \in Nat, NEW p \in Nat, NEW v \in Nat
        PROVE  [room EXCEPT !.queue = q, !.index = k, !.pos = p, !.rev = v] \in Rooms
    BY <1>1 DEF Rooms
  <2>2. (IF read.index < 1 THEN 1 ELSE room.index) \in Nat
    BY <1>3
  <2>3. (IF read.index < 1 /\ read.pos # 0 THEN 0 ELSE room.pos) \in Nat
    BY <1>3
  <2> QED
    BY <1>2, <1>3, <2>1, <2>2, <2>3 DEF Added
<1>5. /\ x.queue = Append(room.queue, item) /\ x.index = (IF read.index < 1 THEN 1 ELSE room.index)
      /\ x.status = room.status /\ x.since = room.since
      /\ x.pos = (IF read.index < 1 /\ read.pos # 0 THEN 0 ELSE room.pos)
  BY <1>1 DEF Rooms, Added
<1> SUFFICES Good(x)
  OBVIOUS
<1> HIDE DEF x
<1>6. CASE read.index < 1
  <2>1. x.index = 1 /\ 1 <= Len(x.queue)
    BY <1>1, <1>2, <1>5, <1>6
  <2>2. /\ room.since = Never <=> room.status # "playing"
        /\ room.since >= Never
    BY DEF Good, Consistent
  <2>3. Consistent(x)
    BY <1>5, <2>1, <2>2 DEF Consistent
  <2> QED
    BY <1>4, <2>3 DEF Good
<1>7. CASE ~(read.index < 1)
  <2>1. x.index = room.index /\ x.pos = room.pos
    BY <1>5, <1>7
  <2>2. room.index <= Len(x.queue)
    BY <1>1, <1>2, <1>3, <1>5 DEF Good, Consistent
  <2>3. /\ room.status \in Active => room.index >= 1
        /\ room.since = Never <=> room.status # "playing"
        /\ room.since >= Never
        /\ room.index = 0 => room.pos = 0
    BY DEF Good, Consistent
  <2>4. Consistent(x)
    BY <1>5, <2>1, <2>2, <2>3 DEF Consistent
  <2> QED
    BY <1>4, <2>4 DEF Good
<1> QED
  BY <1>6, <1>7

(* Removing songs. *)
LEMMA RemovedGood ==
  ASSUME NEW r, Good(r), NEW ids
  PROVE  Good(Removed(r, ids))
<1> DEFINE K == Stay(r, ids)
           left == [r EXCEPT !.queue = Kept(r, ids)]
           idle == Halt([left EXCEPT !.index = 0, !.pos = 0])
           y == [left EXCEPT !.index = Rank(K, r.index)]
<1>1. /\ r \in Rooms /\ r.index \in Nat /\ r.index <= Len(r.queue) /\ Len(r.queue) \in Nat
      /\ DOMAIN r.queue = 1..Len(r.queue)
  BY Fields DEF Good, Consistent
<1>2. /\ K \subseteq 1..Len(r.queue) /\ Cardinality(K) \in Nat
      /\ Kept(r, ids) \in Seq(Items) /\ Len(Kept(r, ids)) = Cardinality(K)
  BY <1>1, KeptList
<1>3. left \in Rooms /\ left.queue = Kept(r, ids) /\ left.index = r.index /\ left.pos = r.pos
      /\ left.status = r.status /\ left.since = r.since
  BY <1>1, <1>2 DEF Rooms
<1> HIDE DEF left, K
<1>4. Good(idle)
  <2> DEFINE z == [left EXCEPT !.index = 0, !.pos = 0]
  <2>1. z \in Rooms /\ z.index = 0 /\ z.pos = 0 /\ z.queue = left.queue
    BY <1>3 DEF Rooms
  <2> HIDE DEF z
  <2>2. Len(z.queue) >= 0
    BY <1>2, <1>3, <2>1
  <2>3. Good(Halt(z))
    BY <2>1, <2>2, HaltGood
  <2> QED
    BY <2>3 DEF z
<1>5. CASE K = {}
  BY <1>4, <1>5, BumpGood DEF Removed, left, K
<1>6. CASE K # {} /\ HasCurrent(r) /\ r.index \in K
  <2>1. Rank(K, r.index) \in Nat /\ Rank(K, r.index) >= 1 /\ Rank(K, r.index) <= Cardinality(K)
    BY <1>1, <1>2, <1>6, RankBounds
  <2>2. y \in Rooms /\ y.queue = Kept(r, ids) /\ y.index = Rank(K, r.index) /\ y.pos = r.pos
        /\ y.status = r.status /\ y.since = r.since
    BY <1>3, <2>1 DEF Rooms
  <2>3. Removed(r, ids) = Bump(y)
    BY <1>6 DEF Removed, left, K
  <2> HIDE DEF y
  <2>4. Good(y)
    BY <1>2, <2>1, <2>2 DEF Good, Consistent
  <2> QED
    BY <2>3, <2>4, BumpGood
<1>7. CASE K # {} /\ HasCurrent(r) /\ r.index \notin K /\ \E k \in K : k > r.index
  <2>1. Rank(K, r.index) + 1 \in 1..Cardinality(K)
    BY <1>1, <1>2, <1>7, RankBounds
  <2>2. Removed(r, ids) = Bump(Jump(left, Rank(K, r.index) + 1))
    BY <1>7 DEF Removed, left, K
  <2>3. Rank(K, r.index) + 1 \in 1..Len(left.queue)
    BY <1>2, <1>3, <2>1
  <2> QED
    BY <1>3, <2>2, <2>3, JumpGood, BumpGood
<1>8. CASE K # {} /\ HasCurrent(r) /\ r.index \notin K /\ ~\E k \in K : k > r.index
  BY <1>4, <1>8, BumpGood DEF Removed, left, K
<1>9. CASE K # {} /\ ~HasCurrent(r)
  <2>1. r.index = 0
    BY <1>1, <1>9 DEF HasCurrent
  <2>2. Removed(r, ids) = Bump(left)
    BY <1>1, <1>9, <2>1 DEF Removed, left, K
  <2>3. Good(left)
    BY <1>2, <1>3, <2>1 DEF Good, Consistent
  <2> QED
    BY <2>2, <2>3, BumpGood
<1> QED
  BY <1>5, <1>6, <1>7, <1>8, <1>9
(* ... and the queue as it is. *)
LEMMA NormalizedQueue ==
  ASSUME NEW r, Good(r)
  PROVE  Normalized(r).queue = r.queue
BY DEF Normalized, Good, Rooms, Bump, Halt, CueUp

-----------------------------------------------------------------------------
(* The commands of the host and the reports of the players. *)
LEMMA CommitGood ==
  ASSUME NEW r, Good(r), Adding, Commit(r)
  PROVE  PlayInv'
<1>1. room' = Normalized(r) /\ UNCHANGED <<adding, up>>
  BY DEF Commit
<1>2. Good(Normalized(r))
  BY NormalizedGood
<1> QED
  BY <1>1, <1>2 DEF PlayInv, Adding, Good, Consistent

LEMMA PlayKeeps == ASSUME PlayInv, Play PROVE PlayInv'
<1> DEFINE r == Normalized(room)
<1>1. Good(r) /\ Adding
  BY NormalizedGood DEF PlayInv
<1>2. r.queue # <<>>
  BY DEF Play
<1>3. \/ Commit(r) \/ Commit(Bump(CueUp(r, 1)))
      \/ HasCurrent(r) /\ Commit(Bump([r EXCEPT !.status = "loading", !.since = Never]))
  BY DEF Play
<1> HIDE DEF r
<1>4. 1 \in 1..Len(r.queue)
  BY <1>1, <1>2, Fields DEF Good
<1>5. Good(Bump(CueUp(r, 1)))
  BY <1>1, <1>4, CueUpGood, BumpGood DEF Good
<1>6. ASSUME HasCurrent(r) PROVE Good(Bump([r EXCEPT !.status = "loading", !.since = Never]))
  <2> DEFINE x == [r EXCEPT !.status = "loading", !.since = Never]
  <2>1. /\ x \in Rooms /\ x.status = "loading" /\ x.since = Never /\ x.index = r.index
        /\ x.queue = r.queue
    BY <1>1, Marks DEF Rooms, Active, Good
  <2>2. r.index \in 1..Len(r.queue)
    BY <1>1, <1>6, Fields DEF HasCurrent, Good
  <2> HIDE DEF x
  <2>3. Good(x)
    BY <1>1, <2>1, <2>2, Marks, Fields DEF Good, Consistent
  <2> QED
    BY <2>3, BumpGood DEF x
<1> QED
  BY <1>1, <1>3, <1>5, <1>6, CommitGood

LEMMA PauseKeeps == ASSUME PlayInv, Pause PROVE PlayInv'
<1> DEFINE r == Normalized(room)
           x == [r EXCEPT !.pos = Effective(r)]
<1>1. Good(r) /\ Adding
  BY NormalizedGood DEF PlayInv
<1>2. Commit(Bump(Halt(x)))
  BY DEF Pause
<1> HIDE DEF r
<1>3. Effective(r) \in Nat /\ (r.index = 0 => Effective(r) = 0)
  BY <1>1, Fields DEF Good, Consistent, Effective, Active
<1>4. x \in Rooms /\ x.index = r.index /\ x.queue = r.queue /\ x.pos = Effective(r)
  BY <1>1, <1>3 DEF Rooms, Good
<1> HIDE DEF x
<1>5. Good(Halt(x))
  BY <1>1, <1>3, <1>4, HaltGood DEF Good, Consistent
<1> QED
  BY <1>1, <1>2, <1>5, BumpGood, CommitGood

LEMMA SeekKeeps == ASSUME PlayInv, NEW p \in 0..MaxPos, Seek(p) PROVE PlayInv'
<1> DEFINE r == Normalized(room)
           d == Duration(r, r.index)
           q == IF d > 0 /\ p > d THEN d ELSE p
           z == IF r.status = "playing" THEN 0 ELSE Never
           x == [r EXCEPT !.pos = q, !.since = z]
<1>1. Good(r) /\ Adding
  BY NormalizedGood DEF PlayInv
<1>2. Commit(Bump(x)) /\ HasCurrent(r)
  BY DEF Seek
<1> HIDE DEF r
<1>3. r.index \in 1..Len(r.queue) /\ d \in Nat
  BY <1>1, <1>2, Fields DEF HasCurrent, Good
<1> HIDE DEF d
<1>4. q \in Nat
  BY <1>3
<1>5. z \in Int /\ z >= Never /\ (z = Never <=> r.status # "playing")
  BY Marks
<1> HIDE DEF q, z
<1>6. x \in Rooms /\ x.index = r.index /\ x.queue = r.queue /\ x.status = r.status /\ x.since = z
  BY <1>1, <1>4, <1>5 DEF Rooms, Good
<1> HIDE DEF x
<1>7. Good(x)
  BY <1>1, <1>3, <1>5, <1>6, Fields DEF Good, Consistent
<1> QED
  BY <1>1, <1>2, <1>7, BumpGood, CommitGood

LEMMA NextKeeps == ASSUME PlayInv, NextSong PROVE PlayInv'
<1> DEFINE n == Len(room.queue)
<1>1. Good(room) /\ Adding /\ room.queue # <<>>
  BY DEF PlayInv, NextSong
<1>2. n \in Nat /\ n >= 1 /\ room.index \in Nat /\ room.index <= n
  BY <1>1, Fields DEF Good, Consistent
<1>3. \/ room.index >= n /\ Commit(Bump(Jump(Halt(room), n)))
      \/ ~(room.index >= n) /\ Commit(Bump(Jump(room, room.index + 1)))
  BY DEF NextSong
<1>4. Good(Halt(room)) /\ Halt(room).queue = room.queue
  BY <1>1, <1>2, HaltGood DEF Good, Consistent
<1>5. Good(Bump(Jump(Halt(room), n)))
  <2> DEFINE h == Halt(room)
  <2>1. h \in Rooms /\ n \in 1..Len(h.queue)
    BY <1>2, <1>4 DEF Good
  <2> HIDE DEF h, n
  <2>2. Good(Bump(Jump(h, n)))
    BY <2>1, JumpGood, BumpGood
  <2> QED
    BY <2>2 DEF h
<1>6. ASSUME ~(room.index >= n) PROVE Good(Bump(Jump(room, room.index + 1)))
  <2>1. room.index + 1 \in 1..Len(room.queue)
    BY <1>2, <1>6
  <2> QED
    BY <1>1, <2>1, JumpGood, BumpGood DEF Good
<1> QED
  BY <1>1, <1>3, <1>5, <1>6, CommitGood

LEMMA PreviousKeeps == ASSUME PlayInv, PreviousSong PROVE PlayInv'
<1> DEFINE k == IF room.index > 1 THEN room.index - 1 ELSE 1
<1>1. Good(room) /\ Adding /\ room.queue # <<>> /\ Commit(Bump(Jump(room, k)))
  BY DEF PlayInv, PreviousSong
<1>2. k \in 1..Len(room.queue)
  BY <1>1, Fields DEF Good, Consistent
<1> HIDE DEF k
<1> QED
  BY <1>1, <1>2, JumpGood, BumpGood, CommitGood DEF Good

LEMMA EndedKeeps == ASSUME PlayInv, NEW id, NEW o, SongEnded(id, o) PROVE PlayInv'
<1> DEFINE n == Len(room.queue)
           x == [room EXCEPT !.pos = Duration(room, room.index)]
<1>1. Good(room) /\ Adding
  BY DEF PlayInv
<1>2. \/ Commit(room)
      \/ HasCurrent(room) /\ room.index = n /\ Commit(Bump(Halt(x)))
      \/ HasCurrent(room) /\ room.index # n /\ Commit(Bump(CueUp(room, room.index + 1)))
  BY DEF SongEnded
<1>3. ASSUME HasCurrent(room) PROVE Good(Halt(x))
  <2>1. room.index \in 1..Len(room.queue)
    BY <1>1, <1>3, Fields DEF HasCurrent, Good
  <2>2. Duration(room, room.index) \in Nat
    BY <1>1, <2>1, Fields DEF Good
  <2>3. x \in Rooms /\ x.index = room.index /\ x.queue = room.queue
    BY <1>1, <2>2 DEF Rooms, Good
  <2> HIDE DEF x
  <2> QED
    BY <1>1, <2>1, <2>3, Fields, HaltGood DEF Good
<1>4. ASSUME HasCurrent(room), room.index # n PROVE Good(Bump(CueUp(room, room.index + 1)))
  <2>1. room.index + 1 \in 1..Len(room.queue)
    BY <1>1, <1>4, Fields DEF HasCurrent, Good
  <2> QED
    BY <1>1, <2>1, CueUpGood, BumpGood DEF Good
<1> HIDE DEF x, n
<1> QED
  BY <1>1, <1>2, <1>3, <1>4, BumpGood, CommitGood

LEMMA ReadyKeeps == ASSUME PlayInv, NEW id, Ready(id) PROVE PlayInv'
<1> DEFINE r == Normalized(room)
           x == [r EXCEPT !.status = "playing", !.pos = 0, !.since = Lead]
<1>1. Good(room) /\ Good(r) /\ Adding
  BY NormalizedGood DEF PlayInv
<1>2. Commit(room) \/ (HasCurrent(r) /\ Commit(Bump(x)))
  BY DEF Ready
<1> HIDE DEF r
<1>3. ASSUME HasCurrent(r) PROVE Good(Bump(x))
  <2>1. r.index \in 1..Len(r.queue)
    BY <1>1, <1>3, Fields DEF HasCurrent, Good
  <2>2. /\ x \in Rooms /\ x.status = "playing" /\ x.since = Lead /\ x.index = r.index
        /\ x.queue = r.queue /\ x.pos = 0
    BY <1>1, Marks DEF Rooms, Active, Good
  <2> HIDE DEF x
  <2>3. Good(x)
    BY <1>1, <2>1, <2>2, Marks, Fields DEF Good, Consistent
  <2> QED
    BY <2>3, BumpGood
<1> HIDE DEF x
<1> QED
  BY <1>1, <1>2, <1>3, CommitGood

-----------------------------------------------------------------------------
(* The queue. *)
LEMMA AddKeeps ==
  ASSUME PlayInv, NEW item \in Items, AddSong(item) \/ AddAnswered(item)
  PROVE  PlayInv'
<1>1. Good(room) /\ Adding
  BY DEF PlayInv
<1>2. CASE AddSong(item)
  <2>1. Commit(Added(item, Seen))
    BY <1>2 DEF AddSong
  <2>2. /\ Seen.index \in Nat /\ Seen.rev \in Nat /\ Seen.pos \in Nat
        /\ Seen \in [index : Nat, pos : Nat, rev : Nat]
    BY <1>1, Fields DEF Seen, Good, Rooms
  <2>3. Good(Added(item, Seen))
    BY <1>1, <2>2, AddedGood DEF Seen
  <2> QED
    BY <1>1, <2>1, <2>3, CommitGood
<1>3. CASE AddAnswered(item)
  <2>1. adding # NoAdd /\ room' = Normalized(Added(item, adding)) /\ adding' = NoAdd /\ up' = up
    BY <1>3 DEF AddAnswered
  <2>2. Good(Added(item, adding))
    BY <1>1, <2>1, AddedGood DEF Adding
  <2>3. Good(room')
    BY <2>1, <2>2, NormalizedGood
  <2> QED
    BY <1>1, <2>1, <2>3 DEF PlayInv, Good, Consistent, Adding
<1> QED
  BY <1>2, <1>3

LEMMA AskKeeps == ASSUME PlayInv, AddAsked \/ AddRefused PROVE PlayInv'
<1>1. Good(room) /\ Adding
  BY DEF PlayInv
<1>2. room' = room /\ up' = up
  BY DEF AddAsked, AddRefused
<1>3. adding' \in [index : Nat, pos : Nat, rev : Nat] \cup {NoAdd}
  <2>1. Seen \in [index : Nat, pos : Nat, rev : Nat]
    BY <1>1, Fields DEF Seen, Good, Rooms
  <2> QED
    BY <2>1 DEF AddAsked, AddRefused
<1> QED
  BY <1>1, <1>2, <1>3 DEF PlayInv, Good, Consistent, Adding

LEMMA RemoveKeeps ==
  ASSUME PlayInv, (\E id : RemoveItem(id)) \/ \E song : TrackDeleted(song)
  PROVE  PlayInv'
<1>1. Good(room) /\ Adding
  BY DEF PlayInv
<1>2. CASE \E id : RemoveItem(id)
  <2>1. PICK id : Commit(Removed(room, {id}))
    BY <1>2 DEF RemoveItem
  <2> QED
    BY <1>1, <2>1, RemovedGood, CommitGood
<1>3. CASE \E song : TrackDeleted(song)
  <2>1. PICK ids : room' = Removed(room, ids) /\ UNCHANGED <<adding, up>>
    BY <1>3 DEF TrackDeleted
  <2>2. Good(room')
    BY <1>1, <2>1, RemovedGood
  <2> QED
    BY <1>1, <2>1, <2>2 DEF PlayInv, Good, Consistent, Adding
<1> QED
  BY <1>2, <1>3

-----------------------------------------------------------------------------
(* Every step keeps the invariant. *)
LEMMA PlayStep == ASSUME PlayInv, [PlayNext]_playVars PROVE PlayInv'
<1>0. Good(room) /\ Adding
  BY DEF PlayInv
<1>1. CASE PlayCommand
  BY <1>1, PlayKeeps, PauseKeeps, NextKeeps, PreviousKeeps, SeekKeeps, EndedKeeps, ReadyKeeps,
     RemoveKeeps, AddKeeps, AskKeeps DEF PlayCommand
<1>2. CASE ClockTick
  BY <1>0, <1>2, CommitGood DEF ClockTick
<1>3. CASE PauseRoom \/ Restart
  <2>1. room' = Paused(room) /\ adding' = adding /\ up' \in BOOLEAN
    BY <1>0, <1>3 DEF PauseRoom, Restart, Adding
  <2>2. Good(room')
    BY <1>0, <2>1, PausedGood
  <2> QED
    BY <1>0, <2>1, <2>2 DEF PlayInv, Good, Consistent, Adding
<1>4. CASE Crash
  BY <1>0, <1>4 DEF Crash, PlayInv, Good, Consistent, Adding
<1>5. CASE TimePasses
  <2>1. room.since # Never /\ room' = [room EXCEPT !.since = @ + 1] /\ UNCHANGED <<adding, up>>
    BY <1>5 DEF TimePasses
  <2>2. room.since \in Int /\ room.since >= Never
    BY <1>0, Fields DEF Good, Consistent
  <2>3. /\ room' \in Rooms /\ room'.queue = room.queue /\ room'.index = room.index
        /\ room'.status = room.status /\ room'.pos = room.pos /\ room'.since = room.since + 1
    BY <1>0, <2>1, <2>2 DEF Rooms, Good
  <2>4. room'.since >= Never /\ room'.since # Never
    BY <2>1, <2>2, <2>3, Marks
  <2>5. Good(room')
    BY <1>0, <2>1, <2>3, <2>4 DEF Good, Consistent
  <2> QED
    BY <1>0, <2>1, <2>5 DEF PlayInv, Good, Consistent, Adding
<1>6. CASE UNCHANGED playVars
  BY <1>0, <1>6 DEF playVars, PlayInv, Good, Consistent, Adding
<1> QED
  BY <1>1, <1>2, <1>3, <1>4, <1>5, <1>6 DEF PlayNext

LEMMA PlayStart == ASSUME PlayInit PROVE PlayInv
<1>1. Seed \in Seq(Items) /\ Len(Seed) \in Nat /\ (Seed # <<>> => Len(Seed) >= 1)
  BY SeedAssumption
<1>2. room = NewRoom /\ adding = NoAdd /\ up = TRUE
  BY DEF PlayInit
<1>3. /\ room \in Rooms /\ room.queue = Seed /\ room.status = "paused" /\ room.since = Never
      /\ room.pos = 0 /\ room.index = IF Seed = <<>> THEN 0 ELSE 1
  BY <1>1, <1>2, Marks DEF NewRoom, Rooms
<1>4. Good(room)
  BY <1>1, <1>3, Marks DEF Good, Consistent, Active
<1> QED
  BY <1>2, <1>4 DEF PlayInv, Adding

(* The values of a room and of an add under way keep their types, whatever  *)
(* the songs, their lengths and the queue the room starts with.             *)
THEOREM PlayTypes == PlaySpec => []PlayTypeOK
<1>1. PlayInv => PlayTypeOK
  BY DEF PlayInv, Good, Adding, PlayTypeOK
<1> QED
  BY <1>1, PlayStart, PlayStep, PTL DEF PlaySpec

(* A room never points outside its queue, has a current song when it plays  *)
(* or loads one, and runs its clock exactly while it plays: for queues of   *)
(* every length, edited, played, interrupted and restarted in any order.    *)
THEOREM PlayConsistency == PlaySpec => []PlaybackConsistent
<1>1. PlayInv => PlaybackConsistent
  BY DEF PlayInv, Good, PlaybackConsistent
<1> QED
  BY <1>1, PlayStart, PlayStep, PTL DEF PlaySpec
-----------------------------------------------------------------------------
(* How far playback is into each item is well defined: the recursion of     *)
(* Into has a solution on every stretch of the queue, one item at a time.   *)
IntoBody(r, into, k) == IF k = r.index THEN Effective(r) ELSE into[k - 1] - Duration(r, k - 1)

LEMMA IntoSolved ==
  ASSUME NEW r \in Rooms, HasCurrent(r)
  PROVE  \E into : into = [k \in r.index..Len(r.queue) |-> IntoBody(r, into, k)]
<1>1. r.index \in 1..Len(r.queue) /\ Len(r.queue) \in Nat
  BY Fields DEF HasCurrent
<1> DEFINE a == r.index
           Solved(n) == \E into : into = [k \in a..n |-> IntoBody(r, into, k)]
           T == {n \in Nat : n >= a /\ ~Solved(n)}
<1>2. ASSUME T # {} PROVE FALSE
  <2>1. PICK n \in T : \A y \in T : n <= y
    <3> HIDE DEF T
    <3>1. T \in SUBSET Nat
      BY DEF T
    <3> QED
      BY <1>2, <3>1, NatMin
  <2>2. n \in Nat /\ n >= a /\ ~Solved(n) /\ a \in Nat
    BY <1>1
  <2>3. CASE n = a
    <3> DEFINE into == [k \in a..n |-> Effective(r)]
    <3>1. into = [k \in a..n |-> IntoBody(r, into, k)]
      <4>1. \A k \in a..n : k = a
        BY <2>2, <2>3
      <4> HIDE DEF into
      <4>2. \A k \in a..n : IntoBody(r, into, k) = Effective(r)
        BY <4>1 DEF IntoBody
      <4> QED
        BY <4>2 DEF into
    <3> QED
      BY <2>2, <3>1
  <2>4. CASE n # a
    <3>1. n - 1 \in Nat /\ n - 1 >= a /\ ~(n <= n - 1)
      BY <2>2, <2>4
    <3>2. n - 1 \notin T
      BY <2>1, <3>1
    <3>3. Solved(n - 1)
      BY <3>1, <3>2
    <3>4. PICK f : f = [k \in a..(n - 1) |-> IntoBody(r, f, k)]
      BY <3>3
    <3> DEFINE g == [k \in a..n |-> IntoBody(r, f, k)]
    <3>5. ASSUME NEW k \in a..n PROVE IntoBody(r, f, k) = IntoBody(r, g, k)
      <4>1. CASE k = a
        BY <4>1 DEF IntoBody
      <4>2. CASE k # a
        <5>1. k - 1 \in a..(n - 1) /\ k - 1 \in a..n
          BY <2>2, <4>2
        <5>2. f[k - 1] = IntoBody(r, f, k - 1)
          <6> HIDE DEF g
          <6> QED BY <3>4, <5>1
        <5>3. g[k - 1] = IntoBody(r, f, k - 1)
          BY <5>1
        <5> HIDE DEF g
        <5> QED
          BY <4>2, <5>2, <5>3 DEF IntoBody
      <4> QED
        BY <4>1, <4>2
    <3>6. g = [k \in a..n |-> IntoBody(r, g, k)]
      <4>1. \A k \in a..n : IntoBody(r, f, k) = IntoBody(r, g, k)
        BY <3>5
      <4> QED
        BY <4>1
    <3> HIDE DEF g
    <3> QED
      BY <2>2, <3>6
  <2> QED
    BY <2>3, <2>4
<1>3. Len(r.queue) \notin T
  BY <1>2
<1>4. Solved(Len(r.queue))
  BY <1>1, <1>3
<1> QED
  BY <1>4

LEMMA IntoUnfolds ==
  ASSUME NEW r \in Rooms, HasCurrent(r)
  PROVE  Into(r) = [k \in r.index..Len(r.queue) |-> IntoBody(r, Into(r), k)]
<1>1. \E into : into = [k \in r.index..Len(r.queue) |-> IntoBody(r, into, k)]
  BY IntoSolved
<1>2. Into(r) = CHOOSE into : into = [k \in r.index..Len(r.queue) |-> IntoBody(r, into, k)]
  BY DEF Into, IntoBody
<1> QED
  BY <1>1, <1>2

(* Playback is as far into the current item as its clock says. *)
LEMMA IntoStarts ==
  ASSUME NEW r \in Rooms, HasCurrent(r)
  PROVE  Into(r)[r.index] = Effective(r)
<1>1. r.index \in r.index..Len(r.queue)
  BY Fields DEF HasCurrent
<1>2. Into(r)[r.index] = IntoBody(r, Into(r), r.index)
  BY <1>1, IntoUnfolds
<1> QED
  BY <1>2 DEF IntoBody

(* As long as the current item is not over, none is. *)
LEMMA NoneEnded ==
  ASSUME NEW r \in Rooms, NEW x \in Rooms, HasCurrent(r), HasCurrent(x), Ended(r) = {},
         Duration(x, x.index) = Duration(r, r.index), Effective(x) = Effective(r)
  PROVE  Ended(x) = {}
<1>1. r.index \in 1..Len(r.queue) /\ r.index \in r.index..Len(r.queue)
  BY Fields DEF HasCurrent
<1>2. x.index \in 1..Len(x.queue) /\ \A k \in x.index..Len(x.queue) : x.index \in x.index..k
  BY Fields DEF HasCurrent
<1>3. \A j \in r.index..r.index : j = r.index
  BY <1>1
<1>4. ~Over(r, r.index)
  BY <1>1, <1>3 DEF Ended
<1>5. ~Over(x, x.index)
  BY <1>4, IntoStarts DEF Over
<1> QED
  BY <1>2, <1>5 DEF Ended

(* Normalization brings a room that plays to the first item that is not     *)
(* over when every item before it has been played to its end, or past the   *)
(* queue: Ended counts the items in between, however many they are.         *)
LEMMA EndedStretch ==
  ASSUME NEW r \in Rooms, HasCurrent(r)
  PROVE  \E m \in r.index..(Len(r.queue) + 1) :
           /\ Cardinality(Ended(r)) = m - r.index
           /\ \A k \in r.index..(m - 1) : Over(r, k)
           /\ m <= Len(r.queue) => ~Over(r, m)
<1> DEFINE a == r.index
           n == Len(r.queue)
           T == {k \in a..(n + 1) : k = n + 1 \/ ~Over(r, k)}
<1>1. a \in 1..n /\ n \in Nat
  BY Fields DEF HasCurrent
<1>2. n + 1 \in T /\ T \in SUBSET Nat
  BY <1>1
<1>3. PICK m \in T : \A y \in T : m <= y
  <2> HIDE DEF T
  <2> QED
    BY <1>2, NatMin
<1>4. m \in a..(n + 1) /\ m \in Nat /\ (m = n + 1 \/ ~Over(r, m))
  BY <1>1
<1>5. ASSUME NEW k \in a..(m - 1) PROVE Over(r, k)
  <2>1. k \in a..(n + 1) /\ k # n + 1 /\ ~(m <= k)
    BY <1>1, <1>4
  <2>2. k \notin T
    BY <1>3, <2>1
  <2> QED
    BY <2>1, <2>2
<1> HIDE DEF T
<1>6. Ended(r) = a..(m - 1)
  <2>1. ASSUME NEW k \in a..(m - 1) PROVE k \in Ended(r)
    <3>1. k \in a..n /\ \A j \in a..k : j \in a..(m - 1)
      BY <1>1, <1>4
    <3> QED
      BY <1>5, <3>1 DEF Ended
  <2>2. ASSUME NEW k \in Ended(r) PROVE k \in a..(m - 1)
    <3>1. k \in a..n /\ \A j \in a..k : Over(r, j)
      BY DEF Ended
    <3>2. m \in a..k => Over(r, m) /\ m # n + 1
      BY <1>1, <1>4, <3>1
    <3> QED
      BY <1>1, <1>4, <3>1, <3>2
  <2> QED
    BY <2>1, <2>2
<1>7. Cardinality(a..(m - 1)) = m - a
  <2>1. a \in Int /\ m - 1 \in Int
    BY <1>1, <1>4
  <2>2. Cardinality(a..(m - 1)) = IF a > m - 1 THEN 0 ELSE (m - 1) - a + 1
    BY <2>1, FS_Interval
  <2> QED
    BY <1>1, <1>4, <2>2
<1>8. m <= n => m # n + 1
  BY <1>1, <1>4
<1> QED
  BY <1>4, <1>5, <1>6, <1>7, <1>8

(* normalize_playback, whose loop subtracts one length after the other,     *)
(* leaves a room that plays at the first item that is not over yet when all *)
(* before it have been played out, or paused at the end of the last one;    *)
(* and it never skips an item that is not over.                             *)
THEOREM NormalizationArrives ==
  ASSUME NEW r, Good(r), r.status = "playing", r.since # Lead
  PROVE  /\ \A k \in r.index..(Normalized(r).index - 1) : Over(r, k)
         /\ IF Normalized(r).status = "paused"
            THEN Normalized(r).index = Len(r.queue) /\ Over(r, Len(r.queue))
            ELSE ~Over(r, Normalized(r).index)
<1>1. /\ r \in Rooms /\ HasCurrent(r) /\ r.index \in 1..Len(r.queue) /\ Len(r.queue) \in Nat
  BY Fields DEF Good, HasCurrent, Consistent, Active
<1>2. PICK m \in r.index..(Len(r.queue) + 1) :
           /\ Cardinality(Ended(r)) = m - r.index
           /\ \A k \in r.index..(m - 1) : Over(r, k)
           /\ m <= Len(r.queue) => ~Over(r, m)
  BY <1>1, EndedStretch
<1>3. r.index + Cardinality(Ended(r)) = m /\ m \in Nat
  BY <1>1, <1>2
<1>4. CASE m > Len(r.queue)
  <2> DEFINE x == [r EXCEPT !.index = Len(r.queue), !.pos = Duration(r, Len(r.queue))]
  <2>1. Normalized(r) = Bump(Halt(x))
    BY <1>1, <1>3, <1>4 DEF Normalized
  <2>2. Bump(Halt(x)).index = Len(r.queue) /\ Bump(Halt(x)).status = "paused"
    BY <1>1 DEF Bump, Halt, Rooms
  <2>3. /\ Len(r.queue) \in r.index..(m - 1)
        /\ \A k \in r.index..(Len(r.queue) - 1) : k \in r.index..(m - 1)
    BY <1>1, <1>2, <1>4
  <2> HIDE DEF x
  <2> QED
    BY <1>2, <2>1, <2>2, <2>3
<1>5. CASE ~(m > Len(r.queue)) /\ m > r.index
  <2>1. Normalized(r) = Bump(CueUp(r, m))
    BY <1>1, <1>3, <1>5 DEF Normalized
  <2>2. Bump(CueUp(r, m)).index = m /\ Bump(CueUp(r, m)).status = "loading"
    BY <1>1 DEF Bump, CueUp, Rooms
  <2> QED
    BY <1>1, <1>2, <1>3, <1>5, <2>1, <2>2
<1>6. CASE ~(m > Len(r.queue)) /\ ~(m > r.index)
  <2>1. Normalized(r) = [r EXCEPT !.pos = Effective(r), !.since = 0]
    BY <1>1, <1>3, <1>6 DEF Normalized
  <2>2. Normalized(r).index = r.index /\ Normalized(r).status = "playing"
    BY <1>1, <2>1 DEF Rooms
  <2>3. m = r.index /\ m <= Len(r.queue)
    BY <1>1, <1>2, <1>3, <1>6
  <2> QED
    BY <1>1, <1>2, <2>2, <2>3
<1> QED
  BY <1>4, <1>5, <1>6

-----------------------------------------------------------------------------
(* A room plays an item: what a listener hears. *)
Sounds(r, id) == r.status = "playing" /\ HasCurrent(r) /\ Current(r).id = id

(* Normalization does not touch the clock of an item that it leaves playing. *)
LEMMA NormalizedSounds ==
  ASSUME NEW r, Good(r), NEW id, Sounds(Normalized(r), id)
  PROVE  Sounds(r, id) /\ Effective(Normalized(r)) = Effective(r)
<1> DEFINE n == Cardinality(Ended(r))
<1>1. r \in Rooms /\ r.status = "playing"
  BY DEF Normalized, Sounds, Good, Rooms, Bump, Halt, CueUp
<1>2. HasCurrent(r)
  BY <1>1, Fields DEF HasCurrent, Good, Consistent, Active
<1> HIDE DEF n
<1>3. CASE r.since = Lead
  BY <1>1, <1>2, <1>3 DEF Normalized, Sounds
<1>4. CASE r.since # Lead /\ r.index + n > Len(r.queue)
  <2> DEFINE x == [r EXCEPT !.index = Len(r.queue), !.pos = Duration(r, Len(r.queue))]
  <2>1. Normalized(r) = Bump(Halt(x))
    BY <1>1, <1>2, <1>4 DEF Normalized, n
  <2>2. Bump(Halt(x)).status = "paused"
    BY <1>1 DEF Bump, Halt, Rooms
  <2> QED
    BY <2>1, <2>2 DEF Sounds
<1>5. CASE r.since # Lead /\ ~(r.index + n > Len(r.queue)) /\ r.index + n > r.index
  <2>1. Normalized(r) = Bump(CueUp(r, r.index + n))
    BY <1>1, <1>2, <1>5 DEF Normalized, n
  <2>2. Bump(CueUp(r, r.index + n)).status = "loading"
    BY <1>1 DEF Bump, CueUp, Rooms
  <2> QED
    BY <2>1, <2>2 DEF Sounds
<1>6. CASE r.since # Lead /\ ~(r.index + n > Len(r.queue)) /\ ~(r.index + n > r.index)
  <2>1. Normalized(r) = [r EXCEPT !.pos = Effective(r), !.since = 0]
    BY <1>1, <1>2, <1>6 DEF Normalized, n
  <2>2. /\ Normalized(r).queue = r.queue /\ Normalized(r).index = r.index
        /\ Normalized(r).pos = Effective(r) /\ Normalized(r).since = 0
    BY <1>1, <2>1 DEF Rooms
  <2>3. Effective(Normalized(r)) = Effective(r)
    BY <2>2 DEF Effective
  <2> QED
    BY <1>1, <1>2, <2>2, <2>3 DEF Sounds, HasCurrent, Current
<1> QED
  BY <1>3, <1>4, <1>5, <1>6

(* ... and it leaves an item playing that is not over. *)
LEMMA NormalizedPlaysOn ==
  ASSUME NEW r, Good(r), NEW id, Sounds(r, id), Ended(r) = {}
  PROVE  Sounds(Normalized(r), id) /\ Effective(Normalized(r)) = Effective(r)
<1>1. r \in Rooms /\ HasCurrent(r) /\ r.status = "playing" /\ r.index \in 1..Len(r.queue)
      /\ Len(r.queue) \in Nat
  BY Fields DEF Sounds, Good, HasCurrent
<1>2. Cardinality(Ended(r)) = 0
  BY FS_EmptySet
<1>3. ~(r.index + 0 > Len(r.queue)) /\ ~(r.index + 0 > r.index)
  BY <1>1
<1>4. CASE r.since = Lead
  BY <1>1, <1>4 DEF Normalized
<1>5. CASE r.since # Lead
  <2>1. Normalized(r) = [r EXCEPT !.pos = Effective(r), !.since = 0]
    BY <1>1, <1>2, <1>3, <1>5 DEF Normalized
  <2>2. /\ Normalized(r).queue = r.queue /\ Normalized(r).index = r.index
        /\ Normalized(r).status = "playing"
    BY <1>1, <2>1 DEF Rooms
  <2>3. Sounds(Normalized(r), id)
    BY <1>1, <2>2 DEF Sounds, HasCurrent, Current
  <2> QED
    BY <2>3, NormalizedSounds
<1> QED
  BY <1>4, <1>5

(* The items of a queue are told apart by their numbers. *)
Distinct(r) == \A j, k \in DOMAIN r.queue : r.queue[j].id = r.queue[k].id => j = k

(* Two positions that stay have different ranks. *)
LEMMA RankOne ==
  ASSUME NEW L \in Nat, NEW K \in SUBSET (1..L), NEW j \in K, NEW k \in K,
         Rank(K, j) = Rank(K, k)
  PROVE  j = k
<1>1. ASSUME NEW a \in K, NEW b \in K, a < b PROVE Rank(K, a) # Rank(K, b)
  <2>1. /\ Rank(K, a) = Cardinality(Below(K, a)) /\ Below(K, a) \subseteq K
        /\ Rank(K, b) = Cardinality(Below(K, b)) /\ Below(K, b) \subseteq K
    BY DEF Rank, Below
  <2>2. IsFiniteSet(Below(K, a)) /\ IsFiniteSet(Below(K, b)) /\ Rank(K, a) \in Nat
    <3>1. IsFiniteSet(K)
      BY RankGrows
    <3> QED
      BY <2>1, <3>1, FS_Subset, FS_CardinalityType
  <2>3. b \notin Below(K, a) /\ Below(K, a) \cup {b} \subseteq Below(K, b)
    <3>1. a \in Int /\ b \in Int /\ ~(b <= a) /\ b <= b
      BY <1>1
    <3>2. \A n \in K : n \in Int
      OBVIOUS
    <3>3. \A n \in K : n <= a => n <= b
      BY <1>1, <3>1, <3>2
    <3> QED
      BY <3>1, <3>3 DEF Below
  <2>4. Cardinality(Below(K, a) \cup {b}) = Rank(K, a) + 1
    BY <2>1, <2>2, <2>3, FS_AddElement
  <2>5. Cardinality(Below(K, a) \cup {b}) <= Cardinality(Below(K, b))
    BY <2>2, <2>3, FS_Subset
  <2> QED
    BY <2>1, <2>2, <2>4, <2>5
<1>2. j < k \/ k < j \/ j = k
  OBVIOUS
<1> QED
  BY <1>1, <1>2

(* What stays of a queue keeps its item at the rank of its position. *)
LEMMA KeptItems ==
  ASSUME NEW r \in Rooms, NEW ids
  PROVE  /\ \A k \in Stay(r, ids) :
              /\ Rank(Stay(r, ids), k) \in DOMAIN Kept(r, ids)
              /\ Kept(r, ids)[Rank(Stay(r, ids), k)] = r.queue[k]
         /\ \A n \in DOMAIN Kept(r, ids) : \E k \in Stay(r, ids) :
              Rank(Stay(r, ids), k) = n /\ Kept(r, ids)[n] = r.queue[k]
<1> DEFINE K == Stay(r, ids)
<1>1. /\ K \in SUBSET (1..Len(r.queue)) /\ Len(r.queue) \in Nat /\ Cardinality(K) \in Nat
      /\ DOMAIN Kept(r, ids) = 1..Cardinality(K)
  BY KeptList, Fields DEF Kept
<1>2. \A n \in 1..Cardinality(K) : Kept(r, ids)[n] = r.queue[CHOOSE k \in K : Rank(K, k) = n]
  BY DEF Kept
<1> HIDE DEF K
<1>3. ASSUME NEW k \in K
      PROVE  Rank(K, k) \in 1..Cardinality(K) /\ Kept(r, ids)[Rank(K, k)] = r.queue[k]
  <2>1. k \in Nat
    BY <1>1
  <2>2. Rank(K, k) \in 1..Cardinality(K)
    <3>1. Rank(K, k) \in Nat /\ Rank(K, k) >= 1 /\ Rank(K, k) <= Cardinality(K)
      BY <1>1, <1>3, <2>1, RankBounds
    <3> QED
      BY <1>1, <3>1
  <2>3. (CHOOSE j \in K : Rank(K, j) = Rank(K, k)) = k
    BY <1>1, RankOne
  <2> QED
    BY <1>2, <2>2, <2>3
<1>4. ASSUME NEW n \in 1..Cardinality(K)
      PROVE  \E k \in K : Rank(K, k) = n /\ Kept(r, ids)[n] = r.queue[k]
  <2>1. \E k \in K : Rank(K, k) = n
    BY <1>1, RankOnto
  <2> QED
    BY <1>2, <2>1
<1> QED
  BY <1>1, <1>3, <1>4 DEF K

LEMMA RemovedDistinct ==
  ASSUME NEW r, Good(r), Distinct(r), NEW ids
  PROVE  Distinct(Removed(r, ids))
<1>1. r \in Rooms
  BY DEF Good
<1>2. Removed(r, ids).queue = Kept(r, ids)
  BY <1>1 DEF Removed, Rooms, Bump, Halt, Jump
<1>3. ASSUME NEW m \in DOMAIN Kept(r, ids), NEW n \in DOMAIN Kept(r, ids),
             Kept(r, ids)[m].id = Kept(r, ids)[n].id
      PROVE  m = n
  <2>1. PICK j \in Stay(r, ids) : Rank(Stay(r, ids), j) = m /\ Kept(r, ids)[m] = r.queue[j]
    BY <1>1, KeptItems
  <2>2. PICK k \in Stay(r, ids) : Rank(Stay(r, ids), k) = n /\ Kept(r, ids)[n] = r.queue[k]
    BY <1>1, KeptItems
  <2>3. j \in DOMAIN r.queue /\ k \in DOMAIN r.queue
    BY DEF Stay
  <2> QED
    BY <1>3, <2>1, <2>2, <2>3 DEF Distinct
<1> QED
  BY <1>2, <1>3 DEF Distinct

(* Removing songs leaves the one that plays, and its clock, alone, if it is *)
(* not among them, and stops the clock if it is.                            *)
LEMMA RemovedSounds ==
  ASSUME NEW r, Good(r), Distinct(r), NEW id, Sounds(r, id), NEW ids
  PROVE  LET x == Removed(r, ids)
         IN  IF id \in ids
             THEN x.status # "playing" /\ \A k \in DOMAIN x.queue : x.queue[k].id # id
             ELSE /\ Sounds(x, id) /\ Effective(x) = Effective(r)
                  /\ Duration(x, x.index) = Duration(r, r.index)
<1> DEFINE K == Stay(r, ids)
           left == [r EXCEPT !.queue = Kept(r, ids)]
           idle == Halt([left EXCEPT !.index = 0, !.pos = 0])
           x == Removed(r, ids)
<1>1. /\ r \in Rooms /\ HasCurrent(r) /\ r.status = "playing" /\ r.index \in DOMAIN r.queue
      /\ r.queue[r.index].id = id /\ r.index \in Nat
  BY DEF Good, Sounds, HasCurrent, Current, Rooms
<1>2. r.index \in K <=> id \notin ids
  BY <1>1 DEF Stay
<1>3. x.queue = Kept(r, ids)
  BY <1>1 DEF Removed, Rooms, Bump, Halt, Jump
<1>4. CASE id \in ids
  <2>1. x.status # "playing"
    <3>1. x = Bump(idle) \/ x = Bump(Jump(left, Rank(K, r.index) + 1))
      BY <1>1, <1>2, <1>4 DEF Removed
    <3>2. Bump(idle).status = "paused"
      BY <1>1 DEF Rooms, Bump, Halt
    <3>3. Bump(Jump(left, Rank(K, r.index) + 1)).status = "loading"
      BY <1>1 DEF Rooms, Bump, Jump
    <3> QED
      BY <3>1, <3>2, <3>3
  <2>2. ASSUME NEW n \in DOMAIN x.queue PROVE x.queue[n].id # id
    <3>1. PICK k \in K : Kept(r, ids)[n] = r.queue[k]
      BY <1>1, <1>3, KeptItems
    <3>2. r.queue[k].id \notin ids
      BY DEF Stay
    <3> QED
      BY <1>3, <1>4, <3>1, <3>2
  <2> QED
    BY <1>4, <2>1, <2>2
<1>5. CASE id \notin ids
  <2> DEFINE y == [left EXCEPT !.index = Rank(K, r.index)]
  <2>1. x = Bump(y)
    BY <1>1, <1>2, <1>5 DEF Removed
  <2>2. /\ Bump(y).queue = Kept(r, ids) /\ Bump(y).index = Rank(K, r.index)
        /\ Bump(y).status = r.status /\ Bump(y).pos = r.pos /\ Bump(y).since = r.since
    BY <1>1 DEF Rooms, Bump
  <2>3. /\ Rank(K, r.index) \in DOMAIN Kept(r, ids)
        /\ Kept(r, ids)[Rank(K, r.index)] = r.queue[r.index]
    BY <1>1, <1>2, <1>5, KeptItems
  <2> HIDE DEF x, y, K
  <2>4. Sounds(x, id)
    BY <1>1, <2>1, <2>2, <2>3 DEF Sounds, HasCurrent, Current
  <2>5. Effective(x) = Effective(r) /\ Duration(x, x.index) = Duration(r, r.index)
    BY <2>1, <2>2, <2>3 DEF Effective, Duration
  <2> QED
    BY <1>5, <2>4, <2>5 DEF x
<1> QED
  BY <1>4, <1>5

-----------------------------------------------------------------------------
(* What a step does that leaves the queue as it is: an item that plays on   *)
(* has not been set back.                                                   *)
Steady(r, x) ==
  /\ x.queue = r.queue
  /\ \A id : Sounds(r, id) /\ Sounds(x, id) => Effective(x) >= Effective(r)

OrderInv == PlayInv /\ Distinct(room) /\ (adding.index = 0 => adding.pos = 0)

LEMMA EffectiveIsNat ==
  ASSUME NEW r \in Rooms PROVE Effective(r) \in Nat /\ Effective(r) >= Effective(r)
<1>1. Effective(r) \in Nat
  BY Fields
<1> QED
  BY <1>1

(* A room that is left without playing, or only normalized, is steady. *)
LEMMA CommitSteady ==
  ASSUME Good(room), NEW x, Commit(x), x.queue = room.queue,
         x.status # "playing" \/ x = room \/ x = Normalized(room)
  PROVE  Steady(room, room')
<1>1. room' = Normalized(x) /\ room \in Rooms
  BY DEF Commit, Good
<1>2. CASE x.status # "playing"
  <2>1. room' = x
    BY <1>1, <1>2 DEF Normalized
  <2> QED
    BY <1>2, <2>1 DEF Steady, Sounds
<1>3. CASE x = room
  <2>1. room'.queue = room.queue
    BY <1>1, <1>3, NormalizedQueue
  <2>2. \A id : Sounds(room', id) => Effective(room') = Effective(room)
    BY <1>1, <1>3, NormalizedSounds
  <2> QED
    BY <1>1, <2>1, <2>2, EffectiveIsNat DEF Steady
<1>4. CASE x = Normalized(room)
  <2>1. Good(x)
    BY <1>4, NormalizedGood
  <2>2. room'.queue = room.queue
    BY <1>1, <1>4, <2>1, NormalizedQueue
  <2>3. ASSUME NEW id, Sounds(room', id) PROVE Effective(room') = Effective(room)
    <3>1. Sounds(x, id) /\ Effective(room') = Effective(x)
      BY <1>1, <2>1, <2>3, NormalizedSounds
    <3>2. Effective(x) = Effective(room)
      BY <1>4, <3>1, NormalizedSounds
    <3> QED
      BY <3>1, <3>2
  <2> QED
    BY <1>1, <2>2, <2>3, EffectiveIsNat DEF Steady
<1> QED
  BY <1>2, <1>3, <1>4

(* Rooms after these edits do not play. *)
LEMMA Silent ==
  ASSUME NEW r \in Rooms, NEW k, NEW p
  PROVE  /\ Bump(CueUp(r, k)).status # "playing" /\ Bump(CueUp(r, k)).queue = r.queue
         /\ Bump(Jump(r, k)).status # "playing" /\ Bump(Jump(r, k)).queue = r.queue
         /\ Bump(Jump(Halt(r), k)).status # "playing" /\ Bump(Jump(Halt(r), k)).queue = r.queue
         /\ Bump(Halt([r EXCEPT !.pos = p])).status # "playing"
         /\ Bump(Halt([r EXCEPT !.pos = p])).queue = r.queue
         /\ Bump([r EXCEPT !.status = "loading", !.since = Never]).status # "playing"
         /\ Bump([r EXCEPT !.status = "loading", !.since = Never]).queue = r.queue
BY DEF Rooms, Bump, CueUp, Jump, Halt

LEMMA PlaySteady == ASSUME PlayInv, Play PROVE Steady(room, room')
<1> DEFINE r == Normalized(room)
<1>1. Good(room) /\ Good(r) /\ r \in Rooms /\ r.queue = room.queue
  BY NormalizedGood, NormalizedQueue DEF PlayInv, Good
<1>2. \/ Commit(r) \/ Commit(Bump(CueUp(r, 1)))
      \/ Commit(Bump([r EXCEPT !.status = "loading", !.since = Never]))
  BY DEF Play
<1> HIDE DEF r
<1>3. CASE Commit(r)
  BY <1>1, <1>3, CommitSteady DEF r
<1>4. CASE ~Commit(r)
  BY <1>1, <1>2, <1>4, Silent, CommitSteady
<1> QED
  BY <1>3, <1>4

LEMMA PauseSteady == ASSUME PlayInv, Pause PROVE Steady(room, room')
<1> DEFINE r == Normalized(room)
<1>1. Good(room) /\ r \in Rooms /\ r.queue = room.queue
  BY NormalizedGood, NormalizedQueue DEF PlayInv, Good
<1>2. Commit(Bump(Halt([r EXCEPT !.pos = Effective(r)])))
  BY DEF Pause
<1> HIDE DEF r
<1> QED
  BY <1>1, <1>2, Silent, CommitSteady

LEMMA SkipSteady == ASSUME PlayInv, NextSong \/ PreviousSong PROVE Steady(room, room')
<1>1. Good(room) /\ room \in Rooms
  BY DEF PlayInv, Good
<1>2. \E k : Commit(Bump(Jump(Halt(room), k))) \/ Commit(Bump(Jump(room, k)))
  BY DEF NextSong, PreviousSong
<1> QED
  BY <1>1, <1>2, Silent, CommitSteady

LEMMA EndedSteady == ASSUME PlayInv, NEW id, NEW o, SongEnded(id, o) PROVE Steady(room, room')
<1>1. Good(room) /\ room \in Rooms
  BY DEF PlayInv, Good
<1>2. \/ Commit(room)
      \/ \E p : Commit(Bump(Halt([room EXCEPT !.pos = p])))
      \/ \E k : Commit(Bump(CueUp(room, k)))
  BY DEF SongEnded
<1> QED
  BY <1>1, <1>2, Silent, CommitSteady

(* A player that is ready starts another item than the one that was playing *)
(* when its report came.                                                    *)
LEMMA ReadySteady == ASSUME OrderInv, NEW id, Ready(id) PROVE Steady(room, room')
<1> DEFINE r == Normalized(room)
           x == [r EXCEPT !.status = "playing", !.pos = 0, !.since = Lead]
<1>1. Good(room) /\ room \in Rooms /\ Good(r) /\ r \in Rooms /\ r.queue = room.queue
  BY NormalizedGood, NormalizedQueue DEF OrderInv, PlayInv, Good
<1>2. CASE Commit(room)
  BY <1>1, <1>2, CommitSteady
<1>3. CASE HasCurrent(r) /\ r.status = "loading" /\ Commit(Bump(x))
  <2>1. room.status = "playing" => r.index # room.index
    <3>1. Bump(Halt(room)).status = "paused"
      BY <1>1 DEF Bump, Halt, Rooms
    <3> SUFFICES ASSUME room.status = "playing" PROVE r.index # room.index
      OBVIOUS
    <3>2. HasCurrent(room) /\ room.index \in Nat
      BY <1>1, Fields DEF HasCurrent, Good, Consistent, Active
    <3> DEFINE n == Cardinality(Ended(room))
    <3>3. n \in Nat
      BY <1>1, <3>2, EndedSize
    <3> HIDE DEF n
    <3>4. r = Bump(CueUp(room, room.index + n)) /\ room.index + n > room.index
      <4>1. CASE room.since = Lead
        BY <1>3, <3>2, <4>1 DEF Normalized
      <4>2. CASE room.since # Lead /\ room.index + n > Len(room.queue)
        <5> DEFINE z == [room EXCEPT !.index = Len(room.queue),
                                     !.pos = Duration(room, Len(room.queue))]
        <5>1. r = Bump(Halt(z))
          BY <3>2, <4>2 DEF Normalized, n
        <5>2. Bump(Halt(z)).status = "paused"
          BY <1>1 DEF Bump, Halt, Rooms
        <5> HIDE DEF r, z
        <5> QED
          BY <1>3, <5>1, <5>2
      <4>3. CASE room.since # Lead /\ ~(room.index + n > Len(room.queue))
                 /\ room.index + n > room.index
        BY <3>2, <4>3 DEF Normalized, n
      <4>4. CASE room.since # Lead /\ ~(room.index + n > Len(room.queue))
                 /\ ~(room.index + n > room.index)
        <5>1. r = [room EXCEPT !.pos = Effective(room), !.since = 0]
          BY <3>2, <4>4 DEF Normalized, n
        <5>2. [room EXCEPT !.pos = Effective(room), !.since = 0].status = "playing"
          BY <1>1 DEF Rooms
        <5> HIDE DEF r
        <5> QED
          BY <1>3, <5>1, <5>2
      <4> QED
        BY <4>1, <4>2, <4>3, <4>4
    <3>5. Bump(CueUp(room, room.index + n)).index = room.index + n
      BY <1>1 DEF Bump, CueUp, Rooms
    <3> QED
      BY <3>2, <3>3, <3>4, <3>5
  <2> HIDE DEF r
  <2>2. /\ Bump(x).queue = room.queue /\ Bump(x).index = r.index
        /\ Bump(x).status = "playing" /\ Bump(x).since = Lead
    BY <1>1 DEF Bump, Rooms
  <2> HIDE DEF x
  <2>3. HasCurrent(Bump(x))
    BY <1>1, <1>3, <2>2 DEF HasCurrent
  <2>4. room' = Bump(x)
    BY <1>3, <2>2, <2>3 DEF Commit, Normalized
  <2>5. ASSUME NEW i, Sounds(room, i), Sounds(room', i) PROVE FALSE
    <3>1. /\ room.queue[room.index].id = i /\ room.queue[r.index].id = i
          /\ room.index \in DOMAIN room.queue /\ r.index \in DOMAIN room.queue
          /\ room.status = "playing"
      BY <2>2, <2>4, <2>5 DEF Sounds, HasCurrent, Current
    <3> QED
      BY <2>1, <3>1 DEF OrderInv, Distinct
  <2> QED
    BY <2>2, <2>4, <2>5 DEF Steady
<1>4. Commit(room) \/ (HasCurrent(r) /\ r.status = "loading" /\ Commit(Bump(x)))
  BY DEF Ready
<1> QED
  BY <1>2, <1>3, <1>4

LEMMA PausedSteady == ASSUME NEW r \in Rooms PROVE Steady(r, Paused(r))
<1>1. Paused(r).queue = r.queue /\ Paused(r).status # "playing"
  BY DEF Paused, Bump, Halt, Rooms, Active
<1> QED
  BY <1>1 DEF Steady, Sounds

LEMMA TimeSteady == ASSUME Good(room), TimePasses PROVE Steady(room, room')
<1>1. /\ room'.queue = room.queue /\ room'.pos = room.pos /\ room'.since = room.since + 1
      /\ room'.status = room.status
  BY DEF TimePasses, Good, Rooms
<1>2. room.pos \in Nat /\ room.since \in Int
  BY Fields DEF Good
<1>3. Effective(room') >= Effective(room)
  BY <1>1, <1>2 DEF Effective
<1> QED
  BY <1>1, <1>3 DEF Steady

(* Seeking aside, the steps that are not edits of the queue are steady. *)
Edits ==
  \/ \E item \in Items : AddSong(item) \/ AddAnswered(item)
  \/ \E id \in 1..MaxItem : RemoveItem(id)
  \/ \E song \in Songs : TrackDeleted(song)
Seeks == \E p \in 0..MaxPos : Seek(p)

LEMMA StepSteady ==
  ASSUME OrderInv, [PlayNext]_playVars, ~Edits, ~Seeks
  PROVE  Steady(room, room')
<1>1. PlayInv /\ Good(room) /\ room \in Rooms
  BY DEF OrderInv, PlayInv, Good
<1>2. ASSUME room' = room PROVE Steady(room, room')
  BY <1>1, <1>2, EffectiveIsNat DEF Steady
<1>3. CASE PlayCommand
  BY <1>1, <1>2, <1>3, PlaySteady, PauseSteady, SkipSteady, EndedSteady, ReadySteady
     DEF PlayCommand, Edits, Seeks, AddAsked, AddRefused
<1>4. CASE ClockTick
  BY <1>1, <1>4, CommitSteady DEF ClockTick
<1>5. CASE PauseRoom \/ Restart
  BY <1>1, <1>5, PausedSteady DEF PauseRoom, Restart
<1>6. CASE Crash \/ UNCHANGED playVars
  BY <1>2, <1>6 DEF Crash, playVars
<1>7. CASE TimePasses
  BY <1>1, <1>7, TimeSteady
<1> QED
  BY <1>3, <1>4, <1>5, <1>6, <1>7 DEF PlayNext

LEMMA SeekQueue == ASSUME PlayInv, NEW p \in 0..MaxPos, Seek(p) PROVE room'.queue = room.queue
<1> DEFINE r == Normalized(room)
           d == Duration(r, r.index)
           q == IF d > 0 /\ p > d THEN d ELSE p
           z == IF r.status = "playing" THEN 0 ELSE Never
           x == [r EXCEPT !.pos = q, !.since = z]
<1>1. r \in Rooms /\ r.queue = room.queue
  BY NormalizedGood, NormalizedQueue DEF PlayInv, Good
<1>2. room' = Normalized(Bump(x))
  BY DEF Seek, Commit
<1> HIDE DEF r
<1>3. Bump(x).queue = r.queue
  BY <1>1 DEF Bump, Rooms
<1>4. Bump(x) \in [queue : {r.queue}, index : {r.index}, status : {r.status}, pos : {q},
                   since : {z}, rev : {r.rev + 1}]
  BY <1>1 DEF Bump, Rooms
<1> HIDE DEF x, q, z, d
<1>5. Normalized(Bump(x)).queue = Bump(x).queue
  BY <1>4 DEF Normalized, Bump, Halt, CueUp
<1> QED
  BY <1>1, <1>2, <1>3, <1>5

-----------------------------------------------------------------------------
(* What an edit of the queue does: items stay apart, a song that plays is   *)
(* not set back, and unless it is over or the add is one that found no      *)
(* current song, it plays on as long as it is in the queue.                 *)
Edited(r, x, settled) ==
  /\ Distinct(x)
  /\ \A id : Sounds(r, id) =>
       /\ Sounds(x, id) => Effective(x) >= Effective(r)
       /\ settled /\ Ended(r) = {} /\ (\E k \in DOMAIN x.queue : x.queue[k].id = id)
            => Sounds(x, id) /\ Effective(x) = Effective(r)

(* An edit may be followed by the normalization that comes with the         *)
(* broadcast.                                                               *)
LEMMA NormalizedEdit ==
  ASSUME NEW r, NEW x, NEW settled \in BOOLEAN, Good(r), Good(x), Edited(r, x, settled),
         \A id : Sounds(r, id) /\ Sounds(x, id) =>
                  Effective(x) = Effective(r) /\ Duration(x, x.index) = Duration(r, r.index)
  PROVE  Edited(r, Normalized(x), settled)
<1>1. Normalized(x).queue = x.queue /\ r \in Rooms /\ x \in Rooms
  BY NormalizedQueue DEF Good
<1>2. Distinct(Normalized(x))
  BY <1>1 DEF Edited, Distinct
<1>3. ASSUME NEW id, Sounds(r, id), Sounds(Normalized(x), id)
      PROVE  Effective(Normalized(x)) >= Effective(r)
  <2>1. Sounds(x, id) /\ Effective(Normalized(x)) = Effective(x)
    BY <1>3, NormalizedSounds
  <2> QED
    BY <1>3, <2>1 DEF Edited
<1>4. ASSUME NEW id, Sounds(r, id), settled, Ended(r) = {},
             \E k \in DOMAIN x.queue : x.queue[k].id = id
      PROVE  Sounds(Normalized(x), id) /\ Effective(Normalized(x)) = Effective(r)
  <2>1. Sounds(x, id) /\ Effective(x) = Effective(r)
    BY <1>4 DEF Edited
  <2>2. Ended(x) = {}
    BY <1>1, <1>4, <2>1, NoneEnded DEF Sounds
  <2> QED
    BY <2>1, <2>2, NormalizedPlaysOn
<1> QED
  BY <1>1, <1>2, <1>3, <1>4 DEF Edited

LEMMA AddedEdit ==
  ASSUME Good(room), Distinct(room), NEW item \in NewItems,
         NEW read \in [index : Nat, pos : Nat, rev : Nat], read.index = 0 => read.pos = 0
  PROVE  Edited(room, Normalized(Added(item, read)), read.index # 0)
<1> DEFINE x == Added(item, read)
<1>1. /\ room \in Rooms /\ room.queue \in Seq(Items) /\ Len(room.queue) \in Nat
      /\ item \in Items /\ \A k \in DOMAIN room.queue : room.queue[k].id < item.id
      /\ room.index \in Nat /\ read.index \in Nat
  BY Fields DEF Good, NewItems
<1>2. Good(x)
  BY <1>1, AddedGood
<1>3. /\ x.queue = Append(room.queue, item) /\ x.index = (IF read.index < 1 THEN 1 ELSE room.index)
      /\ x.status = room.status /\ x.since = room.since /\ x.pos = room.pos
  BY <1>1 DEF Rooms, Added
<1>4. /\ DOMAIN x.queue = 1..Len(room.queue) + 1 /\ DOMAIN room.queue = 1..Len(room.queue)
      /\ x.queue[Len(room.queue) + 1] = item
      /\ \A k \in 1..Len(room.queue) : x.queue[k] = room.queue[k]
  BY <1>1, <1>3
<1> HIDE DEF x
<1>5. \A k \in 1..Len(room.queue) : room.queue[k].id \in Int
  <2>1. \A k \in 1..Len(room.queue) : room.queue[k] \in Items
    BY <1>1
  <2> QED
    BY <2>1, PlayBoundsAssumption DEF Items
<1>6. item.id \in Int
  BY <1>1, PlayBoundsAssumption DEF Items
<1>7. Distinct(x)
  <2>1. ASSUME NEW j \in DOMAIN x.queue, NEW k \in DOMAIN x.queue, x.queue[j].id = x.queue[k].id
        PROVE  j = k
    <3>1. CASE j \in 1..Len(room.queue) /\ k \in 1..Len(room.queue)
      BY <1>4, <2>1, <3>1 DEF Distinct
    <3>2. CASE j \in 1..Len(room.queue) /\ k = Len(room.queue) + 1
      BY <1>1, <1>4, <1>5, <1>6, <2>1, <3>2
    <3>3. CASE k \in 1..Len(room.queue) /\ j = Len(room.queue) + 1
      <4>1. room.queue[k].id < item.id /\ room.queue[k].id = item.id
        BY <1>1, <1>4, <2>1, <3>3
      <4>2. room.queue[k].id \in Int
        BY <1>5, <3>3
      <4> QED
        BY <1>6, <4>1, <4>2
    <3> QED
      BY <1>1, <1>4, <3>1, <3>2, <3>3
  <2> QED
    BY <2>1 DEF Distinct
<1>8. Effective(x) = Effective(room)
  BY <1>3 DEF Effective
<1>9. ASSUME NEW id, Sounds(room, id), read.index # 0
      PROVE  Sounds(x, id)
  <2>1. x.index = room.index /\ room.index \in 1..Len(room.queue)
    BY <1>1, <1>3, <1>4, <1>9 DEF Sounds, HasCurrent
  <2>2. x.index \in DOMAIN x.queue /\ x.queue[x.index] = room.queue[room.index]
    BY <1>1, <1>4, <2>1
  <2> QED
    BY <1>3, <1>9, <2>2 DEF Sounds, HasCurrent, Current
<1>10. ASSUME NEW id, Sounds(room, id), Sounds(x, id)
       PROVE  Duration(x, x.index) = Duration(room, room.index)
  <2>1. /\ room.index \in 1..Len(room.queue) /\ room.queue[room.index].id = id
        /\ x.index \in DOMAIN x.queue /\ x.queue[x.index].id = id
        /\ room.index \in DOMAIN x.queue /\ x.queue[room.index] = room.queue[room.index]
    BY <1>1, <1>4, <1>10 DEF Sounds, HasCurrent, Current
  <2>2. x.index = room.index
    BY <1>7, <2>1 DEF Distinct
  <2> QED
    BY <2>1, <2>2 DEF Duration
<1>11. Effective(room) \in Nat
  BY <1>1, Fields
<1>12. Edited(room, x, read.index # 0)
  BY <1>7, <1>8, <1>9, <1>11 DEF Edited
<1>13. Edited(room, Normalized(x), read.index # 0)
  BY <1>2, <1>8, <1>10, <1>12, NormalizedEdit
<1> QED
  BY <1>13 DEF x

LEMMA RemovedEdit ==
  ASSUME NEW r, Good(r), Distinct(r), NEW ids
  PROVE  /\ Edited(r, Removed(r, ids), TRUE)
         /\ Edited(r, Normalized(Removed(r, ids)), TRUE)
<1> DEFINE x == Removed(r, ids)
<1>1. Good(x) /\ Distinct(x) /\ r \in Rooms
  BY RemovedGood, RemovedDistinct DEF Good
<1>2. ASSUME NEW id, Sounds(r, id)
      PROVE  IF id \in ids
             THEN x.status # "playing" /\ \A k \in DOMAIN x.queue : x.queue[k].id # id
             ELSE /\ Sounds(x, id) /\ Effective(x) = Effective(r)
                  /\ Duration(x, x.index) = Duration(r, r.index)
  BY <1>2, RemovedSounds
<1> HIDE DEF x
<1>3. ASSUME NEW id, Sounds(r, id), Sounds(x, id)
      PROVE  Effective(x) = Effective(r) /\ Duration(x, x.index) = Duration(r, r.index)
  BY <1>2, <1>3 DEF Sounds
<1>4. Edited(r, x, TRUE)
  <2>1. Effective(r) \in Nat /\ Effective(r) >= Effective(r)
    BY <1>1, EffectiveIsNat
  <2> QED
    BY <1>1, <1>2, <1>3, <2>1 DEF Edited
<1>5. Edited(r, Normalized(x), TRUE)
  BY <1>1, <1>3, <1>4, NormalizedEdit
<1> QED
  BY <1>4, <1>5 DEF x

LEMMA StepEdited ==
  ASSUME OrderInv, Edits
  PROVE  Edited(room, room', ~(adding # NoAdd /\ adding.index = 0))
<1> DEFINE settled == ~(adding # NoAdd /\ adding.index = 0)
<1>1. Good(room) /\ Distinct(room) /\ Adding /\ room \in Rooms
  BY DEF OrderInv, PlayInv, Good
<1>2. ASSUME NEW x, Edited(room, x, TRUE) PROVE Edited(room, x, settled)
  BY <1>2 DEF Edited
<1>3. ASSUME NEW item \in Items, AddSong(item) PROVE Edited(room, room', settled)
  <2>1. item \in NewItems /\ room' = Normalized(Added(item, Seen))
    BY <1>3 DEF AddSong, Commit
  <2>2. /\ Seen \in [index : Nat, pos : Nat, rev : Nat] /\ Seen.index = room.index
        /\ Seen.pos = room.pos
    BY <1>1, Fields DEF Seen, Good, Rooms
  <2>3. Seen.index = 0 => Seen.pos = 0
    BY <1>1, <2>2 DEF Good, Consistent
  <2>4. Edited(room, room', Seen.index # 0)
    BY <1>1, <2>1, <2>2, <2>3, AddedEdit
  <2>5. CASE room.index = 0
    <3>1. ~HasCurrent(room)
      BY <1>1, <2>5, Fields DEF HasCurrent
    <3> QED
      BY <2>4, <3>1 DEF Edited, Sounds
  <2>6. CASE room.index # 0
    BY <2>2, <2>4, <2>6 DEF Edited
  <2> QED
    BY <2>5, <2>6
<1>4. ASSUME NEW item \in Items, AddAnswered(item) PROVE Edited(room, room', settled)
  <2>1. item \in NewItems /\ adding # NoAdd /\ room' = Normalized(Added(item, adding))
    BY <1>4 DEF AddAnswered
  <2>2. adding \in [index : Nat, pos : Nat, rev : Nat] /\ (adding.index = 0 => adding.pos = 0)
    BY <1>1, <2>1 DEF Adding, OrderInv
  <2>3. Edited(room, room', adding.index # 0)
    BY <1>1, <2>1, <2>2, AddedEdit
  <2> QED
    BY <2>1, <2>3 DEF Edited
<1>5. ASSUME NEW id, RemoveItem(id) PROVE Edited(room, room', settled)
  <2>1. room' = Normalized(Removed(room, {id}))
    BY <1>5 DEF RemoveItem, Commit
  <2> QED
    BY <1>1, <1>2, <2>1, RemovedEdit
<1>6. ASSUME NEW song, TrackDeleted(song) PROVE Edited(room, room', settled)
  <2>1. PICK ids : room' = Removed(room, ids)
    BY <1>6 DEF TrackDeleted
  <2> QED
    BY <1>1, <1>2, <2>1, RemovedEdit
<1> HIDE DEF settled
<1>7. Edited(room, room', settled)
  BY <1>3, <1>4, <1>5, <1>6 DEF Edits
<1> QED
  BY <1>7 DEF settled

-----------------------------------------------------------------------------
(* Items stay apart, and an add that waits has read a consistent room. *)
LEMMA OrderStart == ASSUME PlayInit PROVE OrderInv
<1>1. PlayInv /\ room.queue = Seed /\ adding = NoAdd
  BY PlayStart DEF PlayInit, NewRoom
<1>2. adding.index = 0 /\ adding.pos = 0
  BY <1>1 DEF NoAdd
<1>3. Distinct(room)
  BY <1>1, SeedAssumption DEF Distinct
<1> QED
  BY <1>1, <1>2, <1>3 DEF OrderInv

LEMMA OrderStep == ASSUME OrderInv, [PlayNext]_playVars PROVE OrderInv'
<1>1. PlayInv /\ PlayInv' /\ Good(room) /\ Distinct(room)
  BY PlayStep DEF OrderInv, PlayInv
<1>2. Distinct(room)'
  <2>1. CASE Edits
    BY <2>1, StepEdited DEF Edited, Distinct
  <2>2. CASE Seeks
    BY <1>1, <2>2, SeekQueue DEF Seeks, Distinct
  <2>3. CASE ~Edits /\ ~Seeks
    BY <1>1, <2>3, StepSteady DEF Steady, Distinct
  <2> QED
    BY <2>1, <2>2, <2>3
<1>3. (adding.index = 0 => adding.pos = 0)'
  <2>1. adding' = adding \/ adding' = NoAdd \/ adding' = Seen
    BY DEF PlayNext, PlayCommand, Play, Pause, NextSong, PreviousSong, Seek, SongEnded, Ready,
       RemoveItem, AddSong, AddAnswered, AddAsked, AddRefused, TrackDeleted, ClockTick, PauseRoom,
       Crash, Restart, TimePasses, Commit, playVars
  <2>2. NoAdd.pos = 0 /\ Seen.index = room.index /\ Seen.pos = room.pos
    BY DEF NoAdd, Seen
  <2> QED
    BY <1>1, <2>1, <2>2 DEF OrderInv, Good, Consistent
<1> QED
  BY <1>1, <1>2, <1>3 DEF OrderInv

LEMMA OrderInvariant == PlaySpec => []OrderInv
BY OrderStart, OrderStep, PTL DEF PlaySpec

(* While one item keeps playing, no command, report, edit, broadcast, late  *)
(* add or restart sets the clock back; only a seek does (control_room).     *)
THEOREM ClockRunsOn == PlaySpec => NoRewind
<1>1. ASSUME OrderInv, [PlayNext]_playVars, NEW id \in 1..MaxItem, Plays(id), Plays(id)',
             ~\E p \in 0..MaxPos : Seek(p)
      PROVE  Effective(room)' >= Effective(room)
  <2>1. Sounds(room, id) /\ Sounds(room', id) /\ ~Seeks
    BY <1>1 DEF Plays, Sounds, HasCurrent, Current, Seeks
  <2>2. Effective(room') >= Effective(room)
    BY <1>1, <2>1, StepSteady, StepEdited DEF Steady, Edited
  <2> QED
    BY <2>2 DEF Effective
<1>2. OrderInv /\ [PlayNext]_playVars =>
        [\A id \in 1..MaxItem :
           Plays(id) /\ Plays(id)' =>
             Effective(room)' >= Effective(room) \/ \E p \in 0..MaxPos : Seek(p)]_playVars
  BY <1>1
<1> QED
  BY <1>2, OrderInvariant, PTL DEF PlaySpec, NoRewind

(* Adding songs and removing others leave the song that plays, and its      *)
(* clock, alone (_remove_queue_items, add_track), but for the add that      *)
(* found no current song before it awaited a peer.                          *)
THEOREM EditsSpareTheSong == PlaySpec => EditsKeepSong
<1>1. ASSUME OrderInv, [PlayNext]_playVars, NEW id \in 1..MaxItem, Plays(id), Ended(room) = {},
             room'.queue # room.queue, \E k \in DOMAIN room'.queue : room'.queue[k].id = id,
             ~(adding # NoAdd /\ adding.index = 0)
      PROVE  Plays(id)' /\ Effective(room)' = Effective(room)
  <2>1. Sounds(room, id)
    BY <1>1 DEF Plays, Sounds
  <2>2. Edits
    BY <1>1, StepSteady, SeekQueue DEF Steady, Seeks, OrderInv
  <2>3. Sounds(room', id) /\ Effective(room') = Effective(room)
    BY <1>1, <2>1, <2>2, StepEdited DEF Edited
  <2> QED
    BY <2>3 DEF Plays, Sounds, HasCurrent, Current, Effective
<1>2. OrderInv /\ [PlayNext]_playVars =>
        [\A id \in 1..MaxItem :
           /\ Plays(id) /\ Ended(room) = {}
           /\ room'.queue # room.queue
           /\ \E k \in DOMAIN room'.queue : room'.queue[k].id = id
           => \/ Plays(id)' /\ Effective(room)' = Effective(room)
              \/ adding # NoAdd /\ adding.index = 0]_playVars
  BY <1>1
<1> QED
  BY <1>2, OrderInvariant, PTL DEF PlaySpec, EditsKeepSong

-----------------------------------------------------------------------------
(* Nobody has a live queue without being counted. *)
LiveAreUsers == \A u \in Users : Live(u) => u \in users

(* The inductive invariant. *)
HubInv ==
  /\ HubTypeOK /\ WithinCapacity /\ LiveAreUsers /\ GraceExact
  /\ MembersAreTicked /\ RoomIsOpen

HubSteps == HubNext \/ \E u \in Users, owns \in BOOLEAN : DeleteAccount(u, owns)
-----------------------------------------------------------------------------
(* An element that is not in a finite set adds one to its size, one that is *)
(* taken away subtracts at most one.                                        *)
LEMMA Sizes ==
  ASSUME NEW S \in SUBSET Users, NEW u \in Users
  PROVE  /\ IsFiniteSet(S) /\ Cardinality(S) \in Nat
         /\ Cardinality(S \cup {u}) = IF u \in S THEN Cardinality(S) ELSE Cardinality(S) + 1
         /\ Cardinality(S \ {u}) = IF u \in S THEN Cardinality(S) - 1 ELSE Cardinality(S)
<1>1. IsFiniteSet(S)
  BY FS_Subset, HubAssumption
<1>2. Cardinality(S) \in Nat
  BY <1>1, FS_CardinalityType
<1>3. Cardinality(S \cup {u}) = IF u \in S THEN Cardinality(S) ELSE Cardinality(S) + 1
  BY <1>1, FS_AddElement
<1>4. Cardinality(S \ {u}) = IF u \in S THEN Cardinality(S) - 1 ELSE Cardinality(S)
  BY <1>1, FS_RemoveElement
<1> QED
  BY <1>1, <1>2, <1>3, <1>4

(* What these sizes are in a well-formed hub. *)
LEMMA Counts ==
  ASSUME HubTypeOK, NEW u \in Users
  PROVE  /\ Cardinality(users) \in Nat /\ Cardinality(reserved) \in Nat
         /\ Cardinality(users \cup {u}) =
              IF u \in users THEN Cardinality(users) ELSE Cardinality(users) + 1
         /\ Cardinality(reserved \cup {u}) =
              IF u \in reserved THEN Cardinality(reserved) ELSE Cardinality(reserved) + 1
         /\ Cardinality(users \ {u}) =
              IF u \in users THEN Cardinality(users) - 1 ELSE Cardinality(users)
         /\ Cardinality(reserved \ {u}) =
              IF u \in reserved THEN Cardinality(reserved) - 1 ELSE Cardinality(reserved)
<1>1. users \in SUBSET Users /\ reserved \in SUBSET Users
  BY DEF HubTypeOK
<1> QED
  BY <1>1, Sizes

(* The empty room satisfies the invariant. *)
LEMMA HubInitially == HubInit => HubInv
<1> SUFFICES ASSUME HubInit PROVE HubInv
  OBVIOUS
<1>1. HubTypeOK
  BY DEF HubInit, HubTypeOK, NoTabs
<1>2. WithinCapacity
  BY FS_EmptySet, HubAssumption DEF HubInit, WithinCapacity
<1>3. LiveAreUsers /\ GraceExact
  BY DEF HubInit, LiveAreUsers, GraceExact, Live, NoTabs
<1>4. MembersAreTicked /\ RoomIsOpen
  BY DEF HubInit, MembersAreTicked, RoomIsOpen, Empty
<1> QED
  BY <1>1, <1>2, <1>3, <1>4 DEF HubInv

(* A listener who joins keeps the invariant. *)
LEMMA JoinKeeps ==
  ASSUME HubInv, NEW u \in Users, Join(u)
  PROVE  HubInv'
<1> USE DEF HubInv
<1>1. HubTypeOK'
  BY DEF HubTypeOK, Join
<1>2. WithinCapacity'
  <2>1. CASE u \in Members
    BY <2>1 DEF HubTypeOK, WithinCapacity, Join, Members
  <2>2. CASE u \notin Members
    <3>1. users' = users /\ reserved' = reserved \cup {u}
      BY <2>2 DEF Join, Members
    <3>2. Cardinality(users) + Cardinality(reserved) < MaxUsers
      <4>1. Cardinality(users) \in Nat /\ Cardinality(reserved) \in Nat /\ MaxUsers \in Nat
        BY Counts, HubAssumption
      <4>2. ~(Cardinality(users) + Cardinality(reserved) >= MaxUsers)
        BY <2>2 DEF Join, Full
      <4> QED
        BY <4>1, <4>2
    <3>3. Cardinality(reserved \cup {u}) = Cardinality(reserved) + 1
      BY <2>2, Counts DEF Members
    <3>4. Cardinality(users) \in Nat /\ Cardinality(reserved) \in Nat
      BY Counts
    <3> QED
      BY <2>2, <3>1, <3>2, <3>3, <3>4, HubAssumption DEF WithinCapacity, Members
  <2> QED
    BY <2>1, <2>2
<1>3. LiveAreUsers' /\ GraceExact'
  BY DEF Join, LiveAreUsers, GraceExact, Live
<1>4. MembersAreTicked' /\ RoomIsOpen'
  BY DEF Join, MembersAreTicked, RoomIsOpen
<1> QED
  BY <1>1, <1>2, <1>3, <1>4

(* A stream that opens keeps it. *)
LEMMA SubscribeKeeps ==
  ASSUME HubInv, NEW u \in Users, NEW t \in Tabs, Subscribe(u, t)
  PROVE  HubInv'
<1> USE DEF HubInv
<1>1. HubTypeOK'
  BY DEF HubTypeOK, Subscribe
<1>2. WithinCapacity'
  <2>1. users' = users \cup {u} /\ reserved' = reserved \ {u}
    BY DEF Subscribe
  <2>2. users' \cap reserved' = {}
    BY <2>1 DEF WithinCapacity
  <2>3. /\ Cardinality(users) \in Nat /\ Cardinality(reserved) \in Nat
        /\ Cardinality(users \cup {u}) =
             IF u \in users THEN Cardinality(users) ELSE Cardinality(users) + 1
        /\ Cardinality(reserved \ {u}) =
             IF u \in reserved THEN Cardinality(reserved) - 1 ELSE Cardinality(reserved)
    BY Counts
  <2>4. u \in users \/ Cardinality(users) + Cardinality(reserved \ {u}) < MaxUsers
    BY DEF Subscribe, Admits
  <2>5. Cardinality(users') + Cardinality(reserved') <= MaxUsers
    BY <2>1, <2>3, <2>4, HubAssumption DEF WithinCapacity
  <2> QED
    BY <2>2, <2>5 DEF WithinCapacity
<1>3. \A v \in Users : Live(v)' <=> v = u \/ Live(v)
  BY DEF Subscribe, Live, HubTypeOK
<1>4. LiveAreUsers' /\ GraceExact'
  BY <1>3 DEF Subscribe, LiveAreUsers, GraceExact, HubTypeOK
<1>5. MembersAreTicked' /\ RoomIsOpen'
  BY DEF Subscribe, MembersAreTicked, RoomIsOpen
<1> QED
  BY <1>1, <1>2, <1>4, <1>5

(* A stream that ends keeps it. *)
LEMMA UnsubscribeKeeps ==
  ASSUME HubInv, NEW u \in Users, NEW t \in Tabs, Unsubscribe(u, t)
  PROVE  HubInv'
<1> USE DEF HubInv
<1>1. HubTypeOK'
  BY DEF HubTypeOK, Unsubscribe
<1>2. WithinCapacity' /\ MembersAreTicked' /\ RoomIsOpen'
  BY DEF Unsubscribe, WithinCapacity, MembersAreTicked, Empty, RoomIsOpen
<1>3. \A v \in Users : v # u => (Live(v)' <=> Live(v))
  BY DEF Unsubscribe, Live, HubTypeOK
<1>4. Live(u)' => Live(u)
  BY DEF Unsubscribe, Live, HubTypeOK
<1>5. LiveAreUsers' /\ GraceExact'
  BY <1>3, <1>4 DEF Unsubscribe, LiveAreUsers, GraceExact, HubTypeOK
<1> QED
  BY <1>1, <1>2, <1>5

(* A listener who is gone gives up a place, and the last one the key. *)
LEMMA LeaveKeepsInv ==
  ASSUME HubInv, NEW u \in Users, FinishLeave(u)
  PROVE  HubInv'
<1> USE DEF HubInv
<1>1. HubTypeOK'
  BY DEF HubTypeOK, FinishLeave
<1>2. /\ Cardinality(users \ {u}) = Cardinality(users) - 1
      /\ Cardinality(users) \in Nat /\ Cardinality(reserved) \in Nat
  BY Counts DEF FinishLeave, GraceExact
<1>3. WithinCapacity'
  BY <1>2, HubAssumption DEF FinishLeave, WithinCapacity
<1>4. LiveAreUsers' /\ GraceExact'
  BY DEF FinishLeave, LiveAreUsers, GraceExact, Live, HubTypeOK
<1>5. MembersAreTicked' /\ RoomIsOpen'
  BY DEF FinishLeave, MembersAreTicked, RoomIsOpen, Empty
<1> QED
  BY <1>1, <1>3, <1>4, <1>5

(* A reservation that runs out keeps it. *)
LEMMA ExpireKeeps ==
  ASSUME HubInv, NEW u \in Users, ExpireReservation(u)
  PROVE  HubInv'
<1> USE DEF HubInv
<1>1. HubTypeOK'
  BY DEF HubTypeOK, ExpireReservation
<1>2. /\ Cardinality(reserved \ {u}) = Cardinality(reserved) - 1
      /\ Cardinality(users) \in Nat /\ Cardinality(reserved) \in Nat
  BY Counts DEF ExpireReservation
<1>3. WithinCapacity'
  BY <1>2, HubAssumption DEF ExpireReservation, WithinCapacity
<1>4. LiveAreUsers' /\ GraceExact'
  BY DEF ExpireReservation, LiveAreUsers, GraceExact, Live
<1>5. MembersAreTicked' /\ RoomIsOpen'
  BY DEF ExpireReservation, MembersAreTicked, RoomIsOpen, Empty
<1> QED
  BY <1>1, <1>3, <1>4, <1>5

(* A room, its owner's account or the process comes and goes. *)
LEMMA RoomsComeAndGo ==
  ASSUME HubInv,
         Create \/ Delete \/ Forget \/ \E u \in Users, owns \in BOOLEAN : DeleteAccount(u, owns)
  PROVE  HubInv'
<1> USE DEF HubInv
<1>1. CASE Create
  BY <1>1 DEF Create, memory, HubTypeOK, WithinCapacity, LiveAreUsers, GraceExact, Live,
              MembersAreTicked, Empty, RoomIsOpen
<1>2. CASE Delete
  <2>1. HubTypeOK'
    BY <1>2 DEF Delete, HubTypeOK
  <2>2. WithinCapacity'
    BY <1>2, FS_EmptySet, HubAssumption DEF Delete, WithinCapacity
  <2>3. \A v \in Users : ~Live(v)'
    BY <1>2 DEF Delete, Live
  <2> QED
    BY <1>2, <2>1, <2>2, <2>3
       DEF Delete, LiveAreUsers, GraceExact, MembersAreTicked, Empty, RoomIsOpen
<1>3. CASE Forget
  <2>1. HubTypeOK'
    BY <1>3 DEF Forget, HubTypeOK, NoTabs
  <2>2. WithinCapacity'
    BY <1>3, FS_EmptySet, HubAssumption DEF Forget, WithinCapacity
  <2>3. \A v \in Users : ~Live(v)'
    BY <1>3 DEF Forget, Live, NoTabs
  <2> QED
    BY <1>3, <2>1, <2>2, <2>3
       DEF Forget, LiveAreUsers, GraceExact, MembersAreTicked, Empty, RoomIsOpen
<1>4. ASSUME NEW u \in Users, NEW owns \in BOOLEAN, DeleteAccount(u, owns)
      PROVE  HubInv'
  BY <1>4 DEF DeleteAccount, memory, HubTypeOK, WithinCapacity, LiveAreUsers, GraceExact, Live,
              MembersAreTicked, Empty, RoomIsOpen
<1> QED
  BY <1>1, <1>2, <1>3, <1>4
-----------------------------------------------------------------------------
(* The invariant is inductive. *)
LEMMA HubStep == HubInv /\ [HubSteps]_hubVars => HubInv'
<1> SUFFICES ASSUME HubInv, [HubSteps]_hubVars PROVE HubInv'
  OBVIOUS
<1>1. ASSUME NEW u \in Users, Join(u) PROVE HubInv'
  BY <1>1, JoinKeeps
<1>2. ASSUME NEW u \in Users, NEW t \in Tabs, Subscribe(u, t) PROVE HubInv'
  BY <1>2, SubscribeKeeps
<1>3. ASSUME NEW u \in Users, NEW t \in Tabs, Unsubscribe(u, t) PROVE HubInv'
  BY <1>3, UnsubscribeKeeps
<1>4. ASSUME NEW u \in Users, FinishLeave(u) PROVE HubInv'
  BY <1>4, LeaveKeepsInv
<1>5. ASSUME NEW u \in Users, ExpireReservation(u) PROVE HubInv'
  BY <1>5, ExpireKeeps
<1>6. CASE Create \/ Delete \/ Forget \/ \E u \in Users, owns \in BOOLEAN : DeleteAccount(u, owns)
  BY <1>6, RoomsComeAndGo
<1>7. CASE UNCHANGED hubVars
  BY <1>7 DEF hubVars, HubInv, HubTypeOK, WithinCapacity, LiveAreUsers, GraceExact, Live,
              MembersAreTicked, Empty, RoomIsOpen
<1> QED
  BY <1>1, <1>2, <1>3, <1>4, <1>5, <1>6, <1>7 DEF HubSteps, HubNext

(* Every reachable state satisfies it. *)
LEMMA HubInvariant == HubSpec => []HubInv
<1>1. HubSpec => HubInit /\ [][HubSteps]_hubVars
  BY DEF HubSpec, HubSteps
<1> QED
  BY <1>1, HubInitially, HubStep, PTL

(* The state of the hub is well formed in every reachable state. *)
THEOREM HubTypes == HubSpec => []HubTypeOK
BY HubInvariant, PTL DEF HubInv

(* "Party room is full": for any number of users, tabs and places, no order *)
(* of joins, streams, timers, deletions and restarts lets in one too many.  *)
THEOREM Capacity == HubSpec => []WithinCapacity
BY HubInvariant, PTL DEF HubInv

(* Leave tasks exist for exactly the listeners who have no tab open, so no  *)
(* place is lost and nobody who is back is thrown out.                      *)
THEOREM Grace == HubSpec => []GraceExact
BY HubInvariant, PTL DEF HubInv

(* The clock ticks for every room that has a member. *)
THEOREM Ticked == HubSpec => []MembersAreTicked
BY HubInvariant, PTL DEF HubInv

(* A room that exists can be joined, also when its id was used before. *)
THEOREM Openness == HubSpec => []RoomIsOpen
BY HubInvariant, PTL DEF HubInv
-----------------------------------------------------------------------------
(* Every step of the room is a step of the hub or leaves the hub alone.      *)
LEMMA RoomStepsHub == [RoomNext]_roomVars => [HubSteps]_hubVars
<1> SUFFICES ASSUME [RoomNext]_roomVars PROVE [HubSteps]_hubVars
  OBVIOUS
<1>1. CASE HostCommands \/ PeerAnswers \/ AddFails \/ Tick \/ LibraryShrinks \/ Time \/ Starts
  BY <1>1 DEF HostCommands, PeerAnswers, AddFails, Tick, LibraryShrinks, Time, Starts, Idle
<1>2. ASSUME NEW u \in Users, GuestReports(u) \/ Adds(u) \/ AsksPeer(u) PROVE UNCHANGED hubVars
  BY <1>2 DEF GuestReports, Adds, AsksPeer, Idle
<1>3. ASSUME NEW u \in Users, Arrives(u) \/ TabCloses(u) PROVE HubSteps
  BY <1>3 DEF Arrives, TabCloses, HubSteps, HubNext
<1>4. ASSUME NEW u \in Users, PlaceGivenUp(u) PROVE HubSteps
  BY <1>4 DEF PlaceGivenUp, HubSteps, HubNext
<1>5. ASSUME NEW u \in Users, Created(u) PROVE HubSteps
  BY <1>5 DEF Created, HubSteps, HubNext
<1>6. ASSUME NEW u \in Users, AccountDeleted(u) PROVE HubSteps
  <2>1. (exists /\ u = owner) \in BOOLEAN
    OBVIOUS
  <2> QED
    BY <1>6, <2>1 DEF AccountDeleted, HubSteps
<1>7. CASE Deleted \/ Dies
  BY <1>7 DEF Deleted, Dies, HubSteps, HubNext
<1>8. CASE UNCHANGED roomVars
  BY <1>8 DEF roomVars
<1> QED
  BY <1>1, <1>2, <1>3, <1>4, <1>5, <1>6, <1>7, <1>8 DEF RoomNext

(* The hub keeps its invariant under everything listeners, guests, the clock *)
(* and administrators do.                                                    *)
LEMMA RoomHubInvariant == RoomSpec => []HubInv
<1>1. RoomSpec => HubInit /\ [][HubSteps]_hubVars
  BY RoomStepsHub, PTL DEF RoomSpec, RoomInit
<1> QED
  BY <1>1, HubInitially, HubStep, PTL
-----------------------------------------------------------------------------
(* What the proof needs to know about the shape of a room. *)
HasStatus(r) == "status" \in DOMAIN r
RoomInv == HasStatus(room) /\ PlaysForSomebody

(* Normalization, queue edits and pauses start nothing. *)
LEMMA NormalizedStatus ==
  ASSUME NEW r, HasStatus(r)
  PROVE  /\ HasStatus(Normalized(r))
         /\ Normalized(r).status \in Active => r.status \in Active
BY DEF Normalized, Active, HasStatus, Halt, CueUp, Bump

LEMMA RemovedStatus ==
  ASSUME NEW r, HasStatus(r), NEW ids
  PROVE  /\ HasStatus(Removed(r, ids))
         /\ Removed(r, ids).status \in Active => r.status \in Active
BY DEF Removed, Bump, Halt, Jump, Active, HasStatus

LEMMA AddedStatus ==
  ASSUME NEW r, room = r, HasStatus(r), NEW item, NEW read
  PROVE  HasStatus(Added(item, read)) /\ Added(item, read).status = r.status
BY DEF Added, HasStatus

LEMMA PausedStatus ==
  ASSUME NEW r, HasStatus(r)
  PROVE  HasStatus(Paused(r)) /\ Paused(r).status \notin Active
BY DEF Paused, Halt, Bump, Active, HasStatus

(* The commands of members, the only ones that start a room, keep its shape. *)
MemberCommand ==
  \/ Play \/ Pause \/ NextSong \/ PreviousSong \/ \E p \in 0..MaxPos : Seek(p)
  \/ \E id \in 1..MaxItem : (\E o \in BOOLEAN : SongEnded(id, o)) \/ Ready(id) \/ RemoveItem(id)
  \/ \E item \in Items : AddSong(item)

LEMMA CommandShape == HasStatus(room) /\ MemberCommand => HasStatus(room')
<1> SUFFICES ASSUME HasStatus(room), MemberCommand PROVE HasStatus(room')
  OBVIOUS
<1>1. HasStatus(Normalized(room))
  BY NormalizedStatus
<1>2. ASSUME NEW r, HasStatus(r), Commit(r) PROVE HasStatus(room')
  BY <1>2, NormalizedStatus DEF Commit
<1>3. CASE Play
  BY <1>1, <1>2, <1>3 DEF Play, HasStatus, Bump, CueUp
<1>4. CASE Pause
  BY <1>1, <1>2, <1>4 DEF Pause, HasStatus, Bump, Halt
<1>5. CASE NextSong \/ PreviousSong
  BY <1>2, <1>5 DEF NextSong, PreviousSong, HasStatus, Bump, Halt, Jump
<1>6. ASSUME NEW p \in 0..MaxPos, Seek(p) PROVE HasStatus(room')
  BY <1>1, <1>2, <1>6 DEF Seek, HasStatus, Bump
<1>7. ASSUME NEW id \in 1..MaxItem, NEW o \in BOOLEAN, SongEnded(id, o) PROVE HasStatus(room')
  <2>1. CASE Commit(room)
    BY <1>2, <2>1
  <2>2. CASE Commit(Bump(Halt([room EXCEPT !.pos = Duration(room, room.index)])))
    BY <1>2, <2>2 DEF HasStatus, Bump, Halt
  <2>3. CASE Commit(Bump(CueUp(room, room.index + 1)))
    BY <1>2, <2>3 DEF HasStatus, Bump, CueUp
  <2> QED
    BY <1>7, <2>1, <2>2, <2>3 DEF SongEnded
<1>8. ASSUME NEW id \in 1..MaxItem, Ready(id) PROVE HasStatus(room')
  BY <1>1, <1>2, <1>8 DEF Ready, HasStatus, Bump
<1>9. ASSUME NEW id \in 1..MaxItem, RemoveItem(id) PROVE HasStatus(room')
  BY <1>2, <1>9, RemovedStatus DEF RemoveItem
<1>10. ASSUME NEW item \in Items, AddSong(item) PROVE HasStatus(room')
  BY <1>2, <1>10, AddedStatus DEF AddSong
<1> QED
  BY <1>3, <1>4, <1>5, <1>6, <1>7, <1>8, <1>9, <1>10 DEF MemberCommand

(* The initial room is paused. *)
LEMMA RoomInitially == RoomInit => RoomInv
BY DEF RoomInit, PlayInit, NewRoom, RoomInv, HasStatus, PlaysForSomebody, Active

(* Music that plays for somebody goes on playing for somebody. *)
LEMMA RoomStep == RoomInv /\ HubInv /\ [RoomNext]_roomVars => RoomInv'
<1> SUFFICES ASSUME RoomInv, HubInv, [RoomNext]_roomVars PROVE RoomInv'
  OBVIOUS
<1> USE DEF RoomInv
<1>1. ASSUME NEW u, Admitted(u), UNCHANGED hubVars PROVE PlaysForSomebody'
  BY <1>1 DEF Admitted, Members, Empty, hubVars, PlaysForSomebody
<1>2. ASSUME NEW r, HasStatus(r), room' = Normalized(r),
             r.status \in Active => room.status \in Active,
             up, UNCHANGED hubVars
      PROVE  RoomInv'
  BY <1>2, NormalizedStatus DEF PlaysForSomebody, Empty, hubVars
<1>3. CASE HostCommands
  <2>1. MemberCommand
    BY <1>3 DEF HostCommands, MemberCommand
  <2> QED
    BY <1>1, <1>3, <2>1, CommandShape DEF HostCommands, Idle
<1>4. ASSUME NEW u \in Users, GuestReports(u) \/ Adds(u) PROVE RoomInv'
  <2>1. MemberCommand
    BY <1>4 DEF GuestReports, Adds, MemberCommand
  <2> QED
    BY <1>1, <1>4, <2>1, CommandShape DEF GuestReports, Adds, MayAdd, Idle
<1>5. ASSUME NEW u \in Users, AsksPeer(u) PROVE RoomInv'
  BY <1>5 DEF AsksPeer, Idle, AddAsked, hubVars, PlaysForSomebody, Empty
<1>6. CASE PeerAnswers
  BY <1>2, <1>6, AddedStatus DEF PeerAnswers, AddAnswered, Idle
<1>7. CASE AddFails
  BY <1>7 DEF AddFails, AddRefused, Idle, hubVars, PlaysForSomebody, Empty
<1>8. ASSUME NEW u \in Users, Arrives(u) PROVE RoomInv'
  BY <1>8 DEF Arrives, Join, Subscribe, playVars, PlaysForSomebody, Empty
<1>9. ASSUME NEW u \in Users, TabCloses(u) PROVE RoomInv'
  BY <1>9 DEF TabCloses, Unsubscribe, playVars, PlaysForSomebody, Empty
<1>10. ASSUME NEW u \in Users, PlaceGivenUp(u) PROVE RoomInv'
  <2>1. UNCHANGED <<exists, up>>
    BY <1>10 DEF PlaceGivenUp, PauseIfEmpty, FinishLeave, ExpireReservation
  <2>2. CASE exists /\ Empty'
    BY <1>10, <2>1, <2>2, PausedStatus DEF PlaceGivenUp, PauseIfEmpty, PlaysForSomebody
  <2>3. CASE ~(exists /\ Empty')
    BY <1>10, <2>1, <2>3 DEF PlaceGivenUp, PauseIfEmpty, PlaysForSomebody
  <2> QED
    BY <2>2, <2>3
<1>11. ASSUME NEW u \in Users, Created(u) PROVE RoomInv'
  BY <1>11 DEF Created, NewRoom, HasStatus, PlaysForSomebody, Active
<1>12. CASE Deleted
  BY <1>12 DEF Deleted, Delete, RowGone, NewRoom, HasStatus, PlaysForSomebody
<1>13. ASSUME NEW u \in Users, AccountDeleted(u) PROVE RoomInv'
  <2>1. CASE exists /\ u = owner
    <3>1. ~exists'
      BY <1>13, <2>1 DEF AccountDeleted, DeleteAccount
    <3>2. room' = NewRoom
      BY <1>13, <2>1 DEF AccountDeleted, RowGone
    <3> QED
      BY <3>1, <3>2 DEF NewRoom, HasStatus, PlaysForSomebody
  <2>2. CASE ~(exists /\ u = owner)
    <3>1. exists' => exists
      BY <1>13 DEF AccountDeleted, DeleteAccount
    <3>2. UNCHANGED <<room, up, users, reserved>>
      BY <1>13, <2>2 DEF AccountDeleted, DeleteAccount, playVars, memory
    <3> QED
      BY <3>1, <3>2 DEF PlaysForSomebody, Empty
  <2> QED
    BY <2>1, <2>2
<1>14. CASE Tick
  BY <1>2, <1>14 DEF Tick, ClockTick, Commit, Idle
<1>15. CASE LibraryShrinks
  <2>1. PICK ids : room' = Removed(room, ids)
    BY <1>15 DEF LibraryShrinks, TrackDeleted
  <2> QED
    BY <1>15, <2>1, RemovedStatus
       DEF LibraryShrinks, TrackDeleted, Idle, hubVars, PlaysForSomebody, Empty
<1>16. CASE Time
  BY <1>16 DEF Time, TimePasses, Idle, hubVars, HasStatus, PlaysForSomebody, Empty
<1>17. CASE Dies
  BY <1>17 DEF Dies, Crash, PlaysForSomebody
<1>18. CASE Starts
  BY <1>18, PausedStatus DEF Starts, Restart, PlaysForSomebody
<1>19. CASE UNCHANGED roomVars
  BY <1>19 DEF roomVars, playVars, hubVars, PlaysForSomebody, Empty
<1> QED
  BY <1>3, <1>4, <1>5, <1>6, <1>7, <1>8, <1>9, <1>10, <1>11, <1>12, <1>13, <1>14, <1>15,
     <1>16, <1>17, <1>18, <1>19 DEF RoomNext

(* "Music stops when the last listener disconnects": no room plays or loads *)
(* for nobody, for any songs, users, limits and orders of events.           *)
THEOREM MusicNeedsListeners == RoomSpec => []PlaysForSomebody
BY RoomHubInvariant, RoomInitially, RoomStep, PTL DEF RoomSpec, RoomInv

(* The clock ticks for each room that plays. *)
THEOREM MusicIsTicked == RoomSpec => []PlayingIsTicked
<1>1. PlaysForSomebody /\ HubInv => PlayingIsTicked
  BY DEF PlaysForSomebody, HubInv, MembersAreTicked, PlayingIsTicked, Active
<1> QED
  BY <1>1, MusicNeedsListeners, RoomHubInvariant, PTL
-----------------------------------------------------------------------------
(* Every step of the room is a step of its playback, or starts a new room   *)
(* in the place of the old one, or pauses the room.                         *)
Renewed == room' = NewRoom /\ UNCHANGED <<adding, up>>
Silenced == room' = Paused(room) /\ UNCHANGED <<adding, up>>

LEMMA RoomStepsPlay == [RoomNext]_roomVars => [PlayNext]_playVars \/ Renewed \/ Silenced
<1> SUFFICES ASSUME [RoomNext]_roomVars PROVE [PlayNext]_playVars \/ Renewed \/ Silenced
  OBVIOUS
<1>1. CASE HostCommands
  <2>1. ASSUME NEW id \in 1..MaxItem, SongEnded(id, TRUE) PROVE PlayCommand
    <3>1. TRUE \in BOOLEAN
      OBVIOUS
    <3> QED
      BY <2>1, <3>1 DEF PlayCommand
  <2> QED
    BY <1>1, <2>1 DEF HostCommands, PlayCommand, PlayNext
<1>2. ASSUME NEW u \in Users, GuestReports(u) PROVE PlayNext
  <2>1. ASSUME NEW id \in 1..MaxItem, SongEnded(id, FALSE) PROVE PlayCommand
    <3>1. FALSE \in BOOLEAN
      OBVIOUS
    <3> QED
      BY <2>1, <3>1 DEF PlayCommand
  <2> QED
    BY <1>2, <2>1 DEF GuestReports, PlayCommand, PlayNext
<1>3. ASSUME NEW u \in Users, Adds(u) \/ AsksPeer(u) PROVE PlayNext
  BY <1>3 DEF Adds, AsksPeer, PlayCommand, PlayNext
<1>4. CASE PeerAnswers \/ AddFails \/ LibraryShrinks
  BY <1>4 DEF PeerAnswers, AddFails, LibraryShrinks, PlayCommand, PlayNext
<1>5. CASE Tick \/ Time \/ Dies \/ Starts
  BY <1>5 DEF Tick, Time, Dies, Starts, PlayNext
<1>6. ASSUME NEW u \in Users, Arrives(u) \/ TabCloses(u) PROVE UNCHANGED playVars
  BY <1>6 DEF Arrives, TabCloses
<1>7. ASSUME NEW u \in Users, PlaceGivenUp(u) PROVE UNCHANGED playVars \/ Silenced
  BY <1>7 DEF PlaceGivenUp, PauseIfEmpty, Silenced, playVars
<1>8. ASSUME NEW u \in Users, Created(u) PROVE Renewed
  BY <1>8 DEF Created, Renewed
<1>9. ASSUME NEW u \in Users, AccountDeleted(u) PROVE UNCHANGED playVars \/ Renewed
  BY <1>9 DEF AccountDeleted, RowGone, Renewed
<1>10. CASE Deleted
  BY <1>10 DEF Deleted, RowGone, Renewed
<1>11. CASE UNCHANGED roomVars
  BY <1>11 DEF roomVars
<1> QED
  BY <1>1, <1>2, <1>3, <1>4, <1>5, <1>6, <1>7, <1>8, <1>9, <1>10, <1>11 DEF RoomNext

(* A new or a paused room is as consistent as the one before it. *)
LEMMA RoomOrderStep == ASSUME OrderInv, [RoomNext]_roomVars PROVE OrderInv'
<1>1. Good(room) /\ Distinct(room) /\ Adding /\ (adding.index = 0 => adding.pos = 0)
  BY DEF OrderInv, PlayInv
<1>2. CASE [PlayNext]_playVars
  BY <1>2, OrderStep
<1>3. ASSUME UNCHANGED <<adding, up>>, Good(room'), Distinct(room') PROVE OrderInv'
  BY <1>1, <1>3 DEF OrderInv, PlayInv, Adding, Good, Distinct, Consistent
<1>4. CASE Renewed
  <2>1. Seed \in Seq(Items) /\ Len(Seed) \in Nat /\ (Seed # <<>> => Len(Seed) >= 1)
    BY SeedAssumption
  <2>2. Distinct(NewRoom)
    BY SeedAssumption DEF NewRoom, Distinct
  <2>3. Good(NewRoom)
    <3>1. /\ NewRoom \in Rooms /\ NewRoom.queue = Seed /\ NewRoom.status = "paused"
          /\ NewRoom.since = Never /\ NewRoom.pos = 0
          /\ NewRoom.index = IF Seed = <<>> THEN 0 ELSE 1
      BY <2>1, Marks DEF NewRoom, Rooms
    <3> QED
      BY <2>1, <3>1, Marks DEF Good, Consistent, Active
  <2> QED
    BY <1>3, <1>4, <2>2, <2>3 DEF Renewed
<1>5. CASE Silenced
  <2>1. Good(Paused(room))
    BY <1>1, PausedGood
  <2>2. Distinct(Paused(room))
    BY <1>1 DEF Paused, Bump, Halt, Distinct, Good, Rooms
  <2> QED
    BY <1>3, <1>5, <2>1, <2>2 DEF Silenced
<1> QED
  BY <1>2, <1>4, <1>5, RoomStepsPlay

LEMMA RoomOrderInvariant == RoomSpec => []OrderInv
BY OrderStart, RoomOrderStep, PTL DEF RoomSpec, RoomInit

(* Rooms that are commanded by members, emptied, deleted, made again under  *)
(* the same id and restarted keep index, status and clock together, also    *)
(* when the answer of a peer meets another room than it was asked for.      *)
THEOREM RoomStaysConsistent == RoomSpec => []PlaybackConsistent
<1>1. OrderInv => PlaybackConsistent
  BY DEF OrderInv, PlayInv, Good, PlaybackConsistent
<1> QED
  BY <1>1, RoomOrderInvariant, PTL

(* Nor does anything listeners do to a room rewind the song that plays.     *)
THEOREM RoomClockRunsOn == RoomSpec => NoRewind
<1>1. ASSUME OrderInv, [RoomNext]_roomVars, NEW id \in 1..MaxItem, Plays(id), Plays(id)',
             ~\E p \in 0..MaxPos : Seek(p)
      PROVE  Effective(room)' >= Effective(room)
  <2>1. Sounds(room, id) /\ Sounds(room', id) /\ ~Seeks /\ room'.status = "playing"
    BY <1>1 DEF Plays, Sounds, HasCurrent, Current, Seeks
  <2>2. ~Renewed
    BY <2>1 DEF Renewed, NewRoom
  <2>3. ~Silenced
    BY <2>1, <1>1, PausedSteady DEF Silenced, Paused, Bump, Halt, Active, Plays, OrderInv, PlayInv,
       Good, Rooms
  <2>4. [PlayNext]_playVars
    BY <1>1, <2>2, <2>3, RoomStepsPlay
  <2>5. Effective(room') >= Effective(room)
    BY <1>1, <2>1, <2>4, StepSteady, StepEdited DEF Steady, Edited
  <2> QED
    BY <2>5 DEF Effective
<1>2. OrderInv /\ [RoomNext]_roomVars =>
        [\A id \in 1..MaxItem :
           Plays(id) /\ Plays(id)' =>
             Effective(room)' >= Effective(room) \/ \E p \in 0..MaxPos : Seek(p)]_playVars
  BY <1>1
<1> QED
  BY <1>2, RoomOrderInvariant, PTL DEF RoomSpec, NoRewind

(* Places, grace periods, the clock's rooms and reused ids stay in order    *)
(* for the room as its members, the clock and administrators use it.        *)
THEOREM RoomKeepsPlaces ==
  RoomSpec => [](WithinCapacity /\ GraceExact /\ MembersAreTicked /\ RoomIsOpen)
BY RoomHubInvariant, PTL DEF HubInv
-----------------------------------------------------------------------------
(* PartyHub implements Presence.  Who is abstractly listening: *)
Listeners == {u \in Users : Live(u)}

(* Nobody is counted twice, so there is a free place exactly when the hub's *)
(* own sum says so.                                                         *)
LEMMA PlacesAdd ==
  ASSUME HubInv
  PROVE  /\ Cardinality(Members) = Cardinality(users) + Cardinality(reserved)
         /\ Cardinality(users) \in Nat /\ Cardinality(reserved) \in Nat
<1>1. users \in SUBSET Users /\ reserved \in SUBSET Users /\ users \cap reserved = {}
  BY DEF HubInv, HubTypeOK, WithinCapacity
<1>2. IsFiniteSet(users) /\ IsFiniteSet(reserved)
  BY <1>1, FS_Subset, HubAssumption
<1>3. Cardinality(Members) =
        Cardinality(users) + Cardinality(reserved) - Cardinality(users \cap reserved)
  BY <1>2, FS_Union DEF Members
<1>4. Cardinality(users) \in Nat /\ Cardinality(reserved) \in Nat
  BY <1>2, FS_CardinalityType
<1> QED
  BY <1>1, <1>3, <1>4, FS_EmptySet

(* Presence counts as the hub does. *)
LEMMA SameCount == \A S : Present!Cardinality(S) = Cardinality(S)
BY Zenon DEF Present!Cardinality, Cardinality

(* An empty hub has promised nothing. *)
LEMMA PresenceStart == HubInit => Present!Init
<1> SUFFICES ASSUME HubInit PROVE Members = {} /\ Listeners = {}
  BY DEF Present!Init, Listeners
<1> QED
  BY DEF HubInit, Members, Listeners, Live, NoTabs

(* Whoever joins is promised a place, unless there is one already. *)
LEMMA JoinPromises ==
  ASSUME HubInv, NEW u \in Users, Join(u)
  PROVE  Present!Promise(u) \/ UNCHANGED <<Members, Listeners>>
<1>1. Listeners' = Listeners
  BY DEF Join, Listeners, Live
<1>2. CASE u \in Members
  BY <1>1, <1>2 DEF Join, Members
<1>3. CASE u \notin Members
  <2>1. Members' = Members \cup {u}
    BY <1>3 DEF Join, Members
  <2>2. ~(Cardinality(users) + Cardinality(reserved) >= MaxUsers)
    BY <1>3 DEF Join, Full
  <2>3. Cardinality(Members) < MaxUsers
    BY <2>2, PlacesAdd, HubAssumption
  <2> QED
    BY <1>1, <1>3, <2>1, <2>3, SameCount DEF Present!Promise, Present!Free, Listeners
<1> QED
  BY <1>2, <1>3

(* Whoever opens a stream has a place, or takes a free one. *)
LEMMA SubscribeListens ==
  ASSUME HubInv, NEW u \in Users, NEW t \in Tabs, Subscribe(u, t)
  PROVE  Present!Listen(u)
<1>1. \A v \in Users : Live(v)' <=> v = u \/ Live(v)
  BY DEF Subscribe, Live, HubInv, HubTypeOK
<1>2. Listeners' = Listeners \cup {u}
  BY <1>1 DEF Listeners
<1>3. Members' = Members \cup {u}
  BY DEF Subscribe, Members
<1>4. ASSUME u \notin Members PROVE Cardinality(Members) < MaxUsers
  <2>1. u \notin users /\ reserved \ {u} = reserved
    BY <1>4 DEF Members
  <2>2. Cardinality(users) + Cardinality(reserved) < MaxUsers
    BY <2>1 DEF Subscribe, Admits
  <2> QED
    BY <2>2, PlacesAdd
<1> QED
  BY <1>2, <1>3, <1>4, SameCount DEF Present!Listen, Present!Free, Listeners

(* The last tab ends the listening and leaves the place; any other tab, and *)
(* one of a room that is gone, changes nothing.                             *)
LEMMA UnsubscribeStops ==
  ASSUME HubInv, NEW u \in Users, NEW t \in Tabs, Unsubscribe(u, t)
  PROVE  Present!Stop(u) \/ UNCHANGED <<Members, Listeners>>
<1>1. Members' = Members
  BY DEF Unsubscribe, Members
<1>2. \A v \in Users : v # u => (Live(v)' <=> Live(v))
  BY DEF Unsubscribe, Live, HubInv, HubTypeOK
<1>3. Live(u)' => Live(u)
  BY DEF Unsubscribe, Live, HubInv, HubTypeOK
<1>4. CASE Live(u)'
  <2>1. Listeners' = Listeners
    BY <1>2, <1>3, <1>4 DEF Listeners
  <2> QED
    BY <1>1, <2>1
<1>5. CASE ~Live(u)'
  <2>1. Listeners' = Listeners \ {u}
    BY <1>2, <1>5 DEF Listeners
  <2> QED
    BY <1>1, <2>1 DEF Present!Stop, Listeners
<1> QED
  BY <1>4, <1>5

(* A timer takes the place of nobody who listens. *)
LEMMA TimersRelease ==
  ASSUME HubInv, NEW u \in Users, FinishLeave(u) \/ ExpireReservation(u)
  PROVE  Present!Release(u)
<1>1. Listeners' = Listeners
  BY DEF FinishLeave, ExpireReservation, Listeners, Live
<1>2. CASE FinishLeave(u)
  <2>1. u \in users /\ u \notin reserved /\ u \notin Listeners
    BY <1>2 DEF FinishLeave, HubInv, GraceExact, WithinCapacity, Listeners
  <2>2. Members' = Members \ {u}
    BY <1>2, <2>1 DEF FinishLeave, Members
  <2> QED
    BY <1>1, <2>1, <2>2 DEF Present!Release, Members, Listeners
<1>3. CASE ExpireReservation(u)
  <2>1. u \in reserved /\ u \notin users /\ u \notin Listeners
    BY <1>3 DEF ExpireReservation, HubInv, LiveAreUsers, WithinCapacity, Listeners
  <2>2. Members' = Members \ {u}
    BY <1>3, <2>1 DEF ExpireReservation, Members
  <2> QED
    BY <1>1, <2>1, <2>2 DEF Present!Release, Members, Listeners
<1> QED
  BY <1>2, <1>3

(* Rooms that are made or lose their owner's account leave all places; the  *)
(* end of a room or of the process clears them.                             *)
LEMMA RoomsClear ==
  ASSUME Create \/ Delete \/ Forget \/ \E u \in Users, owns \in BOOLEAN : DeleteAccount(u, owns)
  PROVE  Present!Clear \/ UNCHANGED <<Members, Listeners>>
<1>1. CASE Create \/ \E u \in Users, owns \in BOOLEAN : DeleteAccount(u, owns)
  BY <1>1 DEF Create, DeleteAccount, memory, Members, Listeners, Live
<1>2. CASE Delete
  <2>1. \A v \in Users : ~Live(v)'
    BY <1>2 DEF Delete, Live
  <2> QED
    BY <1>2, <2>1 DEF Delete, Members, Listeners, Present!Clear
<1>3. CASE Forget
  <2>1. \A v \in Users : ~Live(v)'
    BY <1>3 DEF Forget, Live, NoTabs
  <2> QED
    BY <1>3, <2>1 DEF Forget, Members, Listeners, Present!Clear
<1> QED
  BY <1>1, <1>2, <1>3

(* Every step of the hub is one of Presence or changes nothing there. *)
LEMMA PresenceStep == HubInv /\ [HubSteps]_hubVars => [Present!Next]_(Present!vars)
<1> SUFFICES ASSUME HubInv, [HubSteps]_hubVars
             PROVE  Present!Next \/ UNCHANGED <<Members, Listeners>>
  BY DEF Present!vars, Listeners
<1>1. ASSUME NEW u \in Users, Join(u) PROVE Present!Next \/ UNCHANGED <<Members, Listeners>>
  BY <1>1, JoinPromises DEF Present!Next
<1>2. ASSUME NEW u \in Users, NEW t \in Tabs, Subscribe(u, t) PROVE Present!Next
  BY <1>2, SubscribeListens DEF Present!Next
<1>3. ASSUME NEW u \in Users, NEW t \in Tabs, Unsubscribe(u, t)
      PROVE  Present!Next \/ UNCHANGED <<Members, Listeners>>
  BY <1>3, UnsubscribeStops DEF Present!Next
<1>4. ASSUME NEW u \in Users, FinishLeave(u) \/ ExpireReservation(u) PROVE Present!Next
  BY <1>4, TimersRelease DEF Present!Next
<1>5. CASE Create \/ Delete \/ Forget \/ \E u \in Users, owns \in BOOLEAN : DeleteAccount(u, owns)
  BY <1>5, RoomsClear DEF Present!Next
<1>6. CASE UNCHANGED hubVars
  BY <1>6 DEF hubVars, Members, Listeners, Live
<1> QED
  BY <1>1, <1>2, <1>3, <1>4, <1>5, <1>6 DEF HubSteps, HubNext

(* Reservations, streams, grace periods and reused ids implement Presence:  *)
(* party_service.py lets nobody in without a place and takes none from who  *)
(* listens, for any number of users, tabs and places.                       *)
THEOREM HubImplementsPresence == HubSpec => PlacesAreKept
<1>1. HubSpec => HubInit /\ [][HubSteps]_hubVars
  BY DEF HubSpec, HubSteps
<1>2. HubSpec => Present!Init /\ [][Present!Next]_(Present!vars)
  BY <1>1, PresenceStart, PresenceStep, HubInvariant, PTL
<1> QED
  BY <1>2 DEF PlacesAreKept, Present!Spec

(* And so does the room, whatever its members, guests, songs and clock do. *)
THEOREM RoomImplementsPresence == RoomSpec => PlacesAreKept
<1>1. RoomSpec => HubInit /\ [][HubSteps]_hubVars
  BY RoomStepsHub, PTL DEF RoomSpec, RoomInit
<1>2. RoomSpec => Present!Init /\ [][Present!Next]_(Present!vars)
  BY <1>1, PresenceStart, PresenceStep, RoomHubInvariant, PTL
<1> QED
  BY <1>2 DEF PlacesAreKept, Present!Spec
=============================================================================
