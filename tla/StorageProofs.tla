--------------------------- MODULE StorageProofs ---------------------------
(***************************************************************************)
(* Theorems about Storage, for every set of keys and of versions, every    *)
(* order of puts, deletes and prunings, and every walk of the iterator.    *)
(***************************************************************************)
EXTENDS Storage, BasicLemmas, FiniteSetTheorems, SequenceTheorems, TLAPS

-----------------------------------------------------------------------------
(***************************************************************************)
(* The rows are in descending order: Put, Delete and PruneRow each rely on *)
(* it and keep it.                                                         *)
(***************************************************************************)

Values == Value \cup {NULL}

RowsInv ==
  /\ DOMAIN objects \subseteq Key
  /\ \A k \in DOMAIN objects : RowType(objects[k], Values) /\ Descending(objects[k])

LEMMA VersionsAreNumbers == AllVersions \subseteq Int /\ -1 \in AllVersions
BY StorageAssumption DEF AllVersions

LEMMA RowIsOrdered ==
  ASSUME RowsInv, NEW k
  PROVE  RowType(Row(k), Values) /\ Descending(Row(k))
<1>1. RowType(<<>>, Values) /\ Descending(<<>>)
  BY DEF RowType, Descending
<1>2. QED
  BY <1>1 DEF RowsInv, Row

LEMMA SetRowKeepsOrder ==
  ASSUME RowsInv, NEW k \in Key, NEW row, RowType(row, Values), Descending(row), SetRow(k, row)
  PROVE  RowsInv'
<1>1. /\ DOMAIN objects' = DOMAIN objects \cup {k}
      /\ \A l \in DOMAIN objects \cup {k} :
           objects'[l] = IF l = k THEN row ELSE objects[l]
  BY DEF SetRow
<1>2. ASSUME NEW l \in DOMAIN objects'
      PROVE  RowType(objects'[l], Values) /\ Descending(objects'[l])
  BY <1>1, <1>2 DEF RowsInv
<1>3. DOMAIN objects' \subseteq Key
  BY <1>1 DEF RowsInv
<1>4. QED
  BY <1>2, <1>3 DEF RowsInv, RowType, Descending

LEMMA PruneArgumentTypes ==
  ASSUME NEW k \in Key, NEW a \in PruneArguments(k)
  PROVE  /\ a.version \in Int /\ a.minimum \in Int
         /\ a.multiple \in BOOLEAN /\ a.unsafe \in BOOLEAN
<1>1. VersionsOf[k] \subseteq Nat
  BY StorageAssumption
<1>2. /\ a.version \in VersionsOf[k] /\ a.minimum \in {-1} \cup VersionsOf[k]
      /\ a.multiple \in BOOLEAN /\ a.unsafe \in BOOLEAN
  BY DEF PruneArguments
<1>3. QED
  BY <1>1, <1>2

LEMMA ChangeKeepsOrder ==
  ASSUME RowsInv, Change
  PROVE  RowsInv'
<1>1. PICK k \in Key :
        \/ \E value \in Value : Load(k, value) \/ \E v \in VersionsOf[k] : Put(k, value, v)
        \/ \E v \in VersionsOf[k] : Delete(k, v)
        \/ \E a \in PruneArguments(k) :
             PruneRow(k, a.version, a.multiple, a.minimum, a.unsafe)
  BY DEF Change
<1>2. VersionsOf[k] \subseteq AllVersions
  BY DEF AllVersions
<1>3. RowType(Row(k), Values) /\ Descending(Row(k))
  BY RowIsOrdered
<1>4. ASSUME NEW value \in Value, Load(k, value)
      PROVE  RowsInv'
  <2> DEFINE row == <<[version |-> -1, value |-> value]>>
  <2>1. row[1] \in EntryOf(Values)
    BY DEF EntryOf, Values
  <2>2. RowType(row, Values)
    BY <2>1 DEF RowType
  <2>3. Descending(row)
    BY DEF Descending
  <2>4. SetRow(k, row)
    BY <1>4 DEF Load
  <2> HIDE DEF row
  <2>5. QED
    BY <2>2, <2>3, <2>4, SetRowKeepsOrder
<1>5. ASSUME NEW value \in Value \cup {NULL}, NEW v \in VersionsOf[k], Put(k, value, v)
      PROVE  RowsInv'
  <2>1. RowType(Inserted(Row(k), value, v), Values) /\ Descending(Inserted(Row(k), value, v))
    <3>1. v \in Int /\ value \in Values
      BY <1>2, VersionsAreNumbers DEF Values
    <3>2. QED
      BY <1>3, <3>1, InsertedKeepsOrder
  <2>2. QED
    BY <1>5, <2>1, SetRowKeepsOrder DEF Put
<1>6. ASSUME NEW v \in VersionsOf[k], Delete(k, v)
      PROVE  RowsInv'
  BY <1>5, <1>6 DEF Delete
<1>7. ASSUME NEW a \in PruneArguments(k),
             PruneRow(k, a.version, a.multiple, a.minimum, a.unsafe)
      PROVE  RowsInv'
  <2> DEFINE left == Pruned(objects[k], a.version, a.multiple, a.minimum, a.unsafe)
  <2>1. SetRow(k, left) /\ RowType(objects[k], Values) /\ Descending(objects[k])
    BY <1>7 DEF PruneRow, RowsInv
  <2>2. RowType(left, Values) /\ Descending(left)
    BY <2>1, PruneArgumentTypes, PrunedKeepsOrder
  <2> HIDE DEF left
  <2>3. QED
    BY <2>1, <2>2, SetRowKeepsOrder
<1>8. QED
  BY <1>1, <1>4, <1>5, <1>6, <1>7

LEMMA MoveKeepsStore ==
  ASSUME Move
  PROVE  UNCHANGED objects
BY DEF Move, GetIterator, Next, Prev, SeekToFirst, SeekToLast, Seek

THEOREM RowsOrdered == Spec => []RowsInv
<1>1. Init => RowsInv
  BY DEF Init, RowsInv
<1>2. RowsInv /\ [Change \/ Move]_vars => RowsInv'
  <2> SUFFICES ASSUME RowsInv, [Change \/ Move]_vars PROVE RowsInv'
    OBVIOUS
  <2>1. CASE Change
    BY <2>1, ChangeKeepsOrder
  <2>2. CASE UNCHANGED objects
    BY <2>2 DEF RowsInv, RowType, Descending
  <2>3. QED
    BY <2>1, <2>2, MoveKeepsStore DEF vars
<1>3. QED
  BY <1>1, <1>2, PTL DEF Spec

(* Whatever was put, overwritten, deleted and pruned, a read finds the     *)
(* newest version older than its own.                                      *)
THEOREM ReadsFindNewestOlder == Spec => []GetFindsNewestOlder
<1>1. RowsInv => GetFindsNewestOlder
  <2> SUFFICES ASSUME RowsInv, NEW k \in DOMAIN objects,
                      NEW v \in AllVersions \cup {v + 1 : v \in AllVersions}
               PROVE  LET older == {w \in Versions(objects[k]) : w < v} IN
                      IF older = {} THEN Get(objects[k], v) = NULL
                      ELSE Holds(objects[k], Max(older), Get(objects[k], v))
    BY DEF GetFindsNewestOlder
  <2>1. v \in Int
    BY VersionsAreNumbers
  <2>2. RowType(objects[k], Values) /\ Descending(objects[k])
    BY DEF RowsInv
  <2>3. QED
    BY <2>1, <2>2, GetIsNewest
<1>2. QED
  BY <1>1, RowsOrdered, PTL

(* What PruneRow would leave of any row there can be.                      *)
THEOREM PruningKeepsPromise == Spec => []PruneKeepsPromise
<1>1. RowsInv => PruneKeepsPromise
  <2> SUFFICES ASSUME RowsInv, NEW k \in DOMAIN objects, NEW a \in PruneArguments(k)
               PROVE  LET row == objects[k]
                          left == Pruned(row, a.version, a.multiple, a.minimum, a.unsafe)
                      IN  /\ \A i \in DOMAIN row :
                               row[i].version <= a.minimum \/ row[i].version > a.version
                                 => Contains(left, row[i])
                          /\ ~ a.multiple => Len(left) >= Len(row) - 1
                          /\ ~ a.unsafe /\ row # <<>> => left # <<>>
                          /\ ~ a.unsafe /\ a.multiple /\ row # <<>> => Contains(left, row[1])
    BY DEF PruneKeepsPromise
  <2>1. k \in Key /\ RowType(objects[k], Values) /\ Descending(objects[k])
    BY DEF RowsInv
  <2>2. QED
    BY <2>1, PruneArgumentTypes, PrunedKeepsRest
<1>2. QED
  BY <1>1, RowsOrdered, PTL

-----------------------------------------------------------------------------
(***************************************************************************)
(* The iterator.                                                           *)
(***************************************************************************)

IterTypes ==
  /\ version \in ReadVersions /\ key \in {0} \cup Key
  /\ before_first \in BOOLEAN /\ after_last \in BOOLEAN
  /\ ~ (before_first /\ after_last)
  /\ seen = NULL \/ seen \in Seq(Key)

(* What a scan is to have returned, and that there is nothing further on   *)
(* once it has met the end.                                                *)
Scanned == {k \in Visible(version) : after_last \/ (~ before_first /\ k <= key)}

NothingFurther ==
  seen # NULL /\ after_last => \A k \in Visible(version) : k <= key

ScanInv == ScanIsExact /\ NothingFurther

IterInv == IterTypes /\ ScanInv

(* A list of keys that holds a set of keys in order.                       *)
Lists(s, S) ==
  /\ \A i, j \in DOMAIN s : i < j => s[i] < s[j]
  /\ Range(s) = S

LEMMA ListsNothing ==
  Lists(<<>>, {}) /\ <<>> \in Seq(Key)
BY DEF Lists, Range

LEMMA ListsOne ==
  ASSUME NEW k \in Key
  PROVE  Lists(<<k>>, {k}) /\ <<k>> \in Seq(Key)
<1>1. DOMAIN <<k>> = {1} /\ <<k>>[1] = k
  OBVIOUS
<1>2. QED
  BY <1>1 DEF Lists, Range

LEMMA ListsMore ==
  ASSUME NEW S \in SUBSET Key, NEW s \in Seq(Key), Lists(s, S),
         NEW k \in Key, \A l \in S : l < k
  PROVE  Lists(Append(s, k), S \cup {k}) /\ Append(s, k) \in Seq(Key)
<1> DEFINE t == Append(s, k)
<1>1. /\ Len(s) \in Nat /\ DOMAIN s = 1..Len(s)
      /\ t \in Seq(Key) /\ Len(t) = Len(s) + 1 /\ DOMAIN t = 1..(Len(s) + 1)
      /\ \A i \in 1..Len(s) : t[i] = s[i]
      /\ t[Len(s) + 1] = k
  BY LenProperties, AppendProperties
<1> HIDE DEF t
<1>2. \A i \in 1..Len(s) : s[i] \in S
  BY <1>1 DEF Lists, Range
<1>3. \A i, j \in DOMAIN t : i < j => t[i] < t[j]
  <2> SUFFICES ASSUME NEW i \in DOMAIN t, NEW j \in DOMAIN t, i < j
               PROVE  t[i] < t[j]
    OBVIOUS
  <2>1. i \in 1..Len(s) /\ (j \in 1..Len(s) \/ j = Len(s) + 1)
    BY <1>1
  <2>2. CASE j \in 1..Len(s)
    BY <1>1, <2>1, <2>2 DEF Lists
  <2>3. CASE j = Len(s) + 1
    BY <1>1, <1>2, <2>1, <2>3
  <2>4. QED
    BY <2>1, <2>2, <2>3
<1>4. Range(t) = S \cup {k}
  <2>1. 1..(Len(s) + 1) = (1..Len(s)) \cup {Len(s) + 1}
    BY <1>1
  <2>2. S = {s[i] : i \in 1..Len(s)}
    BY <1>1 DEF Lists, Range
  <2>3. QED
    BY <1>1, <2>1, <2>2 DEF Range
<1>5. QED
  BY <1>1, <1>3, <1>4 DEF Lists, t

LEMMA KeyFacts ==
  /\ Key \subseteq Nat /\ 0 \notin Key /\ IsFiniteSet(Key) /\ ReadVersions \subseteq Int
BY StorageAssumption

LEMMA LeastProperties ==
  ASSUME NEW S \in SUBSET Key
  PROVE  /\ Least(S) \in {0} \cup Key
         /\ Least(S) = 0 <=> S = {}
         /\ S # {} => Least(S) \in S /\ \A k \in S : Least(S) <= k
<1>1. S \in SUBSET Nat /\ 0 \notin S
  BY KeyFacts
<1>2. S # {} => Min(S) \in S /\ \A k \in S : Min(S) <= k
  BY <1>1, MinProperties
<1>3. QED
  BY <1>1, <1>2 DEF Least

LEMMA LeastIs ==
  ASSUME NEW S \in SUBSET Key, NEW k \in S, \A l \in S : k <= l
  PROVE  Least(S) = k
<1> DEFINE least == Least(S)
<1>1. least \in S /\ \A l \in S : least <= l
  BY LeastProperties
<1> HIDE DEF least
<1>2. least \in Nat /\ k \in Nat
  BY <1>1, KeyFacts
<1>3. least <= k /\ k <= least
  BY <1>1
<1>4. least = k
  BY <1>2, <1>3
<1>5. QED
  BY <1>4 DEF least

LEMMA GreatestProperties ==
  ASSUME NEW S \in SUBSET Key
  PROVE  /\ Greatest(S) \in {0} \cup Key
         /\ Greatest(S) = 0 <=> S = {}
<1>1. S \in SUBSET Nat /\ 0 \notin S /\ IsFiniteSet(S)
  BY KeyFacts, FS_Subset
<1>2. S # {} => Max(S) \in S
  BY <1>1, MaxProperties
<1>3. QED
  BY <1>1, <1>2 DEF Greatest

LEMMA VisibleKeys ==
  ASSUME RowsInv, NEW v \in Int
  PROVE  /\ Visible(v) \in SUBSET Key
         /\ \A k : Exists(k, v) <=> k \in Visible(v)
<1>1. Get(<<>>, v) = NULL
  <2> DEFINE at == Below(<<>>, v)
  <2>1. RowType(<<>>, Values) /\ Len(<<>>) = 0
    BY DEF RowType
  <2>2. at \in 1..(Len(<<>>) + 1)
    BY <2>1, BelowProperties
  <2> HIDE DEF at
  <2>3. ~ (at <= Len(<<>>))
    BY <2>1, <2>2
  <2>4. QED
    BY <2>3 DEF Get, at
<1>2. QED
  BY <1>1 DEF Visible, Exists, Row, RowsInv

(* The invariant from its parts, for a step that looks at the store as it  *)
(* is.                                                                     *)
LEMMA VisibleKept ==
  ASSUME UNCHANGED <<objects, version>>
  PROVE  Visible(version)' = Visible(version)
BY DEF Visible, Exists, Row

LEMMA VisibleNow ==
  ASSUME RowsInv, IterTypes
  PROVE  /\ version \in Int /\ Visible(version) \in SUBSET Key
         /\ \A k : Exists(k, version) <=> k \in Visible(version)
<1>1. version \in Int
  BY KeyFacts DEF IterTypes
<1>2. QED
  BY <1>1, VisibleKeys

LEMMA ScanInvIs ==
  ScanIsExact <=> (seen # NULL => Lists(seen, Scanned))
BY DEF ScanIsExact, Lists, Scanned

LEMMA ChangeKeepsIter ==
  ASSUME RowsInv, IterInv, Change
  PROVE  IterInv'
<1>1. KeepScan
  BY DEF Change, Load, Put, Delete, PruneRow
<1>2. IterTypes' /\ sought' = 0
  BY <1>1 DEF KeepScan, IterInv, IterTypes
<1>3. CASE Visible(version)' = Visible(version)
  <2>1. seen' = seen
    BY <1>1, <1>3 DEF KeepScan
  <2>2. ScanInv'
    BY <1>1, <1>3, <2>1 DEF KeepScan, IterInv, ScanInv, ScanIsExact, NothingFurther
  <2>3. QED
    BY <1>2, <2>2 DEF IterInv
<1>4. CASE Visible(version)' # Visible(version)
  <2>1. seen' = NULL
    BY <1>1, <1>4 DEF KeepScan
  <2>2. QED
    BY <1>2, <2>1 DEF IterInv, ScanInv, ScanIsExact, NothingFurther
<1>5. QED
  BY <1>3, <1>4

LEMMA GetIteratorKeepsIter ==
  ASSUME RowsInv, IterInv, NEW v \in ReadVersions, GetIterator(v)
  PROVE  IterInv'
<1>1. /\ version' = v /\ key' = 0 /\ before_first' = TRUE /\ after_last' = FALSE
      /\ seen' = <<>> /\ sought' = 0
  BY DEF GetIterator
<1>2. IterTypes'
  BY <1>1, ListsNothing DEF IterTypes
<1>3. Scanned' = {}
  BY <1>1 DEF Scanned
<1>4. ScanIsExact'
  BY <1>1, <1>3, ListsNothing, ScanInvIs DEF ScanIsExact, Lists, Scanned
<1>5. QED
  BY <1>1, <1>2, <1>4 DEF IterInv, ScanInv, NothingFurther

LEMMA NextKeepsIter ==
  ASSUME RowsInv, IterInv, Next
  PROVE  IterInv'
<1> DEFINE V == Visible(version)
           next == IF before_first THEN FirstKey ELSE GetNextKey(key)
           beyond == {k \in V : ~ before_first => k > key}
<1>1. IterTypes /\ V \in SUBSET Key /\ version' = version /\ sought' = 0
      /\ before_first' = FALSE
  BY VisibleNow DEF IterInv, Next
<1>2. V' = V
  BY VisibleKept DEF Next
<1>3. next = Least(beyond)
  <2>1. CASE before_first
    <3>1. beyond = V
      BY <2>1
    <3>2. QED
      BY <2>1, <3>1 DEF FirstKey
  <2>2. CASE ~ before_first
    <3>1. beyond = {k \in V : k > key}
      BY <2>2
    <3>2. QED
      BY <2>2, <3>1 DEF GetNextKey
  <2>3. QED
    BY <2>1, <2>2
<1>4. /\ next \in {0} \cup Key /\ (next = 0 <=> beyond = {})
      /\ beyond # {} => next \in beyond /\ \A k \in beyond : next <= k
  BY <1>1, <1>3, LeastProperties
<1>5. IF next = 0 THEN after_last' = TRUE /\ UNCHANGED <<key, seen>>
      ELSE /\ key' = next
           /\ seen' = IF seen = NULL THEN NULL ELSE Append(seen, next)
           /\ UNCHANGED after_last
  BY DEF Next
<1>6. seen # NULL => seen \in Seq(Key) /\ Lists(seen, Scanned)
  BY <1>1, ScanInvIs DEF IterInv, ScanInv, IterTypes
<1>7. V \subseteq Nat /\ key \in Nat
  <2> HIDE DEF V
  <2>1. key \in {0} \cup Key
    BY <1>1 DEF IterTypes
  <2>2. QED
    BY <1>1, <2>1, KeyFacts
<1>8. Scanned' = {k \in V : after_last' \/ k <= key'}
  BY <1>1, <1>2 DEF Scanned
<1> HIDE DEF next
<1>9. CASE next = 0
  <2>1. after_last' = TRUE /\ key' = key /\ seen' = seen /\ beyond = {}
    BY <1>4, <1>5, <1>9
  <2>2. IterTypes'
    BY <1>1, <2>1 DEF IterTypes
  <2>3. IF before_first THEN V = {} ELSE \A k \in V : k <= key
    BY <1>7, <2>1
  <2>4. Scanned' = V /\ Scanned = V
    BY <1>8, <2>1, <2>3 DEF Scanned
  <2>5. seen' # NULL => Lists(seen', Scanned')
    BY <1>6, <2>1, <2>4
  <2>6. ScanIsExact'
    BY <2>5 DEF ScanIsExact, Lists, Scanned
  <2>7. NothingFurther'
    BY <1>2, <2>1, <2>3 DEF NothingFurther
  <2>8. QED
    BY <1>1, <2>2, <2>6, <2>7 DEF IterInv, ScanInv
<1>10. CASE next # 0
  <2>1. /\ key' = next /\ after_last' = after_last
        /\ next \in beyond /\ next \in V /\ next \in Key /\ next \in Nat
        /\ \A k \in beyond : next <= k
    BY <1>4, <1>5, <1>7, <1>10
  <2>2. CASE seen = NULL
    <3>1. seen' = NULL
      BY <1>5, <1>10, <2>2
    <3>2. IterTypes'
      BY <1>1, <2>1, <3>1 DEF IterTypes
    <3>3. QED
      BY <1>1, <3>1, <3>2 DEF IterInv, ScanInv, ScanIsExact, NothingFurther
  <2>3. CASE seen # NULL
    <3>1. seen' = Append(seen, next)
      BY <1>5, <1>10, <2>3
    <3>2. after_last = FALSE
      <4>1. SUFFICES ASSUME after_last PROVE FALSE
        BY <1>1 DEF IterTypes
      <4>2. ~ before_first /\ \A k \in V : k <= key
        BY <1>1, <2>3, <4>1 DEF IterInv, ScanInv, NothingFurther, IterTypes
      <4>3. next > key /\ next <= key
        BY <2>1, <4>2
      <4>4. QED
        BY <1>7, <2>1, <4>3
    <3>3. /\ Scanned \in SUBSET Key /\ \A k \in Scanned : k < next
          /\ Scanned' = Scanned \cup {next}
      <4>1. CASE before_first
        <5>1. Scanned = {} /\ beyond = V
          BY <3>2, <4>1 DEF Scanned
        <5>2. Scanned' = {next}
          BY <1>7, <1>8, <2>1, <3>2, <5>1
        <5>3. QED
          BY <5>1, <5>2
      <4>2. CASE ~ before_first
        <5>1. Scanned = {k \in V : k <= key} /\ beyond = {k \in V : k > key}
          BY <3>2, <4>2 DEF Scanned
        <5>2. \A k \in Scanned : k < next
          BY <1>7, <2>1, <5>1
        <5>3. Scanned' = {k \in V : k <= next}
          BY <1>8, <2>1, <3>2
        <5>4. \A k \in V : k <= next <=> (k <= key \/ k = next)
          BY <1>7, <2>1, <5>1
        <5>5. QED
          BY <1>1, <2>1, <5>1, <5>2, <5>3, <5>4
      <4>3. QED
        BY <4>1, <4>2
    <3>4. Lists(seen', Scanned') /\ seen' \in Seq(Key)
      BY <1>6, <2>1, <2>3, <3>1, <3>3, ListsMore
    <3>5. IterTypes'
      BY <1>1, <2>1, <3>2, <3>4 DEF IterTypes
    <3>6. ScanIsExact'
      BY <3>4 DEF ScanIsExact, Lists, Scanned
    <3>7. NothingFurther'
      BY <2>1, <3>2 DEF NothingFurther
    <3>8. QED
      BY <1>1, <3>5, <3>6, <3>7 DEF IterInv, ScanInv
  <2>4. QED
    BY <2>2, <2>3
<1>11. QED
  BY <1>9, <1>10

(* Prev and SeekToLast end a scan.                                         *)
LEMMA BackwardKeepsIter ==
  ASSUME RowsInv, IterInv, Prev \/ SeekToLast
  PROVE  IterInv'
<1> DEFINE V == Visible(version)
           before == {k \in V : k < key}
<1>1. IterTypes /\ V \in SUBSET Key /\ before \in SUBSET Key
      /\ version' = version /\ sought' = 0 /\ seen' = NULL /\ after_last' = FALSE
  BY VisibleNow DEF IterInv, Prev, SeekToLast
<1>2. LastKey \in {0} \cup Key /\ GetPrevKey(key) \in {0} \cup Key
  BY <1>1, GreatestProperties DEF LastKey, GetPrevKey
<1>3. key' \in {0} \cup Key /\ before_first' \in BOOLEAN
  BY <1>1, <1>2 DEF Prev, SeekToLast, IterTypes
<1>4. IterTypes'
  BY <1>1, <1>3 DEF IterTypes
<1>5. QED
  BY <1>1, <1>4 DEF IterInv, ScanInv, ScanIsExact, NothingFurther

LEMMA SeekToFirstKeepsIter ==
  ASSUME RowsInv, IterInv, SeekToFirst
  PROVE  IterInv'
<1> DEFINE V == Visible(version)
           first == FirstKey
<1>1. IterTypes /\ V \in SUBSET Key /\ version' = version /\ sought' = 0
      /\ before_first' = FALSE
  BY VisibleNow DEF IterInv, SeekToFirst
<1>2. V' = V
  BY VisibleKept DEF SeekToFirst
<1>3. /\ first \in {0} \cup Key /\ (first = 0 <=> V = {})
      /\ V # {} => first \in V /\ \A k \in V : first <= k
  BY <1>1, LeastProperties DEF FirstKey
<1>4. /\ after_last' = (first = 0)
      /\ key' = IF first = 0 THEN key ELSE first
      /\ seen' = IF first = 0 THEN <<>> ELSE <<first>>
  BY DEF SeekToFirst
<1>5. Scanned' = {k \in V : after_last' \/ k <= key'}
  BY <1>1, <1>2 DEF Scanned
<1> HIDE DEF first
<1>6. CASE first = 0
  <2>1. V = {} /\ after_last' = TRUE /\ key' = key /\ seen' = <<>> /\ Scanned' = {}
    BY <1>3, <1>4, <1>5, <1>6
  <2>2. IterTypes' /\ Lists(seen', Scanned')
    BY <1>1, <2>1, ListsNothing DEF IterTypes
  <2>3. ScanIsExact'
    BY <2>2 DEF ScanIsExact, Lists, Scanned
  <2>4. NothingFurther'
    BY <1>2, <2>1 DEF NothingFurther
  <2>5. QED
    BY <1>1, <2>2, <2>3, <2>4 DEF IterInv, ScanInv
<1>7. CASE first # 0
  <2>1. /\ first \in V /\ first \in Key /\ \A k \in V : first <= k
        /\ after_last' = FALSE /\ key' = first /\ seen' = <<first>>
    BY <1>3, <1>4, <1>7
  <2>2. Scanned' = {first}
    <3>1. V \subseteq Nat
      BY <1>1, KeyFacts
    <3>2. \A k \in V : k <= first <=> k = first
      BY <2>1, <3>1
    <3>3. QED
      BY <1>5, <2>1, <3>2
  <2>3. Lists(seen', Scanned') /\ seen' \in Seq(Key)
    BY <2>1, <2>2, ListsOne
  <2>4. IterTypes'
    BY <1>1, <2>1, <2>3 DEF IterTypes
  <2>5. ScanIsExact'
    BY <2>3 DEF ScanIsExact, Lists, Scanned
  <2>6. NothingFurther'
    BY <2>1 DEF NothingFurther
  <2>7. QED
    BY <1>1, <2>4, <2>5, <2>6 DEF IterInv, ScanInv
<1>8. QED
  BY <1>6, <1>7

(* Seek ends a scan, wherever it leaves the iterator.                      *)
LEMMA SeekKeepsIter ==
  ASSUME RowsInv, IterInv, NEW target \in Key, Seek(target)
  PROVE  IterInv'
<1> DEFINE V == Visible(version)
           beyond == {k \in V : k > target}
<1>1. /\ IterTypes /\ V \in SUBSET Key /\ beyond \in SUBSET Key
      /\ version' = version /\ seen' = NULL
  BY VisibleNow DEF IterInv, Seek
<1>2. FirstKey \in {0} \cup Key /\ GetNextKey(target) \in {0} \cup Key
  BY <1>1, LeastProperties DEF FirstKey, GetNextKey
<1>3. /\ key' \in {0} \cup Key
      /\ before_first' \in BOOLEAN /\ after_last' \in BOOLEAN
      /\ before_first' => before_first /\ after_last' = after_last
  BY <1>1, <1>2 DEF Seek, IterTypes
<1>4. IterTypes'
  BY <1>1, <1>3 DEF IterTypes
<1>5. QED
  BY <1>1, <1>4 DEF IterInv, ScanInv, ScanIsExact, NothingFurther

(* From a valid iterator Seek goes on from the target, which is a key or   *)
(* not.                                                                    *)
LEMMA SeekFinds ==
  ASSUME RowsInv, IterInv, NEW target \in Key, Seek(target), Valid
  PROVE  SeekFindsTarget'
<1> DEFINE V == Visible(version)
           past == {k \in V : k >= target}
           beyond == {k \in V : k > target}
           next == GetNextKey(target)
<1>1. /\ IterTypes /\ V \in SUBSET Key /\ (Exists(target, version) <=> target \in V)
      /\ version' = version /\ sought' = target /\ seen' = NULL
      /\ before_first = FALSE /\ after_last = FALSE
  BY VisibleNow DEF IterInv, Seek, Valid, IterTypes
<1>2. V' = V
  BY VisibleKept DEF Seek
<1>3. V \subseteq Nat /\ target \in Nat
  BY <1>1, KeyFacts
<1>4. IF Exists(target, version)
      THEN key' = target /\ UNCHANGED <<before_first, after_last>>
      ELSE /\ before_first' = FALSE
           /\ IF next = 0 THEN key' = target /\ after_last' = TRUE
              ELSE key' = next /\ UNCHANGED after_last
  BY <1>1 DEF Seek
<1>5. /\ next = Least(beyond) /\ next \in {0} \cup Key
      /\ (next = 0 <=> beyond = {})
  BY <1>1, LeastProperties DEF GetNextKey
<1>6. {k \in V : k >= target} \in SUBSET Key
  BY <1>1
<1> HIDE DEF next
<1>7. /\ key' \in {0} \cup Key /\ before_first' = FALSE /\ after_last' \in BOOLEAN
      /\ ~ after_last' <=> past # {}
      /\ ~ after_last' => key' = Least(past)
  <2>1. CASE target \in V
    <3>1. key' = target /\ before_first' = FALSE /\ after_last' = FALSE
      BY <1>1, <1>4, <2>1
    <3>2. target \in past /\ \A k \in past : target <= k
      BY <1>3, <2>1
    <3>3. Least(past) = target
      BY <1>6, <3>2, LeastIs
    <3>4. QED
      BY <3>1, <3>2, <3>3
  <2>2. CASE target \notin V
    <3>1. past = beyond
      BY <1>3, <2>2
    <3>2. /\ before_first' = FALSE
          /\ IF next = 0 THEN key' = target /\ after_last' = TRUE
             ELSE key' = next /\ after_last' = FALSE
      BY <1>1, <1>4, <2>2
    <3>3. QED
      BY <1>5, <3>1, <3>2
  <2>3. QED
    BY <2>1, <2>2
<1>8. SeekFindsTarget'
  <2>1. Valid' <=> past # {}
    BY <1>7 DEF Valid
  <2>2. Valid' => key' = Least(past)
    BY <1>7 DEF Valid
  <2>3. sought' = target /\ Visible(version)' = V
    BY <1>1, <1>2
  <2>4. SeekFindsTarget' <=>
          (sought' # 0 =>
            LET seekable == {k \in Visible(version)' : k >= sought'} IN
            /\ Valid' <=> seekable # {}
            /\ Valid' => key' = Least(seekable))
    BY DEF SeekFindsTarget, Least
  <2> HIDE DEF V
  <2>5. QED
    BY <2>1, <2>2, <2>3, <2>4
<1>9. QED
  BY <1>8

LEMMA IterInvInductive ==
  Spec => []IterInv
<1>1. Init => IterInv
  <2> SUFFICES ASSUME Init PROVE IterInv
    OBVIOUS
  <2>1. IterTypes /\ sought = 0
    BY ListsNothing DEF Init, IterTypes
  <2>2. Scanned = {} /\ seen = <<>> /\ after_last = FALSE
    BY DEF Init, Scanned
  <2>3. ScanInv
    BY <2>2, ListsNothing, ScanInvIs DEF ScanInv, NothingFurther
  <2>4. QED
    BY <2>1, <2>3 DEF IterInv
<1>2. RowsInv /\ IterInv /\ [Change \/ Move]_vars => IterInv'
  <2> SUFFICES ASSUME RowsInv, IterInv, [Change \/ Move]_vars PROVE IterInv'
    OBVIOUS
  <2>1. CASE Change
    BY <2>1, ChangeKeepsIter
  <2>2. CASE Move
    BY <2>2, GetIteratorKeepsIter, NextKeepsIter, BackwardKeepsIter,
       SeekToFirstKeepsIter, SeekKeepsIter DEF Move
  <2>3. CASE UNCHANGED vars
    <3>1. Visible(version)' = Visible(version)
      BY <2>3, VisibleKept DEF vars, iterVars
    <3>2. IterTypes'
      BY <2>3 DEF vars, iterVars, IterInv, IterTypes
    <3>3. ScanInv'
      BY <2>3, <3>1 DEF vars, iterVars, IterInv, ScanInv, ScanIsExact, NothingFurther
    <3>4. QED
      BY <3>2, <3>3 DEF IterInv
  <2>4. QED
    BY <2>1, <2>2, <2>3
<1>3. QED
  BY <1>1, <1>2, RowsOrdered, PTL DEF Spec

(* A forward scan returns every key visible at its version, once and in    *)
(* order, however the steps of the iterator and the writes take turns.     *)
THEOREM ScansAreExact == Spec => []ScanIsExact
<1>1. IterInv => ScanIsExact
  BY DEF IterInv, ScanInv
<1>2. QED
  BY <1>1, IterInvInductive, PTL

(* Seek on a valid iterator finds the first key at or past its target, and *)
(* leaves it valid iff there is one.  (From the ends it need not:          *)
(* StorageSeek.cfg refutes SeekFindsTarget.)                               *)
THEOREM SeeksFindTarget == Spec => SeekFromValid
<1>1. RowsInv /\ IterInv /\ [Change \/ Move]_vars
        => [Valid /\ sought' # 0 => SeekFindsTarget']_vars
  <2> SUFFICES ASSUME RowsInv, IterInv, Change \/ Move, Valid, sought' # 0
               PROVE  SeekFindsTarget'
    OBVIOUS
  <2>1. PICK target \in Key : Seek(target)
    BY DEF Change, Load, Put, Delete, PruneRow, KeepScan, Move, GetIterator, Next, Prev,
           SeekToFirst, SeekToLast
  <2>2. QED
    BY <2>1, SeekFinds
<1>2. QED
  BY <1>1, RowsOrdered, IterInvInductive, PTL DEF Spec, SeekFromValid
=============================================================================
