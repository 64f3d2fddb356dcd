---------------------------- MODULE BasicLemmas ----------------------------
(***************************************************************************)
(* Facts about numbers, sequences and rows that several proofs rest on.    *)
(***************************************************************************)
EXTENDS Rows, Integers, Sequences, SequencesExt, SequenceTheorems, FiniteSetTheorems,
        WellFoundedInduction, TLAPS

-----------------------------------------------------------------------------
(***************************************************************************)
(* Division with remainder, for numbers that are dealt out in turns: those *)
(* of batches to sequencers (Sequencer) and to the slots of a reader       *)
(* (Paxos).                                                                *)
(***************************************************************************)

LEMMA Division ==
  ASSUME NEW c \in Nat \ {0}, NEW a \in Nat
  PROVE  /\ (a \div c) \in Int
         /\ (a % c) \in 0..(c - 1)
         /\ a = (c * (a \div c)) + (a % c)
BY SMT

LEMMA AtLeastOnce ==
  ASSUME NEW c \in Nat \ {0}, NEW d \in Int, d >= 1
  PROVE  c * d >= c
BY SMT

LEMMA DivisionUnique ==
  ASSUME NEW c \in Nat \ {0}, NEW q \in Int, NEW u \in Int,
         NEW r \in 0..(c - 1), NEW s \in 0..(c - 1),
         (c * q) + r = (c * u) + s
  PROVE  q = u /\ r = s
<1>1. c * (q - u) = s - r
  BY SMT
<1>2. CASE q - u >= 1
  <2>1. c * (q - u) >= c
    BY <1>2, AtLeastOnce
  <2>2. QED
    BY <1>1, <2>1
<1>3. CASE u - q >= 1
  <2>1. c * (u - q) >= c
    BY <1>3, AtLeastOnce
  <2>2. c * (u - q) = r - s
    BY SMT
  <2>3. QED
    BY <2>1, <2>2
<1>4. QED
  BY <1>2, <1>3, SMT

(* A step by the divisor keeps the remainder ...                           *)
LEMMA SameSlot ==
  ASSUME NEW c \in Nat \ {0}, NEW i \in Nat
  PROVE  (i + c) % c = i % c
<1> DEFINE q == i \div c  r == i % c  u == (i + c) \div c  s == (i + c) % c
<1>1. q \in Int /\ r \in 0..(c - 1) /\ i = (c * q) + r
  BY Division
<1>2. u \in Int /\ s \in 0..(c - 1) /\ i + c = (c * u) + s
  BY Division, i + c \in Nat
<1> HIDE DEF q, r, u, s
<1>3. (c * u) + s = (c * (q + 1)) + r
  BY <1>1, <1>2, SMT
<1>4. r = s
  BY <1>1, <1>2, <1>3, DivisionUnique, q + 1 \in Int
<1>5. QED
  BY <1>4 DEF r, s

(* ... and no smaller one does.                                            *)
LEMMA OtherSlots ==
  ASSUME NEW c \in Nat \ {0}, NEW i \in Nat, NEW j \in Nat, i < j, j < i + c
  PROVE  j % c # i % c
<1> DEFINE q == i \div c  r == i % c  u == j \div c  s == j % c
<1>1. q \in Int /\ r \in 0..(c - 1) /\ i = (c * q) + r
  BY Division
<1>2. u \in Int /\ s \in 0..(c - 1) /\ j = (c * u) + s
  BY Division
<1> SUFFICES ASSUME r = s PROVE FALSE
  OBVIOUS
<1> HIDE DEF q, r, u, s
<1>3. c * (u - q) = j - i
  BY <1>1, <1>2, SMT
<1>4. CASE u - q >= 1
  <2>1. c * (u - q) >= c
    BY <1>1, <1>2, <1>4, AtLeastOnce
  <2>2. QED
    BY <1>3, <2>1
<1>5. CASE q - u >= 0
  <2>1. c * (q - u) >= 0
    BY <1>1, <1>2, <1>5, SMT
  <2>2. c * (q - u) = i - j
    BY <1>1, <1>2, SMT
  <2>3. QED
    BY <2>1, <2>2
<1>6. QED
  BY <1>1, <1>2, <1>4, <1>5

-----------------------------------------------------------------------------
(***************************************************************************)
(* Least elements.                                                         *)
(***************************************************************************)

LEMMA LeastExists ==
  ASSUME NEW S \in SUBSET Nat, S # {}
  PROVE  \E x \in S : \A y \in S : x <= y
<1> DEFINE R == {p \in Nat \X Nat : p[1] < p[2]}
<1>1. IsWellFoundedOn(R, Nat)
  BY NatLessThanWellFounded DEF OpToRel
<1>2. PICK x \in S : \A y \in S : <<y, x>> \notin R
  BY <1>1, WFMin
<1>3. \A y \in S : ~ (y < x)
  BY <1>2
<1>4. QED
  BY <1>3

LEMMA MinProperties ==
  ASSUME NEW S \in SUBSET Nat, S # {}
  PROVE  Min(S) \in S /\ \A y \in S : Min(S) <= y
BY LeastExists DEF Min

(* A smallest set without a greatest element would have one as soon as an  *)
(* element is taken out, and so would have one itself.                     *)
LEMMA GreatestExists ==
  ASSUME NEW S \in SUBSET Nat, IsFiniteSet(S), S # {}
  PROVE  \E x \in S : \A y \in S : y <= x
<1> DEFINE Top(U) == \E x \in U : \A y \in U : y <= x
           Topless == {U \in SUBSET S : U # {} /\ ~ Top(U)}
           sizes == {Cardinality(U) : U \in Topless}
<1> SUFFICES ASSUME Topless # {} PROVE FALSE
  OBVIOUS
<1>1. \A U \in Topless : IsFiniteSet(U) /\ Cardinality(U) \in Nat
  BY FS_Subset, FS_CardinalityType
<1>2. PICK U \in Topless : \A W \in Topless : Cardinality(U) <= Cardinality(W)
  <2>1. sizes \in SUBSET Nat /\ sizes # {}
    BY <1>1
  <2>2. PICK n \in sizes : \A m \in sizes : n <= m
    BY <2>1, LeastExists
  <2>3. QED
    BY <2>2
<1>3. PICK x \in U : TRUE
  OBVIOUS
<1>4. U \ {x} \notin Topless
  <2>1. IsFiniteSet(U \ {x}) /\ Cardinality(U \ {x}) = Cardinality(U) - 1
    BY <1>1, <1>3, FS_RemoveElement
  <2>2. Cardinality(U) \in Nat
    BY <1>1
  <2>3. ~ (Cardinality(U) <= Cardinality(U \ {x}))
    BY <2>1, <2>2
  <2>4. QED
    BY <1>2, <2>3
<1>5. x \in Nat /\ U \subseteq Nat /\ ~ Top(U)
  OBVIOUS
<1>6. CASE U = {x}
  BY <1>5, <1>6
<1>7. CASE U # {x}
  <2>1. U \ {x} \in SUBSET S /\ U \ {x} # {}
    BY <1>3, <1>7
  <2>2. PICK y \in U \ {x} : \A z \in U \ {x} : z <= y
    BY <1>4, <2>1
  <2>3. CASE x <= y
    BY <1>5, <2>2, <2>3
  <2>4. CASE y <= x
    BY <1>3, <1>5, <2>2, <2>4
  <2>5. QED
    BY <1>5, <2>2, <2>3, <2>4
<1>8. QED
  BY <1>6, <1>7

LEMMA MaxProperties ==
  ASSUME NEW S \in SUBSET Nat, IsFiniteSet(S), S # {}
  PROVE  Max(S) \in S /\ \A y \in S : y <= Max(S)
<1>1. \E x \in S : \A y \in S : x >= y
  BY GreatestExists
<1>2. QED
  BY <1>1 DEF Max

-----------------------------------------------------------------------------
(***************************************************************************)
(* Taking an element out of a sequence and putting one in.                 *)
(***************************************************************************)

LEMMA LongerHasPrefix ==
  ASSUME NEW S, NEW q \in Seq(S), NEW r \in Seq(S), Len(q) <= Len(r),
         \A i \in 1..Len(q) : q[i] = r[i]
  PROVE  IsPrefix(q, r)
<1> DEFINE f == SubSeq(q, 1, Len(q))
           g == SubSeq(r, 1, Len(q))
<1>1. /\ Len(q) \in Nat /\ Len(r) \in Nat
      /\ \A i \in 1..Len(q) : q[i] \in S /\ r[i] \in S
  BY ElementOfSeq, LenProperties
<1>2. f \in Seq(S) /\ Len(f) = Len(q) /\ \A i \in 1..Len(q) : f[i] = q[i]
  <2> HIDE DEF f
  <2>1. QED
    BY <1>1, SubSeqProperties DEF f
<1>3. g \in Seq(S) /\ Len(g) = Len(q) /\ \A i \in 1..Len(q) : g[i] = r[i]
  <2> HIDE DEF g
  <2>1. QED
    BY <1>1, SubSeqProperties DEF g
<1> HIDE DEF f, g
<1>4. f = g
  BY <1>2, <1>3, SeqEqual
<1>5. QED
  BY <1>4 DEF IsPrefix, f, g

(* What is after a stretch that is cut out moves up by its length.         *)
LEMMA CutProperties ==
  ASSUME NEW S, NEW q \in Seq(S), NEW i \in 1..(Len(q) + 1), NEW k \in i..(Len(q) + 1)
  PROVE  LET cut == SubSeq(q, 1, i - 1) \o SubSeq(q, k, Len(q)) IN
         /\ cut \in Seq(S)
         /\ Len(cut) = Len(q) - (k - i)
         /\ \A j \in 1..(Len(q) - (k - i)) :
              cut[j] = IF j < i THEN q[j] ELSE q[j + (k - i)]
<1> DEFINE front == SubSeq(q, 1, i - 1)
           back  == SubSeq(q, k, Len(q))
           cut   == front \o back
<1>1. Len(q) \in Nat /\ \A j \in 1..Len(q) : q[j] \in S
  BY ElementOfSeq, LenProperties
<1>2. /\ front \in Seq(S) /\ Len(front) = i - 1
      /\ \A j \in 1..(i - 1) : front[j] = q[j]
  <2>1. \A j \in 1..(i - 1) : q[j] \in S
    BY <1>1
  <2> HIDE DEF front
  <2>2. QED
    BY <1>1, <2>1, SubSeqProperties DEF front
<1>3. /\ back \in Seq(S) /\ Len(back) = (Len(q) - k) + 1
      /\ \A j \in 1..((Len(q) - k) + 1) : back[j] = q[(j + k) - 1]
  <2>1. \A j \in k..Len(q) : q[j] \in S
    BY <1>1
  <2>2. /\ back \in Seq(S)
        /\ Len(back) = IF k <= Len(q) THEN Len(q) - k + 1 ELSE 0
        /\ \A j \in 1..(Len(q) - k + 1) : back[j] = q[k + j - 1]
    BY <1>1, <2>1, SubSeqProperties
  <2> HIDE DEF back
  <2>3. QED
    BY <1>1, <2>2
<1> HIDE DEF front, back
<1>4. /\ cut \in Seq(S)
      /\ Len(cut) = Len(front) + Len(back)
      /\ \A j \in 1..(Len(front) + Len(back)) :
           cut[j] = IF j <= Len(front) THEN front[j] ELSE back[j - Len(front)]
  <2>1. front \in Seq(S) /\ back \in Seq(S)
    BY <1>2, <1>3
  <2>2. QED
    BY <2>1, ConcatProperties
<1> HIDE DEF cut
<1>5. /\ Len(cut) = Len(q) - (k - i)
      /\ 1..(Len(q) - (k - i)) = 1..(Len(front) + Len(back))
  BY <1>1, <1>2, <1>3, <1>4
<1>6. ASSUME NEW j \in 1..(Len(q) - (k - i))
      PROVE  cut[j] = IF j < i THEN q[j] ELSE q[j + (k - i)]
  <2>1. cut[j] = IF j <= Len(front) THEN front[j] ELSE back[j - Len(front)]
    BY <1>4, <1>5
  <2>2. CASE j < i
    <3>1. j \in 1..(i - 1) /\ j <= Len(front)
      BY <1>1, <1>2, <2>2
    <3>2. cut[j] = q[j]
      BY <1>2, <2>1, <3>1
    <3>3. QED
      BY <2>2, <3>2
  <2>3. CASE ~ (j < i)
    <3>1. j - (i - 1) \in 1..((Len(q) - k) + 1) /\ ((j - (i - 1)) + k) - 1 = j + (k - i)
      BY <1>1, <2>3
    <3>2. back[j - (i - 1)] = q[j + (k - i)]
      BY <1>3, <3>1
    <3>3. cut[j] = q[j + (k - i)]
      BY <1>1, <1>2, <2>1, <2>3, <3>2
    <3>4. QED
      BY <2>3, <3>3
  <2>4. QED
    BY <2>2, <2>3
<1>7. QED
  BY <1>4, <1>5, <1>6 DEF cut, front, back

LEMMA RemoveAtProperties ==
  ASSUME NEW S, NEW q \in Seq(S), NEW i \in 1..Len(q)
  PROVE  /\ RemoveAt(q, i) \in Seq(S)
         /\ Len(RemoveAt(q, i)) = Len(q) - 1
         /\ \A j \in 1..(Len(q) - 1) :
              RemoveAt(q, i)[j] = IF j < i THEN q[j] ELSE q[j + 1]
<1>1. Len(q) \in Nat /\ i \in 1..(Len(q) + 1) /\ i + 1 \in i..(Len(q) + 1) /\ (i + 1) - i = 1
  BY LenProperties
<1>2. RemoveAt(q, i) = SubSeq(q, 1, i - 1) \o SubSeq(q, i + 1, Len(q))
  BY DEF RemoveAt
<1> DEFINE k == i + 1
           cut == SubSeq(q, 1, i - 1) \o SubSeq(q, k, Len(q))
<1>3. k \in i..(Len(q) + 1)
  BY <1>1
<1> HIDE DEF k
<1>4. /\ cut \in Seq(S)
      /\ Len(cut) = Len(q) - (k - i)
      /\ \A j \in 1..(Len(q) - (k - i)) :
           cut[j] = IF j < i THEN q[j] ELSE q[j + (k - i)]
  BY <1>1, <1>3, CutProperties
<1>5. cut = RemoveAt(q, i) /\ k - i = 1
  BY <1>2 DEF k
<1> HIDE DEF cut
<1>6. QED
  BY <1>1, <1>4, <1>5

(* What is at and after the place of the element put in moves down by one. *)
LEMMA InsertAtProperties ==
  ASSUME NEW S, NEW q \in Seq(S), NEW i \in 1..(Len(q) + 1), NEW e \in S
  PROVE  /\ InsertAt(q, i, e) \in Seq(S)
         /\ Len(InsertAt(q, i, e)) = Len(q) + 1
         /\ \A j \in 1..(Len(q) + 1) :
              InsertAt(q, i, e)[j] = IF j < i THEN q[j] ELSE IF j = i THEN e ELSE q[j - 1]
<1> DEFINE front == SubSeq(q, 1, i - 1)
           back  == SubSeq(q, i, Len(q))
           head  == front \o <<e>>
<1>1. Len(q) \in Nat /\ \A j \in 1..Len(q) : q[j] \in S
  BY ElementOfSeq, LenProperties
<1>2. /\ front \in Seq(S) /\ Len(front) = i - 1
      /\ \A j \in 1..(i - 1) : front[j] = q[j]
  <2>1. \A j \in 1..(i - 1) : q[j] \in S
    BY <1>1
  <2> HIDE DEF front
  <2>2. QED
    BY <1>1, <2>1, SubSeqProperties DEF front
<1>3. /\ back \in Seq(S) /\ Len(back) = (Len(q) - i) + 1
      /\ \A j \in 1..((Len(q) - i) + 1) : back[j] = q[(j + i) - 1]
  <2>1. \A j \in i..Len(q) : q[j] \in S
    BY <1>1
  <2>2. /\ back \in Seq(S)
        /\ Len(back) = IF i <= Len(q) THEN Len(q) - i + 1 ELSE 0
        /\ \A j \in 1..(Len(q) - i + 1) : back[j] = q[i + j - 1]
    BY <1>1, <2>1, SubSeqProperties
  <2> HIDE DEF back
  <2>3. QED
    BY <1>1, <2>2
<1> HIDE DEF front, back
<1>4. <<e>> \in Seq(S) /\ Len(<<e>>) = 1 /\ <<e>>[1] = e
  OBVIOUS
<1>5. /\ head \in Seq(S) /\ Len(head) = i
      /\ \A j \in 1..i : head[j] = IF j < i THEN q[j] ELSE e
  <2>1. /\ head \in Seq(S) /\ Len(head) = Len(front) + 1
        /\ \A j \in 1..(Len(front) + 1) :
             head[j] = IF j <= Len(front) THEN front[j] ELSE <<e>>[j - Len(front)]
    BY <1>2, <1>4, ConcatProperties
  <2> HIDE DEF head
  <2>2. QED
    BY <1>1, <1>2, <1>4, <2>1
<1> HIDE DEF head
<1>6. InsertAt(q, i, e) = head \o back
  BY DEF InsertAt, head, front, back
<1>7. /\ head \o back \in Seq(S)
      /\ Len(head \o back) = Len(head) + Len(back)
      /\ \A j \in 1..(Len(head) + Len(back)) :
           (head \o back)[j] = IF j <= Len(head) THEN head[j] ELSE back[j - Len(head)]
  <2>1. head \in Seq(S) /\ back \in Seq(S)
    BY <1>3, <1>5
  <2>2. QED
    BY <2>1, ConcatProperties
<1>8. ASSUME NEW j \in 1..(Len(q) + 1)
      PROVE  InsertAt(q, i, e)[j] = IF j < i THEN q[j] ELSE IF j = i THEN e ELSE q[j - 1]
  <2>1. CASE j <= i
    BY <1>1, <1>3, <1>5, <1>6, <1>7, <2>1
  <2>2. CASE j > i
    <3>1. j - i \in 1..((Len(q) - i) + 1) /\ ((j - i) + i) - 1 = j - 1
      BY <1>1, <2>2
    <3>2. back[j - i] = q[j - 1]
      BY <1>3, <3>1
    <3>3. QED
      BY <1>1, <1>3, <1>5, <1>6, <1>7, <2>2, <3>2
  <2>3. QED
    BY <1>1, <2>1, <2>2
<1>9. QED
  BY <1>1, <1>3, <1>5, <1>6, <1>7, <1>8

-----------------------------------------------------------------------------
(***************************************************************************)
(* Rows (module Rows): lists of versions with values in a set V.           *)
(***************************************************************************)

EntryOf(V) == [version : Int, value : V]
RowType(row, V) == row \in Seq(EntryOf(V))

LEMMA RowElements ==
  ASSUME NEW V, NEW row, RowType(row, V)
  PROVE  /\ Len(row) \in Nat /\ DOMAIN row = 1..Len(row)
         /\ \A i \in 1..Len(row) :
              row[i] \in EntryOf(V) /\ row[i].version \in Int /\ row[i].value \in V
<1>1. Len(row) \in Nat /\ DOMAIN row = 1..Len(row)
  BY LenProperties DEF RowType
<1>2. \A i \in 1..Len(row) : row[i] \in EntryOf(V)
  BY <1>1, ElementOfSeq DEF RowType
<1>3. QED
  BY <1>1, <1>2 DEF EntryOf

LEMMA FirstInProperties ==
  ASSUME NEW V, NEW row, RowType(row, V), NEW found \in SUBSET (1..Len(row))
  PROVE  /\ FirstIn(row, found) \in 1..(Len(row) + 1)
         /\ FirstIn(row, found) <= Len(row) => FirstIn(row, found) \in found
         /\ \A i \in found : FirstIn(row, found) <= i
<1> DEFINE S == found \cup {Len(row) + 1}
<1>1. Len(row) \in Nat /\ Len(row) + 1 \in Nat
  BY RowElements
<1>2. S \in SUBSET Nat /\ S # {}
  <2>1. found \subseteq Nat
    OBVIOUS
  <2>2. QED
    BY <1>1, <2>1
<1>3. Min(S) \in S /\ \A y \in S : Min(S) <= y
  BY <1>2, MinProperties
<1> DEFINE first == FirstIn(row, found)
<1>4. first = Min(S)
  BY DEF FirstIn
<1> HIDE DEF first
<1>5. /\ first \in found \/ first = Len(row) + 1
      /\ \A i \in found : first <= i
  BY <1>3, <1>4
<1>6. /\ first \in 1..(Len(row) + 1)
      /\ first <= Len(row) => first \in found
  <2>1. CASE first \in found
    <3>1. first \in 1..Len(row)
      BY <2>1
    <3>2. QED
      BY <1>1, <2>1, <3>1
  <2>2. CASE first = Len(row) + 1
    BY <1>1, <2>2
  <2>3. QED
    BY <1>5, <2>1, <2>2
<1>7. QED
  BY <1>5, <1>6 DEF first

(* The searches from the head of the list stop at the first entry that     *)
(* passes.                                                                 *)
LEMMA AtOrBelowProperties ==
  ASSUME NEW V, NEW row, RowType(row, V), NEW v \in Int
  PROVE  /\ AtOrBelow(row, v) \in 1..(Len(row) + 1)
         /\ AtOrBelow(row, v) <= Len(row) => row[AtOrBelow(row, v)].version <= v
         /\ \A i \in 1..Len(row) : i < AtOrBelow(row, v) => row[i].version > v
<1> DEFINE found == {i \in DOMAIN row : row[i].version <= v}
           at == AtOrBelow(row, v)
<1>1. Len(row) \in Nat /\ found \in SUBSET (1..Len(row))
  BY RowElements
<1>2. /\ at \in 1..(Len(row) + 1) /\ (at <= Len(row) => at \in found)
      /\ \A i \in found : at <= i
  BY <1>1, FirstInProperties DEF AtOrBelow
<1> HIDE DEF at
<1>3. at <= Len(row) => row[at].version <= v
  BY <1>2
<1>4. ASSUME NEW i \in 1..Len(row), i < at
      PROVE  row[i].version > v
  <2>1. i \notin found
    BY <1>1, <1>2, <1>4
  <2>2. row[i].version \in Int /\ i \in DOMAIN row
    BY RowElements
  <2>3. QED
    BY <2>1, <2>2
<1>5. QED
  BY <1>2, <1>3, <1>4 DEF at

LEMMA BelowProperties ==
  ASSUME NEW V, NEW row, RowType(row, V), NEW v \in Int
  PROVE  /\ Below(row, v) \in 1..(Len(row) + 1)
         /\ Below(row, v) <= Len(row) => row[Below(row, v)].version < v
         /\ \A i \in 1..Len(row) : i < Below(row, v) => row[i].version >= v
<1> DEFINE found == {i \in DOMAIN row : row[i].version < v}
           at == Below(row, v)
<1>1. Len(row) \in Nat /\ found \in SUBSET (1..Len(row))
  BY RowElements
<1>2. /\ at \in 1..(Len(row) + 1) /\ (at <= Len(row) => at \in found)
      /\ \A i \in found : at <= i
  BY <1>1, FirstInProperties DEF Below
<1> HIDE DEF at
<1>3. at <= Len(row) => row[at].version < v
  BY <1>2
<1>4. ASSUME NEW i \in 1..Len(row), i < at
      PROVE  row[i].version >= v
  <2>1. i \notin found
    BY <1>1, <1>2, <1>4
  <2>2. row[i].version \in Int /\ i \in DOMAIN row
    BY RowElements
  <2>3. QED
    BY <2>1, <2>2
<1>5. QED
  BY <1>2, <1>3, <1>4 DEF at

(* In a row in descending order the first entry older than v is the newest *)
(* one there is.                                                           *)
LEMMA GetIsNewest ==
  ASSUME NEW V, NEW row, RowType(row, V), Descending(row), NEW v \in Int
  PROVE  LET older == {w \in Versions(row) : w < v} IN
         IF older = {} THEN Get(row, v) = NULL
         ELSE Holds(row, Max(older), Get(row, v))
<1> DEFINE older == {w \in Versions(row) : w < v}
           at == Below(row, v)
<1>1. /\ Len(row) \in Nat /\ DOMAIN row = 1..Len(row)
      /\ \A i \in 1..Len(row) : row[i] \in EntryOf(V) /\ row[i].version \in Int
  BY RowElements
<1>2. /\ at \in 1..(Len(row) + 1)
      /\ at <= Len(row) => row[at].version < v
      /\ \A i \in 1..Len(row) : i < at => row[i].version >= v
  BY BelowProperties
<1>3. Get(row, v) = IF at <= Len(row) THEN row[at].value ELSE NULL
  BY DEF Get
<1> HIDE DEF at
<1>4. CASE at <= Len(row)
  <2> DEFINE top == row[at].version
  <2>1. at \in 1..Len(row) /\ top \in Int /\ top \in older
    BY <1>1, <1>2, <1>4 DEF Versions
  <2>2. ASSUME NEW w \in older
        PROVE  w \in Int /\ w <= top
    <3>1. PICK i \in 1..Len(row) : w = row[i].version
      BY <1>1 DEF Versions
    <3>2. w \in Int /\ w < v
      BY <1>1, <3>1
    <3>3. ~ (i < at)
      BY <1>1, <1>2, <3>1, <3>2
    <3>4. i = at \/ at < i
      BY <1>2, <3>3
    <3>5. at < i => top > w
      BY <1>1, <2>1, <3>1 DEF Descending
    <3>6. QED
      BY <2>1, <3>1, <3>2, <3>4, <3>5
  <2>3. Max(older) = top
    <3> DEFINE newest == Max(older)
    <3> HIDE DEF older, top
    <3>1. newest \in older /\ \A y \in older : newest >= y
      <4>1. \E x \in older : \A y \in older : x >= y
        BY <2>1, <2>2
      <4>2. QED
        BY <4>1 DEF Max
    <3> HIDE DEF newest
    <3>2. newest \in Int /\ newest <= top /\ newest >= top
      BY <2>1, <2>2, <3>1
    <3>3. newest = top
      BY <2>1, <3>2
    <3>4. QED
      BY <3>3 DEF newest
  <2>4. row[at] = [version |-> top, value |-> row[at].value]
    BY <1>1, <2>1 DEF EntryOf
  <2>5. Holds(row, top, row[at].value)
    BY <1>1, <2>1, <2>4 DEF Holds
  <2>6. QED
    BY <1>3, <1>4, <2>1, <2>3, <2>5
<1>5. CASE ~ (at <= Len(row))
  <2>1. \A i \in 1..Len(row) : ~ (row[i].version < v)
    BY <1>1, <1>2, <1>5
  <2>2. older = {}
    BY <1>1, <2>1 DEF Versions
  <2>3. QED
    BY <1>3, <1>5, <2>2
<1>6. QED
  BY <1>4, <1>5

(* Put overwrites the value of the version, or puts it before the first    *)
(* older one.                                                              *)
LEMMA InsertedKeepsOrder ==
  ASSUME NEW V, NEW row, RowType(row, V), Descending(row), NEW v \in Int,
         NEW value \in V
  PROVE  RowType(Inserted(row, value, v), V) /\ Descending(Inserted(row, value, v))
<1> DEFINE at == AtOrBelow(row, v)
           new == [version |-> v, value |-> value]
<1>1. /\ Len(row) \in Nat /\ DOMAIN row = 1..Len(row)
      /\ \A i \in 1..Len(row) : row[i] \in EntryOf(V) /\ row[i].version \in Int
      /\ v \in Int /\ new \in EntryOf(V) /\ new.version = v
  BY RowElements DEF EntryOf
<1>2. /\ at \in 1..(Len(row) + 1)
      /\ at <= Len(row) => row[at].version <= v
      /\ \A i \in 1..Len(row) : i < at => row[i].version > v
  BY <1>1, AtOrBelowProperties
<1>3. Inserted(row, value, v) = IF at <= Len(row) /\ row[at].version = v
                                THEN [row EXCEPT ![at].value = value]
                                ELSE InsertAt(row, at, new)
  BY DEF Inserted
<1> HIDE DEF at, new
<1>4. CASE at <= Len(row) /\ row[at].version = v
  <2> DEFINE left == [row EXCEPT ![at].value = value]
  <2>1. at \in 1..Len(row)
    BY <1>1, <1>2, <1>4
  <2>2. [row[at] EXCEPT !.value = value] \in EntryOf(V)
    BY <1>1, <2>1 DEF EntryOf
  <2>3. left \in Seq(EntryOf(V)) /\ DOMAIN left = 1..Len(row)
    <3>1. left = [row EXCEPT ![at] = [row[at] EXCEPT !.value = value]]
      OBVIOUS
    <3>2. QED
      BY <1>1, <2>1, <2>2, <3>1, ExceptSeq DEF RowType
  <2>4. ASSUME NEW i \in 1..Len(row)
        PROVE  left[i].version = row[i].version
    <3>1. CASE i = at
      <4>1. left[i] = [row[i] EXCEPT !.value = value] /\ row[i] \in EntryOf(V)
        BY <1>1, <2>1, <3>1
      <4>2. QED
        BY <4>1 DEF EntryOf
    <3>2. CASE i # at
      BY <1>1, <3>2
    <3>3. QED
      BY <3>1, <3>2
  <2>5. Descending(left)
    BY <1>1, <2>3, <2>4 DEF Descending
  <2>6. QED
    BY <1>3, <1>4, <2>3, <2>5 DEF RowType
<1>5. CASE ~ (at <= Len(row) /\ row[at].version = v)
  <2> DEFINE left == InsertAt(row, at, new)
  <2>1. /\ left \in Seq(EntryOf(V)) /\ Len(left) = Len(row) + 1
        /\ \A j \in 1..(Len(row) + 1) :
             left[j] = IF j < at THEN row[j] ELSE IF j = at THEN new ELSE row[j - 1]
    BY <1>1, <1>2, InsertAtProperties, SMTT(20) DEF RowType
  <2>2. DOMAIN left = 1..(Len(row) + 1)
    BY <2>1, LenProperties
  <2> HIDE DEF left
  <2>3. \A j \in 1..Len(row) : j >= at => row[j].version < v
    <3>1. TAKE j \in 1..Len(row)
    <3>2. HAVE j >= at
    <3>3. at \in 1..Len(row) /\ row[at].version < v
      BY <1>1, <1>2, <1>5, <3>2
    <3>4. j = at \/ at < j
      BY <1>2, <3>2
    <3>5. at < j => row[at].version > row[j].version
      BY <1>1, <3>3 DEF Descending
    <3>6. row[j].version \in Int /\ row[at].version \in Int
      BY <1>1, <3>3
    <3>7. QED
      BY <1>1, <3>3, <3>4, <3>5, <3>6
  <2>4. ASSUME NEW i \in 1..(Len(row) + 1), NEW j \in 1..(Len(row) + 1), i < j
        PROVE  left[i].version > left[j].version
    <3>1. CASE j < at
      <4>1. left[i] = row[i] /\ left[j] = row[j] /\ i \in 1..Len(row) /\ j \in 1..Len(row)
        BY <1>1, <1>2, <2>1, <2>4, <3>1
      <4>2. QED
        BY <1>1, <2>4, <4>1 DEF Descending
    <3>2. CASE j = at
      <4>1. left[i] = row[i] /\ left[j] = new /\ i \in 1..Len(row) /\ i < at
        BY <1>1, <1>2, <2>1, <2>4, <3>2
      <4>2. QED
        BY <1>1, <1>2, <4>1
    <3>3. CASE j > at /\ i < at
      <4>1. left[i] = row[i] /\ left[j] = row[j - 1]
            /\ i \in 1..Len(row) /\ j - 1 \in 1..Len(row) /\ j - 1 >= at
        BY <1>1, <1>2, <2>1, <2>4, <3>3
      <4>2. row[i].version > v /\ row[j - 1].version < v
        BY <1>2, <2>3, <3>3, <4>1
      <4>3. row[i].version \in Int /\ row[j - 1].version \in Int
        BY <1>1, <4>1
      <4>4. QED
        BY <1>1, <4>1, <4>2, <4>3
    <3>4. CASE i = at
      <4>1. left[i] = new /\ left[j] = row[j - 1] /\ j - 1 \in 1..Len(row) /\ j - 1 >= at
        BY <1>1, <1>2, <2>1, <2>4, <3>4
      <4>2. row[j - 1].version < v /\ row[j - 1].version \in Int
        BY <1>1, <2>3, <4>1
      <4>3. QED
        BY <1>1, <4>1, <4>2
    <3>5. CASE i > at
      <4>1. left[i] = row[i - 1] /\ left[j] = row[j - 1]
            /\ i - 1 \in 1..Len(row) /\ j - 1 \in 1..Len(row) /\ i - 1 < j - 1
        BY <1>1, <1>2, <2>1, <2>4, <3>5
      <4>2. QED
        BY <1>1, <4>1 DEF Descending
    <3>6. QED
      BY <1>1, <1>2, <3>1, <3>2, <3>3, <3>4, <3>5
  <2>5. Descending(left)
    BY <2>2, <2>4 DEF Descending
  <2>6. QED
    BY <1>3, <1>5, <2>1, <2>5 DEF RowType, left
<1>6. QED
  BY <1>4, <1>5

(* Pruning takes out a stretch of the row, from the first entry at or      *)
(* below the version given on, and nothing at or below the minimum.        *)
Stretch(row, left, V, v, minimum, multiple, unsafe, at, k) ==
  /\ at \in 1..Len(row) /\ k \in (at + 1)..(Len(row) + 1)
  /\ Prunable(row, at, multiple, unsafe)
  /\ ~ multiple => k = at + 1
  /\ left \in Seq(EntryOf(V)) /\ Len(left) = Len(row) - (k - at)
  /\ \A j \in 1..(Len(row) - (k - at)) :
       left[j] = IF j < at THEN row[j] ELSE row[j + (k - at)]
  /\ \A j \in at..(k - 1) : row[j].version <= v /\ row[j].version > minimum

LEMMA PrunedIsStretch ==
  ASSUME NEW V, NEW row, RowType(row, V), Descending(row), NEW v \in Int, NEW minimum \in Int,
         NEW multiple \in BOOLEAN, NEW unsafe \in BOOLEAN
  PROVE  LET left == Pruned(row, v, multiple, minimum, unsafe) IN
         \/ left = row
         \/ \E at, k \in Nat : Stretch(row, left, V, v, minimum, multiple, unsafe, at, k)
<1> DEFINE at == AtOrBelow(row, v)
           end == AtOrBelow(row, minimum)
           left == Pruned(row, v, multiple, minimum, unsafe)
<1>1. /\ Len(row) \in Nat /\ DOMAIN row = 1..Len(row) /\ row \in Seq(EntryOf(V))
      /\ \A i \in 1..Len(row) : row[i] \in EntryOf(V) /\ row[i].version \in Int
  BY RowElements DEF RowType
<1>2. /\ at \in 1..(Len(row) + 1)
      /\ at <= Len(row) => row[at].version <= v
  BY AtOrBelowProperties
<1>3. /\ end \in 1..(Len(row) + 1)
      /\ end <= Len(row) => row[end].version <= minimum
      /\ \A i \in 1..Len(row) : i < end => row[i].version > minimum
  BY AtOrBelowProperties
<1>4. left = IF ~ Prunable(row, at, multiple, unsafe) \/ row[at].version <= minimum THEN row
             ELSE IF multiple
             THEN SubSeq(row, 1, at - 1) \o SubSeq(row, end, Len(row))
             ELSE RemoveAt(row, at)
  BY DEF Pruned
<1> HIDE DEF at, end, left
<1>5. CASE ~ Prunable(row, at, multiple, unsafe) \/ row[at].version <= minimum
  BY <1>4, <1>5 DEF left
<1>6. CASE ~ (~ Prunable(row, at, multiple, unsafe) \/ row[at].version <= minimum)
  <2>1. Prunable(row, at, multiple, unsafe) /\ at \in 1..Len(row)
    BY <1>1, <1>2, <1>6 DEF Prunable
  <2>2. row[at].version <= v /\ row[at].version > minimum /\ row[at].version \in Int
    BY <1>1, <1>2, <1>6, <2>1
  <2>3. \A j \in at..Len(row) : row[j].version <= v /\ row[j].version \in Int
    <3>1. TAKE j \in at..Len(row)
    <3>2. j \in 1..Len(row) /\ row[j].version \in Int
      BY <1>1, <2>1
    <3>3. at < j => row[at].version > row[j].version
      BY <1>1, <2>1, <3>2 DEF Descending
    <3>4. QED
      BY <2>1, <2>2, <3>2, <3>3
  <2>4. CASE multiple
    <3>1. end \in (at + 1)..(Len(row) + 1)
      <4>1. CASE end = Len(row) + 1
        BY <2>1, <4>1
      <4>2. CASE end # Len(row) + 1
        <5>1. end \in 1..Len(row) /\ row[end].version <= minimum
          BY <1>1, <1>3, <4>2
        <5>2. end < at => row[end].version > row[at].version
          BY <1>1, <2>1, <5>1 DEF Descending
        <5>3. end # at
          BY <2>2, <5>1
        <5>4. row[end].version \in Int
          BY <1>1, <5>1
        <5>5. ~ (end < at)
          BY <2>2, <5>1, <5>2, <5>4
        <5>6. QED
          BY <1>1, <2>1, <5>1, <5>3, <5>5
      <4>3. QED
        BY <4>1, <4>2
    <3>2. at \in 1..(Len(row) + 1) /\ end \in at..(Len(row) + 1) /\ at \in Nat /\ end \in Nat
      BY <1>1, <2>1, <3>1
    <3>3. /\ left \in Seq(EntryOf(V)) /\ Len(left) = Len(row) - (end - at)
          /\ \A j \in 1..(Len(row) - (end - at)) :
               left[j] = IF j < at THEN row[j] ELSE row[j + (end - at)]
      <4>1. left = SubSeq(row, 1, at - 1) \o SubSeq(row, end, Len(row))
        BY <1>4, <1>6, <2>4
      <4>2. QED
        BY <1>1, <3>2, <4>1, CutProperties
    <3>4. \A j \in at..(end - 1) : row[j].version <= v /\ row[j].version > minimum
      BY <1>1, <1>3, <2>1, <2>3, <3>1
    <3>5. Stretch(row, left, V, v, minimum, multiple, unsafe, at, end)
      BY <2>1, <2>4, <3>1, <3>3, <3>4 DEF Stretch
    <3>6. QED
      BY <3>2, <3>5 DEF left
  <2>5. CASE ~ multiple
    <3>1. left = RemoveAt(row, at)
      BY <1>4, <1>6, <2>5
    <3>2. /\ left \in Seq(EntryOf(V)) /\ Len(left) = Len(row) - 1
          /\ \A j \in 1..(Len(row) - 1) :
               left[j] = IF j < at THEN row[j] ELSE row[j + 1]
      BY <1>1, <2>1, <3>1, RemoveAtProperties
    <3> DEFINE k == at + 1
    <3>3. k \in (at + 1)..(Len(row) + 1) /\ k - at = 1 /\ at \in Nat /\ k \in Nat
          /\ at..(k - 1) = {at}
      BY <1>1, <2>1
    <3>4. k = at + 1
      OBVIOUS
    <3> HIDE DEF k
    <3>5. Stretch(row, left, V, v, minimum, multiple, unsafe, at, k)
      BY <2>1, <2>2, <3>2, <3>3, <3>4 DEF Stretch
    <3>6. QED
      BY <3>3, <3>5 DEF left
  <2>6. QED
    BY <2>4, <2>5
<1>7. QED
  BY <1>5, <1>6

LEMMA PrunedKeepsOrder ==
  ASSUME NEW V, NEW row, RowType(row, V), Descending(row), NEW v \in Int, NEW minimum \in Int,
         NEW multiple \in BOOLEAN, NEW unsafe \in BOOLEAN
  PROVE  /\ RowType(Pruned(row, v, multiple, minimum, unsafe), V)
         /\ Descending(Pruned(row, v, multiple, minimum, unsafe))
<1> DEFINE left == Pruned(row, v, multiple, minimum, unsafe)
<1>1. left = row \/ \E at, k \in Nat : Stretch(row, left, V, v, minimum, multiple, unsafe, at, k)
  BY PrunedIsStretch
<1>2. Len(row) \in Nat /\ DOMAIN row = 1..Len(row)
  BY RowElements
<1> HIDE DEF left
<1>3. ASSUME NEW at \in Nat, NEW k \in Nat,
             Stretch(row, left, V, v, minimum, multiple, unsafe, at, k)
      PROVE  RowType(left, V) /\ Descending(left)
  <2>1. /\ at \in 1..Len(row) /\ k \in (at + 1)..(Len(row) + 1)
        /\ left \in Seq(EntryOf(V)) /\ Len(left) = Len(row) - (k - at)
        /\ \A j \in 1..(Len(row) - (k - at)) :
             left[j] = IF j < at THEN row[j] ELSE row[j + (k - at)]
    BY <1>3 DEF Stretch
  <2>2. DOMAIN left = 1..(Len(row) - (k - at))
    BY <2>1, LenProperties
  <2> DEFINE old(j) == IF j < at THEN j ELSE j + (k - at)
  <2>3. ASSUME NEW i \in DOMAIN left, NEW j \in DOMAIN left, i < j
        PROVE  left[i].version > left[j].version
    <3>1. /\ old(i) \in 1..Len(row) /\ old(j) \in 1..Len(row) /\ old(i) < old(j)
      BY <1>2, <2>1, <2>2, <2>3
    <3>2. left[i] = row[old(i)] /\ left[j] = row[old(j)]
      BY <2>1, <2>2
    <3>3. QED
      BY <1>2, <3>1, <3>2 DEF Descending
  <2>4. QED
    BY <2>1, <2>3 DEF Descending, RowType
<1>4. QED
  BY <1>1, <1>3 DEF left

LEMMA PrunedKeepsRest ==
  ASSUME NEW V, NEW row, RowType(row, V), Descending(row), NEW v \in Int, NEW minimum \in Int,
         NEW multiple \in BOOLEAN, NEW unsafe \in BOOLEAN
  PROVE  LET left == Pruned(row, v, multiple, minimum, unsafe) IN
         /\ \A p \in DOMAIN row :
              row[p].version <= minimum \/ row[p].version > v => Contains(left, row[p])
         /\ ~ multiple => Len(left) >= Len(row) - 1
         /\ ~ unsafe /\ row # <<>> => left # <<>>
         /\ ~ unsafe /\ multiple /\ row # <<>> => Contains(left, row[1])
<1> DEFINE left == Pruned(row, v, multiple, minimum, unsafe)
<1>1. left = row \/ \E at, k \in Nat : Stretch(row, left, V, v, minimum, multiple, unsafe, at, k)
  BY PrunedIsStretch
<1>2. /\ Len(row) \in Nat /\ DOMAIN row = 1..Len(row)
      /\ \A i \in 1..Len(row) : row[i].version \in Int
  BY RowElements
<1> HIDE DEF left
<1>6. row # <<>> => 1 \in 1..Len(row)
  BY <1>2, EmptySeq DEF RowType
<1>3. CASE left = row
  BY <1>2, <1>3, <1>6 DEF left, Contains
<1>4. ASSUME NEW at \in Nat, NEW k \in Nat,
             Stretch(row, left, V, v, minimum, multiple, unsafe, at, k)
      PROVE  /\ \A p \in DOMAIN row :
                  row[p].version <= minimum \/ row[p].version > v => Contains(left, row[p])
             /\ ~ multiple => Len(left) >= Len(row) - 1
             /\ ~ unsafe => left # <<>>
             /\ ~ unsafe /\ multiple => Contains(left, row[1])
  <2>1. /\ at \in 1..Len(row) /\ k \in (at + 1)..(Len(row) + 1)
        /\ Prunable(row, at, multiple, unsafe) /\ (~ multiple => k = at + 1)
        /\ Len(left) = Len(row) - (k - at)
        /\ \A j \in 1..(Len(row) - (k - at)) :
             left[j] = IF j < at THEN row[j] ELSE row[j + (k - at)]
        /\ \A j \in at..(k - 1) : row[j].version <= v /\ row[j].version > minimum
    BY <1>4 DEF Stretch
  <2>2. ASSUME ~ unsafe
        PROVE  left # <<>>
    <3>1. Len(row) > 1 /\ (multiple => at # 1)
      BY <2>1, <2>2 DEF Prunable
    <3>2. Len(left) > 0
      BY <1>2, <2>1, <3>1
    <3>3. QED
      BY <3>2
  <2>3. ASSUME NEW p \in DOMAIN row, row[p].version <= minimum \/ row[p].version > v
        PROVE  Contains(left, row[p])
    <3>1. p < at \/ p >= k
      <4>1. p \in 1..Len(row) /\ row[p].version \in Int
        BY <1>2
      <4>2. p \notin at..(k - 1)
        BY <2>1, <2>3, <4>1
      <4>3. QED
        BY <2>1, <4>1, <4>2
    <3>2. CASE p < at
      <4>1. p \in 1..Len(left) /\ left[p] = row[p]
        BY <1>2, <2>1, <3>2, SMTT(20)
      <4>2. QED
        BY <4>1 DEF Contains
    <3>3. CASE p >= k
      <4> DEFINE j == p - (k - at)
      <4>1. j \in 1..(Len(row) - (k - at)) /\ ~ (j < at) /\ j + (k - at) = p
        BY <1>2, <2>1, <3>3
      <4> HIDE DEF j
      <4>2. left[j] = row[p] /\ j \in 1..Len(left)
        BY <2>1, <4>1
      <4>3. QED
        BY <4>2 DEF Contains
    <3>4. QED
      BY <3>1, <3>2, <3>3
  <2>4. ~ multiple => Len(left) >= Len(row) - 1
    BY <1>2, <2>1
  <2>5. ASSUME ~ unsafe, multiple
        PROVE  Contains(left, row[1])
    <3>1. 1 < at /\ 1 \in 1..Len(left)
      BY <1>2, <2>1, <2>2, <2>5 DEF Prunable
    <3>2. left[1] = row[1]
      BY <2>1, <3>1
    <3>3. QED
      BY <3>1, <3>2 DEF Contains
  <2>6. QED
    BY <2>2, <2>3, <2>4, <2>5
<1>5. QED
  BY <1>1, <1>3, <1>4 DEF left

(* A row seen as the set of its entries.  Pruning with multiple takes out  *)
(* entries at or below the version given and above the minimum: all of     *)
(* them with unsafe, and never the newest of the row without.              *)
LEMMA PrunedEntries ==
  ASSUME NEW V, NEW row, RowType(row, V), Descending(row), NEW v \in Int, NEW minimum \in Int,
         NEW unsafe \in BOOLEAN
  PROVE  LET left == Pruned(row, v, TRUE, minimum, unsafe) IN
         /\ Range(left) \subseteq Range(row)
         /\ \A e \in Range(row) : e.version > v \/ e.version <= minimum => e \in Range(left)
         /\ unsafe => \A e \in Range(left) : e.version > v \/ e.version <= minimum
         /\ ~ unsafe => \A e \in Range(row) :
              (\A f \in Range(row) : f.version <= e.version) => e \in Range(left)
<1> DEFINE left == Pruned(row, v, TRUE, minimum, unsafe)
           at == AtOrBelow(row, v)
           end == AtOrBelow(row, minimum)
<1>1. /\ Len(row) \in Nat /\ DOMAIN row = 1..Len(row) /\ row \in Seq(EntryOf(V))
      /\ \A i \in 1..Len(row) : row[i] \in EntryOf(V) /\ row[i].version \in Int
  BY RowElements DEF RowType
<1>2. left = row \/ \E a, k \in Nat : Stretch(row, left, V, v, minimum, TRUE, unsafe, a, k)
  BY PrunedIsStretch, TRUE \in BOOLEAN, ZenonT(30)
<1>3. /\ at \in 1..(Len(row) + 1)
      /\ at <= Len(row) => row[at].version <= v
      /\ \A i \in 1..Len(row) : i < at => row[i].version > v
  BY AtOrBelowProperties
<1>4. /\ end \in 1..(Len(row) + 1)
      /\ end <= Len(row) => row[end].version <= minimum
      /\ \A i \in 1..Len(row) : i < end => row[i].version > minimum
  BY AtOrBelowProperties
<1>5. left = IF ~ Prunable(row, at, TRUE, unsafe) \/ row[at].version <= minimum THEN row
             ELSE SubSeq(row, 1, at - 1) \o SubSeq(row, end, Len(row))
  BY DEF Pruned
<1>6. \A p \in DOMAIN row : row[p].version <= minimum \/ row[p].version > v => Contains(left, row[p])
  BY PrunedKeepsRest, TRUE \in BOOLEAN
<1>7. RowType(left, V)
  BY PrunedKeepsOrder, TRUE \in BOOLEAN
<1> HIDE DEF left, at, end
<1>8. Len(left) \in Nat /\ DOMAIN left = 1..Len(left)
  BY <1>7, RowElements
<1>9. Range(left) \subseteq Range(row)
  <2>1. ASSUME NEW a \in Nat, NEW k \in Nat,
               Stretch(row, left, V, v, minimum, TRUE, unsafe, a, k), NEW j \in DOMAIN left
        PROVE  left[j] \in Range(row)
    <3>1. /\ a \in 1..Len(row) /\ k \in (a + 1)..(Len(row) + 1)
          /\ Len(left) = Len(row) - (k - a)
          /\ \A i \in 1..(Len(row) - (k - a)) :
               left[i] = IF i < a THEN row[i] ELSE row[i + (k - a)]
      BY <2>1 DEF Stretch
    <3>2. j \in 1..(Len(row) - (k - a))
      BY <1>8, <3>1
    <3>3. CASE j < a
      <4>1. left[j] = row[j] /\ j \in DOMAIN row
        BY <1>1, <3>1, <3>2, <3>3
      <4>2. QED
        BY <4>1 DEF Range
    <3>4. CASE ~ (j < a)
      <4>1. left[j] = row[j + (k - a)]
        BY <3>1, <3>2, <3>4
      <4>2. j + (k - a) \in DOMAIN row
        BY <1>1, <3>1, <3>2, <3>4
      <4>3. QED
        BY <4>1, <4>2 DEF Range
    <3>5. QED
      BY <3>3, <3>4
  <2>2. QED
    BY <1>2, <2>1 DEF Range
<1>10. ASSUME NEW e \in Range(row), e.version > v \/ e.version <= minimum
       PROVE  e \in Range(left)
  <2>1. PICK p \in DOMAIN row : e = row[p]
    BY DEF Range
  <2>2. Contains(left, e)
    BY <1>6, <1>10, <2>1
  <2>3. QED
    BY <1>8, <2>2 DEF Contains, Range
<1>11. ASSUME unsafe, NEW e \in Range(left)
       PROVE  e.version > v \/ e.version <= minimum
  <2>1. PICK p \in DOMAIN left : e = left[p]
    BY DEF Range
  <2>2. left = IF ~ (at <= Len(row)) \/ row[at].version <= minimum THEN row
               ELSE SubSeq(row, 1, at - 1) \o SubSeq(row, end, Len(row))
    BY <1>5, <1>11 DEF Prunable
  <2>3. ASSUME NEW i \in 1..Len(row), NEW j \in 1..Len(row), i <= j, row[i].version <= minimum
        PROVE  row[j].version <= minimum
    <3>1. i = j \/ row[i].version > row[j].version
      BY <1>1, <2>3 DEF Descending
    <3>2. row[i].version \in Int /\ row[j].version \in Int
      BY <1>1
    <3>3. QED
      BY <2>3, <3>1, <3>2
  <2>4. CASE at = Len(row) + 1
    <3>1. left = row /\ p \in 1..Len(row) /\ p < at
      BY <1>1, <2>1, <2>2, <2>4
    <3>2. QED
      BY <1>3, <2>1, <3>1
  <2>5. CASE at \in 1..Len(row) /\ row[at].version <= minimum
    <3>1. left = row /\ p \in 1..Len(row)
      BY <1>1, <2>1, <2>2, <2>5
    <3>2. CASE p < at
      BY <1>3, <2>1, <3>1, <3>2
    <3>3. CASE at <= p
      BY <2>1, <2>3, <2>5, <3>1, <3>3
    <3>4. QED
      BY <1>3, <3>1, <3>2, <3>3
  <2>6. CASE at \in 1..Len(row) /\ ~ (row[at].version <= minimum)
    <3>1. end \in at..(Len(row) + 1) /\ at \in 1..(Len(row) + 1)
      <4>1. CASE end <= Len(row) /\ end < at
        <5>1. end \in 1..Len(row) /\ row[end].version <= minimum
          BY <1>4, <4>1
        <5>2. QED
          BY <2>3, <2>6, <4>1, <5>1
      <4>2. QED
        BY <1>1, <1>3, <1>4, <4>1
    <3>2. left = SubSeq(row, 1, at - 1) \o SubSeq(row, end, Len(row))
      <4>1. at <= Len(row) /\ ~ (row[at].version <= minimum)
        BY <1>1, <2>6
      <4>2. QED
        BY <2>2, <4>1
    <3>3. /\ Len(left) = Len(row) - (end - at)
          /\ \A j \in 1..(Len(row) - (end - at)) :
               left[j] = IF j < at THEN row[j] ELSE row[j + (end - at)]
      BY <1>1, <3>1, <3>2, CutProperties
    <3>4. p \in 1..(Len(row) - (end - at))
      BY <1>8, <2>1, <3>3
    <3>5. CASE p < at
      <4>1. e = row[p] /\ p \in 1..Len(row)
        BY <1>1, <2>1, <2>6, <3>3, <3>4, <3>5
      <4>2. QED
        BY <1>3, <3>5, <4>1
    <3>6. CASE ~ (p < at)
      <4>1. /\ e = row[p + (end - at)] /\ p + (end - at) \in 1..Len(row)
            /\ end <= p + (end - at) /\ end \in 1..Len(row)
        <5>1. e = row[p + (end - at)]
          BY <2>1, <3>3, <3>4, <3>6
        <5>2. p \in Int /\ end \in Int /\ at \in Int /\ Len(row) \in Nat /\ end >= 1
          BY <1>1, <3>1, <3>4
        <5>3. p + (end - at) <= Len(row) /\ end <= p + (end - at)
          BY <3>4, <3>6, <5>2
        <5>4. QED
          BY <5>1, <5>2, <5>3
      <4>2. row[end].version <= minimum
        BY <1>4, <4>1
      <4>3. QED
        BY <2>3, <4>1, <4>2
    <3>7. QED
      BY <3>5, <3>6
  <2>7. QED
    BY <1>1, <1>3, <2>4, <2>5, <2>6
<1>12. ASSUME ~ unsafe, NEW e \in Range(row), \A f \in Range(row) : f.version <= e.version
       PROVE  e \in Range(left)
  <2>1. PICK p \in DOMAIN row : e = row[p]
    BY DEF Range
  <2>2. p \in 1..Len(row) /\ 1 \in 1..Len(row) /\ row[p].version \in Int /\ row[1].version \in Int
    BY <1>1, <2>1
  <2>3. row[1] \in Range(row)
    BY <1>1, <2>2 DEF Range
  <2>4. p # 1 => row[1].version > row[p].version
    BY <1>1, <2>2 DEF Descending
  <2>5. p = 1
    BY <1>12, <2>1, <2>2, <2>3, <2>4
  <2>6. ASSUME NEW a \in Nat, NEW k \in Nat,
               Stretch(row, left, V, v, minimum, TRUE, unsafe, a, k)
        PROVE  e \in Range(left)
    <3>1. /\ a \in 1..Len(row) /\ k \in (a + 1)..(Len(row) + 1) /\ a # 1
          /\ Len(left) = Len(row) - (k - a)
          /\ \A i \in 1..(Len(row) - (k - a)) :
               left[i] = IF i < a THEN row[i] ELSE row[i + (k - a)]
      BY <1>12, <2>6 DEF Stretch, Prunable
    <3>2. left[1] = row[1] /\ 1 \in DOMAIN left
      BY <1>1, <1>8, <3>1
    <3>3. QED
      BY <2>1, <2>5, <3>2 DEF Range
  <2>7. QED
    BY <1>2, <2>6
<1>13. QED
  BY <1>9, <1>10, <1>11, <1>12 DEF left

(* A version that the row does not have is added to it.                    *)
LEMMA InsertedEntries ==
  ASSUME NEW V, NEW row, RowType(row, V), NEW v \in Int, NEW value \in V,
         \A e \in Range(row) : e.version # v
  PROVE  \A e : e \in Range(Inserted(row, value, v)) <=>
               e \in Range(row) \/ e = [version |-> v, value |-> value]
<1> DEFINE at == AtOrBelow(row, v)
           new == [version |-> v, value |-> value]
           left == Inserted(row, value, v)
<1>1. /\ Len(row) \in Nat /\ DOMAIN row = 1..Len(row) /\ row \in Seq(EntryOf(V))
  BY RowElements DEF RowType
<1>2. at \in 1..(Len(row) + 1)
  BY AtOrBelowProperties
<1>3. left = IF at <= Len(row) /\ row[at].version = v THEN [row EXCEPT ![at].value = value]
             ELSE InsertAt(row, at, new)
  BY DEF Inserted
<1>4. new \in EntryOf(V)
  BY DEF EntryOf
<1> HIDE DEF at, new, left
<1>5. at <= Len(row) => row[at] \in Range(row)
  BY <1>1, <1>2 DEF Range
<1>6. left = InsertAt(row, at, new)
  BY <1>3, <1>5
<1> DEFINE Longer(q) ==
             /\ q \in Seq(EntryOf(V)) /\ Len(q) = Len(row) + 1
             /\ \A j \in 1..(Len(row) + 1) :
                  q[j] = IF j < at THEN row[j] ELSE IF j = at THEN new ELSE row[j - 1]
<1>7. Longer(left)
  <2>1. Longer(InsertAt(row, at, new))
    BY <1>1, <1>2, <1>4, InsertAtProperties, SMTT(20)
  <2> HIDE DEF Longer
  <2>2. QED
    BY <1>6, <2>1
<1>8. DOMAIN left = 1..(Len(row) + 1)
  BY <1>7, LenProperties
<1>9. ASSUME NEW j \in DOMAIN left
      PROVE  left[j] \in Range(row) \cup {new}
  <2>1. CASE j < at
    <3>1. left[j] = row[j] /\ j \in DOMAIN row
      BY <1>1, <1>2, <1>7, <1>8, <2>1
    <3>2. QED
      BY <3>1 DEF Range
  <2>2. CASE j = at
    BY <1>7, <1>8, <2>2
  <2>3. CASE j > at
    <3>1. left[j] = row[j - 1] /\ j - 1 \in DOMAIN row
      BY <1>1, <1>2, <1>7, <1>8, <2>3
    <3>2. QED
      BY <3>1 DEF Range
  <2>4. QED
    BY <1>2, <1>8, <2>1, <2>2, <2>3
<1>10. new \in Range(left)
  <2>1. at \in DOMAIN left /\ left[at] = new
    BY <1>2, <1>7, <1>8
  <2>2. QED
    BY <2>1 DEF Range
<1>11. ASSUME NEW i \in DOMAIN row
       PROVE  row[i] \in Range(left)
  <2>1. CASE i < at
    <3>1. left[i] = row[i] /\ i \in DOMAIN left
      BY <1>1, <1>2, <1>7, <1>8, <2>1
    <3>2. QED
      BY <3>1 DEF Range
  <2>2. CASE ~ (i < at)
    <3>1. i + 1 \in DOMAIN left /\ ~ (i + 1 < at) /\ i + 1 # at /\ (i + 1) - 1 = i
      BY <1>1, <1>2, <1>8, <2>2
    <3>2. left[i + 1] = row[i]
      BY <1>7, <1>8, <3>1
    <3>3. QED
      BY <3>1, <3>2 DEF Range
  <2>3. QED
    BY <2>1, <2>2
<1>12. ASSUME NEW e
       PROVE  e \in Range(left) <=> e \in Range(row) \/ e = new
  <2>1. e \in Range(left) => e \in Range(row) \/ e = new
    BY <1>9 DEF Range
  <2>2. e \in Range(row) => e \in Range(left)
    BY <1>11 DEF Range
  <2>3. QED
    BY <1>10, <2>1, <2>2
<1>13. QED
  BY <1>12 DEF left, new

(* A read finds the entry that is the newest of those older than its own   *)
(* version.                                                                *)
LEMMA GetFinds ==
  ASSUME NEW V, NEW row, RowType(row, V), Descending(row), NEW v \in Int,
         NEW e \in Range(row), e.version < v,
         \A f \in Range(row) : f.version < v => f.version <= e.version
  PROVE  Get(row, v) = e.value
<1> DEFINE i == Below(row, v)
<1>1. /\ Len(row) \in Nat /\ DOMAIN row = 1..Len(row)
      /\ \A j \in 1..Len(row) : row[j].version \in Int
  BY RowElements
<1>2. /\ i \in 1..(Len(row) + 1)
      /\ i <= Len(row) => row[i].version < v
      /\ \A j \in 1..Len(row) : j < i => row[j].version >= v
  BY BelowProperties
<1>3. Get(row, v) = IF i <= Len(row) THEN row[i].value ELSE NULL
  BY DEF Get
<1> HIDE DEF i
<1>4. PICK j \in 1..Len(row) : e = row[j]
  BY <1>1 DEF Range
<1>5. ~ (j < i)
  BY <1>1, <1>2, <1>4
<1>6. i \in 1..Len(row) /\ row[i] \in Range(row)
  BY <1>1, <1>2, <1>5 DEF Range
<1>7. row[i].version <= row[j].version
  BY <1>2, <1>4, <1>6
<1>8. i < j => row[i].version > row[j].version
  BY <1>1, <1>6 DEF Descending
<1>9. i = j
  BY <1>1, <1>5, <1>6, <1>7, <1>8
<1>10. QED
  BY <1>3, <1>4, <1>6, <1>9
LEMMA GetType ==
  ASSUME NEW V, NEW row, RowType(row, V), NEW v \in Int
  PROVE  Get(row, v) \in V \cup {NULL}
<1>1. Len(row) \in Nat /\ \A i \in 1..Len(row) : row[i].value \in V
  BY RowElements
<1>2. Below(row, v) \in 1..(Len(row) + 1)
  BY BelowProperties
<1>3. QED
  BY <1>1, <1>2 DEF Get

(* ... and it is one of the row's, if there is any.                        *)
LEMMA GetFrom ==
  ASSUME NEW V, NEW row, RowType(row, V), NEW v \in Int
  PROVE  Get(row, v) = NULL \/ \E e \in Range(row) : Get(row, v) = e.value
<1>1. Len(row) \in Nat /\ DOMAIN row = 1..Len(row)
  BY RowElements
<1>2. Below(row, v) \in 1..(Len(row) + 1)
  BY BelowProperties
<1>3. Below(row, v) <= Len(row) => row[Below(row, v)] \in Range(row)
  BY <1>1, <1>2 DEF Range
<1>4. QED
  BY <1>3 DEF Get

=============================================================================
