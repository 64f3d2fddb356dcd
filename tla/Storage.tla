------------------------------ MODULE Storage ------------------------------
(***************************************************************************)
(* backend/storage.cc and backend/storage_iterator.cc: the multi-version   *)
(* store of one node without a checkpointer, its pruning, and an iterator  *)
(* that reads along the keys as of one version.                            *)
(***************************************************************************)
EXTENDS Rows

CONSTANTS
  Key,            \* keys, numbered in the order of the strings
  Value,
  VersionsOf,     \* versions each key may be written under
  ReadVersions    \* versions an iterator may be opened at

ASSUME StorageAssumption ==
  /\ Key \subseteq Nat \ {0} /\ IsFiniteSet(Key)
  /\ VersionsOf \in [Key -> SUBSET Nat]
  /\ ReadVersions \subseteq Nat /\ ReadVersions # {}
  /\ NULL \notin Value

VARIABLES
  objects,        \* the rows of the keys that were ever put
  version,        \* the iterator: its version, ...
  key,            \* ... its key (0: the empty string), ...
  before_first,   \* ... and the two ends
  after_last,
  seen,           \* history: keys a forward scan has returned; NULL: no scan
  sought          \* history: the target of the last call if that was a Seek, else 0

iterVars == <<version, key, before_first, after_last, seen, sought>>
vars == <<objects, iterVars>>

Row(k) == IF k \in DOMAIN objects THEN objects[k] ELSE <<>>
SetRow(k, row) == objects' = [l \in DOMAIN objects \cup {k} |-> IF l = k THEN row ELSE objects[l]]

Exists(k, v) == Get(Row(k), v) # NULL
Visible(v) == {k \in DOMAIN objects : Exists(k, v)}

Init ==
  /\ objects = [k \in {} |-> <<>>]
  /\ version \in ReadVersions
  /\ key = 0
  /\ before_first = TRUE /\ after_last = FALSE
  /\ seen = <<>> /\ sought = 0

-----------------------------------------------------------------------------
(* A scan only says something while what it scans does not change.         *)
KeepScan ==
  /\ UNCHANGED <<version, key, before_first, after_last>>
  /\ seen' = IF Visible(version)' = Visible(version) THEN seen ELSE NULL
  /\ sought' = 0

(* Put with a version below 0 loads the initial data; Insert asserts that  *)
(* the key is new.                                                         *)
Load(k, value) ==
  /\ k \notin DOMAIN objects
  /\ SetRow(k, <<[version |-> -1, value |-> value]>>)
  /\ KeepScan

Put(k, value, v) ==
  /\ SetRow(k, Inserted(Row(k), value, v))
  /\ KeepScan

(* A NULL value is put.                                                    *)
Delete(k, v) == Put(k, NULL, v)

PruneRow(k, v, multiple, minimum, unsafe) ==
  /\ k \in DOMAIN objects
  /\ SetRow(k, Pruned(objects[k], v, multiple, minimum, unsafe))
  /\ KeepScan

-----------------------------------------------------------------------------
Valid == ~ before_first /\ ~ after_last

(* FirstKey, LastKey, GetNextKey and GetPrevKey skip the keys that have no *)
(* value at the version; 0 is the NULL they return at the end.             *)
Least(S) == IF S = {} THEN 0 ELSE Min(S)
Greatest(S) == IF S = {} THEN 0 ELSE Max(S)
FirstKey == Least(Visible(version))
LastKey == Greatest(Visible(version))

(* Variant of GetNextKey that returns keys without a visible version.      *)
GetNextKey_Any(k) == Least({l \in DOMAIN objects : l > k})

GetNextKey(k) == Least({l \in Visible(version) : l > k})
GetPrevKey(k) == Greatest({l \in Visible(version) : l < k})

(* GetIterator(version): before the first key.                             *)
GetIterator(v) ==
  /\ version' = v
  /\ key' = 0 /\ before_first' = TRUE /\ after_last' = FALSE
  /\ seen' = <<>> /\ sought' = 0
  /\ UNCHANGED objects

(* Move to a key, or set the flag of the end there is none beyond.         *)
Next ==
  LET next == IF before_first THEN FirstKey ELSE GetNextKey(key) IN
  /\ before_first' = FALSE
  /\ IF next = 0 THEN after_last' = TRUE /\ UNCHANGED <<key, seen>>
     ELSE /\ key' = next
          /\ seen' = IF seen = NULL THEN NULL ELSE Append(seen, next)
          /\ UNCHANGED after_last
  /\ sought' = 0
  /\ UNCHANGED <<objects, version>>

Prev ==
  LET next == IF after_last THEN LastKey ELSE GetPrevKey(key) IN
  /\ after_last' = FALSE
  /\ IF next = 0 THEN before_first' = TRUE /\ UNCHANGED key
     ELSE key' = next /\ UNCHANGED before_first
  /\ seen' = NULL /\ sought' = 0
  /\ UNCHANGED <<objects, version>>

(* Variant of Seek that always moves on, past a target that has a value.   *)
Seek_Past(target) ==
  LET next == IF before_first THEN FirstKey ELSE GetNextKey(target) IN
  /\ before_first' = FALSE
  /\ IF next = 0 THEN key' = target /\ after_last' = TRUE
     ELSE key' = next /\ UNCHANGED after_last
  /\ seen' = NULL /\ sought' = target
  /\ UNCHANGED <<objects, version>>

(* Seek goes to the target, or on from it like Next where it has no value; *)
(* the flag of an end it starts from stays set.                            *)
Seek(target) ==
  LET next == IF before_first THEN FirstKey ELSE GetNextKey(target) IN
  /\ IF Exists(target, version)
     THEN key' = target /\ UNCHANGED <<before_first, after_last>>
     ELSE /\ before_first' = FALSE
          /\ IF next = 0 THEN key' = target /\ after_last' = TRUE
             ELSE key' = next /\ UNCHANGED after_last
  /\ seen' = NULL /\ sought' = target
  /\ UNCHANGED <<objects, version>>

SeekToFirst ==
  /\ before_first' = FALSE /\ after_last' = (FirstKey = 0)
  /\ key' = IF FirstKey = 0 THEN key ELSE FirstKey
  /\ seen' = IF FirstKey = 0 THEN <<>> ELSE <<FirstKey>>
  /\ sought' = 0
  /\ UNCHANGED <<objects, version>>

SeekToLast ==
  /\ before_first' = (LastKey = 0) /\ after_last' = FALSE
  /\ key' = IF LastKey = 0 THEN key ELSE LastKey
  /\ seen' = NULL /\ sought' = 0
  /\ UNCHANGED <<objects, version>>

PruneArguments(k) ==
  [version : VersionsOf[k], multiple : BOOLEAN, minimum : {-1} \cup VersionsOf[k], unsafe : BOOLEAN]

Change ==
  \E k \in Key :
    \/ \E value \in Value : Load(k, value) \/ \E v \in VersionsOf[k] : Put(k, value, v)
    \/ \E v \in VersionsOf[k] : Delete(k, v)
    \/ \E a \in PruneArguments(k) : PruneRow(k, a.version, a.multiple, a.minimum, a.unsafe)

Move ==
  \/ \E v \in ReadVersions : GetIterator(v)
  \/ Next \/ Prev \/ SeekToFirst \/ SeekToLast
  \/ \E target \in Key : Seek(target)

Spec == Init /\ [][Change \/ Move]_vars

-----------------------------------------------------------------------------
AllVersions == {-1} \cup UNION {VersionsOf[k] : k \in Key}
Entry == [version : AllVersions, value : Value \cup {NULL}]

StorageTypeOK ==
  /\ DOMAIN objects \subseteq Key
  /\ \A k \in DOMAIN objects : objects[k] \in Seq(Entry)
  /\ version \in ReadVersions /\ key \in {0} \cup Key
  /\ before_first \in BOOLEAN /\ after_last \in BOOLEAN
  /\ ~ (before_first /\ after_last)
  /\ seen = NULL \/ seen \in Seq(Key)
  /\ sought \in {0} \cup Key

(* Whatever was put, overwritten, deleted and pruned in whatever order of  *)
(* versions, Get finds the newest version older than the one asked for:    *)
(* the walk down the list relies on an order that Put, Delete and PruneRow *)
(* each keep on their own.                                                 *)
GetFindsNewestOlder ==
  \A k \in DOMAIN objects : \A v \in AllVersions \cup {v + 1 : v \in AllVersions} :
    LET older == {w \in Versions(objects[k]) : w < v} IN
    IF older = {} THEN Get(objects[k], v) = NULL
    ELSE Holds(objects[k], Max(older), Get(objects[k], v))

(* storage.h:138-155: what PruneRow would leave of any row.  Nothing newer *)
(* than what was to be pruned, nor at or below the minimum, is lost; a     *)
(* single pruning takes one version at most; without unsafe a row that has *)
(* versions keeps one, and a multiple pruning keeps the newest.            *)
PruneKeepsPromise ==
  \A k \in DOMAIN objects : \A a \in PruneArguments(k) :
    LET row == objects[k]
        left == Pruned(row, a.version, a.multiple, a.minimum, a.unsafe) IN
    /\ \A i \in DOMAIN row :
         row[i].version <= a.minimum \/ row[i].version > a.version => Contains(left, row[i])
    /\ ~ a.multiple => Len(left) >= Len(row) - 1
    /\ ~ a.unsafe /\ row # <<>> => left # <<>>
    /\ ~ a.unsafe /\ a.multiple /\ row # <<>> => Contains(left, row[1])

(* storage.h:145-146: without multiple, "only exact match will be pruned". *)
PruneExact ==
  \A k \in DOMAIN objects : \A a \in PruneArguments(k) :
    ~ a.multiple =>
      LET row == objects[k]
          left == Pruned(row, a.version, FALSE, a.minimum, a.unsafe) IN
      \A i \in DOMAIN row : row[i].version # a.version => Contains(left, row[i])

(* A forward scan returns the keys that have a value at the iterator's     *)
(* version, in order, each once and none left out, whatever is put at or   *)
(* above that version meanwhile.                                           *)
ScanIsExact ==
  seen # NULL =>
    /\ \A i, j \in DOMAIN seen : i < j => seen[i] < seen[j]
    /\ Range(seen) = {k \in Visible(version) : after_last \/ (~ before_first /\ k <= key)}

(* iterator.h:50-53: Seek positions at the first key at or past target,    *)
(* and the iterator is valid iff there is one.                             *)
SeekFindsTarget ==
  sought # 0 =>
    LET past == {k \in Visible(version) : k >= sought} IN
    /\ Valid <=> past # {}
    /\ Valid => key = Least(past)

(* The same of a Seek on an iterator that is valid: from there it finds    *)
(* the target, or else the next key that has a value at the version.       *)
SeekFromValid == [][Valid /\ sought' # 0 => SeekFindsTarget']_vars
=============================================================================
