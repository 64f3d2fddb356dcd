-------------------------------- MODULE Rows --------------------------------
(***************************************************************************)
(* backend/storage.cc: what Put, Get and PruneRow do to the versions of    *)
(* one key.  A row is the linked list of its versions, the newest first;   *)
(* a key whose versions were all pruned has an empty row.                  *)
(***************************************************************************)
EXTENDS Integers, Sequences, SequencesExt, FiniteSetsExt

CONSTANT NULL   \* the value of a deleted key, and of no key at all

(* The first entry that passes the test of a search from the head, or the  *)
(* end of the list.                                                        *)
FirstIn(row, found) == Min(found \cup {Len(row) + 1})

AtOrBelow(row, version) ==
  FirstIn(row, {i \in DOMAIN row : row[i].version <= version})

Below(row, version) ==
  FirstIn(row, {i \in DOMAIN row : row[i].version < version})

(* Value* Get(key, version): the newest version strictly before the one    *)
(* given.                                                                  *)
Get(row, version) ==
  LET i == Below(row, version) IN
  IF i <= Len(row) THEN row[i].value ELSE NULL

(* Variant of Inserted that puts every version in front.                   *)
Inserted_Front(row, value, version) ==
  <<[version |-> version, value |-> value]>> \o row

(* bool Put(key, value, version): an equal version is overwritten, else    *)
(* the new one goes before the first older one.                            *)
Inserted(row, value, version) ==
  LET i == AtOrBelow(row, version) IN
  IF i <= Len(row) /\ row[i].version = version
  THEN [row EXCEPT ![i].value = value]
  ELSE InsertAt(row, i, [version |-> version, value |-> value])

(* PruneRow(key, version, multiple, minimum, unsafe) finds the newest      *)
(* version at or below version, which must not be the only one, and        *)
(* removes it, or it and everything older, down to minimum.  Without       *)
(* unsafe, multiple versions are only removed behind a newer one.          *)
Prunable(row, i, multiple, unsafe) ==
  /\ i <= Len(row)
  /\ unsafe \/ Len(row) > 1
  /\ ~ (i = 1 /\ multiple /\ ~ unsafe)

(* Variant of Pruned that forgets the minimum.                             *)
Pruned_NoMinimum(row, version, multiple, minimum, unsafe) ==
  LET i == AtOrBelow(row, version) IN
  IF ~ Prunable(row, i, multiple, unsafe) THEN row
  ELSE IF multiple THEN SubSeq(row, 1, i - 1)
  ELSE RemoveAt(row, i)

Pruned(row, version, multiple, minimum, unsafe) ==
  LET i == AtOrBelow(row, version) IN
  IF ~ Prunable(row, i, multiple, unsafe) \/ row[i].version <= minimum THEN row
  ELSE IF multiple
  THEN SubSeq(row, 1, i - 1) \o SubSeq(row, AtOrBelow(row, minimum), Len(row))
  ELSE RemoveAt(row, i)

(* The list is in strictly descending order.                               *)
Descending(row) ==
  \A i, j \in DOMAIN row : i < j => row[i].version > row[j].version

(* What the row holds, whatever its order: the value of each version.      *)
Versions(row) == {row[i].version : i \in DOMAIN row}
Holds(row, version, value) ==
  \E i \in DOMAIN row : row[i] = [version |-> version, value |-> value]
=============================================================================
