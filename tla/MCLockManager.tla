--------------------------- MODULE MCLockManager ---------------------------
(***************************************************************************)
(* Instances of LockManager for TLC.                                       *)
(***************************************************************************)
EXTENDS LockManager, TLC

CONSTANTS
  k1, k2, k3,   \* local keys; k1 and k2 collide
  kr,           \* a key stored at another node
  b1, b2        \* buckets

MCKey == {k1, k2, k3, kr}
MCBucket == {b1, b2}
MCHash == k1 :> b1 @@ k2 :> b1 @@ k3 :> b2 @@ kr :> b2
MCLocalKeys == {k1, k2, k3}

(* Five transactions: writers of both buckets, a reader of both, a         *)
(* transaction that reads one key and writes another of the same bucket,   *)
(* one that reads remotely, and pure readers of one bucket.                *)
MixTxn == 1..5
MixReadSet == <<{k1, k3}, {k1, kr}, {k2, k3}, {}, {k1}>>
MixReadWriteSet == <<{}, {k2}, {}, {k1, k3}, {k3}>>
=============================================================================
