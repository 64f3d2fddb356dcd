SPECIFICATION FairLockSpec
CONSTANTS
  k1 = k1  k2 = k2  k3 = k3  kr = kr  b1 = b1  b2 = b2
  Txn <- MixTxn
  Key <- MCKey
  Bucket <- MCBucket
  Hash <- MCHash
  LocalKeys <- MCLocalKeys
  ReadSet <- MixReadSet
  ReadWriteSet <- MixReadWriteSet
INVARIANTS LockTypeOK QueueShape WaitsExact ReadyOnce MutualExclusion
PROPERTIES DeterministicSpec NoStarvation
CHECK_DEADLOCK FALSE
