SPECIFICATION Spec
CONSTANTS
  x = x  y = y  far = far  other = other  NoBatch = NoBatch  NoTxn = NoTxn
  Thread = {w1, w2}
  Txn <- SevenTxn
  Key <- MCKey
  Bucket = {x, y}
  Hash <- MCHash
  LocalKeys = {x, y}
  ReadSet <- SevenReadSet
  ReadWriteSet <- ReadOnlyReadWriteSet
  Batch <- SevenBatch
  Sequencers = 3
  HasWriters = {1, 3, 4, 5, 6, 7}
  WritesHere = {1, 4, 5, 6, 7}
  RemoteReaders <- SevenRemoteReaders
  MaxInFlight = 3
  GrabLimit = 2
INVARIANT KeepsRunning
CHECK_DEADLOCK FALSE
