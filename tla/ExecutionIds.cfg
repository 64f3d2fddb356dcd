SPECIFICATION Spec
CONSTANTS
  x = x  y = y  z = z  v = v  a = a  b = b  c = c
  Node = {a, b, c}
  Key = {x, y, z, v}
  Bucket = {x, z, v}
  Home <- MCHome
  Hash <- MCHash
  LastTxn = 8
  Id <- SequencerId
  ReadSet <- MCReadSet
  ReadWriteSet <- MCReadWriteSet
  InPlace = {1, 5}
  Capacity = 3
INVARIANT SerialReads
CHECK_DEADLOCK FALSE
