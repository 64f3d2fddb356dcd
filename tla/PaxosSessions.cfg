SPECIFICATION PaxosFairSpec
CONSTANTS
  Client = {p, q}
  BatchReader = {p, q}
  MaxBatches = 2
  CONCURRENT_GETS = 2
  MaxFaults = 0
CHECK_DEADLOCK FALSE
PROPERTY AppearsToAll
