SPECIFICATION PaxosFairSpec
CONSTANTS
  Client = {p, q}
  BatchReader = {p, q}
  MaxBatches = 3
  CONCURRENT_GETS = 2
  MaxFaults = 1
INVARIANTS PaxosTypeOK SlotsExact
PROPERTIES ReadersShareLog BatchesRead
CHECK_DEADLOCK FALSE
