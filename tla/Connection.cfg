SPECIFICATION FairSpec
CONSTANTS
  NULL = NULL
  Conn = {"worker", "scheduler_", "sequencer"}
  Linkable = {"txn"}
  Worker <- MCWorker
  Remote = {"node"}
  Mail <- MCMail
  Asks = 2
INVARIANTS Handshake InOrder
PROPERTY AllReceived
CHECK_DEADLOCK FALSE
