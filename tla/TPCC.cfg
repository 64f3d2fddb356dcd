SPECIFICATION Spec
CONSTANTS
  Txn = {1, 2, 3, 4, 5}
  Request <- MCRequest
  Quantity = 19
INVARIANTS RecordsSerial BooksBalance StockHeld RowsExact
CHECK_DEADLOCK FALSE
