SPECIFICATION Spec
CONSTANTS
  first = first
  second = second
  NoEntry = NoEntry
  NotASocket = NotASocket
  Stale = Stale
  NoOne = NoOne
  Daemons = {first, second}
  Together = FALSE
  MaxRecords = 2
INVARIANT FlushedIsFound
CHECK_DEADLOCK TRUE
