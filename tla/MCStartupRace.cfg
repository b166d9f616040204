SPECIFICATION Spec
CONSTANTS
  first = first
  second = second
  NoEntry = NoEntry
  NotASocket = NotASocket
  Stale = Stale
  NoOne = NoOne
  Daemons = {first, second}
  Together = TRUE
  MaxRecords = 2
PROPERTY LiveIsKept
CHECK_DEADLOCK TRUE
