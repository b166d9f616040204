SPECIFICATION Spec
CONSTANTS
  first = first
  second = second
  NoEntry = NoEntry
  NotASocket = NotASocket
  Stale = Stale
  NoOne = NoOne
  Daemons = {first, second}
  Together = FALSE
  MaxRecords = 2
PROPERTIES
  OthersAreKept
  LiveIsKept
  StartsInTheEnd
CHECK_DEADLOCK TRUE
