SPECIFICATION Spec
CONSTANTS
  None = None
  Interval = 2
  FlushInterval = 4
  Grace = 5
  MaxDelay = 2
  MaxTurns = 5
  Clock <- MCClock
  MaxTime = 5
  Plausible = 1
  Retention = 1
INVARIANTS
  RefusedOnlyAtTheEnd
  TimesAreTheClocks
  FlushesInTime
  SleepsAtMostAnInterval
  NoDrift
CHECK_DEADLOCK TRUE
