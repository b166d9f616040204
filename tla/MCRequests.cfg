SPECIFICATION Spec
CONSTANTS
  Absent = Absent
  Null = Null
  NaN = NaN
  Dash = Dash
  Junk = Junk
  NotJson = NotJson
  NotAnObject = NotAnObject
  TooLong = TooLong
  NotUtf8 = NotUtf8
  Blank = Blank
  Looks <- MCLooks
  MaxMillis = 1000000000
  MaxStoreBytes = 1073741824
  MaxTime = 3
  MaxPoints = 3
  MaxNames = 3
  DaemonLines <- MCDaemonLines
  ServedLines <- MCServedLines
  SmqLines <- MCSmqLines
  Environments <- MCEnvironments
  Texts <- MCTexts
  Clock = {0, 1, 3}
  Instants <- MCInstants
  MaxRows = 1
  Gaps <- MCGaps
INVARIANTS
  SettingsAreUsable
  SpellingDoesNotMatter
  SmqAndDaemonAgree
  StoreIsAskedSensibly
  ShownUnderItsName
  DatesAreRight
CHECK_DEADLOCK TRUE
