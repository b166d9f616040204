SPECIFICATION Spec
CONSTANTS
  cpu = cpu
  net = net
  NoFile = NoFile
  Foreign = Foreign
  Torn = Torn
  Schemas = {cpu}
  Capacity = 1
  FlushEvery = 2
  Retention = 3
  MaxSamples = 6
INVARIANTS
  FileIsBounded
PROPERTIES
  SavedOnceDiskWorks
CHECK_DEADLOCK TRUE
