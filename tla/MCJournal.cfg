SPECIFICATION Spec
CONSTANTS
  cpu = cpu
  net = net
  NoFile = NoFile
  Foreign = Foreign
  Torn = Torn
  Schemas = {cpu, net}
  Capacity = 2
  FlushEvery = 2
  Retention = 3
  MaxSamples = 6
SYMMETRY Symmetric
INVARIANTS
  FileContinuesInMemory
  KillKeepsFlushed
  WaitingIsBounded
  NeverMisread
PROPERTIES
  ImplementsSavedHistory
CHECK_DEADLOCK TRUE
