SPECIFICATION Spec
CONSTANTS
  cpu = cpu
  net = net
  NoFile = NoFile
  Foreign = Foreign
  Torn = Torn
  Schemas = {cpu, net}
  Capacity = 3
  FlushEvery = 1
  Retention = 3
  MaxSamples = 4
SYMMETRY Symmetric
INVARIANT PowerCutLosesOneInterval
CHECK_DEADLOCK TRUE
