SPECIFICATION Spec
CONSTANTS
  None = None
  Odd = Odd
  Interfaces <- MCInterfaces
  Ports = {"eth0"}
  Load = 7
  Temperature = 42
  MemInfo <- MCMemInfo
  Readable <- MCReadable
  MaxEvents = 5
INVARIANTS
  RatesAreTrue
  GapsHaveACause
  CpuIsTheBusyShare
  RowFitsSchema
CHECK_DEADLOCK TRUE
