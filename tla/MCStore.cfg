SPECIFICATION Spec
CONSTANTS
  none = none
  nan = nan
  Fill = Fill
  Capacity = 3
  Width = 1
  MaxTime = 9
  Values <- MCValues
  Stamps <- MCStamps
  Offered <- MCOffered
  NoLimit = none
  NaN = nan
  NotFinite <- MCNotFinite
  Infinity = 9
  MaxBuckets = 3
  Interval = 2
INVARIANTS
  RingInv
  RangeIsExact
  DownsampleIsExact
  MaxPointsIsKept
PROPERTIES
  ImplementsBoundedLog
  OkMeansAdded
CHECK_DEADLOCK TRUE
