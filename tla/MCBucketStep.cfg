SPECIFICATION Spec
CONSTANTS
  MaxTime = 31
  Points <- MCPoints
  Intervals <- MCIntervals
INVARIANTS
  NoMoreThanAsked
  WholeNumberOfSamples
PROPERTIES
  Returns
CHECK_DEADLOCK FALSE
