SPECIFICATION Spec
CONSTANTS
  Interval = 2
  BadRTT = 2
  ScanLimit = 2
  MaxTime = 6
INVARIANTS
  LossIsReal
  FiguresExact
  OutageIsMeasured
  BrownoutExcluded
\* The clock of a run stops at MaxTime.
CHECK_DEADLOCK FALSE
