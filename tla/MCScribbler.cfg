SPECIFICATION Spec
CONSTANTS
  Pages = {0, 1}
  KWords = 2
  Rates = {0, 8}
  Samples = 2
  MaxIter = 2
  Damages = {"torn", "lost", "zeroed", "moved"}
INVARIANTS
  NoFalseAlarm
  CheckedPagesAreWhole
\* A run of the scribbler is MaxIter iterations long.
CHECK_DEADLOCK FALSE
