SPECIFICATION Spec
CONSTANTS
  Sizes = {2, 3, 4, 9}
  ConvergedBytes = 2
  PlateauBytes = 8
  Budgets = {0, 4}
  MaxRounds = 3
  MaxLevel = 2
  Cyclers = {c1, c2, c3}
  Faults = {"round"}
SYMMETRY CyclerSymmetry
INVARIANT LevelInEffect
\* A VM that has migrated away is gone.
CHECK_DEADLOCK FALSE
