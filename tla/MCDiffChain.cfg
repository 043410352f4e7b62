SPECIFICATION Spec
CONSTANTS
  Pages <- MCPages
  Cells <- MCCells
  PageOf <- MCPageOf
  Values = {0, 1}
  Zero = 0
  QueuePages <- MCQueue
  Budget = 1
  MergeExisting = FALSE
INVARIANTS
  NothingLost
  NoRedump
  CallIsBounded
  IInv
PROPERTIES
  CallEnds
