SPECIFICATION MCSpec
CONSTANTS
  Pages = {1, 2, 3}
  Cells = {11, 21, 31}
  PageOf <- MCPageOf
  Values = {0, 1}
  Zero = 0
  QueuePages = {3}
  Budget = 1
  MergeExisting = FALSE
  Hosts = {a, b}
  LiveRounds = {a}
  MaxRounds = 2
  BootImages <- MCBoot
  MaxStores = 2
  MaxTries = 2
  MaxReboots = 1
INVARIANTS
  IInv
  ImageIntact
  BaseSound
  ServedWhilePreCopying
  NothingRunsAfterFreeze
PROPERTIES
  HandoverExact
  MigrationEnds
\* Idle with no request left is where a bounded run stops.
CHECK_DEADLOCK FALSE
