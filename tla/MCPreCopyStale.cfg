\* Idle with no request left is where a bounded run stops.
CHECK_DEADLOCK FALSE
SPECIFICATION MCSpec
CONSTANTS
  Pages = {1, 2}
  Cells = {11, 21}
  PageOf <- MCPageOf
  Values = {0, 1}
  Zero = 0
  QueuePages = {}
  Budget = 1
  MergeExisting = TRUE
  Hosts = {a, b}
  MaxRounds = 1
  LiveRounds = {a, b}
  BootImages <- MCBoot
  MaxStores = 2
  MaxTries = 3
  MaxReboots = 0
SYMMETRY HostSymmetry
PROPERTIES
  HandoverExact
