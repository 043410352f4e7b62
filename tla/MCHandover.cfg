SPECIFICATION MCSpec
CONSTANTS
  Hosts = {"a", "b"}
  HostSeq <- MCHosts
  Slots = {s1, s2, s3, s4, s5}
  NoSlot = NoSlot
  Deletes = {d1}
  Faults = {"refuse", "lost", "late", "cancel", "spawn", "resume"}
  Ops = {"create", "delete", "self"}
  Mishaps = {"panic", "call"}
  Clients = {"operator", "bench"}
  MaxTries = 4
  MaxTroubled = 2
  BenchRuns = 2
  MaxOps = 2
  MaxLost = 1
  MaxMiss = 1
INVARIANTS
  BenchTypeOK
  OneRunner
  GuestSurvives
  RegistryTruthful
  LeavesNothing
  BenchOnGuest
PROPERTIES
  LoadedWhole
  OneOwner
  MigrationSettles
  BenchEnds
\* Nobody has to ask for another migration.
CHECK_DEADLOCK FALSE
