SPECIFICATION MCSpec
CONSTANTS
  Hosts = {"a", "b"}
  HostSeq <- MCHosts
  Slots = {s1, s2, s3}
  NoSlot = NoSlot
  Deletes = {d1}
  Faults = {"cancel"}
  Ops = {}
  Mishaps = {}
  Clients = {"operator"}
  MaxTries = 1
  MaxTroubled = 1
  BenchRuns = 1
  MaxOps = 0
  MaxLost = 0
  MaxMiss = 0
INVARIANT CleanAbort
CHECK_DEADLOCK FALSE
