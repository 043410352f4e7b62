SPECIFICATION MCSpec
CONSTANTS
  Hosts = {"a", "b"}
  HostSeq <- MCHosts
  Slots = {s1, s2, s3}
  NoSlot = NoSlot
  Deletes = {d1}
  Faults = {}
  Ops = {"create"}
  Mishaps = {}
  Clients = {"operator"}
  MaxTries = 1
  MaxTroubled = 1
  BenchRuns = 1
  MaxOps = 1
  MaxLost = 0
  MaxMiss = 0
PROPERTY ConflictChangesNothing
