SPECIFICATION FairSpec
CONSTANTS
  Instances = {i1}
  IPs = {ip1}
  Nets = {net1}
  Values = {v1}
  PtrRecord = ptr
  NoEntry = NoEntry
  Faults = {"garbled", "drop", "crash", "evict"}
  MaxRev = 3
INVARIANTS TypeOK Provenance ReplicaExact CopyExact
PROPERTIES CatchUp ImplementsReplica NoSilentRollback
CHECK_DEADLOCK FALSE
