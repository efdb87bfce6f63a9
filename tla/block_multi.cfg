SPECIFICATION Spec
CONSTANTS
  ip1 = ip1
  net1 = net1
  IPs = {ip1}
  Nets = {}
  Values <- MCValues
  Contains <- MCContains
  PtrRecord = PtrRecord
  NoEntry = NoEntry
  MaxRev = 20
  Instances = {i1}
  MultiInstance = TRUE
  Clients = {c1}
  Lazies = {l1}
  Workers = {i1}
  MaxTime = 2
  Expirations <- MCExpirations
  Sources = {"openbl"}
  MaxRequests = 2
  Faults = {"drop"}
SYMMETRY MCSymmetry
INVARIANTS
  PtrInStep
  ExpiryJustified
PROPERTY
  KeepsToReplica
CHECK_DEADLOCK FALSE
