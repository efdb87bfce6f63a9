SPECIFICATION Spec
CONSTANTS
  ip1 = ip1
  net1 = net1
  IPs = {ip1}
  Nets = {net1}
  Values <- MCValues
  Contains <- MCContains
  PtrRecord = PtrRecord
  NoEntry = NoEntry
  MaxRev = 100
  Instances = {i1}
  MultiInstance = FALSE
  Clients = {c1, c2}
  Lazies = {l1}
  Workers = {i1}
  MaxTime = 2
  Expirations = {0, 2}
  Sources = {"openbl"}
  MaxRequests = 2
  Faults = {"crash", "garbled", "etcd"}
VIEW SingleView
SYMMETRY MCSymmetry
INVARIANTS
  ReadYourWrites
  TypeOK
  InStep
  PtrInStep
PROPERTIES
  FirstSeenKept
CHECK_DEADLOCK FALSE
