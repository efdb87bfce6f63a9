SPECIFICATION FairSpec
CONSTANTS
  ip1 = ip1
  net1 = net1
  IPs = {ip1}
  Nets = {}
  Values <- MCValues
  Contains <- MCContains
  PtrRecord = PtrRecord
  NoEntry = NoEntry
  MaxRev = 20
  Instances = {i1}
  MultiInstance = FALSE
  Clients = {c1}
  Lazies = {l1}
  Workers = {i1}
  MaxTime = 3
  Expirations = {2, 3}
  Sources = {"openbl"}
  MaxRequests = 2
  Faults = {}
PROPERTIES
  AllExpiredLeave
CHECK_DEADLOCK FALSE
