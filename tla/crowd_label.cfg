SPECIFICATION CrowdSpec
CONSTANTS
  ip1 = ip1
  net1 = net1
  IPs = {ip1}
  Nets = {}
  Values <- MCValues
  Contains = {}
  PtrRecord = PtrRecord
  NoEntry = NoEntry
  MaxRev = 100
  Instances = {i1}
  MultiInstance = FALSE
  Clients = {c1}
  Lazies = {l1}
  Workers = {}
  MaxTime = 1
  Expirations = {0}
  Sources = {"openbl", "crowdsec"}
  MaxRequests = 1
  Faults = {}
  Ends = {0}
  MaxDecisions = 1
VIEW CrowdView
INVARIANT
  RemovesSyncedOnly
CHECK_DEADLOCK FALSE
