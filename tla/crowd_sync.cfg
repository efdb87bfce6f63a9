SPECIFICATION CrowdSpec
CONSTANTS
  ip1 = ip1
  net1 = net1
  IPs = {ip1}
  Nets = {}
  Values <- MCValues
  Contains = {}
  PtrRecord = PtrRecord
  NoEntry = NoEntry
  MaxRev = 100
  Instances = {i1}
  MultiInstance = FALSE
  Clients = {c1}
  Lazies = {l1}
  Workers = {}
  MaxTime = 2
  Expirations = {0}
  Sources = {"openbl", "crowdsec"}
  MaxRequests = 1
  Faults = {"crash", "garbled", "lapi"}
  Ends = {0, 2}
  MaxDecisions = 2
VIEW CrowdView
INVARIANTS
  CrowdTypeOK
  Mirrors
  KeepsOthers
PROPERTIES
  FirstSeenKept
CHECK_DEADLOCK FALSE
