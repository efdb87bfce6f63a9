SPECIFICATION Spec
CONSTANTS
  Instances = {i1}
  IPs = {ip1}
  Nets = {net1}
  Values = {v1}
  PtrRecord = ptr
  NoEntry = NoEntry
  Faults = {}
  MaxRev = 4
INVARIANT InMemoryCopy
CHECK_DEADLOCK FALSE
