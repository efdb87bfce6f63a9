SPECIFICATION TablesSpec
CONSTANTS
  ha = ha
  V4 <- MCV4
  V6 <- MCV6
  Letters = {ha}
  None = None
  MaxBlocks = 2
  Digits = {2, 5, 6}
  Dot = Dot
  Other = Other
  MaxLen = 9
  ip1 = ip1
  ip2 = ip2
  net1 = net1
  net2 = net2
  net3 = net3
  IPs = {ip1, ip2}
  Nets = {net1, net2, net3}
  Contains <- MCContains
  NoBlock = NoBlock
  MaxTime = 3
INVARIANTS
  TypeOK
  V4Exact
  V6Sound
  ParsesExactly
  RoundTrip
  Unique
  LookupExact
PROPERTIES
  ActsAsMap
  ActsOnItsOwn
CHECK_DEADLOCK FALSE
