SPECIFICATION CidrSpec
CONSTANTS
  ip1 = ip1
  ip2 = ip2
  net1 = net1
  net2 = net2
  net3 = net3
  IPs = {ip1, ip2}
  Nets = {net1, net2, net3}
  Contains <- MCContains
  NoBlock = NoBlock
  MaxTime = 3
INVARIANTS ExpiredSkipped
