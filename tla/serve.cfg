SPECIFICATION Spec
CONSTANTS
  Procs = {p1, p2}
  Buffers = {b1, b2, b3}
  b1 = b1
  Made <- MCMade
  PoolSize = 1
  RuntimeCount = 2
  None = None
  Configs <- MCConfigs
  MaxRequests = 3
INVARIANTS
  ServingTypeOK
  NoRace
  NoDeadlock
  Exclusive
  OwnLine
  RuntimeComplete
PROPERTY
  Answered
CHECK_DEADLOCK FALSE
