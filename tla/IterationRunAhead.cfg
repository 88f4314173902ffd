SPECIFICATION Spec
CONSTANTS
  c1 = c1  c2 = c2  c3 = c3  c4 = c4
  s1 = s1  s2 = s2
  Clients <- MCClients
  Servers <- MCServers
  ServerOf <- MCServerOf
  Writers = {c1}
  MaxIter = 2
  FailingAt = {0}
INVARIANT WaitsForAll
CHECK_DEADLOCK FALSE
