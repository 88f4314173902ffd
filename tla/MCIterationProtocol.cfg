SPECIFICATION Spec
CONSTANTS
  c1 = c1  c2 = c2  c3 = c3  c4 = c4
  s1 = s1  s2 = s2
  Clients <- MCClients
  Servers <- MCServers
  ServerOf <- MCServerOf
  Writers = {c1, c3}
  MaxIter = 2
  FailingAt = {1}
INVARIANTS
  TypeOK
  NoRunAhead
  OneListener
PROPERTIES
  StoresCompleteIterations
  ServersReturn
CHECK_DEADLOCK FALSE
