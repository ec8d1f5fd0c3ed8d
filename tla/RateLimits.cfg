SPECIFICATION Spec
CONSTANTS
  w1 = w1  w2 = w2  ip1 = ip1  ip2 = ip2  proxy = proxy  junk = junk  key1 = key1
  l1 = l1  l2 = l2  l3 = l3
  None = None
  Workers = {w1, w2}
  Ips = {ip1, ip2, proxy}
  ApiKeys = {key1}
  Garbage = junk
  Trusted = {proxy}
  Requests <- ThreeClients
  RateLimit = 1
  ByKey = TRUE
  CountedAhead = FALSE
  Minute = 1
  Idle = 2
  IpCapacity = 1
  KeyCapacity = 1
  Limiters = {l1, l2, l3}
  MaxTime = 3
  MaxAccepted = 4
CONSTRAINT FewRequests
SYMMETRY Symmetry
INVARIANTS
  BudgetKept
  RefusedRightly
  IInv
CHECK_DEADLOCK FALSE
