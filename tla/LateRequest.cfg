SPECIFICATION Spec
CONSTANTS
  t1 = t1
  t2 = t2
  t3 = t3
  ip1 = ip1
  ip2 = ip2
  None = None
  Tasks <- ThreeTasks
  Ips <- OneIp
  PerIpRps = 1
  MaxClock = 1
INVARIANT LimitPerSecond
