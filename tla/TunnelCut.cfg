SPECIFICATION Spec
CONSTANTS
  c1 = c1
  c2 = c2
  c3 = c3
  Clients <- TwoClients
  MaxConnections = 1
  IdleTimeout = 2
INVARIANT OnlyIdleTunnelsCut
