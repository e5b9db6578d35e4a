SPECIFICATION FairSpec
CONSTANTS
  c1 = c1
  c2 = c2
  c3 = c3
  Clients <- ThreeClients
  MaxConnections = 1
  IdleTimeout = 2
INVARIANTS TypeOK PermitBalance AdmissionLimit
PROPERTIES AcceptedIsServed TunnelsEnd
