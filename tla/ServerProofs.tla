---------------------------- MODULE ServerProofs ----------------------------
(* Theorems about Server, for any finite set of clients, every limit and   *)
(* every timeout.                                                          *)
EXTENDS Server, FiniteSetTheorems, TLAPS

(***************************************************************************)
(* Permits.                                                                *)
(***************************************************************************)

(* TypeOK without the bound on permits, which follows from PermitBalance.  *)
Types ==
  /\ running \in BOOLEAN
  /\ permits \in Nat
  /\ conn \in [Clients -> {"none", "backlog", "accepted", "open", "ending"}]
  /\ tunnel \in [Clients -> {"none", "pending", "open", "closed", "cut"}]
  /\ age \in [Clients -> 0..IdleTimeout]
  /\ idle \in [Clients -> 0..IdleTimeout]

PermitInv == Types /\ PermitBalance

LEMMA ServedFinite == IsFiniteSet(Served) /\ Cardinality(Served) \in Nat
<1>1. Served \in SUBSET Clients
  BY DEF Served
<1>2. IsFiniteSet(Served)
  BY <1>1, ClientsAssumption, FS_Subset
<1> QED BY <1>2, FS_CardinalityType

LEMMA PermitInit == Init => PermitInv
<1> SUFFICES ASSUME Init PROVE PermitInv
  OBVIOUS
<1>1. Types
  BY ConfigAssumption DEF Init, Types
<1>2. Served = {}
  BY DEF Init, Served
<1>3. permits = MaxConnections /\ MaxConnections \in Nat
  BY ConfigAssumption DEF Init
<1>4. Cardinality(Served) = 0
  BY <1>2, FS_EmptySet
<1> QED BY <1>1, <1>3, <1>4 DEF PermitInv, PermitBalance

LEMMA TypesStep == Types /\ [Next]_vars => Types'
<1> SUFFICES ASSUME Types, [Next]_vars PROVE Types'
  OBVIOUS
<1> USE DEF Types
<1>1. ASSUME NEW c \in Clients, Connect(c) PROVE Types'
  BY <1>1 DEF Connect, Become
<1>2. ASSUME NEW c \in Clients, Accept(c) PROVE Types'
  BY <1>2 DEF Accept, Become
<1>3. ASSUME NEW c \in Clients, Spawn(c) PROVE Types'
  BY <1>3 DEF Spawn, Become
<1>4. ASSUME NEW c \in Clients, Close(c) PROVE Types'
  BY <1>4 DEF Close, Become
<1>5. ASSUME NEW c \in Clients, HandleConnect(c) PROVE Types'
  BY <1>5 DEF HandleConnect
<1>6. ASSUME NEW c \in Clients, Upgrade(c) PROVE Types'
  BY <1>6 DEF Upgrade, Become
<1>7. ASSUME NEW c \in Clients, EndConnection(c) PROVE Types'
  BY <1>7 DEF EndConnection, Become
<1>8. ASSUME NEW c \in Clients, Transfer(c) PROVE Types'
  BY <1>8, ConfigAssumption DEF Transfer
<1>9. ASSUME NEW c \in Clients, TunnelCloses(c) PROVE Types'
  BY <1>9 DEF TunnelCloses
<1>10. ASSUME NEW c \in Clients, TunnelTimesOut(c) PROVE Types'
  BY <1>10 DEF TunnelTimesOut
<1>11. ASSUME NEW c \in Clients, EndTunnel(c) PROVE Types'
  BY <1>11, ConfigAssumption DEF EndTunnel
<1>12. CASE AcceptFails
  <2>1. permits' \in Nat /\ running' \in BOOLEAN
    BY <1>12, ConfigAssumption DEF AcceptFails
  <2>2. 0 \in 0..IdleTimeout
    BY ConfigAssumption
  <2>3. /\ age' \in [Clients -> 0..IdleTimeout]
        /\ idle' \in [Clients -> 0..IdleTimeout]
    BY <1>12, <2>2 DEF AcceptFails
  <2>4. /\ conn' \in [Clients -> {"none", "backlog", "accepted", "open", "ending"}]
        /\ tunnel' \in [Clients -> {"none", "pending", "open", "closed", "cut"}]
    BY <1>12 DEF AcceptFails
  <2> QED BY <2>1, <2>3, <2>4
<1>13. CASE Tick
  <2>1. \A c \in Clients : Older(c, age) \in 0..IdleTimeout
    BY ConfigAssumption DEF Older
  <2>2. \A c \in Clients : Older(c, idle) \in 0..IdleTimeout
    BY ConfigAssumption DEF Older
  <2>3. age' = [c \in Clients |-> Older(c, age)]
    BY <1>13 DEF Tick
  <2>4. idle' = [c \in Clients |-> Older(c, idle)]
    BY <1>13 DEF Tick
  <2>5. age' \in [Clients -> 0..IdleTimeout]
    BY <2>1, <2>3
  <2>6. idle' \in [Clients -> 0..IdleTimeout]
    BY <2>2, <2>4
  <2> QED BY <1>13, <2>5, <2>6 DEF Tick
<1>14. CASE Stopped \/ UNCHANGED vars
  BY <1>14 DEF Stopped, vars
<1> QED
  BY <1>1, <1>2, <1>3, <1>4, <1>5, <1>6, <1>7, <1>8, <1>9, <1>10, <1>11,
     <1>12, <1>13, <1>14 DEF Next

(* A permit leaves the semaphore exactly when a connection joins the       *)
(* served ones, and comes back exactly when one leaves them.               *)
LEMMA BalanceStep == PermitInv /\ [Next]_vars => PermitBalance'
<1> SUFFICES ASSUME PermitInv, [Next]_vars PROVE PermitBalance'
  OBVIOUS
<1> USE DEF PermitInv
<1>1. ASSUME NEW c \in Clients, Spawn(c) PROVE PermitBalance'
  <2>1. Served' = Served \cup {c} /\ c \notin Served
    BY <1>1 DEF Spawn, Become, Served, Types
  <2>2. Cardinality(Served') = Cardinality(Served) + 1
    BY <2>1, ServedFinite, FS_AddElement
  <2>3. permits' = permits - 1
    BY <1>1 DEF Spawn
  <2> QED BY <2>2, <2>3, ServedFinite, ConfigAssumption DEF PermitBalance, Types
<1>2. ASSUME NEW c \in Clients, EndConnection(c) PROVE PermitBalance'
  <2>1. Served' = Served \ {c} /\ c \in Served
    BY <1>2 DEF EndConnection, Become, Served, Types
  <2>2. Cardinality(Served') = Cardinality(Served) - 1
    BY <2>1, ServedFinite, FS_RemoveElement
  <2>3. permits' = permits + 1
    BY <1>2 DEF EndConnection
  <2> QED BY <2>2, <2>3, ServedFinite, ConfigAssumption DEF PermitBalance, Types
<1>3. CASE AcceptFails
  <2>1. Served' = {}
    BY <1>3 DEF AcceptFails, Served
  <2>2. Cardinality(Served') = 0
    BY <2>1, FS_EmptySet
  <2>3. permits' = MaxConnections
    BY <1>3 DEF AcceptFails
  <2> QED BY <2>2, <2>3, ConfigAssumption DEF PermitBalance
<1>4. ASSUME Served' = Served, permits' = permits PROVE PermitBalance'
  BY <1>4 DEF PermitBalance
<1>5. ASSUME NEW c \in Clients, Connect(c) \/ Accept(c) PROVE PermitBalance'
  BY <1>4, <1>5 DEF Connect, Accept, Become, Served, Types
<1>6. ASSUME NEW c \in Clients, Close(c) \/ Upgrade(c) PROVE PermitBalance'
  BY <1>4, <1>6 DEF Close, Upgrade, Become, Served, Types
<1>7. ASSUME NEW c \in Clients,
             \/ HandleConnect(c) \/ Transfer(c) \/ TunnelCloses(c)
             \/ TunnelTimesOut(c) \/ EndTunnel(c)
      PROVE  PermitBalance'
  BY <1>4, <1>7
     DEF HandleConnect, Transfer, TunnelCloses, TunnelTimesOut, EndTunnel, Served
<1>8. CASE Tick \/ Stopped \/ UNCHANGED vars
  BY <1>4, <1>8 DEF Tick, Stopped, vars, Served
<1> QED BY <1>1, <1>2, <1>3, <1>5, <1>6, <1>7, <1>8 DEF Next

LEMMA PermitStep == PermitInv /\ [Next]_vars => PermitInv'
BY TypesStep, BalanceStep DEF PermitInv

LEMMA PermitInvariant == Spec => []PermitInv
BY PermitInit, PermitStep, PTL DEF Spec

LEMMA PermitType == PermitInv => TypeOK
BY ServedFinite, ConfigAssumption DEF PermitInv, PermitBalance, Types, TypeOK

(* The server's variables keep their types: no connection is counted twice *)
(* and none takes a permit that is not there (server.rs:84-99).            *)
THEOREM TypeCorrect == Spec => []TypeOK
BY PermitInvariant, PermitType, PTL

(* The semaphore and the connections under way always add up to            *)
(* max_connections, whichever way connections end (server.rs:90-97).       *)
THEOREM PermitsBalance == Spec => []PermitBalance
<1>1. PermitInv => PermitBalance
  BY DEF PermitInv
<1> QED BY <1>1, PermitInvariant, PTL

(***************************************************************************)
(* Admission.                                                              *)
(***************************************************************************)

(* The accept loop holds at most one connection that has no permit yet.    *)
OneAccepted == \A a, b \in Accepted : a = b

LEMMA OneInit == Init => OneAccepted
BY DEF Init, OneAccepted, Accepted

LEMMA OneStep == Types /\ OneAccepted /\ [Next]_vars => OneAccepted'
<1> SUFFICES ASSUME Types, OneAccepted, [Next]_vars PROVE OneAccepted'
  OBVIOUS
<1> USE DEF Types, OneAccepted
<1>1. ASSUME NEW c \in Clients, Accept(c) PROVE OneAccepted'
  <2>1. Accepted' = {c}
    BY <1>1 DEF Accept, Become, Accepted
  <2> QED BY <2>1
<1>2. ASSUME Accepted' \subseteq Accepted PROVE OneAccepted'
  BY <1>2
<1>3. ASSUME NEW c \in Clients, Connect(c) \/ Spawn(c) PROVE OneAccepted'
  BY <1>2, <1>3 DEF Connect, Spawn, Become, Accepted
<1>4. ASSUME NEW c \in Clients, Close(c) \/ Upgrade(c) \/ EndConnection(c)
      PROVE  OneAccepted'
  BY <1>2, <1>4 DEF Close, Upgrade, EndConnection, Become, Accepted
<1>5. ASSUME NEW c \in Clients,
             \/ HandleConnect(c) \/ Transfer(c) \/ TunnelCloses(c)
             \/ TunnelTimesOut(c) \/ EndTunnel(c)
      PROVE  OneAccepted'
  BY <1>2, <1>5
     DEF HandleConnect, Transfer, TunnelCloses, TunnelTimesOut, EndTunnel, Accepted
<1>6. CASE AcceptFails
  BY <1>6 DEF AcceptFails, Accepted
<1>7. CASE Tick \/ Stopped \/ UNCHANGED vars
  BY <1>2, <1>7 DEF Tick, Stopped, vars, Accepted
<1> QED BY <1>1, <1>3, <1>4, <1>5, <1>6, <1>7 DEF Next

LEMMA AdmissionFollows == PermitInv /\ OneAccepted => AdmissionLimit
<1> SUFFICES ASSUME PermitInv, OneAccepted PROVE AdmissionLimit
  OBVIOUS
<1>1. Cardinality(Served) <= MaxConnections
  BY ServedFinite, ConfigAssumption DEF PermitInv, PermitBalance, Types
<1>2. CASE Accepted = {}
  <2>1. Served \cup Accepted = Served
    BY <1>2
  <2>2. Cardinality(Served \cup Accepted) = Cardinality(Served)
    BY <2>1
  <2> QED BY <1>1, <2>2, ServedFinite, ConfigAssumption DEF AdmissionLimit
<1>3. CASE Accepted # {}
  <2>1. PICK a : a \in Accepted
    BY <1>3
  <2>2. Accepted = {a}
    <3>1. \A b \in Accepted : a = b
      BY <2>1 DEF OneAccepted
    <3> QED BY <2>1, <3>1
  <2>3. Cardinality(Served \cup {a}) <= Cardinality(Served) + 1
    <3>1. Cardinality(Served \cup {a}) =
            IF a \in Served THEN Cardinality(Served) ELSE Cardinality(Served) + 1
      BY ServedFinite, FS_AddElement
    <3> QED BY <3>1, ServedFinite
  <2>4. Cardinality(Served \cup {a}) \in Nat
    BY ServedFinite, FS_AddElement, FS_CardinalityType
  <2> QED BY <1>1, <2>2, <2>3, <2>4, ServedFinite, ConfigAssumption DEF AdmissionLimit
<1> QED BY <1>2, <1>3

(* At most one connection beyond max_connections has been taken from the   *)
(* backlog, however many clients connect (server.rs:88-98).                *)
THEOREM AdmissionIsLimited == Spec => []AdmissionLimit
<1>1. PermitInv => Types
  BY DEF PermitInv
<1> QED BY <1>1, PermitInvariant, OneInit, OneStep, AdmissionFollows, PTL DEF Spec
=============================================================================
