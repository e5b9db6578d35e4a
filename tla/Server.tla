------------------------------- MODULE Server -------------------------------
(***************************************************************************)
(* The connections of src/src/server.rs and the CONNECT tunnels of         *)
(* src/src/connect_tunnel.rs.  The accept loop takes a connection from the *)
(* listener and then waits for a permit of the semaphore; the connection's *)
(* task keeps the permit until hyper has served the last request or handed *)
(* the socket to a tunnel, which is a task of its own.                     *)
(*                                                                         *)
(* A client slot is used again once its connection and tunnel are over.    *)
(***************************************************************************)
EXTENDS Integers, FiniteSets

CONSTANTS
  Clients,         \* the clients that connect
  MaxConnections,  \* limits.max_connections
  IdleTimeout      \* limits.idle_timeout_ms, in ticks of the clock

ASSUME ClientsAssumption == IsFiniteSet(Clients)
ASSUME ConfigAssumption ==
  MaxConnections \in Nat \ {0} /\ IdleTimeout \in Nat \ {0}

VARIABLES
  running,  \* whether serve_with_state has not returned
  permits,  \* the semaphore's free permits
  conn,     \* the state of each client's connection
  tunnel,   \* the state of its tunnel
  age,      \* how long the tunnel has been open
  idle      \* history: how long nothing has passed through it

vars == <<running, permits, conn, tunnel, age, idle>>

Init ==
  /\ running = TRUE
  /\ permits = MaxConnections
  /\ conn = [c \in Clients |-> "none"]
  /\ tunnel = [c \in Clients |-> "none"]
  /\ age = [c \in Clients |-> 0]
  /\ idle = [c \in Clients |-> 0]

Become(c, s) == conn' = [conn EXCEPT ![c] = s]

(* The connections the accept loop has taken and found no permit for yet.  *)
Accepted == {c \in Clients : conn[c] = "accepted"}

(* The connections whose task runs, each with its permit.                  *)
Served == {c \in Clients : conn[c] \in {"open", "ending"}}

(***************************************************************************)
(* The accept loop.                                                        *)
(***************************************************************************)

(* A client connects: its connection waits in the listener's backlog.      *)
Connect(c) ==
  /\ running
  /\ conn[c] = "none" /\ tunnel[c] = "none"
  /\ Become(c, "backlog")
  /\ UNCHANGED <<running, permits, tunnel, age, idle>>

(* Mutant of Accept: connections are taken while one waits for a permit.   *)
AcceptAhead(c) ==
  /\ running
  /\ conn[c] = "backlog"
  /\ Become(c, "accepted")
  /\ UNCHANGED <<running, permits, tunnel, age, idle>>

Accept(c) ==
  /\ running
  /\ Accepted = {}
  /\ conn[c] = "backlog"
  /\ Become(c, "accepted")
  /\ UNCHANGED <<running, permits, tunnel, age, idle>>

Spawn(c) ==
  /\ conn[c] = "accepted"
  /\ permits > 0
  /\ permits' = permits - 1
  /\ Become(c, "open")
  /\ UNCHANGED <<running, tunnel, age, idle>>

(* An error of accept ends the loop, and with run the process.             *)
AcceptFails ==
  /\ running
  /\ Accepted = {}
  /\ running' = FALSE
  /\ permits' = MaxConnections
  /\ conn' = [c \in Clients |-> "none"]
  /\ tunnel' = [c \in Clients |-> "none"]
  /\ age' = [c \in Clients |-> 0]
  /\ idle' = [c \in Clients |-> 0]

(***************************************************************************)
(* A connection's task.                                                    *)
(***************************************************************************)

(* The client closes, or an error ends the connection.  An upgrade that is *)
(* still pending fails then.                                               *)
Close(c) ==
  /\ conn[c] = "open"
  /\ Become(c, "ending")
  /\ tunnel' = [tunnel EXCEPT ![c] = "none"]
  /\ UNCHANGED <<running, permits, age, idle>>

(* handle_connect: the policy allows the target and the upstream answers   *)
(* within the connect timeout.  Otherwise, and for every other request,    *)
(* the connection stays as it is.                                          *)
HandleConnect(c) ==
  /\ conn[c] = "open" /\ tunnel[c] = "none"
  /\ tunnel' = [tunnel EXCEPT ![c] = "pending"]
  /\ UNCHANGED <<running, permits, conn, age, idle>>

(* Mutant of Upgrade: the permit is given back here, and once more when    *)
(* the connection's task ends.                                             *)
UpgradeReleasing(c) ==
  /\ conn[c] = "open" /\ tunnel[c] = "pending"
  /\ Become(c, "ending")
  /\ tunnel' = [tunnel EXCEPT ![c] = "open"]
  /\ permits' = permits + 1
  /\ UNCHANGED <<running, age, idle>>

(* The response is out and hyper hands the socket over.                    *)
Upgrade(c) ==
  /\ conn[c] = "open" /\ tunnel[c] = "pending"
  /\ Become(c, "ending")
  /\ tunnel' = [tunnel EXCEPT ![c] = "open"]
  /\ UNCHANGED <<running, permits, age, idle>>

(* Mutant of EndConnection: the permit is not given back.                  *)
EndConnectionKeepingPermit(c) ==
  /\ conn[c] = "ending"
  /\ Become(c, "none")
  /\ UNCHANGED <<running, permits, tunnel, age, idle>>

EndConnection(c) ==
  /\ conn[c] = "ending"
  /\ permits' = permits + 1
  /\ Become(c, "none")
  /\ UNCHANGED <<running, tunnel, age, idle>>

(***************************************************************************)
(* A tunnel's task: copy_bidirectional under one timeout.                  *)
(***************************************************************************)
Transfer(c) ==
  /\ tunnel[c] = "open"
  /\ idle' = [idle EXCEPT ![c] = 0]
  /\ UNCHANGED <<running, permits, conn, tunnel, age>>

(* Both sides are done, or one fails.                                      *)
TunnelCloses(c) ==
  /\ tunnel[c] = "open"
  /\ tunnel' = [tunnel EXCEPT ![c] = "closed"]
  /\ UNCHANGED <<running, permits, conn, age, idle>>

(* Mutant of TunnelTimesOut: the time since the last byte is what counts.  *)
TunnelIdlesOut(c) ==
  /\ tunnel[c] = "open"
  /\ idle[c] = IdleTimeout
  /\ tunnel' = [tunnel EXCEPT ![c] = "cut"]
  /\ UNCHANGED <<running, permits, conn, age, idle>>

TunnelTimesOut(c) ==
  /\ tunnel[c] = "open"
  /\ age[c] = IdleTimeout
  /\ tunnel' = [tunnel EXCEPT ![c] = "cut"]
  /\ UNCHANGED <<running, permits, conn, age, idle>>

(* The task ends and drops both sockets.                                   *)
EndTunnel(c) ==
  /\ tunnel[c] \in {"closed", "cut"}
  /\ tunnel' = [tunnel EXCEPT ![c] = "none"]
  /\ age' = [age EXCEPT ![c] = 0]
  /\ idle' = [idle EXCEPT ![c] = 0]
  /\ UNCHANGED <<running, permits, conn>>

(* Time passes.  A count stops at IdleTimeout, beyond which the code does  *)
(* not tell times apart, and a timer may be late.                          *)
Older(c, t) ==
  IF tunnel[c] = "open" /\ t[c] < IdleTimeout THEN t[c] + 1 ELSE t[c]

Tick ==
  /\ \E c \in Clients : tunnel[c] = "open"
  /\ age' = [c \in Clients |-> Older(c, age)]
  /\ idle' = [c \in Clients |-> Older(c, idle)]
  /\ UNCHANGED <<running, permits, conn, tunnel>>

Stopped == ~running /\ UNCHANGED vars

Next ==
  \/ \E c \in Clients :
       \/ Connect(c) \/ Accept(c) \/ Spawn(c)
       \/ Close(c) \/ HandleConnect(c) \/ Upgrade(c) \/ EndConnection(c)
       \/ Transfer(c) \/ TunnelCloses(c) \/ TunnelTimesOut(c)
       \/ EndTunnel(c)
  \/ AcceptFails
  \/ Tick
  \/ Stopped

Spec == Init /\ [][Next]_vars

(* The accept loop, the ends of connections and the timers are run; what   *)
(* clients do is up to them.                                               *)
FairSpec ==
  /\ Spec
  /\ WF_vars(Tick)
  /\ \A c \in Clients :
       /\ WF_vars(Spawn(c))
       /\ WF_vars(EndConnection(c))
       /\ WF_vars(TunnelTimesOut(c))
       /\ WF_vars(EndTunnel(c))

(***************************************************************************)
(* Properties.                                                             *)
(***************************************************************************)
TypeOK ==
  /\ running \in BOOLEAN
  /\ permits \in 0..MaxConnections
  /\ conn \in [Clients -> {"none", "backlog", "accepted", "open", "ending"}]
  /\ tunnel \in [Clients -> {"none", "pending", "open", "closed", "cut"}]
  /\ age \in [Clients -> 0..IdleTimeout]
  /\ idle \in [Clients -> 0..IdleTimeout]

(* Every permit is free or with the task of one connection, whichever way  *)
(* that connection ends: by a close, an error or an upgrade                *)
(* (server.rs:90-97).                                                      *)
PermitBalance == permits + Cardinality(Served) = MaxConnections

(* Beyond the max_connections that are served, at most one connection has  *)
(* been taken from the backlog: the loop waits with it (server.rs:88-98).  *)
AdmissionLimit == Cardinality(Served \cup Accepted) <= MaxConnections + 1

(* A connection that has been taken is served as soon as a permit is free, *)
(* even if others connect all the time: unless the process stops, it never *)
(* waits for ever while permits keep coming back (server.rs:89-92).        *)
AcceptedIsServed ==
  \A c \in Clients :
    []<>(permits > 0) => (conn[c] = "accepted" ~> conn[c] # "accepted")

(* A tunnel ends, even if neither side ever closes it and bytes keep       *)
(* flowing (connect_tunnel.rs:45-60).                                      *)
TunnelsEnd == \A c \in Clients : tunnel[c] = "open" ~> tunnel[c] = "none"

(* A tunnel is cut by the timeout only when it has been idle that long     *)
(* (docs/roadmaps/proxy-cache-roadmap.md:25, connect_tunnel.rs:57-59).     *)
OnlyIdleTunnelsCut ==
  \A c \in Clients : tunnel[c] = "cut" => idle[c] = IdleTimeout
=============================================================================
