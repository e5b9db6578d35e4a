---------------------------- MODULE RateLimiter ----------------------------
(***************************************************************************)
(* The per-address request limit of src/src/server.rs: a request's task    *)
(* reads the current second, waits for the limiter's lock and counts       *)
(* itself in the window of its address.  Tasks run in parallel, so the     *)
(* order in which they read the second is not the order in which they get  *)
(* the lock.                                                               *)
(***************************************************************************)
EXTENDS Integers

CONSTANTS
  Tasks,     \* the tasks that handle requests
  Ips,       \* the addresses of the clients
  PerIpRps,  \* limits.per_ip_rps; with 0 the limiter is not asked
  MaxClock,  \* bound: seconds that pass
  None       \* no window, no request

Window == [second : Nat, count : Nat]

ASSUME RpsAssumption == PerIpRps \in Nat \ {0}
ASSUME ClockAssumption == MaxClock \in Nat
ASSUME NoneAssumption == None \notin Ips /\ None \notin Window

VARIABLES
  clock,    \* the wall clock in seconds
  windows,  \* the window of each address
  client,   \* the address whose request a task is deciding
  second,   \* the second that task has read
  granted,  \* history: requests granted, by address and second
  late      \* history: requests, by address, that found a later second's window

vars == <<clock, windows, client, second, granted, late>>

Init ==
  /\ clock = 0
  /\ windows = [ip \in Ips |-> None]
  /\ client = [t \in Tasks |-> None]
  /\ second = [t \in Tasks |-> 0]
  /\ granted = [ip \in Ips |-> [s \in 0..MaxClock |-> 0]]
  /\ late = [ip \in Ips |-> 0]

ReadSecond(t, ip) ==
  /\ client[t] = None
  /\ client' = [client EXCEPT ![t] = ip]
  /\ second' = [second EXCEPT ![t] = clock]
  /\ UNCHANGED <<clock, windows, granted, late>>

(* Mutants of Current: the window is reset by every request; it is never   *)
(* reset.                                                                  *)
CurrentAlwaysReset(ip, s) == [second |-> s, count |-> 0]
CurrentNeverReset(ip, s) ==
  IF windows[ip] # None THEN windows[ip] ELSE [second |-> s, count |-> 0]

(* The window in which a request of second s counts itself.                *)
Current(ip, s) ==
  IF windows[ip] # None /\ windows[ip].second = s
  THEN windows[ip]
  ELSE [second |-> s, count |-> 0]

Late(ip, s) == windows[ip] # None /\ windows[ip].second > s

(* The rest of allow, under the lock.                                      *)
Grant(t, ip, window) ==
  /\ window.count < PerIpRps
  /\ windows' = [windows EXCEPT ![ip] = [window EXCEPT !.count = @ + 1]]
  /\ granted' = [granted EXCEPT ![ip][second[t]] = @ + 1]

Refuse(ip, window) ==
  /\ window.count >= PerIpRps
  /\ windows' = [windows EXCEPT ![ip] = window]
  /\ UNCHANGED granted

Allow(t) ==
  /\ client[t] # None
  /\ \/ Grant(t, client[t], Current(client[t], second[t]))
     \/ Refuse(client[t], Current(client[t], second[t]))
  /\ late' = [late EXCEPT ![client[t]] =
                @ + (IF Late(client[t], second[t]) THEN 1 ELSE 0)]
  /\ client' = [client EXCEPT ![t] = None]
  /\ second' = [second EXCEPT ![t] = 0]
  /\ UNCHANGED clock

Tick ==
  /\ clock < MaxClock
  /\ clock' = clock + 1
  /\ UNCHANGED <<windows, client, second, granted, late>>

Next ==
  \/ \E t \in Tasks : Allow(t) \/ \E ip \in Ips : ReadSecond(t, ip)
  \/ Tick

Spec == Init /\ [][Next]_vars

(***************************************************************************)
(* Properties.                                                             *)
(***************************************************************************)
TypeOK ==
  /\ clock \in 0..MaxClock
  /\ windows \in [Ips -> Window \cup {None}]
  /\ client \in [Tasks -> Ips \cup {None}]
  /\ second \in [Tasks -> 0..MaxClock]
  /\ granted \in [Ips -> [0..MaxClock -> Nat]]
  /\ late \in [Ips -> Nat]

(* A client is granted at most per_ip_rps requests within a second         *)
(* (docs/roadmaps/proxy-cache-roadmap.md:27).                              *)
LimitPerSecond ==
  \A ip \in Ips, s \in 0..MaxClock : granted[ip][s] <= PerIpRps

(* Only requests that read the clock before, and took the lock after, one  *)
(* of a later second let a client have more than per_ip_rps requests in a  *)
(* second: each gives it at most one more window (server.rs:288-314).      *)
ExcessOnlyFromLate ==
  \A ip \in Ips, s \in 0..MaxClock : granted[ip][s] <= PerIpRps * (1 + late[ip])

(* A request is refused only when its own address has already been granted *)
(* per_ip_rps requests of the second it counts in, however the requests of *)
(* other addresses and of other seconds interleave (server.rs:298-310).    *)
RefusedOnlyAtLimit ==
  [][\A t \in Tasks :
       client[t] # None /\ client'[t] = None /\ UNCHANGED granted
         => granted[client[t]][second[t]] >= PerIpRps
    ]_vars
=============================================================================
