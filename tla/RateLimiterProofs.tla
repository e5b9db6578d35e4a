------------------------- MODULE RateLimiterProofs -------------------------
(* Theorems about RateLimiter, for every limit and any number of tasks and *)
(* addresses.                                                              *)
EXTENDS RateLimiter, TLAPS

LEMMA CurrentWindow ==
  ASSUME TypeOK, NEW ip \in Ips, NEW s \in Nat
  PROVE  /\ Current(ip, s) \in Window
         /\ Current(ip, s).second = s
         /\ Current(ip, s).count > 0 =>
              /\ windows[ip] # None
              /\ windows[ip].second = s
              /\ windows[ip].count = Current(ip, s).count
BY DEF TypeOK, Current, Window

(* A grant adds one to one counter.                                        *)
LEMMA CountUp ==
  ASSUME NEW f \in [0..MaxClock -> Nat], NEW x \in 0..MaxClock
  PROVE  /\ f[x] \in Nat
         /\ [f EXCEPT ![x] = @ + 1] \in [0..MaxClock -> Nat]
         /\ [f EXCEPT ![x] = @ + 1][x] = f[x] + 1
OBVIOUS

LEMMA TypeInit == Init => TypeOK
BY ClockAssumption DEF Init, TypeOK

LEMMA TypeStep == TypeOK /\ [Next]_vars => TypeOK'
<1> SUFFICES ASSUME TypeOK, [Next]_vars PROVE TypeOK'
  OBVIOUS
<1>1. ASSUME NEW t \in Tasks, Allow(t) PROVE TypeOK'
  <2> DEFINE ip == client[t]
             s == second[t]
             window == Current(ip, s)
  <2>1. ip \in Ips /\ s \in 0..MaxClock /\ s \in Nat
    BY <1>1, ClockAssumption DEF Allow, TypeOK
  <2>2. window \in Window
    BY <2>1, CurrentWindow
  <2>3. \/ Grant(t, ip, window)
        \/ Refuse(ip, window)
    BY <1>1 DEF Allow
  <2>4. granted[ip] \in [0..MaxClock -> Nat]
    BY <2>1 DEF TypeOK
  <2>5. /\ late' \in [Ips -> Nat]
        /\ client' \in [Tasks -> Ips \cup {None}]
        /\ second' \in [Tasks -> 0..MaxClock]
        /\ clock' \in 0..MaxClock
    BY <1>1, <2>1, ClockAssumption DEF Allow, TypeOK
  <2>6. Grant(t, ip, window) =>
          granted' = [granted EXCEPT ![ip] = [granted[ip] EXCEPT ![s] = @ + 1]]
    BY <2>1 DEF Grant, TypeOK
  <2> HIDE DEF ip, s, window
  <2>7. [window EXCEPT !.count = @ + 1] \in Window
    BY <2>2 DEF Window
  <2>8. windows' \in [Ips -> Window \cup {None}]
    BY <2>1, <2>2, <2>3, <2>7 DEF Grant, Refuse, TypeOK
  <2>9. [granted[ip] EXCEPT ![s] = @ + 1] \in [0..MaxClock -> Nat]
    BY <2>1, <2>4, CountUp
  <2>10. granted' \in [Ips -> [0..MaxClock -> Nat]]
    BY <2>1, <2>3, <2>6, <2>9 DEF Refuse, TypeOK
  <2> QED BY <2>5, <2>8, <2>10 DEF TypeOK
<1> USE DEF TypeOK
<1>2. ASSUME NEW t \in Tasks, NEW ip \in Ips, ReadSecond(t, ip) PROVE TypeOK'
  BY <1>2 DEF ReadSecond
<1>3. CASE Tick
  BY <1>3, ClockAssumption DEF Tick
<1>4. CASE UNCHANGED vars
  BY <1>4 DEF vars
<1> QED BY <1>1, <1>2, <1>3, <1>4 DEF Next

(* Every variable of the limiter has its type (server.rs:275-315).         *)
THEOREM TypeCorrect == Spec => []TypeOK
BY TypeInit, TypeStep, PTL DEF Spec

(***************************************************************************)
(* Refusals.                                                               *)
(***************************************************************************)

(* What a window has counted was granted in its second.                    *)
CountInv ==
  \A ip \in Ips :
    windows[ip] # None =>
      /\ windows[ip].second \in 0..MaxClock
      /\ windows[ip].count <= granted[ip][windows[ip].second]
      /\ windows[ip].count <= PerIpRps

LEMMA CountStep == TypeOK /\ CountInv /\ [Next]_vars => CountInv'
<1> SUFFICES ASSUME TypeOK, CountInv, [Next]_vars PROVE CountInv'
  OBVIOUS
<1>1. ASSUME NEW t \in Tasks, Allow(t) PROVE CountInv'
  <2> DEFINE me == client[t]
             s == second[t]
             window == Current(me, s)
  <2>1. me \in Ips /\ s \in 0..MaxClock /\ s \in Nat
    BY <1>1, ClockAssumption DEF Allow, TypeOK
  <2>2. /\ window \in Window /\ window.second = s
        /\ window.count <= granted[me][s]
        /\ window.count <= PerIpRps
        /\ granted[me][s] \in Nat
    <3>1. window \in Window /\ window.second = s
      BY <2>1, CurrentWindow
    <3>2. window.count \in Nat /\ granted[me][s] \in Nat
      BY <2>1, <3>1 DEF Window, TypeOK
    <3>3. window.count > 0 => window.count <= granted[me][s] /\ window.count <= PerIpRps
      BY <2>1, CurrentWindow DEF CountInv
    <3> QED BY <3>1, <3>2, <3>3, RpsAssumption
  <2> HIDE DEF me, s, window
  <2>3. ASSUME NEW ip \in Ips, ip # me
        PROVE  UNCHANGED <<windows[ip], granted[ip]>>
    BY <1>1, <2>1, <2>3 DEF Allow, Grant, Refuse, TypeOK, me, s
  <2>4. /\ windows'[me] # None
        /\ windows'[me].second = s
        /\ windows'[me].count <= granted'[me][s]
        /\ windows'[me].count <= PerIpRps
    <3>1. CASE Grant(t, me, window)
      <4>1. windows'[me] = [window EXCEPT !.count = @ + 1]
        BY <2>1, <3>1 DEF Grant, TypeOK
      <4>2. granted'[me][s] = granted[me][s] + 1
        BY <2>1, <3>1 DEF Grant, TypeOK, s
      <4>3. windows'[me] \in Window /\ windows'[me].second = s
            /\ windows'[me].count = window.count + 1
        BY <2>2, <4>1 DEF Window
      <4>4. window.count \in Nat /\ window.count < PerIpRps
        BY <2>2, <3>1 DEF Grant, Window
      <4> QED BY <2>2, <4>2, <4>3, <4>4, NoneAssumption, RpsAssumption
    <3>2. CASE Refuse(me, window)
      <4>1. windows'[me] = window /\ granted' = granted
        BY <2>1, <3>2 DEF Refuse, TypeOK
      <4> QED BY <2>2, <4>1, NoneAssumption
    <3> QED BY <1>1, <3>1, <3>2 DEF Allow, me, s, window
  <2> QED BY <2>1, <2>3, <2>4 DEF CountInv
<1>2. ASSUME NEW t \in Tasks, NEW ip \in Ips, ReadSecond(t, ip) PROVE CountInv'
  BY <1>2 DEF ReadSecond, CountInv
<1>3. CASE Tick
  BY <1>3 DEF Tick, CountInv
<1>4. CASE UNCHANGED vars
  BY <1>4 DEF vars, CountInv
<1> QED BY <1>1, <1>2, <1>3, <1>4 DEF Next

(* A request is refused only when its address was granted per_ip_rps       *)
(* requests of its second (server.rs:298-310).                             *)
THEOREM RefusalsAreJustified == Spec => RefusedOnlyAtLimit
<1>1. Init => CountInv
  BY DEF Init, CountInv
<1>2. ASSUME TypeOK, CountInv, [Next]_vars, NEW t \in Tasks,
             client[t] # None, client'[t] = None, UNCHANGED granted
      PROVE  granted[client[t]][second[t]] >= PerIpRps
  <2>1. client[t] \in Ips /\ second[t] \in 0..MaxClock /\ second[t] \in Nat
    BY <1>2, ClockAssumption DEF TypeOK
  <2>2. Allow(t)
    <3>1. ASSUME NEW u \in Tasks, Allow(u) PROVE u = t
      BY <1>2, <3>1 DEF Allow, TypeOK
    <3>2. ASSUME NEW u \in Tasks, NEW ip \in Ips, ReadSecond(u, ip) PROVE FALSE
      BY <1>2, <3>2, NoneAssumption DEF ReadSecond, TypeOK
    <3>3. CASE Tick \/ UNCHANGED vars
      BY <1>2, <3>3 DEF Tick, vars
    <3> QED BY <1>2, <3>1, <3>2, <3>3 DEF Next
  <2>3. ~Grant(t, client[t], Current(client[t], second[t]))
    <3> SUFFICES ASSUME Grant(t, client[t], Current(client[t], second[t])) PROVE FALSE
      OBVIOUS
    <3>1. granted'[client[t]][second[t]] = granted[client[t]][second[t]] + 1
      <4>1. granted \in [Ips -> [0..MaxClock -> Nat]]
        BY <1>2 DEF TypeOK
      <4> QED BY <2>1, <4>1, CountUp DEF Grant
    <3>2. granted[client[t]][second[t]] \in Nat
      BY <1>2, <2>1 DEF TypeOK
    <3> QED BY <1>2, <3>1, <3>2
  <2>4. Current(client[t], second[t]).count >= PerIpRps
    BY <2>2, <2>3 DEF Allow, Refuse
  <2>5. Current(client[t], second[t]).count > 0
    BY <1>2, <2>1, <2>4, CurrentWindow, RpsAssumption DEF Window
  <2>6. windows[client[t]].count <= granted[client[t]][second[t]]
        /\ windows[client[t]].count >= PerIpRps
    BY <1>2, <2>1, <2>4, <2>5, CurrentWindow DEF CountInv
  <2>7. windows[client[t]].count \in Nat /\ granted[client[t]][second[t]] \in Nat
    <3>1. windows[client[t]] # None
      BY <1>2, <2>1, <2>5, CurrentWindow
    <3> QED BY <1>2, <2>1, <3>1 DEF TypeOK, Window
  <2> QED BY <2>6, <2>7, RpsAssumption
<1>3. TypeOK /\ CountInv /\ [Next]_vars =>
        [\A t \in Tasks :
           client[t] # None /\ client'[t] = None /\ UNCHANGED granted
             => granted[client[t]][second[t]] >= PerIpRps]_vars
  BY <1>2
<1> QED BY <1>1, <1>3, CountStep, TypeInit, TypeStep, PTL DEF Spec, RefusedOnlyAtLimit

(***************************************************************************)
(* The excess over the limit.                                              *)
(***************************************************************************)

(* What n windows may grant.                                               *)
Allowance(n) == PerIpRps * n

LEMMA AllowanceStep ==
  ASSUME NEW n \in Nat
  PROVE  Allowance(n) \in Nat /\ Allowance(n + 1) = Allowance(n) + PerIpRps
BY RpsAssumption DEF Allowance

(* Where the current window is before a second, all windows of that second *)
(* but one per late request are still to come; where it is past the second *)
(* one more has been used up.                                              *)
Excess(window, s, grants, lates) ==
  /\ window = None => grants = 0
  /\ window # None =>
       /\ window.second < s => grants <= Allowance(lates)
       /\ window.second = s => grants <= Allowance(lates) + window.count
       /\ window.second > s => grants <= Allowance(lates + 1)

ExcessInv ==
  \A ip \in Ips, s \in 0..MaxClock : Excess(windows[ip], s, granted[ip][s], late[ip])

(* Of the window a request of second m enters, for every second s.         *)
LEMMA ExcessOfCurrent ==
  ASSUME TypeOK, CountInv, ExcessInv,
         NEW ip \in Ips, NEW m \in 0..MaxClock, NEW s \in 0..MaxClock,
         NEW lates \in Nat,
         lates = late[ip] + (IF Late(ip, m) THEN 1 ELSE 0)
  PROVE  /\ m < s => granted[ip][s] <= Allowance(lates)
         /\ m = s => granted[ip][s] <= Allowance(lates) + Current(ip, m).count
         /\ m > s => granted[ip][s] <= Allowance(lates + 1)
<1>1. late[ip] \in Nat /\ granted[ip][s] \in Nat /\ m \in Nat /\ s \in Nat
  BY ClockAssumption DEF TypeOK
<1>2. /\ Allowance(late[ip]) \in Nat
      /\ Allowance(late[ip] + 1) = Allowance(late[ip]) + PerIpRps
      /\ Allowance(lates) \in Nat
      /\ Allowance(lates + 1) = Allowance(lates) + PerIpRps
  BY <1>1, AllowanceStep
<1>3. Excess(windows[ip], s, granted[ip][s], late[ip])
  BY DEF ExcessInv
<1>4. CASE windows[ip] = None
  <2>1. granted[ip][s] = 0 /\ Current(ip, m).count = 0
    BY <1>3, <1>4 DEF Excess, Current
  <2> QED BY <1>2, <2>1, RpsAssumption
<1>5. CASE windows[ip] # None
  <2> DEFINE at == windows[ip].second
             count == windows[ip].count
  <2>1. at \in Nat /\ count \in Nat /\ count <= PerIpRps
    BY <1>5, ClockAssumption DEF CountInv, TypeOK, Window
  <2>2. /\ at < s => granted[ip][s] <= Allowance(late[ip])
        /\ at = s => granted[ip][s] <= Allowance(late[ip]) + count
        /\ at > s => granted[ip][s] <= Allowance(late[ip] + 1)
    BY <1>3, <1>5 DEF Excess
  <2>3. /\ at > m => lates = late[ip] + 1
        /\ at <= m => lates = late[ip]
    BY <1>1, <1>5, <2>1 DEF Late
  <2>4. /\ at = m => Current(ip, m).count = count
        /\ at # m => Current(ip, m).count = 0
    BY <1>5 DEF Current
  <2> HIDE DEF at, count
  <2>5. CASE at > m
    <3>1. Allowance(lates) = Allowance(late[ip]) + PerIpRps
      BY <1>2, <2>3, <2>5
    <3> QED BY <1>1, <1>2, <2>1, <2>2, <2>4, <2>5, <3>1, RpsAssumption
  <2>6. CASE at <= m
    <3>1. Allowance(lates) = Allowance(late[ip])
      BY <2>3, <2>6
    <3> QED BY <1>1, <1>2, <2>1, <2>2, <2>4, <2>6, <3>1, RpsAssumption
  <2> QED BY <1>1, <2>1, <2>5, <2>6
<1> QED BY <1>4, <1>5

LEMMA ExcessStep == TypeOK /\ CountInv /\ ExcessInv /\ [Next]_vars => ExcessInv'
<1> SUFFICES ASSUME TypeOK, CountInv, ExcessInv, [Next]_vars PROVE ExcessInv'
  OBVIOUS
<1>1. ASSUME NEW t \in Tasks, Allow(t) PROVE ExcessInv'
  <2> DEFINE me == client[t]
             m == second[t]
             window == Current(me, m)
             lates == late[me] + (IF Late(me, m) THEN 1 ELSE 0)
  <2>1. me \in Ips /\ m \in 0..MaxClock /\ m \in Nat /\ lates \in Nat
    BY <1>1, ClockAssumption DEF Allow, TypeOK
  <2>2. window \in Window /\ window.second = m
    BY <2>1, CurrentWindow
  <2>3. late'[me] = lates
    BY <1>1, <2>1 DEF Allow, TypeOK
  <2>4. \A s \in 0..MaxClock :
          /\ m < s => granted[me][s] <= Allowance(lates)
          /\ m = s => granted[me][s] <= Allowance(lates) + window.count
          /\ m > s => granted[me][s] <= Allowance(lates + 1)
    BY <2>1, ExcessOfCurrent
  <2>5. Grant(t, me, window) \/ Refuse(me, window)
    BY <1>1 DEF Allow
  <2>6. \A s \in 0..MaxClock : granted[me][s] \in Nat
    BY <2>1 DEF TypeOK
  <2>7. Allowance(lates) \in Nat
    BY <2>1, AllowanceStep
  <2>8. ASSUME NEW ip \in Ips, ip # me
        PROVE  UNCHANGED <<windows[ip], granted[ip], late[ip]>>
    BY <1>1, <2>1, <2>8 DEF Allow, Grant, Refuse, TypeOK
  <2> HIDE DEF me, m, window, lates
  <2>9. ASSUME NEW s \in 0..MaxClock
        PROVE  Excess(windows'[me], s, granted'[me][s], lates)
    <3>1. window.count \in Nat
      BY <2>2 DEF Window
    <3>2. CASE Grant(t, me, window)
      <4>1. windows'[me] = [window EXCEPT !.count = @ + 1]
        BY <2>1, <3>2 DEF Grant, TypeOK
      <4>2. /\ windows'[me] \in Window
            /\ windows'[me].second = m
            /\ windows'[me].count = window.count + 1
        BY <2>2, <4>1 DEF Window
      <4>3. granted'[me][s] = (IF s = m THEN granted[me][s] + 1 ELSE granted[me][s])
        BY <2>1, <3>2 DEF Grant, TypeOK, m
      <4>4. windows'[me] # None
        BY <4>2, NoneAssumption
      <4>5. CASE s = m
        <5>1. granted'[me][s] <= Allowance(lates) + (window.count + 1)
          BY <2>4, <2>6, <2>7, <3>1, <4>3, <4>5
        <5> QED BY <2>1, <4>2, <4>4, <4>5, <5>1 DEF Excess
      <4>6. CASE s # m
        BY <2>4, <4>2, <4>3, <4>4, <4>6 DEF Excess
      <4> QED BY <4>5, <4>6
    <3>3. CASE Refuse(me, window)
      <4>1. windows'[me] = window /\ granted' = granted /\ window # None
        BY <2>1, <2>2, <3>3, NoneAssumption DEF Refuse, TypeOK
      <4> QED BY <2>2, <2>4, <4>1 DEF Excess
    <3> QED BY <2>5, <3>2, <3>3
  <2>10. ASSUME NEW ip \in Ips, NEW s \in 0..MaxClock
         PROVE  Excess(windows'[ip], s, granted'[ip][s], late'[ip])
    <3>1. CASE ip = me
      BY <2>3, <2>9, <3>1
    <3>2. CASE ip # me
      BY <2>8, <3>2 DEF ExcessInv
    <3> QED BY <3>1, <3>2
  <2> QED BY <2>10 DEF ExcessInv
<1>2. ASSUME NEW t \in Tasks, NEW ip \in Ips, ReadSecond(t, ip) PROVE ExcessInv'
  BY <1>2 DEF ReadSecond, ExcessInv
<1>3. CASE Tick
  BY <1>3 DEF Tick, ExcessInv
<1>4. CASE UNCHANGED vars
  BY <1>4 DEF vars, ExcessInv
<1> QED BY <1>1, <1>2, <1>3, <1>4 DEF Next

(* A client has more than per_ip_rps requests granted in a second only     *)
(* through requests that came late, and each of those is worth one window  *)
(* (server.rs:288-314).                                                    *)
THEOREM ExcessIsBounded == Spec => []ExcessOnlyFromLate
<1>1. Init => CountInv /\ ExcessInv
  BY DEF Init, CountInv, ExcessInv, Excess
<1>2. ASSUME TypeOK, CountInv, ExcessInv
      PROVE  ExcessOnlyFromLate
  <2>1. ASSUME NEW ip \in Ips, NEW s \in 0..MaxClock
        PROVE  granted[ip][s] <= PerIpRps * (1 + late[ip])
    <3>1. late[ip] \in Nat /\ granted[ip][s] \in Nat
      BY <1>2 DEF TypeOK
    <3>2. /\ Allowance(late[ip]) \in Nat
          /\ Allowance(late[ip] + 1) = Allowance(late[ip]) + PerIpRps
      BY <3>1, AllowanceStep
    <3>3. Excess(windows[ip], s, granted[ip][s], late[ip])
      BY <1>2 DEF ExcessInv
    <3>4. granted[ip][s] <= Allowance(late[ip] + 1)
      <4>1. CASE windows[ip] = None
        BY <3>2, <3>3, <4>1, RpsAssumption DEF Excess
      <4>2. CASE windows[ip] # None
        <5>1. /\ windows[ip].second \in Nat /\ windows[ip].count \in Nat
              /\ windows[ip].count <= PerIpRps /\ s \in Nat
          BY <1>2, <4>2, ClockAssumption DEF CountInv, TypeOK, Window
        <5> QED BY <3>1, <3>2, <3>3, <4>2, <5>1, RpsAssumption DEF Excess
      <4> QED BY <4>1, <4>2
    <3>5. late[ip] + 1 = 1 + late[ip]
      BY <3>1
    <3> QED BY <3>4, <3>5 DEF Allowance
  <2> QED BY <2>1 DEF ExcessOnlyFromLate
<1>3. TypeOK /\ CountInv /\ ExcessInv => ExcessOnlyFromLate
  BY <1>2
<1> QED BY <1>1, <1>3, TypeInit, TypeStep, CountStep, ExcessStep, PTL DEF Spec
=============================================================================
