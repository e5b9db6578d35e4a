--------------------------- MODULE ExchangeProofs ---------------------------
(***************************************************************************)
(* Proofs about Exchange and the modules it extends.                       *)
(***************************************************************************)
EXTENDS Exchange, FiniteSetTheorems, WellFoundedInduction, TLAPS

(***************************************************************************)
(* The policy: Check is what Permitted says.                               *)
(***************************************************************************)

(* A pattern matches the names that Named gives it, for names and patterns *)
(* that are sequences of labels.                                           *)
LEMMA EndsIsBelow ==
  ASSUME NEW host \in Seq(STRING), NEW labels \in Seq(STRING), labels # << >>
  PROVE  Ends(host, labels)
           <=> \E k \in 2..Len(host) : SubSeq(host, k, Len(host)) = labels
<1> DEFINE n == Len(host)  m == Len(labels)
<1>0. n \in Nat /\ m \in Nat
  OBVIOUS
<1>1. ASSUME Ends(host, labels)
      PROVE  \E k \in 2..n : SubSeq(host, k, n) = labels
  <2> DEFINE k == n - m + 1
  <2>1. n > m /\ \A i \in 1..m : host[n - m + i] = labels[i]
    BY <1>1 DEF Ends
  <2>2. m > 0
    OBVIOUS
  <2>3. k \in 2..n
    BY <1>0, <2>1, <2>2
  <2>4. SubSeq(host, k, n) \in Seq(STRING) /\ Len(SubSeq(host, k, n)) = m
    BY <1>0, <2>3
  <2>5. \A i \in 1..m : SubSeq(host, k, n)[i] = labels[i]
    BY <1>0, <2>1, <2>3
  <2>6. SubSeq(host, k, n) = labels
    BY <2>4, <2>5
  <2> QED
    BY <2>3, <2>6
<1>2. ASSUME NEW k \in 2..n, SubSeq(host, k, n) = labels
      PROVE  Ends(host, labels)
  <2>1. m = n - k + 1 /\ n > m
    BY <1>0, <1>2
  <2>2. \A i \in 1..m : host[n - m + i] = SubSeq(host, k, n)[i]
    BY <1>0, <2>1
  <2> QED
    BY <1>2, <2>1, <2>2 DEF Ends
<1> QED
  BY <1>1, <1>2

LEMMA ListedIsNamed ==
  ASSUME NEW host \in Seq(STRING), NEW patterns,
         \A p \in patterns :
           p.labels \in Seq(STRING) /\ (p.kind = "below" => p.labels # << >>)
  PROVE  Listed(patterns, host) <=> Named(patterns, host)
BY EndsIsBelow DEF Listed, DomainMatches, Named

(***************************************************************************)
(* Freshness: what the Cache-Control and the expiry can be.                *)
(***************************************************************************)
(* A set of indices that is not empty has a last one.                      *)
LEMMA LastIndex ==
  ASSUME NEW n \in Nat, NEW S \in SUBSET (1..n), S # {}
  PROVE  \E i \in S : \A j \in S : j <= i
<1> DEFINE Above(i) == {j \in 1..n : j > i}
           T == {Above(i) : i \in S}
<1>1. IsFiniteSet(1..n)
  BY FS_Interval
<1>2. IsWellFoundedOn(StrictSubsetOrdering(1..n), SUBSET (1..n))
  BY <1>1, FS_StrictSubsetOrderingWellFounded, FS_FiniteSubsetsOfFinite, IsWellFoundedOnSubset
<1>3. T \subseteq SUBSET (1..n) /\ T # {}
  OBVIOUS
<1>4. PICK t \in T : \A u \in T : <<u, t>> \notin StrictSubsetOrdering(1..n)
  BY <1>2, <1>3, WFMin
<1>5. PICK i \in S : t = Above(i)
  OBVIOUS
<1>6. ASSUME NEW j \in S, j > i
      PROVE  FALSE
  <2>1. Above(j) \in T /\ Above(j) \subseteq t /\ Above(j) # t
    BY <1>5, <1>6
  <2> QED
    BY <1>3, <1>4, <2>1 DEF StrictSubsetOrdering
<1> QED
  BY <1>6

Directive == [name : STRING, age : Nat \cup {None}]

LEMMA Element ==
  ASSUME NEW S, NEW s \in Seq(S), NEW i \in 1..Len(s)
  PROVE  s[i] \in S
OBVIOUS

LEMMA MaxAgeType ==
  ASSUME NEW line \in Seq(Directive)
  PROVE  MaxAge(line) \in Nat \cup {None}
<1> DEFINE ages == {i \in DOMAIN line : line[i].name = "max-age" /\ line[i].age <= U64Max}
           last == CHOOSE i \in ages : \A j \in ages : j <= i
<1>1. CASE ages = {}
  BY <1>1 DEF MaxAge
<1>2. CASE ages # {}
  <2>1. Len(line) \in Nat /\ DOMAIN line = 1..Len(line)
    OBVIOUS
  <2>2. \E i \in ages : \A j \in ages : j <= i
    BY <1>2, <2>1, LastIndex
  <2>3. last \in ages
    BY <2>2
  <2>4. line[last] \in Directive
    <3>1. last \in 1..Len(line)
      BY <2>1, <2>3
    <3> HIDE DEF last
    <3> QED
      BY <3>1, Element
  <2>5. MaxAge(line) = line[last].age
    BY <1>2 DEF MaxAge
  <2> QED
    BY <2>4, <2>5 DEF Directive
<1> QED
  BY <1>1, <1>2

(* What compute_expiry returns is live for no longer than each of the      *)
(* things that bound it, in unbounded arithmetic.                          *)
LEMMA ExpiryBounds ==
  ASSUME NEW head, NEW ttl \in 0..I64Max, NEW now \in Nat,
         MaxAge(CacheControl(head)) \in Nat \cup {None},
         head.expires \in Nat \cup {None},
         ComputeExpiry(head, ttl, now) # None
  PROVE  LET until == ComputeExpiry(head, ttl, now) IN
         /\ until \in Int
         /\ until <= now + ttl
         /\ MaxAge(CacheControl(head)) # None
              => until <= now + MaxAge(CacheControl(head))
         /\ head.expires # None => until <= head.expires
<1> DEFINE age == MaxAge(CacheControl(head))
           expires == head.expires
           times == Deadlines(head, ttl, now)
           until == ComputeExpiry(head, ttl, now)
           local == SaturatingAdd(now, AsI64(ttl))
           aged == SaturatingAdd(now, AsI64(age))
<1>1. local \in Int /\ local <= now + ttl
  BY WidthAssumption DEF SaturatingAdd, AsI64
<1>2. age # None => aged \in Int /\ aged <= now + age
  BY WidthAssumption DEF SaturatingAdd, AsI64, U64Max
<1>3. times = {local} \cup {aged : a \in {age} \ {None}} \cup ({expires} \ {None})
  BY DEF Deadlines
<1>4. \E t \in times : \A u \in times : t <= u
  <2>1. CASE age = None /\ expires = None
    BY <1>1, <1>3, <2>1
  <2>2. CASE age = None /\ expires # None
    <3>1. times = {local, expires}
      BY <1>3, <2>2
    <3> HIDE DEF times, local, aged, age, expires
    <3>2. local \in Int /\ expires \in Int
      BY <1>1, <2>2 DEF expires
    <3> QED
      BY <3>1, <3>2
  <2>3. CASE age # None /\ expires = None
    BY <1>1, <1>2, <1>3, <2>3
  <2>4. CASE age # None /\ expires # None
    <3>1. times = {local, aged, expires}
      BY <1>3, <2>4
    <3> HIDE DEF times, local, aged, age, expires
    <3>2. local \in Int /\ aged \in Int /\ expires \in Int
      BY <1>1, <1>2, <2>4 DEF expires
    <3> QED
      BY <3>1, <3>2
  <2> QED
    BY <2>1, <2>2, <2>3, <2>4
<1>5. until \in times /\ \A u \in times : until <= u
  BY <1>4 DEF ComputeExpiry
<1>6. local \in times /\ (age # None => aged \in times)
      /\ (expires # None => expires \in times)
  BY <1>3
<1>7. until \in Int
  BY <1>1, <1>2, <1>3, <1>5
<1> HIDE DEF times, local, aged, until
<1> QED
  BY <1>1, <1>2, <1>5, <1>6, <1>7 DEF until

(***************************************************************************)
(* The inductive invariant.                                                *)
(***************************************************************************)
Early == {"idle", "received", "admitted", "lookup", "prepare"}
Waiting == {"connect", "exchange", "respond", "decide", "store"}
Late == {"reply", "done", "gone"}

(* What has happened by the time the handler is at a stage.                *)
HandlerInv ==
  /\ stage \in Early => ~contacted
  /\ stage \in Waiting => contacted
  /\ stage \in Early \cup {"connect"} => upload = "idle"
  /\ ~contacted => upload = "idle"
  /\ upload = "idle" => seen = 0 /\ sent = 0
  /\ stage \notin Late => answer = None /\ entry = None /\ relayed = 0
  /\ stage = "reply" => answer \in {"upstream", "replay", "tunnel"}
  /\ answer = "tunnel" => Bodyless
  /\ logged => stage \in {"done", "gone"}

PolicyInv ==
  contacted \/ answer \in {"replay", "tunnel"} \/ stage \in {"lookup", "prepare"}
    => Check(limits.policy, request.host, Port)

(* A refusal has come before the connection.                               *)
EarlyErrors == {"BadRequest", "PolicyDenied", "RequestBodyTooLarge",
                "TooManyRequests", "HeaderTooLarge"}
RefusalInv == answer \in EarlyErrors => ~contacted

(* LimitedBody passes on what it has seen, until the body is over.         *)
BodyInv ==
  /\ seen <= (IF request = None THEN 0 ELSE request.body)
  /\ upload \in {"idle", "open"} => sent = seen
  /\ UploadWithinLimit
  /\ WholeOrCut

Dated(e) ==
  LET age == MaxAge(CacheControl(response)) IN
  /\ e \in Int
  /\ e <= fetched + limits.ttl
  /\ age # None => e <= fetched + age
  /\ response.expires # None => e <= response.expires

(* An expiry that is still to be judged has been read no later than now.   *)
DateInv ==
  /\ fetched \in Nat \cup {None}
  /\ stage \in {"decide", "store"} => fetched \in 0..clock /\ Dated(expiry)
  /\ stage = "store" => fetched < expiry
  /\ entry # None => fetched \in Nat /\ entry.expires \in Int
  /\ StoredWithinDeadlines

IInv ==
  /\ TypeOK /\ HandlerInv
  /\ PolicyInv /\ RefusalInv /\ BodyInv /\ DateInv
  /\ LoggedIsWhole /\ ReplayAsLong /\ TableWhileServing

LEMMA Values ==
  /\ \A r \in Requests : r # None /\ r.body \in Nat
  /\ \A r \in Responses : r # None /\ r.size \in Nat /\ r.length \in Nat \cup {None}
  /\ \A c \in Copies : c # None /\ c.size \in Nat /\ c.length \in Nat
BY RequestAssumption, ResponseAssumption, CopyAssumption

LEMMA ErrorNames ==
  Errors = {"BadRequest", "PolicyDenied", "RequestBodyTooLarge", "TooManyRequests",
            "HeaderTooLarge", "Timeout", "Io", "Sqlite", "Http"}
BY DEF Errors, StatusCode

LEMMA LimitType ==
  ASSUME StartupTypeOK
  PROVE  \A p \in Processes : config[p].maxBodyBytes \in Nat
BY ConfigsAssumption DEF StartupTypeOK

(***************************************************************************)
(* The steps.                                                              *)
(***************************************************************************)

(* Only starts and exits change what Startup has.                          *)
LEMMA StartupSteps ==
  ASSUME [Next]_vars
  PROVE  (\E q \in Processes : Starting(q) \/ Exit(q)) \/ UNCHANGED startupVars
<1> USE DEF Enter, ReplySize, Bodyless, Answer, Fail, Handle, Quiet, Deciding, Relay, Others, target, body,
         storing, reply, startupVars, vars
<1>1. ASSUME NEW p \in Processes, NEW r \in Requests, Receive(p, r)
      PROVE  (\E q \in Processes : Starting(q) \/ Exit(q)) \/ UNCHANGED startupVars
  BY <1>1 DEF Receive
<1>2. ASSUME NEW p \in Processes, Start(p)
      PROVE  (\E q \in Processes : Starting(q) \/ Exit(q)) \/ UNCHANGED startupVars
  BY <1>2 DEF Start
<1>3. ASSUME NEW p \in Processes, Leave(p)
      PROVE  (\E q \in Processes : Starting(q) \/ Exit(q)) \/ UNCHANGED startupVars
  BY <1>3 DEF Leave
<1>4. CASE EnforceRequestLimits
  BY <1>4 DEF EnforceRequestLimits
<1>5. CASE Route
  BY <1>5 DEF Route
<1>6. CASE Lookup
  BY <1>6 DEF Lookup
<1>7. CASE Prepare
  BY <1>7 DEF Prepare
<1>8. CASE Connected
  BY <1>8 DEF Connected
<1>9. CASE ConnectFails \/ ConnectTimesOut
  BY <1>9 DEF ConnectFails, ConnectTimesOut
<1>10. CASE ExchangeFails
  BY <1>10 DEF ExchangeFails
<1>11. CASE Upload
  BY <1>11 DEF Upload, PollFrame, BreakUpload
<1>12. CASE UploadEnds \/ UploadFails
  BY <1>12 DEF UploadEnds, UploadFails, BreakUpload
<1>13. ASSUME NEW r \in Responses, Respond(r)
      PROVE  (\E q \in Processes : Starting(q) \/ Exit(q)) \/ UNCHANGED startupVars
  BY <1>13 DEF Respond
<1>14. CASE ReadExpiry
  BY <1>14 DEF ReadExpiry
<1>15. CASE Decide
  BY <1>15 DEF Decide
<1>16. CASE Store
  BY <1>16 DEF Store
<1>17. CASE RelayFrame \/ ReplyEnds \/ ReplySuffices \/ ReplyFails
  BY <1>17 DEF RelayFrame, ReplyEnds, ReplySuffices, ReplyFails
<1>18. CASE ClientLeaves
  BY <1>18 DEF ClientLeaves, Drop
<1>19. CASE Tick \/ Over \/ UNCHANGED vars
  BY <1>19 DEF Tick, Over
<1> QED
  BY <1>1, <1>2, <1>3, <1>4, <1>5, <1>6, <1>7, <1>8, <1>9, <1>10,
     <1>11, <1>12, <1>13, <1>14, <1>15, <1>16, <1>17, <1>18, <1>19 DEF Next, Proceed

LEMMA StartupTypeStep ==
  ASSUME StartupTypeOK, [Next]_vars
  PROVE  StartupTypeOK'
<1> USE DEF startupVars, StartupTypeOK
<1>1. ASSUME NEW p \in Processes, Starting(p)
      PROVE  StartupTypeOK'
  BY <1>1 DEF Starting, Load, PrepareRuntimeDirs, Bind, ServeUncached, CreateDirs, InitDb,
         Reach, Users
<1>2. ASSUME NEW p \in Processes, Exit(p)
      PROVE  StartupTypeOK'
  BY <1>2 DEF Exit, Reach
<1>3. CASE UNCHANGED startupVars
  BY <1>3
<1> QED
  BY <1>1, <1>2, <1>3, StartupSteps

LEMMA TypeStep ==
  ASSUME TypeOK, HandlerInv, [Next]_vars
  PROVE  TypeOK'
<1> USE DEF Enter, ReplySize, Bodyless, Answer, Fail, Handle, Quiet, Deciding, Relay, Others, target, body,
         storing, reply, startupVars, vars, TypeOK, HandlerInv, Early, Waiting, Late, Stages, Answers
<1>1. ASSUME NEW p \in Processes, NEW r \in Requests, Receive(p, r)
      PROVE  TypeOK'
  BY <1>1, StartupTypeStep, Values, ErrorNames, AnswerAssumption, ClockAssumption DEF Receive
<1>2. ASSUME NEW p \in Processes, Start(p)
      PROVE  TypeOK'
  BY <1>2, StartupTypeStep, Values, ErrorNames, AnswerAssumption, ClockAssumption DEF Start, Starting, Reach, Users, Load, PrepareRuntimeDirs, Bind, ServeUncached, CreateDirs, InitDb
<1>3. ASSUME NEW p \in Processes, Leave(p)
      PROVE  TypeOK'
  BY <1>3, StartupTypeStep, Values, ErrorNames, AnswerAssumption, ClockAssumption DEF Leave, Exit, Reach, Drop
<1>4. CASE EnforceRequestLimits
  BY <1>4, StartupTypeStep, Values, ErrorNames, AnswerAssumption, ClockAssumption DEF EnforceRequestLimits
<1>5. CASE Route
  BY <1>5, StartupTypeStep, Values, ErrorNames, AnswerAssumption, ClockAssumption DEF Route
<1>6. CASE Lookup
  BY <1>6, StartupTypeStep, Values, ErrorNames, AnswerAssumption, ClockAssumption DEF Lookup
<1>7. CASE Prepare
  BY <1>7, StartupTypeStep, Values, ErrorNames, AnswerAssumption, ClockAssumption DEF Prepare
<1>8. CASE Connected
  BY <1>8, StartupTypeStep, Values, ErrorNames, AnswerAssumption, ClockAssumption DEF Connected
<1>9. CASE ConnectFails \/ ConnectTimesOut
  BY <1>9, StartupTypeStep, Values, ErrorNames, AnswerAssumption, ClockAssumption DEF ConnectFails, ConnectTimesOut
<1>10. CASE ExchangeFails
  BY <1>10, StartupTypeStep, Values, ErrorNames, AnswerAssumption, ClockAssumption DEF ExchangeFails
<1>11. CASE Upload
  BY <1>11, StartupTypeStep, Values, ErrorNames, AnswerAssumption, ClockAssumption DEF Upload, PollFrame, BreakUpload
<1>12. CASE UploadEnds \/ UploadFails
  BY <1>12, StartupTypeStep, Values, ErrorNames, AnswerAssumption, ClockAssumption DEF UploadEnds, UploadFails, BreakUpload
<1>13. ASSUME NEW r \in Responses, Respond(r)
      PROVE  TypeOK'
  BY <1>13, StartupTypeStep, Values, ErrorNames, AnswerAssumption, ClockAssumption DEF Respond
<1>14. CASE ReadExpiry
  BY <1>14, StartupTypeStep, Values, ErrorNames, AnswerAssumption, ClockAssumption DEF ReadExpiry
<1>15. CASE Decide
  BY <1>15, StartupTypeStep, Values, ErrorNames, AnswerAssumption, ClockAssumption DEF Decide
<1>16. CASE Store
  BY <1>16, StartupTypeStep, Values, ErrorNames, AnswerAssumption, ClockAssumption DEF Store
<1>17. CASE RelayFrame \/ ReplyEnds \/ ReplySuffices \/ ReplyFails
  <2>1. StartupTypeOK'
    BY StartupTypeStep
  <2>2. ReplySize' = ReplySize
    BY <1>17 DEF RelayFrame, ReplyEnds, ReplySuffices, ReplyFails
  <2>3. ReplySize \in Nat
    BY <1>17, Values DEF RelayFrame, ReplyEnds, ReplySuffices, ReplyFails
  <2> HIDE DEF ReplySize
  <2>4. CASE RelayFrame
    <3>1. relayed' \in Nat /\ relayed' <= ReplySize
      BY <2>3, <2>4 DEF RelayFrame
    <3> QED
      BY <2>1, <2>2, <2>4, <3>1 DEF RelayFrame
  <2>5. CASE ReplyEnds \/ ReplySuffices \/ ReplyFails
    BY <2>1, <2>5 DEF ReplyEnds, ReplySuffices, ReplyFails
  <2> QED
    BY <1>17, <2>4, <2>5
<1>18. CASE ClientLeaves
  BY <1>18, StartupTypeStep, Values, ErrorNames, AnswerAssumption, ClockAssumption DEF ClientLeaves, Drop
<1>19. CASE Tick \/ Over \/ UNCHANGED vars
  BY <1>19, StartupTypeStep, Values, ErrorNames, AnswerAssumption, ClockAssumption DEF Tick, Over
<1> QED
  BY <1>1, <1>2, <1>3, <1>4, <1>5, <1>6, <1>7, <1>8, <1>9, <1>10,
     <1>11, <1>12, <1>13, <1>14, <1>15, <1>16, <1>17, <1>18, <1>19 DEF Next, Proceed

LEMMA HandlerStep ==
  ASSUME TypeOK, HandlerInv, [Next]_vars
  PROVE  HandlerInv'
<1> USE DEF Enter, ReplySize, Bodyless, Answer, Fail, Handle, Quiet, Deciding, Relay, Others, target, body,
         storing, reply, startupVars, vars, TypeOK, Stages, HandlerInv, Early, Waiting, Late
<1>1. ASSUME NEW p \in Processes, NEW r \in Requests, Receive(p, r)
      PROVE  HandlerInv'
  BY <1>1, NoTimeAssumption, AnswerAssumption DEF Receive, Answers
<1>2. ASSUME NEW p \in Processes, Start(p)
      PROVE  HandlerInv'
  BY <1>2, NoTimeAssumption DEF Start, Starting, Reach, Users, Load, PrepareRuntimeDirs, Bind, ServeUncached, CreateDirs, InitDb
<1>3. ASSUME NEW p \in Processes, Leave(p)
      PROVE  HandlerInv'
  BY <1>3, NoTimeAssumption DEF Leave, Exit, Reach, Drop
<1>4. CASE EnforceRequestLimits
  BY <1>4, NoTimeAssumption DEF EnforceRequestLimits
<1>5. CASE Route
  BY <1>5, NoTimeAssumption DEF Route
<1>6. CASE Lookup
  BY <1>6, NoTimeAssumption DEF Lookup
<1>7. CASE Prepare
  BY <1>7, NoTimeAssumption DEF Prepare
<1>8. CASE Connected
  BY <1>8, NoTimeAssumption DEF Connected
<1>9. CASE ConnectFails \/ ConnectTimesOut
  BY <1>9, NoTimeAssumption DEF ConnectFails, ConnectTimesOut
<1>10. CASE ExchangeFails
  BY <1>10, NoTimeAssumption DEF ExchangeFails
<1>11. CASE Upload
  BY <1>11, NoTimeAssumption DEF Upload, PollFrame, BreakUpload
<1>12. CASE UploadEnds \/ UploadFails
  BY <1>12, NoTimeAssumption DEF UploadEnds, UploadFails, BreakUpload
<1>13. ASSUME NEW r \in Responses, Respond(r)
      PROVE  HandlerInv'
  BY <1>13, NoTimeAssumption DEF Respond
<1>14. CASE ReadExpiry
  BY <1>14, NoTimeAssumption DEF ReadExpiry
<1>15. CASE Decide
  BY <1>15, NoTimeAssumption DEF Decide
<1>16. CASE Store
  BY <1>16, NoTimeAssumption DEF Store
<1>17. CASE RelayFrame \/ ReplyEnds \/ ReplySuffices \/ ReplyFails
  BY <1>17, NoTimeAssumption DEF RelayFrame, ReplyEnds, ReplySuffices, ReplyFails
<1>18. CASE ClientLeaves
  BY <1>18, NoTimeAssumption DEF ClientLeaves, Drop
<1>19. CASE Tick \/ Over \/ UNCHANGED vars
  BY <1>19, NoTimeAssumption DEF Tick, Over
<1> QED
  BY <1>1, <1>2, <1>3, <1>4, <1>5, <1>6, <1>7, <1>8, <1>9, <1>10,
     <1>11, <1>12, <1>13, <1>14, <1>15, <1>16, <1>17, <1>18, <1>19 DEF Next, Proceed

LEMMA PolicyStep ==
  ASSUME TypeOK, HandlerInv, PolicyInv, [Next]_vars
  PROVE  PolicyInv'
<1> USE DEF Enter, ReplySize, Bodyless, Answer, Fail, Handle, Quiet, Deciding, Relay, Others, target, body,
         storing, reply, startupVars, vars, PolicyInv, TypeOK, Answers, limits, Port, HandlerInv, Early, Waiting, Late
<1>1. ASSUME NEW p \in Processes, NEW r \in Requests, Receive(p, r)
      PROVE  PolicyInv'
  BY <1>1, AnswerAssumption DEF Receive
<1>2. ASSUME NEW p \in Processes, Start(p)
      PROVE  PolicyInv'
  BY <1>2, AnswerAssumption DEF Start, Starting, Reach, Users, Load, PrepareRuntimeDirs, Bind, ServeUncached, CreateDirs, InitDb
<1>3. ASSUME NEW p \in Processes, Leave(p)
      PROVE  PolicyInv'
  BY <1>3, AnswerAssumption DEF Leave, Exit, Reach, Drop
<1>4. CASE EnforceRequestLimits
  BY <1>4, AnswerAssumption DEF EnforceRequestLimits
<1>5. CASE Route
  BY <1>5, AnswerAssumption DEF Route
<1>6. CASE Lookup
  BY <1>6, AnswerAssumption DEF Lookup
<1>7. CASE Prepare
  BY <1>7, AnswerAssumption DEF Prepare
<1>8. CASE Connected
  BY <1>8, AnswerAssumption DEF Connected
<1>9. CASE ConnectFails \/ ConnectTimesOut
  BY <1>9, AnswerAssumption DEF ConnectFails, ConnectTimesOut
<1>10. CASE ExchangeFails
  BY <1>10, AnswerAssumption DEF ExchangeFails
<1>11. CASE Upload
  BY <1>11, AnswerAssumption DEF Upload, PollFrame, BreakUpload
<1>12. CASE UploadEnds \/ UploadFails
  BY <1>12, AnswerAssumption DEF UploadEnds, UploadFails, BreakUpload
<1>13. ASSUME NEW r \in Responses, Respond(r)
      PROVE  PolicyInv'
  BY <1>13, AnswerAssumption DEF Respond
<1>14. CASE ReadExpiry
  BY <1>14, AnswerAssumption DEF ReadExpiry
<1>15. CASE Decide
  BY <1>15, AnswerAssumption DEF Decide
<1>16. CASE Store
  BY <1>16, AnswerAssumption DEF Store
<1>17. CASE RelayFrame \/ ReplyEnds \/ ReplySuffices \/ ReplyFails
  BY <1>17, AnswerAssumption DEF RelayFrame, ReplyEnds, ReplySuffices, ReplyFails
<1>18. CASE ClientLeaves
  BY <1>18, AnswerAssumption DEF ClientLeaves, Drop
<1>19. CASE Tick \/ Over \/ UNCHANGED vars
  BY <1>19, AnswerAssumption DEF Tick, Over
<1> QED
  BY <1>1, <1>2, <1>3, <1>4, <1>5, <1>6, <1>7, <1>8, <1>9, <1>10,
     <1>11, <1>12, <1>13, <1>14, <1>15, <1>16, <1>17, <1>18, <1>19 DEF Next, Proceed

LEMMA RefusalStep ==
  ASSUME TypeOK, HandlerInv, RefusalInv, [Next]_vars
  PROVE  RefusalInv'
<1> USE DEF Enter, ReplySize, Bodyless, Answer, Fail, Handle, Quiet, Deciding, Relay, Others, target, body,
         storing, reply, startupVars, vars, RefusalInv, EarlyErrors, Answers, TypeOK, HandlerInv, Early, Waiting, Late
<1>1. ASSUME NEW p \in Processes, NEW r \in Requests, Receive(p, r)
      PROVE  RefusalInv'
  BY <1>1, AnswerAssumption, ErrorNames DEF Receive
<1>2. ASSUME NEW p \in Processes, Start(p)
      PROVE  RefusalInv'
  BY <1>2, AnswerAssumption, ErrorNames DEF Start, Starting, Reach, Users, Load, PrepareRuntimeDirs, Bind, ServeUncached, CreateDirs, InitDb
<1>3. ASSUME NEW p \in Processes, Leave(p)
      PROVE  RefusalInv'
  BY <1>3, AnswerAssumption, ErrorNames DEF Leave, Exit, Reach, Drop
<1>4. CASE EnforceRequestLimits
  BY <1>4, AnswerAssumption, ErrorNames DEF EnforceRequestLimits
<1>5. CASE Route
  BY <1>5, AnswerAssumption, ErrorNames DEF Route
<1>6. CASE Lookup
  BY <1>6, AnswerAssumption, ErrorNames DEF Lookup
<1>7. CASE Prepare
  BY <1>7, AnswerAssumption, ErrorNames DEF Prepare
<1>8. CASE Connected
  BY <1>8, AnswerAssumption, ErrorNames DEF Connected
<1>9. CASE ConnectFails \/ ConnectTimesOut
  BY <1>9, AnswerAssumption, ErrorNames DEF ConnectFails, ConnectTimesOut
<1>10. CASE ExchangeFails
  BY <1>10, AnswerAssumption, ErrorNames DEF ExchangeFails
<1>11. CASE Upload
  BY <1>11, AnswerAssumption, ErrorNames DEF Upload, PollFrame, BreakUpload
<1>12. CASE UploadEnds \/ UploadFails
  BY <1>12, AnswerAssumption, ErrorNames DEF UploadEnds, UploadFails, BreakUpload
<1>13. ASSUME NEW r \in Responses, Respond(r)
      PROVE  RefusalInv'
  BY <1>13, AnswerAssumption, ErrorNames DEF Respond
<1>14. CASE ReadExpiry
  BY <1>14, AnswerAssumption, ErrorNames DEF ReadExpiry
<1>15. CASE Decide
  BY <1>15, AnswerAssumption, ErrorNames DEF Decide
<1>16. CASE Store
  BY <1>16, AnswerAssumption, ErrorNames DEF Store
<1>17. CASE RelayFrame \/ ReplyEnds \/ ReplySuffices \/ ReplyFails
  BY <1>17, AnswerAssumption, ErrorNames DEF RelayFrame, ReplyEnds, ReplySuffices, ReplyFails
<1>18. CASE ClientLeaves
  BY <1>18, AnswerAssumption, ErrorNames DEF ClientLeaves, Drop
<1>19. CASE Tick \/ Over \/ UNCHANGED vars
  BY <1>19, AnswerAssumption, ErrorNames DEF Tick, Over
<1> QED
  BY <1>1, <1>2, <1>3, <1>4, <1>5, <1>6, <1>7, <1>8, <1>9, <1>10,
     <1>11, <1>12, <1>13, <1>14, <1>15, <1>16, <1>17, <1>18, <1>19 DEF Next, Proceed

LEMMA BodyStep ==
  ASSUME TypeOK, HandlerInv, BodyInv, [Next]_vars
  PROVE  BodyInv'
<1> USE DEF Enter, ReplySize, Bodyless, Answer, Fail, Handle, Quiet, Deciding, Relay, Others, target, body,
         storing, reply, startupVars, vars, BodyInv, UploadWithinLimit, WholeOrCut, limits, TypeOK, HandlerInv, Early, Waiting, Late
<1>1. ASSUME NEW p \in Processes, NEW r \in Requests, Receive(p, r)
      PROVE  BodyInv'
  BY <1>1, Values, LimitType DEF Receive
<1>2. ASSUME NEW p \in Processes, Start(p)
      PROVE  BodyInv'
  BY <1>2, Values, LimitType DEF Start, Starting, Reach, Users, Load, PrepareRuntimeDirs, Bind, ServeUncached, CreateDirs, InitDb
<1>3. ASSUME NEW p \in Processes, Leave(p)
      PROVE  BodyInv'
  BY <1>3, Values, LimitType DEF Leave, Exit, Reach, Drop
<1>4. CASE EnforceRequestLimits
  BY <1>4, Values, LimitType DEF EnforceRequestLimits
<1>5. CASE Route
  BY <1>5, Values, LimitType DEF Route
<1>6. CASE Lookup
  BY <1>6, Values, LimitType DEF Lookup
<1>7. CASE Prepare
  BY <1>7, Values, LimitType DEF Prepare
<1>8. CASE Connected
  BY <1>8, Values, LimitType DEF Connected
<1>9. CASE ConnectFails \/ ConnectTimesOut
  BY <1>9, Values, LimitType DEF ConnectFails, ConnectTimesOut
<1>10. CASE ExchangeFails
  BY <1>10, Values, LimitType DEF ExchangeFails
<1>11. CASE Upload
  BY <1>11, Values, LimitType DEF Upload, PollFrame, BreakUpload
<1>12. CASE UploadEnds \/ UploadFails
  BY <1>12, Values, LimitType DEF UploadEnds, UploadFails, BreakUpload
<1>13. ASSUME NEW r \in Responses, Respond(r)
      PROVE  BodyInv'
  BY <1>13, Values, LimitType DEF Respond
<1>14. CASE ReadExpiry
  BY <1>14, Values, LimitType DEF ReadExpiry
<1>15. CASE Decide
  BY <1>15, Values, LimitType DEF Decide
<1>16. CASE Store
  BY <1>16, Values, LimitType DEF Store
<1>17. CASE RelayFrame \/ ReplyEnds \/ ReplySuffices \/ ReplyFails
  BY <1>17, Values, LimitType DEF RelayFrame, ReplyEnds, ReplySuffices, ReplyFails
<1>18. CASE ClientLeaves
  BY <1>18, Values, LimitType DEF ClientLeaves, Drop
<1>19. CASE Tick \/ Over \/ UNCHANGED vars
  BY <1>19, Values, LimitType DEF Tick, Over
<1> QED
  BY <1>1, <1>2, <1>3, <1>4, <1>5, <1>6, <1>7, <1>8, <1>9, <1>10,
     <1>11, <1>12, <1>13, <1>14, <1>15, <1>16, <1>17, <1>18, <1>19 DEF Next, Proceed

LEMMA LoggedStep ==
  ASSUME TypeOK, HandlerInv, LoggedIsWhole, [Next]_vars
  PROVE  LoggedIsWhole'
<1> USE DEF Enter, ReplySize, Bodyless, Answer, Fail, Handle, Quiet, Deciding, Relay, Others, target, body,
         storing, reply, startupVars, vars, LoggedIsWhole, TypeOK, HandlerInv, Early, Waiting, Late
<1>1. ASSUME NEW p \in Processes, NEW r \in Requests, Receive(p, r)
      PROVE  LoggedIsWhole'
  BY <1>1 DEF Receive
<1>2. ASSUME NEW p \in Processes, Start(p)
      PROVE  LoggedIsWhole'
  BY <1>2 DEF Start, Starting, Reach, Users, Load, PrepareRuntimeDirs, Bind, ServeUncached, CreateDirs, InitDb
<1>3. ASSUME NEW p \in Processes, Leave(p)
      PROVE  LoggedIsWhole'
  BY <1>3 DEF Leave, Exit, Reach, Drop
<1>4. CASE EnforceRequestLimits
  BY <1>4 DEF EnforceRequestLimits
<1>5. CASE Route
  BY <1>5 DEF Route
<1>6. CASE Lookup
  BY <1>6 DEF Lookup
<1>7. CASE Prepare
  BY <1>7 DEF Prepare
<1>8. CASE Connected
  BY <1>8 DEF Connected
<1>9. CASE ConnectFails \/ ConnectTimesOut
  BY <1>9 DEF ConnectFails, ConnectTimesOut
<1>10. CASE ExchangeFails
  BY <1>10 DEF ExchangeFails
<1>11. CASE Upload
  BY <1>11 DEF Upload, PollFrame, BreakUpload
<1>12. CASE UploadEnds \/ UploadFails
  BY <1>12 DEF UploadEnds, UploadFails, BreakUpload
<1>13. ASSUME NEW r \in Responses, Respond(r)
      PROVE  LoggedIsWhole'
  BY <1>13 DEF Respond
<1>14. CASE ReadExpiry
  BY <1>14 DEF ReadExpiry
<1>15. CASE Decide
  BY <1>15 DEF Decide
<1>16. CASE Store
  BY <1>16 DEF Store
<1>17. CASE RelayFrame \/ ReplyEnds \/ ReplySuffices \/ ReplyFails
  BY <1>17 DEF RelayFrame, ReplyEnds, ReplySuffices, ReplyFails
<1>18. CASE ClientLeaves
  BY <1>18 DEF ClientLeaves, Drop
<1>19. CASE Tick \/ Over \/ UNCHANGED vars
  BY <1>19 DEF Tick, Over
<1> QED
  BY <1>1, <1>2, <1>3, <1>4, <1>5, <1>6, <1>7, <1>8, <1>9, <1>10,
     <1>11, <1>12, <1>13, <1>14, <1>15, <1>16, <1>17, <1>18, <1>19 DEF Next, Proceed

LEMMA LengthStep ==
  ASSUME TypeOK, HandlerInv, ReplayAsLong, [Next]_vars
  PROVE  ReplayAsLong'
<1> USE DEF Enter, ReplySize, Bodyless, Answer, Fail, Handle, Quiet, Deciding, Relay, Others, target, body,
         storing, reply, startupVars, vars, ReplayAsLong, TypeOK, HandlerInv, Early, Waiting, Late
<1>1. ASSUME NEW p \in Processes, NEW r \in Requests, Receive(p, r)
      PROVE  ReplayAsLong'
  BY <1>1 DEF Receive
<1>2. ASSUME NEW p \in Processes, Start(p)
      PROVE  ReplayAsLong'
  BY <1>2 DEF Start, Starting, Reach, Users, Load, PrepareRuntimeDirs, Bind, ServeUncached, CreateDirs, InitDb
<1>3. ASSUME NEW p \in Processes, Leave(p)
      PROVE  ReplayAsLong'
  BY <1>3 DEF Leave, Exit, Reach, Drop
<1>4. CASE EnforceRequestLimits
  BY <1>4 DEF EnforceRequestLimits
<1>5. CASE Route
  BY <1>5 DEF Route
<1>6. CASE Lookup
  BY <1>6 DEF Lookup
<1>7. CASE Prepare
  BY <1>7 DEF Prepare
<1>8. CASE Connected
  BY <1>8 DEF Connected
<1>9. CASE ConnectFails \/ ConnectTimesOut
  BY <1>9 DEF ConnectFails, ConnectTimesOut
<1>10. CASE ExchangeFails
  BY <1>10 DEF ExchangeFails
<1>11. CASE Upload
  BY <1>11 DEF Upload, PollFrame, BreakUpload
<1>12. CASE UploadEnds \/ UploadFails
  BY <1>12 DEF UploadEnds, UploadFails, BreakUpload
<1>13. ASSUME NEW r \in Responses, Respond(r)
      PROVE  ReplayAsLong'
  BY <1>13 DEF Respond
<1>14. CASE ReadExpiry
  BY <1>14 DEF ReadExpiry
<1>15. CASE Decide
  BY <1>15 DEF Decide
<1>16. CASE Store
  BY <1>16 DEF Store
<1>17. CASE RelayFrame \/ ReplyEnds \/ ReplySuffices \/ ReplyFails
  <2> SUFFICES ASSUME answer = "replay", request.method = "GET",
                      ReplyEnds \/ ReplySuffices, stage' = "done"
               PROVE  relayed = replay.length
    BY <1>17 DEF RelayFrame, ReplyEnds, ReplySuffices, ReplyFails
  <2>1. Announced = replay.length /\ replay.length \in Nat
    BY Values DEF Announced
  <2>2. Announced # None
    BY <2>1, NoTimeAssumption
  <2> QED
    BY <2>1, <2>2 DEF ReplyEnds, ReplySuffices
<1>18. CASE ClientLeaves
  BY <1>18 DEF ClientLeaves, Drop
<1>19. CASE Tick \/ Over \/ UNCHANGED vars
  BY <1>19 DEF Tick, Over
<1> QED
  BY <1>1, <1>2, <1>3, <1>4, <1>5, <1>6, <1>7, <1>8, <1>9, <1>10,
     <1>11, <1>12, <1>13, <1>14, <1>15, <1>16, <1>17, <1>18, <1>19 DEF Next, Proceed

LEMMA TableStep ==
  ASSUME StartupTypeOK, TableWhileServing, [Next]_vars
  PROVE  TableWhileServing'
<1> USE DEF startupVars, TableWhileServing, StartupTypeOK
<1>1. ASSUME NEW p \in Processes, Starting(p)
      PROVE  TableWhileServing'
  BY <1>1 DEF Starting, Load, PrepareRuntimeDirs, Bind, ServeUncached, CreateDirs, InitDb,
         Reach, Users
<1>2. ASSUME NEW p \in Processes, Exit(p)
      PROVE  TableWhileServing'
  BY <1>2 DEF Exit, Reach
<1>3. CASE UNCHANGED startupVars
  BY <1>3
<1> QED
  BY <1>1, <1>2, <1>3, StartupSteps

LEMMA ResponseType ==
  \A r \in Responses :
    /\ MaxAge(CacheControl(r)) \in Nat \cup {None}
    /\ r.expires \in Nat \cup {None}
<1> SUFFICES ASSUME NEW r \in Responses
             PROVE  MaxAge(CacheControl(r)) \in Nat \cup {None}
  BY ResponseAssumption
<1>1. r.cacheControl \in Seq(Seq(Directive))
  BY ResponseAssumption DEF Directive
<1>2. CacheControl(r) \in Seq(Directive)
  <2>1. CASE r.cacheControl = << >>
    BY <2>1 DEF CacheControl, FirstLine
  <2>2. CASE r.cacheControl # << >>
    <3>1. Head(r.cacheControl) \in Seq(Directive)
      BY <1>1, <2>2
    <3> QED
      BY <2>2, <3>1 DEF CacheControl, FirstLine
  <2> QED
    BY <2>1, <2>2
<1> QED
  BY <1>2, MaxAgeType

LEMMA LifetimeType ==
  ASSUME StartupTypeOK
  PROVE  \A p \in Processes : config[p].ttl \in 0..I64Max
BY ConfigsAssumption DEF StartupTypeOK

LEMMA DateStep ==
  ASSUME TypeOK, HandlerInv, DateInv, [Next]_vars
  PROVE  DateInv'
<1> USE DEF Enter, ReplySize, Bodyless, Answer, Fail, Handle, Quiet, Deciding, Relay, Others, target, body,
         storing, reply, startupVars, vars, DateInv, Dated, StoredWithinDeadlines, limits, TypeOK, HandlerInv, Early, Waiting, Late
<1>1. ASSUME NEW p \in Processes, NEW r \in Requests, Receive(p, r)
      PROVE  DateInv'
  BY <1>1, ClockAssumption DEF Receive
<1>2. ASSUME NEW p \in Processes, Start(p)
      PROVE  DateInv'
  BY <1>2, ClockAssumption DEF Start, Starting, Reach, Users, Load, PrepareRuntimeDirs, Bind, ServeUncached, CreateDirs, InitDb
<1>3. ASSUME NEW p \in Processes, Leave(p)
      PROVE  DateInv'
  BY <1>3, ClockAssumption DEF Leave, Exit, Reach, Drop
<1>4. CASE EnforceRequestLimits
  BY <1>4, ClockAssumption DEF EnforceRequestLimits
<1>5. CASE Route
  BY <1>5, ClockAssumption DEF Route
<1>6. CASE Lookup
  BY <1>6, ClockAssumption DEF Lookup
<1>7. CASE Prepare
  BY <1>7, ClockAssumption DEF Prepare
<1>8. CASE Connected
  BY <1>8, ClockAssumption DEF Connected
<1>9. CASE ConnectFails \/ ConnectTimesOut
  BY <1>9, ClockAssumption DEF ConnectFails, ConnectTimesOut
<1>10. CASE ExchangeFails
  BY <1>10, ClockAssumption DEF ExchangeFails
<1>11. CASE Upload
  BY <1>11, ClockAssumption DEF Upload, PollFrame, BreakUpload
<1>12. CASE UploadEnds \/ UploadFails
  BY <1>12, ClockAssumption DEF UploadEnds, UploadFails, BreakUpload
<1>13. ASSUME NEW r \in Responses, Respond(r)
      PROVE  DateInv'
  BY <1>13, ClockAssumption DEF Respond
<1>14. CASE ReadExpiry
  <2>1. /\ response \in Responses /\ limits.ttl \in 0..I64Max /\ clock \in Nat
        /\ expiry' = ComputeExpiry(response, limits.ttl, clock)
    BY <1>14, LifetimeType, ClockAssumption DEF ReadExpiry, TypeOK
  <2>2. MaxAge(CacheControl(response)) \in Nat \cup {None}
        /\ response.expires \in Nat \cup {None}
    BY <2>1, ResponseType
  <2>3. ASSUME expiry' # None
        PROVE  /\ expiry' \in Int
               /\ expiry' <= clock + limits.ttl
               /\ MaxAge(CacheControl(response)) # None
                    => expiry' <= clock + MaxAge(CacheControl(response))
               /\ response.expires # None => expiry' <= response.expires
    BY <2>1, <2>2, <2>3, ExpiryBounds
  <2> QED
    BY <1>14, <2>1, <2>3 DEF ReadExpiry
<1>15. CASE Decide
  BY <1>15, ClockAssumption DEF Decide
<1>16. CASE Store
  BY <1>16, ClockAssumption DEF Store
<1>17. CASE RelayFrame \/ ReplyEnds \/ ReplySuffices \/ ReplyFails
  BY <1>17, ClockAssumption DEF RelayFrame, ReplyEnds, ReplySuffices, ReplyFails
<1>18. CASE ClientLeaves
  BY <1>18, ClockAssumption DEF ClientLeaves, Drop
<1>19. CASE Tick \/ Over \/ UNCHANGED vars
  BY <1>19, ClockAssumption DEF Tick, Over
<1> QED
  BY <1>1, <1>2, <1>3, <1>4, <1>5, <1>6, <1>7, <1>8, <1>9, <1>10,
     <1>11, <1>12, <1>13, <1>14, <1>15, <1>16, <1>17, <1>18, <1>19 DEF Next, Proceed

(***************************************************************************)
(* The invariant and the properties.                                       *)
(***************************************************************************)
LEMMA InitIInv ==
  ASSUME Init
  PROVE  IInv
<1> USE DEF Init, StartupInit
<1>1. TypeOK
  <2>1. StartupTypeOK
    BY DEF StartupTypeOK
  <2>2. clock \in 0..MaxClock /\ stage \in Stages
    BY ClockAssumption DEF Stages
  <2> QED
    BY <2>1, <2>2, AnswerAssumption DEF TypeOK, Answers
<1>2. HandlerInv /\ PolicyInv /\ RefusalInv
  BY AnswerAssumption DEF HandlerInv, PolicyInv, RefusalInv, Early, Waiting, Late,
     Answers, EarlyErrors
<1>3. BodyInv /\ LoggedIsWhole /\ ReplayAsLong
  BY DEF BodyInv, UploadWithinLimit, WholeOrCut, LoggedIsWhole, ReplayAsLong
<1>4. DateInv
  BY DEF DateInv, StoredWithinDeadlines
<1>5. TableWhileServing
  BY DEF TableWhileServing
<1> QED
  BY <1>1, <1>2, <1>3, <1>4, <1>5 DEF IInv

LEMMA StepIInv ==
  ASSUME IInv, [Next]_vars
  PROVE  IInv'
<1>1. TypeOK' /\ HandlerInv'
  BY TypeStep, HandlerStep DEF IInv
<1>2. PolicyInv' /\ RefusalInv' /\ BodyInv'
  BY PolicyStep, RefusalStep, BodyStep DEF IInv
<1>3. DateInv' /\ LoggedIsWhole' /\ ReplayAsLong'
  BY DateStep, LoggedStep, LengthStep DEF IInv
<1>4. TableWhileServing'
  BY TableStep DEF IInv, TypeOK
<1> QED
  BY <1>1, <1>2, <1>3, <1>4 DEF IInv

LEMMA Invariance == Spec => []IInv
<1>1. IInv /\ [Next]_vars => IInv'
  BY StepIInv
<1> QED
  BY InitIInv, <1>1, PTL DEF Spec

(* Types, and what there is at each stage of the handler.                  *)
THEOREM ExchangeTypeCorrect == Spec => []TypeOK
BY Invariance, PTL DEF IInv

LEMMA RefusalNames == Refusals = EarlyErrors
BY ErrorNames DEF Refusals, StatusCode, EarlyErrors

(* A refusal for what the client sent is without effect.                   *)
THEOREM RefusalsUntouched == Spec => []RefusedUntouched
<1>1. IInv => RefusedUntouched
  BY RefusalNames DEF RefusedUntouched, Refusals, IInv, RefusalInv, HandlerInv
<1> QED
  BY <1>1, Invariance, PTL

LEMMA CheckedIsPermitted ==
  ASSUME TypeOK, request # None
  PROVE  Check(limits.policy, request.host, Port)
           <=> Permitted(limits.policy, request.host, Port)
<1>1. request \in Requests /\ proxy \in Processes
  BY DEF TypeOK
<1>2. /\ request.host \in Seq(STRING)
      /\ \A d \in limits.policy.allowedDomains \cup limits.policy.deniedDomains :
           d.labels \in Seq(STRING) /\ (d.kind = "below" => d.labels # << >>)
  BY <1>1, RequestAssumption, ConfigsAssumption DEF TypeOK, StartupTypeOK, limits
<1>3. /\ Listed(limits.policy.allowedDomains, request.host)
           <=> Named(limits.policy.allowedDomains, request.host)
      /\ Listed(limits.policy.deniedDomains, request.host)
           <=> Named(limits.policy.deniedDomains, request.host)
  BY <1>2, ListedIsNamed
<1> QED
  BY <1>3 DEF Check, Permitted

(* Nothing is reached that the policy does not permit.                     *)
THEOREM PolicyHolds == Spec => []OnlyPermittedReached
<1>1. IInv => OnlyPermittedReached
  <2> SUFFICES ASSUME IInv, contacted \/ answer \in {"replay", "tunnel"}
               PROVE  Permitted(limits.policy, request.host, Port)
    BY DEF OnlyPermittedReached
  <2>1. request # None
    BY AnswerAssumption DEF IInv, TypeOK, HandlerInv, Early, Late, Answers
  <2> QED
    BY <2>1, CheckedIsPermitted DEF IInv, PolicyInv
<1> QED
  BY <1>1, Invariance, PTL

(* No more of a body is passed on than the limit.                          *)
THEOREM UploadsLimited == Spec => []UploadWithinLimit
<1>1. IInv => UploadWithinLimit
  BY DEF IInv, BodyInv
<1> QED
  BY <1>1, Invariance, PTL

(* A body that ends at the upstream is the client's whole body.            *)
THEOREM UploadsWhole == Spec => []WholeOrCut
<1>1. IInv => WholeOrCut
  BY DEF IInv, BodyInv
<1> QED
  BY <1>1, Invariance, PTL

(* What is stored expires by each of its deadlines, whatever max-age says  *)
(* and however late the clock is read again.                               *)
THEOREM DeadlinesKept == Spec => []StoredWithinDeadlines
<1>1. IInv => StoredWithinDeadlines
  BY DEF IInv, DateInv
<1> QED
  BY <1>1, Invariance, PTL

(* Only an answer whose source was relayed to its end is logged as         *)
(* completed, whatever its head announced.                                 *)
THEOREM LoggedWhole == Spec => []LoggedIsWhole
<1>1. IInv => LoggedIsWhole
  BY DEF IInv
<1> QED
  BY <1>1, Invariance, PTL

(* A replay that does not break off has the length of the response its     *)
(* head is from, whatever file its body came from.                         *)
THEOREM ReplaysAsLong == Spec => []ReplayAsLong
<1>1. IInv => ReplayAsLong
  BY DEF IInv
<1> QED
  BY <1>1, Invariance, PTL

(* A process serves with a table until another one wipes it.               *)
THEOREM TablesThere == Spec => []TableWhileServing
<1>1. IInv => TableWhileServing
  BY DEF IInv
<1> QED
  BY <1>1, Invariance, PTL

(***************************************************************************)
(* The refinement of Forwarding.                                           *)
(***************************************************************************)

(* Where the cache is asked or filled, and where the request has been sent.*)
PlaceInv ==
  /\ stage \in {"lookup", "respond", "decide", "store"} => MayStore
  /\ stage \in {"exchange", "respond", "decide", "store"} => upload # "idle"

(* An order stays what it was when it was taken.                           *)
LEMMA OrderStays ==
  ASSUME [Next]_vars, stage # "idle"
  PROVE  request' = request /\ proxy' = proxy /\ config' = config
<1> USE DEF Handle, Quiet, Deciding, Others, target, startupVars, vars
<1>1. config' = config
  <2>1. ASSUME NEW q \in Processes, Starting(q) \/ Exit(q)
        PROVE  config' = config
    BY <2>1 DEF Starting, Load, PrepareRuntimeDirs, Bind, ServeUncached, CreateDirs,
                InitDb, Exit
  <2> QED
    BY <2>1, StartupSteps
<1>2. CASE EnforceRequestLimits \/ Route \/ Lookup \/ Prepare
  BY <1>1, <1>2 DEF EnforceRequestLimits, Route, Lookup, Prepare
<1>3. CASE Connected \/ ConnectFails \/ ConnectTimesOut \/ ExchangeFails
  BY <1>1, <1>3 DEF Connected, ConnectFails, ConnectTimesOut, ExchangeFails
<1>4. CASE Upload \/ UploadEnds \/ UploadFails
  BY <1>1, <1>4 DEF Upload, UploadEnds, UploadFails
<1>5. CASE (\E r \in Responses : Respond(r)) \/ ReadExpiry \/ Decide \/ Store
  BY <1>1, <1>5 DEF Respond, ReadExpiry, Decide, Store
<1>6. CASE RelayFrame \/ ReplyEnds \/ ReplySuffices \/ ReplyFails \/ ClientLeaves
  BY <1>1, <1>6 DEF RelayFrame, ReplyEnds, ReplySuffices, ReplyFails, ClientLeaves, Drop
<1>7. ASSUME NEW p \in Processes, Start(p) \/ Leave(p)
      PROVE  request' = request /\ proxy' = proxy
  BY <1>7 DEF Start, Leave, Drop
<1>8. CASE Tick \/ Over \/ UNCHANGED vars
  BY <1>1, <1>8 DEF Tick, Over
<1> QED
  BY <1>1, <1>2, <1>3, <1>4, <1>5, <1>6, <1>7, <1>8 DEF Next, Proceed, Receive

LEMMA PlaceStep ==
  ASSUME TypeOK, HandlerInv, PlaceInv, [Next]_vars
  PROVE  PlaceInv'
<1> USE DEF Enter, Answer, Fail, Handle, Quiet, Deciding, Relay, Others, body, storing,
         reply, vars, TypeOK, HandlerInv, PlaceInv, Early, Waiting
<1>1. stage # "idle" => MayStore' = MayStore
  BY OrderStays DEF MayStore, limits
<1>2. CASE (\E p \in Processes, r \in Requests : Receive(p, r))
            \/ EnforceRequestLimits \/ Route \/ Lookup \/ Prepare
  BY <1>1, <1>2 DEF Receive, EnforceRequestLimits, Route, Lookup, Prepare
<1>3. CASE Connected \/ ConnectFails \/ ConnectTimesOut \/ ExchangeFails
  BY <1>1, <1>3 DEF Connected, ConnectFails, ConnectTimesOut, ExchangeFails
<1>4. CASE Upload \/ UploadEnds \/ UploadFails
  BY <1>1, <1>4 DEF Upload, PollFrame, UploadEnds, UploadFails, BreakUpload
<1>5. CASE (\E r \in Responses : Respond(r)) \/ ReadExpiry \/ Decide \/ Store
  BY <1>1, <1>5 DEF Respond, ReadExpiry, Decide, Store
<1>6. CASE RelayFrame \/ ReplyEnds \/ ReplySuffices \/ ReplyFails \/ ClientLeaves
  BY <1>1, <1>6 DEF RelayFrame, ReplyEnds, ReplySuffices, ReplyFails, ClientLeaves, Drop
<1>7. ASSUME NEW p \in Processes, Start(p) \/ Leave(p)
      PROVE  PlaceInv'
  BY <1>1, <1>7 DEF Start, Leave, Drop
<1>8. CASE Tick \/ Over \/ UNCHANGED vars
  BY <1>1, <1>8 DEF Tick, Over
<1> QED
  BY <1>2, <1>3, <1>4, <1>5, <1>6, <1>7, <1>8 DEF Next, Proceed

LEMMA PlaceInvariance == Spec => []PlaceInv
<1>1. Init => PlaceInv
  BY DEF Init, PlaceInv
<1>2. IInv /\ PlaceInv /\ [Next]_vars => PlaceInv'
  BY PlaceStep DEF IInv
<1> QED
  BY <1>1, <1>2, Invariance, PTL DEF Spec

LEMMA OrderType ==
  ASSUME TypeOK, request # None
  PROVE  /\ Order \in Forward!Orders
         /\ Order.size = request.body /\ Order.most = limits.maxBodyBytes
         /\ Order.permitted = Permitted(limits.policy, request.host, Port)
         /\ MayStore => Order.storable
<1>1. request.body \in Nat /\ limits.maxBodyBytes \in Nat
  BY Values, LimitType DEF TypeOK, limits
<1>2. Permitted(limits.policy, request.host, Port) \in BOOLEAN
  BY DEF Permitted
<1> QED
  BY <1>1, <1>2 DEF Order, Forward!Orders, MayStore

(* The steps of one order.                                                 *)
LEMMA ForwardStep ==
  ASSUME IInv, PlaceInv, [Next]_vars, stage # "idle"
  PROVE  [Forward!ForwardNext]_(Forward!forwardVars)
<1> USE DEF Enter, Answer, Fail, Handle, Quiet, Deciding, Relay, Others, body, storing,
         reply, vars, IInv, TypeOK, HandlerInv, PlaceInv, Early, Waiting, Late,
         Forward!forwardVars, Forward!ForwardNext, Forward!Pending, Forward!Conclude, Forward!Settle,
         Forward!Halt
<1>1. request' = request /\ request # None /\ Order' = Order
  BY OrderStays DEF Order, Port, limits
<1>2. Errors = EarlyErrors \cup {"Timeout", "Io", "Sqlite", "Http"} /\ Refusals = EarlyErrors
  BY ErrorNames, RefusalNames DEF EarlyErrors
<1>3. CASE EnforceRequestLimits
  BY <1>1, <1>2, <1>3 DEF EnforceRequestLimits, EarlyErrors, Forward!Refuse
<1>4. CASE Route
  <2>1. ASSUME Check(limits.policy, request.host, Port)
        PROVE  Order.permitted
    BY <1>1, <2>1, CheckedIsPermitted, OrderType
  <2> QED
    BY <1>1, <1>2, <1>4, <2>1 DEF Route, EarlyErrors, Forward!Refuse, Forward!TurnTo
<1>5. CASE Lookup
  <2>1. Order.permitted /\ Order.storable
    BY <1>1, <1>5, CheckedIsPermitted, OrderType DEF Lookup, PolicyInv
  <2> QED
    BY <1>1, <1>2, <1>5, <2>1 DEF Lookup, EarlyErrors, Forward!Fault, Forward!Reuse
<1>6. CASE Prepare
  <2>1. Order.permitted
    BY <1>1, <1>6, CheckedIsPermitted, OrderType DEF Prepare, PolicyInv
  <2> QED
    BY <1>1, <1>2, <1>6, <2>1 DEF Prepare, EarlyErrors, Forward!Refuse, Forward!TurnTo
<1>7. CASE Connected
  BY <1>1, <1>7 DEF Connected, Forward!Join, Forward!Open
<1>8. CASE ConnectFails \/ ConnectTimesOut \/ ExchangeFails
  BY <1>1, <1>2, <1>8
  DEF ConnectFails, ConnectTimesOut, ExchangeFails, EarlyErrors, Forward!Fault
<1>9. CASE Upload
  <2>1. PICK size \in 1..(request.body - seen) : PollFrame(size)
    BY <1>9 DEF Upload
  <2>2. CASE seen + size > limits.maxBodyBytes
    BY <1>1, <1>2, <1>9, <2>1, <2>2
    DEF Upload, PollFrame, BreakUpload, EarlyErrors, Forward!Fault, Forward!Complete
  <2>3. CASE ~(seen + size > limits.maxBodyBytes)
    <3>1. /\ sent' = seen + size /\ sent = seen /\ seen \in Nat
          /\ upload = "open" /\ UNCHANGED <<upload, stage, reply, contacted, storing>>
      BY <1>9, <2>1, <2>3 DEF Upload, PollFrame, BodyInv
    <3>2. Order.size = request.body /\ Order.most = limits.maxBodyBytes
          /\ request.body \in Nat /\ limits.maxBodyBytes \in Nat
      BY <1>1, OrderType, Values, LimitType DEF limits
    <3>3. sent' \in sent..Order.size /\ sent' <= Order.most
      BY <2>1, <2>3, <3>1, <3>2
    <3> QED
      BY <1>1, <3>1, <3>3 DEF Forward!Give
  <2> QED
    BY <2>2, <2>3
<1>10. CASE UploadEnds \/ UploadFails
  <2>1. CASE UploadEnds
    BY <1>1, <2>1, OrderType DEF UploadEnds, BodyInv, Forward!Complete
  <2>2. CASE UploadFails
    BY <1>1, <1>2, <2>2
    DEF UploadFails, BreakUpload, EarlyErrors, Forward!Fault, Forward!Complete
  <2> QED
    BY <1>10, <2>1, <2>2
<1>11. CASE (\E r \in Responses : Respond(r)) \/ ReadExpiry \/ Decide
  BY <1>1, <1>11 DEF Respond, ReadExpiry, Decide, Forward!Relay
<1>12. CASE Store
  BY <1>1, <1>12, OrderType DEF Store, Forward!Relay
<1>13. CASE RelayFrame
  <2>1. ~Bodyless
    BY <1>13 DEF RelayFrame, ReplySize
  <2> QED
    BY <1>1, <1>13, <2>1 DEF RelayFrame, Forward!Show
<1>14. CASE ReplyEnds \/ ReplySuffices \/ ReplyFails \/ ClientLeaves
  BY <1>1, <1>14 DEF ReplyEnds, ReplySuffices, ReplyFails, ClientLeaves, Drop, Forward!Close
<1>15. ASSUME NEW p \in Processes, Start(p) \/ Leave(p)
       PROVE  [Forward!ForwardNext]_(Forward!forwardVars)
  BY <1>1, <1>15 DEF Start, Leave, Drop, Forward!Close
<1>16. CASE Tick \/ Over \/ UNCHANGED vars
  BY <1>1, <1>16 DEF Tick, Over
<1> QED
  BY <1>3, <1>4, <1>5, <1>6, <1>7, <1>8, <1>9, <1>10, <1>11, <1>12, <1>13, <1>14, <1>15,
     <1>16 DEF Next, Proceed, Receive

(* Before there is one, only processes start and stop.                     *)
LEMMA ForwardTake ==
  ASSUME IInv, [Next]_vars, stage = "idle"
  PROVE  [Forward!ForwardNext]_(Forward!forwardVars)
<1> USE DEF IInv, TypeOK, HandlerInv, Early, vars, Forward!forwardVars, Forward!ForwardNext
<1>1. ASSUME NEW p \in Processes, NEW r \in Requests, Receive(p, r)
      PROVE  [Forward!ForwardNext]_(Forward!forwardVars)
  <2>1. request' = r /\ limits' = config[p]
    BY <1>1 DEF Receive, limits, startupVars
  <2>2. r # None /\ r.body \in Nat /\ config[p].maxBodyBytes \in Nat
    BY Values, LimitType
  <2>3. Order' \in Forward!Orders
    BY <2>1, <2>2 DEF Order, Permitted, Forward!Orders
  <2> QED
    BY <1>1, <2>1, <2>2, <2>3
    DEF Receive, Enter, body, storing, reply, Forward!Take
<1>2. ASSUME NEW p \in Processes, Start(p) \/ Leave(p)
      PROVE  UNCHANGED Forward!forwardVars
  BY <1>2 DEF Start, Leave, Drop, Others, target, body, storing, reply
<1>3. CASE Over \/ UNCHANGED vars
  BY <1>3 DEF Over, target, body, storing, reply
<1>4. ~\/ Proceed \/ Connected \/ ConnectFails \/ ExchangeFails
       \/ Upload \/ UploadEnds \/ UploadFails
       \/ (\E r \in Responses : Respond(r))
       \/ RelayFrame \/ ReplyEnds \/ ReplySuffices \/ ReplyFails \/ ClientLeaves \/ Tick
  BY DEF Proceed, EnforceRequestLimits, Route, Lookup, Prepare, ConnectTimesOut,
         ReadExpiry, Decide, Store, Connected, ConnectFails, ExchangeFails, Upload,
         UploadEnds, UploadFails, Respond, RelayFrame, ReplyEnds, ReplySuffices, ReplyFails,
         ClientLeaves, Drop, Tick
<1> QED
  BY <1>1, <1>2, <1>3, <1>4 DEF Next

(* A request is answered once and for good, a refusal comes before any     *)
(* effect, nothing is begun after an answer, only plain GET and HEAD       *)
(* requests are replayed or stored, and the upstream's view of the body is *)
(* whole or visibly cut (mod.rs:29-192, 232-250, server.rs:127-217).       *)
THEOREM ExchangeForwards == Spec => ForwardsAsPromised
<1>1. Init => Forward!ForwardInit
  BY DEF Init, Forward!ForwardInit
<1>2. IInv /\ PlaceInv /\ [Next]_vars => [Forward!ForwardNext]_(Forward!forwardVars)
  BY ForwardStep, ForwardTake
<1> QED
  BY <1>1, <1>2, Invariance, PlaceInvariance, PTL
  DEF Spec, ForwardsAsPromised, Forward!ForwardSpec
=============================================================================
