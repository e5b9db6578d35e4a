------------------------ MODULE CachePipelineProofs ------------------------
(* Theorems about CachePipeline, for every value of its constants.         *)
EXTENDS CachePipeline, SqliteCacheProofs

(***************************************************************************)
(* The pipeline calls the cache only as SqliteCache describes, so what is  *)
(* proved of the cache holds of it.  A writer's created_at and expires_at  *)
(* must still be what they were when its download began.                   *)
(***************************************************************************)
FreshInv ==
  \A r \in Requests : stage[r] = "stream" =>
    /\ fresh[r].created \in 0..clock
    /\ \E life \in Lifetimes : fresh[r].expires = fresh[r].created + life

PipelineInv == TypeOK /\ FiniteTable /\ FreshInv

LEMMA StepIsCacheStep ==
  ASSUME TypeOK, FreshInv, [Next]_vars
  PROVE  [CacheNext]_cacheVars
<1>1. ASSUME NEW r \in Requests, NEW k \in Keys, Receive(r, k)
      PROVE  CacheNext
  BY <1>1 DEF Receive, CacheNext, Call, Requests
<1>2. ASSUME NEW r \in Requests, Proceed(r)
      PROVE  CacheNext
  BY <1>2 DEF Proceed, CallStep, ReplayHead, ReplayBody, GoUpstream, LookupError,
              StoreEnds, CacheNext, Requests
<1>3. ASSUME NEW r \in Requests, Disconnect(r)
      PROVE  CacheNext
  BY <1>3 DEF Disconnect, CacheNext, Requests
<1>4. ASSUME NEW r \in Requests,
             \/ ReplayEnds(r) \/ NotCacheable(r) \/ WriteInProgress(r)
             \/ StartWriter(r) \/ Discard(r)
      PROVE  UNCHANGED cacheVars
  BY <1>4 DEF ReplayEnds, NotCacheable, WriteInProgress, StartWriter, Discard
<1>5. ASSUME NEW r \in Requests, StoreHead(r)
      PROVE  CacheNext
  BY <1>5 DEF StoreHead, CacheNext, Call, Requests
<1>6. ASSUME NEW r \in Requests, Commit(r)
      PROVE  CacheNext
  <2>1. url[r] \in GetKeys /\ stage[r] = "stream"
    BY <1>6 DEF Commit, TypeOK
  <2>2. PICK life \in Lifetimes : fresh[r].expires = fresh[r].created + life
    BY <2>1 DEF FreshInv
  <2>3. CallStoreBody(r, url[r], fresh[r].created, fresh[r].created + life)
    BY <1>6, <2>2 DEF Commit
  <2> QED BY <2>1, <2>3 DEF FreshInv, CacheNext, Call, Requests
<1>7. CASE Time
  BY <1>7 DEF Time, CacheNext
<1>8. CASE Crash
  BY <1>8 DEF Crash, CacheNext
<1>9. CASE UNCHANGED vars
  BY <1>9 DEF vars
<1> QED BY <1>1, <1>2, <1>3, <1>4, <1>5, <1>6, <1>7, <1>8, <1>9 DEF Next

(* What one step of a call does to the call's label and key.               *)
LEMMA CallLabels ==
  ASSUME CacheTypeOK, NEW r \in Requests, CacheStep(r)
  PROVE  /\ key' = key
         /\ \A s \in Requests : s # r => pc'[s] = pc[s] /\ entry'[s] = entry[s]
         /\ pc[r] # "idle" /\ pc'[r] # "idle"
         /\ pc[r] \in LookupLabels <=> pc'[r] \in LookupLabels
         /\ pc'[r] \in {"exists", "touch", "hit"} =>
              \/ pc[r] \in {"exists", "touch"} /\ entry'[r] = entry[r]
              \/ pc[r] = "select" /\ entry'[r] = rows[key[r]] /\ entry'[r] # None
                   /\ UNCHANGED <<rows, files, bodies>>
<1> USE DEF CacheTypeOK, Goto, LookupLabels, Requests, disk
<1>1. CASE SelectRow(r)
  BY <1>1 DEF SelectRow, AfterSelect
<1>2. CASE GetStep(r) /\ ~SelectRow(r)
  BY <1>2 DEF GetStep, BodyExists, Touch, DeletePath, DeleteRow, UnlinkBody, GetFails
<1>3. CASE StoreStep(r)
  BY <1>3 DEF StoreStep, UpsertRow, CountRows, PickVictims, EvictRow, EvictBody,
              Evicted, StoreFails, WithdrawBody
<1> QED BY <1>1, <1>2, <1>3 DEF CacheStep

LEMMA TypePipelineStep ==
  ASSUME TypeOK, FiniteTable, FreshInv, [Next]_vars
  PROVE  TypeOK'
<1>1. CacheTypeOK'
  BY StepIsCacheStep, TypeStep DEF TypeOK
<1> USE <1>1 DEF TypeOK, Enter, Finish, Goto, Clear, Stages, LookupLabels, Requests
<1>2. ASSUME NEW r \in Requests, NEW k \in Keys, Receive(r, k)
      PROVE  TypeOK'
  BY <1>2 DEF Receive, CallGet, CacheTypeOK
<1>3. ASSUME NEW r \in Requests, CallStep(r)
      PROVE  TypeOK'
  BY <1>3, CallLabels DEF CallStep
<1>4. ASSUME NEW r \in Requests,
             ReplayHead(r) \/ GoUpstream(r) \/ LookupError(r) \/ StoreEnds(r)
      PROVE  TypeOK'
  <2>1. CASE ReplayHead(r)
    BY <2>1 DEF ReplayHead, Return, CacheTypeOK
  <2>4. CASE LookupError(r)
    BY <2>4 DEF LookupError, Return, CacheTypeOK
  <2>2. CASE GoUpstream(r)
    BY <2>2 DEF GoUpstream, Return, CacheTypeOK
  <2>3. CASE StoreEnds(r)
    BY <2>3 DEF StoreEnds, Return, ReleasePermit, CacheTypeOK
  <2> QED BY <1>4, <2>1, <2>2, <2>3, <2>4
<1>5. ASSUME NEW r \in Requests, ReplayBody(r)
      PROVE  TypeOK'
  <2>1. [row |-> entry[r], body |-> files[url[r]]] \in [row : Row, body : Nat]
    BY <1>5 DEF ReplayBody, CacheTypeOK
  <2> QED BY <1>5, <2>1 DEF ReplayBody, Return, CacheTypeOK
<1>6. ASSUME NEW r \in Requests, Disconnect(r)
      PROVE  TypeOK'
  BY <1>6 DEF Disconnect, GetDropped, CacheTypeOK
<1>7. ASSUME NEW r \in Requests,
             ReplayEnds(r) \/ NotCacheable(r) \/ WriteInProgress(r) \/ Discard(r)
      PROVE  TypeOK'
  BY <1>7 DEF ReplayEnds, NotCacheable, WriteInProgress, Discard, ReleasePermit,
              cacheVars, call
<1>8. ASSUME NEW r \in Requests, StartWriter(r)
      PROVE  TypeOK'
  <2>1. PICK life \in Lifetimes :
          fresh' = [fresh EXCEPT ![r] = [created |-> clock, expires |-> clock + life]]
    BY <1>8 DEF StartWriter
  <2>2. [created |-> clock, expires |-> clock + life] \in Response
    BY ConfigAssumption DEF CacheTypeOK, Response
  <2>3. [created |-> clock, expires |-> clock + life] # None
    BY <2>2, NoResponseAssumption
  <2> QED BY <1>8, <2>1, <2>2, <2>3 DEF StartWriter, AcquirePermit, cacheVars, call
<1>9. ASSUME NEW r \in Requests, StoreHead(r)
      PROVE  TypeOK'
  BY <1>9 DEF StoreHead, CallStoreHead, CacheTypeOK
<1>10. ASSUME NEW r \in Requests, Commit(r)
      PROVE  TypeOK'
  BY <1>10 DEF Commit, CallStoreBody, CacheTypeOK
<1>11. CASE Time
  BY <1>11 DEF Time, Tick, call
<1>12. CASE Crash
  BY <1>12 DEF Crash, Restart
<1>13. CASE UNCHANGED vars
  BY <1>13 DEF vars, cacheVars, call
<1> QED
  BY <1>2, <1>3, <1>4, <1>5, <1>6, <1>7, <1>8, <1>9, <1>10, <1>11, <1>12, <1>13
  DEF Next, Proceed

LEMMA FreshStep ==
  ASSUME TypeOK, FreshInv, [Next]_vars
  PROVE  FreshInv'
<1> USE DEF TypeOK, FreshInv, Enter, Finish, Requests
<1>1. clock \in Nat /\ (clock' = clock \/ clock' = clock + 1)
  BY StepIsCacheStep
  DEF CacheTypeOK, CacheNext, Call, CallGet, CallStoreBody, CallStoreHead, CacheStep,
      GetStep, SelectRow, BodyExists, Touch, DeletePath, DeleteRow, UnlinkBody, GetFails,
      StoreStep, UpsertRow, CountRows, PickVictims, EvictRow, EvictBody, Evicted,
      StoreFails, WithdrawBody, GetDropped, Return, Tick, Restart, cacheVars, world
<1>2. ASSUME NEW r \in Requests, StartWriter(r)
      PROVE  FreshInv'
  <2>1. PICK life \in Lifetimes :
          fresh' = [fresh EXCEPT ![r] = [created |-> clock, expires |-> clock + life]]
    BY <1>2 DEF StartWriter
  <2> QED BY <1>1, <1>2, <2>1 DEF StartWriter, cacheVars, world
<1>3. ASSUME \A r \in Requests : ~StartWriter(r)
      PROVE  \A s \in Requests : stage'[s] = "stream" => stage[s] = "stream" /\ fresh'[s] = fresh[s]
  <2>1. ASSUME NEW r \in Requests,
               \/ ReplayHead(r) \/ GoUpstream(r) \/ LookupError(r) \/ StoreEnds(r)
               \/ CallStep(r) \/ ReplayBody(r) \/ Disconnect(r) \/ ReplayEnds(r)
               \/ NotCacheable(r) \/ WriteInProgress(r) \/ Discard(r)
        PROVE  \A s \in Requests : stage'[s] = "stream" => stage[s] = "stream" /\ fresh'[s] = fresh[s]
    BY <2>1 DEF ReplayHead, GoUpstream, LookupError, StoreEnds, CallStep, ReplayBody,
                Disconnect, ReplayEnds, NotCacheable, WriteInProgress, Discard
  <2>2. ASSUME NEW r \in Requests,
               StoreHead(r) \/ Commit(r) \/ (\E k \in Keys : Receive(r, k))
        PROVE  \A s \in Requests : stage'[s] = "stream" => stage[s] = "stream" /\ fresh'[s] = fresh[s]
    BY <2>2 DEF StoreHead, Commit, Receive
  <2>3. CASE Time \/ Crash \/ UNCHANGED vars
    BY <2>3 DEF Time, Crash, vars
  <2> QED BY <1>3, <2>1, <2>2, <2>3 DEF Next, Proceed
<1>4. ASSUME \A r \in Requests : ~StartWriter(r)
      PROVE  FreshInv'
  <2> SUFFICES ASSUME NEW s \in Requests, stage'[s] = "stream"
               PROVE  /\ fresh'[s].created \in 0..clock'
                      /\ \E life \in Lifetimes : fresh'[s].expires = fresh'[s].created + life
    OBVIOUS
  <2>1. stage[s] = "stream" /\ fresh'[s] = fresh[s]
    BY <1>3, <1>4
  <2>2. fresh[s].created \in 0..clock
    BY <2>1
  <2> QED BY <1>1, <2>1, <2>2
<1> QED BY <1>2, <1>4

LEMMA PipelineInvInit == Init => PipelineInv
<1> SUFFICES ASSUME Init PROVE PipelineInv
  OBVIOUS
<1>1. CacheTypeOK /\ FiniteTable
  BY TypeInit DEF Init
<1>2. TypeOK
  BY <1>1 DEF Init, CacheInit, TypeOK, Stages, LookupLabels, Requests
<1> QED BY <1>1, <1>2 DEF PipelineInv, FreshInv, Init, Requests

LEMMA PipelineInvStep == PipelineInv /\ [Next]_vars => PipelineInv'
<1> SUFFICES ASSUME PipelineInv, [Next]_vars PROVE PipelineInv'
  OBVIOUS
<1>1. TypeOK /\ FreshInv /\ FiniteTable /\ CacheTypeOK
  BY DEF PipelineInv, TypeOK
<1> QED
  BY <1>1, TypePipelineStep, FreshStep, FiniteTableStep, StepIsCacheStep DEF PipelineInv

LEMMA PipelineInvariant == Spec => []PipelineInv
BY PipelineInvInit, PipelineInvStep, PTL DEF Spec

(* Every variable of the pipeline has its type, and each stage of a        *)
(* request is in the call of the cache that handle_http and the cache      *)
(* writer make there (mod.rs:40-178, cache_pipeline.rs:98-220).            *)
THEOREM TypeCorrect == Spec => []TypeOK
<1>1. PipelineInv => TypeOK
  BY DEF PipelineInv
<1> QED BY <1>1, PipelineInvariant, PTL

(* The request pipeline uses the cache only as SqliteCache says: every     *)
(* step is a step of the cache, or leaves it alone.                        *)
THEOREM PipelineImplementsCache == Spec => CacheSpec
<1>1. Init => CacheInit
  BY DEF Init
<1>2. PipelineInv /\ [Next]_vars => [CacheNext]_cacheVars
  BY StepIsCacheStep DEF PipelineInv
<1> QED BY <1>1, <1>2, PipelineInvariant, PTL DEF Spec, CacheSpec

(* So the entry limit of the cache holds of the whole pipeline.            *)
THEOREM PipelineKeepsLimit == Spec => []EntryLimit
BY PipelineImplementsCache, EntryLimitHolds, PTL

(* And a store that ends alone brings the table back to it.                *)
THEOREM PipelineRestoresLimit == Spec => StoreRestoresLimit
BY PipelineImplementsCache, StoresRestoreLimit, PTL

(***************************************************************************)
(* The write permits.                                                      *)
(***************************************************************************)

(* A step that neither begins nor ends a writer keeps the writers.         *)
LEMMA PermitStep ==
  ASSUME TypeOK, PermitDiscipline, [Next]_vars
  PROVE  PermitDiscipline'
<1> USE DEF TypeOK, PermitDiscipline, Writers, Enter, Finish, Requests
<1>1. ASSUME NEW r \in Requests, NEW k \in Keys, Receive(r, k)
      PROVE  PermitDiscipline'
  <2>1. Writers' = Writers /\ \A s \in Writers : url'[s] = url[s]
    BY <1>1 DEF Receive
  <2> QED BY <1>1, <2>1 DEF Receive
<1>2. ASSUME NEW r \in Requests,
             \/ ReplayHead(r) \/ GoUpstream(r) \/ LookupError(r) \/ ReplayBody(r)
             \/ Disconnect(r) \/ ReplayEnds(r) \/ NotCacheable(r)
             \/ WriteInProgress(r) \/ CallStep(r)
      PROVE  PermitDiscipline'
  <2>1. /\ Writers' = Writers /\ locks' = locks
        /\ \A s \in Writers : url'[s] = url[s]
    BY <1>2 DEF ReplayHead, GoUpstream, LookupError, ReplayBody, Disconnect,
                ReplayEnds, NotCacheable, WriteInProgress, CallStep
  <2> QED BY <2>1
<1>3. ASSUME NEW r \in Requests, StoreHead(r)
      PROVE  PermitDiscipline'
  <2>1. Writers' = Writers /\ url' = url /\ locks' = locks
    BY <1>3, KeysAssumption DEF StoreHead
  <2> QED BY <2>1
<1>4. ASSUME NEW r \in Requests, StartWriter(r)
      PROVE  PermitDiscipline'
  <2>1. /\ Writers' = Writers \cup {r} /\ url' = url /\ r \notin Writers
        /\ locks' = locks \cup {url[r]} /\ url[r] \notin locks
    BY <1>4 DEF StartWriter, AcquirePermit
  <2> QED BY <2>1
<1>5. ASSUME NEW r \in Requests, Commit(r)
      PROVE  PermitDiscipline'
  <2>1. Writers' = Writers /\ url' = url /\ locks' = locks
    BY <1>5 DEF Commit
  <2> QED BY <2>1
<1>6. ASSUME NEW r \in Requests, Discard(r) \/ StoreEnds(r)
      PROVE  PermitDiscipline'
  <2>1. /\ Writers' = Writers \ {r} /\ locks' = locks \ {url[r]}
        /\ \A s \in Writers' : url'[s] = url[s]
    BY <1>6 DEF Discard, StoreEnds, ReleasePermit
  <2>2. CASE r \in Writers
    BY <2>1, <2>2
  <2>3. CASE r \notin Writers
    <3>1. url[r] \notin locks
      BY <1>6, <2>3, KeysAssumption DEF Discard, StoreEnds, Keys
    <3> QED BY <2>1, <2>3, <3>1
  <2> QED BY <2>2, <2>3
<1>7. CASE Crash
  BY <1>7 DEF Crash
<1>8. CASE Time \/ UNCHANGED vars
  BY <1>8 DEF Time, vars
<1> QED
  BY <1>1, <1>2, <1>3, <1>4, <1>5, <1>6, <1>7, <1>8 DEF Next, Proceed

(* A key has at most one cache writer, and its permit is out exactly while *)
(* that writer lives (cache_pipeline.rs:324-350, mod.rs:139-172).          *)
THEOREM PermitsAreDisciplined == Spec => []PermitDiscipline
<1>1. Init => PermitDiscipline
  BY DEF Init, PermitDiscipline, Writers, Requests
<1>2. TypeOK /\ PermitDiscipline /\ [Next]_vars => PermitDiscipline'
  BY PermitStep
<1> QED BY <1>1, <1>2, TypeCorrect, PTL DEF Spec

(***************************************************************************)
(* Rows and bodies of one response.                                        *)
(***************************************************************************)

(* While a writer has its row still to add, the file under the key is its  *)
(* own, if it is there at all: only the permit's holder renames.           *)
PendingIsOwn ==
  \A r \in Requests :
    stage[r] = "store" /\ pc[r] = "upsert" /\ url[r] \in GetKeys
    /\ files[url[r]] # NoBody
      => entry[r].body = files[url[r]]

(* Unless the process crashes, a pair is mixed after a step only if its    *)
(* key's writer is in its window then, or if it was mixed before and no    *)
(* writer was in its window.                                               *)
StaysPaired ==
  \A k \in GetKeys : Mixed(k)' =>
    \/ \E s \in Requests : InWindow(s, k)'
    \/ Mixed(k) /\ \A s \in Requests : ~InWindow(s, k)

LEMMA WindowCallStep ==
  ASSUME TypeOK, PermitDiscipline, PendingIsOwn, NEW r \in Requests, CallStep(r)
  PROVE  PendingIsOwn' /\ StaysPaired
<1> USE DEF TypeOK, CacheTypeOK, PendingIsOwn, StaysPaired, Mixed, InWindow,
            CallStep, Goto, NoBody, Requests, disk, world
<1>1. CASE Touch(r)
  BY <1>1 DEF Touch, Row
<1>2. CASE GetStep(r) /\ ~Touch(r)
  <2>1. /\ pc[r] \in LookupLabels /\ pc'[r] \in LookupLabels
        /\ \A s \in Requests : s # r => pc'[s] = pc[s] /\ entry'[s] = entry[s]
    <3>1. pc[r] \in LookupLabels
      BY <1>2 DEF GetStep, SelectRow, BodyExists, DeletePath, DeleteRow, UnlinkBody,
                  GetFails, LookupLabels
    <3> QED BY <3>1, CallLabels
  <2>2. /\ \A k \in Keys : rows'[k] = rows[k] \/ rows'[k] = None
        /\ \A k \in GetKeys : files'[k] = files[k] \/ files'[k] = NoBody
    BY <1>2 DEF GetStep, SelectRow, BodyExists, DeletePath, DeleteRow, UnlinkBody, Unlink, GetFails
  <2>3. \A s \in Requests, k \in GetKeys : InWindow(s, k) => InWindow(s, k)'
    BY <2>1 DEF LookupLabels
  <2>4. PendingIsOwn'
    BY <2>1, <2>2 DEF LookupLabels
  <2>5. StaysPaired
    BY <2>2, <2>3 DEF Keys
  <2> QED BY <2>4, <2>5
<1>3. CASE UpsertRow(r)
  <2>1. stage[r] = "store" /\ key[r] = url[r]
    BY <1>3 DEF UpsertRow, LookupLabels, Stages
  <2>2. ASSUME NEW k \in GetKeys, k # url[r], NEW s \in Requests, InWindow(s, k)
        PROVE  InWindow(s, k)'
    BY <1>3, <2>2 DEF UpsertRow
  <2>3. PendingIsOwn'
    BY <1>3 DEF UpsertRow
  <2>4. StaysPaired
    BY <1>3, <2>1, <2>2 DEF UpsertRow
  <2> QED BY <2>3, <2>4
<1>4. CASE StoreFails(r)
  BY <1>4, KeysAssumption DEF StoreFails, LookupLabels
<1>5. CASE WithdrawBody(r)
  BY <1>5 DEF WithdrawBody, LookupLabels
<1>6. CASE EvictRow(r)
  BY <1>6 DEF EvictRow
<1>7. CASE StoreStep(r) /\ ~UpsertRow(r) /\ ~StoreFails(r) /\ ~WithdrawBody(r) /\ ~EvictRow(r)
  BY <1>7 DEF StoreStep, CountRows, PickVictims, EvictBody, Unlink, Evicted
<1> QED BY <1>1, <1>2, <1>3, <1>4, <1>5, <1>6, <1>7 DEF CacheStep

LEMMA WindowStep ==
  ASSUME TypeOK, PermitDiscipline, PendingIsOwn, [Next]_vars
  PROVE  PendingIsOwn' /\ (Crash \/ StaysPaired)
<1> USE DEF TypeOK, CacheTypeOK, PendingIsOwn, StaysPaired, Mixed, InWindow,
            Enter, Finish, Goto, Clear, NoBody, Requests, disk, world
<1>1. ASSUME NEW r \in Requests, NEW k \in Keys, Receive(r, k)
      PROVE  PendingIsOwn' /\ StaysPaired
  BY <1>1 DEF Receive, CallGet
<1>2. ASSUME NEW r \in Requests,
             ReplayHead(r) \/ GoUpstream(r) \/ LookupError(r) \/ ReplayBody(r)
      PROVE  PendingIsOwn' /\ StaysPaired
  BY <1>2 DEF ReplayHead, GoUpstream, LookupError, ReplayBody, Return
<1>3. ASSUME NEW r \in Requests, Disconnect(r)
      PROVE  PendingIsOwn' /\ StaysPaired
  BY <1>3 DEF Disconnect, GetDropped
<1>4. ASSUME NEW r \in Requests,
             \/ ReplayEnds(r) \/ NotCacheable(r) \/ WriteInProgress(r)
             \/ StartWriter(r) \/ Discard(r)
      PROVE  PendingIsOwn' /\ StaysPaired
  BY <1>4 DEF ReplayEnds, NotCacheable, WriteInProgress, StartWriter, Discard,
              cacheVars, call
<1>5. ASSUME NEW r \in Requests, StoreHead(r)
      PROVE  PendingIsOwn' /\ StaysPaired
  BY <1>5, KeysAssumption DEF StoreHead, CallStoreHead
<1>6. ASSUME NEW r \in Requests, Commit(r)
      PROVE  PendingIsOwn' /\ StaysPaired
  <2>1. /\ files' = [files EXCEPT ![url[r]] = bodies + 1]
        /\ rows' = rows /\ url' = url
        /\ url[r] \in GetKeys
        /\ stage'[r] = "store" /\ pc'[r] = "upsert"
        /\ entry'[r].body = bodies + 1
        /\ \A s \in Requests : s # r =>
             stage'[s] = stage[s] /\ pc'[s] = pc[s] /\ entry'[s] = entry[s]
    BY <1>6 DEF Commit, CallStoreBody
  <2>2. \A s \in Requests : s # r /\ stage[s] = "store" /\ url[s] \in GetKeys => url[s] # url[r]
    BY <1>6, <2>1 DEF Commit, PermitDiscipline, Writers
  <2>3. PendingIsOwn'
    BY <2>1, <2>2
  <2>4. stage[r] = "stream"
    BY <1>6 DEF Commit
  <2>5. StaysPaired
    BY <2>1, <2>4
  <2> QED BY <2>3, <2>5
<1>7. CASE Time
  BY <1>7 DEF Time, Tick, call
<1>8. CASE Crash
  BY <1>8 DEF Crash
<1>9. CASE UNCHANGED vars
  BY <1>9 DEF vars, cacheVars, call
<1>10. ASSUME NEW r \in Requests, StoreEnds(r)
      PROVE  PendingIsOwn' /\ StaysPaired
  BY <1>10 DEF StoreEnds, Return
<1> QED
  BY <1>1, <1>2, <1>3, <1>4, <1>5, <1>6, <1>7, <1>8, <1>9, <1>10, WindowCallStep
  DEF Next, Proceed

LEMMA PendingInvariant == Spec => []PendingIsOwn
<1>1. Init => PendingIsOwn
  BY DEF Init, PendingIsOwn, Requests
<1>2. TypeOK /\ PermitDiscipline /\ PendingIsOwn /\ [Next]_vars => PendingIsOwn'
  BY WindowStep
<1> QED BY <1>1, <1>2, TypeCorrect, PermitsAreDisciplined, PTL DEF Spec

(* Only a crash adds to the restarts.                                      *)
LEMMA RestartsStep ==
  ASSUME TypeOK, [Next]_vars
  PROVE  restarts' = IF Crash THEN restarts + 1 ELSE restarts
<1> USE DEF world
<1>1. CASE Crash
  BY <1>1 DEF Crash, Restart
<1>2. ASSUME NEW r \in Requests, CallStep(r)
      PROVE  restarts' = restarts
  BY <1>2 DEF CallStep, CacheStep, GetStep, SelectRow, BodyExists, Touch, DeletePath,
      DeleteRow, UnlinkBody, GetFails, StoreStep, UpsertRow, CountRows, PickVictims,
      EvictRow, EvictBody, Evicted, StoreFails, WithdrawBody
<1>3. ASSUME NEW r \in Requests,
             \/ \E k \in Keys : Receive(r, k)
             \/ ReplayHead(r) \/ ReplayBody(r) \/ GoUpstream(r) \/ LookupError(r)
             \/ StoreEnds(r) \/ Disconnect(r) \/ StoreHead(r) \/ Commit(r)
      PROVE  restarts' = restarts
  BY <1>3 DEF Receive, CallGet, ReplayHead, ReplayBody, GoUpstream, LookupError,
      StoreEnds, Return, Disconnect, GetDropped, StoreHead, CallStoreHead, Commit,
      CallStoreBody
<1>4. ASSUME NEW r \in Requests,
             \/ ReplayEnds(r) \/ NotCacheable(r) \/ WriteInProgress(r)
             \/ StartWriter(r) \/ Discard(r)
      PROVE  restarts' = restarts
  BY <1>4 DEF ReplayEnds, NotCacheable, WriteInProgress, StartWriter, Discard, cacheVars
<1>5. ASSUME Time \/ UNCHANGED vars
      PROVE  restarts' = restarts
  BY <1>5 DEF Time, Tick, vars, cacheVars
<1>6. ASSUME Crash, restarts' = restarts
      PROVE  FALSE
  BY <1>6 DEF Crash, Restart, TypeOK, CacheTypeOK
<1> QED BY <1>1, <1>2, <1>3, <1>4, <1>5, <1>6 DEF Next, Proceed

LEMMA BodyInvariant == Spec => []BodyInv
<1>1. CacheInit => BodyInv
  BY DEF CacheInit, BodyInv, Numbered, PendingNotNewer, RowNotNewerThanBody, NoBody, Keys
<1>2. CacheTypeOK /\ BodyInv /\ [CacheNext]_cacheVars => BodyInv'
  BY BodyInvStep
<1> QED
  BY <1>1, <1>2, CacheTypeCorrect, PipelineImplementsCache, PTL DEF CacheSpec

(* Until the first crash, a row and its file are of one response except    *)
(* between the rename and the INSERT of the writer that holds the key's    *)
(* permit (cache_pipeline.rs:195-217).                                     *)
THEOREM CommitWindowHolds == Spec => []CommitWindow
<1>1. Init => CommitWindow
  BY DEF Init, CacheInit, CommitWindow, Mixed, Requests, Keys
<1>2. TypeOK /\ PermitDiscipline /\ PendingIsOwn /\ CommitWindow /\ [Next]_vars
        => CommitWindow'
  <2> SUFFICES ASSUME TypeOK, PermitDiscipline, PendingIsOwn, CommitWindow, [Next]_vars,
                      restarts' = 0
               PROVE  \A k \in GetKeys : Mixed(k)' => \E r \in Requests : InWindow(r, k)'
    BY DEF CommitWindow
  <2>1. ~Crash /\ restarts = 0
    BY RestartsStep DEF TypeOK, CacheTypeOK
  <2> QED BY <2>1, WindowStep DEF CommitWindow, StaysPaired
<1> QED
  BY <1>1, <1>2, TypeCorrect, PermitsAreDisciplined, PendingInvariant, PTL DEF Spec

(***************************************************************************)
(* What a hit replays.                                                     *)
(***************************************************************************)
Read(r) == stage[r] = "lookup" /\ pc[r] \in {"exists", "touch", "hit"}

(* The row a lookup has read stays no newer than what is under its key.    *)
ReadInv ==
  \A r \in Requests : Read(r) =>
    /\ entry[r].body <= bodies
    /\ url[r] \in GetKeys /\ files[url[r]] # NoBody => entry[r].body <= files[url[r]]

(* Files only ever go away or are replaced by later bodies.                *)
LEMMA FilesStep ==
  ASSUME CacheTypeOK, BodyInv, [CacheNext]_cacheVars
  PROVE  /\ bodies' \in {bodies, bodies + 1}
         /\ \A k \in GetKeys : files'[k] \in {files[k], NoBody, bodies + 1}
<1> USE DEF CacheTypeOK, disk
<1>1. ASSUME NEW t \in Tasks, Call(t) \/ GetDropped(t) \/ Return(t)
      PROVE  /\ bodies' \in {bodies, bodies + 1}
             /\ \A k \in GetKeys : files'[k] \in {files[k], NoBody, bodies + 1}
  BY <1>1 DEF Call, CallGet, CallStoreBody, CallStoreHead, GetDropped, Return
<1>2. ASSUME NEW t \in Tasks, CacheStep(t)
      PROVE  /\ bodies' \in {bodies, bodies + 1}
             /\ \A k \in GetKeys : files'[k] \in {files[k], NoBody, bodies + 1}
  BY <1>2 DEF CacheStep, GetStep, SelectRow, BodyExists, Touch, DeletePath, DeleteRow,
      UnlinkBody, Unlink, GetFails, StoreStep, UpsertRow, CountRows, PickVictims, EvictRow,
      EvictBody, Evicted, StoreFails, WithdrawBody
<1>3. ASSUME Tick \/ Restart \/ UNCHANGED cacheVars
      PROVE  /\ bodies' \in {bodies, bodies + 1}
             /\ \A k \in GetKeys : files'[k] \in {files[k], NoBody, bodies + 1}
  BY <1>3 DEF Tick, Restart, cacheVars
<1> QED BY <1>1, <1>2, <1>3 DEF CacheNext

LEMMA ReadStep ==
  ASSUME TypeOK, FreshInv, BodyInv, ReadInv, [Next]_vars
  PROVE  ReadInv'
<1> SUFFICES ASSUME NEW r \in Requests, Read(r)'
             PROVE  /\ entry'[r].body <= bodies'
                    /\ url'[r] \in GetKeys /\ files'[url'[r]] # NoBody
                         => entry'[r].body <= files'[url'[r]]
  BY DEF ReadInv
<1>1. CASE Read(r) /\ entry'[r] = entry[r] /\ url'[r] = url[r]
  <2>1. /\ entry[r].body \in Nat /\ bodies \in Nat
        /\ \A k \in GetKeys : files[k] \in Nat
    BY <1>1 DEF TypeOK, CacheTypeOK, Read, Row, Requests
  <2>2. /\ bodies' \in {bodies, bodies + 1}
        /\ \A k \in GetKeys : files'[k] \in {files[k], NoBody, bodies + 1}
    BY StepIsCacheStep, FilesStep DEF TypeOK
  <2> QED BY <1>1, <2>1, <2>2 DEF ReadInv
<1>2. CASE /\ entry'[r] = rows[url[r]] /\ entry'[r] # None /\ url'[r] = url[r]
           /\ url[r] \in Keys /\ UNCHANGED <<files, bodies>>
  BY <1>2 DEF BodyInv, Numbered, RowNotNewerThanBody
<1> USE DEF TypeOK, Enter, Finish, Read, Requests
<1>3. ASSUME NEW q \in Requests, CallStep(q)
      PROVE  \/ Read(r) /\ entry'[r] = entry[r] /\ url'[r] = url[r]
             \/ /\ entry'[r] = rows[url[r]] /\ entry'[r] # None /\ url'[r] = url[r]
                /\ url[r] \in Keys /\ UNCHANGED <<files, bodies>>
  BY <1>3, CallLabels DEF CallStep
<1>4. ASSUME NEW q \in Requests,
             \/ ReplayHead(q) \/ GoUpstream(q) \/ LookupError(q) \/ StoreEnds(q)
             \/ ReplayBody(q) \/ Disconnect(q)
      PROVE  Read(r) /\ entry'[r] = entry[r] /\ url'[r] = url[r]
  BY <1>4 DEF ReplayHead, GoUpstream, LookupError, StoreEnds, ReplayBody, Disconnect,
              Return, GetDropped, Clear, Goto, CacheTypeOK
<1>5. ASSUME NEW q \in Requests,
             \/ ReplayEnds(q) \/ NotCacheable(q) \/ WriteInProgress(q)
             \/ StartWriter(q) \/ Discard(q)
      PROVE  Read(r) /\ entry'[r] = entry[r] /\ url'[r] = url[r]
  BY <1>5 DEF ReplayEnds, NotCacheable, WriteInProgress, StartWriter, Discard,
              cacheVars, call
<1>6. ASSUME NEW q \in Requests,
             StoreHead(q) \/ Commit(q) \/ (\E k \in Keys : Receive(q, k))
      PROVE  Read(r) /\ entry'[r] = entry[r] /\ url'[r] = url[r]
  BY <1>6 DEF StoreHead, Commit, Receive, CallStoreHead, CallStoreBody, CallGet, Goto,
              CacheTypeOK
<1>7. ASSUME Time \/ Crash \/ UNCHANGED vars
      PROVE  Read(r) /\ entry'[r] = entry[r] /\ url'[r] = url[r]
  BY <1>7 DEF Time, Tick, Crash, vars, cacheVars, call
<1> QED BY <1>1, <1>2, <1>3, <1>4, <1>5, <1>6, <1>7 DEF Next, Proceed

LEMMA ReadInvariant == Spec => []ReadInv
<1>1. Init => ReadInv
  BY DEF Init, ReadInv, Read, Requests
<1>2. TypeOK /\ FreshInv /\ BodyInv /\ ReadInv /\ [Next]_vars => ReadInv'
  BY ReadStep
<1>3. PipelineInv => TypeOK /\ FreshInv
  BY DEF PipelineInv
<1> QED BY <1>1, <1>2, <1>3, PipelineInvariant, BodyInvariant, PTL DEF Spec

(* A hit is never replayed with a body older than the row its status and   *)
(* headers come from (cache_pipeline.rs:52-55).                            *)
THEOREM ReplaysAreNotOlder == Spec => []ReplayNotOlder
<1>1. Init => ReplayNotOlder
  BY DEF Init, ReplayNotOlder, Requests
<1>2. TypeOK /\ ReadInv /\ ReplayNotOlder /\ [Next]_vars => ReplayNotOlder'
  <2> SUFFICES ASSUME TypeOK, ReadInv, ReplayNotOlder, [Next]_vars
               PROVE  ReplayNotOlder'
    OBVIOUS
  <2> USE DEF TypeOK, ReplayNotOlder, Enter, Finish, Requests
  <2>1. ASSUME NEW r \in Requests, ReplayBody(r)
        PROVE  ReplayNotOlder'
    BY <2>1 DEF ReplayBody, ReadInv, Read
  <2>2. ASSUME NEW r \in Requests,
               \/ ReplayHead(r) \/ GoUpstream(r) \/ LookupError(r) \/ StoreEnds(r)
               \/ Disconnect(r) \/ ReplayEnds(r) \/ NotCacheable(r)
               \/ WriteInProgress(r) \/ Discard(r)
        PROVE  ReplayNotOlder'
    BY <2>2 DEF ReplayHead, GoUpstream, LookupError, StoreEnds, Disconnect, ReplayEnds,
                NotCacheable, WriteInProgress, Discard
  <2>3. ASSUME NEW r \in Requests,
               \/ CallStep(r) \/ StartWriter(r) \/ StoreHead(r) \/ Commit(r)
               \/ \E k \in Keys : Receive(r, k)
        PROVE  ReplayNotOlder'
    BY <2>3 DEF CallStep, StartWriter, StoreHead, Commit, Receive
  <2>4. CASE Time \/ Crash \/ UNCHANGED vars
    BY <2>4 DEF Time, Crash, vars
  <2> QED BY <2>1, <2>2, <2>3, <2>4 DEF Next, Proceed
<1> QED BY <1>1, <1>2, TypeCorrect, ReadInvariant, PTL DEF Spec
=============================================================================
