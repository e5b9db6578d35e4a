------------------------- MODULE SqliteCacheProofs -------------------------
(* Theorems about SqliteCache, for every value of its constants.           *)
EXTENDS SqliteCache, FiniteSetTheorems, TLAPS

(***************************************************************************)
(* The table.  Only the INSERT of a store adds a row, so that the table is *)
(* finite although the set of keys need not be.                            *)
(***************************************************************************)
FiniteTable == IsFiniteSet(Stored)

(* An INSERT adds the row of its own key; every other step of the cache    *)
(* adds none (cache.rs:126-283).                                           *)
LEMMA TableSteps ==
  ASSUME CacheTypeOK, [CacheNext]_cacheVars
  PROVE  \/ Stored' \subseteq Stored
         \/ \E t \in Tasks : UpsertRow(t) /\ Stored' \subseteq Stored \cup {key[t]}
<1> USE DEF Stored, disk
<1>1. ASSUME NEW t \in Tasks, Call(t) \/ GetDropped(t) \/ Return(t)
      PROVE  Stored' = Stored
  BY <1>1 DEF Call, CallGet, CallStoreBody, CallStoreHead, GetDropped, Return
<1>2. ASSUME NEW t \in Tasks, GetStep(t)
      PROVE  Stored' \subseteq Stored
  <2>1. CASE Touch(t)
    BY <2>1 DEF Touch, CacheTypeOK
  <2>2. CASE DeleteRow(t)
    BY <2>2 DEF DeleteRow, CacheTypeOK
  <2> QED
    BY <1>2, <2>1, <2>2
    DEF GetStep, SelectRow, BodyExists, DeletePath, UnlinkBody, GetFails
<1>3. ASSUME NEW t \in Tasks, StoreStep(t)
      PROVE  \/ Stored' \subseteq Stored
             \/ UpsertRow(t) /\ Stored' \subseteq Stored \cup {key[t]}
  <2>1. CASE UpsertRow(t)
    BY <2>1 DEF UpsertRow, CacheTypeOK
  <2>2. CASE EvictRow(t)
    BY <2>2 DEF EvictRow, CacheTypeOK
  <2> QED
    BY <1>3, <2>1, <2>2
    DEF StoreStep, CountRows, PickVictims, EvictBody, Evicted, StoreFails, WithdrawBody
<1>4. ASSUME Tick \/ Restart \/ UNCHANGED cacheVars
      PROVE  Stored' \subseteq Stored
  BY <1>4 DEF Tick, Restart, cacheVars
<1> QED BY <1>1, <1>2, <1>3, <1>4 DEF CacheNext, CacheStep

LEMMA FiniteTableStep ==
  ASSUME CacheTypeOK, FiniteTable, [CacheNext]_cacheVars
  PROVE  FiniteTable'
<1>1. PICK k : Stored' \subseteq Stored \cup {k}
  BY TableSteps
<1>2. IsFiniteSet(Stored \cup {k})
  BY FS_AddElement DEF FiniteTable
<1> QED BY <1>1, <1>2, FS_Subset DEF FiniteTable

(***************************************************************************)
(* Types.                                                                  *)
(***************************************************************************)
LEMMA TypeCall ==
  ASSUME CacheTypeOK, NEW t \in Tasks, Call(t)
  PROVE  CacheTypeOK'
<1> USE DEF CacheTypeOK, Row, Keys, Labels, Goto, disk, world
<1>1. CASE \E k \in Keys : CallGet(t, k)
  BY <1>1 DEF CallGet
<1>2. CASE \E k \in GetKeys, created \in 0..clock, life \in Lifetimes :
             CallStoreBody(t, k, created, created + life)
  <2>1. PICK k \in GetKeys, created \in 0..clock, life \in Lifetimes :
          CallStoreBody(t, k, created, created + life)
    BY <1>2
  <2>2. [body |-> bodies + 1, expires |-> created + life, last |-> created] \in Row
    BY ConfigAssumption
  <2> QED BY <2>1, <2>2 DEF CallStoreBody
<1>3. CASE \E k \in HeadKeys, life \in Lifetimes :
             CallStoreHead(t, k, clock, clock + life)
  <2>1. PICK k \in HeadKeys, life \in Lifetimes :
          CallStoreHead(t, k, clock, clock + life)
    BY <1>3
  <2>2. [body |-> NoBody, expires |-> clock + life, last |-> clock] \in Row
    BY ConfigAssumption DEF NoBody
  <2> QED BY <2>1, <2>2 DEF CallStoreHead
<1> QED BY <1>1, <1>2, <1>3 DEF Call

LEMMA TypeGetStep ==
  ASSUME CacheTypeOK, NEW t \in Tasks, GetStep(t)
  PROVE  CacheTypeOK'
<1> USE DEF CacheTypeOK, Keys, Labels, Goto, disk, world
<1>1. CASE SelectRow(t)
  BY <1>1 DEF SelectRow, AfterSelect
<1>2. CASE BodyExists(t)
  BY <1>2 DEF BodyExists
<1>3. CASE Touch(t)
  BY <1>3 DEF Touch, Row
<1>4. CASE DeletePath(t)
  BY <1>4 DEF DeletePath
<1>5. CASE DeleteRow(t)
  BY <1>5 DEF DeleteRow
<1>6. CASE UnlinkBody(t)
  BY <1>6 DEF UnlinkBody, Unlink, NoBody
<1>7. CASE GetFails(t)
  BY <1>7 DEF GetFails
<1> QED BY <1>1, <1>2, <1>3, <1>4, <1>5, <1>6, <1>7 DEF GetStep

LEMMA TypeStoreStep ==
  ASSUME CacheTypeOK, FiniteTable, NEW t \in Tasks, StoreStep(t)
  PROVE  CacheTypeOK'
<1> USE DEF CacheTypeOK, Keys, Labels, Goto, disk, world
<1>1. CASE UpsertRow(t)
  BY <1>1 DEF UpsertRow
<1>2. CASE CountRows(t)
  <2>1. Cardinality(Stored) \in Nat
    BY FS_CardinalityType DEF FiniteTable
  <2>2. Cardinality(Stored) > MaxEntries => Cardinality(Stored) - MaxEntries \in Nat
    BY <2>1, ConfigAssumption
  <2> QED BY <1>2, <2>2 DEF CountRows
<1>3. CASE PickVictims(t)
  BY <1>3 DEF PickVictims, Oldest, Stored
<1>4. CASE EvictRow(t)
  BY <1>4 DEF EvictRow
<1>5. CASE EvictBody(t)
  BY <1>5 DEF EvictBody, Unlink, NoBody
<1>6. CASE Evicted(t)
  BY <1>6 DEF Evicted
<1>7. CASE StoreFails(t)
  BY <1>7 DEF StoreFails
<1>8. CASE WithdrawBody(t)
  BY <1>8 DEF WithdrawBody, NoBody
<1> QED BY <1>1, <1>2, <1>3, <1>4, <1>5, <1>6, <1>7, <1>8 DEF StoreStep

LEMMA TypeStep ==
  ASSUME CacheTypeOK, FiniteTable, [CacheNext]_cacheVars
  PROVE  CacheTypeOK'
<1>1. ASSUME NEW t \in Tasks, GetDropped(t) \/ Return(t)
      PROVE  CacheTypeOK'
  BY <1>1 DEF GetDropped, Return, Clear, Goto, CacheTypeOK, Labels, disk, world
<1>2. CASE Tick
  BY <1>2 DEF Tick, CacheTypeOK, disk, call
<1>3. CASE Restart
  BY <1>3 DEF Restart, CacheTypeOK, Labels, NoBody
<1>4. CASE UNCHANGED cacheVars
  BY <1>4 DEF cacheVars, disk, world, call, CacheTypeOK
<1> QED
  BY <1>1, <1>2, <1>3, <1>4, TypeCall, TypeGetStep, TypeStoreStep
  DEF CacheNext, CacheStep

LEMMA TypeInit ==
  ASSUME CacheInit
  PROVE  CacheTypeOK /\ FiniteTable
<1>1. CacheTypeOK
  BY DEF CacheInit, CacheTypeOK, Labels, NoBody
<1>2. Stored = {}
  BY DEF CacheInit, Stored
<1> QED BY <1>1, <1>2, FS_EmptySet DEF FiniteTable

(* Every variable of the cache has its type: a call under way has the key  *)
(* and the row its next statement uses (cache.rs:126-283).                 *)
THEOREM CacheTypeCorrect == CacheSpec => [](CacheTypeOK /\ FiniteTable)
<1>1. CacheInit => CacheTypeOK /\ FiniteTable
  BY TypeInit
<1>2. CacheTypeOK /\ FiniteTable /\ [CacheNext]_cacheVars => (CacheTypeOK /\ FiniteTable)'
  BY TypeStep, FiniteTableStep
<1> QED BY <1>1, <1>2, PTL DEF CacheSpec

(***************************************************************************)
(* Rows and bodies.  Bodies are numbered by their rename, so no number in  *)
(* use is above the counter, and a body that a store still has to index is *)
(* not later than the file under its key.                                  *)
(***************************************************************************)
Numbered ==
  /\ \A k \in Keys : rows[k] # None => rows[k].body <= bodies
  /\ \A k \in GetKeys : files[k] <= bodies
  /\ \A t \in Tasks : pc[t] = "upsert" => entry[t].body <= bodies

PendingNotNewer ==
  \A t \in Tasks :
    pc[t] = "upsert" /\ key[t] \in GetKeys /\ files[key[t]] # NoBody
      => entry[t].body <= files[key[t]]

BodyInv == Numbered /\ PendingNotNewer /\ RowNotNewerThanBody

LEMMA BodyInvCall ==
  ASSUME CacheTypeOK, BodyInv, NEW t \in Tasks, Call(t)
  PROVE  BodyInv'
<1> USE DEF BodyInv, Numbered, PendingNotNewer, RowNotNewerThanBody, CacheTypeOK,
            Row, Keys, NoBody, Goto, disk, world
<1>1. CASE \E k \in Keys : CallGet(t, k)
  BY <1>1 DEF CallGet
<1>2. CASE \E k \in GetKeys, created \in 0..clock, life \in Lifetimes :
             CallStoreBody(t, k, created, created + life)
  BY <1>2 DEF CallStoreBody
<1>3. CASE \E k \in HeadKeys, life \in Lifetimes :
             CallStoreHead(t, k, clock, clock + life)
  BY <1>3, KeysAssumption DEF CallStoreHead
<1> QED BY <1>1, <1>2, <1>3 DEF Call

LEMMA BodyInvStep ==
  ASSUME CacheTypeOK, BodyInv, [CacheNext]_cacheVars
  PROVE  BodyInv'
<1> USE DEF BodyInv, Numbered, PendingNotNewer, RowNotNewerThanBody, CacheTypeOK,
            Keys, NoBody, Goto, disk, world
<1>1. ASSUME NEW t \in Tasks, Touch(t)
      PROVE  BodyInv'
  BY <1>1 DEF Touch, Row
<1>2. ASSUME NEW t \in Tasks, GetStep(t), ~Touch(t)
      PROVE  BodyInv'
  BY <1>2
  DEF GetStep, SelectRow, AfterSelect, BodyExists, DeletePath, DeleteRow, UnlinkBody, Unlink, GetFails
<1>3. ASSUME NEW t \in Tasks, UpsertRow(t)
      PROVE  BodyInv'
  BY <1>3 DEF UpsertRow, Row
<1>4. ASSUME NEW t \in Tasks, StoreStep(t), ~UpsertRow(t)
      PROVE  BodyInv'
  BY <1>4
  DEF StoreStep, CountRows, PickVictims, EvictRow, EvictBody, Unlink, Evicted, StoreFails, WithdrawBody
<1>5. ASSUME NEW t \in Tasks, GetDropped(t) \/ Return(t)
      PROVE  BodyInv'
  BY <1>5 DEF GetDropped, Return, Clear
<1>6. CASE Tick
  BY <1>6 DEF Tick, call
<1>7. CASE Restart
  BY <1>7 DEF Restart
<1>8. CASE UNCHANGED cacheVars
  BY <1>8 DEF cacheVars, call
<1> QED
  BY <1>1, <1>2, <1>3, <1>4, <1>5, <1>6, <1>7, <1>8, BodyInvCall DEF CacheNext, CacheStep

(* A row never describes a later body than the file it leads to, whatever  *)
(* the calls of any number of tasks do between a rename and its INSERT     *)
(* (cache_pipeline.rs:195-213, cache.rs:197-223).                          *)
THEOREM RowsNotNewerThanBodies == CacheSpec => []RowNotNewerThanBody
<1>1. CacheInit => BodyInv
  BY DEF CacheInit, BodyInv, Numbered, PendingNotNewer, RowNotNewerThanBody, NoBody, Keys
<1>2. CacheTypeOK /\ BodyInv /\ [CacheNext]_cacheVars => BodyInv'
  BY BodyInvStep
<1>3. BodyInv => RowNotNewerThanBody
  BY DEF BodyInv
<1> QED BY <1>1, <1>2, <1>3, CacheTypeCorrect, PTL DEF CacheSpec

(***************************************************************************)
(* The entry limit.  The evictions of concurrent stores work on counts and *)
(* victims that are out of date.  What survives every interleaving: while  *)
(* stores are between INSERT and end, the table is within the limit or one *)
(* of them is about to bring it there by what it has already read.  The    *)
(* store that was the last to INSERT is such a one.                        *)
(***************************************************************************)
Settling(s) ==
  \/ pc[s] = "count"
  \/ pc[s] = "pick" /\ Cardinality(Stored) <= MaxEntries + overflow[s]
  \/ /\ pc[s] \in {"evict", "evictBody"}
     /\ Cardinality(Stored \ doomed[s]) <= MaxEntries

Within == Cardinality(Stored) <= MaxEntries

LimitInv ==
  ~MayFail /\ MaxEntries > 0 /\ Inserting # {}
    => Within \/ \E s \in Inserting : Settling(s)

(* A table that loses rows keeps what is known of a store that does not    *)
(* move.                                                                   *)
LEMMA SettlingShrinks ==
  ASSUME CacheTypeOK, FiniteTable, Stored' \subseteq Stored, NEW s \in Tasks,
         pc'[s] = pc[s], overflow'[s] = overflow[s], doomed'[s] = doomed[s],
         Settling(s)
  PROVE  Settling(s)'
<1>1. Cardinality(Stored) \in Nat /\ Cardinality(Stored') \in Nat
      /\ Cardinality(Stored') <= Cardinality(Stored)
  BY FS_Subset, FS_CardinalityType DEF FiniteTable
<1>2. /\ IsFiniteSet(Stored \ doomed[s])
      /\ Stored' \ doomed[s] \subseteq Stored \ doomed[s]
  BY FS_Subset DEF FiniteTable
<1>3. /\ Cardinality(Stored \ doomed[s]) \in Nat
      /\ Cardinality(Stored' \ doomed[s]) \in Nat
      /\ Cardinality(Stored' \ doomed[s]) <= Cardinality(Stored \ doomed[s])
  BY <1>2, FS_Subset, FS_CardinalityType
<1>4. MaxEntries \in Nat /\ overflow[s] \in Nat
  BY ConfigAssumption DEF CacheTypeOK
<1> QED BY <1>1, <1>3, <1>4 DEF Settling

LEMMA WithinShrinks ==
  ASSUME FiniteTable, Within, Stored' \subseteq Stored
  PROVE  Within'
<1>1. Cardinality(Stored) \in Nat /\ Cardinality(Stored') \in Nat
      /\ Cardinality(Stored') <= Cardinality(Stored)
  BY FS_Subset, FS_CardinalityType DEF FiniteTable
<1> QED BY <1>1, ConfigAssumption DEF Within

(* The steps of store, of one task.                                        *)
LEMMA LimitStoreStep ==
  ASSUME CacheTypeOK, FiniteTable, LimitInv, NEW t \in Tasks, StoreStep(t),
         ~MayFail, MaxEntries > 0, Inserting' # {}
  PROVE  Within' \/ \E s \in Inserting' : Settling(s)'
<1> USE DEF Goto, Inserting
<1>card. MaxEntries \in Nat /\ Cardinality(Stored) \in Nat
  BY ConfigAssumption, FS_CardinalityType DEF FiniteTable
<1>1. CASE UpsertRow(t)
  <2>1. pc'[t] = "count"
    BY <1>1 DEF UpsertRow, CacheTypeOK
  <2> QED BY <2>1 DEF Settling
<1>2. CASE CountRows(t)
  <2>1. Stored' = Stored
    BY <1>2 DEF CountRows, Stored, disk
  <2>2. CASE Cardinality(Stored) > MaxEntries
    <3>1. pc'[t] = "pick" /\ overflow'[t] = Cardinality(Stored) - MaxEntries
      BY <1>2, <2>2 DEF CountRows, CacheTypeOK
    <3> QED BY <3>1, <2>1, <1>card DEF Settling
  <2>3. CASE ~(Cardinality(Stored) > MaxEntries)
    BY <2>1, <2>3, <1>card DEF Within
  <2> QED BY <2>2, <2>3
<1>3. CASE PickVictims(t)
  <2>1. Stored' = Stored
    BY <1>3 DEF PickVictims, Stored, disk
  <2>2. PICK V \in Oldest(overflow[t]) : doomed' = [doomed EXCEPT ![t] = V]
    BY <1>3 DEF PickVictims
  <2>3. pc'[t] = "evict" /\ doomed'[t] = V /\ pc[t] = "pick"
    BY <1>3, <2>2 DEF PickVictims, CacheTypeOK
  <2>4. ASSUME NEW s \in Inserting, Settling(s), s # t
        PROVE  s \in Inserting' /\ Settling(s)'
    <3>1. pc'[s] = pc[s] /\ overflow'[s] = overflow[s] /\ doomed'[s] = doomed[s]
      BY <1>3, <2>2, <2>4 DEF PickVictims, CacheTypeOK
    <3> QED BY <3>1, <2>1, <2>4, SettlingShrinks
  <2>5. ASSUME Settling(t)
        PROVE  Settling(t)'
    <3>1. Cardinality(Stored) <= MaxEntries + overflow[t] /\ overflow[t] \in Nat
      BY <2>3, <2>5 DEF Settling, CacheTypeOK
    <3>2. /\ V \subseteq Stored
          /\ Cardinality(V) = (IF overflow[t] < Cardinality(Stored)
                               THEN overflow[t] ELSE Cardinality(Stored))
      BY <2>2 DEF Oldest
    <3>3. Cardinality(Stored \ V) = Cardinality(Stored) - Cardinality(V)
      <4>1. Stored \cap V = V
        BY <3>2
      <4> QED BY <4>1, FS_Difference DEF FiniteTable
    <3>4. Cardinality(Stored \ V) <= MaxEntries
      BY <3>1, <3>2, <3>3, <1>card
    <3> QED BY <3>4, <2>1, <2>3 DEF Settling
  <2>6. t \in Inserting' /\ t \in Inserting
    BY <2>3
  <2>7. CASE Within
    BY <2>7, <2>1 DEF Within
  <2>8. CASE \E s \in Inserting : Settling(s)
    BY <2>8, <2>4, <2>5, <2>6
  <2> QED BY <2>6, <2>7, <2>8 DEF LimitInv
<1>4. CASE EvictRow(t)
  <2>1. PICK k \in doomed[t] :
          /\ rows' = [rows EXCEPT ![k] = None]
          /\ doomed' = [doomed EXCEPT ![t] = @ \ {k}]
    BY <1>4 DEF EvictRow
  <2>2. Stored' \subseteq Stored /\ k \notin Stored'
    BY <2>1 DEF Stored, CacheTypeOK
  <2>3. pc[t] = "evict" /\ pc'[t] \in {"evict", "evictBody"} /\ doomed'[t] = doomed[t] \ {k}
    BY <1>4, <2>1 DEF EvictRow, CacheTypeOK
  <2>4. ASSUME NEW s \in Inserting, Settling(s), s # t
        PROVE  s \in Inserting' /\ Settling(s)'
    <3>1. pc'[s] = pc[s] /\ overflow'[s] = overflow[s] /\ doomed'[s] = doomed[s]
      BY <1>4, <2>1, <2>4 DEF EvictRow, CacheTypeOK
    <3> QED BY <3>1, <2>2, <2>4, SettlingShrinks
  <2>5. ASSUME Settling(t)
        PROVE  Settling(t)'
    <3>1. Stored' \ doomed'[t] \subseteq Stored \ doomed[t]
      BY <2>2, <2>3
    <3>2. IsFiniteSet(Stored \ doomed[t])
      BY FS_Subset DEF FiniteTable
    <3>3. /\ Cardinality(Stored \ doomed[t]) \in Nat
          /\ Cardinality(Stored' \ doomed'[t]) \in Nat
          /\ Cardinality(Stored' \ doomed'[t]) <= Cardinality(Stored \ doomed[t])
      BY <3>1, <3>2, FS_Subset, FS_CardinalityType
    <3> QED BY <3>3, <2>3, <2>5, <1>card DEF Settling
  <2>6. t \in Inserting' /\ t \in Inserting
    BY <2>3
  <2>7. CASE Within
    BY <2>7, <2>2, WithinShrinks
  <2>8. CASE \E s \in Inserting : Settling(s)
    BY <2>8, <2>4, <2>5, <2>6
  <2> QED BY <2>6, <2>7, <2>8 DEF LimitInv
<1>5. CASE EvictBody(t)
  <2>1. Stored' = Stored /\ Inserting' = Inserting
    BY <1>5 DEF EvictBody, Stored, CacheTypeOK
  <2>2. ASSUME NEW s \in Tasks, Settling(s)
        PROVE  Settling(s)'
    BY <1>5, <2>1, <2>2 DEF EvictBody, Settling, CacheTypeOK
  <2> QED BY <2>1, <2>2 DEF LimitInv, Within
<1>6. CASE Evicted(t)
  <2>1. Stored' = Stored
    BY <1>6 DEF Evicted, Stored, disk
  <2>2. ASSUME NEW s \in Inserting, Settling(s), s # t
        PROVE  s \in Inserting' /\ Settling(s)'
    BY <1>6, <2>1, <2>2, SettlingShrinks DEF Evicted, CacheTypeOK
  <2>3. Settling(t) => Within
    <3>1. Stored \ doomed[t] = Stored
      BY <1>6 DEF Evicted
    <3> QED BY <3>1, <1>6 DEF Evicted, Settling, Within
  <2>4. t \in Inserting
    BY <1>6 DEF Evicted
  <2> QED BY <2>1, <2>2, <2>3, <2>4 DEF LimitInv, Within
<1>7. CASE StoreFails(t)
  BY <1>7 DEF StoreFails
<1>8. CASE WithdrawBody(t)
  <2>1. /\ Stored' = Stored /\ Inserting' = Inserting
        /\ UNCHANGED <<overflow, doomed>>
        /\ \A s \in Inserting : pc'[s] = pc[s]
    BY <1>8 DEF WithdrawBody, Stored, CacheTypeOK
  <2> QED BY <2>1, SettlingShrinks DEF LimitInv, Within
<1> QED BY <1>1, <1>2, <1>3, <1>4, <1>5, <1>6, <1>7, <1>8 DEF StoreStep

(* The other calls leave the stores that are evicting alone, and the table  *)
(* does not grow.                                                          *)
LEMMA UnrelatedSteps ==
  ASSUME CacheTypeOK, NEW t \in Tasks,
         Call(t) \/ GetStep(t) \/ GetDropped(t) \/ Return(t)
  PROVE  /\ Stored' \subseteq Stored /\ restarts' = restarts /\ Inserting' = Inserting
         /\ \A s \in Inserting :
              pc'[s] = pc[s] /\ overflow'[s] = overflow[s] /\ doomed'[s] = doomed[s]
<1> USE DEF Goto, Inserting, Stored, disk, world, CacheTypeOK
<1>1. CASE Call(t)
  BY <1>1 DEF Call, CallGet, CallStoreBody, CallStoreHead
<1>2. CASE GetDropped(t) \/ Return(t)
  BY <1>2 DEF GetDropped, Return, Clear
<1>3. CASE SelectRow(t)
  <2>1. AfterSelect(rows[key[t]], key[t], now[t])
          \in {"miss", "deletePath", "exists", "touch"}
    BY DEF AfterSelect
  <2> QED BY <1>3, <2>1 DEF SelectRow
<1>4. CASE GetStep(t) /\ ~SelectRow(t)
  BY <1>4 DEF GetStep, BodyExists, Touch, DeletePath, DeleteRow, UnlinkBody, GetFails
<1> QED BY <1>1, <1>2, <1>3, <1>4

LEMMA LimitStep ==
  ASSUME CacheTypeOK, FiniteTable, LimitInv, [CacheNext]_cacheVars
  PROVE  LimitInv'
<1> SUFFICES ASSUME ~MayFail, MaxEntries > 0, Inserting' # {}
             PROVE  Within' \/ \E s \in Inserting' : Settling(s)'
  BY DEF LimitInv
<1>2. ASSUME NEW t \in Tasks, Call(t) \/ GetStep(t) \/ GetDropped(t) \/ Return(t)
      PROVE  Within' \/ \E s \in Inserting' : Settling(s)'
  <2>1. /\ Stored' \subseteq Stored /\ Inserting' = Inserting
        /\ \A s \in Inserting :
             pc'[s] = pc[s] /\ overflow'[s] = overflow[s] /\ doomed'[s] = doomed[s]
    BY <1>2, UnrelatedSteps
  <2>2. CASE Within
    BY <2>1, <2>2, WithinShrinks
  <2>3. ASSUME NEW s \in Inserting, Settling(s)
        PROVE  Settling(s)'
    <3>1. s \in Tasks
      BY DEF Inserting
    <3> QED BY <2>1, <2>3, <3>1, SettlingShrinks
  <2> QED BY <2>1, <2>2, <2>3 DEF LimitInv
<1>3. CASE Restart
  BY <1>3 DEF Restart, Inserting
<1>4. CASE Tick \/ UNCHANGED cacheVars
  BY <1>4 DEF Tick, cacheVars, disk, call, Inserting, Stored, LimitInv, Within, Settling
<1> QED BY <1>2, <1>3, <1>4, LimitStoreStep DEF CacheNext, CacheStep

(* When a store ends while no other store is between its INSERT and its    *)
(* end, the table is within max_entries, whatever concurrent stores,       *)
(* lookups and crashes came before (cache.rs:225-249).                     *)
THEOREM StoresRestoreLimit == CacheSpec => StoreRestoresLimit
<1>1. CacheInit => LimitInv
  BY DEF CacheInit, LimitInv, Inserting
<1>2. CacheTypeOK /\ FiniteTable /\ LimitInv /\ [CacheNext]_cacheVars => LimitInv'
  BY LimitStep
<1>3. ASSUME CacheTypeOK, FiniteTable, LimitInv, CacheNext, MaxEntries > 0, ~MayFail,
             NEW t \in Tasks, Inserting = {t}, pc'[t] = "stored"
      PROVE  Cardinality(Stored') <= MaxEntries
  <2>1. CountRows(t) \/ Evicted(t)
    <3>1. pc[t] \in {"count", "pick", "evict", "evictBody"}
      BY <1>3 DEF Inserting
    <3>2. ASSUME NEW u \in Tasks, Call(u) \/ CacheStep(u) \/ GetDropped(u) \/ Return(u)
          PROVE  u = t
      <4>1. CASE Call(u) \/ GetDropped(u) \/ Return(u)
        BY <1>3, <3>1, <4>1 DEF Call, CallGet, CallStoreBody, CallStoreHead, GetDropped,
           Return, Clear, Goto, CacheTypeOK
      <4>2. CASE GetStep(u)
        BY <1>3, <3>1, <4>2 DEF GetStep, SelectRow, BodyExists, Touch, DeletePath,
           DeleteRow, UnlinkBody, GetFails, Goto, CacheTypeOK
      <4>3. CASE StoreStep(u)
        BY <1>3, <3>1, <4>3 DEF StoreStep, UpsertRow, CountRows, PickVictims, EvictRow,
           EvictBody, Evicted, StoreFails, WithdrawBody, Goto, CacheTypeOK
      <4> QED BY <3>2, <4>1, <4>2, <4>3 DEF CacheStep
    <3>3. ~(Tick \/ Restart)
      BY <1>3, <3>1 DEF Tick, Restart, call
    <3>4. Call(t) \/ CacheStep(t) \/ GetDropped(t) \/ Return(t)
      BY <1>3, <3>2, <3>3 DEF CacheNext
    <3>5. StoreStep(t)
      BY <3>1, <3>4 DEF Call, CallGet, CallStoreBody, CallStoreHead, GetDropped, Return,
         CacheStep, GetStep, SelectRow, BodyExists, Touch, DeletePath, DeleteRow,
         UnlinkBody, GetFails
    <3> QED BY <1>3, <3>1, <3>5 DEF StoreStep, UpsertRow, PickVictims, EvictRow,
         EvictBody, StoreFails, WithdrawBody, Goto, CacheTypeOK
  <2>2. CASE CountRows(t)
    <3>1. Cardinality(Stored) \in Nat /\ MaxEntries \in Nat
      BY <1>3, ConfigAssumption, FS_CardinalityType DEF FiniteTable
    <3>2. Stored' = Stored
      BY <2>2 DEF CountRows, Stored, disk
    <3>3. ~(Cardinality(Stored) > MaxEntries)
      BY <1>3, <2>2 DEF CountRows, Goto, CacheTypeOK
    <3> QED BY <3>1, <3>2, <3>3
  <2>3. CASE Evicted(t)
    <3>1. Within \/ Settling(t)
      BY <1>3 DEF LimitInv
    <3>2. Stored \ doomed[t] = Stored /\ Stored' = Stored /\ pc[t] = "evict"
      BY <2>3 DEF Evicted, Stored, disk
    <3> QED BY <3>1, <3>2 DEF Settling, Within
  <2> QED BY <2>1, <2>2, <2>3
<1>4. CacheTypeOK /\ FiniteTable /\ LimitInv /\ [CacheNext]_cacheVars
        => [MaxEntries > 0 /\ ~MayFail =>
              \A t \in Tasks :
                Inserting = {t} /\ pc'[t] = "stored" => Cardinality(Stored') <= MaxEntries
           ]_cacheVars
  BY <1>3
<1> QED BY <1>1, <1>2, <1>4, CacheTypeCorrect, PTL DEF CacheSpec, StoreRestoresLimit

(***************************************************************************)
(* The entry limit while stores are under way.  What a store has read      *)
(* answers for the rows that were there when it inserted its own, and not  *)
(* for those inserted since, which later stores answer for: stores are     *)
(* ranked by their INSERT, the last one lowest.  The ranks are no variable *)
(* of the cache; that some would do is the invariant.                      *)
(***************************************************************************)
Later(stores, rank, t) == {s \in stores : rank[s] < rank[t]}

(* The rows t leaves are within the limit but for n of them.               *)
Owed(t, n) ==
  \/ pc[t] = "count"
  \/ pc[t] = "pick" /\ Cardinality(Stored) <= MaxEntries + overflow[t] + n
  \/ /\ pc[t] \in {"evict", "evictBody"}
     /\ Cardinality(Stored \ doomed[t]) <= MaxEntries + n

Ranks(rank) ==
  /\ rank \in [Tasks -> Nat]
  /\ \A t \in Inserting : Owed(t, Cardinality(Later(Inserting, rank, t)))

EntryInv ==
  ~MayFail /\ MaxEntries > 0 /\ restarts = 0
    => /\ IsFiniteSet(Inserting)
       /\ Cardinality(Stored) <= MaxEntries + Cardinality(Inserting)
       /\ \E rank : Ranks(rank)

LEMMA OneMore ==
  ASSUME NEW A, IsFiniteSet(A), NEW x
  PROVE  /\ IsFiniteSet(A \cup {x})
         /\ Cardinality(A) \in Nat /\ Cardinality(A \cup {x}) \in Nat
         /\ Cardinality(A \cup {x}) <= Cardinality(A) + 1
<1>1. /\ IsFiniteSet(A \cup {x})
      /\ Cardinality(A \cup {x}) = Cardinality(A) \/ Cardinality(A \cup {x}) = Cardinality(A) + 1
  BY FS_AddElement
<1>2. Cardinality(A) \in Nat
  BY FS_CardinalityType
<1> QED BY <1>1, <1>2

(* What is owed by a store that does not move, when rows go or one comes.  *)
LEMMA OwedKept ==
  ASSUME CacheTypeOK, FiniteTable, NEW n \in Nat, NEW m \in Nat, NEW S,
         \/ Stored' \subseteq Stored /\ m = n
         \/ Stored' \subseteq Stored \cup {S} /\ m = n + 1,
         NEW t \in Tasks, Owed(t, n),
         pc'[t] = pc[t], overflow'[t] = overflow[t], doomed'[t] = doomed[t]
  PROVE  Owed(t, m)'
<1>1. /\ MaxEntries \in Nat /\ overflow[t] \in Nat
      /\ Cardinality(Stored) \in Nat /\ Cardinality(Stored \ doomed[t]) \in Nat
      /\ IsFiniteSet(Stored) /\ IsFiniteSet(Stored \ doomed[t])
  BY ConfigAssumption, FS_Subset, FS_CardinalityType DEF FiniteTable, CacheTypeOK
<1>2. CASE Stored' \subseteq Stored /\ m = n
  <2>1. /\ Cardinality(Stored') \in Nat /\ Cardinality(Stored' \ doomed[t]) \in Nat
        /\ Cardinality(Stored') <= Cardinality(Stored)
        /\ Cardinality(Stored' \ doomed[t]) <= Cardinality(Stored \ doomed[t])
    <3>1. Stored' \ doomed[t] \subseteq Stored \ doomed[t]
      BY <1>2
    <3> QED BY <1>1, <1>2, <3>1, FS_Subset, FS_CardinalityType
  <2> QED BY <1>1, <1>2, <2>1 DEF Owed
<1>3. CASE Stored' \subseteq Stored \cup {S} /\ m = n + 1
  <2>1. /\ Cardinality(Stored') \in Nat /\ Cardinality(Stored' \ doomed[t]) \in Nat
        /\ Cardinality(Stored') <= Cardinality(Stored) + 1
        /\ Cardinality(Stored' \ doomed[t]) <= Cardinality(Stored \ doomed[t]) + 1
    <3>1. Stored' \ doomed[t] \subseteq (Stored \ doomed[t]) \cup {S}
      BY <1>3
    <3>2. /\ IsFiniteSet(Stored \cup {S})
          /\ Cardinality(Stored \cup {S}) \in Nat
          /\ Cardinality(Stored \cup {S}) <= Cardinality(Stored) + 1
      BY <1>1, OneMore
    <3>3. /\ IsFiniteSet((Stored \ doomed[t]) \cup {S})
          /\ Cardinality((Stored \ doomed[t]) \cup {S}) \in Nat
          /\ Cardinality((Stored \ doomed[t]) \cup {S}) <= Cardinality(Stored \ doomed[t]) + 1
      BY <1>1, OneMore
    <3>4. Cardinality(Stored') \in Nat /\ Cardinality(Stored') <= Cardinality(Stored \cup {S})
      BY <1>3, <3>2, FS_Subset, FS_CardinalityType
    <3>5. /\ Cardinality(Stored' \ doomed[t]) \in Nat
          /\ Cardinality(Stored' \ doomed[t]) <= Cardinality((Stored \ doomed[t]) \cup {S})
      BY <3>1, <3>3, FS_Subset, FS_CardinalityType
    <3> QED BY <1>1, <3>2, <3>3, <3>4, <3>5
  <2> QED BY <1>1, <1>3, <2>1 DEF Owed
<1> QED BY <1>2, <1>3

(* The later stores are finitely many, and no more than all.               *)
LEMMA LaterCount ==
  ASSUME IsFiniteSet(Inserting), NEW rank
  PROVE  /\ Cardinality(Inserting) \in Nat
         /\ \A t \in Tasks : Cardinality(Later(Inserting, rank, t)) \in Nat
BY FS_Subset, FS_CardinalityType DEF Later

(* Steps that leave the stores where they are.                             *)
LEMMA EntryShrinks ==
  ASSUME CacheTypeOK, FiniteTable, EntryInv, restarts' = restarts,
         Stored' \subseteq Stored, Inserting' = Inserting, NEW u,
         \A s \in Inserting :
           \/ s = u /\ \A n \in Nat : Owed(s, n) => Owed(s, n)'
           \/ pc'[s] = pc[s] /\ overflow'[s] = overflow[s] /\ doomed'[s] = doomed[s]
  PROVE  EntryInv'
<1> SUFFICES ASSUME ~MayFail, MaxEntries > 0, restarts = 0
             PROVE  /\ IsFiniteSet(Inserting)'
                    /\ Cardinality(Stored') <= MaxEntries + Cardinality(Inserting')
                    /\ \E rank : Ranks(rank)'
  BY DEF EntryInv
<1>1. PICK rank : Ranks(rank)
  BY DEF EntryInv
<1>2. /\ IsFiniteSet(Inserting)
      /\ Cardinality(Stored) <= MaxEntries + Cardinality(Inserting)
  BY DEF EntryInv
<1>3. ASSUME NEW s \in Inserting
      PROVE  Owed(s, Cardinality(Later(Inserting, rank, s)))'
  <2> DEFINE n == Cardinality(Later(Inserting, rank, s))
  <2>1. n \in Nat /\ Owed(s, n) /\ s \in Tasks
    BY <1>1, <1>2, LaterCount DEF Ranks, Inserting
  <2>2. Later(Inserting', rank, s) = Later(Inserting, rank, s)
    BY DEF Later
  <2> HIDE DEF n
  <2>3. Owed(s, n) => (\A m \in Nat : m = n => Owed(s, m)')
    BY <2>1, OwedKept
  <2>4. \A m \in Nat : m = n => Owed(s, m)'
    BY <2>1, <2>3
  <2> QED BY <2>1, <2>2, <2>4 DEF n
<1>4. Ranks(rank)'
  BY <1>1, <1>3 DEF Ranks
<1>5. /\ Cardinality(Stored') \in Nat /\ Cardinality(Stored) \in Nat
      /\ Cardinality(Stored') <= Cardinality(Stored)
  BY FS_Subset, FS_CardinalityType DEF FiniteTable
<1> QED BY <1>2, <1>4, <1>5, LaterCount, ConfigAssumption

(* An INSERT: the new store ranks lowest, so that it is later than any.    *)
LEMMA EntryInserts ==
  ASSUME CacheTypeOK, FiniteTable, EntryInv, NEW u \in Tasks, UpsertRow(u),
         NEW S, Stored' \subseteq Stored \cup {S}
  PROVE  EntryInv'
<1> SUFFICES ASSUME ~MayFail, MaxEntries > 0, restarts = 0
             PROVE  /\ IsFiniteSet(Inserting)'
                    /\ Cardinality(Stored') <= MaxEntries + Cardinality(Inserting')
                    /\ \E rank : Ranks(rank)'
  BY DEF EntryInv, UpsertRow, world
<1>1. PICK rank : Ranks(rank)
  BY DEF EntryInv
<1>2. /\ IsFiniteSet(Inserting)
      /\ Cardinality(Stored) <= MaxEntries + Cardinality(Inserting)
  BY DEF EntryInv
<1>3. /\ Inserting' = Inserting \cup {u} /\ u \notin Inserting /\ pc'[u] = "count"
      /\ \A s \in Inserting :
           pc'[s] = pc[s] /\ overflow'[s] = overflow[s] /\ doomed'[s] = doomed[s]
  BY DEF UpsertRow, Goto, Inserting, CacheTypeOK
<1>4. /\ IsFiniteSet(Inserting') /\ Cardinality(Inserting) \in Nat
      /\ Cardinality(Inserting') = Cardinality(Inserting) + 1
  BY <1>2, <1>3, FS_AddElement, FS_CardinalityType
<1>5. Cardinality(Stored') <= MaxEntries + Cardinality(Inserting')
  <2>1. /\ IsFiniteSet(Stored \cup {S}) /\ Cardinality(Stored) \in Nat
        /\ Cardinality(Stored \cup {S}) \in Nat
        /\ Cardinality(Stored \cup {S}) <= Cardinality(Stored) + 1
    BY OneMore DEF FiniteTable
  <2>2. Cardinality(Stored') \in Nat /\ Cardinality(Stored') <= Cardinality(Stored \cup {S})
    BY <2>1, FS_Subset, FS_CardinalityType
  <2> QED BY <1>2, <1>4, <2>1, <2>2, ConfigAssumption
<1>6. PICK r \in [Tasks -> Nat] :
        r[u] = 0 /\ \A s \in Inserting : r[s] = rank[s] + 1
  <2> DEFINE q == [s \in Tasks |-> IF s = u THEN 0 ELSE rank[s] + 1]
  <2>1. /\ q \in [Tasks -> Nat] /\ q[u] = 0
        /\ \A s \in Inserting : q[s] = rank[s] + 1
    BY <1>1, <1>3 DEF Ranks, Inserting
  <2> QED BY <2>1
<1>ty. \A s \in Inserting : s # u /\ rank[s] \in Nat /\ s \in Tasks
  BY <1>1, <1>3 DEF Ranks, Inserting
<1>7. ASSUME NEW s \in Inserting
      PROVE  Owed(s, Cardinality(Later(Inserting, r, s)))'
  <2>1. Later(Inserting', r, s) = Later(Inserting, rank, s) \cup {u}
    BY <1>ty, <1>3, <1>6 DEF Later
  <2>2. u \notin Later(Inserting, rank, s) /\ Later(Inserting, rank, s) \subseteq Inserting
    BY <1>3 DEF Later
  <2>3. /\ IsFiniteSet(Later(Inserting, rank, s)) /\ Cardinality(Later(Inserting, rank, s)) \in Nat
        /\ Cardinality(Later(Inserting', r, s)) = Cardinality(Later(Inserting, rank, s)) + 1
    BY <1>2, <2>1, <2>2, FS_Subset, FS_AddElement, FS_CardinalityType
  <2> DEFINE n == Cardinality(Later(Inserting, rank, s))
  <2>4. n \in Nat /\ n + 1 \in Nat /\ Owed(s, n) /\ s \in Tasks
    BY <1>ty, <1>1, <2>3 DEF Ranks
  <2>5. Cardinality(Later(Inserting', r, s)) = n + 1
    BY <2>3
  <2> HIDE DEF n
  <2>6. ASSUME NEW k \in Nat, k = n + 1
        PROVE  Owed(s, k)'
    BY <1>3, <2>4, <2>6, OwedKept
  <2> QED BY <2>4, <2>5, <2>6 DEF Owed
<1>8. Ranks(r)'
  <2>1. Owed(u, Cardinality(Later(Inserting, r, u)))'
    BY <1>3 DEF Owed
  <2> QED BY <1>3, <1>6, <1>7, <2>1 DEF Ranks, Owed
<1> QED BY <1>4, <1>5, <1>8

(* A store that leaves answers for all rows but those of later stores: who *)
(* was there before it is relieved of as many as it loses.                 *)
LEMMA EntryLeaves ==
  ASSUME CacheTypeOK, FiniteTable, EntryInv, restarts' = restarts, Stored' = Stored,
         NEW u \in Inserting, Inserting' = Inserting \ {u},
         ~MayFail /\ MaxEntries > 0 /\ restarts = 0 =>
           \A rank : Ranks(rank) => Cardinality(Stored) <= MaxEntries + Cardinality(Later(Inserting, rank, u)),
         \A s \in Inserting' :
           pc'[s] = pc[s] /\ overflow'[s] = overflow[s] /\ doomed'[s] = doomed[s]
  PROVE  EntryInv'
<1> SUFFICES ASSUME ~MayFail, MaxEntries > 0, restarts = 0
             PROVE  /\ IsFiniteSet(Inserting)'
                    /\ Cardinality(Stored') <= MaxEntries + Cardinality(Inserting')
                    /\ \E rank : Ranks(rank)'
  BY DEF EntryInv
<1>1. PICK rank : Ranks(rank)
  BY DEF EntryInv
<1>2. IsFiniteSet(Inserting) /\ IsFiniteSet(Inserting') /\ rank \in [Tasks -> Nat]
  BY <1>1, FS_Subset DEF EntryInv, Ranks
<1>3. Cardinality(Stored) <= MaxEntries + Cardinality(Later(Inserting, rank, u))
  BY <1>1
<1>4. /\ Cardinality(Stored) \in Nat /\ MaxEntries \in Nat
      /\ IsFiniteSet(Stored)
  BY ConfigAssumption, FS_CardinalityType DEF FiniteTable
<1>5. ASSUME NEW T, Later(Inserting, rank, u) \subseteq T, T \subseteq Inserting'
      PROVE  Cardinality(Stored) <= MaxEntries + Cardinality(T) /\ Cardinality(T) \in Nat
  <2>1. IsFiniteSet(T) /\ IsFiniteSet(Later(Inserting, rank, u))
    BY <1>2, <1>5, FS_Subset
  <2>2. /\ Cardinality(T) \in Nat /\ Cardinality(Later(Inserting, rank, u)) \in Nat
        /\ Cardinality(Later(Inserting, rank, u)) <= Cardinality(T)
    BY <2>1, <1>5, FS_Subset, FS_CardinalityType
  <2> QED BY <1>3, <1>4, <2>2
<1>6. Later(Inserting, rank, u) \subseteq Inserting'
  BY <1>2 DEF Later, Inserting
<1>7. ASSUME NEW s \in Inserting'
      PROVE  Owed(s, Cardinality(Later(Inserting, rank, s)))'
  <2>1. s \in Inserting /\ s \in Tasks /\ u \in Tasks /\ rank[s] \in Nat /\ rank[u] \in Nat
    BY <1>2 DEF Inserting
  <2>2. CASE rank[u] < rank[s]
    <3>1. Later(Inserting, rank, u) \subseteq Later(Inserting', rank, s) /\ Later(Inserting', rank, s) \subseteq Inserting'
      BY <1>2, <1>6, <2>1, <2>2 DEF Later, Inserting
    <3>2. /\ Cardinality(Stored) <= MaxEntries + Cardinality(Later(Inserting', rank, s))
          /\ Cardinality(Later(Inserting', rank, s)) \in Nat
      BY <1>5, <3>1
    <3>3. /\ Cardinality(Stored \ doomed[s]) \in Nat
          /\ Cardinality(Stored \ doomed[s]) <= Cardinality(Stored)
      BY <1>4, FS_Subset, FS_CardinalityType
    <3>4. pc[s] \in {"count", "pick", "evict", "evictBody"} /\ overflow[s] \in Nat
      BY <2>1 DEF Inserting, CacheTypeOK
    <3> QED BY <3>2, <3>3, <3>4, <1>4 DEF Owed
  <2>3. CASE ~(rank[u] < rank[s])
    <3>1. Later(Inserting', rank, s) = Later(Inserting, rank, s)
      BY <2>3 DEF Later
    <3>2. Owed(s, Cardinality(Later(Inserting, rank, s)))
      BY <1>1, <2>1 DEF Ranks
    <3> QED BY <3>1, <3>2 DEF Owed
  <2> QED BY <2>2, <2>3
<1>8. Ranks(rank)'
  BY <1>2, <1>7 DEF Ranks, Owed
<1> QED BY <1>2, <1>4, <1>5, <1>6, <1>8

LEMMA EntryStoreStep ==
  ASSUME CacheTypeOK, FiniteTable, EntryInv, NEW t \in Tasks, StoreStep(t), ~MayFail
  PROVE  EntryInv'
<1> USE DEF Goto, Inserting
<1>1. CASE UpsertRow(t)
  <2>1. Stored' \subseteq Stored \cup {key[t]}
    BY <1>1 DEF UpsertRow, Stored, CacheTypeOK
  <2> QED BY <1>1, <2>1, EntryInserts
<1>2. CASE CountRows(t)
  <2>1. Stored' = Stored /\ restarts' = restarts /\ t \in Inserting
    BY <1>2 DEF CountRows, Stored, disk, world
  <2>2. Cardinality(Stored) \in Nat /\ MaxEntries \in Nat
    BY ConfigAssumption, FS_CardinalityType DEF FiniteTable
  <2>3. CASE Cardinality(Stored) > MaxEntries
    <3>1. /\ pc'[t] = "pick" /\ overflow'[t] = Cardinality(Stored) - MaxEntries
          /\ Inserting' = Inserting
          /\ \A s \in Tasks \ {t} :
               pc'[s] = pc[s] /\ overflow'[s] = overflow[s] /\ doomed'[s] = doomed[s]
      BY <1>2, <2>3 DEF CountRows, CacheTypeOK
    <3>2. \A n \in Nat : Owed(t, n)'
      BY <2>1, <2>2, <3>1 DEF Owed
    <3> QED BY <2>1, <3>1, <3>2, EntryShrinks
  <2>4. CASE ~(Cardinality(Stored) > MaxEntries)
    <3>1. /\ Inserting' = Inserting \ {t}
          /\ \A s \in Inserting' :
               pc'[s] = pc[s] /\ overflow'[s] = overflow[s] /\ doomed'[s] = doomed[s]
      BY <1>2, <2>4 DEF CountRows, CacheTypeOK
    <3>2. ASSUME MaxEntries > 0, restarts = 0, NEW rank
          PROVE  Cardinality(Stored) <= MaxEntries + Cardinality(Later(Inserting, rank, t))
      <4>1. Cardinality(Later(Inserting, rank, t)) \in Nat
        BY <3>2, LaterCount DEF EntryInv
      <4> QED BY <4>1, <2>2, <2>4
    <3> QED BY <2>1, <3>1, <3>2, EntryLeaves
  <2> QED BY <2>3, <2>4
<1>3. CASE PickVictims(t)
  <2>1. /\ Stored' = Stored /\ restarts' = restarts /\ Inserting' = Inserting
        /\ \A s \in Tasks \ {t} :
             pc'[s] = pc[s] /\ overflow'[s] = overflow[s] /\ doomed'[s] = doomed[s]
    BY <1>3 DEF PickVictims, Stored, disk, world, CacheTypeOK
  <2>2. PICK V \in Oldest(overflow[t]) : doomed' = [doomed EXCEPT ![t] = V]
    BY <1>3 DEF PickVictims
  <2>3. pc'[t] = "evict" /\ doomed'[t] = V /\ pc[t] = "pick"
    BY <1>3, <2>2 DEF PickVictims, CacheTypeOK
  <2>4. ASSUME NEW n \in Nat, Owed(t, n)
        PROVE  Owed(t, n)'
    <3>1. /\ Cardinality(Stored) <= MaxEntries + overflow[t] + n /\ overflow[t] \in Nat
          /\ Cardinality(Stored) \in Nat /\ MaxEntries \in Nat
      BY <2>3, <2>4, ConfigAssumption, FS_CardinalityType DEF Owed, CacheTypeOK, FiniteTable
    <3>2. /\ V \subseteq Stored
          /\ Cardinality(V) = (IF overflow[t] < Cardinality(Stored)
                               THEN overflow[t] ELSE Cardinality(Stored))
      BY <2>2 DEF Oldest
    <3>3. Cardinality(Stored \ V) = Cardinality(Stored) - Cardinality(V)
      <4>1. Stored \cap V = V
        BY <3>2
      <4> QED BY <4>1, FS_Difference DEF FiniteTable
    <3>4. Cardinality(Stored \ V) <= MaxEntries + n
      BY <3>1, <3>2, <3>3
    <3> QED BY <3>4, <2>1, <2>3 DEF Owed
  <2> QED BY <2>1, <2>4, EntryShrinks
<1>4. CASE EvictRow(t)
  <2>1. PICK k \in doomed[t] :
          /\ rows' = [rows EXCEPT ![k] = None]
          /\ doomed' = [doomed EXCEPT ![t] = @ \ {k}]
    BY <1>4 DEF EvictRow
  <2>2. Stored' \subseteq Stored /\ k \notin Stored'
    BY <2>1 DEF Stored, CacheTypeOK
  <2>3. /\ pc[t] = "evict" /\ pc'[t] \in {"evict", "evictBody"}
        /\ doomed'[t] = doomed[t] \ {k} /\ restarts' = restarts /\ Inserting' = Inserting
        /\ \A s \in Tasks \ {t} :
             pc'[s] = pc[s] /\ overflow'[s] = overflow[s] /\ doomed'[s] = doomed[s]
    BY <1>4, <2>1 DEF EvictRow, CacheTypeOK, world
  <2>4. ASSUME NEW n \in Nat, Owed(t, n)
        PROVE  Owed(t, n)'
    <3>1. Stored' \ doomed'[t] \subseteq Stored \ doomed[t]
      BY <2>2, <2>3
    <3>2. IsFiniteSet(Stored \ doomed[t])
      BY FS_Subset DEF FiniteTable
    <3>3. /\ Cardinality(Stored \ doomed[t]) \in Nat
          /\ Cardinality(Stored' \ doomed'[t]) \in Nat
          /\ Cardinality(Stored' \ doomed'[t]) <= Cardinality(Stored \ doomed[t])
      BY <3>1, <3>2, FS_Subset, FS_CardinalityType
    <3> QED BY <3>3, <2>3, <2>4, ConfigAssumption DEF Owed
  <2> QED BY <2>2, <2>3, <2>4, EntryShrinks
<1>5. CASE EvictBody(t)
  <2>1. /\ Stored' = Stored /\ restarts' = restarts /\ Inserting' = Inserting
        /\ \A s \in Tasks \ {t} :
             pc'[s] = pc[s] /\ overflow'[s] = overflow[s] /\ doomed'[s] = doomed[s]
        /\ \A n \in Nat : Owed(t, n) => Owed(t, n)'
    BY <1>5 DEF EvictBody, Stored, CacheTypeOK, Owed, world
  <2> QED BY <2>1, EntryShrinks
<1>6. CASE Evicted(t)
  <2>1. /\ Stored' = Stored /\ restarts' = restarts
        /\ t \in Inserting /\ Inserting' = Inserting \ {t}
        /\ \A s \in Inserting' :
             pc'[s] = pc[s] /\ overflow'[s] = overflow[s] /\ doomed'[s] = doomed[s]
    BY <1>6 DEF Evicted, Stored, disk, world, CacheTypeOK
  <2>2. ASSUME NEW rank, Ranks(rank)
        PROVE  Cardinality(Stored) <= MaxEntries + Cardinality(Later(Inserting, rank, t))
    <3>1. Stored \ doomed[t] = Stored
      BY <1>6 DEF Evicted
    <3>2. Owed(t, Cardinality(Later(Inserting, rank, t)))
      BY <2>1, <2>2 DEF Ranks
    <3> QED BY <3>1, <3>2, <1>6 DEF Evicted, Owed
  <2> QED BY <2>1, <2>2, EntryLeaves
<1>7. CASE StoreFails(t)
  BY <1>7 DEF StoreFails
<1>8. CASE WithdrawBody(t)
  <2>1. /\ Stored' = Stored /\ restarts' = restarts /\ Inserting' = Inserting
        /\ UNCHANGED <<overflow, doomed>>
        /\ \A s \in Inserting : pc'[s] = pc[s]
    BY <1>8 DEF WithdrawBody, Stored, CacheTypeOK, world
  <2> QED BY <2>1, EntryShrinks
<1> QED BY <1>1, <1>2, <1>3, <1>4, <1>5, <1>6, <1>7, <1>8 DEF StoreStep

LEMMA EntryStep ==
  ASSUME CacheTypeOK, FiniteTable, EntryInv, [CacheNext]_cacheVars
  PROVE  EntryInv'
<1>1. CASE MayFail
  BY <1>1 DEF EntryInv
<1>2. ASSUME NEW t \in Tasks, Call(t) \/ GetStep(t) \/ GetDropped(t) \/ Return(t)
      PROVE  EntryInv'
  <2>1. /\ Stored' \subseteq Stored /\ restarts' = restarts /\ Inserting' = Inserting
        /\ \A s \in Inserting :
             pc'[s] = pc[s] /\ overflow'[s] = overflow[s] /\ doomed'[s] = doomed[s]
    BY <1>2, UnrelatedSteps
  <2> QED BY <2>1, EntryShrinks
<1>3. CASE Restart
  <2>1. restarts' # 0
    BY <1>3 DEF Restart, CacheTypeOK
  <2> QED BY <2>1 DEF EntryInv
<1>4. CASE Tick \/ UNCHANGED cacheVars
  BY <1>4, EntryShrinks DEF Tick, cacheVars, disk, world, call, Inserting, Stored
<1> QED BY <1>1, <1>2, <1>3, <1>4, EntryStoreStep DEF CacheNext, CacheStep

(* max_entries holds but for one row per store under way: each store       *)
(* evicts what was too much when it counted, and what came later is for    *)
(* later stores (cache.rs:225-249).                                        *)
THEOREM EntryLimitHolds == CacheSpec => []EntryLimit
<1>1. CacheInit => EntryInv
  <2> SUFFICES ASSUME CacheInit
               PROVE  EntryInv
    OBVIOUS
  <2>1. Inserting = {} /\ Stored = {}
    BY DEF CacheInit, Inserting, Stored
  <2>2. Cardinality(Stored) = 0 /\ Cardinality(Inserting) = 0 /\ IsFiniteSet(Inserting)
    BY <2>1, FS_EmptySet
  <2>3. Ranks([t \in Tasks |-> 0])
    BY <2>1 DEF Ranks
  <2> QED BY <2>2, <2>3, ConfigAssumption DEF EntryInv
<1>2. CacheTypeOK /\ FiniteTable /\ EntryInv /\ [CacheNext]_cacheVars => EntryInv'
  BY EntryStep
<1>3. EntryInv => EntryLimit
  BY DEF EntryInv, EntryLimit
<1> QED BY <1>1, <1>2, <1>3, CacheTypeCorrect, PTL DEF CacheSpec
=============================================================================
