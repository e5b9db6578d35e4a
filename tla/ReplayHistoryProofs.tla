------------------------ MODULE ReplayHistoryProofs ------------------------
(* Theorems about ReplayHistory, for every value of its constants.         *)
EXTENDS ReplayHistory, CachePipelineProofs

(***************************************************************************)
(* The history only watches: what is proved of the pipeline holds of it.   *)
(***************************************************************************)
LEMMA HistoryOnlyWatches == HistorySpec => Spec
<1>1. HistoryInit => Init
  BY DEF HistoryInit
<1>2. [HistoryNext]_historyVars => [Next]_vars
  BY DEF HistoryNext, historyVars
<1> QED BY <1>1, <1>2, PTL DEF HistorySpec, Spec

PipelineFacts ==
  /\ TypeOK /\ FreshInv /\ BodyInv
  /\ PermitDiscipline /\ ReadInv /\ ReplayNotOlder

LEMMA PipelineFactsHold == HistorySpec => []PipelineFacts
<1>1. PipelineInv /\ BodyInv /\ PermitDiscipline /\ ReadInv /\ ReplayNotOlder
        => PipelineFacts
  BY DEF PipelineInv, PipelineFacts
<1> QED
  BY <1>1, HistoryOnlyWatches, PipelineInvariant, BodyInvariant,
     PermitsAreDisciplined, ReadInvariant, ReplaysAreNotOlder, PTL

(***************************************************************************)
(* What one step does to the history and to the files.                     *)
(***************************************************************************)

(* A statement of the cache commits no response: it keeps the clock, the   *)
(* count and the times lookups were called at, and at most removes a file. *)
LEMMA CallFiles ==
  ASSUME CacheTypeOK, NEW r \in Requests, CacheStep(r)
  PROVE  /\ bodies' = bodies /\ clock' = clock /\ now' = now
         /\ files' = files \/ \E k \in GetKeys : files' = [files EXCEPT ![k] = NoBody]
<1> USE DEF CacheTypeOK, Requests, disk, world
<1>1. CASE GetStep(r)
  BY <1>1 DEF GetStep, SelectRow, BodyExists, Touch, DeletePath, DeleteRow, UnlinkBody,
              Unlink, GetFails
<1>2. CASE StoreStep(r)
  BY <1>2 DEF StoreStep, UpsertRow, CountRows, PickVictims, EvictRow, EvictBody, Unlink,
              Evicted, StoreFails, WithdrawBody
<1> QED BY <1>1, <1>2 DEF CacheStep

(* It writes a row only as a store's INSERT, and otherwise keeps, touches  *)
(* or removes it.                                                          *)
LEMMA CallRows ==
  ASSUME CacheTypeOK, NEW r \in Requests, CacheStep(r), NEW k \in Keys, rows'[k] # None
  PROVE  \/ rows[k] # None /\ Published(k, rows'[k]) = Published(k, rows[k])
         \/ pc[r] = "upsert" /\ key[r] = k /\ rows'[k] = entry[r]
<1> USE DEF CacheTypeOK, Requests, Published, disk
<1>1. CASE Touch(r)
  BY <1>1 DEF Touch, Row
<1>2. CASE GetStep(r) /\ ~Touch(r)
  BY <1>2 DEF GetStep, SelectRow, BodyExists, DeletePath, DeleteRow, UnlinkBody, GetFails
<1>3. CASE UpsertRow(r)
  BY <1>3 DEF UpsertRow
<1>4. CASE EvictRow(r)
  BY <1>4 DEF EvictRow
<1>5. CASE StoreStep(r) /\ ~UpsertRow(r) /\ ~EvictRow(r)
  BY <1>5 DEF StoreStep, CountRows, PickVictims, EvictBody, Evicted, StoreFails,
              WithdrawBody
<1> QED BY <1>1, <1>2, <1>3, <1>4, <1>5 DEF CacheStep

(* No statement leads to an INSERT, and a lookup goes on with a row only   *)
(* if it had not expired when the lookup was called.                       *)
LEMMA CallLive ==
  ASSUME CacheTypeOK, NEW r \in Requests, CacheStep(r)
  PROVE  /\ pc'[r] # "upsert"
         /\ pc[r] = "select" /\ pc'[r] \in {"exists", "touch", "hit"}
              => entry'[r].expires > now[r]
<1> USE DEF CacheTypeOK, Goto, Requests
<1>1. CASE SelectRow(r)
  BY <1>1 DEF SelectRow, AfterSelect, Row
<1>2. CASE GetStep(r) /\ ~SelectRow(r)
  BY <1>2 DEF GetStep, BodyExists, Touch, DeletePath, DeleteRow, UnlinkBody, GetFails
<1>3. CASE StoreStep(r)
  BY <1>3 DEF StoreStep, UpsertRow, CountRows, PickVictims, EvictRow, EvictBody,
              Evicted, StoreFails, WithdrawBody
<1> QED BY <1>1, <1>2, <1>3 DEF CacheStep

(* Only the end of a stream commits a response, and it commits one.        *)
LEMMA CommitIsLogged ==
  ASSUME TypeOK, NEW r \in Requests, Commit(r), log' = log \cup Committed
  PROVE  /\ log' = log \cup {Published(url[r], entry'[r])}
         /\ url[r] \in GetKeys /\ url' = url
         /\ stage' = [stage EXCEPT ![r] = "store"]
         /\ bodies' = bodies + 1
         /\ files' = [files EXCEPT ![url[r]] = bodies + 1]
         /\ entry'[r].body = bodies + 1 /\ entry'[r].expires = fresh[r].expires
<1> USE DEF TypeOK, CacheTypeOK, Commit, CallStoreBody, Enter, Requests
<1>1. {q \in Requests : stage[q] = "stream" /\ stage'[q] = "store"} = {r}
  OBVIOUS
<1>2. log' = log \cup {Published(url[r], entry'[r])}
  BY <1>1 DEF Committed
<1> QED BY <1>2

LEMMA NothingElseIsLogged ==
  ASSUME TypeOK, [HistoryNext]_historyVars, \A r \in Requests : ~Commit(r)
  PROVE  log' = log
<1>1. CASE UNCHANGED historyVars
  BY <1>1 DEF historyVars
<1>2. CASE HistoryNext
  <2> SUFFICES ASSUME NEW q \in Requests, stage[q] = "stream", stage'[q] = "store"
               PROVE  FALSE
    BY <1>2 DEF HistoryNext, Committed
  <2> USE DEF TypeOK, Enter, Finish, Requests
  <2>1. ASSUME NEW r \in Requests,
               \/ ReplayHead(r) \/ GoUpstream(r) \/ LookupError(r) \/ StoreEnds(r)
               \/ CallStep(r) \/ ReplayBody(r) \/ Disconnect(r) \/ ReplayEnds(r)
               \/ NotCacheable(r) \/ WriteInProgress(r) \/ Discard(r)
        PROVE  FALSE
    BY <2>1 DEF ReplayHead, GoUpstream, LookupError, StoreEnds, CallStep, ReplayBody,
                Disconnect, ReplayEnds, NotCacheable, WriteInProgress, Discard
  <2>2. ASSUME NEW r \in Requests,
               StoreHead(r) \/ StartWriter(r) \/ (\E k \in Keys : Receive(r, k))
        PROVE  FALSE
    BY <2>2 DEF StoreHead, StartWriter, Receive
  <2>3. CASE Time \/ Crash
    BY <2>3 DEF Time, Crash
  <2> QED BY <1>2, <2>1, <2>2, <2>3 DEF HistoryNext, Next, Proceed
<1> QED BY <1>1, <1>2

(***************************************************************************)
(* What is in the history.                                                 *)
(***************************************************************************)

(* A response in the history has a key and a number of its own.            *)
LogInv ==
  /\ \A e \in log : e.url \in GetKeys /\ e.body \in 1..bodies
  /\ \A e, f \in log : e.body = f.body => e = f

(* Every row, every row a store is about to insert and every row a lookup  *)
(* goes on with is that of a response committed for its key; the lookup's  *)
(* had not expired when it was called.                                     *)
RowsLogged ==
  \A k \in GetKeys : rows[k] # None => Published(k, rows[k]) \in log

PendingLogged ==
  \A r \in Requests :
    stage[r] = "store" /\ pc[r] = "upsert" /\ url[r] \in GetKeys
      => Published(url[r], entry[r]) \in log

ReadLogged ==
  \A r \in Requests :
    Read(r) /\ url[r] \in GetKeys
      => Published(url[r], entry[r]) \in log /\ entry[r].expires > now[r]

HistoryInv ==
  /\ LogInv /\ RowsLogged /\ PendingLogged /\ ReadLogged

LEMMA HistoryCommit ==
  ASSUME PipelineFacts, HistoryInv, NEW r \in Requests, Commit(r),
         log' = log \cup Committed
  PROVE  HistoryInv'
<1> USE DEF HistoryInv, PipelineFacts
<1> DEFINE new == Published(url[r], entry'[r])
<1>1. /\ log' = log \cup {new}
      /\ new.url = url[r] /\ new.body = bodies + 1
      /\ url[r] \in GetKeys /\ url' = url
      /\ stage' = [stage EXCEPT ![r] = "store"]
      /\ bodies' = bodies + 1 /\ bodies \in Nat
      /\ files' = [files EXCEPT ![url[r]] = bodies + 1]
      /\ files \in [GetKeys -> Nat] /\ stage[r] = "stream"
  BY CommitIsLogged DEF Published, Commit, TypeOK, CacheTypeOK
<1>2. /\ rows' = rows /\ now' = now /\ replay' = replay /\ key' = [key EXCEPT ![r] = url[r]]
      /\ \A s \in Requests : s # r =>
           stage'[s] = stage[s] /\ pc'[s] = pc[s] /\ entry'[s] = entry[s]
      /\ stage'[r] = "store"
  BY DEF Commit, CallStoreBody, Enter, Goto, TypeOK, CacheTypeOK, Requests
<1> HIDE DEF new
<1>3. LogInv'
  BY <1>1 DEF LogInv
<1>4. RowsLogged'
  BY <1>1, <1>2 DEF RowsLogged
<1>5. PendingLogged'
  BY <1>1, <1>2 DEF PendingLogged, new
<1>6. ReadLogged'
  BY <1>1, <1>2 DEF ReadLogged, Read
<1> QED BY <1>3, <1>4, <1>5, <1>6

LEMMA HistoryCall ==
  ASSUME PipelineFacts, HistoryInv, NEW r \in Requests, CallStep(r), log' = log
  PROVE  HistoryInv'
<1> USE DEF HistoryInv, PipelineFacts
<1>1. /\ CacheTypeOK /\ CacheStep(r) /\ r \in Tasks
      /\ stage' = stage /\ url' = url /\ replay' = replay
  BY DEF CallStep, TypeOK, Requests
<1>2. /\ bodies' = bodies /\ now' = now
      /\ \A k \in GetKeys : files'[k] \in {files[k], NoBody}
  BY <1>1, CallFiles DEF CacheTypeOK
<1>3. LogInv'
  BY <1>2 DEF LogInv
<1>4. RowsLogged'
  <2> SUFFICES ASSUME NEW k \in GetKeys, rows'[k] # None
               PROVE  Published(k, rows'[k]) \in log
    BY DEF RowsLogged
  <2>1. k \in Keys
    BY DEF Keys
  <2>2. CASE rows[k] # None /\ Published(k, rows'[k]) = Published(k, rows[k])
    BY <2>2 DEF RowsLogged
  <2>3. CASE pc[r] = "upsert" /\ key[r] = k /\ rows'[k] = entry[r]
    <3>1. stage[r] = "store" /\ url[r] = k
      BY <2>3 DEF TypeOK, Stages, LookupLabels, Requests
    <3> QED BY <2>3, <3>1 DEF PendingLogged
  <2> QED BY <1>1, <2>1, <2>2, <2>3, CallRows
<1>5. PendingLogged'
  BY <1>1, CallLabels, CallLive DEF PendingLogged, Requests
<1>6. ReadLogged'
  <2> SUFFICES ASSUME NEW s \in Requests, Read(s)', url'[s] \in GetKeys
               PROVE  Published(url[s], entry'[s]) \in log /\ entry'[s].expires > now'[s]
    BY <1>1 DEF ReadLogged
  <2>1. CASE Read(s) /\ entry'[s] = entry[s]
    BY <1>1, <1>2, <2>1 DEF ReadLogged
  <2>2. CASE /\ s = r /\ pc[r] = "select" /\ entry'[r] = rows[key[r]] /\ entry'[r] # None
             /\ stage[r] = "lookup" /\ pc'[r] \in {"exists", "touch", "hit"}
    <3>1. key[r] = url[r]
      BY <2>2 DEF TypeOK
    <3>2. Published(url[s], entry'[s]) \in log
      BY <1>1, <2>2, <3>1 DEF RowsLogged
    <3>3. entry'[s].expires > now'[s]
      BY <1>1, <1>2, <2>2, CallLive
    <3> QED BY <3>2, <3>3
  <2> QED BY <1>1, <2>1, <2>2, CallLabels DEF Read, Requests
<1> QED BY <1>3, <1>4, <1>5, <1>6

(* A step that touches no row, no file and no call of another request, and *)
(* leaves its own request with no row to insert and none it has read.      *)
LEMMA HistoryQuiet ==
  ASSUME HistoryInv, log' = log, bodies' = bodies,
         \A k \in GetKeys : files'[k] \in {files[k], NoBody},
         \A k \in Keys : rows'[k] \in {rows[k], None},
         \A s \in Requests :
           /\ stage'[s] = "store" /\ pc'[s] = "upsert" =>
                /\ stage[s] = "store" /\ pc[s] = "upsert"
                /\ url'[s] = url[s] /\ entry'[s] = entry[s]
           /\ stage'[s] = "lookup" /\ pc'[s] \in {"exists", "touch", "hit"} =>
                /\ stage[s] = "lookup" /\ pc[s] \in {"exists", "touch", "hit"}
                /\ url'[s] = url[s] /\ entry'[s] = entry[s] /\ now'[s] = now[s]
  PROVE  HistoryInv'
<1> USE DEF HistoryInv
<1>1. LogInv'
  BY DEF LogInv
<1>2. RowsLogged'
  BY DEF RowsLogged, Keys
<1>3. PendingLogged'
  BY DEF PendingLogged
<1>4. ReadLogged'
  BY DEF ReadLogged, Read
<1> QED BY <1>1, <1>2, <1>3, <1>4

LEMMA HistoryRest ==
  ASSUME PipelineFacts, HistoryInv, [Next]_vars, log' = log,
         \A r \in Requests : ~Commit(r) /\ ~CallStep(r)
  PROVE  HistoryInv'
<1> USE DEF PipelineFacts, TypeOK, CacheTypeOK, Enter, Finish, Clear, Goto, Requests,
            disk, world
<1>1. ASSUME NEW r \in Requests, NEW k \in Keys, Receive(r, k)
      PROVE  HistoryInv'
  BY <1>1, HistoryQuiet DEF Receive, CallGet
<1>2. ASSUME NEW r \in Requests,
             \/ ReplayHead(r) \/ ReplayBody(r) \/ GoUpstream(r)
             \/ LookupError(r) \/ StoreEnds(r)
      PROVE  HistoryInv'
  BY <1>2, HistoryQuiet
  DEF ReplayHead, ReplayBody, GoUpstream, LookupError, StoreEnds, Return
<1>3. ASSUME NEW r \in Requests, Disconnect(r)
      PROVE  HistoryInv'
  BY <1>3, HistoryQuiet DEF Disconnect, GetDropped
<1>4. ASSUME NEW r \in Requests,
             \/ ReplayEnds(r) \/ NotCacheable(r) \/ WriteInProgress(r)
             \/ StartWriter(r) \/ Discard(r)
      PROVE  HistoryInv'
  BY <1>4, HistoryQuiet DEF ReplayEnds, NotCacheable, WriteInProgress, StartWriter,
     Discard, cacheVars, call
<1>5. ASSUME NEW r \in Requests, StoreHead(r)
      PROVE  HistoryInv'
  <2>1. url[r] \notin GetKeys
    BY <1>5, KeysAssumption DEF StoreHead
  <2>2. LogInv' /\ RowsLogged'
    BY <1>5 DEF StoreHead, CallStoreHead, HistoryInv, LogInv, RowsLogged
  <2>3. PendingLogged' /\ ReadLogged'
    BY <1>5, <2>1 DEF StoreHead, CallStoreHead, HistoryInv, PendingLogged, ReadLogged, Read
  <2> QED BY <2>2, <2>3 DEF HistoryInv
<1>6. CASE Time
  BY <1>6, HistoryQuiet DEF Time, Tick, call
<1>7. CASE Crash
  BY <1>7, HistoryQuiet DEF Crash, Restart
<1>8. CASE UNCHANGED vars
  BY <1>8, HistoryQuiet DEF vars, cacheVars, call
<1> QED BY <1>1, <1>2, <1>3, <1>4, <1>5, <1>6, <1>7, <1>8 DEF Next, Proceed

LEMMA HistoryStep ==
  ASSUME PipelineFacts, HistoryInv, [HistoryNext]_historyVars
  PROVE  HistoryInv'
<1>1. [Next]_vars
  BY DEF HistoryNext, historyVars
<1>2. ASSUME NEW r \in Requests, Commit(r)
      PROVE  HistoryInv'
  <2>1. log' = log \cup Committed
    <3>1. stage' # stage
      BY <1>2 DEF Commit, Enter, PipelineFacts, TypeOK
    <3> QED BY <3>1 DEF HistoryNext, historyVars, vars
  <2> QED BY <1>2, <2>1, HistoryCommit
<1>3. CASE \A r \in Requests : ~Commit(r)
  <2>1. log' = log
    BY <1>3, NothingElseIsLogged DEF PipelineFacts
  <2>2. ASSUME NEW r \in Requests, CallStep(r)
        PROVE  HistoryInv'
    BY <2>1, <2>2, HistoryCall
  <2> QED BY <1>1, <1>3, <2>1, <2>2, HistoryRest
<1> QED BY <1>2, <1>3

LEMMA HistoryInvariant == HistorySpec => []HistoryInv
<1>1. HistoryInit => HistoryInv
  BY DEF HistoryInit, HistoryInv, Init, CacheInit, LogInv, RowsLogged,
         PendingLogged, ReadLogged, Read, Requests, Keys, NoBody
<1>2. PipelineFacts /\ HistoryInv /\ [HistoryNext]_historyVars => HistoryInv'
  BY HistoryStep
<1> QED BY <1>1, <1>2, PipelineFactsHold, PTL DEF HistorySpec

(***************************************************************************)
(* What a crash tears.                                                     *)
(***************************************************************************)

(* A restart adds no row and no file, and it keeps the two together.       *)
LEMMA CrashPairs ==
  ASSUME NEW k \in GetKeys, Crash, Mixed(k)'
  PROVE  Mixed(k)
BY DEF Crash, Restart, Mixed, Keys, NoBody

LEMMA TornStep ==
  ASSUME TypeOK, PermitDiscipline, PendingIsOwn, OnlyCutCommitsTear,
         [HistoryNext]_historyVars
  PROVE  OnlyCutCommitsTear'
<1> SUFFICES ASSUME NEW k \in GetKeys, Mixed(k)'
             PROVE  k \in torn' \/ \E r \in Requests : InWindow(r, k)'
  BY DEF OnlyCutCommitsTear
<1>1. [Next]_vars
  BY DEF HistoryNext, historyVars
<1>2. CASE UNCHANGED historyVars
  BY <1>2 DEF historyVars, vars, cacheVars, call, disk, OnlyCutCommitsTear, Mixed, InWindow
<1>3. CASE HistoryNext /\ Crash
  <2>1. restarts' # restarts
    BY <1>1, <1>3, RestartsStep DEF TypeOK, CacheTypeOK
  <2>2. k \in torn \/ k \in Cut
    BY <1>3, <2>1, CrashPairs DEF OnlyCutCommitsTear, Cut
  <2> QED BY <1>3, <2>2 DEF HistoryNext
<1>4. CASE HistoryNext /\ ~Crash
  <2>1. CASE \E s \in Requests : InWindow(s, k)'
    BY <2>1
  <2>2. CASE Mixed(k) /\ \A s \in Requests : ~InWindow(s, k)
    <3>1. k \in torn
      BY <2>2 DEF OnlyCutCommitsTear
    <3> QED BY <1>4, <3>1 DEF HistoryNext
  <2> QED BY <1>1, <1>4, <2>1, <2>2, WindowStep DEF StaysPaired
<1> QED BY <1>2, <1>3, <1>4

(* Over any number of crashes, a row leads to another response's body only *)
(* in its own writer's window or where a crash has cut a commit of that    *)
(* very key, and only until the pair is next replaced, deleted or evicted  *)
(* (cache_pipeline.rs:195-217, cache.rs:197-283).                          *)
THEOREM OnlyCutCommitsTearHolds == HistorySpec => []OnlyCutCommitsTear
<1>1. HistoryInit => OnlyCutCommitsTear
  BY DEF HistoryInit, Init, CacheInit, OnlyCutCommitsTear, Mixed, Keys
<1>2. TypeOK /\ PermitDiscipline /\ PendingIsOwn /\ OnlyCutCommitsTear
        /\ [HistoryNext]_historyVars => OnlyCutCommitsTear'
  BY TornStep
<1> QED
  BY <1>1, <1>2, HistoryOnlyWatches, TypeCorrect, PermitsAreDisciplined,
     PendingInvariant, PTL DEF HistorySpec

(***************************************************************************)
(* What the delete of a lookup takes.                                      *)
(***************************************************************************)

(* No body is committed under the number a lookup found.                   *)
FoundInv == \A r \in Requests : Deciding(r) => found[r] \in 0..bodies

(* A store's INSERT will bring a row that is not there yet, and that was   *)
(* not there when any lookup of its key was called.                        *)
PendingIsNew ==
  \A s \in Requests :
    stage[s] = "store" /\ pc[s] = "upsert" /\ url[s] \in GetKeys =>
      /\ rows[url[s]] # None => rows[url[s]].body # entry[s].body
      /\ \A r \in Requests :
           Deciding(r) /\ url[r] = url[s] => found[r] # entry[s].body

(* A lookup that is going to delete has cause to, as far as the row it was *)
(* called with is concerned.                                               *)
DeleteIsDue ==
  \A r \in Requests :
    pc[r] \in {"deletePath", "deleteRow"} /\ url[r] \in GetKeys
    /\ rows[url[r]] # None /\ rows[url[r]].body = found[r]
      => rows[url[r]].expires <= now[r] \/ files[url[r]] # rows[url[r]].body

SpareInv == FoundInv /\ PendingIsNew /\ DeleteIsDue

(* A committed response has a body, and so has what a row leads to.        *)
LEMMA CommittedHasBody ==
  ASSUME bodies \in Nat, LogInv, NEW k, NEW row, Published(k, row) \in log
  PROVE  row.body # NoBody
<1>1. Published(k, row).body \in 1..bodies
  BY DEF LogInv
<1> QED BY <1>1 DEF Published, NoBody

(* How a call comes to delete: the row has expired, or the body is missing.*)
LEMMA CallDecides ==
  ASSUME CacheTypeOK, NEW r \in Requests, CacheStep(r), Deciding(r)'
  PROVE  /\ Deciding(r)
         /\ pc'[r] \in {"deletePath", "deleteRow"} =>
              /\ rows' = rows /\ files' = files
              /\ \/ pc[r] = "deletePath"
                 \/ pc[r] = "select" /\ rows[key[r]].expires <= now[r]
                 \/ pc[r] = "exists" /\ files[key[r]] = NoBody
<1> USE DEF CacheTypeOK, Deciding, Goto, Requests, disk
<1>1. CASE SelectRow(r)
  BY <1>1 DEF SelectRow, AfterSelect
<1>2. CASE GetStep(r) /\ ~SelectRow(r)
  BY <1>2 DEF GetStep, BodyExists, Touch, DeletePath, DeleteRow, UnlinkBody, GetFails
<1>3. CASE StoreStep(r)
  BY <1>3 DEF StoreStep, UpsertRow, CountRows, PickVictims, EvictRow, EvictBody,
              Evicted, StoreFails, WithdrawBody
<1> QED BY <1>1, <1>2, <1>3 DEF CacheStep

(* A lookup that goes on keeps what it found.                              *)
LEMMA FoundStays ==
  ASSUME [HistoryNext]_historyVars, NEW r \in Requests, Deciding(r), Deciding(r)'
  PROVE  found'[r] = found[r]
BY DEF HistoryNext, historyVars

LEMMA SpareReceive ==
  ASSUME PipelineFacts, HistoryInv, SpareInv, HistoryNext,
         NEW r \in Requests, NEW k \in Keys, Receive(r, k)
  PROVE  SpareInv'
<1> USE DEF PipelineFacts, TypeOK, CacheTypeOK, SpareInv
<1>1. /\ rows' = rows /\ files' = files /\ bodies' = bodies /\ entry' = entry
      /\ ~Deciding(r) /\ pc'[r] = "select" /\ url'[r] = k /\ stage'[r] = "lookup"
      /\ \A s \in Requests : s # r =>
           /\ pc'[s] = pc[s] /\ stage'[s] = stage[s] /\ url'[s] = url[s]
           /\ now'[s] = now[s]
  BY DEF Receive, CallGet, Enter, Goto, Deciding, disk, Requests
<1>2. found'[r] = RowBody(k)
  BY <1>1 DEF HistoryNext, Deciding
<1>3. \A s \in Requests : s # r /\ Deciding(s)' => Deciding(s) /\ found'[s] = found[s]
  BY <1>1, FoundStays DEF Deciding
<1>4. FoundInv'
  <2>1. RowBody(k) \in 0..bodies
    BY DEF RowBody, BodyInv, Numbered, Row, NoBody
  <2> QED BY <1>1, <1>2, <1>3, <2>1 DEF FoundInv
<1>5. PendingIsNew'
  <2> SUFFICES ASSUME NEW s \in Requests,
                      stage[s] = "store", pc[s] = "upsert", url[s] \in GetKeys, s # r
               PROVE  /\ rows[url[s]] # None => rows[url[s]].body # entry[s].body
                      /\ \A q \in Requests :
                           Deciding(q)' /\ url'[q] = url[s] => found'[q] # entry[s].body
    BY <1>1 DEF PendingIsNew
  <2>1. entry[s].body # NoBody
    BY CommittedHasBody DEF HistoryInv, PendingLogged
  <2>2. url[s] = k => RowBody(k) # entry[s].body
    BY <2>1 DEF RowBody, PendingIsNew
  <2> QED BY <1>1, <1>2, <1>3, <2>2 DEF PendingIsNew
<1>6. DeleteIsDue'
  BY <1>1, <1>3 DEF DeleteIsDue, Deciding
<1> QED BY <1>4, <1>5, <1>6

LEMMA SpareCall ==
  ASSUME PipelineFacts, HistoryInv, SpareInv, HistoryNext,
         NEW r \in Requests, CallStep(r)
  PROVE  SpareInv'
<1> USE DEF PipelineFacts, TypeOK, SpareInv
<1>1. /\ CacheTypeOK /\ CacheStep(r) /\ r \in Tasks
      /\ stage' = stage /\ url' = url
  BY DEF CallStep, Requests
<1>2. /\ bodies' = bodies /\ now' = now /\ key' = key
      /\ \A k \in GetKeys : files'[k] \in {files[k], NoBody}
      /\ \A s \in Requests : s # r => pc'[s] = pc[s] /\ entry'[s] = entry[s]
  BY <1>1, CallFiles, CallLabels DEF CacheTypeOK
<1>3. \A s \in Requests : Deciding(s)' => Deciding(s) /\ found'[s] = found[s]
  <2> SUFFICES ASSUME NEW s \in Requests, Deciding(s)'
               PROVE  Deciding(s)
    BY FoundStays
  <2> QED BY <1>1, <1>2, CallDecides DEF Deciding
<1>4. FoundInv'
  BY <1>2, <1>3 DEF FoundInv
<1>5. PendingIsNew'
  <2> SUFFICES ASSUME NEW s \in Requests,
                      stage[s] = "store", pc'[s] = "upsert", url[s] \in GetKeys
               PROVE  /\ rows'[url[s]] # None => rows'[url[s]].body # entry'[s].body
                      /\ \A q \in Requests :
                           Deciding(q)' /\ url[q] = url[s] => found'[q] # entry'[s].body
    BY <1>1 DEF PendingIsNew
  <2>1. s # r /\ pc[s] = "upsert" /\ entry'[s] = entry[s]
    BY <1>1, <1>2, CallLive
  <2>2. ASSUME rows'[url[s]] # None
        PROVE  rows'[url[s]].body # entry[s].body
    <3>1. url[s] \in Keys
      BY DEF Keys
    <3>2. CASE /\ rows[url[s]] # None
               /\ Published(url[s], rows'[url[s]]) = Published(url[s], rows[url[s]])
      BY <2>1, <3>2 DEF PendingIsNew, Published
    <3>3. CASE pc[r] = "upsert" /\ key[r] = url[s]
      <4>1. stage[r] = "store" /\ url[r] = url[s]
        BY <1>1, <3>3 DEF Stages, LookupLabels, Requests
      <4> QED BY <2>1, <4>1 DEF PermitDiscipline, Writers
    <3> QED BY <1>1, <2>2, <3>1, <3>2, <3>3, CallRows
  <2> QED BY <1>3, <2>1, <2>2 DEF PendingIsNew
<1>6. DeleteIsDue'
  <2> SUFFICES ASSUME NEW q \in Requests, pc'[q] \in {"deletePath", "deleteRow"},
                      url[q] \in GetKeys, rows'[url[q]] # None,
                      rows'[url[q]].body = found'[q]
               PROVE  rows'[url[q]].expires <= now[q] \/ files'[url[q]] # rows'[url[q]].body
    BY <1>1, <1>2 DEF DeleteIsDue
  <2>1. Deciding(q) /\ found'[q] = found[q]
    BY <1>3 DEF Deciding
  <2>2. url[q] \in Keys
    BY DEF Keys
  <2>3. CASE pc[r] = "upsert" /\ key[r] = url[q] /\ rows'[url[q]] = entry[r]
    <3>1. stage[r] = "store" /\ url[r] = url[q]
      BY <1>1, <2>3 DEF Stages, LookupLabels, Requests
    <3>2. found[q] # entry[r].body
      BY <2>1, <2>3, <3>1 DEF PendingIsNew
    <3> QED BY <2>1, <2>3, <3>2
  <2>4. CASE /\ rows[url[q]] # None
             /\ Published(url[q], rows'[url[q]]) = Published(url[q], rows[url[q]])
    <3>1. /\ rows'[url[q]].body = rows[url[q]].body
          /\ rows'[url[q]].expires = rows[url[q]].expires
      BY <2>4 DEF Published
    <3>2. rows[url[q]].body # NoBody
      BY <2>4, CommittedHasBody DEF HistoryInv, RowsLogged, CacheTypeOK
    <3>3. CASE pc[q] \in {"deletePath", "deleteRow"}
      BY <1>2, <2>1, <2>4, <3>1, <3>2, <3>3 DEF DeleteIsDue
    <3>4. CASE q = r /\ pc[r] \notin {"deletePath", "deleteRow"}
      <4>1. key[r] = url[r]
        BY <1>1, <2>1, <3>4 DEF Deciding, Stages, Requests
      <4>2. /\ rows' = rows /\ files' = files
            /\ rows[key[r]].expires <= now[r] \/ files[key[r]] = NoBody
        BY <1>1, <3>4, CallDecides DEF Deciding
      <4> QED BY <3>1, <3>2, <3>4, <4>1, <4>2
    <3> QED BY <1>2, <3>3, <3>4
  <2> QED BY <1>1, <2>2, <2>3, <2>4, CallRows
<1> QED BY <1>4, <1>5, <1>6

LEMMA SpareCommit ==
  ASSUME PipelineFacts, HistoryInv, SpareInv, HistoryNext,
         NEW r \in Requests, Commit(r)
  PROVE  SpareInv'
<1> USE DEF PipelineFacts, TypeOK, CacheTypeOK, SpareInv
<1>1. /\ rows' = rows /\ url' = url /\ now' = now
      /\ bodies' = bodies + 1 /\ bodies \in Nat
      /\ files' = [files EXCEPT ![url[r]] = bodies + 1]
      /\ pc'[r] = "upsert" /\ entry'[r].body = bodies + 1
      /\ \A s \in Requests : s # r =>
           stage'[s] = stage[s] /\ pc'[s] = pc[s] /\ entry'[s] = entry[s]
  BY DEF Commit, CallStoreBody, Enter, Goto, Requests
<1>2. \A s \in Requests : Deciding(s)' => Deciding(s) /\ found'[s] = found[s]
  BY <1>1, FoundStays DEF Deciding
<1>3. \A k \in GetKeys : rows[k] # None => rows[k].body \in 0..bodies
  BY DEF BodyInv, Numbered, Row, Keys
<1>4. FoundInv'
  BY <1>1, <1>2 DEF FoundInv
<1>5. PendingIsNew'
  BY <1>1, <1>2, <1>3 DEF PendingIsNew, FoundInv
<1>6. DeleteIsDue'
  BY <1>1, <1>2, <1>3 DEF DeleteIsDue, Deciding
<1> QED BY <1>4, <1>5, <1>6

(* A step that adds no row, no body and no store of a GET entry, and leads *)
(* no lookup on.                                                           *)
LEMMA SpareQuiet ==
  ASSUME HistoryInv, SpareInv, [HistoryNext]_historyVars, bodies \in Nat, bodies' = bodies,
         \A k \in GetKeys : files'[k] \in {files[k], NoBody},
         \A k \in GetKeys : rows'[k] \in {rows[k], None},
         \A s \in Requests :
           /\ stage'[s] = "store" /\ pc'[s] = "upsert" /\ url'[s] \in GetKeys =>
                /\ stage[s] = "store" /\ pc[s] = "upsert"
                /\ url'[s] = url[s] /\ entry'[s] = entry[s]
           /\ pc'[s] \in {"select", "exists", "deletePath", "deleteRow"} =>
                pc'[s] = pc[s] /\ url'[s] = url[s] /\ now'[s] = now[s]
  PROVE  SpareInv'
<1> USE DEF SpareInv
<1>1. \A s \in Requests : Deciding(s)' => Deciding(s) /\ found'[s] = found[s]
  BY FoundStays DEF Deciding
<1>2. FoundInv'
  BY <1>1 DEF FoundInv
<1>3. PendingIsNew'
  BY <1>1 DEF PendingIsNew, Deciding
<1>4. DeleteIsDue'
  <2>1. \A k \in GetKeys : rows[k] # None => rows[k].body # NoBody
    BY CommittedHasBody DEF HistoryInv, RowsLogged
  <2> QED BY <1>1, <2>1 DEF DeleteIsDue, Deciding
<1> QED BY <1>2, <1>3, <1>4

LEMMA SpareStep ==
  ASSUME PipelineFacts, HistoryInv, SpareInv, [HistoryNext]_historyVars
  PROVE  SpareInv'
<1>1. ASSUME HistoryNext, NEW r \in Requests, NEW k \in Keys, Receive(r, k)
      PROVE  SpareInv'
  BY <1>1, SpareReceive
<1>2. ASSUME HistoryNext, NEW r \in Requests, CallStep(r)
      PROVE  SpareInv'
  BY <1>2, SpareCall
<1>3. ASSUME HistoryNext, NEW r \in Requests, Commit(r)
      PROVE  SpareInv'
  BY <1>3, SpareCommit
<1> USE DEF PipelineFacts, TypeOK, CacheTypeOK, Enter, Finish, Clear, Goto, Requests,
            Keys, disk, world
<1>4. ASSUME NEW r \in Requests,
             \/ ReplayHead(r) \/ ReplayBody(r) \/ GoUpstream(r)
             \/ LookupError(r) \/ StoreEnds(r)
      PROVE  SpareInv'
  BY <1>4, SpareQuiet
  DEF ReplayHead, ReplayBody, GoUpstream, LookupError, StoreEnds, Return
<1>5. ASSUME NEW r \in Requests, Disconnect(r)
      PROVE  SpareInv'
  BY <1>5, SpareQuiet DEF Disconnect, GetDropped
<1>6. ASSUME NEW r \in Requests,
             \/ ReplayEnds(r) \/ NotCacheable(r) \/ WriteInProgress(r)
             \/ StartWriter(r) \/ Discard(r)
      PROVE  SpareInv'
  BY <1>6, SpareQuiet DEF ReplayEnds, NotCacheable, WriteInProgress, StartWriter,
     Discard, cacheVars, call
<1>7. ASSUME NEW r \in Requests, StoreHead(r)
      PROVE  SpareInv'
  BY <1>7, SpareQuiet, KeysAssumption DEF StoreHead, CallStoreHead
<1>8. CASE Time
  BY <1>8, SpareQuiet DEF Time, Tick, call
<1>9. CASE Crash
  BY <1>9, SpareQuiet DEF Crash, Restart
<1>10. CASE UNCHANGED historyVars
  BY <1>10, SpareQuiet DEF historyVars, vars, cacheVars, call
<1> QED
  BY <1>1, <1>2, <1>3, <1>4, <1>5, <1>6, <1>7, <1>8, <1>9, <1>10
  DEF HistoryNext, Next, Proceed

(* Whatever the other requests do, the delete of a lookup takes no entry   *)
(* that was there, live and with its own body, when the lookup was called  *)
(* (cache.rs:162-172, 258-283).                                            *)
THEOREM LookupsSpare == HistorySpec => LookupsSpareWhatWasThere
<1>1. HistoryInit => SpareInv
  BY DEF HistoryInit, Init, CacheInit, SpareInv, FoundInv, PendingIsNew, DeleteIsDue,
         Deciding, Requests
<1>2. PipelineFacts /\ HistoryInv /\ SpareInv /\ [HistoryNext]_historyVars => SpareInv'
  BY SpareStep
<1>3. SpareInv => \A r \in Requests :
                    LET k == url[r] IN
                    pc[r] = "deleteRow" /\ pc'[r] \in {"unlink", "miss"}
                    /\ k \in GetKeys /\ rows[k] # None /\ rows[k].body = found[r]
                      => rows[k].expires <= now[r] \/ files[k] # rows[k].body
  BY DEF SpareInv, DeleteIsDue
<1> QED
  BY <1>1, <1>2, <1>3, PipelineFactsHold, HistoryInvariant, PTL
  DEF HistorySpec, LookupsSpareWhatWasThere

(***************************************************************************)
(* The refinement of ReplayCache.                                          *)
(***************************************************************************)
LEMMA PromiseInit == HistoryInit => Promise!ReplayInit
BY DEF HistoryInit, Init, CacheInit, Promise!ReplayInit, Promise!Idle, Doing, Requests,
       NoBody

(* What a step does to the requests it is not about.                       *)
LEMMA BecomesOnly ==
  ASSUME NEW r \in Requests, NEW state,
         Doing(r)' = state,
         \A s \in Requests : s # r => Doing(s)' = Doing(s)
  PROVE  Promise!Become(r, state)
BY DEF Promise!Become

LEMMA PromiseCall ==
  ASSUME PipelineFacts, NEW r \in Requests, CallStep(r), log' = log
  PROVE  [Promise!ReplayNext]_(Promise!replayVars)
<1>1. /\ bodies' = bodies /\ clock' = clock /\ now' = now
      /\ files' = files \/ \E k \in GetKeys : files' = [files EXCEPT ![k] = NoBody]
  BY CallFiles DEF PipelineFacts, TypeOK, CallStep, Requests
<1>2. [s \in Requests |-> Doing(s)]' = [s \in Requests |-> Doing(s)]
  BY <1>1 DEF Doing, CallStep
<1> QED BY <1>1, <1>2 DEF Promise!ReplayNext, Promise!replayVars, Promise!Forget, NoBody

LEMMA PromiseLookup ==
  ASSUME PipelineFacts, HistoryInv, log' = log, NEW r \in Requests,
         \/ \E k \in Keys : Receive(r, k)
         \/ ReplayHead(r) \/ ReplayBody(r) \/ GoUpstream(r)
         \/ LookupError(r) \/ Disconnect(r) \/ ReplayEnds(r)
  PROVE  [Promise!ReplayNext]_(Promise!replayVars)
<1> USE DEF PipelineFacts, TypeOK, CacheTypeOK, Enter, Finish, Clear, Goto, Requests,
            disk, world
<1>1. UNCHANGED <<clock, bodies, files>>
  BY DEF Receive, CallGet, ReplayHead, ReplayBody, GoUpstream, LookupError, Return,
         Disconnect, GetDropped, ReplayEnds, cacheVars
<1>2. \A s \in Requests : s # r => Doing(s)' = Doing(s)
  BY DEF Receive, CallGet, ReplayHead, ReplayBody, GoUpstream, LookupError, Return,
         Disconnect, GetDropped, ReplayEnds, cacheVars, call, Doing
<1>3. ASSUME Doing(r)' = Doing(r)
      PROVE  UNCHANGED Promise!replayVars
  BY <1>1, <1>2, <1>3 DEF Promise!replayVars
<1>4. ASSUME NEW k \in Keys, Receive(r, k)
      PROVE  [Promise!ReplayNext]_(Promise!replayVars)
  <2>1. CASE k \in GetKeys
    <3>1. /\ Doing(r).is = "idle"
          /\ Doing(r)' = [is |-> "asking", url |-> k, at |-> clock]
      BY <1>4, <2>1 DEF Receive, CallGet, Doing
    <3>2. Promise!Ask(r, k)
      BY <1>1, <1>2, <3>1, BecomesOnly DEF Promise!Ask
    <3> QED BY <2>1, <3>2 DEF Promise!ReplayNext
  <2>2. CASE k \notin GetKeys
    <3>1. Doing(r)' = Doing(r)
      BY <1>4, <2>2 DEF Receive, CallGet, Doing
    <3> QED BY <1>3, <3>1
  <2> QED BY <2>1, <2>2
<1>5. CASE GoUpstream(r) /\ url[r] \in GetKeys
  <2>1. /\ Doing(r).is = "asking" /\ Doing(r).url = url[r]
        /\ Doing(r)' = [is |-> "missed", url |-> url[r]]
    BY <1>5 DEF GoUpstream, Return, Doing
  <2>2. Promise!Miss(r)
    BY <1>1, <1>2, <2>1, BecomesOnly DEF Promise!Miss
  <2> QED BY <2>2 DEF Promise!ReplayNext
<1>6. CASE ReplayBody(r)
  <2>1. /\ Published(url[r], entry[r]) \in log /\ entry[r].expires > now[r]
        /\ files[url[r]] # NoBody /\ entry[r].body <= files[url[r]]
    BY <1>6 DEF ReplayBody, HistoryInv, ReadLogged, ReadInv, Read
  <2>2. /\ Doing(r).is = "asking" /\ Doing(r).url = url[r] /\ Doing(r).at = now[r]
        /\ Doing(r)' = [is |-> "replying", url |-> url[r],
                        headers |-> entry[r].body, body |-> files[url[r]]]
    BY <1>6 DEF ReplayBody, Return, Doing
  <2> DEFINE e == Published(url[r], entry[r])
  <2>3. e.url = url[r] /\ e.body = entry[r].body /\ e.expires = entry[r].expires
    BY DEF Published
  <2>4. Promise!Become(r, [is |-> "replying", url |-> Doing(r).url,
                           headers |-> e.body, body |-> files[Doing(r).url]])
    BY <1>2, <2>2, <2>3, BecomesOnly
  <2> HIDE DEF e
  <2>5. Promise!Serve(r)
    BY <1>1, <2>1, <2>2, <2>3, <2>4 DEF Promise!Serve, NoBody, e
  <2> QED BY <2>5 DEF Promise!ReplayNext
<1>7. CASE /\ url[r] \in GetKeys
           /\ LookupError(r) \/ Disconnect(r) \/ ReplayEnds(r)
  <2>1. Doing(r).is # "idle" /\ Doing(r)' = Promise!Idle
    BY <1>7 DEF LookupError, Disconnect, ReplayEnds, Doing, Promise!Idle
  <2>2. Promise!Leave(r)
    BY <1>1, <1>2, <2>1, BecomesOnly DEF Promise!Leave
  <2> QED BY <2>2 DEF Promise!ReplayNext
<1>8. CASE /\ url[r] \notin GetKeys
           /\ \/ ReplayHead(r) \/ GoUpstream(r) \/ LookupError(r)
              \/ Disconnect(r) \/ ReplayEnds(r)
  <2>1. Doing(r)' = Doing(r)
    BY <1>8 DEF ReplayHead, GoUpstream, LookupError, Disconnect, ReplayEnds, Doing
  <2> QED BY <1>3, <2>1
<1>9. CASE ReplayHead(r)
  BY <1>8, <1>9, KeysAssumption DEF ReplayHead
<1> QED BY <1>4, <1>5, <1>6, <1>7, <1>8, <1>9

LEMMA PromiseFetch ==
  ASSUME PipelineFacts, log' = log, NEW r \in Requests,
         \/ NotCacheable(r) \/ StoreHead(r) \/ WriteInProgress(r)
         \/ StartWriter(r) \/ Discard(r) \/ StoreEnds(r)
  PROVE  [Promise!ReplayNext]_(Promise!replayVars)
<1> USE DEF PipelineFacts, TypeOK, CacheTypeOK, Enter, Finish, Clear, Goto, Requests,
            disk, world
<1>1. UNCHANGED <<clock, bodies, files>>
  BY DEF NotCacheable, StoreHead, CallStoreHead, WriteInProgress, StartWriter, Discard,
         StoreEnds, Return, cacheVars
<1>2. \A s \in Requests : s # r => Doing(s)' = Doing(s)
  BY DEF NotCacheable, StoreHead, CallStoreHead, WriteInProgress, StartWriter, Discard,
         StoreEnds, Return, cacheVars, call, Doing
<1>3. CASE StartWriter(r)
  <2>1. PICK life \in Lifetimes :
          fresh' = [fresh EXCEPT ![r] = [created |-> clock, expires |-> clock + life]]
    BY <1>3 DEF StartWriter
  <2>2. /\ Doing(r).is = "missed" /\ Doing(r).url = url[r]
        /\ Doing(r)' = [is |-> "filling", url |-> url[r], expires |-> clock + life,
                        published |-> FALSE]
    BY <1>3, <2>1 DEF StartWriter, Doing
  <2>3. ASSUME NEW q \in Requests, Doing(q).is = "filling"
        PROVE  Doing(q).url # url[r]
    <3>1. q \in Writers /\ Doing(q).url = url[q]
      BY <2>3 DEF Doing, Writers
    <3> QED BY <1>3, <3>1 DEF StartWriter, AcquirePermit, PermitDiscipline
  <2>4. Promise!Fill(r)
    BY <1>1, <1>2, <2>2, <2>3, BecomesOnly DEF Promise!Fill
  <2> QED BY <2>4 DEF Promise!ReplayNext
<1>4. CASE /\ url[r] \in GetKeys
           /\ NotCacheable(r) \/ WriteInProgress(r) \/ Discard(r) \/ StoreEnds(r)
  <2>1. Doing(r).is # "idle" /\ Doing(r)' = Promise!Idle
    BY <1>4 DEF NotCacheable, WriteInProgress, Discard, StoreEnds, Doing, Promise!Idle
  <2>2. Promise!Leave(r)
    BY <1>1, <1>2, <2>1, BecomesOnly DEF Promise!Leave
  <2> QED BY <2>2 DEF Promise!ReplayNext
<1>5. CASE \/ StoreHead(r)
           \/ /\ url[r] \notin GetKeys
              /\ NotCacheable(r) \/ WriteInProgress(r) \/ Discard(r) \/ StoreEnds(r)
  <2>1. Doing(r)' = Doing(r)
    BY <1>5, KeysAssumption
    DEF NotCacheable, StoreHead, WriteInProgress, Discard, StoreEnds, Doing
  <2> QED BY <1>1, <1>2, <2>1 DEF Promise!replayVars
<1> QED BY <1>3, <1>4, <1>5

LEMMA PromiseCommit ==
  ASSUME PipelineFacts, NEW r \in Requests, Commit(r), log' = log \cup Committed
  PROVE  [Promise!ReplayNext]_(Promise!replayVars)
<1> USE DEF PipelineFacts, TypeOK, Requests
<1>1. /\ log' = log \cup {Published(url[r], entry'[r])}
      /\ bodies' = bodies + 1 /\ files' = [files EXCEPT ![url[r]] = bodies + 1]
      /\ entry'[r].body = bodies + 1 /\ entry'[r].expires = fresh[r].expires
      /\ clock' = clock
  BY CommitIsLogged DEF Commit, CallStoreBody, world
<1>2. \A s \in Requests : s # r => Doing(s)' = Doing(s)
  BY DEF Commit, CallStoreBody, Enter, Doing
<1>3. /\ Doing(r).is = "filling" /\ Doing(r).url = url[r]
      /\ Doing(r).expires = fresh[r].expires /\ ~Doing(r).published
      /\ Doing(r)' = [is |-> "filling", url |-> url[r], expires |-> fresh[r].expires,
                      published |-> TRUE]
  BY DEF Commit, Enter, Doing
<1>4. Promise!Become(r, [is |-> "filling", url |-> url[r], expires |-> fresh[r].expires,
                         published |-> TRUE])
  BY <1>2, <1>3, BecomesOnly
<1>5. Promise!Publish(r)
  BY <1>1, <1>3, <1>4 DEF Promise!Publish, Published
<1> QED BY <1>5 DEF Promise!ReplayNext

LEMMA PromiseStep ==
  ASSUME PipelineFacts, HistoryInv, [HistoryNext]_historyVars
  PROVE  [Promise!ReplayNext]_(Promise!replayVars)
<1>1. ASSUME NEW r \in Requests, Commit(r)
      PROVE  [Promise!ReplayNext]_(Promise!replayVars)
  <2>1. log' = log \cup Committed
    <3>1. stage' # stage
      BY <1>1 DEF Commit, Enter, PipelineFacts, TypeOK
    <3> QED BY <3>1 DEF HistoryNext, historyVars, vars
  <2> QED BY <1>1, <2>1, PromiseCommit
<1>2. CASE \A r \in Requests : ~Commit(r)
  <2>1. log' = log
    BY <1>2, NothingElseIsLogged DEF PipelineFacts
  <2>2. ASSUME NEW r \in Requests, CallStep(r)
        PROVE  [Promise!ReplayNext]_(Promise!replayVars)
    BY <2>1, <2>2, PromiseCall
  <2>3. ASSUME NEW r \in Requests,
               \/ \E k \in Keys : Receive(r, k)
               \/ ReplayHead(r) \/ ReplayBody(r) \/ GoUpstream(r)
               \/ LookupError(r) \/ Disconnect(r) \/ ReplayEnds(r)
        PROVE  [Promise!ReplayNext]_(Promise!replayVars)
    BY <2>1, <2>3, PromiseLookup
  <2>4. ASSUME NEW r \in Requests,
               \/ NotCacheable(r) \/ StoreHead(r) \/ WriteInProgress(r)
               \/ StartWriter(r) \/ Discard(r) \/ StoreEnds(r)
        PROVE  [Promise!ReplayNext]_(Promise!replayVars)
    BY <2>1, <2>4, PromiseFetch
  <2>5. CASE Time
    <3>1. [s \in Requests |-> Doing(s)]' = [s \in Requests |-> Doing(s)]
      BY <2>5 DEF Time, Tick, call, Doing
    <3> QED
      BY <2>1, <2>5, <3>1 DEF Time, Tick, disk, Promise!Pass, Promise!ReplayNext
  <2>6. CASE Crash
    <3>1. [s \in Requests |-> Doing(s)]' = [s \in Requests |-> Promise!Idle]
      BY <2>6 DEF Crash, Doing, Promise!Idle
    <3> QED
      BY <2>1, <2>6, <3>1 DEF Crash, Restart, NoBody, Promise!Lose, Promise!ReplayNext
  <2>7. CASE UNCHANGED historyVars
    <3>1. [s \in Requests |-> Doing(s)]' = [s \in Requests |-> Doing(s)]
      BY <2>7 DEF historyVars, vars, cacheVars, call, Doing
    <3> QED
      BY <2>7, <3>1 DEF historyVars, vars, cacheVars, disk, world, Promise!replayVars
  <2> QED
    BY <1>2, <2>2, <2>3, <2>4, <2>5, <2>6, <2>7 DEF HistoryNext, Next, Proceed
<1> QED BY <1>1, <1>2

(* Clients see a ReplayCache, whatever the requests, the statements of the *)
(* cache, its failures and crashes do to each other: what a key leads to is*)
(* the response committed last for it, headers are of that key, no newer   *)
(* than the body and live when the client asked, and a key is filled by one*)
(* request at a time (cache_pipeline.rs:17-61, 195-220, 324-350).          *)
THEOREM PipelineKeepsPromise == HistorySpec => KeepsPromise
BY PromiseInit, PromiseStep, PipelineFactsHold, HistoryInvariant, PTL
DEF HistorySpec, KeepsPromise, Promise!ReplaySpec
=============================================================================
