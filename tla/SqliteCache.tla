---------------------------- MODULE SqliteCache ----------------------------
(***************************************************************************)
(* The SQLite-backed cache of src/src/cache.rs, one action per SQL         *)
(* statement and per file operation.  Every statement runs on a connection *)
(* of its own and commits by itself, so the statements of two calls        *)
(* interleave freely; the body of a GET entry is a file beside the         *)
(* database, under a name that depends on the key alone.                   *)
(*                                                                         *)
(* A body is identified by the number of the commit that renamed it to its *)
(* final name.  A row carries the number of the body it describes: it      *)
(* stands for the status, the headers and body_size that were stored with  *)
(* that body.  HEAD rows have no body_path and describe NoBody.            *)
(***************************************************************************)
EXTENDS Integers, FiniteSets

CONSTANTS
  Tasks,        \* the tasks that call the cache
  GetKeys,      \* keys "GET <url>": their entries have a body file
  HeadKeys,     \* keys "HEAD <url>": metadata only
  Lifetimes,    \* expires_at - created_at: not positive if that much time
                \* has passed between the two clock readings
  MaxEntries,   \* config.max_entries, 0 means unlimited
  ClearOnStart, \* whether a start wipes the cache directory (dev mode)
  MayFail,      \* whether a statement can return an error
  MaxClock,     \* bound: seconds that pass
  MaxBodies,    \* bound: bodies renamed to their final name
  MaxRestarts,  \* bound: crashes followed by a start
  None          \* no row, no key

NoBody == 0
Keys == GetKeys \cup HeadKeys
Row == [body : Nat, expires : Int, last : Nat]

ASSUME KeysAssumption == GetKeys \cap HeadKeys = {}
ASSUME NoneAssumption == None \notin Row
ASSUME ConfigAssumption ==
  /\ MaxEntries \in Nat
  /\ Lifetimes \subseteq Int
  /\ ClearOnStart \in BOOLEAN
  /\ MayFail \in BOOLEAN
ASSUME BoundsAssumption ==
  MaxClock \in Nat /\ MaxBodies \in Nat /\ MaxRestarts \in Nat

VARIABLES
  rows,      \* the table cache_entries
  files,     \* the body under the final name of each GET key
  bodies,    \* how many bodies were renamed to a final name so far
  clock,     \* now_unix()
  restarts,  \* how many times the process was started again
  pc,        \* what each task's call does next
  key,       \* the key it works on
  now,       \* the time a lookup read when it was called
  entry,     \* the row a lookup or delete has read, or that a store writes
  overflow,  \* how many rows a store has found too many
  doomed,    \* the keys a store still has to evict
  victim     \* the key whose row a store has just evicted

disk == <<rows, files, bodies>>
world == <<clock, restarts>>
call == <<pc, key, now, entry, overflow, doomed, victim>>
cacheVars == <<disk, world, call>>

Stored == {k \in Keys : rows[k] # None}

CacheInit ==
  /\ rows = [k \in Keys |-> None]
  /\ files = [k \in GetKeys |-> NoBody]
  /\ bodies = 0
  /\ clock = 0
  /\ restarts = 0
  /\ pc = [t \in Tasks |-> "idle"]
  /\ key = [t \in Tasks |-> None]
  /\ now = [t \in Tasks |-> 0]
  /\ entry = [t \in Tasks |-> None]
  /\ overflow = [t \in Tasks |-> 0]
  /\ doomed = [t \in Tasks |-> {}]
  /\ victim = [t \in Tasks |-> None]

Goto(t, label) == pc' = [pc EXCEPT ![t] = label]

(* The call ends and its local variables are gone.                         *)
Clear(t) ==
  /\ Goto(t, "idle")
  /\ key' = [key EXCEPT ![t] = None]
  /\ now' = [now EXCEPT ![t] = 0]
  /\ entry' = [entry EXCEPT ![t] = None]
  /\ overflow' = [overflow EXCEPT ![t] = 0]
  /\ doomed' = [doomed EXCEPT ![t] = {}]
  /\ victim' = [victim EXCEPT ![t] = None]

(* let _ = remove_file(..) of a body whose row is gone: it may stay.        *)
Unlink(k) ==
  \/ files' = [files EXCEPT ![k] = NoBody]
  \/ MayFail /\ files' = files

(***************************************************************************)
(* SqliteCache::get, with the delete it calls.                             *)
(***************************************************************************)
CallGet(t, k) ==
  /\ pc[t] = "idle"
  /\ Goto(t, "select")
  /\ key' = [key EXCEPT ![t] = k]
  /\ now' = [now EXCEPT ![t] = clock]
  /\ UNCHANGED <<disk, world, entry, overflow, doomed, victim>>

(* Mutants of AfterSelect: an entry expires a second early; a lookup does   *)
(* not look at the expiry.                                                 *)
AfterSelectEarly(row, k, at) ==
  CASE row = None -> "miss"
    [] row # None /\ row.expires <= at + 1 -> "deletePath"
    [] row # None /\ row.expires > at + 1 /\ k \in GetKeys -> "exists"
    [] OTHER -> "touch"

AfterSelectAnyAge(row, k, at) ==
  CASE row = None -> "miss"
    [] row # None /\ k \in GetKeys -> "exists"
    [] OTHER -> "touch"

AfterSelect(row, k, at) ==
  CASE row = None -> "miss"
    [] row # None /\ row.expires <= at -> "deletePath"
    [] row # None /\ row.expires > at /\ k \in GetKeys -> "exists"
    [] OTHER -> "touch"

SelectRow(t) ==
  /\ pc[t] = "select"
  /\ entry' = [entry EXCEPT ![t] = rows[key[t]]]
  /\ Goto(t, AfterSelect(rows[key[t]], key[t], now[t]))
  /\ UNCHANGED <<disk, world, key, now, overflow, doomed, victim>>

(* Mutant of BodyExists: a lookup that misses the body starts over instead  *)
(* of removing the entry.                                                  *)
BodyExistsRetries(t) ==
  /\ pc[t] = "exists"
  /\ Goto(t, IF files[key[t]] = NoBody THEN "select" ELSE "touch")
  /\ UNCHANGED <<disk, world, key, now, entry, overflow, doomed, victim>>

BodyExists(t) ==
  /\ pc[t] = "exists"
  /\ Goto(t, IF files[key[t]] = NoBody THEN "deletePath" ELSE "touch")
  /\ UNCHANGED <<disk, world, key, now, entry, overflow, doomed, victim>>

(* The UPDATE of last_access: it matches no row when another task has      *)
(* deleted it since the SELECT.                                            *)
Touch(t) ==
  /\ pc[t] = "touch"
  /\ rows' = IF rows[key[t]] = None THEN rows
             ELSE [rows EXCEPT ![key[t]].last = now[t]]
  /\ Goto(t, "hit")
  /\ UNCHANGED <<files, bodies, world, key, now, entry, overflow, doomed, victim>>

(* delete reads body_path and then deletes by key alone, whatever row is   *)
(* there by then.                                                          *)
DeletePath(t) ==
  /\ pc[t] = "deletePath"
  /\ entry' = [entry EXCEPT ![t] = rows[key[t]]]
  /\ Goto(t, "deleteRow")
  /\ UNCHANGED <<disk, world, key, now, overflow, doomed, victim>>

DeleteRow(t) ==
  /\ pc[t] = "deleteRow"
  /\ rows' = [rows EXCEPT ![key[t]] = None]
  /\ Goto(t, IF entry[t] # None /\ key[t] \in GetKeys THEN "unlink" ELSE "miss")
  /\ UNCHANGED <<files, bodies, world, key, now, entry, overflow, doomed, victim>>

UnlinkBody(t) ==
  /\ pc[t] = "unlink"
  /\ Unlink(key[t])
  /\ Goto(t, "miss")
  /\ UNCHANGED <<rows, bodies, world, key, now, entry, overflow, doomed, victim>>

GetFails(t) ==
  /\ MayFail
  /\ pc[t] \in {"select", "touch", "deletePath", "deleteRow"}
  /\ Goto(t, "error")
  /\ UNCHANGED <<disk, world, key, now, entry, overflow, doomed, victim>>

(* The client goes away and the handler's future is dropped at an await: a *)
(* blocking closure that has started still runs to its end, what would     *)
(* follow it does not.                                                     *)
GetDropped(t) ==
  /\ pc[t] \in {"select", "touch", "deletePath"}
  /\ Clear(t)
  /\ UNCHANGED <<disk, world>>

(***************************************************************************)
(* SqliteCache::store.  Its two callers: the cache writer, which has just  *)
(* renamed the body to its final name, and the handler of a HEAD response. *)
(***************************************************************************)
(* Mutant of CallStoreBody: a body that is already there is not replaced.   *)
CallStoreBodyNoReplace(t, k, created, expires) ==
  /\ pc[t] = "idle"
  /\ bodies < MaxBodies
  /\ bodies' = bodies + 1
  /\ files' = [files EXCEPT ![k] = IF @ = NoBody THEN bodies + 1 ELSE @]
  /\ Goto(t, "upsert")
  /\ key' = [key EXCEPT ![t] = k]
  /\ entry' = [entry EXCEPT ![t] =
                 [body |-> bodies + 1, expires |-> expires, last |-> created]]
  /\ UNCHANGED <<rows, world, now, overflow, doomed, victim>>

CallStoreBody(t, k, created, expires) ==
  /\ pc[t] = "idle"
  /\ bodies < MaxBodies
  /\ bodies' = bodies + 1
  /\ files' = [files EXCEPT ![k] = bodies + 1]
  /\ Goto(t, "upsert")
  /\ key' = [key EXCEPT ![t] = k]
  /\ entry' = [entry EXCEPT ![t] =
                 [body |-> bodies + 1, expires |-> expires, last |-> created]]
  /\ UNCHANGED <<rows, world, now, overflow, doomed, victim>>

CallStoreHead(t, k, created, expires) ==
  /\ pc[t] = "idle"
  /\ Goto(t, "upsert")
  /\ key' = [key EXCEPT ![t] = k]
  /\ entry' = [entry EXCEPT ![t] =
                 [body |-> NoBody, expires |-> expires, last |-> created]]
  /\ UNCHANGED <<disk, world, now, overflow, doomed, victim>>

UpsertRow(t) ==
  /\ pc[t] = "upsert"
  /\ rows' = [rows EXCEPT ![key[t]] = entry[t]]
  /\ Goto(t, IF MaxEntries > 0 THEN "count" ELSE "stored")
  /\ UNCHANGED <<files, bodies, world, key, now, entry, overflow, doomed, victim>>

(* Mutant of CountRows: one row too few is evicted.                         *)
CountRowsShort(t) ==
  /\ pc[t] = "count"
  /\ IF Cardinality(Stored) > MaxEntries
     THEN /\ overflow' = [overflow EXCEPT ![t] = Cardinality(Stored) - MaxEntries - 1]
          /\ Goto(t, "pick")
     ELSE /\ UNCHANGED overflow
          /\ Goto(t, "stored")
  /\ UNCHANGED <<disk, world, key, now, entry, doomed, victim>>

CountRows(t) ==
  /\ pc[t] = "count"
  /\ IF Cardinality(Stored) > MaxEntries
     THEN /\ overflow' = [overflow EXCEPT ![t] = Cardinality(Stored) - MaxEntries]
          /\ Goto(t, "pick")
     ELSE /\ UNCHANGED overflow
          /\ Goto(t, "stored")
  /\ UNCHANGED <<disk, world, key, now, entry, doomed, victim>>

(* SELECT ... ORDER BY last_access ASC LIMIT n: equal last_access values    *)
(* may come in any order.                                                  *)
Oldest(n) ==
  {V \in SUBSET Stored :
     /\ Cardinality(V) = (IF n < Cardinality(Stored) THEN n ELSE Cardinality(Stored))
     /\ \A v \in V, k \in Stored \ V : rows[v].last <= rows[k].last}

PickVictims(t) ==
  /\ pc[t] = "pick"
  /\ \E V \in Oldest(overflow[t]) :
       doomed' = [doomed EXCEPT ![t] = V]
  /\ overflow' = [overflow EXCEPT ![t] = 0]
  /\ Goto(t, "evict")
  /\ UNCHANGED <<disk, world, key, now, entry, victim>>

(* Mutant of EvictRow: it unlinks a body for HEAD rows too.                 *)
EvictRowAndBody(t) ==
  /\ pc[t] = "evict"
  /\ \E k \in doomed[t] :
       /\ rows' = [rows EXCEPT ![k] = None]
       /\ doomed' = [doomed EXCEPT ![t] = @ \ {k}]
       /\ Goto(t, "evictBody")
       /\ victim' = [victim EXCEPT ![t] = k]
  /\ UNCHANGED <<files, bodies, world, key, now, entry, overflow>>

(* DELETE one victim's row, then unlink its body when the row had one.  The *)
(* victims go in any order; the code's is that of the SELECT.              *)
EvictRow(t) ==
  /\ pc[t] = "evict"
  /\ \E k \in doomed[t] :
       /\ rows' = [rows EXCEPT ![k] = None]
       /\ doomed' = [doomed EXCEPT ![t] = @ \ {k}]
       /\ IF k \in GetKeys
          THEN Goto(t, "evictBody") /\ victim' = [victim EXCEPT ![t] = k]
          ELSE UNCHANGED <<pc, victim>>
  /\ UNCHANGED <<files, bodies, world, key, now, entry, overflow>>

EvictBody(t) ==
  /\ pc[t] = "evictBody"
  /\ Unlink(victim[t])
  /\ victim' = [victim EXCEPT ![t] = None]
  /\ Goto(t, "evict")
  /\ UNCHANGED <<rows, bodies, world, key, now, entry, overflow, doomed>>

Evicted(t) ==
  /\ pc[t] = "evict"
  /\ doomed[t] = {}
  /\ Goto(t, "stored")
  /\ UNCHANGED <<disk, world, key, now, entry, overflow, doomed, victim>>

(* A statement of store fails: the statements before it stay committed.    *)
StoreFails(t) ==
  /\ MayFail
  /\ \/ pc[t] \in {"upsert", "count", "pick"}
     \/ pc[t] = "evict" /\ doomed[t] # {}
  /\ Goto(t, IF key[t] \in GetKeys THEN "withdraw" ELSE "notStored")
  /\ UNCHANGED <<disk, world, key, now, entry, overflow, doomed, victim>>

(* Mutant of WithdrawBody: the body stays when its row was not stored.      *)
WithdrawBodyForgotten(t) ==
  /\ pc[t] = "withdraw"
  /\ Goto(t, "notStored")
  /\ UNCHANGED <<disk, world, key, now, entry, overflow, doomed, victim>>

(* The cache writer removes the body it had renamed when store fails; this *)
(* removal is let to succeed.                                              *)
WithdrawBody(t) ==
  /\ pc[t] = "withdraw"
  /\ files' = [files EXCEPT ![key[t]] = NoBody]
  /\ Goto(t, "notStored")
  /\ UNCHANGED <<rows, bodies, world, key, now, entry, overflow, doomed, victim>>

Return(t) ==
  /\ pc[t] \in {"hit", "miss", "error", "stored", "notStored"}
  /\ Clear(t)
  /\ UNCHANGED <<disk, world>>

(***************************************************************************)
(* The clock, and a crash followed by a start: SqliteCache::new keeps the  *)
(* table and the files, unless prepare_runtime_dirs has removed them.      *)
(***************************************************************************)
Tick ==
  /\ clock < MaxClock
  /\ clock' = clock + 1
  /\ UNCHANGED <<disk, restarts, call>>

Restart ==
  /\ restarts < MaxRestarts
  /\ restarts' = restarts + 1
  /\ IF ClearOnStart
     THEN rows' = [k \in Keys |-> None] /\ files' = [k \in GetKeys |-> NoBody]
     ELSE UNCHANGED <<rows, files>>
  /\ pc' = [t \in Tasks |-> "idle"]
  /\ key' = [t \in Tasks |-> None]
  /\ now' = [t \in Tasks |-> 0]
  /\ entry' = [t \in Tasks |-> None]
  /\ overflow' = [t \in Tasks |-> 0]
  /\ doomed' = [t \in Tasks |-> {}]
  /\ victim' = [t \in Tasks |-> None]
  /\ UNCHANGED <<bodies, clock>>

GetStep(t) ==
  \/ SelectRow(t) \/ BodyExists(t) \/ Touch(t)
  \/ DeletePath(t) \/ DeleteRow(t) \/ UnlinkBody(t) \/ GetFails(t)

StoreStep(t) ==
  \/ UpsertRow(t) \/ CountRows(t) \/ PickVictims(t)
  \/ EvictRow(t) \/ EvictBody(t) \/ Evicted(t)
  \/ StoreFails(t) \/ WithdrawBody(t)

(* What the runtime does for a call without its caller.                    *)
CacheStep(t) == GetStep(t) \/ StoreStep(t)

(* The calls a task may make: a body's created_at was read when its        *)
(* download began, a HEAD entry's is the present.                          *)
Call(t) ==
  \/ \E k \in Keys : CallGet(t, k)
  \/ \E k \in GetKeys, created \in 0..clock, life \in Lifetimes :
       CallStoreBody(t, k, created, created + life)
  \/ \E k \in HeadKeys, life \in Lifetimes :
       CallStoreHead(t, k, clock, clock + life)

CacheNext ==
  \/ \E t \in Tasks : Call(t) \/ CacheStep(t) \/ GetDropped(t) \/ Return(t)
  \/ Tick
  \/ Restart

CacheSpec == CacheInit /\ [][CacheNext]_cacheVars
FairCacheSpec == CacheSpec /\ \A t \in Tasks : WF_cacheVars(CacheStep(t))

(***************************************************************************)
(* Properties.                                                             *)
(***************************************************************************)
Labels == {"idle", "select", "exists", "touch", "hit", "miss", "error",
           "deletePath", "deleteRow", "unlink",
           "upsert", "count", "pick", "evict", "evictBody",
           "stored", "notStored", "withdraw"}

(* Every variable has its type, and a call that is under way has the key   *)
(* and the row its next statement uses.                                    *)
CacheTypeOK ==
  /\ rows \in [Keys -> Row \cup {None}]
  /\ files \in [GetKeys -> Nat]
  /\ bodies \in Nat /\ clock \in Nat /\ restarts \in Nat
  /\ pc \in [Tasks -> Labels]
  /\ key \in [Tasks -> Keys \cup {None}]
  /\ now \in [Tasks -> Nat]
  /\ entry \in [Tasks -> Row \cup {None}]
  /\ overflow \in [Tasks -> Nat]
  /\ doomed \in [Tasks -> SUBSET Keys]
  /\ victim \in [Tasks -> GetKeys \cup {None}]
  /\ \A t \in Tasks :
       /\ pc[t] # "idle" => key[t] \in Keys
       /\ pc[t] \in {"exists", "unlink", "withdraw"} => key[t] \in GetKeys
       /\ pc[t] = "upsert" => entry[t] \in Row
       /\ pc[t] = "evictBody" => victim[t] \in GetKeys

(* A row never describes a later body than the file it leads to: store     *)
(* runs after the rename, so whatever lookups, evictions and stores of     *)
(* other tasks do in between, headers of a newer response are never put in *)
(* front of an older body (cache_pipeline.rs:195-213, cache.rs:197-223).   *)
RowNotNewerThanBody ==
  \A k \in GetKeys :
    rows[k] # None /\ files[k] # NoBody => rows[k].body <= files[k]

(* The stores that have added their row and have not finished evicting.    *)
Inserting == {t \in Tasks : pc[t] \in {"count", "pick", "evict", "evictBody"}}

(* max_entries holds whenever no store is between its INSERT and its last  *)
(* eviction, and each store that is adds at most one row to it, although   *)
(* COUNT, SELECT and the DELETEs of concurrent stores interleave with each *)
(* other and with the deletes of lookups (cache.rs:225-249).  A failed     *)
(* statement or a crash leaves the surplus to the next store.              *)
EntryLimit ==
  MaxEntries > 0 /\ ~MayFail /\ restarts = 0
    => Cardinality(Stored) <= MaxEntries + Cardinality(Inserting)

(* A store that ends while no other is evicting leaves at most max_entries *)
(* rows, also when a crash in the middle of earlier stores had left more.  *)
StoreRestoresLimit ==
  [][MaxEntries > 0 /\ ~MayFail =>
       \A t \in Tasks :
         Inserting = {t} /\ pc'[t] = "stored" => Cardinality(Stored') <= MaxEntries
    ]_cacheVars

(* Every call of the cache returns: no statement waits for another task    *)
(* (cache.rs:126-283).                                                     *)
Returned(t) == pc[t] \in {"idle", "hit", "miss", "error", "stored", "notStored"}
CallsReturn == \A t \in Tasks : pc[t] \in {"select", "upsert"} ~> Returned(t)
=============================================================================
