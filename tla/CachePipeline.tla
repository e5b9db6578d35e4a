--------------------------- MODULE CachePipeline ---------------------------
(***************************************************************************)
(* The cacheable path of src/src/http_proxy: handle_http looks a GET or    *)
(* HEAD up, replays a hit, and on a miss forwards the request and stores   *)
(* the response through a background writer that holds the key's write     *)
(* permit.  The calls into the cache are those of SqliteCache, statement   *)
(* by statement.  A request slot is used again once its request is over;   *)
(* its cache writer, or its detached HEAD store, is part of the request.   *)
(*                                                                         *)
(* Requests that bypass the cache (other methods, Range, a denied target,  *)
(* caching disabled) read and write nothing of this state.                 *)
(***************************************************************************)
EXTENDS SqliteCache

Response == [created : Nat, expires : Int]
ASSUME NoResponseAssumption == None \notin Response

VARIABLES
  stage,   \* where each request is
  url,     \* its cache key
  fresh,   \* created_at and expires_at of the response a writer downloads
  replay,  \* the row a cached response was built from and the body it opened
  locks    \* CACHE_WRITE_LOCKS: the keys with a write permit out

Requests == Tasks
vars == <<cacheVars, stage, url, fresh, replay, locks>>

Init ==
  /\ CacheInit
  /\ stage = [r \in Requests |-> "idle"]
  /\ url = [r \in Requests |-> None]
  /\ fresh = [r \in Requests |-> None]
  /\ replay = [r \in Requests |-> None]
  /\ locks = {}

Enter(r, s) == stage' = [stage EXCEPT ![r] = s]

(* The request is over.                                                    *)
Finish(r) ==
  /\ Enter(r, "idle")
  /\ url' = [url EXCEPT ![r] = None]
  /\ fresh' = [fresh EXCEPT ![r] = None]
  /\ replay' = [replay EXCEPT ![r] = None]

(***************************************************************************)
(* handle_http up to the upstream connection.                              *)
(***************************************************************************)
Receive(r, k) ==
  /\ stage[r] = "idle"
  /\ CallGet(r, k)
  /\ Enter(r, "lookup")
  /\ url' = [url EXCEPT ![r] = k]
  /\ UNCHANGED <<fresh, replay, locks>>

(* cached_response: a HEAD is answered from the row alone; for a GET the   *)
(* body is whatever file the final name leads to when it is opened.        *)
ReplayHead(r) ==
  /\ stage[r] = "lookup" /\ pc[r] = "hit"
  /\ url[r] \in HeadKeys
  /\ Return(r)
  /\ Finish(r)
  /\ UNCHANGED locks

ReplayBody(r) ==
  /\ stage[r] = "lookup" /\ pc[r] = "hit"
  /\ url[r] \in GetKeys
  /\ files[url[r]] # NoBody
  /\ Return(r)
  /\ Enter(r, "replay")
  /\ replay' = [replay EXCEPT ![r] = [row |-> entry[r], body |-> files[url[r]]]]
  /\ UNCHANGED <<url, fresh, locks>>

(* Mutant of GoUpstream: a hit whose body is gone is not retried upstream. *)
GoUpstreamOnMiss(r) ==
  /\ stage[r] = "lookup" /\ pc[r] = "miss"
  /\ Return(r)
  /\ Enter(r, "fetch")
  /\ UNCHANGED <<url, fresh, replay, locks>>

(* The lookup found nothing, or a hit's body could not be opened: because  *)
(* it is gone, or for any other error of the file system.                  *)
GoUpstream(r) ==
  /\ stage[r] = "lookup"
  /\ \/ pc[r] = "miss"
     \/ pc[r] = "hit" /\ url[r] \in GetKeys /\ (files[url[r]] = NoBody \/ MayFail)
  /\ Return(r)
  /\ Enter(r, "fetch")
  /\ UNCHANGED <<url, fresh, replay, locks>>

LookupError(r) ==
  /\ stage[r] = "lookup" /\ pc[r] = "error"
  /\ Return(r)
  /\ Finish(r)
  /\ UNCHANGED locks

Disconnect(r) ==
  /\ stage[r] = "lookup"
  /\ GetDropped(r)
  /\ Finish(r)
  /\ UNCHANGED locks

(* The client has the whole cached body, or has gone.                      *)
ReplayEnds(r) ==
  /\ stage[r] = "replay"
  /\ Finish(r)
  /\ UNCHANGED <<cacheVars, locks>>

(***************************************************************************)
(* handle_http with the upstream's response.                               *)
(***************************************************************************)

(* No response, a client that has gone, or a response that may not be      *)
(* cached: status, headers, size, configuration.                           *)
NotCacheable(r) ==
  /\ stage[r] = "fetch"
  /\ Finish(r)
  /\ UNCHANGED <<cacheVars, locks>>

StoreHead(r) ==
  /\ stage[r] = "fetch"
  /\ url[r] \in HeadKeys
  /\ \E life \in Lifetimes : CallStoreHead(r, url[r], clock, clock + life)
  /\ Enter(r, "store")
  /\ UNCHANGED <<url, fresh, replay, locks>>

(* try_acquire_cache_write returns None: the response is only relayed.     *)
WriteInProgress(r) ==
  /\ stage[r] = "fetch"
  /\ url[r] \in locks
  /\ Finish(r)
  /\ UNCHANGED <<cacheVars, locks>>

(* Mutant of AcquirePermit: it does not look whether the permit is out.     *)
AcquirePermitAlways(k) == locks' = locks \cup {k}

AcquirePermit(k) ==
  /\ k \notin locks
  /\ locks' = locks \cup {k}

(* Mutant of StartWriter: a HEAD response is downloaded like a body.        *)
StartWriterAnyMethod(r) ==
  /\ stage[r] = "fetch"
  /\ AcquirePermit(url[r])
  /\ \E life \in Lifetimes :
       fresh' = [fresh EXCEPT ![r] = [created |-> clock, expires |-> clock + life]]
  /\ Enter(r, "stream")
  /\ UNCHANGED <<cacheVars, url, replay>>

StartWriter(r) ==
  /\ stage[r] = "fetch"
  /\ url[r] \in GetKeys
  /\ AcquirePermit(url[r])
  /\ \E life \in Lifetimes :
       fresh' = [fresh EXCEPT ![r] = [created |-> clock, expires |-> clock + life]]
  /\ Enter(r, "stream")
  /\ UNCHANGED <<cacheVars, url, replay>>

(***************************************************************************)
(* The cache writer, from the end of the body on.                          *)
(***************************************************************************)
ReleasePermit(k) == locks' = locks \ {k}

(* Mutants of Discard: the permit is not given back; the file under the     *)
(* final name is removed instead of the temporary one.                     *)
DiscardKeepsPermit(r) ==
  /\ stage[r] = "stream"
  /\ Finish(r)
  /\ UNCHANGED <<cacheVars, locks>>

DiscardRemovesFinal(r) ==
  /\ stage[r] = "stream"
  /\ Finish(r)
  /\ ReleasePermit(url[r])
  /\ files' = [files EXCEPT ![url[r]] = NoBody]
  /\ UNCHANGED <<rows, bodies, world, call>>

(* The writer removes its temporary file, which no other task can see.     *)
Discard(r) ==
  /\ stage[r] = "stream"
  /\ Finish(r)
  /\ ReleasePermit(url[r])
  /\ UNCHANGED cacheVars

(* The writer renames the temporary file to the final name and calls store.*)
Commit(r) ==
  /\ stage[r] = "stream"
  /\ CallStoreBody(r, url[r], fresh[r].created, fresh[r].expires)
  /\ Enter(r, "store")
  /\ UNCHANGED <<url, fresh, replay, locks>>

(* Mutant of StoreEnds: a writer whose store failed never returns.          *)
StoreEndsOnSuccess(r) ==
  /\ stage[r] = "store" /\ pc[r] = "stored"
  /\ Return(r)
  /\ Finish(r)
  /\ ReleasePermit(url[r])

(* store has returned, and after an error the writer has removed the body: *)
(* the permit is dropped with the writer.                                  *)
StoreEnds(r) ==
  /\ stage[r] = "store"
  /\ Return(r)
  /\ Finish(r)
  /\ ReleasePermit(url[r])

CallStep(r) ==
  /\ CacheStep(r)
  /\ UNCHANGED <<stage, url, fresh, replay, locks>>

Time == Tick /\ UNCHANGED <<stage, url, fresh, replay, locks>>

(* The permits are in memory only and every request is lost.               *)
Crash ==
  /\ Restart
  /\ stage' = [r \in Requests |-> "idle"]
  /\ url' = [r \in Requests |-> None]
  /\ fresh' = [r \in Requests |-> None]
  /\ replay' = [r \in Requests |-> None]
  /\ locks' = {}

(* What the runtime does for a request whatever its peers do.              *)
Proceed(r) ==
  \/ CallStep(r)
  \/ ReplayHead(r) \/ ReplayBody(r) \/ GoUpstream(r) \/ LookupError(r)
  \/ StoreEnds(r)

Next ==
  \/ \E r \in Requests :
       \/ \E k \in Keys : Receive(r, k)
       \/ Proceed(r)
       \/ Disconnect(r) \/ ReplayEnds(r)
       \/ NotCacheable(r) \/ StoreHead(r) \/ WriteInProgress(r) \/ StartWriter(r)
       \/ Discard(r) \/ Commit(r)
  \/ Time
  \/ Crash

Spec == Init /\ [][Next]_vars
FairSpec == Spec /\ \A r \in Requests : WF_vars(Proceed(r))

(***************************************************************************)
(* Properties.                                                             *)
(***************************************************************************)
Stages == {"idle", "lookup", "replay", "fetch", "stream", "store"}
LookupLabels == {"select", "exists", "touch", "hit", "miss", "error",
                 "deletePath", "deleteRow", "unlink"}

(* Types, and which call of the cache each stage of a request is in.       *)
TypeOK ==
  /\ CacheTypeOK
  /\ stage \in [Requests -> Stages]
  /\ url \in [Requests -> Keys \cup {None}]
  /\ fresh \in [Requests -> Response \cup {None}]
  /\ replay \in [Requests -> [row : Row, body : Nat] \cup {None}]
  /\ locks \subseteq GetKeys
  /\ \A r \in Requests :
       /\ stage[r] \in {"idle", "replay", "fetch", "stream"} <=> pc[r] = "idle"
       /\ stage[r] = "lookup" => pc[r] \in LookupLabels
       /\ stage[r] \in {"lookup", "store"} => key[r] = url[r]
       /\ stage[r] # "idle" => url[r] \in Keys
       /\ stage[r] = "stream" => url[r] \in GetKeys /\ fresh[r] # None
       /\ pc[r] \in {"exists", "touch", "hit"} => entry[r] # None

(* The requests whose cache writer is alive.                               *)
Writers == {r \in Requests : stage[r] \in {"stream", "store"} /\ url[r] \in GetKeys}

(* Cache writes are deduplicated per key: a key has at most one writer, and*)
(* its permit is out exactly as long as that writer lives, whether it      *)
(* commits, discards or fails (cache_pipeline.rs:324-350, mod.rs:139-172). *)
PermitDiscipline ==
  /\ locks = {url[r] : r \in Writers}
  /\ \A r, s \in Writers : url[r] = url[s] => r = s

(* The writers between the rename of a body and the INSERT of its row, or  *)
(* whose INSERT has failed and the body is still there.                    *)
InWindow(r, k) ==
  stage[r] = "store" /\ url[r] = k /\ pc[r] \in {"upsert", "withdraw"}

(* A row and the file it leads to belong to two responses.                 *)
Mixed(k) == rows[k] # None /\ files[k] # NoBody /\ rows[k].body # files[k]

(* While the process runs, a row and the file it leads to belong to one    *)
(* response, except while that key's own writer is between its rename and  *)
(* its INSERT: no interleaving of lookups, deletes, evictions and other    *)
(* keys' stores leaves a mixed pair behind (cache_pipeline.rs:195-217).  A *)
(* crash in that window does, so the statement is about the time before    *)
(* one.                                                                    *)
CommitWindow ==
  restarts = 0 =>
    \A k \in GetKeys : Mixed(k) => \E r \in Requests : InWindow(r, k)

(* A hit may be served with a body that was committed after its headers    *)
(* were read, never with an older one (cache_pipeline.rs:52-55).           *)
ReplayNotOlder ==
  \A r \in Requests :
    stage[r] = "replay" => replay[r].row.body <= replay[r].body

(* A cached response replays one response: the status, the headers and the *)
(* content-length of the row are those of the body that follows            *)
(* (tests/cache_streaming.rs:348-353).                                     *)
ReplayIsOneResponse ==
  \A r \in Requests :
    stage[r] = "replay" => replay[r].row.body = replay[r].body

(* The delete of a lookup removes only an entry that is expired or whose   *)
(* body is missing (cache.rs:162-172;                                      *)
(* docs/roadmaps/proxy-cache-roadmap.md:42-43).                            *)
LookupKeepsLiveEntries ==
  [][\A r \in Requests :
       LET row == rows[url[r]] IN
       pc[r] = "deleteRow" /\ pc'[r] # "deleteRow" /\ row # None
       /\ rows'[url[r]] = None
         => \/ row.expires <= clock
            \/ url[r] \in GetKeys /\ files[url[r]] = NoBody
    ]_vars

(* A lookup is decided and a commit ends, with its permit given back,      *)
(* whatever the other requests do: neither waits for a peer                *)
(* (mod.rs:44-52, cache_pipeline.rs:189-220).                              *)
LookupsDecided ==
  \A r \in Requests : stage[r] = "lookup" ~> stage[r] # "lookup"
CommitsEnd ==
  \A r \in Requests : stage[r] = "store" ~> stage[r] # "store"
=============================================================================
