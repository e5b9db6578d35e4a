--------------------------- MODULE ReplayHistory ---------------------------
(***************************************************************************)
(* CachePipeline with the history of what was committed and of what a      *)
(* crash has cut short, and what it promises to clients: it implements     *)
(* ReplayCache.                                                            *)
(***************************************************************************)
EXTENDS CachePipeline

VARIABLES
  log,  \* history: every response whose body got its final name
  torn, \* history: the keys whose commit a crash has cut, while it shows
  found \* history: the response whose row was there when a lookup was called

(* The response a row was stored with.                                     *)
Published(k, row) == [url |-> k, body |-> row.body, expires |-> row.expires]

(* The responses a step commits.                                           *)
Committed ==
  {Published(url[r], entry'[r]) :
     r \in {q \in Requests : stage[q] = "stream" /\ stage'[q] = "store"}}

(* The keys whose commit a step cuts.                                      *)
Cut ==
  {k \in GetKeys : restarts' # restarts /\ \E r \in Requests : InWindow(r, k)}

(* A lookup that may still delete the entry.                               *)
Deciding(r) == pc[r] \in {"select", "exists", "deletePath", "deleteRow"}

(* The response whose row is there for a key.                              *)
RowBody(k) == IF rows[k] = None THEN NoBody ELSE rows[k].body

historyVars == <<vars, log, torn, found>>
HistoryInit ==
  Init /\ log = {} /\ torn = {} /\ found = [r \in Requests |-> NoBody]
HistoryNext ==
  /\ Next
  /\ log' = log \cup Committed
  /\ torn' = {k \in torn \cup Cut : Mixed(k)'}
  /\ found' = [r \in Requests |->
                 IF ~Deciding(r)' THEN NoBody
                 ELSE IF Deciding(r) THEN found[r] ELSE RowBody(url'[r])]
HistorySpec == HistoryInit /\ [][HistoryNext]_historyVars

(***************************************************************************)
(* The refinement: HEAD requests and rows are no part of the promise, and  *)
(* what an entry leads to is the file under its final name.                *)
(***************************************************************************)
Doing(r) ==
  CASE url[r] \in GetKeys /\ stage[r] = "lookup" ->
         [is |-> "asking", url |-> url[r], at |-> now[r]]
    [] url[r] \in GetKeys /\ stage[r] = "fetch" ->
         [is |-> "missed", url |-> url[r]]
    [] url[r] \in GetKeys /\ stage[r] = "replay" ->
         [is |-> "replying", url |-> url[r],
          headers |-> replay[r].row.body, body |-> replay[r].body]
    [] url[r] \in GetKeys /\ stage[r] \in {"stream", "store"} ->
         [is |-> "filling", url |-> url[r], expires |-> fresh[r].expires,
          published |-> stage[r] = "store"]
    [] OTHER -> [is |-> "idle"]

Promise == INSTANCE ReplayCache WITH
  Keys <- GetKeys, time <- clock, count <- bodies, shown <- files,
  doing <- [r \in Requests |-> Doing(r)]

(* Whatever lookups, commits, evictions, failures and crashes do to each   *)
(* other, clients see a ReplayCache: a replayed body is what was committed *)
(* last for that very key, its headers are of that key too, no newer than  *)
(* the body and live when the client asked, and a key is filled by one     *)
(* request at a time (cache_pipeline.rs:17-61, 195-220, 324-350).          *)
KeepsPromise == Promise!ReplaySpec

(* Also after crashes, a row leads to another response's body only while   *)
(* its key's writer is between rename and INSERT, or if a crash cut a      *)
(* commit of that very key there, and only until the pair is next replaced,*)
(* deleted or evicted: the damage does not spread and does not come back   *)
(* (cache_pipeline.rs:195-217, cache.rs:197-283).                          *)
OnlyCutCommitsTear ==
  \A k \in GetKeys : Mixed(k) =>
    k \in torn \/ \E r \in Requests : InWindow(r, k)

(* What lookup_delete costs at most: the delete of a lookup takes an entry *)
(* that is live and has its own body only if its row was inserted while    *)
(* the lookup was under way, never one that was there when it was called   *)
(* (cache.rs:162-172, 258-283).                                            *)
LookupsSpareWhatWasThere ==
  [][\A r \in Requests :
       LET k == url[r] IN
       pc[r] = "deleteRow" /\ pc'[r] \in {"unlink", "miss"}
       /\ k \in GetKeys /\ rows[k] # None /\ rows[k].body = found[r]
         => rows[k].expires <= now[r] \/ files[k] # rows[k].body
    ]_historyVars
=============================================================================
