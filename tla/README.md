# A verification development for http-cache

http-cache is a forward HTTP proxy with a response cache: a TCP server that
forwards requests, relays CONNECT tunnels, stores cacheable responses in a
SQLite table with one body file per GET entry, and replays them. The modules
here model the parts of it in which the order of events matters, check them with
TLC on small instances, and prove their main properties with TLAPS for every
value of the constants. File names below are relative to the repository
(`src/src/` holds the Rust code, `src/docs/` the roadmap, `src/tests/` the
tests).

## 1. Inventory

| Component | State | Operations | Talks to |
|---|---|---|---|
| Entry point and configuration, `main.rs`, `config.rs` | a file read once; `.cache` and an address, shared by processes | `load`, `validate`, `run`, `prepare_runtime_dirs`, `build_cache`, `SqliteCache::new` | the file system; other proxy processes, through both |
| Accept loop and connections, `server.rs` | listener, semaphore, one task per connection | `serve_with_state`, `handle_connection` | hyper; the handler of each request |
| Request handler, `server.rs`, `http_proxy/mod.rs` | one request's locals | `handle_request`, `enforce_request_limits`, `handle_http`, `LimitedBody`, `TimedBody` | limiter, policy, cache, upstream, tee |
| Rate limiter, `server.rs:275-315` | `windows`, a map behind a lock | `allow` | called by every request's task |
| CONNECT tunnel, `connect_tunnel.rs` | two sockets, a timeout | `handle_connect`, the spawned copy | hyper's upgrade; the policy |
| Cache pipeline, `http_proxy/mod.rs`, `cache_pipeline.rs` | the static set `CACHE_WRITE_LOCKS` | `cached_response`, `try_acquire_cache_write`, the permit's `Drop` | the cache, the tee |
| Tee and cache writer, `cache_pipeline.rs:63-322` | bounded channel, oneshot completion, abort flag, temporary file | `TeeBody::poll_frame`, `disable_cache`, `finish`, `drop`, the spawned writer | the client's polling, the file system, `Cache::store` |
| Cache backend, `cache.rs` | the table `cache_entries`, the files under `objects/` | `get`, `store`, `delete`, `parse_cache_control` | SQLite: a connection per call, every statement a transaction |
| Target and header functions, `upstream.rs`, `headers.rs` (two) | none | `rewrite_absolute_form`, `compute_expiry`, `strip_hop_by_hop`, ... | called by the handler |
| Policy, `policy.rs` | compiled rules | `check` | called by the handler and the tunnel |
| Errors, `errors.rs` | none | `status_code` | every error's way to the client |
| Logging, `obs.rs` | none | set-up | |

What is hard in this code:

- **Two stores that are not one.** An entry is a row in SQLite and a file. A
  commit renames the file and then inserts the row; a lookup reads the row and
  then opens the file; a delete reads, deletes and unlinks. No transaction spans
  these steps, and any two requests may interleave between them.
- **Eviction by several statements.** INSERT, COUNT, SELECT and DELETEs of one
  store are separate transactions; concurrent stores see each other's halves.
- **Three signals for one end of a body.** The writer learns how a body ended
  from the channel, the completion and the abort flag, in any order; chunks may
  be refused, the client may leave, the upstream may fail, `BufWriter` may hold
  bytes back.
- **A permit per key** that must be given back on each of the writer's exits,
  and a semaphore whose permits must come back however a connection ends.
- **A clock read before a lock is taken**, and used after; and three readings of
  it between a response and its entry in the cache.
- **A body that turns out too large on its way**: it has no declared length, or
  hop-by-hop stripping has removed it, and part of it is with the upstream.
- **Integers of two kinds**: `max-age` is a `u64`, the clock and the expiry are
  `i64`; a cast may wrap and an addition saturates.
- **Processes that share a directory**: a start in dev mode removes `.cache`
  before it knows whether the address is free.
- **Crashes**: the table and the files stay, permits and temporary files' owners
  do not.

What makes each component correct:

- backend: a row never leads to a body older than itself; `max_entries` holds up
  to the stores under way; every call returns;
- pipeline: a key's permit is out exactly while its one writer lives; a row and
  its file belong together except during that key's own commit; a client is
  served the latest body of its own key, behind headers of that key that were
  live when it asked; lookups and commits end;
- tee: only a whole body, in order and within the limits, gets the final name;
  no temporary file stays; the writer ends, also when the client stalls on a
  body that is no longer cached;
- rate limiter: at most `per_ip_rps` per second, no refusal below it;
- server: permits balance, accepted connections are served, tunnels end;
- request handler: a 4xx of the proxy's own has had no effect upstream; no
  upstream sees a cut body as a whole one; a request is logged as completed only
  when all that its answer was made of has been relayed, and a replay that does
  not break off is as long as its row says; every request is answered, once and
  for good;
- policy and headers: nothing is reached or replayed that the rules deny; what is
  stored expires by every deadline the response and the configuration set;
- start: a process that serves with a cache has its table.

`PROJECT.json` lists the hazards one by one, each at its line, with the
properties aimed at it.

## 2. Modules

| Module | Models | Proofs |
|---|---|---|
| `SqliteCache` | `cache.rs` | `SqliteCacheProofs` |
| `CachePipeline` (extends `SqliteCache`) | `mod.rs`, `cache_pipeline.rs`: lookups, replays, permits, commits | `CachePipelineProofs` |
| `ReplayCache` | the abstract promise of the cache to its clients | |
| `ReplayHistory` (extends `CachePipeline`) | the pipeline with the history of its commits, mapped to `ReplayCache` | `ReplayHistoryProofs` |
| `TeeStream` | `TeeBody` and the writer of one body | `TeeStreamProofs` |
| `BodyCommit` | the abstract promise `TeeStream` implements | |
| `RateLimiter` | `IpRateLimiter` | `RateLimiterProofs` |
| `Server` | accept loop, connections, tunnels | `ServerProofs` |
| `Policy` | `PolicyEngine::check` | `ExchangeProofs` |
| `Headers` | header stripping, `parse_cache_control`, `compute_expiry` | `ExchangeProofs` |
| `Startup` (extends `Policy`) | `main`, `Config`, `run` up to the accept loop, of several processes | `ExchangeProofs` |
| `Exchange` (extends `Startup`, `Headers`) | one request from `handle_request` to the end of its reply | `ExchangeProofs` |
| `Forwarding` | the abstract promise about one request that `Exchange` implements | |
| `MC...` | model values and instances for TLC | |

**SqliteCache.** One action per SQL statement and per file operation; a task is
one call, and `pc` is the statement it runs next. `rows` is the table, `files`
the body under each final name, `entry`, `now`, `overflow`, `doomed` and
`victim` are a call's locals. A body is the number of the commit that renamed
it, and a row carries the number of the body it was stored with: this number
stands for status, headers and `body_size`, so two bodies are told apart and
nothing else of them is. A GET entry has a file, a HEAD entry only a row. `last`
is `last_access`; ties are broken arbitrarily, as `ORDER BY last_access` without
a second key may. Any statement may fail, and a body may stay when its row is
deleted (`MayFail`, `Unlink`); a lookup's caller may be dropped (`GetDropped`)
because it runs in the connection's task, a store's may not because it runs in a
spawned task. `Restart` is a crash and a start; `ClearOnStart` is dev mode's
`prepare_runtime_dirs`.

**CachePipeline.** A request's `stage` is where `handle_http` is: in its lookup,
replaying, waiting for the upstream, streaming into a writer, or committing. Its
calls of the cache are the very actions of `SqliteCache`, so a request is at
most in one call, and `CacheSpec` is a property of the composition. What makes a
response cacheable is a choice (`NotCacheable`). What the stream does is
summarised as `Commit` or `Discard`; `TeeStream` gives the detail.

**ReplayCache.** What a client of the cache can rely on, with no table, no files
and no statements: responses are published one after the other, a key leads to
one of them or to none, and a client is served the body its key leads to, or
nothing. The headers in front of it may be those of an earlier response of the
same key that had not expired when the client asked: that much `replay_mix`
costs, and no more. A key is filled by one request at a time, and only by one
that asked and found nothing. Anything may be forgotten at any time.

**ReplayHistory.** `CachePipeline` with three history variables: `log`, every
response whose body got its final name, `torn`, the keys whose commit a crash
has cut between rename and INSERT, as long as it shows (`Mixed`), and `found`,
the response whose row was there when a lookup was called, as long as that
lookup may still delete it. `Doing` maps a request's stage to what it is about; `files` is what a key leads to.
HEAD requests map to idle ones: their rows hold no body.

**TeeStream.** `tee` and `writer` are the program counters of the two tasks.
`DisableCache`, `CutSenders`, `Finish` and `CloseChannel` are the steps of one
poll that another thread can observe separately. Chunks have size 1 and are
numbered, so that a hole, a swap or a truncation shows. `buf` is what
`BufWriter` holds back and may write at any time.

**BodyCommit.** A body is received, and then published whole, or withdrawn, or
neither; nothing else. `TeeStream` maps its writer's states to three phases
(`Phase`) and must be a behaviour of it (`CommitsBody`).

**RateLimiter.** `ReadSecond` reads the clock; `Allow` is all that happens under
the lock. `granted` and `late` are history variables: what was granted by
second, and how many requests took the lock after a later second's request had.

**Server.** A connection is in the backlog, accepted and waiting for a permit,
open, or ending; its tunnel is pending, open, closed or cut. `age` is what the
code's timeout measures, `idle` a history variable: what its name promises.

**Policy.** A host is the sequence of its labels, a pattern one of three kinds;
the code compares strings, and a suffix that starts with a dot is a suffix of
labels. `Check` is the code's order of rules; the property's `Named` and
`Permitted` say independently which names a pattern means.

**Headers.** Of a request's head there are the set of its header names and the
tokens of each `Connection` line, of a response's the directives of each
`Cache-Control` line; the code reads the first line of each only. Stripping
matters here for the request's `Content-Length`, which `Prepare` looks at
afterwards. That other names are removed from what is forwarded and stored is
what `strip_hop_by_hop` says in one line, and no property is about it; section 6
says what it leaves. `AsI64` is the cast of a `u64`,
`SaturatingAdd` the addition; `I64Max` is a parameter, so that TLC wraps at 7
and the proofs hold at 2^63 - 1.

**Startup.** A process loads its file, prepares `.cache`, binds, builds its
cache and serves; each is a step, because another process may take its own in
between. `dir` is what `.cache` is at the moment, `Default` the configuration of
a file that says nothing, `Valid` the code's `validate`. `wiped` is a history
variable: another process has removed what this one built.

**Exchange.** `stage` is where the handler of one request is; `answer` is what
the client gets, one of the errors of `errors.rs` or the source of a response.
The request's body moves on its own (`Upload`) from when the upstream is
connected, also while the response is being relayed. `LimitedBody` cuts it in
`PollFrame`: an error of the body reaches `handle_http` only as an error of the
upstream connection, hence `BreakUpload`. A `Content-Length` that the request's
own `Connection` header names is stripped before it is looked at (`Prepare`).
`ReadExpiry`, `Decide` and `Store` read the clock one after the other. Every
successful answer goes through `TimedBody` (`server.rs:210`), so the stage
"reply" is one for upstream bodies, replays and the empty 200 of a CONNECT:
`ReplySize` is how much its source has, `Announced` how much its head says. For a
replay these come from two places, the row and the file, and may differ
(`Copies`). `ReplyEnds` is the poll that finds the end, where `TimedBody` logs;
`ReplySuffices` is hyper, which need not poll a body again once it has as much as
was announced. Whether
the rate limiter refuses, whether a lookup hits and whether the permit for a
writer is free are choices here; the modules above have them in detail. `Exit`
of the process drops the handler where it is.

**Forwarding.** What client, upstream and cache can see of one request: it is
taken, answered once, and over. A refusal (a 4xx of the proxy's own) comes
before anything has happened, nothing is begun after an answer, the upstream is
given no more of the body than is allowed and sees it end only when it has all
of it, a reply is relayed only from the cache or from an upstream that was sent
the request, and only what may be stored is replayed or kept. `Exchange` must be a
behaviour of it (`ForwardsAsPromised`); `Order` is what of a request, a
configuration and a policy this promise is about.

## 3. Runs

| Run | Instance | Shows |
|---|---|---|
| `sqlite_cache` | 2 tasks, a GET and a HEAD key, `max_entries` 1, failures, dev-mode restart | rows are not newer than bodies; every call returns |
| `sqlite_limit` | 3 tasks, 3 keys, `max_entries` 1, one crash | the table exceeds the limit by no more than the stores under way, and the last store restores it |
| `pipeline` | 2 requests, a GET and a HEAD key, failures, one crash | permits, pairing of rows and bodies, refinement of `CacheSpec`, progress |
| `replay_history` | 3 requests for two GET keys, `max_entries` 1, one crash | clients see a `ReplayCache`, also where table and files survive a crash and the permits do not; only a commit that was cut tears a pair; a lookup deletes no entry that was live and there when it was called |
| `tee_stream` | up to 4 chunks, channel of 2, size limit 3, every fault | whole bodies only, no temporary file, the writer ends, `BodyCommit` |
| `rate_limiter` | 3 tasks, 2 addresses, 3 seconds, limit 2 | excess only through late tasks; refusals only at the limit |
| `server` | 3 clients, 1 permit, timeout of 2 ticks | permits balance, admission is bounded, connections are served, tunnels end |
| `exchange` | one request of 11 kinds, 9 kinds of response, 3 kinds of hit, 2 processes with 4 and 3 configurations | limits, policy, deadlines, the end of either body, starts that meet, an answer for every request; refinement of `Forwarding` |
| `replay_mix`, `lookup_delete`, `late_request`, `tunnel_cut` | the smallest instance with the case | the four findings of section 6 |

Bounds, and why they are enough:

- *Tasks and keys.* The conflicts are between pairs: a lookup and a commit, two
  commits, a store and an eviction. Two requests of one key show them, a second
  key of the other kind shows that eviction crosses keys; the limit needs three
  stores, so that two evict while a third inserts. A mix-up of keys needs two
  GET keys, and a third request that replays while two others commit and evict.
- *`MaxBodies` 2.* Old and new. A third body would only be newer still.
- *`MaxClock` 1, `Lifetimes` {1}* in the cache: an entry is live at its creation
  and expired one tick later. The writer reads the clock for `created_at` after
  the expiry has been fixed, so a lifetime may also be zero or negative: such a
  row is expired from the start, as one of lifetime 0 is. `sqlite_limit` stands
  still (clock 0) and uses
  lifetime 0 for rows that are expired at once.
- *`MaxRestarts` 0 or 1.* What a second crash could find, a first one leaves.
- *Tee*: four chunks against a channel of two and a limit of three reach a full
  channel, a body that is too large and a declared length on either side.
- *Limiter*: a late task needs two seconds and the third shows the window set
  back and forth; limit 2 tells a counter from a flag.
- *Server*: one permit makes every second connection wait; three clients let one
  be served, one be held and one be in the backlog. Time stops at the timeout
  because the code compares with it only.
- *Exchange*: one request, since requests meet only in what the other modules
  model; its host, port, body, declared length and headers are chosen so that
  each rule and each limit is met from both sides (a body of 2 and one of 3 at a
  limit of 2, a `max-age` at `I64Max` and one above it, names below, at and
  above a pattern, a file as long as its row says, shorter and longer). `I64Max` 7 lets every cast wrap and every addition saturate
  within `MaxClock` 2. The default lifetime, which is larger, is cut to it. The
  second process is there for what its start does to the first: wiping, sharing
  the address or having another one.

Symmetry is used on tasks, keys and addresses, in runs without liveness.

## 4. Fairness

Every fairness condition is weak fairness of steps that tokio or SQLite perform
on their own: a call's next statement (`CacheStep`, `Proceed`), the writer's
task and the rest of a poll that has begun (`WriterStep`, `TeeStep`), the accept
loop's `Spawn`, the end of a connection whose service is over, the timer and the
tunnel's task, and the handler's own steps with the timeout of its connect
(`Proceed` of `Exchange`). None is assumed of clients or upstreams: nobody has
to poll a body, to close, to send, to connect, to respond or to start a process.
So `WriterEnds` starts from a body that is over and `AbortEnds` from one that is
given up; a stalled download keeps its permit for ever in the model, as it does
in the code. `AcceptedIsServed` assumes in its own statement that permits keep
coming back, for the same reason, and `Answered` ends where an upstream that is
connected has not responded: the code waits for it without a limit.

## 5. Proofs

All theorems hold for any sets of tasks, keys, addresses and clients, any limits
and any bounds, under the named assumptions next to the constants
(`...Assumption`): GET and HEAD keys differ, `None` is no value, numbers are
naturals, the client set is finite, `max_connections` and the idle timeout are
positive (`Config::validate` rejects 0), and so is `per_ip_rps` where the
limiter is asked at all (`enforce_request_limits` refuses everything at 0). A
cache entry's lifetime is any integer, because `created_at` is read after the
expiry is fixed. For
`Exchange` they are that requests, responses and configurations have their types
(names are sequences of strings, sizes are naturals, a lifetime is an `i64`, a
suffix pattern has a label) and that `None` is neither a number nor an answer.

- `SqliteCacheProofs`. `CacheTypeCorrect` adds `FiniteTable`: the table starts
  empty and grows by a row at a time, which is what makes `Cardinality` mean
  something. `RowsNotNewerThanBodies` needs `BodyInv`: body numbers in rows,
  files and pending stores do not exceed the count of commits (`Numbered`), and
  a store that has not inserted its row holds one that is not newer than the
  file (`PendingNotNewer`), although the file may have been replaced or unlinked
  since. `StoresRestoreLimit` needs `LimitInv`: while stores are between INSERT
  and last eviction, either the table is within the limit or one of them is
  bound to bring it there by what it has read so far (`Settling`); the store
  that was the last to insert is such a one, even after a crash.
  `EntryLimitHolds` has to say which of several stores answers for which rows.
  Its `EntryInv` ranks the stores under way by their INSERT, the last one
  lowest: what a store has counted and picked leaves `max_entries` rows and one
  for each store that ranks below it (`Owed`). An INSERT puts a new store below
  all others (`EntryInserts`); one that leaves had room for the later ones only,
  so that those before it lose no more than it took (`EntryLeaves`). The ranks
  are no variable of the cache: that some ranks would do is the invariant.
- `CachePipelineProofs`. `PipelineInv` is the type invariant with the facts
  about a writer's response. `PipelineImplementsCache` maps each of the
  pipeline's steps to a step of `SqliteCache` or a stutter; every theorem of the
  cache then holds of the pipeline (`PipelineKeepsLimit`,
  `PipelineRestoresLimit`). `PermitsAreDisciplined` is inductive with the types.
  `CommitWindowHolds` needs `PendingIsOwn`: since a key has one writer, the row a
  writer is about to insert describes the file that is there, unless it has been
  unlinked. What every step but a crash does to a pair is said once
  (`StaysPaired`, proved in `WindowStep`) and used for both windows.
  `ReplaysAreNotOlder` needs `ReadInv`: what a lookup has read is not newer than
  the present file.
- `ReplayHistoryProofs`. The history only watches (`HistoryOnlyWatches`), so all
  that is proved of the pipeline holds of it. `HistoryInv` is why a client gets
  its own key's responses: a response in the log has a number of its own
  (`LogInv`), and every row in the table (`RowsLogged`), every row a store is
  about to insert (`PendingLogged`) and every row a lookup goes on with
  (`ReadLogged`) is in the log under that very key, the lookup's with an expiry
  after the time it was called. The parts depend on each other: an INSERT takes
  a pending row to the table, a SELECT takes it from there to a lookup, a replay
  hands it to the client. The refinement `PipelineKeepsPromise` follows, one lemma per group of steps: a call's statements forget or stutter (`PromiseCall`), the lookup's
  steps ask, serve, miss or leave (`PromiseLookup`), the writer's fill, publish
  or leave (`PromiseFetch`, `PromiseCommit`). That a key has one filler is
  `PermitDiscipline`; that headers are no newer than the body, `ReadInv`.
  `OnlyCutCommitsTearHolds` is inductive with `PendingIsOwn`: a restart keeps
  or clears table and files together, so it tears nothing that was not in its
  writer's window. `LookupsSpare` needs `SpareInv`: a row that is about to be
  inserted is none that a lookup under way has found (`PendingIsNew`, because a
  key has one writer and numbers are not used twice), so a row that is still the
  one a lookup found is the one it has read; and such a row had expired, or its
  body was gone and none but a later one can be there by now (`DeleteIsDue`).
- `TeeStreamProofs`. The invariant `Inv` has one part per place a chunk can be
  in and per decision: which of the senders are alive (`SenderInv`), what the
  channel holds (`ChannelInv`), what file, buffer and channel together make up
  (`WrittenInv`), what is known when the writer decides (`DecidedInv`), and what
  is under the final name (`FinalInv`). From it come `CommittedBodyHolds`,
  `NoTempIsLeft` and the refinement `StreamCommitsBody`.
- `RateLimiterProofs`. `RefusalsAreJustified` needs `CountInv`: what a window
  has counted was granted in its second. `ExcessIsBounded` needs `ExcessInv`, by
  the place of the address's window: before a second, that second has used up at
  most one window per late request; in it, the present count comes on top; past
  it, one more window.
- `ServerProofs`. `PermitInv` joins the types to `PermitBalance`, from which the
  bounds of `permits` follow; `AdmissionIsLimited` adds `OneAccepted`: the loop
  holds at most one connection without a permit.
- `ExchangeProofs`. `IInv` joins the types to what each stage of the handler
  implies (`HandlerInv`) and to one part per property. `PolicyInv` carries the
  check from `Route` to wherever it matters; `PolicyHolds` then rests on
  `ListedIsNamed`, which shows the code's comparison of suffixes to mean the
  names below a pattern, for names of any length. `RefusalInv` places every 4xx
  before the connection. `BodyInv` says that `LimitedBody` passes on what it has
  seen until the body is over. `DateInv` rests on `MaxAgeType` and
  `ExpiryBounds`: whatever wraps or saturates, the result is no later than each
  deadline, as long as the configured lifetime is an `i64`. `LoggedWhole` and
  `ReplaysAsLong` are inductive with `HandlerInv`, which says what an answer that
  is being relayed comes from. `TablesThere` is inductive with the types. `ExchangeForwards` is the refinement of `Forwarding`:
  `PlaceInv` says at which stages a request is one that may be stored and its
  upload has begun, `OrderStays` that what a request asks for and may do stays
  what it was when it was taken, `CheckedIsPermitted` that the code's check means
  what the promise calls permitted. Then every action of the handler maps to a
  step of `Forwarding` or to a stutter (`ForwardTake`, `ForwardStep`).

Only model-checked: all liveness (`CallsReturn`, `LookupsDecided`, `CommitsEnd`,
`WriterEnds`, `AbortEnds`, `AcceptedIsServed`, `TunnelsEnd`, `Answered`), which
is out of the prover's reach. Every safety property that a passing run checks is
proved.

## 6. Where code and documents disagree

- `replay_mix`: a lookup reads a row, a commit of the same key renames a new
  body, and the replay opens that body by name: the old status, headers and
  content-length precede the new body. `KeepsPromise` says what holds all the
  same: both are of the key asked for, and the headers were live.
- `lookup_delete`: a lookup that read an expired row deletes by key, and removes
  the live entry a commit has stored in between. `LookupsSpareWhatWasThere`
  bounds the damage: no entry is lost that was there when the lookup was called,
  is live by the time it read then, and has its own body.
- `late_request`: a task that read second *s*, and got the lock after a request
  of *s* + 1, opens the window of *s* again, so more than `per_ip_rps` requests
  are granted in it. `ExcessOnlyFromLate` bounds the damage.
- `tunnel_cut`: the "idle" timeout is the lifetime of the tunnel.

The models also show behaviour that no document speaks about, and that a reader
of the code should know:

- A tunnel runs in a task of its own and does not hold its connection's permit:
  `max_connections` does not count it.
- A request body whose length is not declared, or whose declaration is stripped,
  is cut at the limit, but the client gets a 500 or the upstream's own answer to
  what it saw, not a 413.
- Of several `Cache-Control` or `Connection` lines only the first one counts: a
  header that a later `Connection` line names is forwarded, stored and replayed.
- Hop-by-hop headers are stripped from a request before it is forwarded and from
  a response before it is stored, but a response that is relayed keeps its own
  (`mod.rs:76`, `105`, `151-183`).
- A replay whose file is shorter than its row says, which the race of
  `replay_mix` or a crash can leave, breaks off with the client but is logged as
  completed (`server.rs:391`): `LoggedIsWhole` is about the file that was opened.
  One whose file is longer ends, without any sign, after as much of the other
  body as its row says (`ReplayAsLong`).
- A CONNECT is logged as completed, if at all, when its 200 is out, not when its
  tunnel ends.
- A dev-mode start wipes the cache of a running process in the same directory,
  also when it then fails because the address is taken (`wiped` in
  `TableWhileServing`).
- A replay keeps one line of a header that had several (`headers.insert`,
  `cache_pipeline.rs:29`).

## 7. What is not modelled

- `obs.rs`, `redact_headers_for_logging`, the spans and everything else that is
  only logged, except whether a request is logged as completed.
- hyper itself. The models assume of it that a reply whose head announces a
  length is cut at it when its body goes on, and broken off when it ends before,
  and that an error of a request's body ends the upstream connection.
- How TOML is read, and `startup_warnings`; a file is missing, wrong or says a
  configuration.
- The text of what is sent: paths, `Host`, the lower case of names, JSON of
  stored headers, error bodies.
- Several requests of one connection after each other: hyper starts one when the
  last is over, and they share nothing.
- `NoopCache`: it stores nothing and finds nothing (`ServeUncached`, and
  `MayStore` in `Exchange`).
- A removal that fails, of a temporary file or of a body whose row could not be
  stored: the code ignores these errors, and the models let such removals
  succeed. If both the INSERT and the removal failed, an old row would stay with
  a new body, as after a crash in that window. Two keys whose hash is the same.
- A wall clock that is set back, and addresses that the limiter never forgets:
  the code has no provision to state a property of.
- Temporary files, and bodies without a row, that a crash leaves behind: nothing
  reclaims them, and they are never read.

## 8. Plan

Done, in the order of importance: the cache backend, the pipeline on top of it
and what it promises its clients, the tee with its promise, the rate limiter,
the connections with their tunnels, then one request with its limits, policy,
headers and answers, and the start of the processes around it; and the proofs of
their safety.

What would come next: the composition of `Exchange` with `CachePipeline`, in
which the lookup and the writer of a request are those of the pipeline.
