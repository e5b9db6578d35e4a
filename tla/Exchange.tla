------------------------------ MODULE Exchange ------------------------------
(***************************************************************************)
(* One request through a proxy process, from handle_request of server.rs   *)
(* to the end of its reply: the limits, the policy, the target, the        *)
(* request's body on its way to the upstream, the decision to store the    *)
(* response, and the reply, while processes start and stop around it.      *)
(*                                                                         *)
(* A lookup finds something or not and may fail: SqliteCache and           *)
(* CachePipeline have its statements, TeeStream the body that is stored,   *)
(* and RateLimiter the count behind a 429.                                 *)
(***************************************************************************)
EXTENDS Startup, Policy, Headers

CONSTANTS
  Requests,   \* the requests clients may send
  Responses,  \* the responses upstreams may give
  Copies,     \* what a hit may lead to: a row's length and a file's size
  MaxClock    \* bound: the last second

ASSUME RequestAssumption ==
  \A r \in Requests :
    /\ r # None
    /\ r.host \in Seq(STRING) /\ r.body \in Nat
    /\ r.declared \in Nat \cup {None}
ASSUME ResponseAssumption ==
  \A r \in Responses :
    /\ r # None
    /\ r.size \in Nat /\ r.length \in Nat \cup {None}
    /\ r.expires \in Nat \cup {None}
    /\ r.cacheControl \in Seq(Seq([name : STRING, age : Nat \cup {None}]))
ASSUME CopyAssumption ==
  \A c \in Copies : c # None /\ c.length \in Nat /\ c.size \in Nat
(* The file's integers are signed: serde refuses what does not fit.        *)
ASSUME ConfigsAssumption ==
  \A p \in Processes : \A c \in Configs[p] :
    /\ c.maxBodyBytes \in Nat /\ c.ttl \in 0..I64Max
    /\ \A d \in c.policy.allowedDomains \cup c.policy.deniedDomains :
         d.labels \in Seq(STRING) /\ (d.kind = "below" => d.labels # <<>>)
ASSUME ClockAssumption == MaxClock \in Nat

VARIABLES
  clock,      \* the wall clock, in seconds
  proxy,      \* the process that has the request
  request,    \* the request
  stage,      \* where its handler is
  contacted,  \* whether the upstream has been connected to
  replay,     \* the row a replay is built from, and the file it opened
  upload,     \* the request's body: idle, open, whole or cut
  seen,       \* how much of it LimitedBody has seen
  sent,       \* how much of it has been passed on
  response,   \* the upstream's response
  fetched,    \* history: when compute_expiry read the clock
  expiry,     \* what it returned
  entry,      \* what was handed to the cache
  answer,     \* what the client gets: a ProxyError or a response's source
  relayed,    \* TimedBody's bytes: how much of the reply has been relayed
  logged      \* whether TimedBody has logged the request as completed

target == <<proxy, request>>
body == <<upload, seen, sent>>
storing == <<response, fetched, expiry, entry>>
reply == <<answer, relayed, logged>>
vars == <<startupVars, clock, target, stage, contacted, replay, body,
          storing, reply>>

Init ==
  /\ StartupInit
  /\ clock = 0
  /\ proxy = None /\ request = None
  /\ stage = "idle"
  /\ contacted = FALSE /\ replay = None
  /\ upload = "idle" /\ seen = 0 /\ sent = 0
  /\ response = None /\ fetched = None /\ expiry = None /\ entry = None
  /\ answer = None /\ relayed = 0 /\ logged = FALSE

limits == config[proxy]

(***************************************************************************)
(* ProxyError::status_code.                                                *)
(***************************************************************************)
StatusCode ==
  [BadRequest |-> 400, PolicyDenied |-> 403, RequestBodyTooLarge |-> 413,
   TooManyRequests |-> 429, HeaderTooLarge |-> 431, Timeout |-> 504,
   Io |-> 500, Sqlite |-> 500, Http |-> 500]

Errors == DOMAIN StatusCode
Answers == Errors \cup {"upstream", "replay", "tunnel"}
ASSUME AnswerAssumption == None \notin Answers

Enter(s) == stage' = s /\ UNCHANGED reply

(* The handler returns: an error becomes a response of its own.            *)
Answer(a, s) ==
  /\ stage' = s
  /\ answer' = a
  /\ UNCHANGED <<relayed, logged>>
Fail(error) == Answer(error, "done")

(***************************************************************************)
(* handle_request and what comes before the upstream.                      *)
(***************************************************************************)
Receive(p, r) ==
  /\ stage = "idle"
  /\ phase[p] = "serving"
  /\ proxy' = p /\ request' = r
  /\ Enter("received")
  /\ UNCHANGED <<startupVars, clock, contacted, replay, body, storing>>

Handle == UNCHANGED <<startupVars, clock, target>>
Quiet == Handle /\ UNCHANGED <<contacted, replay, body, storing>>

EnforceRequestLimits ==
  /\ stage = "received"
  /\ IF request.headerBytes > limits.maxHeaderBytes THEN Fail("HeaderTooLarge")
     ELSE (limits.perIpRps # 0 /\ Enter("admitted")) \/ Fail("TooManyRequests")
  /\ Quiet

(* The port the request names, or the scheme's.                            *)
Port == IF request.port # None THEN request.port
        ELSE IF request.method = "CONNECT" THEN None ELSE 80

(* rewrite_absolute_form wants an http target, handle_connect a port.      *)
WellFormed ==
  IF request.method = "CONNECT" THEN Port # None ELSE request.scheme = "http"

(* Mutant of MayStore: a request for a range is looked up like any other.  *)
MayStoreRange == limits.caching /\ request.method \in {"GET", "HEAD"}

MayStore ==
  limits.caching /\ request.method \in {"GET", "HEAD"} /\ ~request.range

Route ==
  /\ stage = "admitted"
  /\ IF ~WellFormed THEN Fail("BadRequest")
     ELSE IF ~Check(limits.policy, request.host, Port) THEN Fail("PolicyDenied")
     ELSE Enter(IF request.method = "CONNECT" THEN "connect"
                ELSE IF MayStore THEN "lookup" ELSE "prepare")
  /\ contacted' = (stage' = "connect")
  /\ Handle /\ UNCHANGED <<replay, body, storing>>

(* An error of the cache fails the request.  A hit may turn out unreadable,*)
(* and another commit may have put its file where the row's was.           *)
Lookup ==
  /\ stage = "lookup"
  /\ \/ Fail("Sqlite") /\ UNCHANGED replay
     \/ dir = "table" /\ Enter("prepare") /\ UNCHANGED replay
     \/ dir = "table" /\ Answer("replay", "reply") /\ replay' \in Copies
  /\ Handle /\ UNCHANGED <<contacted, body, storing>>

(* rewrite_absolute_form has set the Host header, strip_hop_by_hop follows,*)
(* and wrap_limited_request_body looks at the Content-Length that is left. *)
Prepare ==
  LET names == StripHopByHop(request.names \cup {"host"}, request.connection) IN
  /\ stage = "prepare"
  /\ IF /\ "content-length" \in names /\ request.declared # None
        /\ request.declared > limits.maxBodyBytes
     THEN Fail("RequestBodyTooLarge") /\ UNCHANGED contacted
     ELSE Enter("connect") /\ contacted' = TRUE
  /\ Handle /\ UNCHANGED <<replay, body, storing>>

(***************************************************************************)
(* The upstream.                                                           *)
(***************************************************************************)
Connected ==
  /\ stage = "connect"
  /\ IF request.method = "CONNECT"
     THEN Answer("tunnel", "reply") /\ UNCHANGED upload
     ELSE Enter("exchange") /\ upload' = "open"
  /\ Handle /\ UNCHANGED <<contacted, replay, seen, sent, storing>>

ConnectFails == stage = "connect" /\ Fail("Io") /\ Quiet

(* Mutant of ConnectTimesOut: only tunnels have the timeout.               *)
ConnectTimesOutForTunnels ==
  stage = "connect" /\ request.method = "CONNECT" /\ Fail("Timeout") /\ Quiet

ConnectTimesOut == stage = "connect" /\ Fail("Timeout") /\ Quiet

(* The handshake fails, or the connection ends without a response.         *)
ExchangeFails ==
  /\ stage = "exchange"
  /\ Fail("Http")
  /\ upload' = IF upload = "open" THEN "cut" ELSE upload
  /\ Handle /\ UNCHANGED <<contacted, replay, seen, sent, storing>>

(* Mutant of BreakUpload: the error comes back as it was raised.           *)
BreakUploadAsRaised ==
  /\ upload' = "cut"
  /\ IF stage = "exchange"
     THEN Fail(IF request.body > limits.maxBodyBytes THEN "RequestBodyTooLarge" ELSE "Http")
     ELSE UNCHANGED <<stage, reply>>

(* An error of the request's body ends the upstream connection, and the    *)
(* request if its response is not there yet: whatever the error was, it    *)
(* comes back from hyper as a hyper::Error.                                *)
BreakUpload ==
  /\ upload' = "cut"
  /\ IF stage = "exchange" THEN Fail("Http") ELSE UNCHANGED <<stage, reply>>

(* Mutants of PollFrame: a frame is looked at with what came before it     *)
(* only; the body ends at the limit instead of failing.                    *)
PollFrameLate(size) ==
  /\ seen' = seen + size
  /\ IF seen > limits.maxBodyBytes
     THEN BreakUpload /\ UNCHANGED sent
     ELSE sent' = sent + size /\ UNCHANGED <<upload, stage, reply>>

PollFrameEnding(size) ==
  /\ seen' = seen + size
  /\ IF seen' > limits.maxBodyBytes
     THEN upload' = "whole" /\ UNCHANGED <<sent, stage, reply>>
     ELSE sent' = sent + size /\ UNCHANGED <<upload, stage, reply>>

(* LimitedBody::poll_frame with a frame of that size.                      *)
PollFrame(size) ==
  /\ seen' = seen + size
  /\ IF seen' > limits.maxBodyBytes
     THEN BreakUpload /\ UNCHANGED sent
     ELSE sent' = sent + size /\ UNCHANGED <<upload, stage, reply>>

Upload ==
  /\ upload = "open"
  /\ \E size \in 1..(request.body - seen) : PollFrame(size)
  /\ Handle /\ UNCHANGED <<contacted, replay, storing>>

UploadEnds ==
  /\ upload = "open" /\ seen = request.body
  /\ upload' = "whole"
  /\ Handle /\ UNCHANGED <<stage, contacted, replay, seen, sent, storing, reply>>

(* The client stops in the middle of its body, or the upstream takes no    *)
(* more of it.                                                             *)
UploadFails ==
  /\ upload = "open"
  /\ BreakUpload
  /\ Handle /\ UNCHANGED <<contacted, replay, seen, sent, storing>>

(***************************************************************************)
(* The response, which may come before the request's body is out.          *)
(***************************************************************************)
Deciding == Handle /\ UNCHANGED <<contacted, replay, body>>
Relay == Answer("upstream", "reply")

Respond(r) ==
  /\ stage = "exchange"
  /\ response' = r
  /\ IF MayStore /\ r.status # 206 THEN Enter("respond") ELSE Relay
  /\ Deciding /\ UNCHANGED <<fetched, expiry, entry>>

ReadExpiry ==
  /\ stage = "respond"
  /\ fetched' = clock
  /\ expiry' = ComputeExpiry(response, limits.ttl, clock)
  /\ IF expiry' = None THEN Relay ELSE Enter("decide")
  /\ Deciding /\ UNCHANGED <<response, entry>>

(* What handle_http wants of a body before it is teed into the cache.      *)
BodyMayBeStored ==
  /\ response.length # None /\ limits.maxObject > 0
       => response.length <= limits.maxObject
  /\ limits.requireLength => response.length # None
  /\ limits.capacity > 0

(* A GET whose key has a writer already is relayed as well.                *)
Decide ==
  /\ stage = "decide"
  /\ IF /\ expiry > clock
        /\ response.status \in 200..299
        /\ request.method = "GET" => BodyMayBeStored
     THEN Enter("store") \/ (request.method = "GET" /\ Relay)
     ELSE Relay
  /\ Deciding /\ UNCHANGED storing

Store ==
  /\ stage = "store"
  /\ entry' = [created |-> clock, expires |-> expiry]
  /\ Relay
  /\ Deciding /\ UNCHANGED <<response, fetched, expiry>>

(***************************************************************************)
(* The reply, frame by frame through TimedBody, whatever its source.       *)
(***************************************************************************)
(* The answer to a HEAD has no body, nor has the 200 of a CONNECT.         *)
Bodyless == request.method \in {"HEAD", "CONNECT"}

(* How much there is to relay.                                             *)
ReplySize ==
  IF Bodyless THEN 0 ELSE IF answer = "replay" THEN replay.size ELSE response.size

(* Mutant of Announced: a replay's head does not give the row's length.    *)
AnnouncedOfUpstream ==
  IF Bodyless THEN 0 ELSE IF answer = "replay" THEN None ELSE response.length

(* How much the client is told to expect.                                  *)
Announced ==
  IF Bodyless THEN 0 ELSE IF answer = "replay" THEN replay.length ELSE response.length

(* Mutant of RelayFrame: the end of the body is overlooked.                *)
RelayFrameEndless ==
  /\ stage = "reply"
  /\ relayed' = relayed + 1
  /\ UNCHANGED <<stage, answer, logged>>
  /\ Quiet

(* A frame that reaches beyond what was announced is cut there.            *)
RelayFrame ==
  /\ stage = "reply" /\ relayed < ReplySize
  /\ Announced # None => relayed < Announced
  /\ relayed' = relayed + 1
  /\ UNCHANGED <<stage, answer, logged>>
  /\ Quiet

(* The end of the body: hyper breaks the connection off if more of it was  *)
(* announced, but TimedBody has logged the request as completed.           *)
ReplyEnds ==
  /\ stage = "reply" /\ relayed = ReplySize
  /\ logged' = TRUE
  /\ stage' = IF Announced \in {None, relayed} THEN "done" ELSE "gone"
  /\ UNCHANGED <<answer, relayed>>
  /\ Quiet

(* hyper may leave the end unasked for when it has all that was announced. *)
ReplySuffices ==
  /\ stage = "reply" /\ relayed = Announced
  /\ Enter("done")
  /\ Quiet

(* Mutant of ReplyFails: an error is logged like an end.                   *)
ReplyFailsLogged ==
  /\ stage = "reply" /\ ~Bodyless
  /\ stage' = "gone" /\ logged' = TRUE
  /\ UNCHANGED <<answer, relayed>>
  /\ Quiet

(* The upstream ends the body early, or the file cannot be read.           *)
ReplyFails ==
  /\ stage = "reply" /\ ~Bodyless
  /\ Enter("gone")
  /\ Quiet

(* The client's connection is lost, or the process stops: the handler and  *)
(* both bodies are dropped where they are.                                 *)
Drop ==
  /\ stage \notin {"idle", "gone"}
  /\ Enter("gone")
  /\ upload' = IF upload = "open" THEN "cut" ELSE upload
  /\ UNCHANGED <<clock, target, contacted, replay, seen, sent, storing>>

ClientLeaves == Drop /\ stage # "done" /\ UNCHANGED startupVars

(* Time passes.  Nothing reads the clock before the response is there.     *)
Tick ==
  /\ stage \in {"respond", "decide", "store"}
  /\ clock < MaxClock
  /\ clock' = clock + 1
  /\ UNCHANGED <<startupVars, target, stage, contacted, replay, body, storing, reply>>

Others == UNCHANGED <<clock, target, stage, contacted, replay, body, storing, reply>>

Start(p) == Starting(p) /\ Others
Leave(p) == Exit(p) /\ IF p = proxy /\ stage # "gone" THEN Drop ELSE Others

Over ==
  /\ stage \in {"done", "gone"} \/ \A p \in Processes : phase[p] = "exited"
  /\ UNCHANGED vars

(* What the process does on its own.                                       *)
Proceed ==
  \/ EnforceRequestLimits \/ Route \/ Lookup \/ Prepare \/ ConnectTimesOut
  \/ ReadExpiry \/ Decide \/ Store

Next ==
  \/ \E p \in Processes :
       \/ \E r \in Requests : Receive(p, r)
       \/ Start(p) \/ Leave(p)
  \/ Proceed
  \/ Connected \/ ConnectFails \/ ExchangeFails
  \/ Upload \/ UploadEnds \/ UploadFails
  \/ \E r \in Responses : Respond(r)
  \/ RelayFrame \/ ReplyEnds \/ ReplySuffices \/ ReplyFails \/ ClientLeaves
  \/ Tick
  \/ Over

Spec == Init /\ [][Next]_vars
FairSpec == Spec /\ WF_vars(Proceed)

(***************************************************************************)
(* Properties.                                                             *)
(***************************************************************************)
Stages == {"idle", "received", "admitted", "lookup", "prepare", "connect",
           "exchange", "respond", "decide", "store", "reply", "done", "gone"}

(* Types, and what there is at each stage of the handler.                  *)
TypeOK ==
  /\ StartupTypeOK
  /\ clock \in 0..MaxClock
  /\ stage \in Stages
  /\ stage = "idle" <=> request = None
  /\ request # None => request \in Requests /\ proxy \in Processes
  /\ upload \in {"idle", "open", "whole", "cut"}
  /\ seen \in Nat /\ sent \in Nat
  /\ contacted \in BOOLEAN /\ logged \in BOOLEAN
  /\ response \in Responses \cup {None}
  /\ stage \in {"respond", "decide", "store"} \/ answer = "upstream" => response # None
  /\ replay \in Copies \cup {None}
  /\ answer = "replay" => replay # None
  /\ answer \in Answers \cup {None}
  /\ stage \in {"reply", "done"} => answer # None
  /\ relayed \in Nat
  /\ stage = "reply" => relayed <= ReplySize

(* A request that is refused for what the client sent, with a 4xx of the   *)
(* proxy's own, has had no effect: no connection to the upstream was tried *)
(* and nothing of it was passed on.  In particular a body that turns out   *)
(* too large on its way is no such refusal (mod.rs:57-75, server.rs:180-216*)
(* errors.rs:45-62).                                                       *)
RefusedUntouched ==
  answer \in Errors /\ StatusCode[answer] \in 400..499 => ~contacted /\ sent = 0

(* Whether the rules let a client reach a host: what is denied is denied,  *)
(* whatever is allowed; "*.d" means every name below d and not d itself.   *)
Named(patterns, host) ==
  \E p \in patterns :
    \/ p.kind = "any"
    \/ p.kind = "exact" /\ host = p.labels
    \/ p.kind = "below" /\ \E k \in 2..Len(host) : SubSeq(host, k, Len(host)) = p.labels

Permitted(policy, host, port) ==
  /\ ~Named(policy.deniedDomains, host) /\ port \notin policy.deniedPorts
  /\ policy.allowedDomains = {} \/ Named(policy.allowedDomains, host)
  /\ policy.allowedPorts = {} \/ port \in policy.allowedPorts

(* No upstream is connected to, no tunnel opened and nothing replayed from *)
(* the cache for a host and a port the policy does not permit, with the    *)
(* port the connection really has (mod.rs:37-61, connect_tunnel.rs:18-34,  *)
(* policy.rs:30-66).                                                       *)
OnlyPermittedReached ==
  contacted \/ answer \in {"replay", "tunnel"}
    => Permitted(limits.policy, request.host, Port)

(* However a body is cut into frames, and whatever length it declared, no  *)
(* more than max_request_body_bytes of it are passed on (mod.rs:232-245).  *)
UploadWithinLimit == request # None => sent <= limits.maxBodyBytes

(* An upstream that sees a request's body end has all of it: a body that   *)
(* is too large or breaks off is never taken for a shorter one             *)
(* (mod.rs:236-249).                                                       *)
WholeOrCut == upload = "whole" => sent = request.body

(* What is handed to the cache was live when it was judged, and expires no *)
(* later than the configured lifetime, the response's max-age and its      *)
(* Expires allow, counted from the moment the response was there, although *)
(* the clock is read three times and max-age may overflow                  *)
(* (headers.rs:19-48 and mod.rs:84-97 of src/src/http_proxy).              *)
StoredWithinDeadlines ==
  entry # None =>
    LET age == MaxAge(CacheControl(response)) IN
    /\ fetched < entry.expires
    /\ entry.expires <= fetched + limits.ttl
    /\ age # None => entry.expires <= fetched + age
    /\ response.expires # None => entry.expires <= response.expires

(* A request is logged as completed only when all that its answer was made *)
(* of has been relayed, the upstream's body or the file that was opened,   *)
(* not when a part of it has (server.rs:210, 346-396).                     *)
LoggedIsWhole ==
  logged => answer \in {"upstream", "replay", "tunnel"} /\ relayed = ReplySize

(* A replay that a client can take for complete has as many bytes as the   *)
(* response its head is from, whatever file has come under the name of its *)
(* body since: one that is too short breaks off, though it is logged as    *)
(* completed (cache_pipeline.rs:47-61, server.rs:197-211).                 *)
ReplayAsLong ==
  stage = "done" /\ answer = "replay" /\ request.method = "GET"
    => relayed = replay.length

(* The proxy gives every request an answer, unless the client leaves or    *)
(* the process stops: nothing but an upstream that is connected and has    *)
(* not responded is waited for without a limit (mod.rs:61-75,              *)
(* connect_tunnel.rs:32-34).                                               *)
Answered ==
  /\ stage = "received" ~> stage \in {"exchange", "reply", "done", "gone"}
  /\ stage = "respond" ~> stage \in {"reply", "gone"}

(***************************************************************************)
(* The refinement: the handler keeps the promise of Forwarding.            *)
(***************************************************************************)
Refusals == {e \in Errors : StatusCode[e] \in 400..499}

Order ==
  [size |-> request.body,
   most |-> limits.maxBodyBytes,
   permitted |-> Permitted(limits.policy, request.host, Port),
   storable |-> /\ limits.caching /\ ~request.range
                /\ request.method = "GET" \/ request.method = "HEAD"]

Forward == INSTANCE Forwarding WITH
  Failures <- Errors \ Refusals,
  phase <- IF stage = "idle" THEN "awaited"
           ELSE IF stage \in {"done", "gone"} THEN "over" ELSE "taken",
  order <- IF request = None THEN None ELSE Order,
  reached <- contacted, given <- sent, shown <- relayed, kept <- entry # None

(* Whatever errors, early responses, clients that leave and processes that *)
(* stop do to each other: a request is answered once and for good; after a *)
(* refusal, or any other answer, no upstream is turned to; only plain GET  *)
(* and HEAD requests are replayed or stored; a body passes in order, within*)
(* its limit, and nothing of it after its end; a reply is relayed only from*)
(* the cache, or from an upstream that was sent the request (mod.rs:29-192,*)
(* 232-250, server.rs:127-217).                                            *)
ForwardsAsPromised == Forward!ForwardSpec
=============================================================================
