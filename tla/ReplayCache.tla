---------------------------- MODULE ReplayCache ----------------------------
(***************************************************************************)
(* What the cache promises to the clients that ask for GET responses, in   *)
(* terms of responses only: no table, no files, no statements.  Responses  *)
(* are numbered in the order they are published.  A client is served the   *)
(* response that is shown for its key, or nothing; the headers in front of *)
(* it may be those of an earlier response of the same key, one that had    *)
(* not expired when the client asked.  A key is filled by one request at a *)
(* time, and only by one that asked for it and found nothing.              *)
(***************************************************************************)
EXTENDS Integers

CONSTANTS Requests, Keys, Lifetimes

VARIABLES
  time,   \* seconds
  count,  \* how many responses were published
  log,    \* the responses published: key, number and expiry
  shown,  \* the number of the response a key leads to, 0 for none
  doing   \* what each request is about

replayVars == <<time, count, log, shown, doing>>

Idle == [is |-> "idle"]

ReplayInit ==
  /\ time = 0
  /\ count = 0
  /\ log = {}
  /\ shown = [k \in Keys |-> 0]
  /\ doing = [r \in Requests |-> Idle]

Become(r, state) == doing' = [doing EXCEPT ![r] = state]

Ask(r, k) ==
  /\ doing[r].is = "idle"
  /\ Become(r, [is |-> "asking", url |-> k, at |-> time])
  /\ UNCHANGED <<time, count, log, shown>>

Serve(r) ==
  /\ doing[r].is = "asking"
  /\ shown[doing[r].url] # 0
  /\ \E e \in log :
       /\ e.url = doing[r].url
       /\ e.expires > doing[r].at
       /\ e.body <= shown[doing[r].url]
       /\ Become(r, [is |-> "replying", url |-> doing[r].url,
                     headers |-> e.body, body |-> shown[doing[r].url]])
  /\ UNCHANGED <<time, count, log, shown>>

(* A lookup may find nothing although there is something to be served.     *)
Miss(r) ==
  /\ doing[r].is = "asking"
  /\ Become(r, [is |-> "missed", url |-> doing[r].url])
  /\ UNCHANGED <<time, count, log, shown>>

Fill(r) ==
  /\ doing[r].is = "missed"
  /\ \A q \in Requests : doing[q].is = "filling" => doing[q].url # doing[r].url
  /\ \E life \in Lifetimes :
       Become(r, [is |-> "filling", url |-> doing[r].url,
                  expires |-> time + life, published |-> FALSE])
  /\ UNCHANGED <<time, count, log, shown>>

Publish(r) ==
  /\ doing[r].is = "filling"
  /\ ~doing[r].published
  /\ count' = count + 1
  /\ log' = log \cup {[url |-> doing[r].url, body |-> count + 1,
                       expires |-> doing[r].expires]}
  /\ shown' = [shown EXCEPT ![doing[r].url] = count + 1]
  /\ Become(r, [is |-> "filling", url |-> doing[r].url,
                expires |-> doing[r].expires, published |-> TRUE])
  /\ UNCHANGED time

Leave(r) ==
  /\ doing[r].is # "idle"
  /\ Become(r, Idle)
  /\ UNCHANGED <<time, count, log, shown>>

(* Expiry, eviction and failures take a response away at any time.         *)
Forget(k) ==
  /\ shown' = [shown EXCEPT ![k] = 0]
  /\ UNCHANGED <<time, count, log, doing>>

Pass ==
  /\ time' = time + 1
  /\ UNCHANGED <<count, log, shown, doing>>

Lose ==
  /\ doing' = [r \in Requests |-> Idle]
  /\ shown' \in {shown, [k \in Keys |-> 0]}
  /\ UNCHANGED <<time, count, log>>

ReplayNext ==
  \/ \E r \in Requests :
       \/ \E k \in Keys : Ask(r, k)
       \/ Serve(r) \/ Miss(r) \/ Fill(r) \/ Publish(r) \/ Leave(r)
  \/ \E k \in Keys : Forget(k)
  \/ Pass
  \/ Lose

ReplaySpec == ReplayInit /\ [][ReplayNext]_replayVars
=============================================================================
