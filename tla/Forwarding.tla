----------------------------- MODULE Forwarding -----------------------------
(***************************************************************************)
(* What a proxy promises about one request, in terms of what its client,   *)
(* the upstream and the cache can see of it: no stages of a handler, no    *)
(* headers, no clocks.  The client gets one answer, which stays.  A refusal*)
(* comes before anything has happened, and after an answer nothing more    *)
(* is begun.  The upstream is given the client's body in order, as much of *)
(* it as is allowed, and sees it end only if it has all of it.  What is    *)
(* relayed comes from the cache, or is the answer of an upstream that was  *)
(* sent the request.                                                       *)
(***************************************************************************)
EXTENDS Integers

CONSTANTS
  Refusals,  \* answers for which the client is to blame
  Failures,  \* answers for which it is not
  None       \* no answer yet

VARIABLES
  phase,    \* whether the request is still to come, taken or over
  order,    \* what it asks for, and what of it is allowed
  reached,  \* whether the upstream has been turned to
  upload,   \* the request's body as the upstream sees it
  given,    \* how much of it the upstream was given
  answer,   \* what the client is told
  shown,    \* how much of a response the client was given
  kept      \* whether the upstream's response was given to the cache

forwardVars == <<phase, order, reached, upload, given, answer, shown, kept>>

Orders == [size : Nat, most : Nat, permitted : BOOLEAN, storable : BOOLEAN]

ForwardInit ==
  /\ phase = "awaited"
  /\ reached = FALSE
  /\ upload = "idle" /\ given = 0
  /\ answer = None /\ shown = 0 /\ kept = FALSE

Take ==
  /\ phase = "awaited"
  /\ phase' = "taken"
  /\ order' \in Orders
  /\ UNCHANGED <<reached, upload, given, answer, shown, kept>>

Pending == phase = "taken" /\ answer = None
Halt == upload' = IF upload = "open" THEN "cut" ELSE upload

(* The request fails, and is over.                                         *)
Conclude(answers) ==
  /\ Pending
  /\ answer' \in answers
  /\ phase' = "over"
  /\ UNCHANGED <<order, reached, given, shown, kept>>

Refuse == ~reached /\ Conclude(Refusals) /\ UNCHANGED upload
Fault == Conclude(Failures) /\ Halt

(* The request is answered without the upstream's response.                *)
Settle(a) ==
  /\ Pending
  /\ answer' = a
  /\ UNCHANGED <<phase, order, reached, upload, given, shown, kept>>

Reuse == Settle("replay") /\ ~reached /\ order.permitted /\ order.storable
Join == Settle("tunnel") /\ reached /\ upload = "idle"

TurnTo ==
  /\ Pending /\ ~reached
  /\ order.permitted
  /\ reached' = TRUE
  /\ UNCHANGED <<phase, order, upload, given, answer, shown, kept>>

Open ==
  /\ Pending /\ reached /\ upload = "idle"
  /\ upload' = "open"
  /\ UNCHANGED <<phase, order, reached, given, answer, shown, kept>>

Give ==
  /\ upload = "open"
  /\ given' \in given..order.size
  /\ given' <= order.most
  /\ UNCHANGED <<phase, order, reached, upload, answer, shown, kept>>

(* The upstream sees the body end, or break off.                           *)
Complete ==
  /\ upload = "open"
  /\ upload' = "cut" \/ (upload' = "whole" /\ given = order.size)
  /\ UNCHANGED <<phase, order, reached, given, answer, shown, kept>>

Relay ==
  /\ Pending /\ upload # "idle"
  /\ answer' = "upstream"
  /\ kept' \in {FALSE, order.storable}
  /\ UNCHANGED <<phase, order, reached, upload, given, shown>>

Show ==
  /\ phase = "taken" /\ answer \in {"upstream", "replay"}
  /\ shown' = shown + 1
  /\ UNCHANGED <<phase, order, reached, upload, given, answer, kept>>

(* The reply is over, or one of the two has gone.                          *)
Close ==
  /\ phase # "awaited"
  /\ phase' = "over"
  /\ Halt \/ UNCHANGED upload
  /\ UNCHANGED <<order, reached, given, answer, shown, kept>>

ForwardNext ==
  \/ Take \/ Refuse \/ Fault \/ Reuse \/ Join \/ TurnTo
  \/ Open \/ Give \/ Complete \/ Relay \/ Show \/ Close

ForwardSpec == ForwardInit /\ [][ForwardNext]_forwardVars
=============================================================================
