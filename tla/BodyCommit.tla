----------------------------- MODULE BodyCommit -----------------------------
(***************************************************************************)
(* What the cache writer promises about one response body: while the body  *)
(* is being received nothing of it is visible; then it is given up, or the *)
(* whole of it is published under its final name at once; a row is added   *)
(* only for a published body and gives its size; a body whose row could    *)
(* not be added is withdrawn.                                              *)
(*                                                                         *)
(* Chunks are numbered in the order the upstream sends them.               *)
(***************************************************************************)
EXTENDS Integers, Sequences

CONSTANT None  \* no file, no row, no Content-Length

VARIABLES
  declared,   \* the Content-Length of the response
  delivered,  \* how many chunks the upstream has sent
  ended,      \* how the upstream's body ended: "no" while it has not
  phase,      \* "receiving", "published" or "over"
  final,      \* the file under the final name
  row         \* body_size in the cache's table

bodyVars == <<declared, delivered, ended, phase, final, row>>

BodyInit ==
  /\ declared \in Nat \cup {None}
  /\ delivered = 0
  /\ ended = "no"
  /\ phase = "receiving"
  /\ final = None
  /\ row = None

Complete == IF declared = None THEN ended = "clean" ELSE delivered = declared

(* The upstream goes on, whatever the writer does.                         *)
Receive ==
  /\ ended = "no"
  /\ \/ delivered' = delivered + 1 /\ UNCHANGED ended
     \/ ended' \in {"clean", "error"} /\ UNCHANGED delivered
  /\ UNCHANGED <<declared, phase, final, row>>

GiveUp ==
  /\ phase = "receiving"
  /\ phase' = "over"
  /\ UNCHANGED <<declared, delivered, ended, final, row>>

Publish ==
  /\ phase = "receiving"
  /\ Complete
  /\ phase' = "published"
  /\ final' = [i \in 1..delivered |-> i]
  /\ UNCHANGED <<declared, delivered, ended, row>>

Index ==
  /\ phase = "published"
  /\ row' = Len(final)
  /\ phase' \in {"published", "over"}
  /\ UNCHANGED <<declared, delivered, ended, final>>

Withdraw ==
  /\ phase = "published"
  /\ phase' = "over"
  /\ final' = None
  /\ UNCHANGED <<declared, delivered, ended, row>>

BodyNext == Receive \/ GiveUp \/ Publish \/ Index \/ Withdraw
BodySpec == BodyInit /\ [][BodyNext]_bodyVars
=============================================================================
