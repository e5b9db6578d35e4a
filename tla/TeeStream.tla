----------------------------- MODULE TeeStream -----------------------------
(***************************************************************************)
(* One cacheable GET response on its way through cache_body of             *)
(* src/src/http_proxy/cache_pipeline.rs: TeeBody relays the upstream's     *)
(* chunks to the client and offers each to a bounded channel; the cache    *)
(* writer, a task of its own, collects them in a temporary file and        *)
(* decides at the end whether that becomes the cached body.  The two       *)
(* share the channel, a completion that is sent at most once, and a flag.  *)
(*                                                                         *)
(* Every chunk has size 1 and is identified by its place in the body.      *)
(***************************************************************************)
EXTENDS Integers, Sequences

CONSTANTS
  Capacity,       \* cache_channel_capacity_chunks; with 0 nothing is cached
  MaxSize,        \* cache_max_object_size_bytes, 0 means unlimited
  RequireLength,  \* cache_require_content_length
  Faults,         \* the operations of the writer that may fail
  MaxChunks,      \* bound: chunks of a body
  None            \* no file, no row, no Content-Length

ASSUME CapacityAssumption == Capacity \in Nat \ {0}
ASSUME LimitAssumption == MaxSize \in Nat /\ RequireLength \in BOOLEAN
ASSUME FaultsAssumption ==
  Faults \subseteq {"create", "write", "flush", "rename", "store"}
ASSUME MaxChunksAssumption == MaxChunks \in Nat
ASSUME NoneAssumption == None \notin Nat /\ None \notin Seq(Nat)

VARIABLES
  declared,    \* the Content-Length of the response
  delivered,   \* how many chunks the upstream has sent
  ended,       \* how its body ended: "no", "clean" or "error"
  tee,         \* what TeeBody does next
  tx,          \* whether the sending half of the channel is alive
  chan,        \* the chunks in the channel
  completion,  \* the oneshot: "pending", "clean", "unclean" or "dropped"
  abort,       \* abort_flag
  writer,      \* what the writer does next
  size,        \* the writer's count of what it has written
  buf,         \* what BufWriter still holds back
  temp,        \* the temporary file
  final,       \* the file under the final name
  row          \* body_size of the row the writer has stored

upstream == <<declared, delivered, ended>>
shared == <<tx, chan, completion, abort>>
disk == <<temp, final, row>>
vars == <<upstream, tee, shared, writer, size, buf, disk>>

(* What handle_http hands to cache_body: a declared length within the      *)
(* limit, or none where none is required.                                  *)
Init ==
  /\ declared \in 0..MaxChunks \cup {None}
  /\ declared = None => ~RequireLength
  /\ declared # None /\ MaxSize > 0 => declared <= MaxSize
  /\ delivered = 0
  /\ ended = "no"
  /\ tee = "open"
  /\ tx = TRUE
  /\ chan = <<>>
  /\ completion = "pending"
  /\ abort = FALSE
  /\ writer = "create"
  /\ size = 0
  /\ buf = <<>>
  /\ temp = None
  /\ final = None
  /\ row = None

(***************************************************************************)
(* TeeBody.  With a declared length hyper ends the body after that many    *)
(* bytes and reports an early close as an error; without one, only the end *)
(* it reports tells a whole body from a cut one.                           *)
(***************************************************************************)
(* Mutant of TrySend: a chunk the channel refuses is skipped.               *)
TrySendSkipping(c) ==
  IF Len(chan) < Capacity /\ writer # "done"
  THEN chan' = Append(chan, c) /\ UNCHANGED tee
  ELSE UNCHANGED <<tee, chan>>

TrySend(c) ==
  IF Len(chan) < Capacity /\ writer # "done"
  THEN chan' = Append(chan, c) /\ UNCHANGED tee
  ELSE tee' = "disable" /\ UNCHANGED chan

PollChunk ==
  /\ tee \in {"open", "relay"}
  /\ delivered < (IF declared = None THEN MaxChunks ELSE declared)
  /\ delivered' = delivered + 1
  /\ IF tee = "open" THEN TrySend(delivered + 1) ELSE UNCHANGED <<tee, chan>>
  /\ UNCHANGED <<declared, ended, tx, completion, abort, writer, size, buf, disk>>

(* disable_cache: the flag first, then both senders.                       *)
DisableCache ==
  /\ tee = "disable"
  /\ abort' = TRUE
  /\ tee' = "cut"
  /\ UNCHANGED <<upstream, tx, chan, completion, writer, size, buf, disk>>

(* Mutant of CutSenders: the channel stays open.                            *)
CutCompletionOnly ==
  /\ tee = "cut"
  /\ completion' = "dropped"
  /\ tee' = "relay"
  /\ UNCHANGED <<upstream, tx, chan, abort, writer, size, buf, disk>>

CutSenders ==
  /\ tee = "cut"
  /\ tx' = FALSE
  /\ completion' = "dropped"
  /\ tee' = "relay"
  /\ UNCHANGED <<upstream, chan, abort, writer, size, buf, disk>>

PollError ==
  /\ tee \in {"open", "relay"}
  /\ declared # None => delivered < declared
  /\ ended' = "error"
  /\ abort' = TRUE
  /\ tee' = (IF tee = "open" THEN "unclean" ELSE "over")
  /\ UNCHANGED <<declared, delivered, tx, chan, completion, writer, size, buf, disk>>

PollEnd ==
  /\ tee \in {"open", "relay"}
  /\ declared # None => delivered = declared
  /\ ended' = "clean"
  /\ tee' = (IF tee = "open" THEN "clean" ELSE "over")
  /\ UNCHANGED <<declared, delivered, shared, writer, size, buf, disk>>

(* Drop: the client has gone, or hyper has seen is_end_stream after the    *)
(* last chunk and does not poll again.                                     *)
DropBody ==
  /\ tee \in {"open", "relay"}
  /\ tee' = (IF tee = "open" THEN "unclean" ELSE "over")
  /\ UNCHANGED <<upstream, shared, writer, size, buf, disk>>

(* finish: the completion first, then the channel.                         *)
Finish ==
  /\ tee \in {"clean", "unclean"}
  /\ completion' = tee
  /\ tee' = "close"
  /\ UNCHANGED <<upstream, tx, chan, abort, writer, size, buf, disk>>

(* Mutant of CloseChannel: the sender is not dropped.                       *)
KeepChannel ==
  /\ tee = "close"
  /\ tee' = "over"
  /\ UNCHANGED <<upstream, shared, writer, size, buf, disk>>

CloseChannel ==
  /\ tee = "close"
  /\ tx' = FALSE
  /\ tee' = "over"
  /\ UNCHANGED <<upstream, chan, completion, abort, writer, size, buf, disk>>

(***************************************************************************)
(* The cache writer.                                                       *)
(***************************************************************************)

(* The temporary file is removed and the writer returns, which closes the  *)
(* channel's receiving half and drops the permit.                          *)
Discard ==
  /\ temp' = None
  /\ writer' = "done"
  /\ UNCHANGED <<size, buf, final, row>>

(* Mutant of CreateTemp: the writer goes on without a file.                 *)
CreateTempUnchecked ==
  /\ writer = "create"
  /\ writer' = "recv"
  /\ \/ temp' = <<>> /\ UNCHANGED <<size, buf, final, row>>
     \/ "create" \in Faults /\ UNCHANGED <<size, buf, disk>>
  /\ UNCHANGED <<upstream, tee, shared>>

CreateTemp ==
  /\ writer = "create"
  /\ \/ temp' = <<>> /\ writer' = "recv" /\ UNCHANGED <<size, buf, final, row>>
     \/ "create" \in Faults /\ Discard
  /\ UNCHANGED <<upstream, tee, shared>>

(* write_all: BufWriter keeps the chunk or hands all it has to the file.   *)
Write(c) ==
  /\ size' = size + 1
  /\ \/ buf' = Append(buf, c) /\ UNCHANGED temp
     \/ buf' = <<>> /\ temp' = temp \o Append(buf, c)
  /\ UNCHANGED <<abort, writer, final, row>>

TooLarge == MaxSize > 0 /\ size + 1 > MaxSize

RecvChunk ==
  /\ writer = "recv"
  /\ chan # <<>>
  /\ chan' = Tail(chan)
  /\ \/ /\ abort \/ TooLarge
        /\ abort' = TRUE
        /\ writer' = "ended"
        /\ UNCHANGED <<size, buf, disk>>
     \/ /\ ~abort /\ ~TooLarge
        /\ Write(Head(chan))
     \/ /\ ~abort /\ ~TooLarge
        /\ "write" \in Faults
        /\ abort' = TRUE
        /\ Discard
  /\ UNCHANGED <<upstream, tee, tx, completion>>

RecvEnd ==
  /\ writer = "recv"
  /\ chan = <<>> /\ ~tx
  /\ writer' = "ended"
  /\ UNCHANGED <<upstream, tee, shared, size, buf, disk>>

CheckAbort ==
  /\ writer = "ended"
  /\ IF abort \/ (RequireLength /\ declared = None)
     THEN Discard
     ELSE writer' = "await" /\ UNCHANGED <<size, buf, disk>>
  /\ UNCHANGED <<upstream, tee, shared>>

(* Mutant of Acceptable: the end of a body of unknown length is not checked.*)
AcceptableAnyEnd ==
  /\ declared # None => size = declared
  /\ MaxSize > 0 => size <= MaxSize

(* A declared length decides alone; without one the end must be clean.     *)
Acceptable ==
  /\ IF declared = None THEN completion = "clean" ELSE size = declared
  /\ MaxSize > 0 => size <= MaxSize

AwaitCompletion ==
  /\ writer = "await"
  /\ completion # "pending"
  /\ IF Acceptable
     THEN writer' = "flush" /\ UNCHANGED <<size, buf, disk>>
     ELSE Discard
  /\ UNCHANGED <<upstream, tee, shared>>

Flush ==
  /\ writer = "flush"
  /\ \/ /\ temp' = temp \o buf
        /\ buf' = <<>>
        /\ writer' = "rename"
        /\ UNCHANGED <<size, final, row>>
     \/ "flush" \in Faults /\ Discard
  /\ UNCHANGED <<upstream, tee, shared>>

(* Mutant of Rename: a failure leaves the temporary file behind.            *)
RenameLeavesTemp ==
  /\ writer = "rename"
  /\ \/ /\ final' = temp
        /\ temp' = None
        /\ writer' = "store"
        /\ UNCHANGED <<size, buf, row>>
     \/ "rename" \in Faults /\ writer' = "done" /\ UNCHANGED <<size, buf, disk>>
  /\ UNCHANGED <<upstream, tee, shared>>

Rename ==
  /\ writer = "rename"
  /\ \/ /\ final' = temp
        /\ temp' = None
        /\ writer' = "store"
        /\ UNCHANGED <<size, buf, row>>
     \/ "rename" \in Faults /\ Discard
  /\ UNCHANGED <<upstream, tee, shared>>

(* store may fail before its INSERT or after it.                           *)
Store ==
  /\ writer = "store"
  /\ \/ row' = size /\ writer' = "done"
     \/ "store" \in Faults /\ row' \in {row, size} /\ writer' = "withdraw"
  /\ UNCHANGED <<upstream, tee, shared, size, buf, temp, final>>

WithdrawBody ==
  /\ writer = "withdraw"
  /\ final' = None
  /\ writer' = "done"
  /\ UNCHANGED <<upstream, tee, shared, size, buf, temp, row>>

TeeStep == DisableCache \/ CutSenders \/ Finish \/ CloseChannel
Poll == PollChunk \/ PollError \/ PollEnd \/ DropBody
WriterStep ==
  \/ CreateTemp \/ RecvChunk \/ RecvEnd \/ CheckAbort \/ AwaitCompletion
  \/ Flush \/ Rename \/ Store \/ WithdrawBody

(* Both are over: nothing happens any more.                                *)
Over == tee = "over" /\ writer = "done" /\ UNCHANGED vars

Next == Poll \/ TeeStep \/ WriterStep \/ Over

(* What TeeBody has begun within a poll it finishes, and the writer's task *)
(* is run; nobody has to poll the body again.                              *)
Spec == Init /\ [][Next]_vars
FairSpec == Spec /\ WF_vars(TeeStep) /\ WF_vars(WriterStep)

(***************************************************************************)
(* Properties.                                                             *)
(***************************************************************************)

(* Whenever the writer works on its temporary file there is one.           *)
HasTemp == writer \in {"recv", "ended", "await", "flush", "rename"} => temp # None

(* Every variable has its type.                                            *)
TypeOK ==
  /\ declared \in Nat \cup {None}
  /\ delivered \in Nat
  /\ ended \in {"no", "clean", "error"}
  /\ tee \in {"open", "disable", "cut", "relay", "clean", "unclean", "close", "over"}
  /\ tx \in BOOLEAN
  /\ chan \in Seq(Nat)
  /\ completion \in {"pending", "clean", "unclean", "dropped"}
  /\ abort \in BOOLEAN
  /\ writer \in {"create", "recv", "ended", "await", "flush", "rename",
                "store", "withdraw", "done"}
  /\ size \in Nat
  /\ buf \in Seq(Nat)
  /\ temp \in Seq(Nat) \cup {None}
  /\ final \in Seq(Nat) \cup {None}
  /\ row \in Nat \cup {None}
  /\ HasTemp

(* What is under the final name is the whole body, chunk by chunk in the   *)
(* upstream's order, within the size limit, and the row gives its size:    *)
(* although chunks may be refused by a full channel, the client may leave, *)
(* the upstream may fail and BufWriter may hold chunks back, at any point  *)
(* (cache_pipeline.rs:98-217, 253-305).                                    *)
CommittedBody ==
  final # None =>
    /\ final = [i \in 1..delivered |-> i]
    /\ IF declared = None THEN ended = "clean" ELSE delivered = declared
    /\ MaxSize > 0 => Len(final) <= MaxSize
    /\ row # None => row = Len(final)

(* A writer that has returned has left no temporary file behind, on any of *)
(* its exits; every other return happens before the file exists or after   *)
(* it was renamed (cache_pipeline.rs:102-217).                             *)
NoTempLeft == writer = "done" => temp = None

(* Once TeeBody is over, however it got there, the writer returns and so   *)
(* drops the key's permit: it never waits for a chunk or a completion that *)
(* nobody will send (cache_pipeline.rs:111, 151, 253-266, 316-321).        *)
WriterEnds == tee = "over" ~> writer = "done"

(* Once caching of the body is given up the writer returns, even when the  *)
(* client never takes another chunk: the permit is not held hostage by a   *)
(* slow client whose body is no longer cached (cache_pipeline.rs:253-259). *)
AbortEnds == abort ~> writer = "done"

(* The stream implements the promise of BodyCommit.                        *)
Phase ==
  CASE writer \in {"store", "withdraw"} -> "published"
    [] writer = "done" -> "over"
    [] OTHER -> "receiving"

Promise == INSTANCE BodyCommit WITH phase <- Phase
CommitsBody == Promise!BodySpec
=============================================================================
