-------------------------- MODULE TeeStreamProofs --------------------------
(* Theorems about TeeStream, for every capacity, limit, set of faults and  *)
(* length of body.                                                         *)
EXTENDS TeeStream, TLAPS

(***************************************************************************)
(* Runs of consecutive chunks.                                             *)
(***************************************************************************)

(* s holds the chunks that follow the first n of the body.                 *)
Follows(s, n) == \A i \in 1..Len(s) : s[i] = n + i

LEMMA FollowsAppend ==
  ASSUME NEW s \in Seq(Nat), NEW n \in Nat, Follows(s, n)
  PROVE  Follows(Append(s, n + Len(s) + 1), n)
BY DEF Follows

LEMMA FollowsConcat ==
  ASSUME NEW s \in Seq(Nat), NEW t \in Seq(Nat), NEW n \in Nat,
         Follows(s, n), Follows(t, n + Len(s))
  PROVE  /\ s \o t \in Seq(Nat)
         /\ Len(s \o t) = Len(s) + Len(t)
         /\ Follows(s \o t, n)
<1>1. s \o t \in Seq(Nat) /\ Len(s \o t) = Len(s) + Len(t)
  OBVIOUS
<1>2. ASSUME NEW i \in 1..Len(s \o t)
      PROVE  (s \o t)[i] = n + i
  <2>1. CASE i <= Len(s)
    BY <1>1, <1>2, <2>1 DEF Follows
  <2>2. CASE i > Len(s)
    <3>1. (s \o t)[i] = t[i - Len(s)] /\ i - Len(s) \in 1..Len(t)
      BY <1>1, <1>2, <2>2
    <3> QED BY <3>1 DEF Follows
  <2> QED BY <2>1, <2>2
<1> QED BY <1>1, <1>2 DEF Follows

LEMMA FollowsTail ==
  ASSUME NEW s \in Seq(Nat), NEW n \in Nat, Follows(s, n), s # <<>>
  PROVE  /\ Head(s) = n + 1
         /\ Tail(s) \in Seq(Nat)
         /\ Len(Tail(s)) = Len(s) - 1
         /\ Follows(Tail(s), n + 1)
BY DEF Follows

LEMMA FollowsWhole ==
  ASSUME NEW s \in Seq(Nat), Follows(s, 0)
  PROVE  s = [i \in 1..Len(s) |-> i]
BY DEF Follows

(***************************************************************************)
(* Types.                                                                  *)
(***************************************************************************)

Flags == tx \in BOOLEAN /\ abort \in BOOLEAN

LEMMA FlagsStep == Flags /\ [Next]_vars => Flags'
<1> SUFFICES ASSUME Flags, [Next]_vars PROVE Flags'
  OBVIOUS
<1> USE DEF Flags, upstream, shared, disk
<1>1. CASE Poll
  BY <1>1 DEF Poll, PollChunk, TrySend, PollError, PollEnd, DropBody
<1>2. CASE TeeStep
  BY <1>2 DEF TeeStep, DisableCache, CutSenders, Finish, CloseChannel
<1>3. CASE WriterStep
  BY <1>3
  DEF WriterStep, CreateTemp, RecvChunk, Write, RecvEnd, CheckAbort, AwaitCompletion,
      Flush, Rename, Store, WithdrawBody
<1>4. CASE Over \/ UNCHANGED vars
  BY <1>4 DEF Over, vars
<1> QED BY <1>1, <1>2, <1>3, <1>4 DEF Next

LEMMA TypeInit == Init => TypeOK /\ HasTemp
<1> SUFFICES ASSUME Init PROVE TypeOK /\ HasTemp
  OBVIOUS
<1>1. tx \in BOOLEAN /\ abort \in BOOLEAN
  BY DEF Init
<1>2. declared \in Nat \cup {None}
  BY MaxChunksAssumption DEF Init
<1> QED BY <1>1, <1>2 DEF Init, TypeOK, HasTemp

LEMMA TypeStep == TypeOK /\ HasTemp /\ [Next]_vars => TypeOK' /\ HasTemp'
<1> SUFFICES ASSUME TypeOK, HasTemp, [Next]_vars
             PROVE  TypeOK' /\ HasTemp'
  OBVIOUS
<1>0. tx' \in BOOLEAN /\ abort' \in BOOLEAN
  BY FlagsStep DEF Flags, TypeOK
<1>a. chan \in Seq(Nat) /\ buf \in Seq(Nat) /\ delivered \in Nat /\ size \in Nat
  BY DEF TypeOK
<1>b. writer \in {"recv", "flush"} => temp \in Seq(Nat)
  BY DEF TypeOK, HasTemp
<1>c. \A s \in Seq(Nat) : s # None
  BY NoneAssumption
<1>d. ASSUME PollChunk
      PROVE  /\ delivered' \in Nat /\ chan' \in Seq(Nat)
             /\ tee' \in {"open", "relay", "disable"}
  BY <1>a, <1>d DEF PollChunk, TrySend
<1>e. ASSUME RecvChunk, Write(Head(chan))
      PROVE  size' \in Nat /\ buf' \in Seq(Nat) /\ temp' \in Seq(Nat)
  <2>1. Head(chan) \in Nat /\ temp \in Seq(Nat)
    BY <1>a, <1>b, <1>e DEF RecvChunk
  <2>2. Append(buf, Head(chan)) \in Seq(Nat) /\ temp \o Append(buf, Head(chan)) \in Seq(Nat)
    BY <1>a, <2>1
  <2>3. <<>> \in Seq(Nat)
    OBVIOUS
  <2>4. size' \in Nat
    BY <1>a, <1>e DEF Write
  <2> QED BY <1>e, <2>1, <2>2, <2>3, <2>4 DEF Write
<1>f. ASSUME writer = "flush", temp' = temp \o buf, buf' = <<>>
      PROVE  temp' \in Seq(Nat) /\ buf' \in Seq(Nat) /\ temp' # None
  <2>1. temp' \in Seq(Nat)
    BY <1>a, <1>b, <1>f
  <2>2. buf' \in Seq(Nat)
    BY <1>f
  <2> QED BY <1>c, <2>1, <2>2
<1>g. ASSUME temp' = <<>>
      PROVE  temp' \in Seq(Nat) /\ temp' # None
  <2>1. temp' \in Seq(Nat)
    BY <1>g
  <2> QED BY <1>c, <2>1
<1> USE <1>0 DEF TypeOK, HasTemp, upstream, shared, disk
<1>1. CASE PollChunk
  BY <1>1, <1>d DEF PollChunk
<1>2. CASE PollError
  BY <1>2 DEF PollError
<1>3. CASE PollEnd \/ DropBody
  BY <1>3 DEF PollEnd, DropBody
<1>4. CASE DisableCache
  BY <1>4 DEF DisableCache
<1>5. CASE CutSenders
  BY <1>5 DEF CutSenders
<1>6. CASE Finish \/ CloseChannel
  BY <1>6 DEF Finish, CloseChannel
<1>7. CASE RecvChunk
  <2>1. Tail(chan) \in Seq(Nat) /\ Head(chan) \in Nat
    BY <1>7 DEF RecvChunk
  <2>3. CASE writer' = "ended" /\ UNCHANGED <<size, buf, disk>>
    BY <1>7, <2>1, <2>3 DEF RecvChunk
  <2>4. CASE Write(Head(chan))
    BY <1>7, <1>c, <1>e, <2>1, <2>4 DEF RecvChunk, Write
  <2>5. CASE Discard
    BY <1>7, <2>1, <2>5 DEF RecvChunk, Discard
  <2> QED BY <1>7, <2>3, <2>4, <2>5 DEF RecvChunk
<1>8. CASE CreateTemp
  <2>1. CASE Discard
    BY <1>8, <2>1 DEF CreateTemp, Discard
  <2>2. CASE temp' = <<>> /\ writer' = "recv" /\ UNCHANGED <<size, buf, final, row>>
    <3>1. temp' \in Seq(Nat) /\ temp' # None
      BY <1>g, <2>2
    <3> QED BY <1>8, <2>2, <3>1 DEF CreateTemp
  <2> QED BY <1>8, <2>1, <2>2 DEF CreateTemp
<1>9. CASE RecvEnd \/ CheckAbort \/ AwaitCompletion
  BY <1>9 DEF RecvEnd, CheckAbort, AwaitCompletion, Discard
<1>10. CASE Flush
  <2>1. CASE Discard
    BY <1>10, <2>1 DEF Flush, Discard
  <2>2. CASE /\ temp' = temp \o buf
             /\ buf' = <<>>
             /\ writer' = "rename"
             /\ UNCHANGED <<size, final, row>>
    <3>1. temp' \in Seq(Nat) /\ temp' # None /\ buf' \in Seq(Nat)
      BY <1>10, <1>f, <2>2 DEF Flush
    <3> QED BY <1>10, <2>2, <3>1 DEF Flush
  <2> QED BY <1>10, <2>1, <2>2 DEF Flush
<1>11. CASE Rename \/ Store \/ WithdrawBody
  BY <1>11 DEF Rename, Store, WithdrawBody, Discard
<1>12. CASE Over \/ UNCHANGED vars
  BY <1>12 DEF Over, vars
<1> QED
  BY <1>1, <1>2, <1>3, <1>4, <1>5, <1>6, <1>7, <1>8, <1>9, <1>10, <1>11, <1>12
  DEF Next, Poll, TeeStep, WriterStep

(* Every variable of the stream has its type (cache_pipeline.rs:91-322).   *)
THEOREM TypeCorrect == Spec => []TypeOK
BY TypeInit, TypeStep, PTL DEF Spec

(***************************************************************************)
(* The inductive invariant behind CommittedBody.                           *)
(***************************************************************************)

(* What TeeBody's place says of the channel, the flag and the completion.  *)
SenderInv ==
  /\ tee \in {"cut", "relay"} => abort
  /\ ~tx => tee \in {"relay", "over"}
  /\ tee \in {"open", "disable", "cut", "relay"} => ended = "no"
  /\ tee = "clean" => ended = "clean"
  /\ completion = "clean" => ended = "clean" /\ tee \in {"close", "over"}

(* While the writer receives, what it has counted and what the channel     *)
(* holds are all that was delivered, in order, unless caching is given up. *)
ChannelInv ==
  writer \in {"create", "recv"} =>
    /\ Follows(chan, size)
    /\ tee = "open" => ~abort
    /\ ~abort /\ tee # "disable" => size + Len(chan) = delivered

(* What the file and BufWriter hold is the beginning of the body.          *)
WrittenInv ==
  /\ writer = "create" => size = 0 /\ buf = <<>>
  /\ writer \in {"recv", "ended", "await", "flush"} =>
       /\ Follows(temp, 0)
       /\ Follows(buf, Len(temp))
       /\ Len(temp) + Len(buf) = size
  /\ writer = "rename" => Follows(temp, 0) /\ Len(temp) = size

(* Past the abort check TeeBody is over and the writer has counted all     *)
(* that was delivered; past the completion check the body is acceptable.   *)
DecidedInv ==
  /\ writer = "ended" /\ ~abort => tee = "over" /\ size = delivered
  /\ writer \in {"await", "flush", "rename", "store", "withdraw"} =>
       tee = "over" /\ size = delivered
  /\ writer \in {"flush", "rename"} => Acceptable

(* A file under the final name holds all that was delivered, and nothing   *)
(* is delivered any more.                                                  *)
FinalInv ==
  /\ writer \notin {"store", "withdraw", "done"} => final = None /\ row = None
  /\ writer \in {"store", "withdraw"} => final # None
  /\ final # None =>
       /\ tee = "over"
       /\ Follows(final, 0)
       /\ Len(final) = delivered
       /\ IF declared = None THEN ended = "clean" ELSE delivered = declared
       /\ MaxSize > 0 => delivered <= MaxSize
       /\ row # None => row = delivered

Inv ==
  /\ TypeOK /\ HasTemp
  /\ SenderInv /\ ChannelInv /\ WrittenInv /\ DecidedInv /\ FinalInv

LEMMA SenderStep ==
  ASSUME TypeOK, SenderInv, [Next]_vars
  PROVE  SenderInv'
<1>0. tx \in BOOLEAN /\ abort \in BOOLEAN
  BY DEF TypeOK
<1> USE <1>0 DEF SenderInv, upstream, shared, disk
<1>1. CASE Poll
  BY <1>1 DEF Poll, PollChunk, TrySend, PollError, PollEnd, DropBody
<1>2. CASE TeeStep
  BY <1>2 DEF TeeStep, DisableCache, CutSenders, Finish, CloseChannel
<1>3. CASE RecvChunk
  BY <1>3 DEF RecvChunk, Write
<1>4. CASE WriterStep /\ ~RecvChunk
  BY <1>4
  DEF WriterStep, CreateTemp, RecvEnd, CheckAbort, AwaitCompletion, Flush, Rename,
      Store, WithdrawBody
<1>5. CASE Over \/ UNCHANGED vars
  BY <1>5 DEF Over, vars
<1> QED BY <1>1, <1>2, <1>3, <1>4, <1>5 DEF Next

LEMMA ChannelStep ==
  ASSUME TypeOK, SenderInv, ChannelInv, [Next]_vars
  PROVE  ChannelInv'
<1>0. /\ chan \in Seq(Nat) /\ delivered \in Nat /\ size \in Nat
      /\ tx \in BOOLEAN /\ abort \in BOOLEAN
  BY DEF TypeOK
<1>1. CASE PollChunk
  <2>1. CASE tee = "open" /\ chan' = Append(chan, delivered + 1) /\ UNCHANGED tee
    <3>1. ASSUME writer \in {"create", "recv"}
          PROVE  /\ ~abort
                 /\ size + Len(chan) = delivered
                 /\ Follows(chan, size)
      BY <2>1, <3>1 DEF ChannelInv
    <3>2. ASSUME writer \in {"create", "recv"}
          PROVE  Follows(chan', size) /\ Len(chan') = Len(chan) + 1
      <4>1. Follows(Append(chan, size + Len(chan) + 1), size)
        BY <1>0, <3>1, <3>2, FollowsAppend
      <4>2. size + Len(chan) + 1 = delivered + 1
        BY <1>0, <3>1, <3>2
      <4>3. Follows(chan', size)
        BY <2>1, <4>1, <4>2
      <4>4. Len(chan') = Len(chan) + 1
        BY <1>0, <2>1
      <4> QED BY <4>3, <4>4
    <3>3. ASSUME writer \in {"create", "recv"}
          PROVE  size + Len(chan') = delivered'
      <4>1. Len(chan) \in Nat /\ Len(chan') = Len(chan) + 1
        BY <1>0, <3>2, <3>3
      <4>2. delivered' = delivered + 1
        BY <1>1 DEF PollChunk
      <4> QED BY <1>0, <3>1, <3>3, <4>1, <4>2
    <3>4. UNCHANGED <<writer, size, tee, abort>>
      BY <1>1, <2>1 DEF PollChunk
    <3> QED BY <3>1, <3>2, <3>3, <3>4 DEF ChannelInv
  <2>2. CASE tee = "open" /\ tee' = "disable" /\ UNCHANGED chan
    BY <1>1, <2>2 DEF PollChunk, ChannelInv
  <2>3. CASE tee = "relay" /\ UNCHANGED <<tee, chan>>
    <3>1. abort
      BY <2>3 DEF SenderInv
    <3> QED BY <1>1, <2>3, <3>1 DEF PollChunk, ChannelInv
  <2> QED BY <1>1, <2>1, <2>2, <2>3 DEF PollChunk, TrySend
<1>2. CASE PollError \/ PollEnd \/ DropBody
  BY <1>0, <1>2 DEF PollError, PollEnd, DropBody, ChannelInv, shared, disk, upstream, SenderInv
<1>3. CASE TeeStep
  BY <1>0, <1>3
  DEF TeeStep, DisableCache, CutSenders, Finish, CloseChannel, ChannelInv, SenderInv,
      shared, disk, upstream
<1>4. CASE CreateTemp
  BY <1>4 DEF CreateTemp, Discard, ChannelInv, upstream, shared
<1>5. CASE RecvChunk
  <2>1. CASE writer' # "recv"
    BY <1>5, <2>1 DEF RecvChunk, Discard, Write, ChannelInv
  <2>2. CASE Write(Head(chan)) /\ ~abort
    <3>1. /\ chan' \in Seq(Nat)
          /\ Len(chan') = Len(chan) - 1
          /\ Follows(chan', size + 1)
      BY <1>0, <1>5, FollowsTail DEF RecvChunk, ChannelInv
    <3>2. size' = size + 1 /\ UNCHANGED <<abort, tee, delivered, writer>>
      BY <1>5, <2>2 DEF RecvChunk, Write, upstream
    <3>3. tee # "disable" => size' + Len(chan') = delivered'
      BY <1>0, <1>5, <2>2, <3>1, <3>2 DEF RecvChunk, ChannelInv
    <3>4. Follows(chan', size')
      BY <3>1, <3>2
    <3> QED BY <2>2, <3>2, <3>3, <3>4 DEF ChannelInv
  <2> QED BY <1>5, <2>1, <2>2 DEF RecvChunk, Discard
<1>6. CASE WriterStep /\ ~CreateTemp /\ ~RecvChunk
  BY <1>6
  DEF WriterStep, RecvEnd, CheckAbort, AwaitCompletion, Flush, Rename, Store,
      WithdrawBody, Discard, ChannelInv
<1>7. CASE Over \/ UNCHANGED vars
  BY <1>7 DEF Over, vars, ChannelInv, upstream, shared
<1> QED BY <1>1, <1>2, <1>3, <1>4, <1>5, <1>6, <1>7 DEF Next, Poll, WriterStep

LEMMA WrittenStep ==
  ASSUME TypeOK, HasTemp, ChannelInv, WrittenInv, [Next]_vars
  PROVE  WrittenInv'
<1>0. chan \in Seq(Nat) /\ buf \in Seq(Nat) /\ size \in Nat
  BY DEF TypeOK
<1>1. CASE CreateTemp
  <2>1. CASE writer' = "recv" /\ temp' = <<>> /\ UNCHANGED <<size, buf>>
    <3>1. buf' = <<>> /\ size' = 0
      BY <1>1, <2>1 DEF CreateTemp, WrittenInv
    <3>2. Follows(<<>>, 0) /\ Len(<<>>) = 0
      BY DEF Follows
    <3> QED BY <2>1, <3>1, <3>2 DEF WrittenInv
  <2> QED BY <1>1, <2>1 DEF CreateTemp, Discard, WrittenInv
<1>2. CASE RecvChunk
  <2>0. /\ temp \in Seq(Nat)
        /\ Follows(temp, 0)
        /\ Follows(buf, Len(temp))
        /\ Len(temp) + Len(buf) = size
        /\ Follows(chan, size)
        /\ chan # <<>>
    BY <1>2 DEF RecvChunk, TypeOK, HasTemp, WrittenInv, ChannelInv
  <2>1. CASE Write(Head(chan))
    <3> DEFINE more == Append(buf, Head(chan))
    <3>1. Len(temp) \in Nat /\ Head(chan) = Len(temp) + Len(buf) + 1
      BY <1>0, <2>0, FollowsTail
    <3>2. more \in Seq(Nat) /\ Len(more) = Len(buf) + 1 /\ Follows(more, Len(temp))
      <4>1. Follows(Append(buf, Len(temp) + Len(buf) + 1), Len(temp))
        BY <1>0, <2>0, <3>1, FollowsAppend
      <4>2. Head(chan) \in Nat
        BY <1>0, <2>0
      <4>3. more \in Seq(Nat) /\ Len(more) = Len(buf) + 1
        BY <1>0, <4>2
      <4> QED BY <3>1, <4>1, <4>3
    <3> HIDE DEF more
    <3>3. CASE buf' = more /\ temp' = temp
      <4>1. Len(temp') + Len(buf') = size'
        BY <1>0, <2>0, <2>1, <3>1, <3>2, <3>3 DEF Write
      <4>2. writer' = "recv"
        BY <1>2, <2>1 DEF RecvChunk, Write
      <4> QED BY <2>0, <3>2, <3>3, <4>1, <4>2 DEF WrittenInv
    <3>4. CASE buf' = <<>> /\ temp' = temp \o more
      <4>1. Follows(temp', 0) /\ Len(temp') = Len(temp) + Len(more) /\ temp' \in Seq(Nat)
        <5>1. Follows(more, 0 + Len(temp))
          BY <3>1, <3>2
        <5> QED BY <2>0, <3>2, <3>4, <5>1, FollowsConcat
      <4>2. Follows(buf', Len(temp')) /\ Len(buf') = 0
        BY <3>4 DEF Follows
      <4>3. Len(temp') + Len(buf') = size'
        BY <1>0, <2>0, <2>1, <3>1, <3>2, <4>1, <4>2 DEF Write
      <4>4. writer' = "recv"
        BY <1>2, <2>1 DEF RecvChunk, Write
      <4> QED BY <4>1, <4>2, <4>3, <4>4 DEF WrittenInv
    <3> QED BY <2>1, <3>3, <3>4 DEF Write, more
  <2>2. CASE Discard
    BY <2>2 DEF Discard, WrittenInv
  <2>3. CASE writer' = "ended" /\ UNCHANGED <<size, buf, disk>>
    BY <2>0, <2>3 DEF WrittenInv, disk
  <2> QED BY <1>2, <2>1, <2>2, <2>3 DEF RecvChunk
<1>3. CASE RecvEnd \/ CheckAbort \/ AwaitCompletion
  BY <1>3 DEF RecvEnd, CheckAbort, AwaitCompletion, Discard, WrittenInv, disk
<1>4. CASE Flush
  <2>1. CASE Discard
    BY <2>1 DEF Discard, WrittenInv
  <2>2. CASE temp' = temp \o buf /\ writer' = "rename" /\ UNCHANGED size
    <3>1. /\ temp \in Seq(Nat)
          /\ Follows(temp, 0)
          /\ Follows(buf, Len(temp))
          /\ Len(temp) + Len(buf) = size
      BY <1>4 DEF Flush, TypeOK, HasTemp, WrittenInv
    <3>2. Follows(buf, 0 + Len(temp))
      BY <3>1
    <3>3. Follows(temp', 0) /\ Len(temp') = Len(temp) + Len(buf)
      BY <1>0, <2>2, <3>1, <3>2, FollowsConcat
    <3> QED BY <2>2, <3>1, <3>3 DEF WrittenInv
  <2> QED BY <1>4, <2>1, <2>2 DEF Flush
<1>5. CASE Rename \/ Store \/ WithdrawBody
  BY <1>5 DEF Rename, Store, WithdrawBody, Discard, WrittenInv
<1>6. CASE Poll
  BY <1>6 DEF Poll, PollChunk, PollError, PollEnd, DropBody, WrittenInv, disk
<1>7. CASE TeeStep
  BY <1>7 DEF TeeStep, DisableCache, CutSenders, Finish, CloseChannel, WrittenInv, disk
<1>8. CASE Over \/ UNCHANGED vars
  BY <1>8 DEF Over, vars, WrittenInv, disk
<1> QED BY <1>1, <1>2, <1>3, <1>4, <1>5, <1>6, <1>7, <1>8 DEF Next, WriterStep

LEMMA DecidedStep ==
  ASSUME TypeOK, SenderInv, ChannelInv, DecidedInv, [Next]_vars
  PROVE  DecidedInv'
<1>0. size \in Nat /\ delivered \in Nat /\ tx \in BOOLEAN /\ abort \in BOOLEAN
  BY DEF TypeOK
<1>1. CASE Poll
  <2>1. tee \in {"open", "relay"}
    BY <1>1 DEF Poll, PollChunk, PollError, PollEnd, DropBody
  <2>2. /\ writer \notin {"await", "flush", "rename", "store", "withdraw"}
        /\ writer = "ended" => abort
    BY <2>1 DEF DecidedInv
  <2>3. writer' = writer /\ (abort => abort')
    BY <1>0, <1>1 DEF Poll, PollChunk, PollError, PollEnd, DropBody, shared
  <2> QED BY <2>2, <2>3 DEF DecidedInv
<1>2. CASE TeeStep
  <2>1. tee # "over"
    BY <1>2 DEF TeeStep, DisableCache, CutSenders, Finish, CloseChannel
  <2>2. /\ writer \notin {"await", "flush", "rename", "store", "withdraw"}
        /\ writer = "ended" => abort
    BY <2>1 DEF DecidedInv
  <2>3. writer' = writer /\ (abort => abort')
    BY <1>0, <1>2 DEF TeeStep, DisableCache, CutSenders, Finish, CloseChannel
  <2> QED BY <2>2, <2>3 DEF DecidedInv
<1>3. CASE CreateTemp
  BY <1>3 DEF CreateTemp, Discard, DecidedInv
<1>4. CASE RecvChunk
  BY <1>4 DEF RecvChunk, Discard, Write, DecidedInv
<1>5. CASE RecvEnd
  <2>1. ASSUME ~abort
        PROVE  tee = "over" /\ size = delivered
    <3>1. tee = "over"
      BY <1>5, <2>1 DEF RecvEnd, SenderInv
    <3>2. size + Len(<<>>) = delivered
      BY <1>5, <2>1, <3>1 DEF RecvEnd, ChannelInv
    <3> QED BY <1>0, <3>1, <3>2
  <2> QED BY <1>5, <2>1 DEF RecvEnd, DecidedInv, shared, upstream
<1>6. CASE CheckAbort
  BY <1>6 DEF CheckAbort, Discard, DecidedInv, upstream
<1>7. CASE AwaitCompletion
  BY <1>7 DEF AwaitCompletion, Discard, DecidedInv, Acceptable, upstream, shared
<1>8. CASE Flush \/ Rename
  BY <1>8 DEF Flush, Rename, Discard, DecidedInv, Acceptable, upstream, shared
<1>9. CASE Store \/ WithdrawBody
  BY <1>9 DEF Store, WithdrawBody, DecidedInv, upstream
<1>10. CASE Over \/ UNCHANGED vars
  BY <1>10 DEF Over, vars, DecidedInv, Acceptable, upstream, shared
<1> QED
  BY <1>1, <1>2, <1>3, <1>4, <1>5, <1>6, <1>7, <1>8, <1>9, <1>10 DEF Next, WriterStep

LEMMA FinalStep ==
  ASSUME TypeOK, HasTemp, SenderInv, WrittenInv, DecidedInv, FinalInv, [Next]_vars
  PROVE  FinalInv'
<1>1. CASE Poll \/ TeeStep
  <2>1. tee # "over"
    BY <1>1
    DEF Poll, PollChunk, PollError, PollEnd, DropBody,
        TeeStep, DisableCache, CutSenders, Finish, CloseChannel
  <2>2. final = None
    BY <2>1 DEF FinalInv
  <2>3. UNCHANGED <<writer, final, row>>
    BY <1>1
    DEF Poll, PollChunk, PollError, PollEnd, DropBody,
        TeeStep, DisableCache, CutSenders, Finish, CloseChannel, disk
  <2> QED BY <2>2, <2>3 DEF FinalInv
<1>2. CASE CreateTemp \/ RecvChunk \/ RecvEnd \/ CheckAbort \/ AwaitCompletion \/ Flush
  <2>1. final = None /\ row = None
    BY <1>2 DEF CreateTemp, RecvChunk, RecvEnd, CheckAbort, AwaitCompletion, Flush, FinalInv
  <2>2. UNCHANGED <<final, row>>
    BY <1>2
    DEF CreateTemp, RecvChunk, Write, RecvEnd, CheckAbort, AwaitCompletion, Flush,
        Discard, disk
  <2>3. writer' \notin {"store", "withdraw"}
    BY <1>2
    DEF CreateTemp, RecvChunk, Write, RecvEnd, CheckAbort, AwaitCompletion, Flush, Discard
  <2> QED BY <2>1, <2>2, <2>3 DEF FinalInv
<1>3. CASE Rename
  <2>1. CASE Discard
    BY <1>3, <2>1 DEF Rename, Discard, FinalInv
  <2>2. CASE final' = temp /\ writer' = "store" /\ UNCHANGED row
    <3>1. Follows(temp, 0) /\ Len(temp) = delivered /\ size = delivered /\ tee = "over"
      BY <1>3 DEF Rename, WrittenInv, DecidedInv
    <3>2. /\ IF declared = None THEN ended = "clean" ELSE delivered = declared
          /\ MaxSize > 0 => delivered <= MaxSize
      BY <1>3, <3>1 DEF Rename, DecidedInv, Acceptable, SenderInv
    <3>3. row = None /\ temp # None /\ UNCHANGED <<upstream, tee>>
      BY <1>3 DEF Rename, FinalInv, HasTemp
    <3> QED BY <2>2, <3>1, <3>2, <3>3 DEF FinalInv, upstream
  <2> QED BY <1>3, <2>1, <2>2 DEF Rename
<1>4. CASE Store
  <2>1. size = delivered
    BY <1>4 DEF Store, DecidedInv
  <2> QED BY <1>4, <2>1 DEF Store, FinalInv, upstream
<1>5. CASE WithdrawBody
  BY <1>5 DEF WithdrawBody, FinalInv
<1>6. CASE Over \/ UNCHANGED vars
  BY <1>6 DEF Over, vars, FinalInv, upstream, disk
<1> QED BY <1>1, <1>2, <1>3, <1>4, <1>5, <1>6 DEF Next, WriterStep

LEMMA InvInit == Init => Inv
<1> SUFFICES ASSUME Init PROVE Inv
  OBVIOUS
<1>1. TypeOK /\ HasTemp
  BY TypeInit
<1>2. SenderInv /\ DecidedInv /\ FinalInv
  BY DEF Init, SenderInv, DecidedInv, FinalInv
<1>3. Follows(<<>>, 0) /\ Len(<<>>) = 0
  BY DEF Follows
<1>4. ChannelInv /\ WrittenInv
  BY <1>3 DEF Init, ChannelInv, WrittenInv
<1> QED BY <1>1, <1>2, <1>4 DEF Inv

LEMMA InvStep == Inv /\ [Next]_vars => Inv'
<1> SUFFICES ASSUME Inv, [Next]_vars PROVE Inv'
  OBVIOUS
<1> USE DEF Inv
<1>1. TypeOK' /\ HasTemp'
  BY TypeStep
<1>2. SenderInv' /\ ChannelInv'
  BY SenderStep, ChannelStep
<1>3. WrittenInv' /\ DecidedInv'
  BY WrittenStep, DecidedStep
<1>4. FinalInv'
  BY FinalStep
<1> QED BY <1>1, <1>2, <1>3, <1>4

LEMMA InvCommits == Inv => CommittedBody
<1> SUFFICES ASSUME Inv, final # None
             PROVE  /\ final = [i \in 1..delivered |-> i]
                    /\ IF declared = None THEN ended = "clean" ELSE delivered = declared
                    /\ MaxSize > 0 => Len(final) <= MaxSize
                    /\ row # None => row = Len(final)
  BY DEF CommittedBody
<1>1. final \in Seq(Nat) /\ Follows(final, 0) /\ Len(final) = delivered
  BY DEF Inv, TypeOK, FinalInv
<1>2. final = [i \in 1..delivered |-> i]
  BY <1>1, FollowsWhole
<1> QED BY <1>1, <1>2 DEF Inv, FinalInv

(* Whatever is under the final name is the upstream's whole body, in order *)
(* and within the limit, and its row gives its size, for every capacity,   *)
(* limit and set of faults (cache_pipeline.rs:98-217, 253-305).            *)
THEOREM CommittedBodyHolds == Spec => []CommittedBody
BY InvInit, InvStep, InvCommits, PTL DEF Spec

(* What NoTempLeft needs besides: before the file exists there is none,    *)
(* and after the rename there is none any more.                            *)
TempInv == writer \in {"create", "store", "withdraw", "done"} => temp = None

(* A writer that has returned has left no temporary file behind, however   *)
(* it ended (cache_pipeline.rs:102-217).                                   *)
THEOREM NoTempIsLeft == Spec => []NoTempLeft
<1>1. Init => TempInv
  BY DEF Init, TempInv
<1>2. TempInv /\ [Next]_vars => TempInv'
  <2> SUFFICES ASSUME TempInv, [Next]_vars PROVE TempInv'
    OBVIOUS
  <2>1. CASE Poll \/ TeeStep
    BY <2>1
    DEF Poll, PollChunk, PollError, PollEnd, DropBody,
        TeeStep, DisableCache, CutSenders, Finish, CloseChannel, TempInv, disk
  <2>2. CASE WriterStep
    BY <2>2
    DEF WriterStep, CreateTemp, RecvChunk, Write, RecvEnd, CheckAbort, AwaitCompletion,
        Flush, Rename, Store, WithdrawBody, Discard, TempInv, disk
  <2>3. CASE Over \/ UNCHANGED vars
    BY <2>3 DEF Over, vars, TempInv, disk
  <2> QED BY <2>1, <2>2, <2>3 DEF Next
<1>3. TempInv => NoTempLeft
  BY DEF TempInv, NoTempLeft
<1> QED BY <1>1, <1>2, <1>3, PTL DEF Spec

(***************************************************************************)
(* The stream implements the promise of BodyCommit.                        *)
(***************************************************************************)

LEMMA PromiseInit == Init => Promise!BodyInit
BY MaxChunksAssumption DEF Init, Promise!BodyInit, Phase

LEMMA PromiseStep ==
  ASSUME Inv, Inv', [Next]_vars
  PROVE  [Promise!BodyNext]_(Promise!bodyVars)
<1> USE DEF Promise!BodyNext, Promise!bodyVars, upstream, shared, disk
<1>1. CASE Poll
  <2>1. tee \in {"open", "relay"}
    BY <1>1 DEF Poll, PollChunk, PollError, PollEnd, DropBody
  <2>2. ended = "no"
    BY <2>1 DEF Inv, SenderInv
  <2>3. Phase' = Phase /\ UNCHANGED <<final, row, declared>>
    BY <1>1 DEF Poll, PollChunk, PollError, PollEnd, DropBody, Phase
  <2> QED
    BY <1>1, <2>2, <2>3 DEF Poll, PollChunk, PollError, PollEnd, DropBody, Promise!Receive
<1>2. CASE TeeStep
  BY <1>2 DEF TeeStep, DisableCache, CutSenders, Finish, CloseChannel, Phase
<1>3. CASE CreateTemp \/ RecvChunk \/ RecvEnd \/ CheckAbort \/ AwaitCompletion \/ Flush
  <2>1. Phase = "receiving" /\ UNCHANGED <<declared, delivered, ended, final, row>>
    BY <1>3
    DEF CreateTemp, RecvChunk, Write, RecvEnd, CheckAbort, AwaitCompletion, Flush,
        Discard, Phase
  <2>2. Phase' \in {"receiving", "over"}
    BY <1>3
    DEF CreateTemp, RecvChunk, Write, RecvEnd, CheckAbort, AwaitCompletion, Flush,
        Discard, Phase
  <2> QED BY <2>1, <2>2 DEF Promise!GiveUp
<1>4. CASE Rename
  <2>1. CASE Discard
    BY <1>4, <2>1 DEF Rename, Discard, Phase, Promise!GiveUp
  <2>2. CASE writer' = "store" /\ UNCHANGED row
    <3>1. Phase = "receiving" /\ Phase' = "published" /\ UNCHANGED <<declared, delivered, ended>>
      BY <1>4, <2>2 DEF Rename, Phase
    <3>2. CommittedBody' /\ final' # None
      <4>1. Inv' => CommittedBody'
        BY InvCommits, PTL
      <4> QED BY <2>2, <4>1 DEF Inv, FinalInv
    <3>3. /\ final' = [i \in 1..delivered |-> i]
          /\ IF declared = None THEN ended = "clean" ELSE delivered = declared
      BY <3>1, <3>2 DEF CommittedBody
    <3> QED BY <2>2, <3>1, <3>3 DEF Promise!Publish, Promise!Complete
  <2> QED BY <1>4, <2>1, <2>2 DEF Rename
<1>5. CASE Store
  <2>1. size = Len(final)
    BY <1>5 DEF Store, Inv, DecidedInv, FinalInv
  <2>2. Phase = "published" /\ Phase' \in {"published", "over"}
    BY <1>5 DEF Store, Phase
  <2>3. UNCHANGED <<declared, delivered, ended, final>>
    BY <1>5 DEF Store
  <2>4. CASE row' = size
    BY <2>1, <2>2, <2>3, <2>4 DEF Promise!Index
  <2>5. CASE row' = row /\ writer' = "withdraw"
    BY <2>2, <2>3, <2>5 DEF Phase
  <2> QED BY <1>5, <2>4, <2>5 DEF Store
<1>6. CASE WithdrawBody
  BY <1>6 DEF WithdrawBody, Phase, Promise!Withdraw
<1>7. CASE Over \/ UNCHANGED vars
  BY <1>7 DEF Over, vars, Phase
<1> QED BY <1>1, <1>2, <1>3, <1>4, <1>5, <1>6, <1>7 DEF Next, WriterStep

(* However the upstream, the client, the channel and the file system       *)
(* interleave, one response is given up, or published whole, then indexed  *)
(* or withdrawn: the stream implements BodyCommit                          *)
(* (cache_pipeline.rs:98-220, 226-322).                                    *)
THEOREM StreamCommitsBody == Spec => CommitsBody
BY InvInit, InvStep, PromiseInit, PromiseStep, PTL DEF Spec, CommitsBody, Promise!BodySpec
=============================================================================
