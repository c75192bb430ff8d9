---------------------------- MODULE StreamProofs ----------------------------
(***************************************************************************)
(* What holds of the streams between two hosts: a transfer and the pace of *)
(* its writes, the receive channel, and the event log, for any number of   *)
(* streams, clients and events and however many commands fail.             *)
(***************************************************************************)
EXTENDS Transfer, RecvChannel, EventLog, Bandwidth, FiniteSetTheorems, TLAPS

\* A set of numbers has a least member.
LessThan == {ss \in Nat \X Nat : ss[1] < ss[2]}

LEMMA LessThanWellFounded == IsWellFoundedOn(LessThan, Nat)
BY NatLessThanWellFounded DEF LessThan, OpToRel

LEMMA LeastExists ==
  ASSUME NEW T, T \subseteq Nat, T # {}
  PROVE  \E x \in T : \A y \in T : x <= y
<1>1. PICK x \in T : \A y \in T : ~(<<y, x>> \in LessThan)
  BY LessThanWellFounded, WFMin
<1>2. \A y \in T : ~(y < x)
  BY <1>1 DEF LessThan
<1>3. \A y \in T : x <= y
  BY <1>2
<1> QED BY <1>3

-----------------------------------------------------------------------------
(* A transfer *)

\* The frame carries the verdict of a dispatcher that has exited, and only a whole stream
\* is accepted.
FrameInv ==
  /\ recv \in {"none", "start", "copy", "answer", "exited"}
  /\ (lock = "this") <=> (recv = "copy")
  /\ verdict \in {"none", "ok", "error"} /\ (verdict = "none" <=> recv \notin {"answer", "exited"})
  /\ frame \in {"none", "ok", "error", "lost"} /\ (frame = "none" <=> recv # "exited")
  /\ frame \in {"ok", "error"} => frame = verdict
  /\ verdict = "ok" => got = Chunks

\* A result stands until the next transfer begins, and nothing that it tells of the
\* receiver changes meanwhile.
ResultInv ==
  /\ result # "none" => feed = "idle"
  /\ result = "ok" => recv = "exited" /\ verdict = "ok"
  /\ result = "refused" => recv = "exited" /\ verdict = "error"
  /\ result = "cancelled" => recv = "exited" \/ link = "down"

TransferInv == FrameInv /\ ResultInv

-----------------------------------------------------------------------------
LEMMA TransferInitially == TransferInit => TransferInv
BY DEF TransferInit, TransferInv, FrameInv, ResultInv

\* A sender's step leaves the receiver alone, unless it opens a channel.
LEMMA TransferBySender ==
  ASSUME TransferInv, OpenStream \/ SenderStep \/ CancelFires
  PROVE  TransferInv'
<1> USE DEF TransferInv, FrameInv, ResultInv, receiver
<1>1. CASE OpenStream
  <2>1. recv' \in {"none", "start"} /\ lock' # "this" /\ frame' = "none" /\ verdict' = "none"
    BY <1>1 DEF OpenStream, Disown
  <2>2. result' \in {"none", "failed"} /\ (result' # "none" => feed' = "idle")
    BY <1>1 DEF OpenStream, Return
  <2> QED BY <2>1, <2>2
<1>2. CASE CancelFires \/ Read \/ SendEnds \/ ReadEof \/ Throttle
  <2>1. UNCHANGED <<result, link, receiver>> /\ (feed' = feed \/ feed # "idle")
    BY <1>2 DEF CancelFires, Read, SendEnds, ReadEof, Throttle
  <2> QED BY <2>1
<1>3. CASE Cancelled \/ WriteChunk
  <2>1. feed # "idle" /\ UNCHANGED <<result, link, receiver>>
    BY <1>3 DEF Cancelled, WriteChunk, AbortTransfer
  <2> QED BY <2>1
<1>4. CASE Reap
  <2>1. feed = "reap" /\ UNCHANGED <<link, receiver>>
    BY <1>4 DEF Reap
  <2>2. result' = result \/ (result' = "failed" /\ feed' = "idle")
    BY <1>4 DEF Reap, Return
  <2> QED BY <2>1, <2>2
<1>5. CASE ReadResponse
  <2>1. feed' = "idle" /\ result' = VerdictOf /\ Finished /\ UNCHANGED <<link, receiver>>
    BY <1>5 DEF ReadResponse, Return
  <2>2. result' = "ok" => recv = "exited" /\ verdict = "ok"
    BY <2>1 DEF VerdictOf, Answer, Finished, Broken
  <2>3. result' = "refused" => recv = "exited" /\ verdict = "error"
    BY <2>1 DEF VerdictOf, Answer, Finished, Broken
  <2>4. result' # "cancelled"
    BY <2>1 DEF VerdictOf, Answer
  <2> QED BY <2>1, <2>2, <2>3, <2>4
<1>6. CASE ReadReason
  <2>1. feed' = "idle" /\ UNCHANGED <<link, receiver>>
    BY <1>6 DEF ReadReason, Return
  <2>2. \/ result' = "failed"
        \/ result' = "refused" /\ recv = "exited" /\ verdict = "error"
    BY <1>6 DEF ReadReason, Return, Answer, Finished, Broken
  <2> QED BY <2>1, <2>2
<1>7. CASE CancelDone
  <2>1. feed' = "idle" /\ result' = "cancelled" /\ UNCHANGED <<link, receiver>>
    BY <1>7 DEF CancelDone, Return
  <2>2. recv = "exited" \/ link = "down"
    BY <1>7 DEF CancelDone, Finished, Broken
  <2> QED BY <2>1, <2>2
<1> QED BY <1>1, <1>2, <1>3, <1>4, <1>5, <1>6, <1>7 DEF SenderStep

\* A dispatcher that still runs has no result that speaks of it.
LEMMA TransferByReceiver ==
  ASSUME TransferInv, ReceiverStep \/ RecvRefuses \/ RecvDies \/ OldExits
  PROVE  TransferInv'
<1> USE DEF TransferInv, FrameInv, ResultInv, sender
<1>1. CASE Admit
  BY <1>1 DEF Admit, RecvExits
<1>2. CASE Receive
  BY <1>2 DEF Receive
<1>3. CASE CopyEnds
  BY <1>3 DEF CopyEnds, RecvExits
<1>4. CASE Respond
  BY <1>4 DEF Respond
<1>5. CASE RecvRefuses
  BY <1>5 DEF RecvRefuses
<1>6. CASE RecvDies
  BY <1>6 DEF RecvDies, Running
<1>7. CASE OldExits
  BY <1>7 DEF OldExits
<1> QED BY <1>1, <1>2, <1>3, <1>4, <1>5, <1>6, <1>7 DEF ReceiverStep

LEMMA TransferByLink ==
  ASSUME TransferInv, LinkBreaks \/ KeepAlive \/ Reconnect
  PROVE  TransferInv'
<1> USE DEF TransferInv, FrameInv, ResultInv, sender, receiver
<1>1. CASE LinkBreaks
  BY <1>1 DEF LinkBreaks
<1>2. CASE KeepAlive
  BY <1>2 DEF KeepAlive
<1>3. CASE Reconnect
  BY <1>3 DEF Reconnect, Disown
<1> QED BY <1>1, <1>2, <1>3

LEMMA TransferStep == TransferInv /\ [TransferNext]_transferVars => TransferInv'
<1> SUFFICES ASSUME TransferInv, [TransferNext]_transferVars PROVE TransferInv'
  OBVIOUS
<1>1. CASE UNCHANGED transferVars
  BY <1>1 DEF transferVars, sender, receiver, TransferInv, FrameInv, ResultInv
<1>2. CASE TransferNext
  BY <1>2, TransferBySender, TransferByReceiver, TransferByLink DEF TransferNext
<1> QED BY <1>1, <1>2

-----------------------------------------------------------------------------
\* What a transfer reports is true of the receiver (execute_one_plan).
THEOREM TransfersTellTheTruth == TransferSpec => []VerdictTruthful
<1>1. TransferInv => VerdictTruthful
  BY DEF TransferInv, FrameInv, ResultInv, VerdictTruthful, Running
<1> QED BY <1>1, TransferInitially, TransferStep, PTL DEF TransferSpec

\* The chunk between zfs send and the channel.
InHand == IF feed = "write" THEN 1 ELSE 0

\* No chunk is ever in two places, and only a running zfs send has more.
ChunksInv ==
  /\ wire \in 0..Window /\ unsent \in Nat /\ got \in Nat
  /\ unsent + wire + got + InHand <= Chunks
  /\ tries \in 0..MaxTries /\ upsets \in 0..MaxUpsets

PhasesInv ==
  /\ feed \in {"idle", "read", "write", "throttle", "reap", "answer", "reason", "cancelling"}
  /\ result \in {"none", "ok", "refused", "failed", "cancelled"} /\ cancel \in BOOLEAN
  /\ send \in {"none", "running", "ok", "failed", "killed"}
  /\ link \in {"up", "silent", "down"} /\ eof \in BOOLEAN
  /\ lock \in {"none", "this", "old"} /\ refused \in BOOLEAN

LEMMA PhasesStep == ASSUME PhasesInv, [TransferNext]_transferVars PROVE PhasesInv'
<1> USE DEF PhasesInv, sender, receiver, bounds
<1>1. CASE OpenStream
  BY <1>1 DEF OpenStream, Disown, Return
<1>2. CASE Cancelled \/ WriteChunk
  BY <1>2 DEF Cancelled, WriteChunk, AbortTransfer, CloseStreamWriter
<1>3. CASE Read \/ SendEnds \/ Throttle
  BY <1>3 DEF Read, SendEnds, Throttle
<1>4. CASE ReadEof
  BY <1>4 DEF ReadEof, CloseStreamWriter
<1>5. CASE Reap
  BY <1>5 DEF Reap, Return
<1>6. CASE ReadResponse \/ ReadReason \/ CancelDone
  BY <1>6 DEF ReadResponse, ReadReason, CancelDone, Return, VerdictOf
<1>7. CASE CancelFires \/ Receive \/ RecvRefuses \/ Respond
  BY <1>7 DEF CancelFires, Receive, RecvRefuses, Respond
<1>8. CASE Admit \/ CopyEnds
  BY <1>8 DEF Admit, CopyEnds, RecvExits
<1>9. CASE RecvDies \/ OldExits
  BY <1>9 DEF RecvDies, OldExits
<1>10. CASE LinkBreaks \/ KeepAlive \/ Reconnect
  BY <1>10 DEF LinkBreaks, KeepAlive, Reconnect, Disown
<1>11. CASE UNCHANGED transferVars
  BY <1>11 DEF transferVars
<1> QED BY <1>1, <1>2, <1>3, <1>4, <1>5, <1>6, <1>7, <1>8, <1>9, <1>10, <1>11
        DEF TransferNext, SenderStep, ReceiverStep

\* A step takes a chunk from one place to the next, or drops some.
LEMMA ChunksMove ==
  ASSUME [TransferNext]_transferVars, wire \in Nat, unsent \in Nat, got \in Nat, Chunks \in Nat
  PROVE  \/ unsent' = 0 /\ wire' = 0 /\ got' = 0 /\ feed' # "write"
         \/ unsent' = Chunks /\ wire' = 0 /\ got' = 0 /\ feed' # "write"
         \/ /\ unsent' = unsent \/ unsent' = 0
            /\ UNCHANGED <<wire, got>> /\ (feed' = feed \/ feed' # "write")
         \/ /\ feed = "read" /\ feed' = "write"
            /\ unsent > 0 /\ unsent' = unsent - 1 /\ UNCHANGED <<wire, got>>
         \/ /\ feed = "write" /\ feed' = "throttle" /\ wire < Window
            /\ wire' = wire + 1 /\ UNCHANGED <<unsent, got>>
         \/ /\ feed' = feed /\ wire > 0
            /\ wire' = wire - 1 /\ got' = got + 1 /\ UNCHANGED unsent
<1> USE DEF sender, receiver, bounds
<1>1. CASE OpenStream
  BY <1>1 DEF OpenStream, Return
<1>2. CASE Cancelled \/ WriteChunk
  BY <1>2 DEF Cancelled, WriteChunk, AbortTransfer
<1>3. CASE Read \/ SendEnds \/ Throttle
  BY <1>3 DEF Read, SendEnds, Throttle
<1>4. CASE ReadEof
  BY <1>4 DEF ReadEof
<1>5. CASE Reap
  BY <1>5 DEF Reap, Return
<1>6. CASE ReadResponse \/ ReadReason \/ CancelDone
  BY <1>6 DEF ReadResponse, ReadReason, CancelDone, Return
<1>7. CASE CancelFires \/ Receive \/ RecvRefuses \/ Respond
  BY <1>7 DEF CancelFires, Receive, RecvRefuses, Respond
<1>8. CASE Admit \/ CopyEnds
  BY <1>8 DEF Admit, CopyEnds
<1>9. CASE RecvDies \/ OldExits
  BY <1>9 DEF RecvDies, OldExits
<1>10. CASE LinkBreaks \/ KeepAlive \/ Reconnect
  BY <1>10 DEF LinkBreaks, KeepAlive, Reconnect
<1>11. CASE UNCHANGED transferVars
  BY <1>11 DEF transferVars
<1> QED BY <1>1, <1>2, <1>3, <1>4, <1>5, <1>6, <1>7, <1>8, <1>9, <1>10, <1>11
        DEF TransferNext, SenderStep, ReceiverStep

\* What may still go wrong, and be tried, only grows, up to its bound.
LEMMA BudgetsMove ==
  ASSUME [TransferNext]_transferVars
  PROVE  /\ tries' = tries \/ (tries < MaxTries /\ tries' = tries + 1)
         /\ upsets' = upsets \/ (upsets < MaxUpsets /\ upsets' = upsets + 1)
<1> USE DEF bounds, Upset
<1>1. CASE OpenStream
  BY <1>1 DEF OpenStream
<1>2. CASE SenderStep \/ CancelFires
  BY <1>2 DEF SenderStep, CancelFires, Cancelled, WriteChunk, AbortTransfer, Read, SendEnds, Throttle,
     ReadEof, Reap, ReadResponse, ReadReason, CancelDone
<1>3. CASE ReceiverStep \/ RecvRefuses \/ RecvDies \/ OldExits
  BY <1>3 DEF ReceiverStep, RecvRefuses, RecvDies, OldExits, Receive, Respond, Admit, CopyEnds
<1>4. CASE LinkBreaks \/ KeepAlive \/ Reconnect
  BY <1>4 DEF LinkBreaks, KeepAlive, Reconnect
<1>5. CASE UNCHANGED transferVars
  BY <1>5 DEF transferVars
<1> QED BY <1>1, <1>2, <1>3, <1>4, <1>5 DEF TransferNext

LEMMA ChunksStep == ASSUME ChunksInv, [TransferNext]_transferVars PROVE ChunksInv'
<1>1. Chunks \in Nat /\ Window \in Nat /\ MaxTries \in Nat /\ MaxUpsets \in Nat
  BY TransferAssumption
<1>2. wire \in Nat /\ unsent \in Nat /\ got \in Nat
  BY <1>1 DEF ChunksInv
<1>3. tries' \in 0..MaxTries /\ upsets' \in 0..MaxUpsets
  BY <1>1, BudgetsMove DEF ChunksInv
<1>4. /\ wire' \in 0..Window /\ unsent' \in Nat /\ got' \in Nat
      /\ unsent' + wire' + got' + InHand' <= Chunks
  BY <1>1, <1>2, ChunksMove DEF ChunksInv, InHand
<1> QED BY <1>3, <1>4 DEF ChunksInv

\* Both ends and what lies between them stay within their types: no chunk is counted twice,
\* and an answer is there exactly when the dispatcher has one (execute_one_plan, drive).
THEOREM TransferTypeCorrect == TransferSpec => []TransferTypeOK
<1>1. TransferInit => TransferInv /\ PhasesInv /\ ChunksInv
  <2>1. TransferInit => PhasesInv
    BY DEF TransferInit, PhasesInv
  <2>2. TransferInit => ChunksInv
    BY TransferAssumption DEF TransferInit, ChunksInv, InHand
  <2> QED BY <2>1, <2>2, TransferInitially
<1>2. /\ TransferInv /\ PhasesInv /\ ChunksInv /\ [TransferNext]_transferVars
      => (TransferInv /\ PhasesInv /\ ChunksInv)'
  BY TransferStep, PhasesStep, ChunksStep
<1>3. TransferInv /\ PhasesInv /\ ChunksInv => TransferTypeOK
  <2> SUFFICES ASSUME TransferInv, PhasesInv, ChunksInv PROVE TransferTypeOK
    OBVIOUS
  <2>1. unsent + wire + got \in 0..Chunks
    BY TransferAssumption DEF ChunksInv, InHand
  <2>2. /\ (lock = "this") = (recv = "copy")
        /\ (verdict = "none") = (recv \notin {"answer", "exited"})
        /\ (frame # "none") = (recv = "exited")
    BY DEF TransferInv, FrameInv
  <2>3. /\ recv \in {"none", "start", "copy", "answer", "exited"}
        /\ verdict \in {"none", "ok", "error"} /\ frame \in {"none", "ok", "error", "lost"}
    BY DEF TransferInv, FrameInv
  <2> QED BY <2>1, <2>2, <2>3 DEF PhasesInv, ChunksInv, TransferTypeOK
<1> QED BY <1>1, <1>2, <1>3, PTL DEF TransferSpec

-----------------------------------------------------------------------------
(* The receive channel *)

Dispatcher ==
  [pc : {"none", "admitted", "probe", "create", "recv"}, discard : BOOLEAN, next : Nat]

\* A dispatcher past admission serves a client that may receive its target, and creates
\* candidates that it has counted from one.
ChannelInv ==
  /\ proc \in [Clients -> Dispatcher]
  /\ \A c \in Clients :
       /\ proc[c].pc # "none" => Decide(c, "recv") /\ UnderRoot(c, Entry[c].target)
       /\ proc[c].pc = "create" => proc[c].next >= 1
  /\ ChangesAreGranted

\* creatable_ancestors is a sequence of prefixes of the target.
LEMMA AncestorsArePrefixes ==
  ASSUME NEW c \in Clients
  PROVE  /\ CreatableAncestors(c) \in Seq(Seq(STRING))
         /\ \E stop \in Nat :
              /\ Entry[c].root # <<>> => stop = Len(Entry[c].root)
              /\ \A i \in 1..Len(CreatableAncestors(c)) :
                   /\ i <= Len(Entry[c].target) - 1 - stop
                   /\ CreatableAncestors(c)[i] = SubSeq(Entry[c].target, 1, stop + i)
<1> DEFINE t == Entry[c].target
           r == Entry[c].root
           stop == IF r = <<>> THEN 1 ELSE Len(r)
           k == Len(t) - 1 - stop
           n == IF k >= 0 THEN k ELSE 0
<1>1. t \in Seq(STRING) /\ r \in Seq(STRING)
  BY RecvChannelAssumption
<1>2. stop \in Nat /\ (r # <<>> => stop = Len(r)) /\ k \in Int /\ n \in Nat
  BY <1>1
<1>3. CreatableAncestors(c) = [i \in 1..k |-> SubSeq(t, 1, stop + i)]
  BY DEF CreatableAncestors
<1> HIDE DEF stop, k, n
<1>4. 1..k = 1..n
  <2>1. CASE k >= 0
    BY <1>2, <2>1 DEF n
  <2>2. CASE k < 0
    BY <1>2, <2>2 DEF n
  <2> QED BY <1>2, <2>1, <2>2
<1>5. CreatableAncestors(c) = [i \in 1..n |-> SubSeq(t, 1, stop + i)]
  BY <1>3, <1>4
<1>6. \A i \in 1..n : SubSeq(t, 1, stop + i) \in Seq(STRING) /\ i <= k
  BY <1>1, <1>2, <1>4 DEF k
<1>7. CreatableAncestors(c) \in Seq(Seq(STRING)) /\ Len(CreatableAncestors(c)) = n
  <2>1. CreatableAncestors(c) \in [1..n -> Seq(STRING)]
    BY <1>5, <1>6
  <2> QED BY <1>2, <2>1
<1> QED BY <1>2, <1>5, <1>6, <1>7 DEF k

LEMMA PrefixOfPrefix ==
  ASSUME NEW t \in Seq(STRING), NEW m \in Nat, NEW n \in Nat, m <= n, n <= Len(t)
  PROVE  SubSeq(SubSeq(t, 1, n), 1, m) = SubSeq(t, 1, m)
<1>1. SubSeq(t, 1, n) \in Seq(STRING) /\ Len(SubSeq(t, 1, n)) = n
  OBVIOUS
<1>2. \A k \in 1..n : SubSeq(t, 1, n)[k] = t[k]
  OBVIOUS
<1>3. \A k \in 1..m : k \in 1..n /\ SubSeq(SubSeq(t, 1, n), 1, m)[k] = SubSeq(t, 1, m)[k]
  BY <1>1, <1>2
<1> QED BY <1>1, <1>3

\* They never leave the client's root.
LEMMA AncestorsBelowRoot ==
  ASSUME NEW c \in Clients, UnderRoot(c, Entry[c].target), Entry[c].root # <<>>,
         NEW i \in Nat \ {0}, i <= Len(CreatableAncestors(c))
  PROVE  Below(Entry[c].root, CreatableAncestors(c)[i])
<1> DEFINE t == Entry[c].target
           r == Entry[c].root
<1>1. t \in Seq(STRING) /\ r \in Seq(STRING)
  BY RecvChannelAssumption
<1>2. i <= Len(t) - 1 - Len(r) /\ CreatableAncestors(c)[i] = SubSeq(t, 1, Len(r) + i)
  <2>1. PICK stop \in Nat :
          /\ r # <<>> => stop = Len(r)
          /\ \A k \in 1..Len(CreatableAncestors(c)) :
               /\ k <= Len(t) - 1 - stop
               /\ CreatableAncestors(c)[k] = SubSeq(t, 1, stop + k)
    BY AncestorsArePrefixes
  <2>2. stop = Len(r)
    BY <2>1
  <2>3. Len(CreatableAncestors(c)) \in Nat
    BY AncestorsArePrefixes
  <2>4. i \in 1..Len(CreatableAncestors(c))
    BY <2>3
  <2> QED BY <2>1, <2>2, <2>4
<1>3. r # t
  BY <1>1, <1>2
<1>4. Len(r) <= Len(t) /\ SubSeq(r, 1, Len(r)) = SubSeq(t, 1, Len(r))
  BY <1>3 DEF UnderRoot, Below, IsStrictPrefix, IsPrefix
<1>5. Len(SubSeq(t, 1, Len(r) + i)) = Len(r) + i
  BY <1>1, <1>2
<1>6. SubSeq(SubSeq(t, 1, Len(r) + i), 1, Len(r)) = SubSeq(t, 1, Len(r))
  <2>1. Len(r) \in Nat /\ Len(r) <= Len(r) + i /\ Len(r) + i <= Len(t)
    BY <1>1, <1>2
  <2> QED BY <1>1, <2>1, PrefixOfPrefix
<1>7. r # SubSeq(t, 1, Len(r) + i)
  BY <1>1, <1>2, <1>5
<1> QED BY <1>1, <1>2, <1>4, <1>5, <1>6, <1>7 DEF Below, IsStrictPrefix, IsPrefix

\* Rights are constant.
LEMMA NothingDone == ASSUME ChangesAreGranted, UNCHANGED did PROVE ChangesAreGranted'
BY DEF ChangesAreGranted, NoChange

\* A dispatcher that gets on, or ends, was admitted before.
LEMMA DispatcherMoves ==
  ASSUME ChannelInv, NEW c \in Clients, NEW q \in Dispatcher, proc' = [proc EXCEPT ![c] = q],
         q.pc # "none" => Decide(c, "recv") /\ UnderRoot(c, Entry[c].target),
         q.pc = "create" => q.next >= 1, ChangesAreGranted'
  PROVE  ChannelInv'
<1>1. /\ proc' \in [Clients -> Dispatcher] /\ proc'[c] = q
      /\ \A b \in Clients \ {c} : proc'[b] = proc[b]
  BY DEF ChannelInv
<1>2. \A b \in Clients : proc'[b].pc # "none" => Decide(b, "recv") /\ UnderRoot(b, Entry[b].target)
  BY <1>1 DEF ChannelInv
<1>3. \A b \in Clients : proc'[b].pc = "create" => proc'[b].next >= 1
  BY <1>1 DEF ChannelInv
<1> QED BY <1>1, <1>2, <1>3 DEF ChannelInv

LEMMA ChannelInitially == RecvChannelInit => ChannelInv
BY DEF RecvChannelInit, ChannelInv, ChangesAreGranted, NoChange, Gone, Dispatcher

\* What a step of a dispatcher changes, its client was entitled to.
LEMMA ChannelByReceive ==
  ASSUME ChannelInv, NEW c \in Clients,
         OpenRecvChannel(c) \/ DiscardFirst(c) \/ Probe(c) \/ Land(c) \/ BreakOff(c)
           \/ DispatcherDies(c)
  PROVE  ChannelInv'
<1>1. proc \in [Clients -> Dispatcher] /\ ChangesAreGranted /\ Gone \in Dispatcher
  BY DEF ChannelInv, Gone, Dispatcher
<1>2. proc[c].pc # "none" => Decide(c, "recv") /\ UnderRoot(c, Entry[c].target)
  BY DEF ChannelInv
<1>3. CASE OpenRecvChannel(c)
  <2>1. UNCHANGED did /\ Decide(c, "recv") /\ UnderRoot(c, Entry[c].target)
    BY <1>3 DEF OpenRecvChannel
  <2>2. PICK d \in BOOLEAN :
          proc' = [proc EXCEPT ![c] = [pc |-> "admitted", discard |-> d, next |-> 0]]
    BY <1>3 DEF OpenRecvChannel
  <2>3. [pc |-> "admitted", discard |-> d, next |-> 0] \in Dispatcher
    BY DEF Dispatcher
  <2> QED BY <1>1, <2>1, <2>2, <2>3, NothingDone, DispatcherMoves
<1>4. CASE DiscardFirst(c)
  <2> DEFINE q == [proc[c] EXCEPT !.pc = "probe"]
  <2>1. proc[c].pc = "admitted" /\ q \in Dispatcher /\ q.pc = "probe"
    BY <1>1, <1>4 DEF DiscardFirst, Dispatcher
  <2>2. proc' = [proc EXCEPT ![c] = q] \/ proc' = [proc EXCEPT ![c] = Gone]
    BY <1>4 DEF DiscardFirst, StepTo, Leave
  <2>3. \/ UNCHANGED did
        \/ /\ did' = <<c, "discard", Entry[c].target>>
           /\ "control:discard_partial_recv" \in Entry[c].operations
    BY <1>4 DEF DiscardFirst, AbortPartial, DiscardAllowed, Granted
  <2>4. ChangesAreGranted'
    BY <1>1, <2>3, NothingDone DEF ChangesAreGranted
  <2> HIDE DEF q
  <2> QED BY <1>1, <1>2, <2>1, <2>2, <2>4, DispatcherMoves DEF Gone
<1>5. CASE Probe(c)
  <2> DEFINE missing == {i \in DOMAIN CreatableAncestors(c) :
                           CreatableAncestors(c)[i] \notin datasets}
             first == IF missing = {} THEN Len(CreatableAncestors(c)) + 1
                      ELSE CHOOSE i \in missing : \A j \in missing : i <= j
             q == [pc |-> "create", discard |-> proc[c].discard, next |-> first]
  <2>1. first \in Nat \ {0}
    <3>1. missing \subseteq Nat \ {0} /\ Len(CreatableAncestors(c)) \in Nat
      BY AncestorsArePrefixes
    <3>2. CASE missing # {}
      <4>1. \E i \in missing : \A j \in missing : i <= j
        BY <3>1, <3>2, LeastExists
      <4> QED BY <3>1, <3>2, <4>1
    <3> QED BY <3>1, <3>2
  <2>2. UNCHANGED did /\ proc[c].pc = "probe" /\ proc' = [proc EXCEPT ![c] = q]
    BY <1>5 DEF Probe
  <2> HIDE DEF first
  <2>3. q \in Dispatcher /\ q.pc = "create" /\ q.next >= 1
    BY <1>1, <2>1 DEF Dispatcher
  <2> HIDE DEF q
  <2> QED BY <1>1, <1>2, <2>2, <2>3, NothingDone, DispatcherMoves
<1>6. CASE Land(c) \/ BreakOff(c)
  <2>1. /\ did' = <<c, "recv", Entry[c].target>> /\ proc[c].pc = "recv"
        /\ proc' = [proc EXCEPT ![c] = Gone]
    BY <1>6 DEF Land, BreakOff, Leave
  <2>2. ChangesAreGranted'
    BY <1>2, <2>1 DEF Decide, UnderRoot, ChangesAreGranted
  <2> QED BY <1>1, <2>1, <2>2, DispatcherMoves DEF Gone
<1>7. CASE DispatcherDies(c)
  <2>1. UNCHANGED did /\ proc' = [proc EXCEPT ![c] = Gone]
    BY <1>7 DEF DispatcherDies, Leave
  <2> QED BY <1>1, <2>1, NothingDone, DispatcherMoves DEF Gone
<1> QED BY <1>3, <1>4, <1>5, <1>6, <1>7

LEMMA ChannelByCreate == ASSUME ChannelInv, NEW c \in Clients, Create(c) PROVE ChannelInv'
<1> DEFINE a == CreatableAncestors(c)
           i == proc[c].next
<1>1. proc \in [Clients -> Dispatcher] /\ ChangesAreGranted /\ Gone \in Dispatcher
  BY DEF ChannelInv, Gone, Dispatcher
<1>2. /\ proc[c].pc = "create" /\ i \in Nat \ {0}
      /\ Decide(c, "recv") /\ UnderRoot(c, Entry[c].target)
  BY DEF Create, ChannelInv, Dispatcher
<1>3. CASE i > Len(a) \/ a[i] \in datasets \/ ParentOf(a[i]) \notin datasets
  <2> DEFINE q == [proc[c] EXCEPT !.pc = "recv"]
  <2>1. UNCHANGED did /\ (proc' = [proc EXCEPT ![c] = q] \/ proc' = [proc EXCEPT ![c] = Gone])
    BY <1>3 DEF Create, StepTo, Leave
  <2>2. q \in Dispatcher /\ q.pc = "recv"
    BY <1>1 DEF Dispatcher
  <2> HIDE DEF q
  <2>3. ChangesAreGranted' /\ Gone.pc = "none"
    BY <1>1, <2>1, NothingDone DEF Gone
  <2>4. CASE proc' = [proc EXCEPT ![c] = q]
    BY <1>2, <2>2, <2>3, <2>4, DispatcherMoves
  <2>5. CASE proc' = [proc EXCEPT ![c] = Gone]
    BY <1>1, <2>3, <2>5, DispatcherMoves
  <2> QED BY <2>1, <2>4, <2>5
<1>4. CASE ~(i > Len(a) \/ a[i] \in datasets \/ ParentOf(a[i]) \notin datasets)
  <2> DEFINE q == [proc[c] EXCEPT !.next = i + 1]
  <2>1. did' = <<c, "create", a[i]>> /\ proc' = [proc EXCEPT ![c] = q]
    BY <1>4 DEF Create
  <2>2. Entry[c].root = <<>> \/ Below(Entry[c].root, a[i])
    <3>1. Len(a) \in Nat
      BY AncestorsArePrefixes
    <3>2. i <= Len(a)
      BY <1>2, <1>4, <3>1
    <3> QED BY <1>2, <3>2, AncestorsBelowRoot
  <2>3. ChangesAreGranted'
    BY <2>1, <2>2 DEF ChangesAreGranted
  <2>4. q \in Dispatcher /\ q.next >= 1
    BY <1>1, <1>2 DEF Dispatcher
  <2> HIDE DEF q
  <2> QED BY <1>1, <1>2, <2>1, <2>3, <2>4, DispatcherMoves
<1> QED BY <1>3, <1>4

LEMMA ChannelByControl ==
  ASSUME ChannelInv, NEW c \in Clients, DiscardPartialRecv(c) \/ Proxy(c)
  PROVE  ChannelInv'
<1> USE DEF ChannelInv
<1>1. CASE DiscardPartialRecv(c)
  <2>1. PICK t \in partial : did' = <<c, "discard", t>>
    BY <1>1 DEF DiscardPartialRecv, AbortPartial
  <2>2. UNCHANGED proc /\ "control:discard_partial_recv" \in Entry[c].operations
    BY <1>1 DEF DiscardPartialRecv, Granted
  <2> QED BY <2>1, <2>2 DEF ChangesAreGranted
<1>2. CASE Proxy(c)
  <2>1. PICK method \in {"GET", "POST", "DELETE", "PUT"},
             route \in {"api", "recent_events", "outside", "peers", "stream"} :
          ProxyForwards(c, method, route) /\ did' = <<c, method, route>>
    BY <1>2 DEF Proxy
  <2>2. \/ method = "GET" /\ "control" \in Entry[c].operations
        \/ method \in {"POST", "DELETE"} /\ "control:proxy_admin" \in Entry[c].operations
    BY <2>1 DEF ProxyForwards, Decide, Granted
  <2>3. ChangesAreGranted' /\ UNCHANGED proc
    BY <1>2, <2>1, <2>2 DEF Proxy, ChangesAreGranted
  <2> QED BY <2>3
<1> QED BY <1>1, <1>2

LEMMA ChannelStep == ChannelInv /\ [RecvChannelNext]_recvChannelVars => ChannelInv'
<1>1. ASSUME ChannelInv, UNCHANGED recvChannelVars PROVE ChannelInv'
  BY <1>1, NothingDone DEF ChannelInv, recvChannelVars
<1> QED BY <1>1, ChannelByReceive, ChannelByCreate, ChannelByControl DEF RecvChannelNext

\* Whatever a dispatcher changes on the receiving host, its client's entry grants
\* (dispatch.rs, acl.rs, recv.rs).
THEOREM ClientsStayWithinGrants == RecvChannelSpec => []ChangesAreGranted
<1>1. ChannelInv => ChangesAreGranted
  BY DEF ChannelInv
<1> QED BY <1>1, ChannelInitially, ChannelStep, PTL DEF RecvChannelSpec

\* A dispatcher past admission holds the lock of its client's target, and no other does.
LocksInv ==
  /\ proc \in [Clients -> Dispatcher] /\ locks \in [Clients -> Targets \cup {NoLock}]
  /\ \A c \in Clients : proc[c].pc = "none" <=> locks[c] = NoLock
  /\ \A c \in Clients : \A b \in Clients \ {c} : locks[c] # NoLock => locks[b] # locks[c]
  /\ fails \in 0..MaxFails

\* Every dataset but a pool has its parent.
TreeInv ==
  /\ datasets \subseteq Datasets \cup Existing
  /\ \A n \in datasets : Len(n) > 1 => ParentOf(n) \in datasets
  /\ partial \subseteq Targets \cap datasets /\ landed \subseteq Targets \cap datasets

LEMMA TargetsAreNames ==
  /\ \A c \in Clients : Entry[c].target \in Targets
  /\ Targets \subseteq Seq(STRING) /\ NoLock \notin Targets
BY RecvChannelAssumption, TargetsAssumption DEF Targets, Apart, NoLock

\* What lies on the way to a target is not below a target.
LEMMA NoneBelowTarget ==
  ASSUME NEW n \in Datasets \cup Existing, Len(n) > 1, NEW t \in Targets, ParentOf(n) = t
  PROVE  FALSE
<1>1. t \in Seq(STRING)
  BY TargetsAreNames
<1>2. CASE n \in Existing
  BY <1>2, TargetsAssumption DEF Apart, Targets, ParentOf
<1>3. CASE n \in Datasets
  <2>1. PICK u \in Targets : n \in PathTo(u)
    BY <1>3 DEF Datasets
  <2>2. PICK i \in 1..Len(u) : n = SubSeq(u, 1, i)
    BY <2>1 DEF PathTo
  <2>3. u \in Seq(STRING) /\ Len(u) \in Nat /\ i \in Nat
    BY <2>1, TargetsAreNames
  <2>4. Len(n) = i /\ t = SubSeq(n, 1, i - 1)
    BY <2>2, <2>3 DEF ParentOf, Front
  <2>5. Len(t) = i - 1 /\ t = SubSeq(u, 1, i - 1)
    BY <2>2, <2>3, <2>4
  <2>6. Len(t) <= Len(u) /\ SubSeq(t, 1, Len(t)) = SubSeq(u, 1, Len(t)) /\ t # u
    BY <1>1, <2>3, <2>5
  <2>7. IsStrictPrefix(t, u)
    BY <2>6 DEF IsStrictPrefix, IsPrefix
  <2> QED BY <2>7, TargetsAssumption DEF Apart, Targets
<1> QED BY <1>2, <1>3

\* zfs recv -A on a target.
LEMMA TreeByAbort ==
  ASSUME TreeInv, NEW c \in Clients, NEW t \in Targets, AbortPartial(c, t), UNCHANGED landed
  PROVE  TreeInv'
<1>1. partial' = partial \ {t} /\ (datasets' = datasets \/ datasets' = datasets \ {t})
  BY DEF AbortPartial
<1>2. datasets' = datasets \ {t} => t \notin landed \/ datasets' = datasets
  BY DEF AbortPartial
<1>3. \A n \in datasets : Len(n) > 1 => ParentOf(n) # t
  BY NoneBelowTarget DEF TreeInv
<1>4. /\ datasets' \subseteq Datasets \cup Existing
      /\ \A n \in datasets' : Len(n) > 1 => ParentOf(n) \in datasets'
  BY <1>1, <1>3 DEF TreeInv
<1>5. partial' \subseteq Targets \cap datasets'
  BY <1>1 DEF TreeInv
<1>6. landed' \subseteq Targets \cap datasets'
  BY <1>1, <1>2 DEF TreeInv
<1> QED BY <1>4, <1>5, <1>6 DEF TreeInv

\* A dataset on the way to a target appears under its parent.
LEMMA TreeByCreation ==
  ASSUME TreeInv, NEW n \in Datasets, ParentOf(n) \in datasets, datasets' = datasets \cup {n},
         partial' \subseteq partial \cup (Targets \cap {n}),
         landed' \subseteq landed \cup (Targets \cap {n})
  PROVE  TreeInv'
BY DEF TreeInv

LEMMA TargetsAreDatasets ==
  ASSUME NEW t \in Targets PROVE t \in Datasets
<1>1. t \in Seq(STRING) /\ t # <<>>
  BY TargetsAreNames DEF NoLock
<1>2. Len(t) \in 1..Len(t) /\ t = SubSeq(t, 1, Len(t))
  BY <1>1
<1>3. t \in PathTo(t)
  BY <1>2 DEF PathTo
<1> QED BY <1>3 DEF Datasets

LEMMA TreeByStep ==
  ASSUME ChannelInv, TreeInv, NEW c \in Clients,
         OpenRecvChannel(c) \/ DiscardFirst(c) \/ Probe(c) \/ Create(c) \/ Land(c)
           \/ BreakOff(c) \/ DispatcherDies(c) \/ DiscardPartialRecv(c) \/ Proxy(c)
  PROVE  TreeInv'
<1> DEFINE t == Entry[c].target
<1>1. t \in Targets /\ t \in Datasets
  BY TargetsAreNames, TargetsAreDatasets
<1>2. CASE UNCHANGED <<datasets, partial, landed>>
  BY <1>2 DEF TreeInv
<1>3. CASE OpenRecvChannel(c) \/ Probe(c) \/ DispatcherDies(c) \/ Proxy(c)
  BY <1>2, <1>3 DEF OpenRecvChannel, Probe, DispatcherDies, Proxy
<1>4. CASE DiscardFirst(c)
  <2>1. UNCHANGED landed /\ (AbortPartial(c, t) \/ UNCHANGED <<datasets, partial>>)
    BY <1>4 DEF DiscardFirst
  <2> QED BY <1>1, <1>2, <2>1, TreeByAbort
<1>5. CASE DiscardPartialRecv(c)
  <2>1. PICK u \in partial : AbortPartial(c, u)
    BY <1>5 DEF DiscardPartialRecv
  <2>2. u \in Targets /\ UNCHANGED landed
    BY <1>5 DEF DiscardPartialRecv, TreeInv
  <2> QED BY <2>1, <2>2, TreeByAbort
<1>6. CASE Create(c)
  <2> DEFINE a == CreatableAncestors(c)
             i == proc[c].next
  <2>1. /\ proc[c].pc = "create" /\ UNCHANGED <<partial, landed>>
        /\ \/ UNCHANGED datasets
           \/ /\ ~(i > Len(a)) /\ ParentOf(a[i]) \in datasets
              /\ datasets' = datasets \cup {a[i]}
    BY <1>6 DEF Create
  <2>2. CASE ~(i > Len(a)) /\ ParentOf(a[i]) \in datasets /\ datasets' = datasets \cup {a[i]}
    <3>1. i \in Nat \ {0}
      BY <2>1 DEF ChannelInv, Dispatcher
    <3>2. PICK stop \in Nat : \A k \in 1..Len(a) :
             k <= Len(t) - 1 - stop /\ a[k] = SubSeq(t, 1, stop + k)
      BY AncestorsArePrefixes
    <3>3. Len(a) \in Nat
      BY AncestorsArePrefixes
    <3>4. i \in 1..Len(a)
      BY <2>2, <3>1, <3>3
    <3>5. Len(t) \in Nat
      BY <1>1, TargetsAreNames
    <3> HIDE DEF a, i
    <3>6. i <= Len(t) - 1 - stop /\ a[i] = SubSeq(t, 1, stop + i)
      BY <3>2, <3>4
    <3>7. stop + i \in 1..Len(t)
      BY <3>1, <3>5, <3>6
    <3>8. a[i] \in PathTo(t)
      BY <3>6, <3>7 DEF PathTo
    <3>9. a[i] \in Datasets
      BY <1>1, <3>8 DEF Datasets
    <3> QED BY <2>1, <2>2, <3>9, TreeByCreation
  <2> QED BY <1>2, <2>1, <2>2
<1>7. CASE Land(c)
  BY <1>1, <1>7, TreeByCreation DEF Land
<1>8. CASE BreakOff(c)
  BY <1>1, <1>8, TreeByCreation DEF BreakOff
<1> QED BY <1>3, <1>4, <1>5, <1>6, <1>7, <1>8

LEMMA LocksByStep ==
  ASSUME ChannelInv, ChannelInv', LocksInv, NEW c \in Clients,
         OpenRecvChannel(c) \/ DiscardFirst(c) \/ Probe(c) \/ Create(c) \/ Land(c)
           \/ BreakOff(c) \/ DispatcherDies(c) \/ DiscardPartialRecv(c) \/ Proxy(c)
  PROVE  LocksInv'
<1> DEFINE t == Entry[c].target
<1>1. /\ t \in Targets /\ NoLock \notin Targets /\ MaxFails \in Nat
      /\ proc \in [Clients -> Dispatcher] /\ proc' \in [Clients -> Dispatcher]
  BY TargetsAreNames, RecvChannelAssumption DEF ChannelInv
<1>2. fails' \in 0..MaxFails
  <2>1. UNCHANGED fails \/ (fails < MaxFails /\ fails' = fails + 1)
    BY DEF OpenRecvChannel, DiscardFirst, Probe, Create, Land, BreakOff, DispatcherDies,
       DiscardPartialRecv, Proxy, Mishap
  <2> QED BY <1>1, <2>1 DEF LocksInv
<1>3. \/ UNCHANGED <<proc, locks>>
      \/ Leave(c)
      \/ /\ UNCHANGED locks /\ proc[c].pc # "none" /\ proc'[c].pc # "none"
         /\ \A b \in Clients \ {c} : proc'[b] = proc[b]
      \/ /\ \A b \in Clients : locks[b] # t
         /\ locks' = [locks EXCEPT ![c] = t] /\ proc'[c].pc # "none"
         /\ \A b \in Clients \ {c} : proc'[b] = proc[b]
  <2>1. CASE OpenRecvChannel(c)
    BY <1>1, <2>1 DEF OpenRecvChannel, Free
  <2>2. CASE DiscardFirst(c)
    BY <1>1, <2>2 DEF DiscardFirst, StepTo, Dispatcher
  <2>3. CASE Probe(c)
    BY <1>1, <2>3 DEF Probe
  <2>4. CASE Create(c)
    BY <1>1, <2>4 DEF Create, StepTo, Dispatcher
  <2>5. CASE Land(c) \/ BreakOff(c) \/ DispatcherDies(c)
    BY <2>5 DEF Land, BreakOff, DispatcherDies
  <2>6. CASE DiscardPartialRecv(c) \/ Proxy(c)
    BY <2>6 DEF DiscardPartialRecv, Proxy
  <2> QED BY <2>1, <2>2, <2>3, <2>4, <2>5, <2>6
<1>4. CASE UNCHANGED <<proc, locks>>
  BY <1>2, <1>4 DEF LocksInv
<1>5. CASE Leave(c)
  <2>1. /\ locks' \in [Clients -> Targets \cup {NoLock}] /\ locks'[c] = NoLock
        /\ proc'[c].pc = "none"
        /\ \A b \in Clients \ {c} : proc'[b] = proc[b] /\ locks'[b] = locks[b]
    BY <1>1, <1>5 DEF Leave, LocksInv, Gone
  <2> QED BY <1>1, <1>2, <2>1 DEF LocksInv
<1>6. CASE /\ UNCHANGED locks /\ proc[c].pc # "none" /\ proc'[c].pc # "none"
           /\ \A b \in Clients \ {c} : proc'[b] = proc[b]
  BY <1>1, <1>2, <1>6 DEF LocksInv
<1>7. CASE /\ \A b \in Clients : locks[b] # t
           /\ locks' = [locks EXCEPT ![c] = t] /\ proc'[c].pc # "none"
           /\ \A b \in Clients \ {c} : proc'[b] = proc[b]
  <2>1. /\ locks' \in [Clients -> Targets \cup {NoLock}] /\ locks'[c] = t /\ t # NoLock
        /\ \A b \in Clients \ {c} : locks'[b] = locks[b] /\ locks'[b] # t
    BY <1>1, <1>7 DEF LocksInv
  <2> HIDE DEF t
  <2> QED BY <1>1, <1>2, <1>7, <2>1 DEF LocksInv
<1> QED BY <1>3, <1>4, <1>5, <1>6, <1>7

\* No two dispatchers ever work on one target, and no dataset is left without its parent,
\* whatever breaks, is discarded or raced for (recv_lock.rs, ensure_receive_ancestors).
THEOREM RecvChannelTypeCorrect == RecvChannelSpec => []RecvChannelTypeOK
<1>1. RecvChannelInit => ChannelInv /\ LocksInv /\ TreeInv
  <2> SUFFICES ASSUME RecvChannelInit PROVE LocksInv /\ TreeInv
    BY ChannelInitially
  <2>1. LocksInv
    BY RecvChannelAssumption DEF RecvChannelInit, LocksInv, NoLock, Gone, Dispatcher
  <2>2. TreeInv
    BY TargetsAssumption DEF RecvChannelInit, TreeInv, Apart, ParentOf
  <2> QED BY <2>1, <2>2
<1>2. ChannelInv /\ LocksInv /\ TreeInv /\ [RecvChannelNext]_recvChannelVars
      => (ChannelInv /\ LocksInv /\ TreeInv)'
  <2>1. ASSUME LocksInv, TreeInv, UNCHANGED recvChannelVars PROVE LocksInv' /\ TreeInv'
    BY <2>1 DEF LocksInv, TreeInv, recvChannelVars
  <2> QED BY <2>1, ChannelStep, LocksByStep, TreeByStep DEF RecvChannelNext
<1>3. LocksInv /\ TreeInv => RecvChannelTypeOK
  <2> SUFFICES ASSUME LocksInv, TreeInv PROVE RecvChannelTypeOK
    OBVIOUS
  <2>1. \A c \in Clients :
          /\ proc[c].pc \in {"none", "admitted", "probe", "create", "recv"}
          /\ (proc[c].pc = "none") = (locks[c] = NoLock)
    BY DEF LocksInv, Dispatcher
  <2> QED BY <2>1 DEF LocksInv, TreeInv, RecvChannelTypeOK
<1> QED BY <1>1, <1>2, <1>3, PTL DEF RecvChannelSpec

-----------------------------------------------------------------------------
(* The event log *)

\* Ids come from one counter.
IdsInv ==
  /\ nextId \in Nat \ {0} /\ table \subseteq 1..(nextId - 1) /\ own \subseteq 1..(nextId - 1)
  /\ newest \in 0..(nextId - 1) /\ last \in 0..(nextId - 1) /\ since \in 0..(nextId - 1)

\* The row about to be broadcast is the writer's newest, the broadcast is in order, and
\* without a stream nothing is held back for one.
BroadcastInv ==
  /\ pending \in own \cup {0} /\ buffer \in Seq(own) /\ Ascends(buffer)
  /\ pending # 0 => \A i \in own : i <= pending
  /\ pending # 0 => \A k \in 1..Len(buffer) : buffer[k] < pending
  /\ conn = "off" => buffer = <<>>
  /\ conn = "subscribed" => newest = since

\* What a live stream has still to send lies ahead of the client: the replay up to last,
\* then what is broadcast after it.
StreamInv ==
  /\ conn \in {"off", "subscribed", "live"}
  /\ conn = "live" =>
       /\ replay \in Seq(1..last) /\ Ascends(replay)
       /\ \A k \in 1..Len(replay) : newest < replay[k]
       /\ \/ newest <= last
          \/ /\ replay = <<>>
             /\ pending = 0 \/ newest < pending
             /\ \A k \in 1..Len(buffer) : newest < buffer[k]

\* Every own event is with the client or given up, or else ahead of it and on the way.
OnTheWay(i) ==
  \/ \E k \in 1..Len(replay) : replay[k] = i
  \/ i > last /\ (i = pending \/ \E k \in 1..Len(buffer) : buffer[k] = i)
GapInv ==
  /\ \A i \in own : i <= newest => i \in settled
  /\ conn = "live" => \A i \in own \ settled : OnTheWay(i)

PollInv ==
  /\ pollSince \in 0..(nextId - 1)
  /\ \A i \in table : pollStart < i /\ i <= pollSince => i \in polled

EventsInv == IdsInv /\ BroadcastInv /\ StreamInv /\ GapInv /\ PollInv

\* A set of ids has a greatest member, which Biggest returns.
LEMMA BiggestIsGreatest ==
  ASSUME NEW N \in Nat, NEW T \in SUBSET (0..N), T # {}
  PROVE  Biggest(T) \in T /\ \A j \in T : j <= Biggest(T)
<1> DEFINE D == {N - j : j \in T}
<1>1. D \subseteq Nat /\ D # {}
  OBVIOUS
<1>2. PICK d \in D : \A e \in D : d <= e
  BY <1>1, LeastExists
<1>3. PICK i \in T : d = N - i
  BY <1>2
<1>4. \A j \in T : j <= i
  <2> TAKE j \in T
  <2>1. d <= N - j
    BY <1>2
  <2> QED BY <1>3, <2>1
<1>5. \E m \in T : \A j \in T : j <= m
  BY <1>4
<1> QED BY <1>5 DEF Biggest

\* A sequence over a set is one over a larger set.
LEMMA SequenceOver ==
  ASSUME NEW S, NEW T, S \subseteq T, NEW s \in Seq(S)
  PROVE  s \in Seq(T) /\ Len(s) \in Nat /\ \A k \in 1..Len(s) : s[k] \in S
<1>1. Len(s) \in Nat /\ s \in [1..Len(s) -> S]
  OBVIOUS
<1>2. s \in [1..Len(s) -> T]
  BY <1>1
<1> QED BY <1>1, <1>2

LEMMA AppendAscends ==
  ASSUME NEW s \in Seq(Nat), Ascends(s), NEW x \in Nat, \A k \in 1..Len(s) : s[k] < x
  PROVE  Ascends(Append(s, x))
<1>1. Len(Append(s, x)) = Len(s) + 1 /\ Append(s, x)[Len(s) + 1] = x
  OBVIOUS
<1>2. \A k \in 1..Len(s) : Append(s, x)[k] = s[k]
  OBVIOUS
<1> SUFFICES ASSUME NEW j \in 1..(Len(s) + 1), NEW k \in 1..(Len(s) + 1), j < k
             PROVE  Append(s, x)[j] < Append(s, x)[k]
  BY <1>1 DEF Ascends
<1>3. j \in 1..Len(s) /\ Append(s, x)[j] = s[j]
  BY <1>2
<1>4. CASE k = Len(s) + 1
  BY <1>1, <1>3, <1>4
<1>5. CASE k # Len(s) + 1
  BY <1>2, <1>3, <1>5 DEF Ascends
<1> QED BY <1>4, <1>5

\* What is left of an ascending sequence ascends, beyond its head.
LEMMA TailAscends ==
  ASSUME NEW S \in SUBSET Nat, NEW s \in Seq(S), s # <<>>, Ascends(s)
  PROVE  /\ Tail(s) \in Seq(S) /\ Len(Tail(s)) = Len(s) - 1 /\ Ascends(Tail(s))
         /\ Head(s) \in S /\ Head(s) = s[1]
         /\ \A k \in 1..Len(Tail(s)) : Tail(s)[k] = s[k + 1] /\ Head(s) < Tail(s)[k]
         /\ \A k \in 1..Len(s) :
              s[k] = Head(s) \/ (k > 1 /\ k - 1 \in 1..Len(Tail(s)) /\ Tail(s)[k - 1] = s[k])
<1>1. Len(s) \in Nat /\ Len(s) >= 1 /\ \A k \in 1..Len(s) : s[k] \in S
  OBVIOUS
<1>2. Tail(s) \in Seq(S) /\ Len(Tail(s)) = Len(s) - 1 /\ Head(s) = s[1]
  BY <1>1
<1>3. \A k \in 1..Len(Tail(s)) : Tail(s)[k] = s[k + 1]
  BY <1>1, <1>2
<1>4. Ascends(Tail(s))
  BY <1>1, <1>2, <1>3 DEF Ascends
<1>5. \A k \in 1..Len(Tail(s)) : Head(s) < Tail(s)[k]
  BY <1>1, <1>2, <1>3 DEF Ascends
<1>6. \A k \in 1..Len(s) :
        s[k] = Head(s) \/ (k > 1 /\ k - 1 \in 1..Len(Tail(s)) /\ Tail(s)[k - 1] = s[k])
  BY <1>1, <1>2, <1>3
<1> QED BY <1>1, <1>2, <1>3, <1>4, <1>5, <1>6

LEMMA EventsInitially == EventLogInit => EventsInv
BY DEF EventLogInit, EventsInv, IdsInv, BroadcastInv, StreamInv, GapInv, PollInv, Ascends

\* Steps that are not about the writer's rows.
LEMMA EventsByOthers ==
  ASSUME EventsInv, Emit \/ WriterInsertFails \/ ForeignInsert \/ Trim
  PROVE  EventsInv'
<1> USE DEF EventsInv, streamVars, clientVars, pollVars
<1>1. UNCHANGED <<own, pending, conn, since, replay, buffer, last, newest, settled>>
  BY DEF Emit, WriterInsertFails, ForeignInsert, Trim, writerVars
<1>2. UNCHANGED <<pollSince, pollStart, polled>>
  BY DEF Emit, WriterInsertFails, ForeignInsert, Trim
<1>3. \/ nextId' = nextId /\ \A i \in table' : i \in table
      \/ nextId' = nextId + 1 /\ \A i \in table' : i \in table \/ i = nextId
  BY DEF Emit, WriterInsertFails, ForeignInsert, Trim, writerVars, IdsInv
<1>4. IdsInv'
  <2>1. /\ nextId \in Nat /\ nextId # 0 /\ (nextId' = nextId \/ nextId' = nextId + 1)
        /\ \A i \in table : i \in 1..(nextId - 1)
    BY <1>3 DEF IdsInv
  <2>2. \A i \in table' : i \in 1..(nextId' - 1)
    BY <1>3, <2>1
  <2>3. \A i \in Nat : i <= nextId - 1 => i <= nextId' - 1
    BY <2>1
  <2>4. \A i \in own : i \in Nat /\ i >= 1 /\ i <= nextId - 1
    BY DEF IdsInv
  <2>5. \A i \in {newest, last, since} : i \in Nat /\ i <= nextId - 1
    BY DEF IdsInv
  <2>6. nextId' - 1 \in Nat
    BY <2>1
  <2>7. own' \subseteq 1..(nextId' - 1)
    BY <1>1, <2>3, <2>4, <2>6
  <2>8. \A i \in {newest', last', since'} : i \in 0..(nextId' - 1)
    BY <1>1, <2>3, <2>5, <2>6
  <2> QED BY <2>1, <2>2, <2>7, <2>8 DEF IdsInv
<1>5. BroadcastInv' /\ StreamInv' /\ GapInv'
  BY <1>1 DEF BroadcastInv, StreamInv, GapInv, OnTheWay, Ascends
<1>6. PollInv'
  <2>1. nextId \in Nat \ {0} /\ pollSince \in 0..(nextId - 1)
    BY DEF IdsInv, PollInv
  <2>2. pollSince' \in 0..(nextId' - 1) /\ pollSince' < nextId
    BY <1>2, <1>3, <2>1
  <2>3. \A i \in table' : i \in table \/ i = nextId
    BY <1>3
  <2> QED BY <1>2, <2>1, <2>2, <2>3 DEF PollInv
<1> QED BY <1>4, <1>5, <1>6

LEMMA EventsByWriter == ASSUME EventsInv, WriterInsert PROVE EventsInv'
<1> USE DEF EventsInv, WriterInsert, streamVars, clientVars, pollVars
<1>1. IdsInv' /\ PollInv'
  BY DEF IdsInv, PollInv
<1>2. BroadcastInv'
  <2>1. \A k \in 1..Len(buffer) : buffer[k] \in own
    BY DEF BroadcastInv
  <2>2. buffer \in Seq(own')
    BY <2>1 DEF BroadcastInv
  <2>3. \A k \in 1..Len(buffer) : buffer[k] < nextId
    <3>1. nextId \in Nat /\ \A i \in own : i \in 1..(nextId - 1)
      BY DEF IdsInv
    <3> QED BY <2>1, <3>1
  <2> QED BY <2>2, <2>3 DEF BroadcastInv, IdsInv, Ascends
<1>3. StreamInv'
  BY DEF StreamInv, IdsInv, Ascends
<1>4. GapInv'
  BY DEF GapInv, IdsInv, OnTheWay, BroadcastInv
<1> QED BY <1>1, <1>2, <1>3, <1>4

LEMMA EventsByBroadcast == ASSUME EventsInv, WriterBroadcast PROVE EventsInv'
<1> USE DEF EventsInv, clientVars, pollVars
<1>1. UNCHANGED <<own, nextId, table, conn, since, replay, last, newest, pollVars>> /\ pending' = 0
  BY DEF WriterBroadcast
<1>2. IdsInv' /\ PollInv'
  BY <1>1 DEF IdsInv, PollInv
<1>3. CASE conn = "off"
  <2>1. UNCHANGED <<buffer, settled>>
    BY <1>3 DEF WriterBroadcast
  <2> QED BY <1>1, <1>2, <1>3, <2>1 DEF BroadcastInv, StreamInv, GapInv, Ascends
<1>4. CASE conn # "off"
  <2> DEFINE lagged == Len(buffer) = Buffer
             rest == IF lagged THEN Tail(buffer) ELSE buffer
  <2>1. /\ pending # 0 /\ buffer' = Append(rest, pending)
        /\ settled' = IF lagged THEN settled \cup {Head(buffer)} ELSE settled
    BY <1>4 DEF WriterBroadcast
  <2>2. own \in SUBSET Nat /\ buffer \in Seq(own) /\ pending \in own /\ Ascends(buffer)
    BY <2>1 DEF BroadcastInv, IdsInv
  <2>3. lagged => buffer # <<>>
    BY EventLogAssumption
  <2>4. /\ rest \in Seq(own) /\ Ascends(rest)
        /\ \A k \in 1..Len(rest) : rest[k] < pending
        /\ \A k \in 1..Len(rest) : \E j \in 1..Len(buffer) : rest[k] = buffer[j]
        /\ \A k \in 1..Len(buffer) :
             (lagged /\ buffer[k] = Head(buffer)) \/ \E j \in 1..Len(rest) : rest[j] = buffer[k]
    <3>1. CASE lagged
      <4>1. \A k \in 1..Len(Tail(buffer)) : k + 1 \in 1..Len(buffer)
        BY <2>2, <2>3, <3>1, TailAscends
      <4> QED BY <2>1, <2>2, <2>3, <3>1, <4>1, TailAscends DEF BroadcastInv
    <3>2. CASE ~lagged
      BY <2>1, <2>2, <3>2 DEF BroadcastInv
    <3> QED BY <3>1, <3>2
  <2> HIDE DEF rest
  <2>5. /\ buffer' \in Seq(own) /\ Len(buffer') = Len(rest) + 1
        /\ buffer'[Len(rest) + 1] = pending /\ Len(rest) \in Nat
        /\ \A k \in 1..Len(rest) : buffer'[k] = rest[k]
    BY <2>1, <2>2, <2>4
  <2>6. Ascends(buffer')
    <3>1. rest \in Seq(Nat) /\ pending \in Nat
      BY <2>2, <2>4, SequenceOver
    <3> QED BY <2>1, <2>4, <3>1, AppendAscends
  <2>7. BroadcastInv'
    BY <1>1, <1>4, <2>5, <2>6 DEF BroadcastInv
  <2>8. StreamInv'
    <3>1. ASSUME conn = "live", newest > last
          PROVE  \A k \in 1..Len(buffer') : newest < buffer'[k]
      <4>1. newest < pending /\ \A k \in 1..Len(buffer) : newest < buffer[k]
        BY <2>1, <3>1 DEF StreamInv, IdsInv
      <4> QED BY <2>4, <2>5, <4>1
    <3>2. newest \in Nat /\ last \in Nat
      BY DEF IdsInv
    <3> QED BY <1>1, <3>1, <3>2 DEF StreamInv, Ascends
  <2>9. GapInv'
    <3>1. settled \subseteq settled'
      BY <2>1
    <3>2. ASSUME conn = "live", NEW i \in own \ settled' PROVE OnTheWay(i)'
      <4>1. OnTheWay(i)
        BY <3>1, <3>2 DEF GapInv
      <4>2. CASE \E k \in 1..Len(replay) : replay[k] = i
        BY <1>1, <4>2 DEF OnTheWay
      <4>3. CASE i > last /\ i = pending
        BY <1>1, <2>5, <4>3 DEF OnTheWay
      <4>4. CASE i > last /\ \E k \in 1..Len(buffer) : buffer[k] = i
        <5>1. \E j \in 1..Len(rest) : rest[j] = i
          BY <2>1, <2>4, <3>2, <4>4
        <5> QED BY <1>1, <2>5, <4>4, <5>1 DEF OnTheWay
      <4> QED BY <4>1, <4>2, <4>3, <4>4 DEF OnTheWay
    <3> QED BY <1>1, <3>1, <3>2 DEF GapInv
  <2> QED BY <1>2, <2>7, <2>8, <2>9
<1> QED BY <1>3, <1>4


\* Where a stream ends, and where the next one begins, the client holds what was due.
LEMMA EventsByConnection ==
  ASSUME EventsInv, Subscribe \/ Disconnect \/ DaemonRestarts
  PROVE  EventsInv'
<1> USE DEF EventsInv, writerVars, streamVars, clientVars, pollVars, CloseStream
<1>1. /\ UNCHANGED <<nextId, own, table, newest, settled, pollVars>> /\ pending' \in {0, pending}
      /\ buffer' = <<>> /\ last' = 0 /\ since' \in {0, newest}
      /\ conn' = "off" \/ (conn' = "subscribed" /\ since' = newest)
  BY DEF Subscribe, Disconnect, DaemonRestarts
<1>2. IdsInv' /\ PollInv'
  BY <1>1 DEF IdsInv, PollInv
<1>3. BroadcastInv' /\ StreamInv' /\ GapInv'
  BY <1>1 DEF BroadcastInv, StreamInv, GapInv, Ascends
<1> QED BY <1>2, <1>3

\* What is read goes ahead of the client, and what is neither read nor on the way is
\* passed over.
LEMMA EventsByBacklog == ASSUME EventsInv, ReadBacklog PROVE EventsInv'
<1> USE DEF EventsInv, writerVars, pollVars
<1>1. PICK rows \in {NewestOf({i \in table : i > since}, Replay), {}} :
        /\ replay' \in Sorted(rows)
        /\ last' = LastSent(rows)
        /\ settled' = settled \cup PassedOver(rows)
  BY DEF ReadBacklog
<1>2. /\ conn = "subscribed" /\ conn' = "live"
      /\ UNCHANGED <<writerVars, table, since, buffer, newest, pollVars>>
  BY DEF ReadBacklog
<1>3. nextId \in Nat \ {0} /\ since \in 0..(nextId - 1) /\ newest = since
  BY <1>2 DEF IdsInv, BroadcastInv
<1>4. \A i \in rows : i \in 1..(nextId - 1) /\ i > since
  BY DEF NewestOf, IdsInv
<1>5. last' \in 0..(nextId - 1) /\ since <= last' /\ \A i \in rows : i <= last'
  <2>1. CASE rows = {}
    BY <1>1, <1>3, <2>1 DEF LastSent
  <2>2. CASE rows # {}
    <3>1. rows \cup {since} \in SUBSET (0..(nextId - 1)) /\ nextId - 1 \in Nat
      BY <1>3, <1>4
    <3>2. last' = Biggest(rows \cup {since})
      BY <1>1, <2>2 DEF LastSent
    <3> QED BY <3>1, <3>2, BiggestIsGreatest
  <2> QED BY <2>1, <2>2
<1>6. /\ replay' \in Seq(rows) /\ Ascends(replay')
      /\ \A i \in rows : \E k \in 1..Len(replay') : replay'[k] = i
  <2>1. IsFiniteSet(rows)
    <3>1. IsFiniteSet(1..(nextId - 1)) /\ rows \subseteq 1..(nextId - 1)
      BY <1>3, <1>4, FS_Interval
    <3> QED BY <3>1, FS_Subset
  <2>2. Cardinality(rows) \in Nat
    BY <2>1, FS_CardinalityType
  <2>3. replay' \in [1..Cardinality(rows) -> rows] /\ Range(replay') = rows /\ Ascends(replay')
    BY <1>1 DEF Sorted
  <2>4. replay' \in Seq(rows) /\ Len(replay') = Cardinality(rows)
    BY <2>2, <2>3
  <2> QED BY <2>3, <2>4 DEF Range
<1>7. \A k \in 1..Len(replay') : replay'[k] \in rows
  BY <1>6
<1>8. IdsInv' /\ BroadcastInv' /\ PollInv'
  BY <1>2, <1>5 DEF IdsInv, BroadcastInv, PollInv, Ascends
<1>9. StreamInv'
  <2>1. replay' \in Seq(1..last')
    <3>1. \A i \in rows : i \in 1..last'
      BY <1>3, <1>4, <1>5
    <3>2. rows \subseteq 1..last'
      BY <3>1
    <3> QED BY <1>6, <3>2, SequenceOver
  <2>2. \A k \in 1..Len(replay') : newest < replay'[k]
    BY <1>3, <1>4, <1>7
  <2> QED BY <1>2, <1>3, <1>5, <1>6, <2>1, <2>2 DEF StreamInv
<1>10. GapInv'
  <2>1. \A i \in own : i <= newest => i \in settled'
    BY <1>1 DEF GapInv
  <2>2. ASSUME NEW i \in own \ settled' PROVE OnTheWay(i)'
    <3>1. i \in Nat /\ i # 0 /\ i > since
      BY <1>1, <1>3, <2>2 DEF GapInv, IdsInv
    <3>2. CASE i \in rows
      BY <1>6, <3>2 DEF OnTheWay
    <3>3. CASE i \notin rows
      <4>1. ~(i <= LastSent(rows)) /\ i \in Range(buffer) \cup {pending}
        BY <1>1, <2>2, <3>1, <3>3 DEF PassedOver
      <4>2. i > last'
        BY <1>1, <1>5, <3>1, <4>1
      <4>3. i = pending \/ \E k \in 1..Len(buffer) : buffer[k] = i
        BY <4>1 DEF Range, BroadcastInv
      <4> QED BY <1>2, <4>2, <4>3 DEF OnTheWay
    <3> QED BY <3>2, <3>3
  <2> QED BY <1>2, <2>1, <2>2 DEF GapInv
<1> QED BY <1>8, <1>9, <1>10

\* The head of the replay is the next own event after the newest.
LEMMA EventsByReplay == ASSUME EventsInv, SendReplay PROVE EventsInv'
<1> USE DEF EventsInv, writerVars, pollVars
<1> DEFINE id == Head(replay)
<1>1. /\ conn = "live" /\ replay # <<>> /\ replay' = Tail(replay)
      /\ UNCHANGED <<writerVars, table, conn, since, buffer, last, pollVars>>
  BY DEF SendReplay
<1>2. /\ 1..last \in SUBSET Nat /\ replay \in Seq(1..last) /\ Ascends(replay)
      /\ last \in 0..(nextId - 1) /\ nextId \in Nat \ {0} /\ newest \in Nat
  BY <1>1 DEF StreamInv, IdsInv
<1>3. /\ Tail(replay) \in Seq(1..last) /\ Ascends(Tail(replay)) /\ id \in 1..last /\ id = replay[1]
      /\ \A k \in 1..Len(Tail(replay)) : id < Tail(replay)[k]
      /\ \A k \in 1..Len(replay) :
           replay[k] = id \/ \E j \in 1..Len(Tail(replay)) : Tail(replay)[j] = replay[k]
  BY <1>1, <1>2, TailAscends
<1>4. newest < id
  BY <1>1, <1>2, <1>3 DEF StreamInv
<1>5. newest' = id /\ settled' = settled \cup ({id} \cap own)
  BY <1>4 DEF SendReplay, Show
<1> HIDE DEF id
<1>6. IdsInv' /\ BroadcastInv' /\ PollInv'
  BY <1>1, <1>2, <1>3, <1>5 DEF IdsInv, BroadcastInv, PollInv, Ascends
<1>7. StreamInv'
  BY <1>1, <1>2, <1>3, <1>5 DEF StreamInv
<1>8. GapInv'
  <2>1. ASSUME NEW i \in own \ settled' PROVE OnTheWay(i)' /\ i > id
    <3>1. OnTheWay(i) /\ i # id /\ i \in Nat
      BY <1>1, <1>5, <2>1 DEF GapInv, IdsInv
    <3>2. CASE i > last /\ (i = pending \/ \E k \in 1..Len(buffer) : buffer[k] = i)
      BY <1>1, <1>2, <1>3, <3>1, <3>2 DEF OnTheWay
    <3>3. CASE \E k \in 1..Len(replay) : replay[k] = i
      BY <1>1, <1>3, <3>1, <3>3 DEF OnTheWay
    <3> QED BY <3>1, <3>2, <3>3 DEF OnTheWay
  <2>2. \A i \in own : i <= newest' => i \in settled'
    <3> SUFFICES ASSUME NEW i \in own, i <= id, i \notin settled' PROVE FALSE
      BY <1>5
    <3>1. i > id /\ i \in Nat /\ id \in Nat
      BY <1>3, <2>1 DEF IdsInv
    <3> QED BY <3>1
  <2> QED BY <1>1, <2>1, <2>2 DEF GapInv
<1> QED BY <1>6, <1>7, <1>8

LEMMA EventsByLive == ASSUME EventsInv, SendLive PROVE EventsInv'
<1> USE DEF EventsInv, writerVars, pollVars
<1> DEFINE id == Head(buffer)
<1>1. /\ conn = "live" /\ replay = <<>> /\ buffer # <<>> /\ buffer' = Tail(buffer)
      /\ UNCHANGED <<writerVars, table, conn, since, replay, last, pollVars>>
  BY DEF SendLive
<1>2. /\ own \in SUBSET Nat /\ buffer \in Seq(own) /\ Ascends(buffer)
      /\ last \in 0..(nextId - 1) /\ nextId \in Nat \ {0} /\ newest \in 0..(nextId - 1)
      /\ own \subseteq 1..(nextId - 1)
  BY <1>1 DEF BroadcastInv, IdsInv
<1>3. /\ Tail(buffer) \in Seq(own) /\ Ascends(Tail(buffer)) /\ id \in own /\ id = buffer[1]
      /\ 1 \in 1..Len(buffer)
      /\ \A k \in 1..Len(Tail(buffer)) : id < Tail(buffer)[k]
      /\ \A k \in 1..Len(Tail(buffer)) : k + 1 \in 1..Len(buffer) /\ Tail(buffer)[k] = buffer[k + 1]
      /\ \A k \in 1..Len(buffer) :
           buffer[k] = id \/ \E j \in 1..Len(Tail(buffer)) : Tail(buffer)[j] = buffer[k]
  <2>1. Len(buffer) \in Nat /\ Len(buffer) >= 1
    BY <1>1, <1>2
  <2>2. /\ Len(Tail(buffer)) = Len(buffer) - 1
        /\ \A k \in 1..Len(Tail(buffer)) : Tail(buffer)[k] = buffer[k + 1] /\ id < Tail(buffer)[k]
    BY <1>1, <1>2, TailAscends
  <2>3. \A k \in 1..Len(Tail(buffer)) : k + 1 \in 1..Len(buffer)
    BY <2>1, <2>2
  <2>4. /\ Tail(buffer) \in Seq(own) /\ Ascends(Tail(buffer)) /\ id \in own /\ id = buffer[1]
        /\ \A k \in 1..Len(buffer) :
             buffer[k] = id \/ \E j \in 1..Len(Tail(buffer)) : Tail(buffer)[j] = buffer[k]
    BY <1>1, <1>2, TailAscends
  <2> QED BY <2>1, <2>2, <2>3, <2>4
<1>4. id \in 1..(nextId - 1)
  BY <1>2, <1>3
<1>5. \/ id > last /\ newest < id /\ newest' = id /\ settled' = settled \cup {id}
      \/ id <= last /\ UNCHANGED <<newest, settled>>
  <2>1. CASE id > last
    <3>1. newest < id
      BY <1>1, <1>2, <1>3, <1>4, <2>1 DEF StreamInv
    <3> QED BY <1>3, <2>1, <3>1 DEF SendLive, Show
  <2>2. CASE ~(id > last)
    BY <1>2, <1>4, <2>2 DEF SendLive
  <2> QED BY <2>1, <2>2
<1> HIDE DEF id
<1>6. IdsInv' /\ PollInv'
  BY <1>1, <1>2, <1>4, <1>5 DEF IdsInv, PollInv
<1>7. BroadcastInv'
  <2>1. pending # 0 => \A k \in 1..Len(Tail(buffer)) : Tail(buffer)[k] < pending
    BY <1>3 DEF BroadcastInv
  <2> QED BY <1>1, <1>3, <2>1 DEF BroadcastInv
<1>8. StreamInv'
  <2>1. CASE newest' <= last'
    BY <1>1, <2>1 DEF StreamInv
  <2>2. CASE ~(newest' <= last')
    <3>1. pending = 0 \/ newest' < pending
      <4>1. pending # 0 => id < pending
        BY <1>3 DEF BroadcastInv
      <4> QED BY <1>1, <1>5, <2>2, <4>1 DEF StreamInv
    <3>2. \A k \in 1..Len(Tail(buffer)) : newest' < Tail(buffer)[k]
      BY <1>1, <1>3, <1>5, <2>2 DEF StreamInv
    <3> QED BY <1>1, <2>2, <3>1, <3>2 DEF StreamInv
  <2> QED BY <2>1, <2>2
<1>9. GapInv'
  <2>1. ASSUME NEW i \in own \ settled' PROVE OnTheWay(i)' /\ (id > last => i > id)
    <3>1. OnTheWay(i) /\ i \in Nat /\ i > last
      BY <1>1, <1>5, <2>1 DEF GapInv, OnTheWay, IdsInv
    <3>2. i # id
      BY <1>2, <1>4, <1>5, <2>1, <3>1
    <3>3. CASE i = pending
      <4>1. i > id
        BY <1>3, <3>1, <3>3 DEF BroadcastInv, IdsInv
      <4> QED BY <1>1, <3>1, <3>3, <4>1 DEF OnTheWay
    <3>4. CASE \E k \in 1..Len(buffer) : buffer[k] = i
      <4>1. PICK j \in 1..Len(Tail(buffer)) : Tail(buffer)[j] = i
        BY <1>3, <3>2, <3>4
      <4>2. i > id
        BY <1>3, <1>4, <3>1, <4>1
      <4> QED BY <1>1, <3>1, <4>1, <4>2 DEF OnTheWay
    <3> QED BY <1>1, <3>1, <3>3, <3>4 DEF OnTheWay
  <2>2. \A i \in own : i <= newest' => i \in settled'
    <3> SUFFICES ASSUME NEW i \in own, i <= newest', i \notin settled' PROVE FALSE
      OBVIOUS
    <3>1. (id > last => i > id) /\ i \in Nat
      BY <1>2, <2>1
    <3>2. CASE id > last
      BY <1>2, <1>4, <1>5, <3>1, <3>2
    <3>3. CASE id <= last /\ UNCHANGED <<newest, settled>>
      BY <3>3 DEF GapInv
    <3> QED BY <1>5, <3>2, <3>3
  <2> QED BY <1>1, <2>1, <2>2 DEF GapInv
<1> QED BY <1>6, <1>7, <1>8, <1>9

\* A poll takes every row after the cursor up to the newest that it takes.
LEMMA EventsByPoller == ASSUME EventsInv, PollerStart \/ Poll PROVE EventsInv'
<1> USE DEF EventsInv
<1>1. UNCHANGED <<nextId, own, pending, table, conn, since, replay, buffer, last, newest, settled>>
  BY DEF PollerStart, Poll, writerVars, streamVars, clientVars
<1>2. IdsInv' /\ BroadcastInv' /\ StreamInv' /\ GapInv'
  BY <1>1 DEF IdsInv, BroadcastInv, StreamInv, GapInv, OnTheWay, Ascends
<1>3. nextId - 1 \in Nat /\ table \in SUBSET (0..(nextId - 1)) /\ IsFiniteSet(table)
  <2>1. nextId - 1 \in Nat /\ table \subseteq 1..(nextId - 1)
    BY DEF IdsInv
  <2>2. IsFiniteSet(1..(nextId - 1))
    BY <2>1, FS_Interval
  <2>3. IsFiniteSet(table)
    BY <2>1, <2>2, FS_Subset
  <2>4. \A i \in table : i \in 0..(nextId - 1)
    BY <2>1
  <2> QED BY <2>1, <2>3, <2>4
<1>4. CASE PollerStart
  <2> DEFINE cursor == IF table = {} THEN 0 ELSE Biggest(table)
  <2>1. cursor \in 0..(nextId - 1)
    <3>1. CASE table = {}
      BY <1>3, <3>1
    <3>2. CASE table # {}
      <4>1. Biggest(table) \in table
        BY <1>3, <3>2, BiggestIsGreatest
      <4> QED BY <1>3, <3>2, <4>1
    <3> QED BY <3>1, <3>2
  <2>2. pollStart' = (IF cursor > PollBack THEN cursor - PollBack ELSE 0) /\ pollSince' = pollStart'
    BY <1>4 DEF PollerStart
  <2> HIDE DEF cursor
  <2>3. pollSince' \in 0..(nextId - 1)
    BY <1>3, <2>1, <2>2, EventLogAssumption
  <2> QED BY <1>1, <1>2, <1>3, <2>2, <2>3 DEF PollInv
<1>5. CASE Poll
  <2> DEFINE T == {i \in table : i > pollSince}
             b == Biggest(PollBatch)
  <2>1. /\ polled' = polled \cup PollBatch /\ pollSince' = b /\ pollStart' = pollStart
        /\ PollBatch # {}
    BY <1>5 DEF Poll
  <2>2. PollBatch \in SUBSET (0..(nextId - 1)) /\ PollBatch = OldestOf(T, PollLimit)
    BY <1>3 DEF PollBatch, OldestOf
  <2>3. b \in PollBatch /\ b \in 0..(nextId - 1)
    BY <1>3, <2>1, <2>2, BiggestIsGreatest
  <2> HIDE DEF b
  <2>4. ASSUME NEW i \in T, i <= b PROVE i \in PollBatch
    <3> DEFINE Ti == {j \in T : j < i}
               Tb == {j \in T : j < b}
    <3>1. IsFiniteSet(Tb) /\ Ti \subseteq Tb
      <4>1. Tb \subseteq table
        OBVIOUS
      <4>2. IsFiniteSet(Tb)
        BY <1>3, <4>1, FS_Subset
      <4>3. \A j \in T : j < i => j < b
        BY <1>3, <2>3, <2>4
      <4> QED BY <4>2, <4>3
    <3>2. Cardinality(Ti) <= Cardinality(Tb) /\ Cardinality(Ti) \in Nat /\ Cardinality(Tb) \in Nat
      BY <3>1, FS_Subset, FS_CardinalityType
    <3>3. Cardinality(Tb) < PollLimit /\ PollLimit \in Nat
      BY <2>2, <2>3, EventLogAssumption DEF OldestOf
    <3> HIDE DEF Tb
    <3>4. Cardinality(Ti) < PollLimit
      BY <3>2, <3>3
    <3> QED BY <2>2, <3>4 DEF OldestOf
  <2>5. ASSUME NEW i \in table, pollStart < i, i <= b PROVE i \in polled'
    <3>1. CASE i <= pollSince
      BY <2>1, <2>5, <3>1 DEF PollInv
    <3>2. CASE i > pollSince
      BY <2>1, <2>4, <2>5, <3>2
    <3>3. i \in Nat /\ pollSince \in Nat
      BY <1>3 DEF PollInv
    <3> QED BY <3>1, <3>2, <3>3
  <2> QED BY <1>1, <1>2, <2>1, <2>3, <2>5 DEF PollInv
<1> QED BY <1>4, <1>5

LEMMA EventsStep == EventsInv /\ [EventLogNext]_eventLogVars => EventsInv'
<1>1. ASSUME EventsInv, UNCHANGED eventLogVars PROVE EventsInv'
  BY <1>1 DEF EventsInv, IdsInv, BroadcastInv, StreamInv, GapInv, PollInv, OnTheWay, Ascends,
     eventLogVars, writerVars, streamVars, clientVars, pollVars
<1> QED
  BY <1>1, EventsByOthers, EventsByWriter, EventsByBroadcast, EventsByConnection, EventsByBacklog,
     EventsByReplay, EventsByLive, EventsByPoller DEF EventLogNext

\* The frames that a stream has still to send ascend from what the client holds.
LEMMA FramesAscend == EventsInv => SentOnce
<1> SUFFICES ASSUME EventsInv, conn = "live" PROVE SentOnce
  BY DEF SentOnce
<1> DEFINE frames == <<newest>> \o replay \o buffer
           n == Len(replay)
           m == Len(buffer)
           Sent(k) == k <= 1 + n \/ frames[k] > last
<1>1. /\ replay \in Seq(1..last) /\ buffer \in Seq(own) /\ newest \in Nat /\ last \in Nat
      /\ own \subseteq Nat /\ Ascends(replay) /\ Ascends(buffer)
      /\ \A k \in 1..n : newest < replay[k]
  BY DEF EventsInv, StreamInv, BroadcastInv, IdsInv
<1>2. /\ replay \in Seq(Nat) /\ buffer \in Seq(Nat) /\ n \in Nat /\ m \in Nat
      /\ \A k \in 1..n : replay[k] <= last
  <2>1. 1..last \subseteq Nat
    BY <1>1
  <2>2. replay \in Seq(Nat) /\ n \in Nat /\ \A k \in 1..n : replay[k] \in 1..last
    BY <1>1, <2>1, SequenceOver
  <2>3. buffer \in Seq(Nat) /\ m \in Nat
    BY <1>1, SequenceOver
  <2> QED BY <1>1, <2>2, <2>3
<1>3. /\ Len(frames) = 1 + n + m /\ frames[1] = newest
      /\ \A k \in 2..(1 + n) : frames[k] = replay[k - 1]
      /\ \A k \in (2 + n)..(1 + n + m) : frames[k] = buffer[k - 1 - n]
  BY <1>1, <1>2
<1>4. \A k \in 1..m : buffer[k] > last => newest < buffer[k]
  BY <1>1, <1>2 DEF EventsInv, StreamInv
<1> HIDE DEF frames
<1>5. ASSUME NEW j \in 1..Len(frames), NEW k \in 1..Len(frames), j < k, Sent(j), Sent(k)
      PROVE  frames[j] < frames[k]
  <2>1. CASE k <= 1 + n
    <3>1. CASE j = 1
      <4>1. k - 1 \in 1..n /\ frames[k] = replay[k - 1]
        BY <1>2, <1>3, <1>5, <2>1, <3>1
      <4> QED BY <1>1, <1>3, <3>1, <4>1
    <3>2. CASE j # 1
      <4>1. j - 1 \in 1..n /\ k - 1 \in 1..n /\ j - 1 < k - 1
        BY <1>2, <1>3, <1>5, <2>1, <3>2
      <4>2. frames[j] = replay[j - 1] /\ frames[k] = replay[k - 1]
        BY <1>2, <1>3, <1>5, <2>1, <3>2
      <4> QED BY <1>1, <4>1, <4>2 DEF Ascends
    <3> QED BY <3>1, <3>2
  <2>2. CASE k > 1 + n
    <3>1. /\ k - 1 - n \in 1..m /\ frames[k] = buffer[k - 1 - n] /\ frames[k] > last
          /\ frames[k] \in Nat
      BY <1>2, <1>3, <1>5, <2>2
    <3>2. CASE j = 1
      BY <1>3, <1>4, <3>1, <3>2
    <3>3. CASE j # 1 /\ j <= 1 + n
      <4>1. j - 1 \in 1..n /\ frames[j] = replay[j - 1]
        BY <1>2, <1>3, <3>3
      <4>2. replay[j - 1] \in Nat /\ replay[j - 1] <= last /\ last \in Nat
        BY <1>1, <1>2, <4>1
      <4> QED BY <3>1, <4>1, <4>2
    <3>4. CASE j > 1 + n
      <4>1. j - 1 - n \in 1..m /\ frames[j] = buffer[j - 1 - n] /\ j - 1 - n < k - 1 - n
        BY <1>2, <1>3, <1>5, <3>4
      <4> QED BY <1>1, <3>1, <4>1 DEF Ascends
    <3> QED BY <1>2, <3>2, <3>3, <3>4
  <2> QED BY <1>2, <2>1, <2>2
<1> QED BY <1>5 DEF SentOnce, frames

\* A stream sends every event once and in order (handlers/events.rs).
THEOREM EventsAreSentOnce == EventLogSpec => []SentOnce
BY EventsInitially, EventsStep, FramesAscend, PTL DEF EventLogSpec

\* No reader of the log misses what it could have had (handlers/events.rs, the store of
\* the admin UI, stdinserver/events.rs).
THEOREM EventsLeaveNoGap == EventLogSpec => []NoSilentGap
<1>1. EventsInv => NoSilentGap
  BY DEF EventsInv, GapInv, PollInv, IdsInv, NoSilentGap
<1> QED BY <1>1, EventsInitially, EventsStep, PTL DEF EventLogSpec

\* The queues keep their lengths, and no id is beyond the last.
SizesInv ==
  /\ daemon \in BOOLEAN /\ queue \in 0..Queue /\ nextId <= MaxEvents + 1
  /\ replay \in Seq(Ids) /\ Len(replay) <= Replay /\ Len(buffer) <= Buffer
  /\ settled \subseteq own
  /\ pollStart \in 0..MaxEvents /\ polled \subseteq Ids

\* Of the newest n rows, all but the oldest are newer than it.
LEMMA NewestAreFew ==
  ASSUME NEW N \in Nat, NEW T \in SUBSET (0..N), NEW n \in Nat
  PROVE  IsFiniteSet(NewestOf(T, n)) /\ Cardinality(NewestOf(T, n)) <= n
<1> DEFINE few == NewestOf(T, n)
<1>1. IsFiniteSet(T)
  <2>1. 0 \in Int /\ N \in Int
    OBVIOUS
  <2>2. IsFiniteSet(0..N)
    BY <2>1, FS_Interval
  <2> QED BY <2>2, FS_Subset
<1>2. few \subseteq T /\ T \subseteq Nat /\ \A U \in SUBSET T : IsFiniteSet(U)
  <2>1. few \subseteq T
    BY DEF NewestOf
  <2>2. T \subseteq Nat
    OBVIOUS
  <2> QED BY <1>1, <2>1, <2>2, FS_Subset
<1>3. CASE few = {}
  BY <1>3, FS_EmptySet
<1>4. CASE few # {}
  <2>1. PICK m \in few : \A j \in few : m <= j
    BY <1>2, <1>4, LeastExists
  <2> DEFINE newer == {j \in T : j > m}
  <2>2. IsFiniteSet(newer) /\ Cardinality(newer) < n /\ m \notin newer
    <3>1. newer \in SUBSET T /\ m \in Nat
      BY <1>2, <2>1
    <3>2. Cardinality(newer) < n
      BY <2>1 DEF NewestOf
    <3> QED BY <1>2, <3>1, <3>2
  <2>3. few \subseteq newer \cup {m}
    <3>1. ASSUME NEW j \in few PROVE j \in newer \cup {m}
      <4>1. j \in T /\ j \in Nat /\ m \in Nat /\ m <= j
        BY <1>2, <2>1
      <4> QED BY <4>1
    <3> QED BY <3>1
  <2> HIDE DEF few, newer
  <2>4. IsFiniteSet(newer \cup {m}) /\ Cardinality(newer \cup {m}) = Cardinality(newer) + 1
    BY <2>2, FS_AddElement
  <2>5. IsFiniteSet(few) /\ Cardinality(few) <= Cardinality(newer \cup {m})
    BY <2>3, <2>4, FS_Subset
  <2>6. Cardinality(newer) \in Nat /\ Cardinality(few) \in Nat
    BY <2>2, <2>5, FS_CardinalityType
  <2> QED BY <2>2, <2>4, <2>5, <2>6 DEF few
<1> QED BY <1>3, <1>4

LEMMA SizesByBacklog == ASSUME EventsInv, SizesInv, ReadBacklog PROVE SizesInv'
<1>1. PICK rows \in {NewestOf({i \in table : i > since}, Replay), {}} :
        replay' \in Sorted(rows) /\ settled' = settled \cup PassedOver(rows)
  BY DEF ReadBacklog
<1>2. UNCHANGED <<daemon, queue, nextId, own, buffer, pollStart, polled>>
  BY DEF ReadBacklog, writerVars, pollVars
<1> DEFINE N == nextId - 1
           T == {i \in table : i > since}
<1>3. N \in Nat /\ N <= MaxEvents /\ MaxEvents \in Nat /\ Replay \in Nat /\ table \subseteq 1..N
  BY EventLogAssumption DEF EventsInv, IdsInv, SizesInv
<1>4. T \in SUBSET (0..N) /\ T \subseteq Ids
  <2> HIDE DEF N
  <2>1. \A i \in 1..N : i \in 0..N /\ i \in 1..MaxEvents
    BY <1>3
  <2> QED BY <1>3, <2>1 DEF Ids
<1>5. rows \subseteq Ids /\ IsFiniteSet(rows) /\ Cardinality(rows) \in Nat /\ Cardinality(rows) <= Replay
  <2> HIDE DEF N, T
  <2>1. CASE rows = {}
    BY <1>3, <2>1, FS_EmptySet
  <2>2. CASE rows = NewestOf(T, Replay)
    <3>1. IsFiniteSet(rows) /\ Cardinality(rows) <= Replay
      BY <1>3, <1>4, <2>2, NewestAreFew
    <3>2. rows \subseteq T
      BY <2>2 DEF NewestOf
    <3> QED BY <1>4, <3>1, <3>2, FS_CardinalityType
  <2> QED BY <1>1, <2>1, <2>2 DEF T
<1>6. replay' \in [1..Cardinality(rows) -> rows]
  BY <1>1 DEF Sorted
<1>7. replay' \in [1..Cardinality(rows) -> Ids]
  BY <1>5, <1>6
<1>8. replay' \in Seq(Ids) /\ Len(replay') <= Replay
  <2> DEFINE c == Cardinality(rows)
  <2> HIDE DEF c
  <2>1. c \in Nat /\ c <= Replay /\ replay' \in [1..c -> Ids]
    BY <1>5, <1>7 DEF c
  <2> QED BY <1>3, <2>1
<1>9. settled' \subseteq own'
  BY <1>1, <1>2 DEF PassedOver, SizesInv
<1> QED BY <1>2, <1>8, <1>9 DEF SizesInv

LEMMA SizesByWriter ==
  ASSUME EventsInv, SizesInv, Emit \/ WriterInsert \/ WriterInsertFails \/ ForeignInsert \/ Trim
  PROVE  SizesInv'
<1>1. UNCHANGED <<daemon, replay, buffer, settled, pollStart, polled>> /\ own \subseteq own'
  BY DEF Emit, WriterInsert, WriterInsertFails, ForeignInsert, Trim, writerVars, streamVars,
     clientVars, pollVars
<1>2. /\ queue' = queue \/ (queue > 0 /\ queue' = queue - 1) \/ (queue < Queue /\ queue' = queue + 1)
      /\ nextId' = nextId \/ (nextId <= MaxEvents /\ nextId' = nextId + 1)
  BY DEF Emit, WriterInsert, WriterInsertFails, ForeignInsert, Trim, writerVars
<1>3. queue' \in 0..Queue /\ nextId' <= MaxEvents + 1
  BY <1>2, EventLogAssumption DEF SizesInv, EventsInv, IdsInv
<1> QED BY <1>1, <1>3 DEF SizesInv

LEMMA SizesByBroadcast == ASSUME EventsInv, SizesInv, WriterBroadcast PROVE SizesInv'
<1>1. UNCHANGED <<daemon, queue, nextId, own, replay, pollStart, polled>>
  BY DEF WriterBroadcast, pollVars
<1>2. buffer \in Seq(own) /\ Len(buffer) <= Buffer /\ Len(buffer) \in Nat /\ Buffer \in Nat \ {0}
  BY EventLogAssumption DEF EventsInv, BroadcastInv, SizesInv
<1>3. CASE UNCHANGED <<buffer, settled>>
  BY <1>1, <1>3 DEF SizesInv
<1>4. CASE Len(buffer) = Buffer /\ buffer' = Append(Tail(buffer), pending)
           /\ settled' = settled \cup {Head(buffer)}
  <2>1. Len(buffer') <= Buffer
    BY <1>2, <1>4
  <2>2. Head(buffer) \in own
    BY <1>2, <1>4
  <2> QED BY <1>1, <1>4, <2>1, <2>2 DEF SizesInv
<1>5. CASE Len(buffer) # Buffer /\ buffer' = Append(buffer, pending) /\ UNCHANGED settled
  <2>1. Len(buffer') <= Buffer
    BY <1>2, <1>5
  <2> QED BY <1>1, <1>5, <2>1 DEF SizesInv
<1> QED BY <1>3, <1>4, <1>5 DEF WriterBroadcast

LEMMA SizesByStream ==
  ASSUME EventsInv, SizesInv, Subscribe \/ SendReplay \/ SendLive \/ Disconnect \/ DaemonRestarts
  PROVE  SizesInv'
<1> USE DEF writerVars, clientVars, pollVars
<1>1. UNCHANGED <<daemon, nextId, own, pollStart, polled>> /\ (queue' = queue \/ queue' = 0)
  BY DEF Subscribe, SendReplay, SendLive, Disconnect, DaemonRestarts
<1>2. queue' \in 0..Queue /\ Replay \in Nat /\ Buffer \in Nat
  BY <1>1, EventLogAssumption DEF SizesInv
<1>3. /\ Len(replay) \in Nat /\ Len(buffer) \in Nat /\ buffer \in Seq(own) /\ replay \in Seq(Ids)
      /\ Len(replay) <= Replay /\ Len(buffer) <= Buffer
  BY DEF EventsInv, BroadcastInv, SizesInv
<1>4. CASE Subscribe \/ Disconnect \/ DaemonRestarts
  <2>1. replay' = <<>> /\ buffer' = <<>> /\ settled' = settled
    BY <1>4 DEF Subscribe, Disconnect, DaemonRestarts, CloseStream
  <2> QED BY <1>1, <1>2, <2>1 DEF SizesInv
<1>5. CASE SendReplay
  <2>1. replay # <<>> /\ replay' = Tail(replay) /\ buffer' = buffer /\ settled' \subseteq settled \cup own
    BY <1>5 DEF SendReplay, Show
  <2>2. replay' \in Seq(Ids) /\ Len(replay') <= Replay
    BY <1>2, <1>3, <2>1
  <2> QED BY <1>1, <1>2, <1>3, <2>1, <2>2 DEF SizesInv
<1>6. CASE SendLive
  <2>1. buffer # <<>> /\ buffer' = Tail(buffer) /\ replay' = replay /\ settled' \subseteq settled \cup own
    BY <1>6 DEF SendLive, Show
  <2>2. Len(buffer') <= Buffer
    BY <1>2, <1>3, <2>1
  <2> QED BY <1>1, <1>2, <1>3, <2>1, <2>2 DEF SizesInv
<1> QED BY <1>4, <1>5, <1>6

LEMMA SizesByPoller == ASSUME EventsInv, SizesInv, PollerStart \/ Poll PROVE SizesInv'
<1> USE DEF writerVars, clientVars, streamVars
<1>1. UNCHANGED <<daemon, queue, nextId, own, replay, buffer, settled>>
  BY DEF PollerStart, Poll
<1>2. /\ nextId - 1 \in Nat /\ nextId - 1 <= MaxEvents /\ MaxEvents \in Nat /\ PollBack \in Nat
      /\ table \in SUBSET (0..(nextId - 1)) /\ table \subseteq Ids
  BY EventLogAssumption DEF EventsInv, IdsInv, SizesInv, Ids
<1>3. CASE PollerStart
  <2> DEFINE cursor == IF table = {} THEN 0 ELSE Biggest(table)
  <2>1. cursor \in 0..MaxEvents
    <3>1. CASE table = {}
      BY <1>2, <3>1
    <3>2. CASE table # {}
      <4>1. Biggest(table) \in table
        BY <1>2, <3>2, BiggestIsGreatest
      <4>2. \A i \in Ids : i \in 0..MaxEvents
        BY <1>2 DEF Ids
      <4>3. Biggest(table) \in 0..MaxEvents
        BY <1>2, <4>1, <4>2
      <4> QED BY <3>2, <4>3
    <3> QED BY <3>1, <3>2
  <2>2. pollStart' = IF cursor > PollBack THEN cursor - PollBack ELSE 0
    BY <1>3 DEF PollerStart
  <2>3. polled' = {}
    BY <1>3 DEF PollerStart
  <2> HIDE DEF cursor
  <2>4. pollStart' \in 0..MaxEvents
    BY <1>2, <2>1, <2>2
  <2> QED BY <1>1, <2>3, <2>4 DEF SizesInv
<1>4. CASE Poll
  <2>1. polled' = polled \cup PollBatch /\ PollBatch \subseteq table /\ pollStart' = pollStart
    BY <1>4 DEF Poll, PollBatch, OldestOf
  <2> QED BY <1>1, <1>2, <2>1 DEF SizesInv
<1> QED BY <1>3, <1>4

\* Queue, broadcast and replay keep within their limits, whatever overflows
\* (state/log_events.rs, handlers/events.rs).
THEOREM EventLogTypeCorrect == EventLogSpec => []EventLogTypeOK
<1>1. EventLogInit => EventsInv /\ SizesInv
  <2>1. EventLogInit => SizesInv
    BY EventLogAssumption DEF EventLogInit, SizesInv
  <2> QED BY <2>1, EventsInitially
<1>2. EventsInv /\ SizesInv /\ [EventLogNext]_eventLogVars => (EventsInv /\ SizesInv)'
  <2>1. ASSUME SizesInv, UNCHANGED eventLogVars PROVE SizesInv'
    BY <2>1 DEF SizesInv, eventLogVars, writerVars, streamVars, clientVars, pollVars
  <2> QED BY <2>1, EventsStep, SizesByBacklog, SizesByWriter, SizesByBroadcast, SizesByStream,
             SizesByPoller DEF EventLogNext
<1>3. EventsInv /\ SizesInv => EventLogTypeOK
  <2> SUFFICES ASSUME EventsInv, SizesInv PROVE EventLogTypeOK
    OBVIOUS
  <2>1. nextId \in 1..(MaxEvents + 1) /\ MaxEvents \in Nat
    BY EventLogAssumption DEF EventsInv, IdsInv, SizesInv
  <2>2. \A i \in 0..(nextId - 1) : i \in 0..MaxEvents
    BY <2>1
  <2>3. \A i \in 1..(nextId - 1) : i \in Ids
    BY <2>1 DEF Ids
  <2>4. table \subseteq Ids /\ own \subseteq Ids
    BY <2>3 DEF EventsInv, IdsInv
  <2>5. /\ since \in 0..MaxEvents /\ last \in 0..MaxEvents /\ newest \in 0..MaxEvents
        /\ pollSince \in 0..MaxEvents
    BY <2>2 DEF EventsInv, IdsInv, PollInv
  <2>6. /\ pending \in own \cup {0} /\ conn \in {"off", "subscribed", "live"} /\ buffer \in Seq(own)
    BY DEF EventsInv, BroadcastInv, StreamInv
  <2> QED BY <2>1, <2>4, <2>5, <2>6 DEF SizesInv, EventLogTypeOK
<1> QED BY <1>1, <1>2, <1>3, PTL DEF EventLogSpec

-----------------------------------------------------------------------------
(* The pace of the writes *)

LEMMA MaxOfTwo ==
  ASSUME NEW a \in Int, NEW b \in Int PROVE Max({a, b}) = IF a >= b THEN a ELSE b
<1>1. \E x \in {a, b} : \A y \in {a, b} : x >= y
  OBVIOUS
<1>2. Max({a, b}) \in {a, b} /\ \A y \in {a, b} : Max({a, b}) >= y
  BY <1>1 DEF Max
<1> QED BY <1>2

LEMMA MinOfTwo ==
  ASSUME NEW a \in Int, NEW b \in Int PROVE Min({a, b}) = IF a <= b THEN a ELSE b
<1>1. \E x \in {a, b} : \A y \in {a, b} : x <= y
  OBVIOUS
<1>2. Min({a, b}) \in {a, b} /\ \A y \in {a, b} : Min({a, b}) <= y
  BY <1>1 DEF Min
<1> QED BY <1>2

\* Ceil rounds up, by less than a whole.
LEMMA CeilBounds ==
  ASSUME NEW a \in Nat, NEW b \in Nat \ {0}
  PROVE  Ceil(a, b) \in Nat /\ Ceil(a, b) * b >= a /\ (Ceil(a, b) - 1) * b < a
<1> DEFINE x == a + b - 1
           q == x \div b
<1>1. x \in Nat /\ q \in Int
  OBVIOUS
<1>2. b * q <= x /\ x < b * (q + 1)
  BY <1>1
<1>3. b * (q + 1) = b * q + b /\ (q - 1) * b = b * q - b /\ q * b = b * q
  BY <1>1
<1>4. q >= 0
  BY <1>1
<1> QED BY <1>1, <1>2, <1>3, <1>4 DEF Ceil

LEMMA Distribute ==
  ASSUME NEW a \in Int, NEW b \in Int, NEW c \in Int
  PROVE  (a + b) * c = a * c + b * c
OBVIOUS

LEMMA Monotone ==
  ASSUME NEW a \in Int, NEW b \in Int, NEW c \in Nat, a <= b
  PROVE  a * c <= b * c /\ c * a <= c * b
OBVIOUS

\* The streams in some order, to sum over them.
Total == Cardinality(Streams)
Nth == CHOOSE f : f \in Bijection(1..Total, Streams)

LEMMA NthEnumerates ==
  /\ Total \in Nat /\ Nth \in [1..Total -> Streams]
  /\ \A s \in Streams : \E k \in 1..Total : Nth[k] = s
  /\ \A j, k \in 1..Total : Nth[j] = Nth[k] => j = k
<1>1. Total \in Nat /\ ExistsBijection(1..Total, Streams)
  BY BandwidthAssumption, FS_CardinalityType DEF Total
<1>2. Nth \in Bijection(1..Total, Streams)
  BY <1>1 DEF ExistsBijection, Nth
<1> QED BY <1>1, <1>2 DEF Bijection, Injection, Surjection, IsInjective

\* The sums of the first amounts; the streams, of the first n, that sleep for longer.
PartialSums(f, a) ==
  /\ f \in [0..Total -> Int] /\ f[0] = 0
  /\ \A k \in 1..Total : f[k] = f[k - 1] + a[Nth[k]]
Asleep(w, n, wakes) == {k \in 1..n : wakes[Nth[k]] > w}
Credit(cur, wakes) ==
  \A w \in Nat : cur + w * rate >= -(Chunk * Cardinality(Asleep(w, Total, wakes)))

\* A stream that sleeps has nothing written that the bucket does not know of; what was
\* sent is what the bucket, and the streams still to account, are short of; and the debt,
\* at any time from now, is that of streams which sleep until then.
TurnsInv ==
  /\ rate \in Rates /\ rate \in Nat \ {0} /\ excess \in Nat
  /\ turn \in [Streams -> {"write", "account", "sleep"}]
  /\ amount \in [Streams -> 0..Chunk] /\ wake \in [Streams -> Nat]
  /\ \A s \in Streams : turn[s] # "account" <=> amount[s] = 0
  /\ \A s \in Streams : turn[s] # "sleep" <=> wake[s] = 0
BucketInv ==
  /\ idle \in 0..FullAfter /\ level \in (-Debt)..Burst
  /\ Credit(Refill(idle), wake)
  /\ \A s \in Streams : (wake[s] - 1) * rate < Debt
SentInv == \E f : PartialSums(f, amount) /\ excess <= Burst - Refill(idle) + f[Total]
PaceInv == TurnsInv /\ BucketInv /\ SentInv

LEMMA Sizes ==
  ASSUME rate \in Nat \ {0}
  PROVE  /\ Chunk \in Nat \ {0} /\ Total \in Nat /\ Debt \in Nat /\ Debt = Total * Chunk
         /\ Burst \in Nat \ {0} /\ FullAfter \in Nat /\ FullAfter * rate >= Burst + Debt
<1>1. Chunk \in Nat \ {0} /\ Total \in Nat
  BY BandwidthAssumption, NthEnumerates
<1>2. Debt \in Nat /\ Debt = Total * Chunk
  BY <1>1 DEF Debt, Total
<1>3. Burst \in Nat \ {0}
  BY <1>1, MaxOfTwo DEF Burst
<1>4. Burst + Debt \in Nat
  BY <1>2, <1>3
<1> QED BY <1>1, <1>2, <1>3, <1>4, CeilBounds DEF FullAfter

LEMMA AsleepFinite ==
  ASSUME NEW w \in Nat, NEW n \in Nat, NEW wakes
  PROVE  /\ IsFiniteSet(Asleep(w, n, wakes)) /\ Cardinality(Asleep(w, n, wakes)) \in 0..n
<1>1. IsFiniteSet(1..n) /\ Cardinality(1..n) = n
  BY FS_Interval
<1>2. Asleep(w, n, wakes) \in SUBSET (1..n)
  BY DEF Asleep
<1>3. IsFiniteSet(Asleep(w, n, wakes)) /\ Cardinality(Asleep(w, n, wakes)) <= n
  BY <1>1, <1>2, FS_Subset
<1> QED BY <1>3, FS_CardinalityType

\* What is not yet accounted, and a chunk for each stream that sleeps, is a chunk of each
\* at most: no stream does both.
LEMMA SumBound ==
  ASSUME TurnsInv, NEW f, PartialSums(f, amount)
  PROVE  /\ f[Total] \in Nat
         /\ f[Total] + Chunk * Cardinality(Asleep(0, Total, wake)) <= Debt
<1> DEFINE Fits(k) == f[k] >= 0 /\ f[k] + Chunk * Cardinality(Asleep(0, k, wake)) <= k * Chunk
           Misfits == {k \in 0..Total : ~Fits(k)}
<1>1. Chunk \in Nat \ {0} /\ Total \in Nat /\ Debt = Total * Chunk /\ f[0] = 0
  BY Sizes DEF TurnsInv, PartialSums
<1>2. Fits(0)
  <2>1. Asleep(0, 0, wake) = {}
    BY DEF Asleep
  <2> QED BY <1>1, <2>1, FS_EmptySet
<1>3. ASSUME NEW k \in 1..Total, Fits(k - 1) PROVE Fits(k)
  <2> DEFINE s == Nth[k]
             before == Asleep(0, k - 1, wake)
             c == Cardinality(before)
  <2>1. s \in Streams /\ f[k] = f[k - 1] + amount[s] /\ amount[s] \in 0..Chunk /\ f[k - 1] \in Int
    BY <1>1, NthEnumerates DEF PartialSums, TurnsInv
  <2>2. k - 1 \in Nat /\ k \in Nat /\ IsFiniteSet(before) /\ c \in Nat /\ k \notin before
    <3>1. k - 1 \in Nat /\ k \in Nat
      BY <1>1
    <3>2. IsFiniteSet(before) /\ c \in 0..(k - 1)
      BY <3>1, AsleepFinite
    <3> HIDE DEF c
    <3> QED BY <3>1, <3>2 DEF Asleep
  <2>3. (k - 1) * Chunk = k * Chunk - Chunk
    BY <1>1, <2>2
  <2>4. f[k - 1] >= 0 /\ f[k - 1] + Chunk * c <= (k - 1) * Chunk
    BY <1>3
  <2>5. CASE wake[s] > 0
    <3>1. Asleep(0, k, wake) = before \cup {k}
      BY <2>2, <2>5 DEF Asleep
    <3>2. Cardinality(Asleep(0, k, wake)) = c + 1
      BY <2>2, <3>1, FS_AddElement
    <3>3. amount[s] = 0
      BY <2>1, <2>5 DEF TurnsInv
    <3>4. Chunk * (c + 1) = Chunk * c + Chunk
      BY <1>1, <2>2
    <3> HIDE DEF c
    <3> QED BY <1>1, <2>1, <2>2, <2>3, <2>4, <3>2, <3>3, <3>4
  <2>6. CASE ~(wake[s] > 0)
    <3>1. Asleep(0, k, wake) = before
      BY <2>2, <2>6 DEF Asleep
    <3>2. Chunk * c \in Int
      BY <1>1, <2>2
    <3> HIDE DEF c
    <3>3. Cardinality(Asleep(0, k, wake)) = c
      BY <3>1 DEF c
    <3> QED BY <1>1, <2>1, <2>2, <2>3, <2>4, <3>2, <3>3
  <2> QED BY <2>5, <2>6
<1> HIDE DEF Fits
<1>4. Misfits = {}
  <2> SUFFICES ASSUME Misfits # {} PROVE FALSE
    OBVIOUS
  <2>1. PICK k \in Misfits : \A j \in Misfits : k <= j
    <3>1. Misfits \subseteq Nat
      BY <1>1
    <3> HIDE DEF Misfits
    <3> QED BY <3>1, LeastExists
  <2>2. k # 0 /\ k \in 1..Total /\ k - 1 \in 0..Total
    BY <1>1, <1>2, <2>1
  <2>3. Fits(k - 1)
    BY <1>1, <2>1, <2>2
  <2> QED BY <1>3, <2>1, <2>2, <2>3
<1>5. Fits(Total) /\ f[Total] \in Int
  BY <1>1, <1>4 DEF PartialSums
<1> QED BY <1>1, <1>5 DEF Fits

LEMMA PaceInitially == BandwidthInit => PaceInv
<1> SUFFICES ASSUME BandwidthInit PROVE PaceInv
  OBVIOUS
<1>1. TurnsInv
  BY BandwidthAssumption DEF BandwidthInit, TurnsInv
<1>2. /\ Chunk \in Nat \ {0} /\ Total \in Nat /\ Debt \in Nat /\ Burst \in Nat \ {0}
      /\ FullAfter \in Nat /\ rate \in Nat \ {0}
  BY <1>1, Sizes DEF TurnsInv
<1>3. Refill(idle) = Burst /\ idle = 0 /\ level = Burst
  BY <1>2, MinOfTwo DEF Refill, BandwidthInit
<1>4. Credit(Refill(idle), wake)
  <2> SUFFICES ASSUME NEW w \in Nat
               PROVE  Refill(idle) + w * rate >= -(Chunk * Cardinality(Asleep(w, Total, wake)))
    BY DEF Credit
  <2>1. Cardinality(Asleep(w, Total, wake)) \in Nat
    BY <1>2, AsleepFinite
  <2>2. Chunk * Cardinality(Asleep(w, Total, wake)) >= 0 /\ w * rate >= 0
    BY <1>2, <2>1
  <2> QED BY <1>2, <1>3, <2>1, <2>2
<1>5. \A s \in Streams : (wake[s] - 1) * rate < Debt
  BY <1>2 DEF BandwidthInit
<1>6. SentInv
  <2> DEFINE f == [k \in 0..Total |-> 0]
  <2>1. PartialSums(f, amount)
    BY <1>2, NthEnumerates DEF PartialSums, BandwidthInit
  <2>2. excess <= Burst - Refill(idle) + f[Total]
    BY <1>2, <1>3 DEF BandwidthInit
  <2> QED BY <2>1, <2>2 DEF SentInv
<1> QED BY <1>1, <1>2, <1>3, <1>4, <1>5, <1>6 DEF PaceInv, BucketInv

\* Who writes more, or accounts for it, moves the sums from his place on.
LEMMA SumsMove ==
  ASSUME NEW f, PartialSums(f, amount), TurnsInv, NEW s \in Streams, NEW n \in 0..Chunk,
         amount' = [amount EXCEPT ![s] = n]
  PROVE  \E g : PartialSums(g, amount') /\ g[Total] = f[Total] + n - amount[s]
<1>1. PICK m \in 1..Total : Nth[m] = s
  BY NthEnumerates
<1> DEFINE d == n - amount[s]
           g == [k \in 0..Total |-> IF k >= m THEN f[k] + d ELSE f[k]]
<1>2. d \in Int /\ Total \in Nat /\ amount[s] \in Int
  BY BandwidthAssumption, NthEnumerates DEF TurnsInv
<1>3. g \in [0..Total -> Int] /\ g[0] = 0
  BY <1>1, <1>2 DEF PartialSums
<1>4. ASSUME NEW k \in 1..Total PROVE g[k] = g[k - 1] + amount'[Nth[k]]
  <2>1. Nth[k] \in Streams /\ amount \in [Streams -> 0..Chunk] /\ amount[Nth[k]] \in Int
    BY BandwidthAssumption, NthEnumerates DEF TurnsInv
  <2>2. f[k] = f[k - 1] + amount[Nth[k]] /\ f[k] \in Int /\ f[k - 1] \in Int /\ k - 1 \in 0..Total
    BY <1>2 DEF PartialSums
  <2>3. CASE k = m
    <3>1. amount'[Nth[k]] = n /\ g[k] = f[k] + d /\ g[k - 1] = f[k - 1]
      BY <1>1, <1>2, <2>1, <2>2, <2>3
    <3> QED BY <1>1, <1>2, <2>1, <2>2, <2>3, <3>1
  <2>4. CASE k # m
    <3>1. Nth[k] # s
      BY <1>1, <2>4, NthEnumerates
    <3>2. amount'[Nth[k]] = amount[Nth[k]]
      BY <2>1, <3>1
    <3>3. CASE k > m
      BY <1>1, <1>2, <2>1, <2>2, <3>2, <3>3
    <3>4. CASE k < m
      BY <1>1, <1>2, <2>1, <2>2, <3>2, <3>4
    <3> QED BY <1>1, <2>4, <3>3, <3>4
  <2> QED BY <2>3, <2>4
<1>5. g[Total] = f[Total] + d
  BY <1>1, <1>2
<1>6. f[Total] + d = f[Total] + n - amount[s]
  BY <1>2 DEF PartialSums
<1> HIDE DEF g
<1> QED BY <1>3, <1>4, <1>5, <1>6 DEF PartialSums

LEMMA PaceByWrite == ASSUME PaceInv, NEW s \in Streams, PacedWrite(s) PROVE PaceInv'
<1>1. PICK n \in 1..Chunk : amount' = [amount EXCEPT ![s] = n] /\ excess' = excess + n
  BY DEF PacedWrite
<1>2. /\ turn[s] = "write" /\ turn' = [turn EXCEPT ![s] = "account"]
      /\ UNCHANGED <<rate, idle, level, wake>>
  BY DEF PacedWrite
<1>3. /\ Chunk \in Nat \ {0} /\ Total \in Nat /\ rate \in Nat \ {0} /\ excess \in Nat
      /\ Burst \in Nat \ {0} /\ amount[s] = 0 /\ n \in 0..Chunk
  BY <1>1, <1>2, Sizes DEF PaceInv, TurnsInv
<1>4. TurnsInv'
  BY <1>1, <1>2, <1>3 DEF PaceInv, TurnsInv
<1>5. BucketInv'
  BY <1>2 DEF PaceInv, BucketInv, Credit, Asleep, Refill, FullAfter, Burst, Debt
<1>6. SentInv'
  <2>1. PICK f : PartialSums(f, amount) /\ excess <= Burst - Refill(idle) + f[Total]
    BY DEF PaceInv, SentInv
  <2>2. PICK g : PartialSums(g, amount') /\ g[Total] = f[Total] + n - amount[s]
    BY <1>1, <1>3, <2>1, SumsMove DEF PaceInv
  <2>3. f[Total] \in Int /\ Refill(idle) \in Int
    <3>1. f[Total] \in Int
      BY <1>3, <2>1 DEF PartialSums
    <3>2. idle \in Nat /\ level \in Int /\ idle * rate \in Int
      BY <1>3, Sizes DEF PaceInv, BucketInv
    <3> QED BY <1>3, <3>1, <3>2, MinOfTwo DEF Refill
  <2>4. excess' <= Burst - Refill(idle) + g[Total]
    BY <1>1, <1>3, <2>1, <2>2, <2>3
  <2>5. Burst' = Burst /\ Refill(idle)' = Refill(idle)
    BY <1>2 DEF Burst, Refill
  <2> QED BY <2>2, <2>4, <2>5 DEF SentInv
<1> QED BY <1>4, <1>5, <1>6 DEF PaceInv

\* Whoever takes the bucket into debt sleeps for as long as that takes to pay.
LEMMA PaceByAccount == ASSUME PaceInv, NEW s \in Streams, Account(s) PROVE PaceInv'
<1> DEFINE cur == Refill(idle)
           rest == cur - amount[s]
<1>1. /\ turn[s] = "account" /\ level' = rest /\ idle' = 0
      /\ amount' = [amount EXCEPT ![s] = 0]
      /\ wake' = [wake EXCEPT ![s] = IF rest < 0 THEN Ceil(-rest, rate) ELSE 0]
      /\ turn' = [turn EXCEPT ![s] = IF rest < 0 THEN "sleep" ELSE "write"]
      /\ UNCHANGED <<rate, excess>>
  BY DEF Account
<1>2. /\ Chunk \in Nat \ {0} /\ Total \in Nat /\ rate \in Nat \ {0} /\ excess \in Nat
      /\ Burst \in Nat \ {0} /\ Debt \in Nat /\ Debt = Total * Chunk /\ FullAfter \in Nat
      /\ wake[s] = 0 /\ amount[s] \in 0..Chunk
  BY <1>1, Sizes DEF PaceInv, TurnsInv
<1>3. level \in Int /\ idle \in Nat /\ idle * rate \in Int
  BY <1>2 DEF PaceInv, BucketInv
<1>4. cur \in Int /\ cur <= Burst
  <2>1. level + idle * rate \in Int /\ Burst \in Int
    BY <1>2, <1>3
  <2> QED BY <2>1, MinOfTwo DEF Refill
<1>5. rest \in Int /\ rest <= Burst /\ rest + amount[s] = cur
  BY <1>2, <1>4
<1> HIDE DEF cur, rest
<1>6. /\ rest < 0 => wake'[s] \in Nat \ {0} /\ wake'[s] * rate >= -rest
                     /\ (wake'[s] - 1) * rate < -rest
      /\ rest >= 0 => wake'[s] = 0
      /\ \A q \in Streams \ {s} : wake'[q] = wake[q]
  <2>1. wake \in [Streams -> Nat]
    BY DEF PaceInv, TurnsInv
  <2>2. CASE rest < 0
    <3>1. -rest \in Nat /\ -rest > 0
      BY <1>5, <2>2
    <3>2. wake'[s] = Ceil(-rest, rate)
      BY <1>1, <2>1, <2>2
    <3>3. wake'[s] \in Nat /\ wake'[s] * rate >= -rest /\ (wake'[s] - 1) * rate < -rest
      BY <1>2, <3>1, <3>2, CeilBounds
    <3>4. wake'[s] # 0
      BY <1>2, <3>1, <3>3
    <3>5. \A q \in Streams \ {s} : wake'[q] = wake[q]
      BY <1>1, <2>1
    <3>6. wake'[s] \in Nat \ {0}
      BY <3>3, <3>4
    <3>7. ~(rest >= 0)
      BY <1>5, <2>2
    <3> QED BY <3>3, <3>5, <3>6, <3>7
  <2>3. CASE rest >= 0
    BY <1>1, <1>5, <2>1, <2>3
  <2> QED BY <1>5, <2>2, <2>3
<1>7. TurnsInv'
  <2>1. CASE rest < 0
    BY <1>1, <1>2, <1>6, <2>1 DEF PaceInv, TurnsInv
  <2>2. CASE rest >= 0
    BY <1>1, <1>2, <1>5, <1>6, <2>2 DEF PaceInv, TurnsInv
  <2> QED BY <1>5, <2>1, <2>2
<1>8. Refill(idle)' = rest /\ Burst' = Burst /\ Debt' = Debt /\ FullAfter' = FullAfter
  <2>1. Burst' = Burst /\ Debt' = Debt /\ FullAfter' = FullAfter
    BY <1>1 DEF Burst, Debt, FullAfter
  <2>2. Refill(idle)' = Min({rest + 0 * rate, Burst})
    BY <1>1, <2>1 DEF Refill
  <2>3. rest + 0 * rate = rest
    BY <1>2, <1>5
  <2>4. Min({rest, Burst}) = rest
    BY <1>2, <1>5, MinOfTwo
  <2> QED BY <2>1, <2>2, <2>3, <2>4
<1>9. \A w \in Nat : rest + w * rate >= -(Chunk * Cardinality(Asleep(w, Total, wake')))
  <2> SUFFICES ASSUME NEW w \in Nat
               PROVE  rest + w * rate >= -(Chunk * Cardinality(Asleep(w, Total, wake')))
    OBVIOUS
  <2> DEFINE c == Cardinality(Asleep(w, Total, wake))
             d == Cardinality(Asleep(w, Total, wake'))
  <2>1. c \in Nat /\ d \in Nat /\ IsFiniteSet(Asleep(w, Total, wake))
    BY <1>2, AsleepFinite
  <2>2. cur + w * rate >= -(Chunk * c) /\ w * rate \in Nat
    BY <1>2 DEF PaceInv, BucketInv, Credit, cur
  <2>3. CASE rest < 0 /\ w < wake'[s]
    <3>1. PICK m \in 1..Total : Nth[m] = s
      BY NthEnumerates
    <3>2. /\ Asleep(w, Total, wake') = Asleep(w, Total, wake) \cup {m}
          /\ m \notin Asleep(w, Total, wake)
      <4>1. \A k \in 1..Total : k # m => Nth[k] \in Streams \ {s}
        BY <3>1, NthEnumerates
      <4>2. \A k \in 1..Total : k # m => wake'[Nth[k]] = wake[Nth[k]]
        BY <1>6, <4>1
      <4>3. wake'[Nth[m]] > w /\ ~(wake[Nth[m]] > w)
        BY <1>2, <2>3, <3>1
      <4> QED BY <4>2, <4>3 DEF Asleep
    <3>3. d = c + 1
      BY <2>1, <3>2, FS_AddElement
    <3> HIDE DEF c, d
    <3>4. Chunk * (c + 1) = Chunk * c + Chunk /\ Chunk * c \in Int
      BY <1>2, <2>1
    <3> QED BY <1>2, <1>4, <1>5, <2>1, <2>2, <3>3, <3>4 DEF d
  <2>4. CASE ~(rest < 0 /\ w < wake'[s])
    <3>1. rest + w * rate >= 0
      <4>1. CASE rest >= 0
        BY <1>5, <2>2, <4>1
      <4>2. CASE rest < 0
        <5>1. wake'[s] <= w /\ wake'[s] \in Nat
          BY <1>6, <2>4, <4>2
        <5>2. wake'[s] * rate <= w * rate
          BY <1>2, <5>1, Monotone
        <5>3. wake'[s] * rate \in Int
          BY <1>2, <5>1
        <5> QED BY <1>5, <1>6, <2>2, <4>2, <5>2, <5>3
      <4> QED BY <1>5, <4>1, <4>2
    <3>2. Chunk * d >= 0 /\ Chunk * d \in Int
      BY <1>2, <2>1
    <3> HIDE DEF d
    <3> QED BY <1>5, <2>2, <3>1, <3>2 DEF d
  <2> QED BY <2>3, <2>4
<1>10. rest >= -Debt
  <2> DEFINE d == Cardinality(Asleep(0, Total, wake'))
  <2>1. d \in 0..Total
    BY <1>2, AsleepFinite
  <2>2. rest + 0 * rate >= -(Chunk * d)
    BY <1>9
  <2> HIDE DEF d
  <2>3. Chunk * d <= Chunk * Total /\ Chunk * Total = Debt /\ Chunk * d \in Int /\ 0 * rate = 0
    BY <1>2, <2>1, Monotone
  <2> QED BY <1>2, <1>5, <2>2, <2>3
<1>11. BucketInv'
  <2>1. Credit(Refill(idle), wake)'
    BY <1>1, <1>8, <1>9 DEF Credit, Asleep
  <2>2. ASSUME NEW q \in Streams PROVE (wake'[q] - 1) * rate < Debt
    <3>1. CASE q # s
      BY <1>6, <3>1 DEF PaceInv, BucketInv
    <3>2. CASE q = s /\ rest < 0
      <4>1. (wake'[s] - 1) * rate \in Int
        BY <1>2, <1>6, <3>2
      <4> QED BY <1>2, <1>5, <1>6, <1>10, <3>2, <4>1
    <3>3. CASE q = s /\ rest >= 0
      <4>1. (wake'[q] - 1) * rate = -rate
        BY <1>2, <1>6, <3>3
      <4> QED BY <1>2, <4>1
    <3> QED BY <1>5, <3>1, <3>2, <3>3
  <2>3. level' \in (-Debt)..Burst /\ idle' \in 0..FullAfter
    BY <1>1, <1>2, <1>5, <1>10
  <2> QED BY <1>1, <1>8, <2>1, <2>2, <2>3 DEF BucketInv
<1>12. SentInv'
  <2>1. PICK f : PartialSums(f, amount) /\ excess <= Burst - cur + f[Total]
    BY DEF PaceInv, SentInv, cur
  <2>2. PICK g : PartialSums(g, amount') /\ g[Total] = f[Total] + 0 - amount[s]
    <3>1. 0 \in 0..Chunk /\ TurnsInv /\ PartialSums(f, amount)
      BY <1>2, <2>1 DEF PaceInv
    <3>2. amount' = [amount EXCEPT ![s] = 0]
      BY <1>1
    <3> QED BY <3>1, <3>2, SumsMove
  <2>3. f[Total] \in Int
    BY <1>2, <2>1 DEF PartialSums
  <2>4. excess' <= Burst - rest + g[Total]
    BY <1>1, <1>2, <1>4, <1>5, <2>1, <2>2, <2>3
  <2> QED BY <1>8, <2>2, <2>4 DEF SentInv
<1> QED BY <1>7, <1>11, <1>12 DEF PaceInv

\* A tick pays back what the rate allows, up to the burst.
LEMMA PaceByTime == ASSUME PaceInv, TimePasses PROVE PaceInv'
<1> DEFINE cur == Refill(idle)
           next == Refill(idle')
<1>1. /\ idle' = Min({idle + 1, FullAfter})
      /\ wake' = [s \in Streams |-> Max({wake[s] - 1, 0})]
      /\ turn' = [s \in Streams |-> IF wake[s] = 1 THEN "write" ELSE turn[s]]
      /\ excess' = Max({excess - rate, 0})
      /\ UNCHANGED <<rate, level, amount>>
  BY DEF TimePasses
<1>2. /\ Chunk \in Nat \ {0} /\ Total \in Nat /\ rate \in Nat \ {0} /\ excess \in Nat
      /\ Burst \in Nat \ {0} /\ Debt \in Nat /\ FullAfter \in Nat
      /\ FullAfter * rate >= Burst + Debt
  BY Sizes DEF PaceInv, TurnsInv
<1>3. level \in (-Debt)..Burst /\ idle \in 0..FullAfter /\ idle * rate \in Nat
  BY <1>2 DEF PaceInv, BucketInv
<1>4. idle' = IF idle + 1 <= FullAfter THEN idle + 1 ELSE FullAfter
  BY <1>1, <1>2, <1>3, MinOfTwo
<1>5. /\ cur \in Int /\ cur <= Burst
      /\ cur = IF level + idle * rate <= Burst THEN level + idle * rate ELSE Burst
  BY <1>2, <1>3, MinOfTwo DEF Refill
<1>6. next = IF level + idle' * rate <= Burst THEN level + idle' * rate ELSE Burst
  <2>1. idle' \in Nat /\ idle' * rate \in Int
    BY <1>2, <1>3, <1>4
  <2>2. level + idle' * rate \in Int /\ Burst \in Int
    BY <1>2, <1>3, <2>1
  <2>3. next = Min({level + idle' * rate, Burst})
    BY DEF Refill
  <2> HIDE DEF next
  <2> QED BY <2>2, <2>3, MinOfTwo
<1> HIDE DEF cur, next
<1>7. next = IF cur + rate <= Burst THEN cur + rate ELSE Burst
  <2>1. CASE idle + 1 <= FullAfter
    <3>1. idle' * rate = idle * rate + rate
      BY <1>2, <1>3, <1>4, <2>1, Distribute
    <3> QED BY <1>2, <1>3, <1>5, <1>6, <3>1
  <2>2. CASE ~(idle + 1 <= FullAfter)
    <3>1. idle = FullAfter /\ idle' = FullAfter
      BY <1>2, <1>3, <1>4, <2>2
    <3>2. level + FullAfter * rate >= Burst /\ FullAfter * rate \in Int
      BY <1>2, <1>3
    <3>3. cur = Burst /\ next = Burst
      BY <1>2, <1>3, <1>5, <1>6, <3>1, <3>2
    <3> QED BY <1>2, <3>3
  <2> QED BY <2>1, <2>2
<1>8. \A s \in Streams : wake[s] \in Nat /\ wake'[s] = IF wake[s] > 0 THEN wake[s] - 1 ELSE 0
  <2> TAKE s \in Streams
  <2>1. wake[s] \in Nat
    BY DEF PaceInv, TurnsInv
  <2>2. wake'[s] = Max({wake[s] - 1, 0})
    BY <1>1
  <2>3. Max({wake[s] - 1, 0}) = IF wake[s] - 1 >= 0 THEN wake[s] - 1 ELSE 0
    BY <2>1, MaxOfTwo
  <2> QED BY <2>1, <2>2, <2>3
<1>9. excess' = IF excess >= rate THEN excess - rate ELSE 0
  BY <1>1, <1>2, MaxOfTwo
<1>10. Refill(idle)' = next /\ Burst' = Burst /\ Debt' = Debt /\ FullAfter' = FullAfter
  BY <1>1 DEF Refill, Burst, Debt, FullAfter, next
<1>11. TurnsInv'
  <2>1. wake' \in [Streams -> Nat]
    BY <1>1, <1>8
  <2>2. \A s \in Streams : turn'[s] # "sleep" <=> wake'[s] = 0
    BY <1>1, <1>8 DEF PaceInv, TurnsInv
  <2>3. \A s \in Streams : turn'[s] # "account" <=> amount'[s] = 0
    BY <1>1, <1>8 DEF PaceInv, TurnsInv
  <2>4. excess' \in Nat
    BY <1>2, <1>9
  <2>5. turn' \in [Streams -> {"write", "account", "sleep"}]
    BY <1>1 DEF PaceInv, TurnsInv
  <2> QED BY <1>1, <2>1, <2>2, <2>3, <2>4, <2>5 DEF PaceInv, TurnsInv
<1>12. BucketInv'
  <2>1. ASSUME NEW w \in Nat
        PROVE  next + w * rate >= -(Chunk * Cardinality(Asleep(w, Total, wake')))
    <3> DEFINE c == Cardinality(Asleep(w + 1, Total, wake))
    <3>1. Asleep(w, Total, wake') = Asleep(w + 1, Total, wake)
      <4>1. \A k \in 1..Total : wake'[Nth[k]] > w <=> wake[Nth[k]] > w + 1
        <5> TAKE k \in 1..Total
        <5>1. Nth[k] \in Streams
          BY NthEnumerates
        <5> QED BY <1>8, <5>1
      <4> QED BY <4>1 DEF Asleep
    <3>2. c \in Nat /\ Chunk * c \in Nat
      BY <1>2, AsleepFinite
    <3>3. cur + (w + 1) * rate >= -(Chunk * c)
      BY DEF PaceInv, BucketInv, Credit, cur
    <3> HIDE DEF c
    <3>4. (w + 1) * rate = w * rate + rate /\ w * rate \in Nat
      BY <1>2, Distribute
    <3>5. next + w * rate >= -(Chunk * c)
      BY <1>2, <1>5, <1>7, <3>2, <3>3, <3>4
    <3> QED BY <3>1, <3>5 DEF c
  <2>2. Credit(Refill(idle), wake)'
    BY <1>1, <1>10, <2>1 DEF Credit, Asleep
  <2>3. ASSUME NEW s \in Streams PROVE (wake'[s] - 1) * rate < Debt
    <3>1. CASE wake[s] = 0
      BY <1>8, <3>1 DEF PaceInv, BucketInv
    <3>2. CASE wake[s] > 0
      <4>1. wake'[s] - 1 <= wake[s] - 1 /\ wake'[s] - 1 \in Int /\ wake[s] - 1 \in Int
        BY <1>8, <3>2
      <4>2. (wake'[s] - 1) * rate <= (wake[s] - 1) * rate
        BY <1>2, <4>1, Monotone
      <4>3. (wake[s] - 1) * rate < Debt
        BY DEF PaceInv, BucketInv
      <4>4. (wake'[s] - 1) * rate \in Int /\ (wake[s] - 1) * rate \in Int
        BY <1>2, <4>1
      <4> QED BY <1>2, <4>2, <4>3, <4>4
    <3> QED BY <1>8, <3>1, <3>2
  <2>4. idle' \in 0..FullAfter
    BY <1>2, <1>3, <1>4
  <2> QED BY <1>1, <1>3, <1>10, <2>2, <2>3, <2>4 DEF BucketInv
<1>13. SentInv'
  <2>1. PICK f : PartialSums(f, amount) /\ excess <= Burst - cur + f[Total]
    BY DEF PaceInv, SentInv, cur
  <2>2. f[Total] \in Nat
    BY <2>1, SumBound DEF PaceInv
  <2>3. excess' <= Burst - next + f[Total]
    BY <1>2, <1>5, <1>7, <1>9, <2>1, <2>2
  <2> QED BY <1>1, <1>10, <2>1, <2>3 DEF SentInv
<1> QED BY <1>11, <1>12, <1>13 DEF PaceInv

LEMMA PaceStep == PaceInv /\ [BandwidthNext]_bandwidthVars => PaceInv'
<1>1. ASSUME PaceInv, UNCHANGED bandwidthVars PROVE PaceInv'
  BY <1>1 DEF PaceInv, TurnsInv, BucketInv, SentInv, Credit, Asleep, Refill, FullAfter, Burst,
     Debt, bandwidthVars
<1> QED BY <1>1, PaceByWrite, PaceByAccount, PaceByTime DEF BandwidthNext

\* However the streams interleave, they send no more together than the rate, the burst
\* and a chunk each, and none sleeps for longer than a chunk of each takes (limiter.rs).
THEOREM StreamsKeepTheRate == BandwidthSpec => []RateHolds
<1>1. PaceInv => RateHolds
  <2> SUFFICES ASSUME PaceInv PROVE excess <= Burst + Debt
    BY DEF RateHolds, PaceInv, BucketInv
  <2> DEFINE c == Cardinality(Asleep(0, Total, wake))
             cur == Refill(idle)
  <2>1. PICK f : PartialSums(f, amount) /\ excess <= Burst - cur + f[Total]
    BY DEF PaceInv, SentInv
  <2>2. f[Total] \in Nat /\ f[Total] + Chunk * c <= Debt
    BY <2>1, SumBound DEF PaceInv
  <2>3. cur + 0 * rate >= -(Chunk * c)
    BY DEF PaceInv, BucketInv, Credit
  <2>4. /\ Burst \in Nat /\ Debt \in Nat /\ Chunk \in Nat /\ Total \in Nat /\ rate \in Nat
        /\ excess \in Nat /\ level \in Int /\ idle \in Nat
    BY Sizes DEF PaceInv, TurnsInv, BucketInv
  <2>5. cur \in Int
    BY <2>4, MinOfTwo DEF Refill
  <2>6. c \in Nat /\ Chunk * c \in Nat /\ 0 * rate = 0
    BY <2>4, AsleepFinite
  <2> HIDE DEF c, cur
  <2> QED BY <2>1, <2>2, <2>3, <2>4, <2>5, <2>6
<1> QED BY <1>1, PaceInitially, PaceStep, PTL DEF BandwidthSpec

\* The bucket is never deeper in debt than a chunk of each stream, and no timer is set for
\* longer than that takes to pay, at any rate (limiter.rs).
THEOREM BandwidthTypeCorrect == BandwidthSpec => []BandwidthTypeOK
<1>1. PaceInv => BandwidthTypeOK
  <2> SUFFICES ASSUME PaceInv PROVE BandwidthTypeOK
    OBVIOUS
  <2>1. /\ rate \in Nat \ {0} /\ Debt \in Nat /\ Ceil(Debt, rate) \in Nat
        /\ Ceil(Debt, rate) * rate >= Debt
    BY Sizes, CeilBounds DEF PaceInv, TurnsInv
  <2>2. ASSUME NEW s \in Streams PROVE wake[s] \in 0..Ceil(Debt, rate)
    <3> DEFINE c == Ceil(Debt, rate)
    <3>1. wake[s] \in Nat /\ (wake[s] - 1) * rate < Debt
      BY DEF PaceInv, TurnsInv, BucketInv
    <3>2. c \in Nat /\ c * rate >= Debt
      BY <2>1
    <3> HIDE DEF c
    <3>3. CASE c <= wake[s] - 1
      <4>1. c * rate <= (wake[s] - 1) * rate
        BY <2>1, <3>1, <3>2, <3>3, Monotone
      <4>2. c * rate \in Int /\ (wake[s] - 1) * rate \in Int
        BY <2>1, <3>1, <3>2
      <4> QED BY <2>1, <3>1, <3>2, <4>1, <4>2
    <3>4. CASE wake[s] <= c
      BY <3>1, <3>2, <3>4 DEF c
    <3> QED BY <3>1, <3>2, <3>3, <3>4
  <2>3. ASSUME NEW s \in Streams
        PROVE  /\ turn[s] \in {"write", "account", "sleep"} /\ amount[s] \in 0..Chunk
               /\ amount[s] = 0 <=> turn[s] # "account"
               /\ wake[s] = 0 <=> turn[s] # "sleep"
    BY DEF PaceInv, TurnsInv
  <2>4. \A s \in Streams : amount[s] > 0 <=> turn[s] = "account"
    BY <2>3, BandwidthAssumption
  <2>5. \A s \in Streams : wake[s] > 0 <=> turn[s] = "sleep"
    BY <2>1, <2>2, <2>3
  <2>6. \A s \in Streams : (amount[s] > 0) = (turn[s] = "account")
    BY <2>4
  <2>7. \A s \in Streams : (wake[s] > 0) = (turn[s] = "sleep")
    BY <2>5
  <2> QED BY <2>2, <2>3, <2>6, <2>7 DEF PaceInv, TurnsInv, BucketInv, BandwidthTypeOK
<1> QED BY <1>1, PaceInitially, PaceStep, PTL DEF BandwidthSpec

=============================================================================
