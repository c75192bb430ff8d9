------------------------------ MODULE Transfer ------------------------------
(***************************************************************************)
(* One stream at a time between a sender and a receiver: execute_one_plan  *)
(* of the push job (jobs/push/step.rs) reads chunks from zfs send, writes  *)
(* them to a receive channel (peer/mod.rs) and waits for the frame with    *)
(* the receiver's verdict (crates/transport/src/protocol.rs); the          *)
(* dispatcher at the other end (stdinserver/recv.rs) copies them to zfs    *)
(* recv.  Either command may fail at any point, the operator may cancel,   *)
(* and the link may fall silent before anybody notices.                    *)
(*                                                                         *)
(* A write is one chunk, of which the pipes in between hold a few.  What a *)
(* stream does to snapshots is in Replication, the pause that the rate     *)
(* limit asks for after each chunk in Bandwidth.                           *)
(***************************************************************************)
EXTENDS Naturals

CONSTANTS
  Chunks,    \* the length of a stream
  Window,    \* chunks that fit between the two ends
  MaxTries,  \* transfers over the whole behaviour (a bound)
  MaxUpsets  \* commands that fail, processes that die, links that break (a bound)

ASSUME TransferAssumption == {Chunks, Window, MaxTries, MaxUpsets} \subseteq Nat

VARIABLES
  feed,     \* the sender: idle, read, write, throttle, reap (zfs send), answer;
            \* reason (why the copy broke), cancelling
  result,   \* of the session's last transfer: none, ok, refused, failed, cancelled
  cancel,   \* the cycle's token has fired
  send,     \* zfs send: none, running, ok, failed, killed
  unsent,   \* chunks it still has to produce
  link,     \* the session: up, silent (dead, unnoticed), down
  eof,      \* the channel's writer is closed
  wire,     \* chunks in flight
  recv,     \* the channel's dispatcher: none, start, copy, answer, exited
  lock,     \* who holds the target's lock: none, this one, or an old one
  got,      \* chunks that zfs recv has taken
  refused,  \* zfs recv has given up before the end of the stream
  verdict,  \* how the dispatcher's receive ended: none, ok, error
  frame,    \* the response frame: none, ok, error, or lost
  tries,
  upsets

sender == <<feed, result, cancel, send, unsent>>
receiver == <<recv, lock, got, refused, verdict, frame>>
bounds == <<tries, upsets>>
transferVars == <<sender, link, eof, wire, receiver, bounds>>

Running == recv \in {"start", "copy", "answer"}

TransferTypeOK ==
  /\ feed \in {"idle", "read", "write", "throttle", "reap", "answer", "reason", "cancelling"}
  /\ result \in {"none", "ok", "refused", "failed", "cancelled"} /\ cancel \in BOOLEAN
  /\ send \in {"none", "running", "ok", "failed", "killed"}
  /\ link \in {"up", "silent", "down"} /\ eof \in BOOLEAN
  /\ wire \in 0..Window /\ unsent + wire + got \in 0..Chunks
  /\ recv \in {"none", "start", "copy", "answer", "exited"}
  /\ lock \in {"none", "this", "old"} /\ (lock = "this") = (recv = "copy")
  /\ verdict \in {"none", "ok", "error"} /\ (verdict = "none") = (recv \notin {"answer", "exited"})
  /\ frame \in {"none", "ok", "error", "lost"} /\ (frame # "none") = (recv = "exited")
  /\ refused \in BOOLEAN /\ tries \in 0..MaxTries /\ upsets \in 0..MaxUpsets

TransferInit ==
  /\ feed = "idle" /\ result = "none" /\ cancel = FALSE /\ send = "none" /\ unsent = 0
  /\ link = "up" /\ eof = FALSE /\ wire = 0
  /\ recv = "none" /\ lock = "none" /\ got = 0 /\ refused = FALSE
  /\ verdict = "none" /\ frame = "none"
  /\ tries = 0 /\ upsets = 0

Upset == upsets < MaxUpsets /\ upsets' = upsets + 1

-----------------------------------------------------------------------------
(* The sender *)

\* The transfer returns; the next one runs under another token.  The channel goes with
\* it: a dispatcher that still runs finds its input closed.
Return(r) == feed' = "idle" /\ result' = r /\ cancel' = FALSE

\* A dispatcher that nobody waits for keeps what it has locked until it ends.
Disown == lock' = IF lock = "none" /\ recv # "start" THEN "none" ELSE "old"

\* open_recv with its header, and the spawn of zfs send.
OpenStream ==
  /\ feed = "idle" /\ tries < MaxTries /\ tries' = tries + 1
  /\ wire' = 0 /\ got' = 0 /\ refused' = FALSE /\ verdict' = "none" /\ frame' = "none"
  /\ \/ /\ link = "up" /\ Disown
        /\ feed' = "read" /\ result' = "none" /\ send' = "running" /\ unsent' = Chunks
        /\ recv' = "start" /\ eof' = FALSE
        /\ UNCHANGED <<cancel, upsets>>
     \/ /\ link = "up" /\ Disown
        /\ Return("failed") /\ send' = "none" /\ unsent' = 0
        /\ recv' = "start" /\ eof' = TRUE
        /\ Upset
     \/ /\ link = "down" /\ Disown
        /\ Return("failed") /\ send' = "none" /\ unsent' = 0
        /\ recv' = "none" /\ eof' = TRUE
        /\ UNCHANGED upsets
  /\ UNCHANGED link

\* Mutation: the handle outlives shutdown(), so that no end of file reaches the other end.
CloseKeepsHandle == UNCHANGED eof
\* close_stream_writer: shut down and dropped.
CloseStreamWriter == eof' = TRUE

\* The copy loop ends early: the writer is closed, zfs send killed.
AbortTransfer(next) ==
  /\ feed' = next /\ CloseStreamWriter /\ send' = "killed" /\ unsent' = 0
  /\ UNCHANGED <<result, cancel, link, wire, receiver, bounds>>

\* Mutation: a cancelled transfer leaves at once.
CancelReturns ==
  /\ feed \in {"read", "write"} /\ cancel
  /\ Return("cancelled") /\ CloseStreamWriter /\ send' = "killed" /\ unsent' = 0
  /\ UNCHANGED <<link, wire, receiver, bounds>>
\* io_with_stall polls the token first.
Cancelled == feed \in {"read", "write"} /\ cancel /\ AbortTransfer("cancelling")

Read ==
  /\ feed = "read" /\ ~cancel /\ send = "running" /\ unsent > 0
  /\ feed' = "write" /\ unsent' = unsent - 1
  /\ UNCHANGED <<result, cancel, send, link, eof, wire, receiver, bounds>>

\* zfs send ends, well or not: its output is at an end either way.
SendEnds ==
  /\ send = "running"
  /\ \/ unsent = 0 /\ send' = "ok" /\ UNCHANGED upsets
     \/ Upset /\ send' = "failed"
  /\ unsent' = 0
  /\ UNCHANGED <<feed, result, cancel, link, eof, wire, receiver, tries>>

ReadEof ==
  /\ feed = "read" /\ ~cancel /\ send \in {"ok", "failed"}
  /\ feed' = "reap" /\ CloseStreamWriter
  /\ UNCHANGED <<result, cancel, send, unsent, link, wire, receiver, bounds>>

\* The channel is closed to the sender once the dispatcher has exited or ssh gave up; a
\* write may still go into the pipes before the sender hears of it.  Over a link that has
\* fallen silent he hears of nothing.
Broken == (link = "up" /\ recv = "exited") \/ link = "down"

WriteChunk ==
  /\ feed = "write" /\ ~cancel
  /\ \/ /\ link # "down" /\ wire < Window
        /\ feed' = "throttle" /\ wire' = wire + 1
        /\ UNCHANGED <<result, cancel, send, unsent, link, eof, receiver, bounds>>
     \/ Broken /\ AbortTransfer("reason")

\* The limiter's sleep looks at no token.
Throttle ==
  /\ feed = "throttle" /\ feed' = "read"
  /\ UNCHANGED <<result, cancel, send, unsent, link, eof, wire, receiver, bounds>>

\* child.finish: a stream that zfs send did not complete is a failure, whatever the
\* receiver makes of it; nobody waits for its frame.
Reap ==
  /\ feed = "reap"
  /\ IF send = "ok" THEN feed' = "answer" /\ UNCHANGED <<result, cancel>> ELSE Return("failed")
  /\ UNCHANGED <<send, unsent, link, eof, wire, receiver, bounds>>

\* RecvChannel::finish: the frame, and the end of the process; "lost" where it fails.
Finished == Broken
Answer == IF link = "up" THEN frame ELSE "lost"

\* execute_one_plan: only Response::Ok is a success.
VerdictOf ==
  IF Answer = "ok" THEN "ok" ELSE IF Answer = "error" THEN "refused" ELSE "failed"

ReadResponse ==
  /\ feed = "answer" /\ Finished /\ Return(VerdictOf)
  /\ UNCHANGED <<send, unsent, link, eof, wire, receiver, bounds>>

\* The reason of a broken copy, for at most RECV_REASON_TIMEOUT.
ReadReason ==
  /\ feed = "reason"
  /\ \/ Finished /\ Answer = "error" /\ Return("refused") /\ UNCHANGED upsets
     \/ Finished /\ Answer # "error" /\ Return("failed") /\ UNCHANGED upsets
     \/ ~Finished /\ Upset /\ Return("failed")
  /\ UNCHANGED <<send, unsent, link, eof, wire, receiver, tries>>

\* A cancelled transfer waits, without a limit, until the dispatcher has exited.
CancelDone ==
  /\ feed = "cancelling" /\ Finished /\ Return("cancelled")
  /\ UNCHANGED <<send, unsent, link, eof, wire, receiver, bounds>>

\* The operator, or the shutdown, cancels the cycle.
CancelFires ==
  /\ feed # "idle" /\ ~cancel /\ cancel' = TRUE
  /\ UNCHANGED <<feed, result, send, unsent, link, eof, wire, receiver, bounds>>

-----------------------------------------------------------------------------
(* The receiver *)

\* The end of the channel reaches the dispatcher: the sender closed it, or left, or the
\* receiver's sshd has noticed the dead connection.
InputEnds == link # "up" \/ (wire = 0 /\ (eof \/ feed = "idle"))

RecvExits(v) == recv' = "answer" /\ verdict' = v /\ lock' = IF lock = "this" THEN "none" ELSE lock

\* run, up to zfs recv: a header that cannot be read or is refused, or the lock.
Admit ==
  /\ recv = "start"
  /\ \/ lock = "none" /\ recv' = "copy" /\ lock' = "this" /\ UNCHANGED <<verdict, upsets>>
     \/ lock = "old" /\ RecvExits("error") /\ UNCHANGED upsets
     \/ Upset /\ RecvExits("error")
  /\ UNCHANGED <<sender, link, eof, wire, got, refused, frame, tries>>

Receive ==
  /\ recv = "copy" /\ link = "up" /\ wire > 0 /\ ~refused
  /\ wire' = wire - 1 /\ got' = got + 1
  /\ UNCHANGED <<sender, link, eof, recv, lock, refused, verdict, frame, bounds>>

\* zfs recv exits on a stream that it does not want.
RecvRefuses ==
  /\ recv = "copy" /\ ~refused /\ Upset /\ refused' = TRUE
  /\ UNCHANGED <<sender, link, eof, wire, recv, lock, got, verdict, frame, tries>>

\* drive: the copy ends with its input, or breaks on the pipe to a zfs recv that has
\* exited; zfs recv accepts a stream that is complete.
CopyEnds ==
  /\ recv = "copy"
  /\ \/ refused /\ (wire > 0 \/ InputEnds) /\ RecvExits("error")
     \/ ~refused /\ InputEnds /\ RecvExits(IF got = Chunks THEN "ok" ELSE "error")
  /\ UNCHANGED <<sender, link, eof, wire, got, refused, frame, bounds>>

\* write_response, and the end of the process.
Respond ==
  /\ recv = "answer" /\ recv' = "exited"
  /\ frame' = IF link = "up" THEN verdict ELSE "lost"
  /\ UNCHANGED <<sender, link, eof, wire, lock, got, refused, verdict, bounds>>

\* The dispatcher is killed.
RecvDies ==
  /\ Running /\ Upset
  /\ recv' = "exited" /\ frame' = "lost" /\ verdict' = IF verdict = "none" THEN "error" ELSE verdict
  /\ lock' = IF lock = "this" THEN "none" ELSE lock
  /\ UNCHANGED <<sender, link, eof, wire, got, refused, tries>>

OldExits ==
  /\ lock = "old" /\ lock' = "none"
  /\ UNCHANGED <<sender, link, eof, wire, recv, got, refused, verdict, frame, bounds>>

-----------------------------------------------------------------------------
(* The link *)

LinkBreaks ==
  /\ link = "up" /\ Upset /\ link' = "silent"
  /\ UNCHANGED <<sender, eof, wire, receiver, tries>>

\* ServerAliveInterval: ssh ends a session that does not answer.
KeepAlive ==
  /\ link = "silent" /\ link' = "down"
  /\ UNCHANGED <<sender, eof, wire, receiver, bounds>>

\* The next cycle has another session, with channels of its own.
Reconnect ==
  /\ link = "down" /\ feed = "idle" /\ link' = "up"
  /\ Disown /\ recv' = "none" /\ verdict' = "none" /\ frame' = "none" /\ refused' = FALSE
  /\ result' = "none"
  /\ UNCHANGED <<feed, cancel, send, unsent, eof, wire, got, bounds>>

-----------------------------------------------------------------------------
SenderStep ==
  \/ Cancelled \/ Read \/ SendEnds \/ ReadEof \/ WriteChunk \/ Throttle \/ Reap
  \/ ReadResponse \/ ReadReason \/ CancelDone
ReceiverStep == Admit \/ Receive \/ CopyEnds \/ Respond

TransferNext ==
  \/ OpenStream \/ SenderStep \/ CancelFires
  \/ ReceiverStep \/ RecvRefuses \/ RecvDies \/ OldExits
  \/ LinkBreaks \/ KeepAlive \/ Reconnect

\* Both ends run, zfs send produces its stream and zfs recv takes it in finite time, and
\* ssh and sshd notice a session that is dead.
TransferFairness ==
  /\ WF_transferVars(SenderStep) /\ WF_transferVars(ReceiverStep)
  /\ WF_transferVars(KeepAlive)

TransferSpec == TransferInit /\ [][TransferNext]_transferVars /\ TransferFairness

-----------------------------------------------------------------------------
(* Properties *)

\* What a transfer reports is true of the receiver (execute_one_plan): success when the
\* whole stream has landed, a refusal when it has not, and after a cancel over a live
\* link the dispatcher is gone and its lock with it, "so a retry cannot race the old
\* receiver for the same dataset" (step.rs:215).
VerdictTruthful ==
  /\ result = "ok" => verdict = "ok" /\ got = Chunks
  /\ result = "refused" => verdict # "ok"
  /\ result = "cancelled" /\ link = "up" => ~Running /\ lock # "this"

\* Wherever a stream is interrupted, by either command, by the operator or by the link,
\* neither end is left waiting for the other: the transfer returns, and the dispatcher
\* exits (close_stream_writer: "shutdown() alone does not deliver EOF").
TransferEnds == (feed # "idle" ~> feed = "idle") /\ (Running ~> ~Running)

=============================================================================
