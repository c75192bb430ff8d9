----------------------------- MODULE Replication -----------------------------
(***************************************************************************)
(* One filesystem of a push job, replicated to every peer of Peers         *)
(* (daemon/src/jobs/push/{mod,step,holds,plan}.rs on the sender,           *)
(* daemon/src/stdinserver/{recv,control,recv_lock}.rs on the receivers).   *)
(*                                                                         *)
(* All replication state lives in ZFS: snapshots, step holds and cursor    *)
(* bookmarks on the sender; snapshots, the partial receive and the         *)
(* last-received hold on each receiver.  The push job keeps nothing but    *)
(* the step it is in, so a restart of the daemon loses only step[p].       *)
(*                                                                         *)
(* Simplifications:                                                        *)
(*  - snapshots are 1, 2, 3, ... in creation order (see Planner), all of   *)
(*    them matched by the job's snapshot filter;                           *)
(*  - a push to one peer never runs twice at once, but pushes to different *)
(*    peers interleave freely (they belong to one job, in sequence, or to  *)
(*    several jobs at once);                                               *)
(*  - a plan reads the sender's snapshots first and everything else later, *)
(*    at one instant; everything interleaves with both reads.              *)
(***************************************************************************)
EXTENDS Planner

CONSTANTS
  Peers,      \* push targets; the (job, peer) pair that names tags and cursors
  MaxSnaps,   \* snapshots ever taken (bounds the history)
  Mode,       \* the job's replicate mode
  Faults,     \* the rare faults that this instance admits, see FaultKinds
  MaxFaults   \* failures, crashes and lost replies per behaviour (a bound)

\* "late_landing": a receive that the sender has given up on may still start or
\*     complete, because everything it needs was already in flight.
\* "token_query": the receiver fails to read its resume token and reports none.
FaultKinds == {"late_landing", "token_query"}

ASSUME ConstantsAssumption ==
  /\ MaxSnaps \in Nat
  /\ MaxFaults \in Nat
  /\ Mode \in Modes
  /\ Faults \subseteq FaultKinds

Snap == 1..MaxSnaps

\* Two dispatcher processes may serve one peer: the one the current step talks
\* to, and one left behind by a step that gave up (a bound: at most one).
Slots == {"current", "old"}

VARIABLES
  taken,    \* snapshots taken so far
  snaps,    \* sender: live snapshots
  holds,    \* sender: holds[p], snapshots carrying the step tag of p
  cursors,  \* sender: cursors[p], cursor bookmarks of p
  recv,     \* receiver: snapshots of the target dataset
  exists,   \* receiver: the target dataset exists
  token,    \* receiver: the partial receive, as its resume token shows it
  last,     \* receiver: snapshots carrying the last-received hold
  beheaded, \* history: receivers that have destroyed their newest snapshot
  step,     \* the push step in progress towards p
  disp,     \* receiver: dispatcher processes, per slot
  faults    \* failures so far

senderVars   == <<taken, snaps, holds, cursors>>
receiverVars == <<recv, exists, token, last, beheaded>>
vars == <<senderVars, receiverVars, step, disp, faults>>

StepPcs == {"idle", "listed", "discarding", "planned", "held", "ready", "sending",
            "committing", "advanced", "recorded"}
DispPcs == {"none", "open", "receiving", "landed", "ok", "failed"}

Idle == [pc |-> "idle", listed |-> {}, plan |-> Nothing]
NoDisp == [pc |-> "none", kind |-> "nothing", from |-> NoSnap, to |-> NoSnap,
           rest |-> {}, discard |-> FALSE]

Newest(S) == IF S = {} THEN NoSnap ELSE Max(S)

\* Every bookmark of the dataset: list_bookmarks does not filter by owner.
Bookmarks == UNION {cursors[q] : q \in Peers}

Fault   == faults < MaxFaults /\ faults' = faults + 1
NoFault == faults' = faults

Init ==
  /\ taken = 0
  /\ snaps = {}
  /\ holds = [p \in Peers |-> {}]
  /\ cursors = [p \in Peers |-> {}]
  /\ recv = [p \in Peers |-> {}]
  /\ exists = [p \in Peers |-> FALSE]
  /\ token = [p \in Peers |-> NoToken]
  /\ last = [p \in Peers |-> {}]
  /\ beheaded = {}
  /\ step = [p \in Peers |-> Idle]
  /\ disp = [p \in Peers |-> [i \in Slots |-> NoDisp]]
  /\ faults = 0

----------------------------------------------------------------------------
(***************************************************************************)
(* The snap job and the prune jobs.                                        *)
(***************************************************************************)

TakeSnapshot ==
  /\ taken < MaxSnaps
  /\ taken' = taken + 1
  /\ snaps' = snaps \cup {taken + 1}
  /\ UNCHANGED <<holds, cursors, receiverVars, step, disp, faults>>

\* A running zfs send keeps its base and everything it carries busy.
Busy(s) ==
  \E p \in Peers :
    /\ disp[p]["current"].pc \in {"open", "receiving"}
    /\ s \in disp[p]["current"].rest \cup {disp[p]["current"].from}

\* prune_dataset destroys any snapshot its rules name; held and busy ones are
\* skipped by ZFS.  Which one the rules name is left open.
SenderPrune(s) ==
  /\ s \in snaps
  /\ \A p \in Peers : s \notin holds[p]
  /\ ~Busy(s)
  /\ snaps' = snaps \ {s}
  /\ UNCHANGED <<taken, holds, cursors, receiverVars, step, disp, faults>>

\* The same on a receiver; a partial receive pins its base.  No rule spares the
\* newest snapshot (retention.rs, the_newest_snapshot_is_not_special): what does
\* is the last-received hold, so it is exposed from the landing of a stream to
\* AdvanceLastHold, and after one that failed.
RecvPrune(p, s) ==
  /\ s \in recv[p]
  /\ s \notin last[p]
  /\ s # token[p].from
  /\ recv' = [recv EXCEPT ![p] = @ \ {s}]
  /\ beheaded' = IF s = Newest(recv[p]) THEN beheaded \cup {p} ELSE beheaded
  /\ UNCHANGED <<senderVars, exists, token, last, step, disp, faults>>

----------------------------------------------------------------------------
(***************************************************************************)
(* The push step, sender side.                                             *)
(***************************************************************************)

Goto(p, pc) == step' = [step EXCEPT ![p].pc = pc]
GiveUp(p)   == step' = [step EXCEPT ![p] = Idle]

SetDisp(p, i, d) == disp' = [disp EXCEPT ![p][i] = d]

\* plan_one_filesystem lists the sender first; an empty list means nothing to do.
ListSender(p) ==
  /\ step[p].pc = "idle"
  /\ snaps # {}
  /\ step' = [step EXCEPT ![p] = [pc |-> "listed", listed |-> snaps, plan |-> Nothing]]
  /\ UNCHANGED <<senderVars, receiverVars, disp, faults>>

\* Then it asks the receiver, decodes the token and lists the bookmarks.  A
\* failed token query reads as no token, a failed decode as a stale one, a failed
\* bookmark listing as no bookmarks.
SeenTokens(p) ==
  {token[p]} \cup (IF "token_query" \in Faults THEN {NoToken} ELSE {})

PlanSeen(p, seen, decodes, listed, listedAgain) ==
  PlanOne(step[p].listed, recv[p], seen, exists[p], decodes,
          IF listed THEN Bookmarks ELSE {}, Bookmarks, listedAgain, Mode)

PlanFilesystem(p) ==
  /\ step[p].pc = "listed"
  /\ \E seen \in SeenTokens(p), decodes, listed, listedAgain \in BOOLEAN :
       LET plan == PlanSeen(p, seen, decodes, listed, listedAgain)
       IN  /\ IF seen = token[p] /\ decodes /\ listed /\ listedAgain
              THEN NoFault ELSE Fault
           /\ IF plan.kind \in SendKinds
              THEN step' = [step EXCEPT
                     ![p].pc = IF plan.discard THEN "discarding" ELSE "planned",
                     ![p].plan = plan]
              ELSE GiveUp(p)
  /\ UNCHANGED <<senderVars, receiverVars, disp>>

\* A dispatcher owns the flock of the target from admission until zfs recv
\* has exited.
LockHeld(p) == \E i \in Slots : disp[p][i].pc = "receiving"

\* zfs recv -A: the partial state goes, and a dataset that only the partial
\* first receive had created goes with it.
ExistsAfterAbort(p) ==
  IF token[p] # NoToken /\ recv[p] = {} THEN FALSE ELSE exists[p]

\* The discard_partial_recv RPC before the channel is opened.
DiscardPartial(p) ==
  /\ step[p].pc = "discarding"
  /\ \/ /\ LockHeld(p)
        /\ GiveUp(p)
        /\ UNCHANGED <<token, exists>>
     \/ /\ ~LockHeld(p)
        /\ token' = [token EXCEPT ![p] = NoToken]
        /\ exists' = [exists EXCEPT ![p] = ExistsAfterAbort(p)]
        /\ Goto(p, "planned")
  /\ UNCHANGED <<senderVars, recv, last, beheaded, disp, faults>>

\* The snapshots a step holds: both ends, when they are snapshots.
FromHold(p) ==
  LET plan == step[p].plan
  IN  IF plan.kind \in SnapshotBased THEN {plan.from}
      ELSE IF plan.kind = "resume" THEN {plan.from} \cap step[p].listed
      ELSE {}
\* Mutation: only the target of the step is kept.
KeepTarget(p) == {step[p].plan.to}

Keep(p) == FromHold(p) \cup {step[p].plan.to}

\* Mutation: only the snapshots of this step are swept.
CandidatesOfStep(p) == Keep(p)

Candidates(p) == step[p].listed \cup Keep(p)

\* Mutation: only the base is held.
PlaceBaseOnly(p) ==
  /\ step[p].pc = "planned"
  /\ FromHold(p) \subseteq snaps
  /\ holds' = [holds EXCEPT ![p] = @ \cup FromHold(p)]
  /\ Goto(p, "held")
  /\ UNCHANGED <<taken, snaps, cursors, receiverVars, disp, faults>>

\* holds.place on the base, then on the target; the first that fails, because its
\* snapshot is gone or for any other reason, ends the step with what is already
\* held still held, and so does a crash between the two.  (A first one that fails
\* with its snapshot there is Abandon.)
PlaceHolds(p) ==
  /\ step[p].pc = "planned"
  /\ \/ /\ Keep(p) \subseteq snaps
        /\ holds' = [holds EXCEPT ![p] = @ \cup Keep(p)]
        /\ Goto(p, "held")
        /\ NoFault
     \/ /\ FromHold(p) \subseteq snaps
        /\ holds' = [holds EXCEPT ![p] = @ \cup FromHold(p)]
        /\ GiveUp(p)
        /\ IF step[p].plan.to \in snaps THEN Fault ELSE NoFault
     \/ /\ ~(FromHold(p) \subseteq snaps)
        /\ GiveUp(p)
        /\ NoFault
        /\ UNCHANGED holds
  /\ UNCHANGED <<taken, snaps, cursors, receiverVars, disp>>

\* Release the step tag of p from the candidates outside keep.  A query or a
\* release that fails leaves tags behind.
ReleaseExcept(p, keep) ==
  LET stale == (holds[p] \cap Candidates(p)) \ keep
  IN  \/ /\ holds' = [holds EXCEPT ![p] = @ \ stale]
         /\ NoFault
      \/ /\ \E left \in SUBSET stale \ {{}} :
              holds' = [holds EXCEPT ![p] = (@ \ stale) \cup left]
         /\ Fault

\* Mutation: the sweep spares no tag, the ones of this step included.
SweepEverything(p) ==
  /\ step[p].pc = "held"
  /\ ReleaseExcept(p, {})
  /\ Goto(p, "ready")
  /\ UNCHANGED <<taken, snaps, cursors, receiverVars, disp>>

SweepStale(p) ==
  /\ step[p].pc = "held"
  /\ ReleaseExcept(p, Keep(p))
  /\ Goto(p, "ready")
  /\ UNCHANGED <<taken, snaps, cursors, receiverVars, disp>>

\* zfs send refuses a base that is gone or not older than its target.
SendPossible(p) ==
  LET plan == step[p].plan
  IN  /\ plan.to \in snaps
      /\ plan.from < plan.to
      /\ plan.kind \in SnapshotBased => plan.from \in snaps
      /\ plan.kind = "bookmark" => plan.from \in Bookmarks
      /\ plan.kind = "resume" => plan.from \in {NoSnap} \cup snaps \cup Bookmarks

\* What the stream carries: -I takes every snapshot in between along.
Carried(p) ==
  LET plan == step[p].plan
  IN  IF plan.kind = "incremental_all"
      THEN {s \in snaps : plan.from < s /\ s <= plan.to}
      ELSE {plan.to}

\* execute_one_plan: open the channel, spawn zfs send.  A send that cannot
\* start ends the stream at once, and the receiver has nothing to apply.
OpenRecv(p) ==
  /\ step[p].pc = "ready"
  /\ \/ /\ SendPossible(p)
        /\ SetDisp(p, "current",
             [pc |-> "open", kind |-> step[p].plan.kind,
              from |-> step[p].plan.from, to |-> step[p].plan.to,
              rest |-> Carried(p), discard |-> step[p].plan.discard])
        /\ Goto(p, "sending")
     \/ /\ ~SendPossible(p)
        /\ GiveUp(p)
        /\ UNCHANGED disp
  /\ UNCHANGED <<senderVars, receiverVars, faults>>

\* Mutation: any Response counts as success.
ReadAnyResponse(p) ==
  /\ step[p].pc = "sending"
  /\ disp[p]["current"].pc \in {"ok", "failed"}
  /\ Goto(p, "committing")
  /\ SetDisp(p, "current", NoDisp)
  /\ UNCHANGED <<senderVars, receiverVars, faults>>

\* The terminal Response frame arrives.
ReadResponse(p) ==
  /\ step[p].pc = "sending"
  /\ \/ /\ disp[p]["current"].pc = "ok"
        /\ Goto(p, "committing")
     \/ /\ disp[p]["current"].pc = "failed"
        /\ GiveUp(p)
  /\ SetDisp(p, "current", NoDisp)
  /\ UNCHANGED <<senderVars, receiverVars, faults>>

\* HoldScope::commit, first half of advance_cursor: create the new cursor.  When
\* the bookmark cannot be created, sweep every tag but the one on the target; that
\* sweep may fail in turn and leave tags behind.
AdvanceCursor(p) ==
  /\ step[p].pc = "committing"
  /\ \/ /\ cursors' = [cursors EXCEPT ![p] = @ \cup {step[p].plan.to}]
        /\ Goto(p, "advanced")
        /\ NoFault
        /\ UNCHANGED holds
     \/ /\ Fault
        /\ LET stale == (holds[p] \cap Candidates(p)) \ {step[p].plan.to}
           IN  \E left \in SUBSET stale :
                 holds' = [holds EXCEPT ![p] = (@ \ stale) \cup left]
        /\ GiveUp(p)
        /\ UNCHANGED cursors
  /\ UNCHANGED <<taken, snaps, receiverVars, disp>>

\* Mutation: the sweep takes the cursors of every peer of the job.
SweepCursorsOfAll(p) ==
  /\ step[p].pc = "advanced"
  /\ cursors' = [q \in Peers |-> cursors[q] \cap {step[p].plan.to}]
  /\ Goto(p, "recorded")
  /\ UNCHANGED <<taken, snaps, holds, receiverVars, disp, faults>>

\* Mutation: the sweep does not spare the new cursor.
SweepNewCursorToo(p) ==
  /\ step[p].pc = "advanced"
  /\ cursors' = [cursors EXCEPT ![p] = {}]
  /\ Goto(p, "recorded")
  /\ UNCHANGED <<taken, snaps, holds, receiverVars, disp, faults>>

\* advance_cursor, second half: destroy the other cursors of this (job, peer).
SweepCursors(p) ==
  /\ step[p].pc = "advanced"
  /\ LET stale == cursors[p] \ {step[p].plan.to}
     IN  \/ /\ cursors' = [cursors EXCEPT ![p] = @ \ stale]
            /\ NoFault
         \/ /\ \E left \in SUBSET stale \ {{}} :
                 cursors' = [cursors EXCEPT ![p] = (@ \ stale) \cup left]
            /\ Fault
  /\ Goto(p, "recorded")
  /\ UNCHANGED <<taken, snaps, holds, receiverVars, disp>>

\* Last, the step tag comes off everywhere, the sent snapshot included.
ReleaseHolds(p) ==
  /\ step[p].pc = "recorded"
  /\ ReleaseExcept(p, {})
  /\ GiveUp(p)
  /\ UNCHANGED <<taken, snaps, cursors, receiverVars, disp>>

\* The step ends early: the daemon restarts, the link breaks, the transfer is
\* cancelled, or the reply is lost.  Its dispatcher sees its input end; one that
\* has landed the stream carries on regardless, and so may an earlier one when
\* the whole stream was already in flight.  A partial receive stays resumable.
Abandon(p) ==
  /\ Fault
  /\ step[p].pc # "idle"
  /\ GiveUp(p)
  /\ LET d == disp[p]["current"]
         survives == \/ d.pc = "landed"
                     \/ "late_landing" \in Faults /\ d.pc \in {"open", "receiving"}
     IN  \/ /\ survives
            /\ disp[p]["old"].pc = "none"
            /\ disp' = [disp EXCEPT ![p] = [current |-> NoDisp, old |-> d]]
         \/ /\ d.pc # "landed"
            /\ SetDisp(p, "current", NoDisp)
  /\ UNCHANGED <<senderVars, receiverVars>>

----------------------------------------------------------------------------
(***************************************************************************)
(* The dispatcher on the receiver: stdinserver/recv.rs.                    *)
(***************************************************************************)

\* What zfs recv applies: a full stream makes a new dataset, an incremental one
\* needs its base to be the newest snapshot and no partial receive in the way,
\* and a resumed one needs exactly its own partial receive.
Receivable(p, d, tok, ex) ==
  IF d.kind = "full" THEN ~ex
  ELSE IF d.kind = "resume" THEN tok = [to |-> d.to, from |-> d.from]
  ELSE ex /\ tok = NoToken /\ Newest(recv[p]) = d.from

\* drive: take the lock or refuse, abort the partial receive if the header says
\* so, create the missing ancestors, start zfs recv.
RecvStart(p, i) ==
  LET d   == disp[p][i]
      tok == IF d.discard THEN NoToken ELSE token[p]
      ex  == IF d.discard THEN ExistsAfterAbort(p) ELSE exists[p]
  IN  /\ d.pc = "open"
      /\ \/ /\ LockHeld(p)
            /\ SetDisp(p, i, [d EXCEPT !.pc = "failed"])
            /\ UNCHANGED <<token, exists>>
         \/ /\ ~LockHeld(p)
            /\ Receivable(p, d, tok, ex)
            /\ token' = [token EXCEPT ![p] = [to |-> Min(d.rest), from |-> d.from]]
            /\ exists' = [exists EXCEPT ![p] = TRUE]
            /\ SetDisp(p, i, [d EXCEPT !.pc = "receiving"])
         \/ /\ ~LockHeld(p)
            /\ ~Receivable(p, d, tok, ex)
            /\ token' = [token EXCEPT ![p] = tok]
            /\ exists' = [exists EXCEPT ![p] = ex]
            /\ SetDisp(p, i, [d EXCEPT !.pc = "failed"])
      /\ UNCHANGED <<senderVars, recv, last, beheaded, step, faults>>

\* zfs recv commits the snapshot it was receiving; the last one of the stream
\* ends the receive and with it the lock.
RecvLand(p, i) ==
  LET d    == disp[p][i]
      s    == token[p].to
      rest == d.rest \ {s}
  IN  /\ d.pc = "receiving"
      /\ recv' = [recv EXCEPT ![p] = @ \cup {s}]
      /\ token' = [token EXCEPT ![p] =
           IF rest = {} THEN NoToken ELSE [to |-> Min(rest), from |-> s]]
      /\ SetDisp(p, i, [d EXCEPT !.rest = rest,
                                 !.pc = IF rest = {} THEN "landed" ELSE @])
      /\ UNCHANGED <<senderVars, exists, last, beheaded, step, faults>>

\* The stream ends early or the receiver fails; zfs recv -s keeps what it has,
\* unless it had nothing yet.
RecvBreak(p, i) ==
  /\ disp[p][i].pc = "receiving"
  /\ Fault
  /\ \/ UNCHANGED <<token, exists>>
     \/ /\ token' = [token EXCEPT ![p] = NoToken]
        /\ exists' = [exists EXCEPT ![p] = ExistsAfterAbort(p)]
  /\ SetDisp(p, i, [disp[p][i] EXCEPT !.pc = "failed"])
  /\ UNCHANGED <<senderVars, recv, last, beheaded, step>>

\* advance_last_hold, after drive returned and dropped the lock: hold the
\* received snapshot, then sweep the tag from the others.  Best effort.
AdvanceLastHold(p, i) ==
  LET to == disp[p][i].to
  IN  /\ disp[p][i].pc = "landed"
      /\ \/ /\ to \in recv[p]
            /\ \/ last' = [last EXCEPT ![p] = {to}] /\ NoFault
               \/ /\ \E left \in SUBSET last[p] \ {{}} :
                       last' = [last EXCEPT ![p] = {to} \cup left]
                  /\ Fault
         \/ /\ IF to \in recv[p] THEN Fault ELSE NoFault
            /\ UNCHANGED last
      /\ SetDisp(p, i, [disp[p][i] EXCEPT !.pc = "ok"])
      /\ UNCHANGED <<senderVars, recv, exists, token, beheaded, step>>

\* Nobody reads the reply of an abandoned dispatcher.
OldExits(p) ==
  /\ disp[p]["old"].pc \in {"ok", "failed"}
  /\ SetDisp(p, "old", NoDisp)
  /\ UNCHANGED <<senderVars, receiverVars, step, faults>>

----------------------------------------------------------------------------
PushStep(p) ==
  \/ ListSender(p) \/ PlanFilesystem(p) \/ DiscardPartial(p) \/ PlaceHolds(p) \/ SweepStale(p)
  \/ OpenRecv(p) \/ ReadResponse(p)
  \/ AdvanceCursor(p) \/ SweepCursors(p) \/ ReleaseHolds(p)

Dispatcher(p, i) ==
  \/ RecvStart(p, i) \/ RecvLand(p, i) \/ RecvBreak(p, i) \/ AdvanceLastHold(p, i)

Next ==
  \/ TakeSnapshot
  \/ \E s \in Snap : SenderPrune(s)
  \/ \E p \in Peers :
       \/ PushStep(p)
       \/ Abandon(p)
       \/ \E i \in Slots : Dispatcher(p, i)
       \/ OldExits(p)
       \/ \E s \in Snap : RecvPrune(p, s)

Spec == Init /\ [][Next]_vars

\* The push loop runs cycle after cycle (run naps and wakes, jobs/push/mod.rs),
\* and dispatcher processes run until they exit.  Snapshots, pruning and
\* failures are not obliged to happen.
Fairness ==
  \A p \in Peers :
    /\ WF_vars(PushStep(p))
    /\ \A i \in Slots : WF_vars(Dispatcher(p, i))
    /\ WF_vars(OldExits(p))

FairSpec == Spec /\ Fairness

----------------------------------------------------------------------------
(***************************************************************************)
(* Properties.                                                             *)
(***************************************************************************)

DispType ==
  [pc : DispPcs, kind : PlanKinds, from : 0..MaxSnaps, to : 0..MaxSnaps,
   rest : SUBSET Snap, discard : BOOLEAN]
PlanType ==
  [kind : PlanKinds, from : 0..MaxSnaps, to : 0..MaxSnaps, discard : BOOLEAN]

\* Type correctness.
TypeOK ==
  /\ taken \in 0..MaxSnaps
  /\ snaps \subseteq Snap
  /\ holds \in [Peers -> SUBSET Snap]
  /\ cursors \in [Peers -> SUBSET Snap]
  /\ recv \in [Peers -> SUBSET Snap]
  /\ exists \in [Peers -> BOOLEAN]
  /\ token \in [Peers -> [to : 0..MaxSnaps, from : 0..MaxSnaps]]
  /\ last \in [Peers -> SUBSET Snap]
  /\ beheaded \subseteq Peers
  /\ step \in [Peers -> [pc : StepPcs, listed : SUBSET Snap, plan : PlanType]]
  /\ disp \in [Peers -> [Slots -> DispType]]
  /\ faults \in 0..MaxFaults


\* The receivers that have not destroyed their newest snapshot.  Nothing in the code
\* keeps them from it before the last-received hold is on it, so what the sender
\* promises its receivers is promised to these: see LastCommonSurvives.
Intact == Peers \ beheaded

\* Between two syncs the sender still has a base for the next one: the newest
\* snapshot of every intact receiver carries the step hold of that peer or is
\* recorded by its cursor.  The sender's prune cannot touch either (holds.rs,
\* ARCHITECTURE.md "Holds and replication cursor").
HeadAnchored ==
  \A p \in Intact : recv[p] # {} => Newest(recv[p]) \in holds[p] \cup cursors[p]

\* The sender's snapshots and bookmarks, seen as the bases of increments, and the
\* newest snapshot of each receiver, are what IncrementalReplica promises.
Replica == INSTANCE IncrementalReplica WITH
  newest <- taken,
  bases  <- snaps \cup Bookmarks,
  head   <- [p \in Peers |-> IF p \in beheaded THEN NoSnap ELSE Newest(recv[p])],
  lost   <- beheaded
ImplementsReplica == Replica!Spec

\* What a planner with all its reads answered would plan now.
FreshPlan(p) ==
  PlanOne(snaps, recv[p], token[p], exists[p], TRUE, Bookmarks, Bookmarks, TRUE, Mode)

\* Whatever a step left behind when it stopped, the next plan is one that an intact
\* receiver applies: never "diverged", never "placeholder", and an incremental
\* base is the receiver's newest snapshot (plan.rs, apply_bookmark_fallback).
NextPlanApplies ==
  \A p \in Intact :
    (step[p].pc = "idle" /\ \A i \in Slots : disp[p][i].pc # "receiving") =>
      LET plan == FreshPlan(p)
      IN  /\ plan.kind \notin {"diverged", "placeholder"}
          /\ plan.kind \in SnapshotBased \cup {"bookmark", "resume"} =>
               plan.from = Newest(recv[p])

\* An interrupted receive stays resumable: its target and its base survive on the
\* sender for as long as the partial state survives on an intact receiver (step.rs,
\* run_one_filesystem: "on failure holds stay so a retry can find the snapshot").
ResumeStaysPossible ==
  \A p \in Intact : token[p] # NoToken => Resumable(token[p], snaps, Bookmarks)

\* A cursor never runs ahead of an intact receiver: it records a snapshot only after
\* the receiver confirmed it, whatever crash or lost reply comes in between.
CursorNotAhead ==
  \A p \in Intact : cursors[p] # {} => Max(cursors[p]) <= Newest(recv[p])

\* ARCHITECTURE.md:276-280 of the last-received hold: "This keeps a receiver-side
\* prune job from destroying the last common snapshot between syncs (which would
\* force a full resend)."  Between two steps, a receiver that a cursor speaks of
\* still has a snapshot that the sender can send an increment from.
LastCommonSurvives ==
  \A p \in Peers :
    step[p].pc = "idle" /\ cursors[p] # {} /\ recv[p] # {} =>
      recv[p] \cap (snaps \cup Bookmarks) # {}

\* Failing cycles do not pile up holds, one per attempt (holds.rs, sweep_stale): a
\* sweep that works leaves this peer the two ends of the step, a commit nothing.
HoldsDoNotAccumulate ==
  [][\A p \in Peers : faults' = faults =>
       /\ step[p].pc = "held" /\ step'[p].pc = "ready" => holds'[p] = Keep(p)
       /\ step[p].pc = "recorded" /\ step'[p].pc = "idle" => holds'[p] = {}]_vars

\* advance_cursor: a crash between create and destroy leaves a cursor alive.
CursorNeverLost ==
  [][\A p \in Peers : cursors[p] # {} => cursors'[p] # {}]_cursors

\* A receiver is up to date when nothing on the sender is newer than what it has.
UpToDate(p) == Newest(snaps) <= Newest(recv[p])

\* Once snapshots and failures stop, every receiver that stays intact gets the newest
\* snapshot and stays there (replicate_one: "until the receiver holds the sender's
\* head").
Converges == \A p \in Peers : <>[](p \in Intact => UpToDate(p))

=============================================================================
