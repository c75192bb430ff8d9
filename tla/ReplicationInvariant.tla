------------------------- MODULE ReplicationInvariant -------------------------
(***************************************************************************)
(* The inductive invariants behind HeadAnchored, ImplementsReplica,        *)
(* ResumeStaysPossible and NextPlanApplies, for a job in "latest" mode     *)
(* whose abandoned receives do not land late.                              *)
(*                                                                         *)
(* HeadAnchored alone is not inductive: a sweep of stale holds destroys it *)
(* unless the step that sweeps either keeps the receiver's newest snapshot *)
(* or relies on a cursor, a commit does unless the stream it commits has   *)
(* become the receiver's newest snapshot, and a landing does unless its    *)
(* target is held.                                                         *)
(***************************************************************************)
EXTENDS Replication

(***************************************************************************)
(* What types depend on, in every mode and with every fault.               *)
(***************************************************************************)

\* A plan being executed has a target, and its snapshot base is one.
PlanHasTarget == \A p \in Peers :
  LET plan == step[p].plan
  IN  step[p].pc \notin {"idle", "listed"} =>
        /\ plan.kind \in SendKinds
        /\ plan.to \in Snap
        /\ plan.kind \in SnapshotBased => plan.from \in Snap

\* A stream that has not ended still carries snapshots, the partial one included.
StreamCarries == \A p \in Peers : \A i \in Slots :
  LET d == disp[p][i]
  IN  /\ d.pc \in {"open", "receiving"} => d.rest # {}
      /\ d.pc = "receiving" => token[p].to \in d.rest

\* The flock: two dispatchers never receive into one target at once.
OneReceiver == \A p \in Peers :
  ~(disp[p]["current"].pc = "receiving" /\ disp[p]["old"].pc = "receiving")

TypeInv == TypeOK /\ PlanHasTarget /\ StreamCarries /\ OneReceiver

(***************************************************************************)
(* What anchors the receiver's newest snapshot.                            *)
(***************************************************************************)

RecvHead(p) == Newest(recv[p])

\* Only live snapshots carry a hold, and only an existing dataset has snapshots.
HeldIsLive(p) == holds[p] \subseteq snaps
RecvExists(p) == recv[p] # {} => exists[p]

\* HeadAnchored, for one peer.
HeadKept(p) == recv[p] # {} => RecvHead(p) \in holds[p] \cup cursors[p]

\* A partial receive is an increment on the receiver's newest snapshot.
PartialOnHead(p) == token[p] # NoToken => token[p].from = RecvHead(p)

\* A listing that a step still works from names every snapshot held for its peer.
ListingCovers(p) == step[p].pc = "listed" => holds[p] \subseteq step[p].listed

\* Until the stream starts, the step keeps the receiver's newest snapshot or a
\* cursor records it.
BeforeSending == {"discarding", "planned", "held", "ready"}
StepKeepsHead(p) ==
  step[p].pc \in BeforeSending =>
    /\ step[p].plan.kind # "incremental_all"
    /\ step[p].plan.kind = "full" => step[p].plan.from = NoSnap
    /\ recv[p] # {} => RecvHead(p) \in cursors[p] \cup Keep(p)

\* From the placing of the holds to the commit, the target is held.
HoldsPlaced == {"held", "ready", "sending", "committing"}
TargetHeld(p) == step[p].pc \in HoldsPlaced => step[p].plan.to \in holds[p]

\* The dispatcher serves the plan of the step; a stream being received moves the
\* receiver's head forward, and a stream that landed is its head.
DispatcherServesStep(p) ==
  LET d == disp[p]["current"]
  IN  d.pc # "none" =>
        /\ step[p].pc = "sending"
        /\ d.to = step[p].plan.to
        /\ d.kind \in SendKinds
        /\ d.pc \in {"open", "receiving"} => d.rest = {d.to} /\ d.from < d.to
        /\ d.pc = "open" /\ d.kind = "full" => d.from = NoSnap
        /\ d.pc = "receiving" => /\ token[p] = [to |-> d.to, from |-> d.from]
                                 /\ exists[p]
        /\ d.pc \in {"landed", "ok"} => d.to \in recv[p] /\ d.to = RecvHead(p)
OldIsDone(p) == disp[p]["old"].pc \in {"none", "landed", "ok", "failed"}

\* What a commit is about is the receiver's head, and once the new cursor exists
\* it records that head.
CommitIsHead(p) ==
  step[p].pc \in {"committing", "advanced", "recorded"} =>
    step[p].plan.to \in recv[p] /\ step[p].plan.to = RecvHead(p)
CursorIsHead(p) ==
  step[p].pc \in {"advanced", "recorded"} => step[p].plan.to \in cursors[p]

\* No cursor is newer than the receiver's newest snapshot.
CursorsBehind(p) == \A c \in cursors[p] : c <= RecvHead(p)

Anchor(p) ==
  /\ HeldIsLive(p) /\ RecvExists(p) /\ HeadKept(p) /\ PartialOnHead(p)
  /\ ListingCovers(p) /\ StepKeepsHead(p) /\ TargetHeld(p)
  /\ DispatcherServesStep(p) /\ OldIsDone(p) /\ CommitIsHead(p) /\ CursorIsHead(p)
  /\ CursorsBehind(p)

\* It makes HeadAnchored survive every step, whatever fails in between (holds.rs,
\* step.rs, plan.rs), for each receiver until that receiver itself destroys its
\* newest snapshot.
AnchorInv == TypeInv /\ \A p \in Intact : Anchor(p)

(***************************************************************************)
(* What keeps an interrupted receive resumable, when the receiver always   *)
(* reports its token.                                                      *)
(***************************************************************************)

\* The snapshot that a partial receive waits for is held for its peer.
PartialHeld(p) == token[p] # NoToken => token[p].to \in holds[p]

\* A target without a snapshot exists only as what a first receive has begun.
ContentExists(p) == exists[p] => recv[p] # {} \/ token[p] # NoToken

\* A step that has dealt with the partial receive it found either has discarded
\* it or goes on with it.
PartialIsTarget(p) ==
  step[p].pc \in {"planned", "held", "ready", "sending"} /\ token[p] # NoToken =>
    step[p].plan.to = token[p].to

\* A stream that has landed, and the commit after it, leave nothing to resume.
CommitIsClean(p) ==
  (\/ step[p].pc \in {"committing", "advanced", "recorded"}
   \/ disp[p]["current"].pc \in {"landed", "ok"}) => token[p] = NoToken

Partial(p) ==
  PartialHeld(p) /\ ContentExists(p) /\ PartialIsTarget(p) /\ CommitIsClean(p)

\* The inductive invariant (holds.rs, step.rs, plan.rs, recv.rs): the next plan
\* applies and an interrupted receive can be resumed.
IInv == AnchorInv /\ \A p \in Intact : Partial(p)

(***************************************************************************)
(* What a sweep of stale holds relies on, in every mode and with every     *)
(* fault: it looks at the snapshots the step has listed and at the two     *)
(* ends of the step, and no other snapshot is held for that peer.          *)
(***************************************************************************)
SweepSeesHolds(p) ==
  /\ step[p].pc \in {"listed", "discarding", "planned"} => holds[p] \subseteq step[p].listed
  /\ step[p].pc \in HoldsPlaced \cup {"advanced", "recorded"} => holds[p] \subseteq Candidates(p)
  /\ step[p].pc = "held" => Keep(p) \subseteq holds[p]

HoldsInv == TypeInv /\ \A p \in Peers : HeldIsLive(p) /\ SweepSeesHolds(p) /\ TargetHeld(p)

=============================================================================
