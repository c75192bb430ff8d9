---------------------------- MODULE ReplicaProofs ----------------------------
(***************************************************************************)
(* No step ever leaves a peer without any cursor once it has one; failing  *)
(* cycles do not pile up holds; and, from the anchors: the push protocol   *)
(* implements IncrementalReplica, and what a step that stopped leaves      *)
(* behind can be picked up (the invariant IInv, and from it                *)
(* ResumeStaysPossible and NextPlanApplies).                               *)
(***************************************************************************)
EXTENDS ReplicationProofs

(***************************************************************************)
(* CursorNeverLost needs no scope: it holds in both modes and whatever     *)
(* lands late, because create comes before destroy.                        *)
(***************************************************************************)
CursorInv == TypeInv /\ \A p \in Peers : CursorIsHead(p)

LEMMA CursorFrame ==
  ASSUME CursorInv, \A p \in Peers : \/ cursors'[p] = cursors[p] /\ step'[p] = step[p]
                                     \/ step'[p].pc \notin {"advanced", "recorded"}
  PROVE  \A p \in Peers : CursorIsHead(p)'
BY DEF CursorInv, CursorIsHead

LEMMA CursorInvStep == CursorInv /\ [Next]_vars => CursorInv'
<1> SUFFICES ASSUME CursorInv, [Next]_vars PROVE \A p \in Peers : CursorIsHead(p)'
  BY TypeStep DEF CursorInv
<1>0. TypeInv /\ step \in [Peers -> [pc : StepPcs, listed : SUBSET Snap, plan : PlanType]]
      /\ cursors \in [Peers -> SUBSET Snap]
  BY DEF CursorInv, TypeInv, TypeOK
<1>1. CASE cursors' = cursors /\ step' = step
  BY <1>1, CursorFrame
<1>2. ASSUME NEW p \in Peers, GiveUp(p), cursors' = cursors
      PROVE  \A q \in Peers : CursorIsHead(q)'
  BY <1>0, <1>2, CursorFrame DEF GiveUp, Idle
<1>3. ASSUME NEW p \in Peers, PushStep(p) PROVE \A q \in Peers : CursorIsHead(q)'
  <2>1. CASE ListSender(p)
    BY <1>0, <2>1, CursorFrame DEF ListSender, senderVars
  <2>2. CASE PlanFilesystem(p)
    <3>1. cursors' = cursors
      BY <2>2 DEF PlanFilesystem, senderVars
    <3>2. PICK plan : \/ step' = [step EXCEPT
                           ![p].pc = IF plan.discard THEN "discarding" ELSE "planned",
                           ![p].plan = plan]
                      \/ GiveUp(p)
      BY <2>2, Zenon DEF PlanFilesystem
    <3> QED BY <1>0, <1>2, <3>1, <3>2, CursorFrame
  <2>3. CASE DiscardPartial(p) \/ PlaceHolds(p) \/ SweepStale(p) \/ OpenRecv(p)
             \/ ReadResponse(p)
    <3>1. cursors' = cursors
          /\ \/ GiveUp(p)
             \/ \E pc \in {"planned", "held", "ready", "sending", "committing"} : Goto(p, pc)
      BY <2>3 DEF DiscardPartial, PlaceHolds, SweepStale, OpenRecv, ReadResponse,
                  senderVars, receiverVars
    <3> QED BY <1>0, <1>2, <3>1, CursorFrame DEF Goto
  <2>4. CASE AdvanceCursor(p)
    <3>1. CASE GiveUp(p) /\ UNCHANGED cursors
      BY <1>2, <3>1
    <3>2. CASE /\ cursors' = [cursors EXCEPT ![p] = @ \cup {step[p].plan.to}]
               /\ Goto(p, "advanced")
      <4>1. step'[p].plan.to \in cursors'[p]
        BY <1>0, <3>2 DEF Goto
      <4>2. \A q \in Peers : q # p => cursors'[q] = cursors[q] /\ step'[q] = step[q]
        BY <1>0, <3>2 DEF Goto
      <4> QED BY <4>1, <4>2 DEF CursorInv, CursorIsHead
    <3> QED BY <2>4, <3>1, <3>2 DEF AdvanceCursor
  <2>5. CASE SweepCursors(p)
    <3>1. step[p].plan.to \in cursors[p] /\ Goto(p, "recorded")
      BY <2>5 DEF SweepCursors, CursorInv, CursorIsHead
    <3>2. /\ step[p].plan.to \in cursors'[p]
          /\ \A q \in Peers : q # p => cursors'[q] = cursors[q]
      BY <1>0, <2>5, <3>1, SweepCursorsKeeps
    <3>3. step'[p].plan.to = step[p].plan.to
          /\ \A q \in Peers : q # p => step'[q] = step[q]
      BY <1>0, <3>1 DEF Goto
    <3> QED BY <3>2, <3>3 DEF CursorInv, CursorIsHead
  <2>6. CASE ReleaseHolds(p)
    BY <1>2, <2>6 DEF ReleaseHolds
  <2> QED BY <1>3, <2>1, <2>2, <2>3, <2>4, <2>5, <2>6 DEF PushStep
<1>4. ASSUME NEW p \in Peers, Abandon(p) PROVE \A q \in Peers : CursorIsHead(q)'
  BY <1>2, <1>4 DEF Abandon, senderVars
<1>5. CASE TakeSnapshot \/ UNCHANGED vars
  BY <1>1, <1>5 DEF TakeSnapshot, vars, senderVars
<1>6. ASSUME NEW s \in Snap, SenderPrune(s) PROVE \A q \in Peers : CursorIsHead(q)'
  BY <1>1, <1>6 DEF SenderPrune
<1>7. ASSUME NEW p \in Peers, NEW i \in Slots, Dispatcher(p, i)
      PROVE  \A q \in Peers : CursorIsHead(q)'
  BY <1>1, <1>7 DEF Dispatcher, RecvStart, RecvLand, RecvBreak, AdvanceLastHold, senderVars
<1>8. ASSUME NEW p \in Peers, OldExits(p) PROVE \A q \in Peers : CursorIsHead(q)'
  BY <1>1, <1>8 DEF OldExits, senderVars
<1>9. ASSUME NEW p \in Peers, NEW s \in Snap, RecvPrune(p, s)
      PROVE  \A q \in Peers : CursorIsHead(q)'
  BY <1>1, <1>9 DEF RecvPrune, senderVars
<1> QED BY <1>3, <1>4, <1>5, <1>6, <1>7, <1>8, <1>9 DEF Next

\* A crash anywhere in advance_cursor leaves a cursor alive (holds.rs, advance_cursor).
THEOREM CursorsAreNeverLost == Spec => CursorNeverLost
<1>1. Init => CursorInv
  BY TypeInit DEF Init, CursorInv, CursorIsHead, Idle
<1>2. CursorInv /\ [Next]_vars => CursorInv'
  BY CursorInvStep
<1>3. CursorInv /\ [Next]_vars =>
        [\A p \in Peers : cursors[p] # {} => cursors'[p] # {}]_cursors
  <2> SUFFICES ASSUME CursorInv, [Next]_vars, cursors' # cursors, NEW q \in Peers,
                      cursors[q] # {}
               PROVE  cursors'[q] # {}
    BY Zenon
  <2>0. TypeInv /\ cursors \in [Peers -> SUBSET Snap]
    BY DEF CursorInv, TypeInv, TypeOK
  <2>1. PICK p \in Peers : AdvanceCursor(p) \/ SweepCursors(p)
    <3>1. \A p \in Peers : ~(AdvanceCursor(p) \/ SweepCursors(p)) =>
            ~PushStep(p) /\ ~Abandon(p) /\ ~OldExits(p)
      BY DEF PushStep, ListSender, PlanFilesystem, DiscardPartial, PlaceHolds, SweepStale,
             OpenRecv, ReadResponse, ReleaseHolds, Abandon, OldExits, senderVars, receiverVars
    <3>2. /\ ~TakeSnapshot /\ \A s \in Snap : ~SenderPrune(s)
          /\ \A p \in Peers, s \in Snap : ~RecvPrune(p, s)
          /\ \A p \in Peers, i \in Slots : ~Dispatcher(p, i)
      <4>1. ~TakeSnapshot /\ \A s \in Snap : ~SenderPrune(s)
        BY DEF TakeSnapshot, SenderPrune
      <4>2. \A p \in Peers, s \in Snap : ~RecvPrune(p, s)
        BY DEF RecvPrune, senderVars
      <4>3. \A p \in Peers, i \in Slots : ~RecvStart(p, i) /\ ~RecvLand(p, i)
        BY DEF RecvStart, RecvLand, senderVars
      <4>4. \A p \in Peers, i \in Slots : ~RecvBreak(p, i) /\ ~AdvanceLastHold(p, i)
        BY DEF RecvBreak, AdvanceLastHold, senderVars
      <4> QED BY <4>1, <4>2, <4>3, <4>4 DEF Dispatcher
    <3> QED BY <3>1, <3>2, ZenonT(60) DEF Next, vars, senderVars
  <2>2. CASE AdvanceCursor(p)
    BY <2>0, <2>2 DEF AdvanceCursor
  <2>3. CASE SweepCursors(p)
    <3>1. step[p].plan.to \in cursors[p]
      BY <2>3 DEF SweepCursors, CursorInv, CursorIsHead
    <3> QED BY <2>0, <2>3, <3>1, SweepCursorsKeeps
  <2> QED BY <2>1, <2>2, <2>3
<1> QED BY <1>1, <1>2, <1>3, PTL DEF Spec, CursorNeverLost

----------------------------------------------------------------------------
(***************************************************************************)
(* HoldsDoNotAccumulate needs no scope either: whatever fails, every hold  *)
(* of a peer is one that the sweep of its next step looks at.              *)
(***************************************************************************)
Sweepable(p) == HeldIsLive(p) /\ SweepSeesHolds(p) /\ TargetHeld(p)

\* What a step leaves alone about a peer.
LEMMA SweepFrame ==
  ASSUME NEW q \in Peers, Sweepable(q), holds'[q] = holds[q], step'[q] = step[q],
         holds[q] \subseteq snaps'
  PROVE  Sweepable(q)'
<1>1. Keep(q)' = Keep(q) /\ Candidates(q)' = Candidates(q)
  BY DEF Keep, FromHold, Candidates
<1> QED BY <1>1 DEF Sweepable, HeldIsLive, SweepSeesHolds, TargetHeld

LEMMA SweepQuiet ==
  ASSUME HoldsInv, holds' = holds, step' = step, snaps' = snaps
  PROVE  \A q \in Peers : Sweepable(q)'
BY SweepFrame DEF HoldsInv, Sweepable, HeldIsLive

LEMMA SweepOthers ==
  ASSUME HoldsInv, NEW p \in Peers, Sweepable(p)', snaps' = snaps,
         \A q \in Peers : q # p => holds'[q] = holds[q] /\ step'[q] = step[q]
  PROVE  \A q \in Peers : Sweepable(q)'
BY SweepFrame DEF HoldsInv, Sweepable, HeldIsLive

\* A step that is given up demands nothing of the holds it leaves.
LEMMA SweepGiveUp ==
  ASSUME HoldsInv, NEW p \in Peers, GiveUp(p), snaps' = snaps, holds'[p] \subseteq snaps,
         \A q \in Peers : q # p => holds'[q] = holds[q]
  PROVE  \A q \in Peers : Sweepable(q)'
<1>1. step'[p] = Idle /\ \A q \in Peers : q # p => step'[q] = step[q]
  BY PeerTypes DEF HoldsInv, GiveUp
<1>2. Sweepable(p)'
  BY <1>1 DEF Sweepable, HeldIsLive, SweepSeesHolds, TargetHeld, Idle, HoldsPlaced
<1> QED BY <1>1, <1>2, SweepOthers

\* A step that goes on past the placing of the holds, and adds none.
LEMMA SweepGoesOn ==
  ASSUME HoldsInv, NEW p \in Peers, NEW pc, Goto(p, pc),
         pc \in {"ready", "sending", "committing", "advanced", "recorded"},
         step[p].pc \in HoldsPlaced \cup {"advanced", "recorded"},
         snaps' = snaps, holds'[p] \subseteq holds[p],
         pc \in HoldsPlaced => step[p].pc \in HoldsPlaced /\ step[p].plan.to \in holds'[p],
         \A q \in Peers : q # p => holds'[q] = holds[q]
  PROVE  \A q \in Peers : Sweepable(q)'
<1>1. /\ step'[p].pc = pc /\ step'[p].plan = step[p].plan /\ step'[p].listed = step[p].listed
      /\ \A q \in Peers : q # p => step'[q] = step[q]
  BY PeerTypes DEF HoldsInv, Goto
<1>2. Keep(p)' = Keep(p) /\ Candidates(p)' = Candidates(p)
  BY <1>1 DEF Keep, FromHold, Candidates
<1>3. Sweepable(p)'
  BY <1>1, <1>2 DEF HoldsInv, Sweepable, HeldIsLive, SweepSeesHolds, TargetHeld
<1> QED BY <1>1, <1>3, SweepOthers

LEMMA SweepPlanFilesystem ==
  ASSUME HoldsInv, NEW p \in Peers, PlanFilesystem(p) PROVE \A q \in Peers : Sweepable(q)'
<1>0. TypeInv /\ HeldIsLive(p) /\ SweepSeesHolds(p)
  BY DEF HoldsInv
<1>1. holds' = holds /\ snaps' = snaps /\ step[p].pc = "listed"
  BY DEF PlanFilesystem, senderVars
<1>2. PICK plan : \/ step' = [step EXCEPT
                       ![p].pc = IF plan.discard THEN "discarding" ELSE "planned",
                       ![p].plan = plan]
                  \/ GiveUp(p)
  BY Zenon DEF PlanFilesystem
<1>3. CASE GiveUp(p)
  BY <1>0, <1>1, <1>3, SweepGiveUp DEF HeldIsLive
<1>4. CASE step' = [step EXCEPT ![p].pc = IF plan.discard THEN "discarding" ELSE "planned",
                                ![p].plan = plan]
  <2>1. /\ step'[p].pc \in {"discarding", "planned"} /\ step'[p].listed = step[p].listed
        /\ \A q \in Peers : q # p => step'[q] = step[q]
    BY <1>0, <1>4, PeerTypes
  <2>2. Sweepable(p)'
    BY <1>0, <1>1, <2>1 DEF Sweepable, HeldIsLive, SweepSeesHolds, TargetHeld, HoldsPlaced
  <2> QED BY <1>1, <2>1, <2>2, SweepOthers
<1> QED BY <1>2, <1>3, <1>4

LEMMA SweepPlaceHolds ==
  ASSUME HoldsInv, NEW p \in Peers, PlaceHolds(p) PROVE \A q \in Peers : Sweepable(q)'
<1>0. TypeInv /\ HeldIsLive(p) /\ SweepSeesHolds(p)
  BY DEF HoldsInv
<1>1. snaps' = snaps /\ step[p].pc = "planned" /\ holds[p] \subseteq snaps
  BY <1>0 DEF PlaceHolds, HeldIsLive
<1>2. \A q \in Peers : q # p => holds'[q] = holds[q]
  BY <1>0, PeerTypes DEF PlaceHolds
<1>3. CASE /\ Keep(p) \subseteq snaps
           /\ holds' = [holds EXCEPT ![p] = @ \cup Keep(p)]
           /\ Goto(p, "held")
  <2>1. /\ step'[p].pc = "held" /\ step'[p].plan = step[p].plan
        /\ step'[p].listed = step[p].listed /\ holds'[p] = holds[p] \cup Keep(p)
        /\ \A q \in Peers : q # p => step'[q] = step[q]
    BY <1>0, <1>3, PeerTypes DEF Goto
  <2>2. Keep(p)' = Keep(p) /\ Candidates(p)' = Candidates(p)
    BY <2>1 DEF Keep, FromHold, Candidates
  <2>3. step[p].plan.to \in Keep(p)
    BY DEF Keep
  <2>4. holds'[p] \subseteq Candidates(p)
    BY <1>0, <1>1, <2>1 DEF SweepSeesHolds, Candidates
  <2>5. Sweepable(p)'
    BY <1>1, <1>3, <2>1, <2>2, <2>3, <2>4
    DEF Sweepable, HeldIsLive, SweepSeesHolds, TargetHeld
  <2> QED BY <1>1, <1>2, <2>1, <2>5, SweepOthers
<1>4. CASE GiveUp(p)
  <2>1. holds'[p] \subseteq snaps
    BY <1>0, <1>1, PeerTypes DEF PlaceHolds
  <2> QED BY <1>1, <1>2, <1>4, <2>1, SweepGiveUp
<1> QED BY <1>3, <1>4 DEF PlaceHolds

LEMMA SweepPushStep ==
  ASSUME HoldsInv, NEW p \in Peers, PushStep(p) PROVE \A q \in Peers : Sweepable(q)'
<1>0. TypeInv /\ HeldIsLive(p) /\ SweepSeesHolds(p) /\ TargetHeld(p)
  BY DEF HoldsInv
<1>1. CASE ListSender(p)
  <2>1. /\ holds' = holds /\ snaps' = snaps
        /\ step'[p] = [pc |-> "listed", listed |-> snaps, plan |-> Nothing]
        /\ \A q \in Peers : q # p => step'[q] = step[q]
    BY <1>0, <1>1, PeerTypes DEF ListSender, senderVars
  <2>2. Sweepable(p)'
    BY <1>0, <2>1 DEF Sweepable, HeldIsLive, SweepSeesHolds, TargetHeld, HoldsPlaced
  <2> QED BY <2>1, <2>2, SweepOthers
<1>2. CASE DiscardPartial(p)
  <2>1. holds' = holds /\ snaps' = snaps /\ step[p].pc = "discarding"
        /\ (GiveUp(p) \/ Goto(p, "planned"))
    BY <1>2 DEF DiscardPartial, senderVars
  <2>2. CASE GiveUp(p)
    BY <1>0, <2>1, <2>2, SweepGiveUp DEF HeldIsLive
  <2>3. CASE Goto(p, "planned")
    <3>1. /\ step'[p].pc = "planned" /\ step'[p].listed = step[p].listed
          /\ \A q \in Peers : q # p => step'[q] = step[q]
      BY <1>0, <2>3, PeerTypes DEF Goto
    <3>2. Sweepable(p)'
      BY <1>0, <2>1, <3>1 DEF Sweepable, HeldIsLive, SweepSeesHolds, TargetHeld, HoldsPlaced
    <3> QED BY <2>1, <3>1, <3>2, SweepOthers
  <2> QED BY <2>1, <2>2, <2>3
<1>3. CASE SweepStale(p)
  <2>1. snaps' = snaps /\ step[p].pc = "held" /\ Goto(p, "ready") /\ ReleaseExcept(p, Keep(p))
    BY <1>3 DEF SweepStale
  <2>2. /\ holds'[p] \subseteq holds[p] /\ holds[p] \cap Keep(p) \subseteq holds'[p]
        /\ \A q \in Peers : q # p => holds'[q] = holds[q]
    BY <1>0, <2>1, ReleaseKeeps
  <2>3. step[p].plan.to \in holds'[p]
    BY <1>0, <2>1, <2>2 DEF TargetHeld, HoldsPlaced, Keep
  <2> QED BY <2>1, <2>2, <2>3, SweepGoesOn DEF HoldsPlaced
<1>4. CASE OpenRecv(p) \/ ReadResponse(p)
  <2>1. /\ holds' = holds /\ snaps' = snaps /\ step[p].pc \in {"ready", "sending"}
        /\ (GiveUp(p) \/ Goto(p, "sending") \/ Goto(p, "committing"))
    BY <1>4 DEF OpenRecv, ReadResponse, senderVars
  <2>2. CASE GiveUp(p)
    BY <1>0, <2>1, <2>2, SweepGiveUp DEF HeldIsLive
  <2>3. CASE Goto(p, "sending") \/ Goto(p, "committing")
    BY <1>0, <2>1, <2>3, SweepGoesOn DEF HoldsPlaced, TargetHeld
  <2> QED BY <2>1, <2>2, <2>3
<1>5. CASE AdvanceCursor(p)
  <2>1. snaps' = snaps /\ step[p].pc = "committing"
    BY <1>5 DEF AdvanceCursor
  <2>2. CASE Goto(p, "advanced") /\ holds' = holds
    BY <2>1, <2>2, SweepGoesOn DEF HoldsPlaced
  <2>3. ASSUME NEW left \in SUBSET ((holds[p] \cap Candidates(p)) \ {step[p].plan.to}),
               holds' = [holds EXCEPT ![p] =
                 (@ \ ((holds[p] \cap Candidates(p)) \ {step[p].plan.to})) \cup left],
               GiveUp(p)
        PROVE  \A q \in Peers : Sweepable(q)'
    <3>1. holds'[p] \subseteq holds[p] /\ \A q \in Peers : q # p => holds'[q] = holds[q]
      BY <1>0, <2>3, PeerTypes
    <3> QED BY <1>0, <2>1, <2>3, <3>1, SweepGiveUp DEF HeldIsLive
  <2> QED BY <1>5, <2>2, <2>3 DEF AdvanceCursor
<1>6. CASE SweepCursors(p)
  <2>1. snaps' = snaps /\ holds' = holds /\ step[p].pc = "advanced" /\ Goto(p, "recorded")
    BY <1>6 DEF SweepCursors
  <2> QED BY <2>1, SweepGoesOn DEF HoldsPlaced
<1>7. CASE ReleaseHolds(p)
  <2>1. snaps' = snaps /\ GiveUp(p) /\ ReleaseExcept(p, {})
    BY <1>7 DEF ReleaseHolds
  <2>2. holds'[p] \subseteq holds[p] /\ \A q \in Peers : q # p => holds'[q] = holds[q]
    BY <1>0, <2>1, ReleaseKeeps
  <2> QED BY <1>0, <2>1, <2>2, SweepGiveUp DEF HeldIsLive
<1> QED BY <1>1, <1>2, <1>3, <1>4, <1>5, <1>6, <1>7, SweepPlanFilesystem, SweepPlaceHolds
        DEF PushStep

LEMMA HoldsInvInit == Init => HoldsInv
BY TypeInit DEF Init, HoldsInv, HeldIsLive, SweepSeesHolds, TargetHeld, HoldsPlaced, Idle

LEMMA HoldsInvStep == HoldsInv /\ [Next]_vars => HoldsInv'
<1> SUFFICES ASSUME HoldsInv, [Next]_vars PROVE \A q \in Peers : Sweepable(q)'
  BY TypeStep DEF HoldsInv, Sweepable
<1>1. ASSUME NEW q \in Peers PROVE Sweepable(q) /\ holds[q] \subseteq snaps
  BY DEF HoldsInv, Sweepable, HeldIsLive
<1>2. CASE TakeSnapshot
  <2>1. holds' = holds /\ step' = step /\ snaps \subseteq snaps'
    BY <1>2 DEF TakeSnapshot
  <2> QED BY <1>1, <2>1, SweepFrame
<1>3. ASSUME NEW s \in Snap, SenderPrune(s) PROVE \A q \in Peers : Sweepable(q)'
  <2>1. holds' = holds /\ step' = step /\ \A q \in Peers : holds[q] \subseteq snaps'
    BY <1>1, <1>3 DEF SenderPrune
  <2> QED BY <1>1, <2>1, SweepFrame
<1>4. ASSUME NEW p \in Peers, Abandon(p) PROVE \A q \in Peers : Sweepable(q)'
  BY <1>1, <1>4, SweepGiveUp DEF Abandon, senderVars
<1>5. ASSUME NEW p \in Peers, NEW i \in Slots, Dispatcher(p, i) PROVE \A q \in Peers : Sweepable(q)'
  BY <1>5, SweepQuiet
  DEF Dispatcher, RecvStart, RecvLand, RecvBreak, AdvanceLastHold, senderVars
<1>6. ASSUME NEW p \in Peers, OldExits(p) PROVE \A q \in Peers : Sweepable(q)'
  BY <1>6, SweepQuiet DEF OldExits, senderVars
<1>7. ASSUME NEW p \in Peers, NEW s \in Snap, RecvPrune(p, s) PROVE \A q \in Peers : Sweepable(q)'
  BY <1>7, SweepQuiet DEF RecvPrune, senderVars
<1>8. CASE UNCHANGED vars
  BY <1>8, SweepQuiet DEF vars, senderVars
<1> QED BY <1>2, <1>3, <1>4, <1>5, <1>6, <1>7, <1>8, SweepPushStep DEF Next

\* The two steps that move a push step from "held" to "ready", or from "recorded" to
\* "idle" without a failure.
LEMMA OnlySweepsRelease ==
  ASSUME TypeInv, [Next]_vars, faults' = faults, NEW p \in Peers
  PROVE  /\ step[p].pc = "held" /\ step'[p].pc = "ready" => SweepStale(p)
         /\ step[p].pc = "recorded" /\ step'[p].pc = "idle" => ReleaseHolds(p)
<1>0. faults \in Nat /\ step \in [Peers -> [pc : StepPcs, listed : SUBSET Snap, plan : PlanType]]
  BY ConstantsAssumption DEF TypeInv, TypeOK
<1>1. CASE step' = step
  BY <1>1
<1>2. ASSUME NEW r \in Peers, PushStep(r), r # p PROVE step'[p] = step[p]
  <2>1. CASE PlanFilesystem(r)
    <3>1. PICK plan : \/ step' = [step EXCEPT
                           ![r].pc = IF plan.discard THEN "discarding" ELSE "planned",
                           ![r].plan = plan]
                      \/ GiveUp(r)
      BY <2>1, Zenon DEF PlanFilesystem
    <3> QED BY <1>0, <1>2, <3>1 DEF GiveUp
  <2>2. CASE ~PlanFilesystem(r)
    BY <1>0, <1>2, <2>2
    DEF PushStep, ListSender, DiscardPartial, PlaceHolds, SweepStale, OpenRecv, ReadResponse,
        AdvanceCursor, SweepCursors, ReleaseHolds, Goto, GiveUp
  <2> QED BY <2>1, <2>2
<1>3. CASE PushStep(p)
  BY <1>3
  DEF PushStep, ListSender, PlanFilesystem, DiscardPartial, PlaceHolds, OpenRecv, ReadResponse,
      AdvanceCursor, SweepCursors, SweepStale, ReleaseHolds
<1>4. ASSUME NEW r \in Peers, Abandon(r) PROVE FALSE
  BY <1>0, <1>4 DEF Abandon, Fault
<1>5. CASE ~\E r \in Peers : PushStep(r) \/ Abandon(r)
  <2>1. CASE TakeSnapshot
    BY <1>1, <2>1 DEF TakeSnapshot
  <2>2. ASSUME NEW s \in Snap, SenderPrune(s) PROVE step' = step
    BY <2>2 DEF SenderPrune
  <2>3. ASSUME NEW r \in Peers, NEW i \in Slots, Dispatcher(r, i) PROVE step' = step
    <3>1. CASE RecvStart(r, i)
      BY <3>1 DEF RecvStart, senderVars
    <3>2. CASE RecvLand(r, i)
      BY <3>2 DEF RecvLand, senderVars
    <3>3. CASE RecvBreak(r, i)
      BY <3>3 DEF RecvBreak, senderVars
    <3>4. CASE AdvanceLastHold(r, i)
      BY <3>4 DEF AdvanceLastHold, senderVars
    <3> QED BY <2>3, <3>1, <3>2, <3>3, <3>4 DEF Dispatcher
  <2>4. ASSUME NEW r \in Peers, OldExits(r) PROVE step' = step
    BY <2>4 DEF OldExits
  <2>5. ASSUME NEW r \in Peers, NEW s \in Snap, RecvPrune(r, s) PROVE step' = step
    BY <2>5 DEF RecvPrune
  <2>6. CASE UNCHANGED vars
    BY <1>1, <2>6 DEF vars
  <2> QED BY <1>1, <1>5, <2>1, <2>2, <2>3, <2>4, <2>5, <2>6 DEF Next
<1> QED BY <1>2, <1>3, <1>4, <1>5

\* Failing cycles do not pile up holds: a sweep that works leaves this peer the two
\* ends of its step, a commit leaves it nothing (holds.rs, sweep_stale, commit).
THEOREM HoldsAreSwept == Spec => HoldsDoNotAccumulate
<1>1. Init => HoldsInv
  BY HoldsInvInit
<1>2. HoldsInv /\ [Next]_vars => HoldsInv'
  BY HoldsInvStep
<1>3. HoldsInv /\ [Next]_vars =>
        [\A p \in Peers : faults' = faults =>
          /\ step[p].pc = "held" /\ step'[p].pc = "ready" => holds'[p] = Keep(p)
          /\ step[p].pc = "recorded" /\ step'[p].pc = "idle" => holds'[p] = {}]_vars
  <2> SUFFICES ASSUME HoldsInv, [Next]_vars, NEW p \in Peers, faults' = faults
               PROVE  /\ step[p].pc = "held" /\ step'[p].pc = "ready" => holds'[p] = Keep(p)
                      /\ step[p].pc = "recorded" /\ step'[p].pc = "idle" => holds'[p] = {}
    BY Zenon
  <2>1. TypeInv /\ SweepSeesHolds(p) /\ faults \in Nat /\ holds \in [Peers -> SUBSET Snap]
    BY ConstantsAssumption DEF HoldsInv, TypeInv, TypeOK
  <2>2. ASSUME NEW keep, ReleaseExcept(p, keep), holds[p] \subseteq Candidates(p)
        PROVE  holds'[p] = holds[p] \cap keep
    BY <2>1, <2>2 DEF ReleaseExcept, Fault
  <2>3. ASSUME step[p].pc = "held", step'[p].pc = "ready" PROVE holds'[p] = Keep(p)
    <3>1. ReleaseExcept(p, Keep(p))
      BY <2>1, <2>3, OnlySweepsRelease DEF SweepStale
    <3>2. holds[p] \subseteq Candidates(p) /\ Keep(p) \subseteq holds[p]
      BY <2>1, <2>3 DEF SweepSeesHolds, HoldsPlaced
    <3> QED BY <2>2, <3>1, <3>2
  <2>4. ASSUME step[p].pc = "recorded", step'[p].pc = "idle" PROVE holds'[p] = {}
    <3>1. ReleaseExcept(p, {})
      BY <2>1, <2>4, OnlySweepsRelease DEF ReleaseHolds
    <3>2. holds[p] \subseteq Candidates(p)
      BY <2>1, <2>4 DEF SweepSeesHolds
    <3> QED BY <2>2, <3>1, <3>2
  <2> QED BY <2>3, <2>4
<1> QED BY <1>1, <1>2, <1>3, PTL DEF Spec, HoldsDoNotAccumulate

----------------------------------------------------------------------------
(***************************************************************************)
(* Refinement.  Every step but a new snapshot, a landing and a receiver's  *)
(* destroying its newest snapshot maps to Forget: it takes nothing, moves  *)
(* no receiver's head and adds no base that was not one.  The anchors say  *)
(* what the intact receivers need kept; HoldsInv says of every peer that   *)
(* what its next cursor records is still a snapshot.                       *)
(***************************************************************************)
RefInv == AnchorInv /\ HoldsInv

ReplicaHead == [p \in Peers |-> IF p \in beheaded THEN NoSnap ELSE Newest(recv[p])]

Forgets ==
  /\ taken' = taken
  /\ snaps' \subseteq snaps
  /\ beheaded' = beheaded
  /\ \A p \in Peers : cursors'[p] \subseteq cursors[p] \cup snaps
  /\ \A p \in Intact : RecvHead(p)' = RecvHead(p)

LEMMA ForgetsIsForget == ASSUME RefInv', Forgets PROVE Replica!Forget
<1>1. snaps' \cup Bookmarks' \subseteq snaps \cup Bookmarks
  BY DEF Forgets, Bookmarks
<1>2. \A p \in Intact : Newest(recv[p])' = Newest(recv[p])
  BY DEF Forgets, RecvHead
<1>3. ReplicaHead' = ReplicaHead
  BY <1>2 DEF ReplicaHead, Forgets, Intact
<1>4. ASSUME NEW p \in Peers, ReplicaHead[p] # 0
      PROVE  ReplicaHead[p] \in snaps' \cup Bookmarks'
  <2>1. p \in Intact /\ p \in Intact' /\ ReplicaHead[p] = Newest(recv[p])
    BY <1>4 DEF ReplicaHead, Intact, NoSnap, Forgets
  <2>2. recv'[p] # {}
    <3>1. Newest(recv[p])' # 0
      BY <1>2, <1>4, <2>1
    <3> QED BY <3>1 DEF Newest, NoSnap
  <2>3. RecvHead(p)' \in holds'[p] \cup cursors'[p] /\ holds'[p] \subseteq snaps'
    BY <2>1, <2>2 DEF RefInv, AnchorInv, Anchor, HeadKept, HeldIsLive
  <2>4. Newest(recv[p]) \in holds'[p] \cup cursors'[p]
    BY <1>2, <2>1, <2>3 DEF RecvHead
  <2> QED BY <2>1, <2>3, <2>4 DEF Bookmarks
<1> QED BY <1>1, <1>3, <1>4 DEF Replica!Forget, Forgets, ReplicaHead

LEMMA ReplicaTake == ASSUME TakeSnapshot PROVE Replica!Take
<1>1. cursors' = cursors /\ recv' = recv /\ taken' = taken + 1
      /\ snaps' = snaps \cup {taken + 1} /\ beheaded' = beheaded
  BY DEF TakeSnapshot, receiverVars
<1>2. Bookmarks' = Bookmarks
  BY <1>1 DEF Bookmarks
<1>3. ReplicaHead' = ReplicaHead
  BY <1>1 DEF Newest, ReplicaHead
<1> QED BY <1>1, <1>2, <1>3 DEF Replica!Take, ReplicaHead

\* A stream that lands at an intact receiver is a delivery.
LEMMA ReplicaDeliver ==
  ASSUME AnchorInv, NEW p \in Peers, p \notin beheaded, NEW i \in Slots, RecvLand(p, i)
  PROVE  Replica!Deliver(p)
<1> DEFINE s == step[p].plan.to
<1>0. TypeInv /\ Anchor(p)
  BY DEF AnchorInv, Intact
<1>1. RecvHead(p)' = s /\ RecvHead(p) < s /\ s \in snaps
  BY <1>0, AnchorRecvLand
<1>2. snaps' = snaps /\ cursors' = cursors /\ taken' = taken /\ beheaded' = beheaded
      /\ \A r \in Peers : r # p => recv'[r] = recv[r]
  BY <1>0, PeerTypes DEF RecvLand, senderVars
<1>3. Bookmarks' = Bookmarks
  BY <1>2 DEF Bookmarks
<1> HIDE DEF s
<1>4. ReplicaHead' = [ReplicaHead EXCEPT ![p] = s] /\ ReplicaHead[p] = RecvHead(p)
  <2>1. \A r \in Peers : Newest(recv[r])' = IF r = p THEN s ELSE Newest(recv[r])
    BY <1>1, <1>2 DEF RecvHead, Newest
  <2>2. ReplicaHead' = [r \in Peers |-> IF r \in beheaded' THEN NoSnap ELSE Newest(recv[r])']
    BY DEF ReplicaHead
  <2> QED BY <1>2, <2>1, <2>2 DEF RecvHead, ReplicaHead
<1>5. s \in snaps \cup Bookmarks /\ s > ReplicaHead[p]
  BY <1>1, <1>4
<1>6. \E x \in snaps \cup Bookmarks :
        x > ReplicaHead[p] /\ ReplicaHead' = [ReplicaHead EXCEPT ![p] = x]
  BY <1>4, <1>5
<1> QED BY <1>2, <1>3, <1>6 DEF Replica!Deliver, ReplicaHead

\* The steps that change neither cursors nor receivers.
LEMMA QuietForgets ==
  ASSUME taken' = taken, snaps' \subseteq snaps, cursors' = cursors, recv' = recv,
         beheaded' = beheaded
  PROVE  Forgets
BY DEF Forgets, RecvHead

\* A receiver that destroys its newest snapshot is lost; one that destroys another
\* snapshot, or is lost already, does nothing that the promise is about.
LEMMA ReplicaPrune ==
  ASSUME TypeInv, NEW p \in Peers, NEW s \in Snap, RecvPrune(p, s)
  PROVE  Forgets \/ Replica!Lose(p)
<1>1. /\ taken' = taken /\ snaps' = snaps /\ cursors' = cursors
      /\ recv' = [recv EXCEPT ![p] = @ \ {s}] /\ s \in recv[p]
      /\ beheaded' = IF s = Newest(recv[p]) THEN beheaded \cup {p} ELSE beheaded
  BY DEF RecvPrune, senderVars
<1>2. /\ recv'[p] = recv[p] \ {s} /\ recv[p] # {}
      /\ \A r \in Peers : r # p => recv'[r] = recv[r]
  BY <1>1, PeerTypes
<1>3. Bookmarks' = Bookmarks
  BY <1>1 DEF Bookmarks
<1>4. CASE s = Newest(recv[p])
  <2>1. beheaded' = beheaded \cup {p}
    BY <1>1, <1>4
  <2>2. \A r \in Peers : r # p => Newest(recv[r])' = Newest(recv[r])
    BY <1>2 DEF Newest
  <2>3. ReplicaHead' = [ReplicaHead EXCEPT ![p] = NoSnap]
    BY <2>1, <2>2 DEF ReplicaHead
  <2> QED BY <1>1, <1>3, <2>1, <2>3 DEF Replica!Lose, ReplicaHead, NoSnap
<1>5. CASE s # Newest(recv[p])
  <2>1. beheaded' = beheaded
    BY <1>1, <1>5
  <2>2. RecvHead(p) \in recv'[p] /\ recv'[p] \in SUBSET Snap
        /\ \A x \in recv'[p] : x <= RecvHead(p)
    BY <1>1, <1>2, <1>5, PeerTypes, HeadIsLast DEF RecvHead
  <2>3. RecvHead(p)' = RecvHead(p)
    <3>1. Newest(recv'[p]) = RecvHead(p)
      BY <2>2, NewestUnique
    <3> QED BY <3>1 DEF RecvHead
  <2>4. \A r \in Peers : RecvHead(r)' = RecvHead(r)
    BY <1>2, <2>3 DEF RecvHead
  <2> QED BY <1>1, <2>1, <2>4 DEF Forgets, Intact
<1> QED BY <1>4, <1>5

LEMMA CursorForgets ==
  ASSUME HoldsInv, NEW p \in Peers, AdvanceCursor(p) \/ SweepCursors(p) PROVE Forgets
<1>0. TypeInv /\ cursors \in [Peers -> SUBSET Snap]
  BY PeerTypes DEF HoldsInv
<1>1. taken' = taken /\ snaps' = snaps /\ recv' = recv /\ beheaded' = beheaded
  BY DEF AdvanceCursor, SweepCursors, receiverVars
<1>2. step[p].pc = "committing" => step[p].plan.to \in snaps
  BY DEF HoldsInv, TargetHeld, HoldsPlaced, HeldIsLive
<1>3. \A r \in Peers : RecvHead(r)' = RecvHead(r)
  BY <1>1 DEF RecvHead
<1>4. \A r \in Peers : cursors'[r] \subseteq cursors[r] \cup snaps
  <2>1. CASE AdvanceCursor(p)
    <3>1. step[p].pc = "committing"
          /\ \/ cursors' = [cursors EXCEPT ![p] = @ \cup {step[p].plan.to}]
             \/ cursors' = cursors
      BY <2>1 DEF AdvanceCursor
    <3>2. \A r \in Peers : cursors'[r] \subseteq cursors[r] \cup {step[p].plan.to}
      BY <1>0, <3>1
    <3> QED BY <1>2, <3>1, <3>2
  <2>2. CASE SweepCursors(p)
    <3>1. \A r \in Peers : cursors'[r] \subseteq cursors[r]
      BY <1>0, <2>2 DEF SweepCursors
    <3> QED BY <3>1
  <2> QED BY <2>1, <2>2
<1> QED BY <1>1, <1>3, <1>4 DEF Forgets, Intact

LEMMA ReplicaStep == RefInv /\ RefInv' /\ [Next]_vars => [Replica!Next]_(Replica!vars)
<1> SUFFICES ASSUME RefInv, RefInv', [Next]_vars
             PROVE  Replica!Next
  OBVIOUS
<1>0. TypeInv /\ HoldsInv /\ AnchorInv
  BY DEF RefInv, AnchorInv
<1>a. Forgets => Replica!Next
  BY ForgetsIsForget DEF Replica!Next
<1>1. CASE TakeSnapshot
  BY <1>1, ReplicaTake DEF Replica!Next
<1>2. ASSUME NEW s \in Snap, SenderPrune(s) PROVE Replica!Next
  <2>1. /\ taken' = taken /\ snaps' \subseteq snaps /\ cursors' = cursors /\ recv' = recv
        /\ beheaded' = beheaded
    BY <1>2 DEF SenderPrune, receiverVars
  <2> QED BY <1>a, <2>1, QuietForgets
<1>3. ASSUME NEW p \in Peers, PushStep(p) PROVE Replica!Next
  <2>1. CASE AdvanceCursor(p) \/ SweepCursors(p)
    BY <1>0, <1>a, <2>1, CursorForgets
  <2>2. CASE ~(AdvanceCursor(p) \/ SweepCursors(p))
    <3>1. /\ taken' = taken /\ snaps' = snaps /\ cursors' = cursors /\ recv' = recv
          /\ beheaded' = beheaded
      BY <1>3, <2>2
      DEF PushStep, ListSender, PlanFilesystem, DiscardPartial, PlaceHolds, SweepStale,
          OpenRecv, ReadResponse, ReleaseHolds, senderVars, receiverVars
    <3> QED BY <1>a, <3>1, QuietForgets
  <2> QED BY <2>1, <2>2
<1>4. ASSUME NEW p \in Peers, Abandon(p) PROVE Replica!Next
  <2>1. /\ taken' = taken /\ snaps' = snaps /\ cursors' = cursors /\ recv' = recv
        /\ beheaded' = beheaded
    BY <1>4 DEF Abandon, senderVars, receiverVars
  <2> QED BY <1>a, <2>1, QuietForgets
<1>5. ASSUME NEW p \in Peers, NEW i \in Slots, Dispatcher(p, i) PROVE Replica!Next
  <2>1. CASE RecvLand(p, i) /\ p \notin beheaded
    BY <1>0, <2>1, ReplicaDeliver DEF Replica!Next
  <2>2. CASE RecvLand(p, i) /\ p \in beheaded
    <3>1. taken' = taken /\ snaps' = snaps /\ cursors' = cursors /\ beheaded' = beheaded
      BY <2>2 DEF RecvLand, senderVars
    <3>2. \A r \in Intact : recv'[r] = recv[r]
      BY <1>0, <2>2, PeerTypes DEF RecvLand, Intact
    <3>3. Forgets
      BY <3>1, <3>2 DEF Forgets, RecvHead
    <3> QED BY <1>a, <3>3
  <2>3. CASE ~RecvLand(p, i)
    <3>1. /\ taken' = taken /\ snaps' = snaps /\ cursors' = cursors /\ recv' = recv
          /\ beheaded' = beheaded
      BY <1>5, <2>3 DEF Dispatcher, RecvStart, RecvBreak, AdvanceLastHold, senderVars
    <3> QED BY <1>a, <3>1, QuietForgets
  <2> QED BY <2>1, <2>2, <2>3
<1>6. ASSUME NEW p \in Peers, OldExits(p) PROVE Replica!Next
  <2>1. /\ taken' = taken /\ snaps' = snaps /\ cursors' = cursors /\ recv' = recv
        /\ beheaded' = beheaded
    BY <1>6 DEF OldExits, senderVars, receiverVars
  <2> QED BY <1>a, <2>1, QuietForgets
<1>7. ASSUME NEW p \in Peers, NEW s \in Snap, RecvPrune(p, s) PROVE Replica!Next
  BY <1>0, <1>a, <1>7, ReplicaPrune DEF Replica!Next
<1>8. CASE UNCHANGED vars
  <2>1. /\ taken' = taken /\ snaps' = snaps /\ cursors' = cursors /\ recv' = recv
        /\ beheaded' = beheaded
    BY <1>8 DEF vars, senderVars, receiverVars
  <2> QED BY <1>a, <2>1, QuietForgets
<1> QED BY <1>1, <1>2, <1>3, <1>4, <1>5, <1>6, <1>7, <1>8 DEF Next

LEMMA ReplicaInit == Init => Replica!Init
<1> SUFFICES ASSUME Init PROVE Replica!Init
  OBVIOUS
<1>1. taken = 0 /\ snaps \cup Bookmarks = {} /\ beheaded = {}
  BY DEF Init, Bookmarks
<1>2. ReplicaHead = [p \in Peers |-> 0]
  BY DEF Init, Newest, NoSnap, ReplicaHead
<1> QED BY <1>1, <1>2 DEF Replica!Init, ReplicaHead

\* The whole protocol, holds, cursors, dispatchers, prunes, crashes and all, does
\* nothing but take snapshots, forget what no intact receiver's head needs, move an
\* intact receiver forward to a snapshot the sender still has, and lose a receiver that
\* destroys its own newest snapshot (push/mod.rs, holds.rs, recv.rs, jobs/mod.rs).
THEOREM ReplicationImplementsReplica == ASSUME Scope PROVE Spec => ImplementsReplica
<1>1. RefInv /\ RefInv' /\ [Next]_vars => [Replica!Next]_(Replica!vars)
  BY ReplicaStep
<1>2. Init => Replica!Init
  BY ReplicaInit
<1>3. Spec => []AnchorInv
  BY AnchorInvariant
<1>4. Init => HoldsInv
  BY HoldsInvInit
<1>5. HoldsInv /\ [Next]_vars => HoldsInv'
  BY HoldsInvStep
<1>6. AnchorInv /\ HoldsInv => RefInv
  BY DEF RefInv
<1> QED BY <1>1, <1>2, <1>3, <1>4, <1>5, <1>6, PTL DEF Spec, ImplementsReplica, Replica!Spec

-----------------------------------------------------------------------------
(***************************************************************************)
(* The planner, for a receiver that has a partial receive.                 *)
(***************************************************************************)

\* A plan that may be carried out on top of the partial receive part: either it
\* resumes just that, or it discards it first.
MeetsPartial(plan, part) ==
  plan.kind \in SendKinds =>
    plan.discard = TRUE \/ (plan.kind = "resume" /\ plan.to = part.to)

LEMMA PlanMakesRecord ==
  ASSUME NEW kind, NEW from, NEW to, NEW discard
  PROVE  /\ Plan(kind, from, to, discard).kind = kind
         /\ Plan(kind, from, to, discard).from = from
         /\ Plan(kind, from, to, discard).to = to
         /\ Plan(kind, from, to, discard).discard = discard
BY DEF Plan

LEMMA PickPlanDiscards ==
  ASSUME NEW S, NEW R, NEW mode, NEW part
  PROVE  MeetsPartial(PickPlan(S, R, TRUE, mode), part)
<1> DEFINE plan == PickPlan(S, R, TRUE, mode)
           kind == IF mode = "all" /\ {s \in S : Max(S \cap R) < s /\ s < Max(S)} # {}
                   THEN "incremental_all" ELSE "incremental"
<1>1. \/ plan = Nothing
      \/ plan = Plan("full", NoSnap, FullTarget(S, mode), TRUE)
      \/ plan = Plan(kind, Max(S \cap R), Max(S), TRUE)
  BY DEF PickPlan
<1> HIDE DEF kind, plan
<1>2. plan.kind \notin SendKinds \/ plan.discard = TRUE
  <2>1. CASE plan = Nothing
    BY <2>1 DEF Nothing, Plan, SendKinds
  <2>2. CASE plan = Plan("full", NoSnap, FullTarget(S, mode), TRUE)
    BY <2>2 DEF Plan
  <2>3. CASE plan = Plan(kind, Max(S \cap R), Max(S), TRUE)
    BY <2>3 DEF Plan
  <2> QED BY <1>1, <2>1, <2>2, <2>3
<1>3. MeetsPartial(plan, part)
  BY <1>2 DEF MeetsPartial
<1> QED BY <1>3 DEF plan

LEMMA FallbackMeetsPartial ==
  ASSUME NEW S, NEW R, NEW B, NEW mode, NEW part, NEW plan, MeetsPartial(plan, part)
  PROVE  MeetsPartial(BookmarkFallback(plan, S, R, B, mode), part)
<1> DEFINE best == Max(B \cap R)
           to   == IF mode = "latest" THEN plan.to ELSE Min({s \in S : s > best})
           based == BookmarkFallback(plan, S, R, B, mode)
<1>1. \/ based = plan
      \/ based = Nothing
      \/ /\ plan.kind \in SnapshotBased \cup {"full"}
         /\ based = Plan("bookmark", best, to, plan.discard)
  BY DEF BookmarkFallback
<1> HIDE DEF based, best, to
<1>2. Nothing.kind \notin SendKinds
  BY DEF Nothing, Plan, SendKinds
<1>3. CASE /\ plan.kind \in SnapshotBased \cup {"full"}
           /\ based = Plan("bookmark", best, to, plan.discard)
  <2>1. plan.discard = TRUE
    BY <1>3 DEF MeetsPartial, SendKinds, SnapshotBased
  <2>2. based.discard = TRUE
    BY <1>3, <2>1, PlanMakesRecord
  <2>3. MeetsPartial(based, part)
    BY <2>2 DEF MeetsPartial
  <2> QED BY <2>3 DEF based
<1>4. CASE based = plan \/ based = Nothing
  <2>1. MeetsPartial(based, part)
    BY <1>2, <1>4 DEF MeetsPartial
  <2> QED BY <2>1 DEF based
<1> QED BY <1>1, <1>3, <1>4

\* With a partial receive in sight, the planner resumes it or has it discarded
\* (pick_plan_with_token, and the failed decode, plan.rs).
LEMMA PlanMeetsPartial ==
  ASSUME NEW S, NEW R, NEW B, NEW resumeB, NEW part, part # NoToken, NEW ex,
         NEW decodes \in BOOLEAN, NEW listed \in BOOLEAN, NEW mode
  PROVE  MeetsPartial(PlanOne(S, R, part, ex, decodes, resumeB, B, listed, mode), part)
<1> DEFINE picked == IF part # NoToken /\ decodes
                     THEN PickPlanWithToken(S, R, part, resumeB, mode)
                     ELSE PickPlan(S, R, part # NoToken, mode)
           based  == IF listed THEN BookmarkFallback(picked, S, R, B, mode) ELSE picked
           plan   == PlanOne(S, R, part, ex, decodes, resumeB, B, listed, mode)
<1>1. MeetsPartial(picked, part)
  <2>1. \/ picked = Plan("resume", part.from, part.to, FALSE)
        \/ picked = PickPlan(S, R, TRUE, mode)
    BY DEF PickPlanWithToken
  <2>2. MeetsPartial(Plan("resume", part.from, part.to, FALSE), part)
    BY DEF MeetsPartial, Plan
  <2>3. MeetsPartial(PickPlan(S, R, TRUE, mode), part)
    BY PickPlanDiscards
  <2> HIDE DEF picked
  <2> QED BY <2>1, <2>2, <2>3
<1>2. MeetsPartial(based, part)
  <2> HIDE DEF picked
  <2> QED BY <1>1, FallbackMeetsPartial
<1>3. plan = based \/ plan.kind \notin SendKinds
  <2> HIDE DEF picked
  <2>1. CASE S = {}
    BY <2>1 DEF PlanOne, Nothing, Plan, SendKinds
  <2>2. CASE S # {}
    <3>1. plan = RejectUnreceivableFull(based, R, ex)
      BY <2>2 DEF PlanOne, picked
    <3> HIDE DEF plan, based
    <3> QED BY <3>1 DEF RejectUnreceivableFull, Plan, SendKinds
  <2> QED BY <2>1, <2>2
<1> HIDE DEF plan, based
<1>4. MeetsPartial(plan, part)
  BY <1>2, <1>3 DEF MeetsPartial
<1> QED BY <1>4 DEF plan

\* Between two steps, when the receiver's newest snapshot h is a base on the sender
\* and what it has only begun can be resumed, the planner finds a plan that applies.
Applies(plan, h) ==
  /\ plan.kind \notin {"diverged", "placeholder"}
  /\ plan.kind \in SnapshotBased \cup {"bookmark", "resume"} => plan.from = h

LEMMA FreshPlanApplies ==
  ASSUME NEW N \in Nat, NEW S \in SUBSET (1..N), NEW R \in SUBSET (1..N),
         NEW B \in SUBSET (1..N), NEW tok, NEW ex \in BOOLEAN, NEW mode \in Modes,
         NEW h, R = {} => h = NoSnap,
         R # {} => h \in R /\ (\A s \in R : s <= h) /\ h \in S \cup B,
         tok # NoToken => tok.from = h /\ Resumable(tok, S, B),
         ex => R # {} \/ tok # NoToken
  PROVE  Applies(PlanOne(S, R, tok, ex, TRUE, B, B, TRUE, mode), h)
<1> DEFINE picked == IF tok # NoToken /\ TRUE
                     THEN PickPlanWithToken(S, R, tok, B, mode)
                     ELSE PickPlan(S, R, tok # NoToken, mode)
           based  == IF TRUE THEN BookmarkFallback(picked, S, R, B, mode) ELSE picked
           plan   == PlanOne(S, R, tok, ex, TRUE, B, B, TRUE, mode)
           Good(x) == /\ x.kind \notin {"diverged", "placeholder"}
                      /\ x.kind \in SnapshotBased \cup {"bookmark", "resume"} => x.from = h
<1> SUFFICES Good(plan)
  BY DEF Applies
<1>0. S \subseteq Int /\ R \subseteq Int /\ B \subseteq Int
  OBVIOUS
<1>1. CASE S = {}
  BY <1>1 DEF PlanOne, Nothing, Plan, SnapshotBased
<1>2. CASE S # {} /\ tok # NoToken
  <2>1. picked = Plan("resume", h, tok.to, FALSE)
    BY <1>2 DEF PickPlanWithToken
  <2>2. based = picked
    <3> HIDE DEF picked
    <3> QED BY <2>1 DEF BookmarkFallback, Plan, SnapshotBased
  <2>3. plan = based
    <3>1. plan = RejectUnreceivableFull(based, R, ex)
      BY <1>2 DEF PlanOne
    <3> HIDE DEF plan, based, picked
    <3> QED BY <2>1, <2>2, <3>1 DEF RejectUnreceivableFull, Plan
  <2> HIDE DEF plan, based, picked
  <2> QED BY <2>1, <2>2, <2>3 DEF Plan
<1>3. CASE S # {} /\ tok = NoToken
  <2>0. /\ picked = PickPlan(S, R, FALSE, mode) /\ based = BookmarkFallback(picked, S, R, B, mode)
        /\ plan = RejectUnreceivableFull(based, R, ex)
    BY <1>3 DEF PlanOne
  <2> HIDE DEF plan, based, picked
  <2>1. CASE R = {}
    <3>1. S \cap R = {} /\ B \cap R = {}
      BY <2>1
    <3>2. picked = Plan("full", NoSnap, FullTarget(S, mode), FALSE)
      BY <1>3, <2>0, <3>1 DEF PickPlan
    <3>3. based = picked
      BY <2>0, <3>1 DEF BookmarkFallback
    <3>4. plan = picked
      BY <1>3, <2>0, <2>1, <3>3 DEF RejectUnreceivableFull
    <3> QED BY <3>2, <3>4 DEF Plan, SnapshotBased
  <2>2. CASE R # {} /\ h \in S
    <3>1. S \cap R # {} /\ S \cap R \in SUBSET (1..N)
      BY <2>2
    <3>2. Max(S \cap R) = h
      <4>1. Max(S \cap R) \in S \cap R /\ \A s \in S \cap R : s <= Max(S \cap R)
        BY <3>1, MaxIsNewest
      <4>2. Max(S \cap R) <= h /\ h <= Max(S \cap R) /\ h \in Int /\ Max(S \cap R) \in Int
        BY <1>0, <2>2, <4>1
      <4> QED BY <4>2
    <3> DEFINE kind == IF mode = "all" /\ {s \in S : h < s /\ s < Max(S)} # {}
                       THEN "incremental_all" ELSE "incremental"
    <3>3. picked = Nothing \/ picked = Plan(kind, h, Max(S), FALSE)
      BY <1>3, <2>0, <3>1, <3>2 DEF PickPlan
    <3>4. kind \in SnapshotBased
      BY DEF SnapshotBased
    <3> HIDE DEF kind
    <3>5. based = picked
      <4>1. CASE picked = Nothing
        <5>1. picked.kind = "nothing"
          BY <4>1 DEF Nothing, Plan
        <5> QED BY <2>0, <5>1 DEF BookmarkFallback, SnapshotBased
      <4>2. CASE picked.from = h
        <5>1. B \cap R # {} => ~(Max(B \cap R) > h)
          <6>1. SUFFICES ASSUME B \cap R # {} PROVE ~(Max(B \cap R) > h)
            OBVIOUS
          <6>2. B \cap R \in SUBSET (1..N)
            OBVIOUS
          <6>3. Max(B \cap R) \in R
            BY <6>1, <6>2, MaxIsNewest
          <6>4. Max(B \cap R) <= h /\ Max(B \cap R) \in Int /\ h \in Int
            BY <1>0, <2>2, <6>3
          <6> QED BY <6>4
        <5> QED BY <2>0, <4>2, <5>1 DEF BookmarkFallback
      <4> QED BY <3>3, <4>1, <4>2 DEF Plan
    <3>6. plan = picked
      <4>1. picked.kind # "full"
        BY <3>3, <3>4 DEF Nothing, Plan, SnapshotBased
      <4> QED BY <2>0, <3>5, <4>1 DEF RejectUnreceivableFull
    <3> QED BY <3>3, <3>4, <3>6 DEF Nothing, Plan, SnapshotBased
  <2>3. CASE R # {} /\ h \notin S
    <3>1. B \cap R # {} /\ Max(B \cap R) = h
      <4>1. h \in B \cap R /\ B \cap R \in SUBSET (1..N)
        BY <2>3
      <4>2. Max(B \cap R) \in B \cap R /\ \A s \in B \cap R : s <= Max(B \cap R)
        BY <4>1, MaxIsNewest
      <4>3. Max(B \cap R) <= h /\ h <= Max(B \cap R) /\ h \in Int /\ Max(B \cap R) \in Int
        BY <1>0, <2>3, <4>1, <4>2
      <4> QED BY <4>1, <4>3
    <3>2. \/ picked = Nothing
          \/ picked.kind \in SnapshotBased \cup {"full"} /\ h > picked.from
      <4>1. WellFormed(picked, S, R, B, tok, mode)
            /\ picked.kind \in {"nothing", "full", "incremental", "incremental_all"}
        <5>1. FALSE \in BOOLEAN
          OBVIOUS
        <5> QED BY <2>0, <5>1, PickPlanWellFormed
      <4>2. CASE picked.kind = "full"
        <5>1. picked.from = 0 /\ h \in 1..N
          BY <2>3, <4>1, <4>2 DEF WellFormed, SnapshotBased, NoSnap
        <5> QED BY <4>2, <5>1
      <4>3. CASE picked.kind \in SnapshotBased
        <5>1. picked.from \in S \cap R
          BY <4>1, <4>3 DEF WellFormed
        <5>2. picked.from <= h /\ picked.from # h /\ h \in Int /\ picked.from \in Int
          BY <1>0, <2>3, <5>1
        <5> QED BY <4>3, <5>2
      <4>4. CASE picked.kind = "nothing"
        BY <2>0, <4>4 DEF PickPlan, Plan, Nothing
      <4> QED BY <4>1, <4>2, <4>3, <4>4 DEF SnapshotBased
    <3> DEFINE to == IF mode = "latest" THEN picked.to ELSE Min({s \in S : s > h})
    <3>3. \/ based = Nothing
          \/ based = Plan("bookmark", h, to, picked.discard)
      <4>1. CASE picked = Nothing
        <5>1. picked.kind = "nothing"
          BY <4>1 DEF Nothing, Plan
        <5>2. based = picked
          BY <2>0, <5>1 DEF BookmarkFallback, SnapshotBased
        <5> QED BY <4>1, <5>2
      <4>2. CASE picked.kind \in SnapshotBased \cup {"full"} /\ h > picked.from
        BY <2>0, <3>1, <4>2 DEF BookmarkFallback
      <4> QED BY <3>2, <4>1, <4>2
    <3> HIDE DEF to
    <3>4. plan = based
      <4>1. based.kind # "full"
        BY <3>3 DEF Nothing, Plan
      <4> QED BY <2>0, <4>1 DEF RejectUnreceivableFull
    <3> QED BY <3>3, <3>4 DEF Nothing, Plan, SnapshotBased
  <2> QED BY <2>1, <2>2, <2>3
<1> QED BY <1>1, <1>2, <1>3

----------------------------------------------------------------------------
(***************************************************************************)
(* IInv is inductive.  What a step leaves alone first.                     *)
(***************************************************************************)
LEMMA PartialInit == Init => \A p \in Peers : Partial(p)
BY DEF Init, Partial, PartialHeld, ContentExists, PartialIsTarget, CommitIsClean, Idle,
       NoDisp, Slots

\* A peer whose step, partial receive and target are not touched.
LEMMA PartialFrame ==
  ASSUME NEW q \in Peers, Partial(q), token'[q] = token[q], exists'[q] = exists[q],
         recv[q] # {} => recv'[q] # {}, holds'[q] = holds[q], step'[q] = step[q],
         disp'[q]["current"].pc \in {"landed", "ok"} =>
           disp[q]["current"].pc \in {"landed", "ok"}
  PROVE  Partial(q)'
BY DEF Partial, PartialHeld, ContentExists, PartialIsTarget, CommitIsClean

\* A step that changes the sender alone, or its own progress.
LEMMA PartialSender ==
  ASSUME NEW p \in Peers, Partial(p), token'[p] = token[p], exists'[p] = exists[p],
         recv'[p] = recv[p],
         token[p] # NoToken => token[p].to \in holds'[p],
         token[p] # NoToken /\ step'[p].pc \in {"planned", "held", "ready", "sending"} =>
           step'[p].plan.to = token[p].to,
         (\/ step'[p].pc \in {"committing", "advanced", "recorded"}
          \/ disp'[p]["current"].pc \in {"landed", "ok"}) => token[p] = NoToken
  PROVE  Partial(p)'
BY DEF Partial, PartialHeld, ContentExists, PartialIsTarget, CommitIsClean

\* A step that is given up, and does not lose the hold on a partial receive.
LEMMA PartialGiveUp ==
  ASSUME TypeInv, NEW p \in Peers, Partial(p), GiveUp(p),
         token' = token, exists' = exists, recv' = recv,
         token[p] # NoToken => token[p].to \in holds'[p],
         disp'[p]["current"].pc \notin {"landed", "ok"}
  PROVE  Partial(p)'
<1>1. step'[p] = Idle
  BY PeerTypes DEF GiveUp
<1> QED BY <1>1, PartialSender DEF Idle

----------------------------------------------------------------------------
(***************************************************************************)
(* The push step.                                                          *)
(***************************************************************************)
LEMMA PartialPlanFilesystem ==
  ASSUME TypeInv, "token_query" \notin Faults, NEW p \in Peers, Anchor(p), Partial(p),
         PlanFilesystem(p)
  PROVE  Partial(p)'
<1>1. PICK decodes \in BOOLEAN, listed \in BOOLEAN, listedAgain \in BOOLEAN :
        LET plan == PlanSeen(p, token[p], decodes, listed, listedAgain)
        IN  IF plan.kind \in SendKinds
            THEN step' = [step EXCEPT
                   ![p].pc = IF plan.discard THEN "discarding" ELSE "planned",
                   ![p].plan = plan]
            ELSE GiveUp(p)
  <2>1. PICK seen \in SeenTokens(p), decodes \in BOOLEAN, listed \in BOOLEAN,
             listedAgain \in BOOLEAN :
          LET plan == PlanSeen(p, seen, decodes, listed, listedAgain)
          IN  /\ IF seen = token[p] /\ decodes /\ listed /\ listedAgain
                 THEN NoFault ELSE Fault
              /\ IF plan.kind \in SendKinds
                 THEN step' = [step EXCEPT
                        ![p].pc = IF plan.discard THEN "discarding" ELSE "planned",
                        ![p].plan = plan]
                 ELSE GiveUp(p)
    BY Zenon DEF PlanFilesystem
  <2>2. seen = token[p]
    BY DEF SeenTokens
  <2> QED BY <2>1, <2>2
<1> DEFINE plan == PlanSeen(p, token[p], decodes, listed, listedAgain)
<1>2. /\ holds' = holds /\ recv' = recv /\ exists' = exists /\ token' = token /\ disp' = disp
      /\ cursors' = cursors /\ step[p].pc = "listed"
  BY DEF PlanFilesystem, senderVars, receiverVars
<1>3. /\ disp[p]["current"].pc = "none"
      /\ (token[p] # NoToken => token[p].to \in holds[p])
  BY <1>2, NoDispatcherYet DEF Partial, PartialHeld
<1>5. CASE plan.kind \in SendKinds
  <2>1. /\ step'[p].pc = IF plan.discard THEN "discarding" ELSE "planned"
        /\ step'[p].plan = plan
    BY <1>1, <1>5, PeerTypes
  <2>2. token[p] # NoToken => MeetsPartial(plan, token[p])
    BY PlanMeetsPartial DEF PlanSeen
  <2> HIDE DEF plan
  <2>3. token[p] # NoToken /\ step'[p].pc = "planned" => plan.to = token[p].to
    BY <1>5, <2>1, <2>2 DEF MeetsPartial
  <2>4. step'[p].pc \in {"discarding", "planned"}
    BY <2>1
  <2> QED BY <1>2, <1>3, <2>1, <2>3, <2>4, PartialSender
<1>6. CASE plan.kind \notin SendKinds
  <2>1. GiveUp(p)
    BY <1>1, <1>6
  <2> QED BY <1>2, <1>3, <2>1, PartialGiveUp
<1> QED BY <1>5, <1>6

LEMMA PartialDiscardPartial ==
  ASSUME TypeInv, NEW p \in Peers, Anchor(p), Partial(p), DiscardPartial(p) PROVE Partial(p)'
<1>1. /\ holds' = holds /\ cursors' = cursors /\ recv' = recv /\ disp' = disp
      /\ step[p].pc = "discarding" /\ disp[p]["current"].pc = "none"
  BY NoDispatcherYet DEF DiscardPartial, senderVars
<1>2. CASE GiveUp(p) /\ UNCHANGED <<token, exists>>
  <2> QED BY <1>1, <1>2, PartialGiveUp DEF Partial, PartialHeld
<1>3. CASE /\ token' = [token EXCEPT ![p] = NoToken]
           /\ exists' = [exists EXCEPT ![p] = ExistsAfterAbort(p)]
           /\ Goto(p, "planned")
  <2>1. /\ token'[p] = NoToken /\ exists'[p] = ExistsAfterAbort(p)
    BY <1>3, PeerTypes DEF Goto
  <2>2. ContentExists(p)'
    BY <1>1, <2>1 DEF Partial, ContentExists, ExistsAfterAbort
  <2> QED BY <2>1, <2>2 DEF Partial, PartialHeld, PartialIsTarget, CommitIsClean
<1> QED BY <1>2, <1>3 DEF DiscardPartial

LEMMA PartialPlaceHolds ==
  ASSUME TypeInv, NEW p \in Peers, Anchor(p), Partial(p), PlaceHolds(p) PROVE Partial(p)'
<1>1. /\ cursors' = cursors /\ recv' = recv /\ exists' = exists /\ token' = token
      /\ disp' = disp /\ step[p].pc = "planned" /\ disp[p]["current"].pc = "none"
  BY NoDispatcherYet DEF PlaceHolds, receiverVars
<1>2. /\ holds[p] \subseteq holds'[p]
  BY PeerTypes DEF PlaceHolds
<1>3. token[p] # NoToken => token[p].to \in holds'[p] /\ step[p].plan.to = token[p].to
  BY <1>1, <1>2 DEF Partial, PartialHeld, PartialIsTarget
<1>4. CASE Goto(p, "held")
  <2>1. /\ step'[p].pc = "held" /\ step'[p].plan = step[p].plan
    BY <1>4, PeerTypes DEF Goto
  <2> QED BY <1>1, <1>3, <2>1, PartialSender
<1>5. CASE GiveUp(p)
  <2> QED BY <1>1, <1>3, <1>5, PartialGiveUp
<1> QED BY <1>4, <1>5 DEF PlaceHolds

\* The sweep before the stream spares the target, which is what a resume waits for.
LEMMA PartialSweepStale ==
  ASSUME TypeInv, NEW p \in Peers, Anchor(p), Partial(p), SweepStale(p) PROVE Partial(p)'
<1>1. /\ cursors' = cursors /\ recv' = recv /\ exists' = exists /\ token' = token
      /\ disp' = disp /\ step[p].pc = "held" /\ disp[p]["current"].pc = "none"
      /\ Goto(p, "ready") /\ ReleaseExcept(p, Keep(p))
  BY NoDispatcherYet DEF SweepStale, receiverVars
<1>2. /\ step'[p].pc = "ready" /\ step'[p].plan = step[p].plan
  BY <1>1, PeerTypes DEF Goto
<1>3. holds[p] \cap Keep(p) \subseteq holds'[p]
  BY <1>1, ReleaseKeeps
<1>4. token[p] # NoToken =>
        token[p].to \in holds[p] \cap Keep(p) /\ step[p].plan.to = token[p].to
  BY <1>1 DEF Partial, PartialHeld, PartialIsTarget, Keep
<1> QED BY <1>1, <1>2, <1>3, <1>4, PartialSender

LEMMA PartialOpenRecv ==
  ASSUME TypeInv, NEW p \in Peers, Anchor(p), Partial(p), OpenRecv(p) PROVE Partial(p)'
<1>0. "current" \in Slots
  BY DEF Slots
<1>1. /\ holds' = holds /\ cursors' = cursors /\ recv' = recv /\ exists' = exists
      /\ token' = token /\ step[p].pc = "ready" /\ disp[p]["current"].pc = "none"
  BY <1>0, NoDispatcherYet DEF OpenRecv, senderVars, receiverVars
<1>2. token[p] # NoToken => token[p].to \in holds[p] /\ step[p].plan.to = token[p].to
  BY <1>0, <1>1 DEF Partial, PartialHeld, PartialIsTarget
<1>3. CASE SendPossible(p)
  <2> DEFINE d == [pc |-> "open", kind |-> step[p].plan.kind,
                   from |-> step[p].plan.from, to |-> step[p].plan.to,
                   rest |-> Carried(p), discard |-> step[p].plan.discard]
  <2>1. Goto(p, "sending") /\ SetDisp(p, "current", d)
    BY <1>3 DEF OpenRecv
  <2>2. d \in DispType
    BY <1>0, <1>1, <1>3, CarriedType DEF TypeInv, TypeOK, PlanType, DispType, DispPcs
  <2>3. d.pc = "open"
    OBVIOUS
  <2> HIDE DEF d
  <2>4. disp'[p]["current"] = d
    BY <1>0, <2>1, <2>2, OneDispatcher
  <2>5. /\ step'[p].pc = "sending" /\ step'[p].plan = step[p].plan
    BY <2>1, PeerTypes DEF Goto
  <2> QED BY <1>0, <1>1, <1>2, <2>3, <2>4, <2>5, PartialSender
<1>4. CASE ~SendPossible(p)
  <2>1. GiveUp(p) /\ disp' = disp
    BY <1>4 DEF OpenRecv
  <2> QED BY <1>1, <1>2, <2>1, PartialGiveUp
<1> QED BY <1>3, <1>4

LEMMA PartialReadResponse ==
  ASSUME TypeInv, NEW p \in Peers, Anchor(p), Partial(p), ReadResponse(p) PROVE Partial(p)'
<1>0. "current" \in Slots
  BY DEF Slots
<1>1. /\ holds' = holds /\ cursors' = cursors /\ recv' = recv /\ exists' = exists
      /\ token' = token /\ SetDisp(p, "current", NoDisp)
  BY DEF ReadResponse, senderVars, receiverVars
<1>2. disp'[p]["current"] = NoDisp
  BY <1>0, <1>1, NoDispType, OneDispatcher
<1>3. token[p] # NoToken => token[p].to \in holds[p]
  BY <1>0 DEF Partial, PartialHeld
<1>4. CASE disp[p]["current"].pc = "ok" /\ Goto(p, "committing")
  <2>1. token[p] = NoToken
    BY <1>0, <1>4 DEF Partial, CommitIsClean
  <2> QED BY <1>0, <1>1, <2>1, PartialSender
<1>5. CASE GiveUp(p)
  <2> QED BY <1>1, <1>2, <1>3, <1>5, PartialGiveUp DEF NoDisp
<1> QED BY <1>4, <1>5 DEF ReadResponse

\* A commit finds nothing to resume, so the holds it takes off are not missed.
LEMMA PartialCommit ==
  ASSUME TypeInv, NEW p \in Peers, Anchor(p), Partial(p),
         AdvanceCursor(p) \/ SweepCursors(p) \/ ReleaseHolds(p)
  PROVE  Partial(p)'
<1>1. /\ recv' = recv /\ exists' = exists /\ token' = token /\ disp' = disp
      /\ step[p].pc \in {"committing", "advanced", "recorded"}
  BY DEF AdvanceCursor, SweepCursors, ReleaseHolds, receiverVars
<1>2. token[p] = NoToken
  BY <1>1 DEF Partial, CommitIsClean
<1> QED BY <1>1, <1>2, PartialSender

LEMMA PartialAbandon ==
  ASSUME TypeInv, NEW p \in Peers, Partial(p), Abandon(p) PROVE Partial(p)'
<1>0. "current" \in Slots
  BY DEF Slots
<1>1. /\ holds' = holds /\ cursors' = cursors /\ recv' = recv /\ exists' = exists
      /\ token' = token /\ GiveUp(p)
  BY DEF Abandon, senderVars, receiverVars
<1>2. disp'[p]["current"] = NoDisp
  <2>1. CASE disp' = [disp EXCEPT ![p] = [current |-> NoDisp, old |-> disp[p]["current"]]]
    BY <1>0, <2>1, PeerTypes
  <2>2. CASE SetDisp(p, "current", NoDisp)
    BY <1>0, <2>2, NoDispType, OneDispatcher
  <2> QED BY <2>1, <2>2 DEF Abandon
<1> QED BY <1>0, <1>1, <1>2, PartialGiveUp DEF Partial, PartialHeld, NoDisp

----------------------------------------------------------------------------
(***************************************************************************)
(* The dispatchers.                                                        *)
(***************************************************************************)
LEMMA PartialRecvStart ==
  ASSUME TypeInv, NEW p \in Peers, Anchor(p), Partial(p), NEW i \in Slots, RecvStart(p, i)
  PROVE  Partial(p)'
<1> DEFINE d      == disp[p]["current"]
           tok    == IF d.discard THEN NoToken ELSE token[p]
           ex     == IF d.discard THEN ExistsAfterAbort(p) ELSE exists[p]
           ended  == [d EXCEPT !.pc = "failed"]
           active == [d EXCEPT !.pc = "receiving"]
<1>0. "current" \in Slots
  BY DEF Slots
<1>1. i = "current" /\ d.pc = "open"
  BY <1>0 DEF RecvStart, Anchor, OldIsDone, Slots
<1>2. /\ holds' = holds /\ cursors' = cursors /\ recv' = recv /\ step' = step
  BY DEF RecvStart, senderVars
<1>3. /\ step[p].pc = "sending" /\ d.to = step[p].plan.to /\ d.rest = {d.to}
      /\ step[p].plan.to \in holds[p] /\ step[p].plan.to \in Snap
  BY <1>0, <1>1, Serving DEF Anchor, DispatcherServesStep
<1>4. /\ ended \in DispType /\ active \in DispType
      /\ ended.pc = "failed" /\ active.pc = "receiving"
  <2>1. d \in DispType /\ {"failed", "receiving"} \subseteq DispPcs
    BY <1>0, DispatcherType DEF DispPcs
  <2> HIDE DEF d
  <2> QED BY <2>1, DispatcherMoves
<1>5. CASE /\ SetDisp(p, "current", ended)
           /\ \/ UNCHANGED <<token, exists>>
              \/ /\ token' = [token EXCEPT ![p] = tok]
                 /\ exists' = [exists EXCEPT ![p] = ex]
  <2>1. /\ \/ token'[p] = token[p] /\ exists'[p] = exists[p]
           \/ token'[p] = NoToken /\ exists'[p] = ExistsAfterAbort(p)
    BY <1>0, <1>5, PeerTypes
  <2> HIDE DEF ended, tok, ex, d
  <2>2. /\ disp'[p]["current"] = ended
    BY <1>0, <1>4, <1>5, OneDispatcher
  <2>3. ContentExists(p)'
    BY <1>0, <1>2, <2>1 DEF Partial, ContentExists, ExistsAfterAbort
  <2> QED BY <1>0, <1>2, <1>3, <1>4, <2>1, <2>2, <2>3
    DEF Partial, PartialHeld, PartialIsTarget, CommitIsClean
<1>6. CASE /\ token' = [token EXCEPT ![p] = [to |-> Min(d.rest), from |-> d.from]]
           /\ exists' = [exists EXCEPT ![p] = TRUE]
           /\ SetDisp(p, "current", active)
  <2>1. Min(d.rest) = step[p].plan.to
    <3>1. d.rest \in SUBSET Snap /\ d.rest # {}
      BY <1>3
    <3> QED BY <1>3, <3>1, FirstOfRest
  <2>2. /\ token'[p] = [to |-> step[p].plan.to, from |-> d.from]
    BY <1>0, <1>6, <2>1, PeerTypes
  <2>3. token'[p].to = step[p].plan.to /\ token'[p] # NoToken
    BY <1>3, <2>2, ConstantsAssumption DEF NoToken, NoSnap, Snap
  <2> HIDE DEF active, d
  <2>4. /\ disp'[p]["current"] = active
    BY <1>0, <1>4, <1>6, OneDispatcher
  <2> QED BY <1>2, <1>3, <1>4, <2>3, <2>4
    DEF Partial, PartialHeld, ContentExists, PartialIsTarget, CommitIsClean
<1> QED BY <1>1, <1>5, <1>6 DEF RecvStart

LEMMA PartialRecvLand ==
  ASSUME TypeInv, NEW p \in Peers, Anchor(p), Partial(p), NEW i \in Slots, RecvLand(p, i)
  PROVE  Partial(p)'
<1> DEFINE d == disp[p]["current"]
<1>0. "current" \in Slots
  BY DEF Slots
<1>1. i = "current" /\ d.pc = "receiving"
  BY <1>0 DEF RecvLand, Anchor, OldIsDone, Slots
<1>2. /\ holds' = holds /\ cursors' = cursors /\ exists' = exists /\ step' = step
  BY DEF RecvLand, senderVars
<1>3. /\ step[p].pc = "sending" /\ d.rest = {d.to} /\ token[p].to = d.to
  BY <1>0, <1>1, Serving DEF Anchor, DispatcherServesStep
<1>4. token' = [token EXCEPT ![p] = NoToken]
  <2>1. d.rest \ {token[p].to} = {}
    BY <1>3
  <2> QED BY <1>1, <2>1 DEF RecvLand
<1>5. /\ token'[p] = NoToken /\ recv'[p] # {}
  BY <1>0, <1>4, PeerTypes DEF RecvLand, SetDisp
<1> QED BY <1>2, <1>3, <1>5 DEF Partial, PartialHeld, ContentExists, PartialIsTarget, CommitIsClean

LEMMA PartialRecvBreak ==
  ASSUME TypeInv, NEW p \in Peers, Anchor(p), Partial(p), NEW i \in Slots, RecvBreak(p, i)
  PROVE  Partial(p)'
<1> DEFINE d     == disp[p]["current"]
           ended == [d EXCEPT !.pc = "failed"]
<1>0. "current" \in Slots
  BY DEF Slots
<1>1. i = "current" /\ d.pc = "receiving"
  BY <1>0 DEF RecvBreak, Anchor, OldIsDone, Slots
<1>2. /\ holds' = holds /\ cursors' = cursors /\ recv' = recv /\ step' = step
      /\ SetDisp(p, "current", ended)
  BY <1>1 DEF RecvBreak, senderVars
<1>3. step[p].pc = "sending"
  BY <1>0, <1>1, Serving
<1>4. ended \in DispType /\ ended.pc = "failed"
  <2>1. d \in DispType /\ "failed" \in DispPcs
    BY <1>0, DispatcherType DEF DispPcs
  <2> HIDE DEF d
  <2> QED BY <2>1, DispatcherMoves
<1>5. /\ \/ token'[p] = token[p] /\ exists'[p] = exists[p]
         \/ token'[p] = NoToken /\ exists'[p] = ExistsAfterAbort(p)
  BY <1>0, PeerTypes DEF RecvBreak
<1> HIDE DEF ended
<1>6. /\ disp'[p]["current"] = ended
  BY <1>0, <1>2, <1>4, OneDispatcher
<1>7. ContentExists(p)'
  BY <1>0, <1>2, <1>5 DEF Partial, ContentExists, ExistsAfterAbort
<1> QED BY <1>0, <1>2, <1>3, <1>4, <1>5, <1>6, <1>7
  DEF Partial, PartialHeld, PartialIsTarget, CommitIsClean

LEMMA PartialAdvanceLastHold ==
  ASSUME TypeInv, NEW p \in Peers, Partial(p), NEW i \in Slots, AdvanceLastHold(p, i)
  PROVE  Partial(p)'
<1> DEFINE d == [disp[p][i] EXCEPT !.pc = "ok"]
<1>0. "current" \in Slots
  BY DEF Slots
<1>1. d \in DispType
  <2>1. disp[p][i] \in DispType /\ "ok" \in DispPcs
    BY DispatcherType DEF DispPcs
  <2> QED BY <2>1, DispatcherMoves
<1>2. /\ SetDisp(p, i, d) /\ disp[p][i].pc = "landed"
      /\ UNCHANGED <<token, exists, holds, step>> /\ recv' = recv
  BY DEF AdvanceLastHold, senderVars
<1> HIDE DEF d
<1>3. disp'[p]["current"].pc \in {"landed", "ok"} => disp[p]["current"].pc \in {"landed", "ok"}
  BY <1>0, <1>1, <1>2, SetDispType
<1> QED BY <1>2, <1>3, PartialFrame

LEMMA PartialOldExits ==
  ASSUME TypeInv, NEW p \in Peers, Partial(p), OldExits(p) PROVE Partial(p)'
<1>0. "current" \in Slots /\ "old" \in Slots
  BY DEF Slots
<1>1. /\ SetDisp(p, "old", NoDisp)
      /\ UNCHANGED <<token, exists, holds, step>> /\ recv' = recv
  BY DEF OldExits, senderVars, receiverVars
<1>2. disp'[p]["current"] = disp[p]["current"]
  BY <1>0, <1>1, NoDispType, SetDispType
<1> QED BY <1>1, <1>2, PartialFrame

\* A prune on the receiver that does not take its newest snapshot.
LEMMA PartialRecvPrune ==
  ASSUME TypeInv, NEW p \in Peers, Partial(p), NEW s \in Snap, RecvPrune(p, s),
         s # Newest(recv[p])
  PROVE  Partial(p)'
<1>1. UNCHANGED <<token, exists, holds, step, disp>> /\ s \in recv[p]
      /\ recv' = [recv EXCEPT ![p] = @ \ {s}]
  BY DEF RecvPrune, senderVars
<1>2. Newest(recv[p]) \in recv[p] \ {s}
  BY <1>1, HeadIsLast DEF RecvHead
<1>3. recv'[p] # {}
  BY <1>1, <1>2, PeerTypes
<1> QED BY <1>1, <1>3, PartialFrame

----------------------------------------------------------------------------
(***************************************************************************)
(* The invariant, and what follows from it.                                *)
(***************************************************************************)

\* What the properties below need on top: a receiver's token is not misread.
ResumeScope == Scope /\ "token_query" \notin Faults

\* A step towards p that does not make its receiver destroy its newest snapshot.
LEMMA PartialLocal ==
  ASSUME TypeInv, ResumeScope, NEW p \in Peers, Anchor(p), Partial(p), p \notin beheaded',
         \/ PushStep(p) \/ Abandon(p) \/ OldExits(p)
         \/ \E i \in Slots : Dispatcher(p, i)
         \/ \E s \in Snap : RecvPrune(p, s)
  PROVE  Partial(p)'
<1>1. "token_query" \notin Faults
  BY DEF ResumeScope
<1>2. CASE ListSender(p)
  <2>1. /\ UNCHANGED <<holds, cursors, token, exists, recv, disp>> /\ step[p].pc = "idle"
        /\ step' = [step EXCEPT ![p] = [pc |-> "listed", listed |-> snaps, plan |-> Nothing]]
    BY <1>2 DEF ListSender, senderVars, receiverVars
  <2>2. step'[p].pc = "listed"
    BY <2>1, PeerTypes
  <2>3. disp[p]["current"].pc = "none"
    BY <2>1, NoDispatcherYet
  <2> QED BY <2>1, <2>2, <2>3, PartialSender DEF Partial, PartialHeld
<1>3. CASE PushStep(p)
  BY <1>1, <1>2, <1>3, PartialPlanFilesystem, PartialDiscardPartial, PartialPlaceHolds,
     PartialSweepStale, PartialOpenRecv, PartialReadResponse, PartialCommit
  DEF PushStep
<1>4. CASE Abandon(p)
  BY <1>4, PartialAbandon
<1>5. CASE OldExits(p)
  BY <1>5, PartialOldExits
<1>6. ASSUME NEW i \in Slots, Dispatcher(p, i) PROVE Partial(p)'
  BY <1>6, PartialRecvStart, PartialRecvLand, PartialRecvBreak, PartialAdvanceLastHold
  DEF Dispatcher
<1>7. ASSUME NEW s \in Snap, RecvPrune(p, s) PROVE Partial(p)'
  <2>1. s # Newest(recv[p])
    BY <1>7 DEF RecvPrune
  <2> QED BY <1>7, <2>1, PartialRecvPrune
<1> QED BY <1>3, <1>4, <1>5, <1>6, <1>7

LEMMA PartialStep ==
  ASSUME IInv, [Next]_vars, ResumeScope, NEW q \in Peers, q \notin beheaded'
  PROVE  Partial(q)'
<1>0. TypeInv /\ Anchor(q) /\ Partial(q)
  <2>1. TypeInv
    BY DEF IInv, AnchorInv
  <2> QED BY <2>1, BeheadedGrows DEF IInv, AnchorInv, Intact
<1>1. ASSUME UNCHANGED <<token, exists, holds, step, disp, recv>> PROVE Partial(q)'
  BY <1>0, <1>1, PartialFrame
<1>2. CASE TakeSnapshot
  BY <1>1, <1>2 DEF TakeSnapshot, receiverVars
<1>3. ASSUME NEW s \in Snap, SenderPrune(s) PROVE Partial(q)'
  BY <1>1, <1>3 DEF SenderPrune, receiverVars
<1>4. ASSUME NEW p \in Peers,
             \/ PushStep(p) \/ Abandon(p) \/ OldExits(p)
             \/ \E i \in Slots : Dispatcher(p, i)
             \/ \E s \in Snap : RecvPrune(p, s)
      PROVE  Partial(q)'
  <2>1. CASE q = p
    BY <1>0, <1>4, <2>1, PartialLocal
  <2>2. CASE q # p
    <3>1. OthersUntouched(p)
      BY <1>0, <1>4, PushStepIsLocal, ReceiverIsLocal
    <3> QED BY <1>0, <2>2, <3>1, PartialFrame DEF OthersUntouched
  <2> QED BY <2>1, <2>2
<1>5. CASE UNCHANGED vars
  BY <1>1, <1>5 DEF vars, senderVars, receiverVars
<1> QED BY <1>2, <1>3, <1>4, <1>5 DEF Next

\* The inductive invariant of a job in "latest" mode: the anchor of every receiver that
\* has not destroyed its newest snapshot, and what its partial receive needs, survive
\* every step (holds.rs, step.rs, plan.rs, recv.rs).
THEOREM PartialInvariant == ASSUME ResumeScope PROVE Spec => []IInv
<1>0. Scope
  BY DEF ResumeScope
<1>1. Init => IInv
  BY InvInit, PartialInit DEF IInv, Intact
<1>2. IInv /\ [Next]_vars => IInv'
  <2> SUFFICES ASSUME IInv, [Next]_vars PROVE IInv'
    OBVIOUS
  <2>1. AnchorInv'
    BY <1>0, InvStep DEF IInv
  <2>2. \A q \in Peers : q \notin beheaded' => Partial(q)'
    BY PartialStep
  <2> QED BY <2>1, <2>2 DEF IInv, Intact
<1> QED BY <1>1, <1>2, PTL DEF Spec

LEMMA InvResumes == ASSUME IInv, NEW p \in Intact, token[p] # NoToken
                    PROVE  Resumable(token[p], snaps, Bookmarks) /\ token[p].from = RecvHead(p)
<1>1. Anchor(p) /\ Partial(p) /\ TypeInv /\ p \in Peers
  BY DEF IInv, AnchorInv, Intact
<1>2. token[p].to \in snaps
  BY <1>1 DEF Anchor, HeldIsLive, Partial, PartialHeld
<1>3. token[p].from = RecvHead(p)
  BY <1>1 DEF Anchor, PartialOnHead
<1>4. recv[p] # {} => RecvHead(p) \in snaps \cup Bookmarks
  BY <1>1 DEF Anchor, HeadKept, HeldIsLive, Bookmarks
<1>5. recv[p] = {} => RecvHead(p) = NoSnap
  BY <1>1, HeadIsLast DEF NoSnap
<1> QED BY <1>2, <1>3, <1>4, <1>5 DEF Resumable

\* An interrupted receive stays resumable for as long as the receiver keeps it and has
\* not destroyed its newest snapshot (step.rs, run_one_filesystem; holds.rs, sweep_stale).
THEOREM InterruptedStaysResumable == ASSUME ResumeScope PROVE Spec => []ResumeStaysPossible
<1>1. IInv => ResumeStaysPossible
  BY InvResumes DEF ResumeStaysPossible
<1> QED BY <1>1, PartialInvariant, PTL

\* Whatever a step left behind, the next plan is one that a receiver applies that has not
\* destroyed its newest snapshot (plan.rs, plan_one_filesystem and everything it calls).
THEOREM PlansAlwaysApply == ASSUME ResumeScope PROVE Spec => []NextPlanApplies
<1>1. IInv => NextPlanApplies
  <2> SUFFICES ASSUME IInv, NEW p \in Intact
               PROVE  /\ FreshPlan(p).kind \notin {"diverged", "placeholder"}
                      /\ FreshPlan(p).kind \in SnapshotBased \cup {"bookmark", "resume"} =>
                           FreshPlan(p).from = Newest(recv[p])
    BY DEF NextPlanApplies
  <2>1. Anchor(p) /\ Partial(p) /\ TypeInv /\ p \in Peers
    BY DEF IInv, AnchorInv, Intact
  <2> DEFINE R   == recv[p]
             h   == RecvHead(p)
             tok == token[p]
             ex  == exists[p]
             S   == snaps
             B   == Bookmarks
  <2>2. /\ S \in SUBSET (1..MaxSnaps) /\ R \in SUBSET (1..MaxSnaps)
        /\ B \in SUBSET (1..MaxSnaps) /\ ex \in BOOLEAN /\ MaxSnaps \in Nat /\ Mode \in Modes
    BY <2>1, PeerTypes, BookmarksType, ConstantsAssumption DEF TypeInv, Snap
  <2>3. /\ R = {} => h = NoSnap
        /\ R # {} => h \in R /\ (\A s \in R : s <= h) /\ h \in S \cup B
    BY <2>1, HeadIsLast DEF Anchor, HeadKept, HeldIsLive, Bookmarks, NoSnap
  <2>4. tok # NoToken => tok.from = h /\ Resumable(tok, S, B)
    BY InvResumes
  <2>5. ex => R # {} \/ tok # NoToken
    BY <2>1 DEF Partial, ContentExists
  <2>6. FreshPlan(p) = PlanOne(S, R, tok, ex, TRUE, B, B, TRUE, Mode)
    BY DEF FreshPlan
  <2> HIDE DEF R, h, tok, ex, S, B
  <2> DEFINE plan == PlanOne(S, R, tok, ex, TRUE, B, B, TRUE, Mode)
  <2>7. Applies(plan, h)
    BY <2>2, <2>3, <2>4, <2>5, FreshPlanApplies
  <2> HIDE DEF plan
  <2>8. FreshPlan(p) = plan
    BY <2>6 DEF plan
  <2> QED BY <2>7, <2>8 DEF Applies, h, RecvHead
<1> QED BY <1>1, PartialInvariant, PTL

=============================================================================
