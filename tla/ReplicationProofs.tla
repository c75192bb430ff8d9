-------------------------- MODULE ReplicationProofs --------------------------
(***************************************************************************)
(* Proofs about Replication: type correctness for every instance, and, in  *)
(* "latest" mode without late landings, that the newest snapshot of every  *)
(* receiver that has not destroyed it itself stays anchored on the sender  *)
(* and that cursors stay behind those receivers.                           *)
(***************************************************************************)
EXTENDS ReplicationInvariant, PlannerProofs

LEMMA NewestIsLast ==
  ASSUME NEW S \in SUBSET Snap, S # {}
  PROVE  Newest(S) \in S /\ \A s \in S : s <= Newest(S)
BY MaxIsNewest, ConstantsAssumption DEF Newest, Snap

LEMMA FirstOfRest ==
  ASSUME NEW S \in SUBSET Snap, S # {}
  PROVE  Min(S) \in S
BY MinIsOldest, ConstantsAssumption DEF Snap

LEMMA TypeInit == Init => TypeInv
<1> SUFFICES ASSUME Init PROVE TypeInv
  OBVIOUS
<1>1. TypeOK
  BY ConstantsAssumption
  DEF Init, TypeOK, Idle, NoDisp, NoToken, Nothing, Plan, NoSnap, StepPcs, DispPcs,
      PlanType, DispType, PlanKinds, SendKinds, Slots, Snap
<1>2. PlanHasTarget /\ StreamCarries /\ OneReceiver
  BY DEF Init, PlanHasTarget, StreamCarries, OneReceiver, Idle, NoDisp, Slots
<1> QED BY <1>1, <1>2 DEF TypeInv

----------------------------------------------------------------------------
(***************************************************************************)
(* The type invariant is inductive: one lemma per group of actions.        *)
(***************************************************************************)
LEMMA TypeTakeSnapshot == TypeInv /\ TakeSnapshot => TypeInv'
BY ConstantsAssumption
DEF TypeInv, TypeOK, PlanHasTarget, StreamCarries, OneReceiver, TakeSnapshot,
    receiverVars, Snap

LEMMA TypePrune ==
  ASSUME TypeInv, NEW p \in Peers, NEW s \in Snap, SenderPrune(s) \/ RecvPrune(p, s)
  PROVE  TypeInv'
BY ConstantsAssumption
DEF TypeInv, TypeOK, PlanHasTarget, StreamCarries, OneReceiver, SenderPrune,
    RecvPrune, receiverVars, senderVars, Snap

LEMMA IdleType == Idle \in [pc : StepPcs, listed : SUBSET Snap, plan : PlanType]
BY ConstantsAssumption
DEF Idle, Nothing, Plan, NoSnap, StepPcs, PlanType, PlanKinds, SendKinds

LEMMA NoDispType == NoDisp \in DispType
BY ConstantsAssumption DEF NoDisp, NoSnap, DispPcs, DispType, PlanKinds, SendKinds

LEMMA FaultType ==
  ASSUME faults \in 0..MaxFaults, Fault \/ NoFault
  PROVE  faults' \in 0..MaxFaults
BY ConstantsAssumption DEF Fault, NoFault

LEMMA TypeListSender ==
  ASSUME TypeInv, NEW p \in Peers, ListSender(p) PROVE TypeInv'
<1> USE DEF ListSender, senderVars, receiverVars
<1>1. Nothing \in PlanType
  BY IdleType DEF Idle, PlanType
<1>2. TypeOK'
  BY <1>1 DEF TypeInv, TypeOK, StepPcs
<1>3. PlanHasTarget' /\ StreamCarries' /\ OneReceiver'
  BY DEF TypeInv, TypeOK, PlanHasTarget, StreamCarries, OneReceiver
<1> QED BY <1>2, <1>3 DEF TypeInv

LEMMA PlanOneType ==
  ASSUME NEW S \in SUBSET Snap, NEW R \in SUBSET Snap, NEW B \in SUBSET Snap,
         NEW resumeB, NEW seen \in [to : 0..MaxSnaps, from : 0..MaxSnaps],
         NEW ex \in BOOLEAN, NEW decodes \in BOOLEAN, NEW listed \in BOOLEAN
  PROVE  LET plan == PlanOne(S, R, seen, ex, decodes, resumeB, B, listed, Mode)
         IN  /\ plan \in PlanType
             /\ plan.kind \in SendKinds => plan.to \in Snap
             /\ plan.kind \in SnapshotBased => plan.from \in Snap
<1> DEFINE plan == PlanOne(S, R, seen, ex, decodes, resumeB, B, listed, Mode)
<1> SUFFICES /\ plan \in PlanType
             /\ plan.kind \in SendKinds => plan.to \in Snap
             /\ plan.kind \in SnapshotBased => plan.from \in Snap
  OBVIOUS
<1>1. WellFormed(plan, S, R, B, seen, Mode)
  BY PlanOneWellFormed, ConstantsAssumption, ZenonT(60) DEF Snap
<1> HIDE DEF plan
<1>a. NoSnap \in 0..MaxSnaps /\ \A s \in Snap : s \in 0..MaxSnaps
  BY ConstantsAssumption DEF NoSnap, Snap
<1>b. seen.from \in 0..MaxSnaps
  OBVIOUS
<1>2. plan.from \in 0..MaxSnaps
  BY <1>1, <1>a, <1>b DEF WellFormed
<1>3. plan.to \in 0..MaxSnaps
  BY <1>1, <1>a DEF WellFormed
<1>4. plan \in PlanType
  BY <1>1, <1>2, <1>3 DEF WellFormed, Plan, PlanType
<1> QED BY <1>1, <1>4 DEF WellFormed

LEMMA BookmarksType == TypeOK => Bookmarks \in SUBSET Snap
BY DEF TypeOK, Bookmarks

LEMMA TypePlanFilesystem ==
  ASSUME TypeInv, NEW p \in Peers, PlanFilesystem(p) PROVE TypeInv'
<1>1. PICK seen \in SeenTokens(p), decodes \in BOOLEAN, listed \in BOOLEAN,
           listedAgain \in BOOLEAN :
        LET plan == PlanSeen(p, seen, decodes, listed, listedAgain)
        IN  /\ IF seen = token[p] /\ decodes /\ listed /\ listedAgain
               THEN NoFault ELSE Fault
            /\ IF plan.kind \in SendKinds
               THEN step' = [step EXCEPT
                      ![p].pc = IF plan.discard THEN "discarding" ELSE "planned",
                      ![p].plan = plan]
               ELSE GiveUp(p)
  BY Zenon DEF PlanFilesystem
<1> DEFINE plan == PlanSeen(p, seen, decodes, listed, listedAgain)
<1>2. seen \in [to : 0..MaxSnaps, from : 0..MaxSnaps]
  BY ConstantsAssumption DEF TypeInv, TypeOK, SeenTokens, NoToken, NoSnap
<1>3. step[p].listed \in SUBSET Snap /\ recv[p] \in SUBSET Snap /\ exists[p] \in BOOLEAN
      /\ Bookmarks \in SUBSET Snap
  BY BookmarksType DEF TypeInv, TypeOK
<1>4. /\ plan \in PlanType
      /\ plan.kind \in SendKinds => plan.to \in Snap
      /\ plan.kind \in SnapshotBased => plan.from \in Snap
  BY <1>2, <1>3, PlanOneType DEF PlanSeen
<1>5. faults' \in 0..MaxFaults
  BY <1>1, FaultType DEF TypeInv, TypeOK
<1>6. UNCHANGED <<taken, snaps, holds, cursors, recv, exists, token, last, beheaded, disp>>
  BY DEF PlanFilesystem, senderVars, receiverVars
<1>7. CASE plan.kind \in SendKinds
  <2>1. step' = [step EXCEPT ![p].pc = IF plan.discard THEN "discarding" ELSE "planned",
                             ![p].plan = plan]
    BY <1>1, <1>7
  <2> HIDE DEF plan
  <2>2. TypeOK'
    BY <2>1, <1>4, <1>5, <1>6, ZenonT(60) DEF TypeInv, TypeOK, StepPcs
  <2>3. PlanHasTarget' /\ StreamCarries' /\ OneReceiver'
    BY <2>1, <1>4, <1>6, <1>7
    DEF TypeInv, TypeOK, PlanHasTarget, StreamCarries, OneReceiver
  <2> QED BY <2>2, <2>3 DEF TypeInv
<1>8. CASE plan.kind \notin SendKinds
  <2>1. step' = [step EXCEPT ![p] = Idle]
    BY <1>1, <1>8 DEF GiveUp
  <2> HIDE DEF plan
  <2>2. TypeOK'
    BY <2>1, <1>5, <1>6, IdleType DEF TypeInv, TypeOK
  <2>3. PlanHasTarget' /\ StreamCarries' /\ OneReceiver'
    BY <2>1, <1>6
    DEF TypeInv, TypeOK, PlanHasTarget, StreamCarries, OneReceiver, Idle
  <2> QED BY <2>2, <2>3 DEF TypeInv
<1> QED BY <1>7, <1>8

LEMMA KeepType ==
  ASSUME TypeInv, NEW p \in Peers, step[p].pc \notin {"idle", "listed"}
  PROVE  Keep(p) \in SUBSET Snap /\ FromHold(p) \in SUBSET Snap
BY DEF TypeInv, TypeOK, PlanHasTarget, Keep, FromHold

LEMMA UpdateSets ==
  ASSUME NEW f \in [Peers -> SUBSET Snap], NEW p \in Peers, NEW S \in SUBSET Snap
  PROVE  [f EXCEPT ![p] = S] \in [Peers -> SUBSET Snap]
OBVIOUS

LEMMA SenderSetsType ==
  ASSUME TypeInv, NEW p \in Peers
  PROVE  /\ holds \in [Peers -> SUBSET Snap]
         /\ cursors \in [Peers -> SUBSET Snap]
         /\ holds[p] \in SUBSET Snap
         /\ cursors[p] \in SUBSET Snap
BY DEF TypeInv, TypeOK

\* Steps that only change the sender's sets and the progress of the step.
LEMMA TypeSenderStep ==
  ASSUME TypeInv, NEW p \in Peers, UNCHANGED <<taken, snaps, receiverVars, disp>>,
         holds' \in [Peers -> SUBSET Snap], cursors' \in [Peers -> SUBSET Snap],
         Fault \/ NoFault \/ UNCHANGED faults,
         GiveUp(p) \/ \E pc \in StepPcs : Goto(p, pc) /\ step[p].pc \notin {"idle", "listed"}
  PROVE  TypeInv'
<1>1. faults' \in 0..MaxFaults
  BY FaultType DEF TypeInv, TypeOK
<1>2. CASE GiveUp(p)
  <2>1. TypeOK'
    BY <1>1, <1>2, IdleType DEF TypeInv, TypeOK, GiveUp, receiverVars
  <2>2. PlanHasTarget' /\ StreamCarries' /\ OneReceiver'
    BY <1>2 DEF TypeInv, TypeOK, PlanHasTarget, StreamCarries, OneReceiver, GiveUp,
                Idle, receiverVars
  <2> QED BY <2>1, <2>2 DEF TypeInv
<1>3. ASSUME NEW pc \in StepPcs, Goto(p, pc), step[p].pc \notin {"idle", "listed"}
      PROVE  TypeInv'
  <2>1. TypeOK'
    <3> DEFINE StepType == [pc : StepPcs, listed : SUBSET Snap, plan : PlanType]
    <3>0. step \in [Peers -> StepType]
      BY DEF TypeInv, TypeOK
    <3>1. step' \in [Peers -> StepType]
      <4>1. step' = [step EXCEPT ![p] = [step[p] EXCEPT !.pc = pc]]
        BY <1>3, <3>0 DEF Goto
      <4>2. [step[p] EXCEPT !.pc = pc] \in StepType
        BY <3>0
      <4> HIDE DEF StepType
      <4> QED BY <3>0, <4>1, <4>2
    <3> QED BY <1>1, <3>1 DEF TypeInv, TypeOK, receiverVars
  <2>2. PlanHasTarget'
    BY <1>3 DEF TypeInv, TypeOK, PlanHasTarget, Goto
  <2>3. StreamCarries' /\ OneReceiver'
    BY DEF TypeInv, StreamCarries, OneReceiver, receiverVars
  <2> QED BY <2>1, <2>2, <2>3 DEF TypeInv
<1> QED BY <1>2, <1>3

LEMMA TypePlaceHolds ==
  ASSUME TypeInv, NEW p \in Peers, PlaceHolds(p) PROVE TypeInv'
<1>1. Keep(p) \in SUBSET Snap /\ FromHold(p) \in SUBSET Snap
  BY KeepType DEF PlaceHolds
<1>2. holds' \in [Peers -> SUBSET Snap]
  <2>1. holds[p] \cup Keep(p) \in SUBSET Snap /\ holds[p] \cup FromHold(p) \in SUBSET Snap
    BY <1>1, SenderSetsType
  <2> QED BY <2>1, SenderSetsType, UpdateSets DEF PlaceHolds
<1>3. UNCHANGED <<taken, snaps, cursors, receiverVars, disp>> /\ (Fault \/ NoFault)
  BY DEF PlaceHolds
<1>4. cursors' \in [Peers -> SUBSET Snap]
  BY <1>3 DEF TypeInv, TypeOK
<1>5. GiveUp(p) \/ \E pc \in StepPcs : Goto(p, pc) /\ step[p].pc \notin {"idle", "listed"}
  BY DEF PlaceHolds, StepPcs
<1> QED BY <1>2, <1>3, <1>4, <1>5, TypeSenderStep

LEMMA ReleaseType ==
  ASSUME TypeInv, NEW p \in Peers, NEW keep, ReleaseExcept(p, keep)
  PROVE  holds' \in [Peers -> SUBSET Snap] /\ (Fault \/ NoFault)
<1> DEFINE stale == (holds[p] \cap Candidates(p)) \ keep
<1>1. \A left \in SUBSET stale :
        holds[p] \ stale \in SUBSET Snap /\ (holds[p] \ stale) \cup left \in SUBSET Snap
  BY SenderSetsType
<1> HIDE DEF stale
<1> QED BY <1>1, SenderSetsType, UpdateSets DEF ReleaseExcept, stale

LEMMA TypeSweepStale ==
  ASSUME TypeInv, NEW p \in Peers, SweepStale(p) PROVE TypeInv'
<1>1. holds' \in [Peers -> SUBSET Snap] /\ (Fault \/ NoFault)
  BY ReleaseType DEF SweepStale
<1>2. cursors' \in [Peers -> SUBSET Snap]
  BY DEF SweepStale, TypeInv, TypeOK
<1>3. \E pc \in StepPcs : Goto(p, pc) /\ step[p].pc \notin {"idle", "listed"}
  BY DEF SweepStale, StepPcs
<1>4. UNCHANGED <<taken, snaps, receiverVars, disp>>
  BY DEF SweepStale
<1> QED BY <1>1, <1>2, <1>3, <1>4, TypeSenderStep

LEMMA TypeAdvanceCursor ==
  ASSUME TypeInv, NEW p \in Peers, AdvanceCursor(p) PROVE TypeInv'
<1>1. step[p].plan.to \in Snap /\ step[p].pc \notin {"idle", "listed"}
  BY DEF AdvanceCursor, TypeInv, PlanHasTarget
<1>2. holds' \in [Peers -> SUBSET Snap] /\ cursors' \in [Peers -> SUBSET Snap]
  <2> DEFINE stale == (holds[p] \cap Candidates(p)) \ {step[p].plan.to}
  <2>1. /\ cursors[p] \cup {step[p].plan.to} \in SUBSET Snap
        /\ \A left \in SUBSET stale : (holds[p] \ stale) \cup left \in SUBSET Snap
    BY <1>1, SenderSetsType
  <2> HIDE DEF stale
  <2> QED BY <2>1, SenderSetsType, UpdateSets DEF AdvanceCursor, stale
<1>3. GiveUp(p) \/ \E pc \in StepPcs : Goto(p, pc) /\ step[p].pc \notin {"idle", "listed"}
  BY <1>1 DEF AdvanceCursor, StepPcs
<1>4. UNCHANGED <<taken, snaps, receiverVars, disp>> /\ (Fault \/ NoFault)
  BY DEF AdvanceCursor
<1> QED BY <1>2, <1>3, <1>4, TypeSenderStep

LEMMA TypeSweepCursors ==
  ASSUME TypeInv, NEW p \in Peers, SweepCursors(p) PROVE TypeInv'
<1> DEFINE stale == cursors[p] \ {step[p].plan.to}
<1>0. \A left \in SUBSET stale :
        cursors[p] \ stale \in SUBSET Snap /\ (cursors[p] \ stale) \cup left \in SUBSET Snap
  BY SenderSetsType
<1>1. cursors' \in [Peers -> SUBSET Snap]
  <2> HIDE DEF stale
  <2> QED BY <1>0, SenderSetsType, UpdateSets DEF SweepCursors, stale
<1>2. \E pc \in StepPcs : Goto(p, pc) /\ step[p].pc \notin {"idle", "listed"}
  BY DEF SweepCursors, StepPcs
<1>3. UNCHANGED <<taken, snaps, holds, receiverVars, disp>> /\ (Fault \/ NoFault)
  BY DEF SweepCursors
<1> QED BY <1>1, <1>2, <1>3, SenderSetsType, TypeSenderStep

LEMMA TypeReleaseHolds ==
  ASSUME TypeInv, NEW p \in Peers, ReleaseHolds(p) PROVE TypeInv'
<1>1. holds' \in [Peers -> SUBSET Snap] /\ (Fault \/ NoFault)
  BY ReleaseType DEF ReleaseHolds
<1>2. cursors' \in [Peers -> SUBSET Snap]
  BY DEF ReleaseHolds, TypeInv, TypeOK
<1>3. GiveUp(p) /\ UNCHANGED <<taken, snaps, receiverVars, disp>>
  BY DEF ReleaseHolds
<1> QED BY <1>1, <1>2, <1>3, TypeSenderStep

LEMMA TypeDiscardPartial ==
  ASSUME TypeInv, NEW p \in Peers, DiscardPartial(p) PROVE TypeInv'
<1>1. NoToken \in [to : 0..MaxSnaps, from : 0..MaxSnaps]
  BY ConstantsAssumption DEF NoToken, NoSnap
<1>2. ExistsAfterAbort(p) \in BOOLEAN
  BY DEF ExistsAfterAbort, TypeInv, TypeOK
<1>3. UNCHANGED <<senderVars, recv, last, beheaded, disp, faults>>
      /\ step[p].pc = "discarding"
  BY DEF DiscardPartial
<1>4. CASE GiveUp(p) /\ UNCHANGED <<token, exists>>
  <2>1. TypeOK'
    BY <1>3, <1>4, IdleType DEF TypeInv, TypeOK, GiveUp, senderVars
  <2>2. PlanHasTarget' /\ StreamCarries' /\ OneReceiver'
    BY <1>3, <1>4 DEF TypeInv, TypeOK, PlanHasTarget, StreamCarries, OneReceiver,
                      GiveUp, Idle
  <2> QED BY <2>1, <2>2 DEF TypeInv
<1>5. CASE /\ ~LockHeld(p)
           /\ token' = [token EXCEPT ![p] = NoToken]
           /\ exists' = [exists EXCEPT ![p] = ExistsAfterAbort(p)]
           /\ Goto(p, "planned")
  <2>1. TypeOK'
    BY <1>1, <1>2, <1>3, <1>5 DEF TypeInv, TypeOK, Goto, StepPcs, senderVars
  <2>2. PlanHasTarget' /\ OneReceiver'
    BY <1>3, <1>5 DEF TypeInv, TypeOK, PlanHasTarget, OneReceiver, Goto
  <2>3. StreamCarries'
    BY <1>3, <1>5 DEF TypeInv, TypeOK, StreamCarries, LockHeld
  <2> QED BY <2>1, <2>2, <2>3 DEF TypeInv
<1> QED BY <1>4, <1>5 DEF DiscardPartial

\* What the dispatchers need to be typed, and what changes one of them keeps.
LEMMA DispatcherType ==
  ASSUME TypeInv, NEW p \in Peers, NEW i \in Slots
  PROVE  /\ disp[p][i] \in DispType
         /\ disp[p][i] = [pc |-> disp[p][i].pc, kind |-> disp[p][i].kind,
                           from |-> disp[p][i].from, to |-> disp[p][i].to,
                           rest |-> disp[p][i].rest, discard |-> disp[p][i].discard]
         /\ token[p] \in [to : 0..MaxSnaps, from : 0..MaxSnaps]
         /\ recv[p] \in SUBSET Snap
         /\ exists[p] \in BOOLEAN
BY DEF TypeInv, TypeOK, DispType

\* A dispatcher that moves on to another point of its run, or lands its last snapshot.
LEMMA DispatcherMoves ==
  ASSUME NEW d \in DispType, NEW pc \in DispPcs
  PROVE  LET e == [d EXCEPT !.pc = pc]
         IN  /\ e \in DispType
             /\ e.pc = pc /\ e.kind = d.kind /\ e.from = d.from /\ e.to = d.to
             /\ e.rest = d.rest
BY DEF DispType

LEMMA DispatcherLands ==
  ASSUME NEW d \in DispType
  PROVE  LET e == [d EXCEPT !.rest = {}, !.pc = "landed"]
         IN  /\ e \in DispType
             /\ e.pc = "landed" /\ e.kind = d.kind /\ e.to = d.to
BY DEF DispType, DispPcs


LEMMA SetDispType ==
  ASSUME TypeInv, NEW p \in Peers, NEW i \in Slots, NEW d \in DispType, SetDisp(p, i, d)
  PROVE  /\ disp' \in [Peers -> [Slots -> DispType]]
         /\ \A q \in Peers, j \in Slots :
              disp'[q][j] = IF q = p /\ j = i THEN d ELSE disp[q][j]
<1>1. disp \in [Peers -> [Slots -> DispType]]
  BY DEF TypeInv, TypeOK
<1>2. disp' = [disp EXCEPT ![p] = [disp[p] EXCEPT ![i] = d]]
  BY <1>1 DEF SetDisp
<1>3. [disp[p] EXCEPT ![i] = d] \in [Slots -> DispType]
  BY <1>1
<1>4. disp' \in [Peers -> [Slots -> DispType]]
  BY <1>1, <1>2, <1>3
<1>5. ASSUME NEW q \in Peers, NEW j \in Slots
      PROVE  disp'[q][j] = IF q = p /\ j = i THEN d ELSE disp[q][j]
  BY <1>1, <1>2, <1>3
<1> QED BY <1>4, <1>5

\* A dispatcher that ends, or hands over its result, disturbs nothing.
LEMMA TypeQuietDispatcher ==
  ASSUME TypeInv, NEW p \in Peers, NEW i \in Slots, NEW d \in DispType,
         SetDisp(p, i, d), d.pc \notin {"open", "receiving"},
         taken' = taken, snaps' = snaps, holds' = holds, cursors' = cursors,
         recv' \in [Peers -> SUBSET Snap], exists' \in [Peers -> BOOLEAN],
         token' \in [Peers -> [to : 0..MaxSnaps, from : 0..MaxSnaps]],
         \A q \in Peers, j \in Slots :
            disp'[q][j].pc = "receiving" => token'[q] = token[q],
         last' \in [Peers -> SUBSET Snap], beheaded' = beheaded,
         step' = step \/ GiveUp(p) \/ (Goto(p, "committing") /\ step[p].pc = "sending"),
         faults' \in 0..MaxFaults
  PROVE  TypeInv'
<1>1. /\ disp' \in [Peers -> [Slots -> DispType]]
      /\ \A q \in Peers, j \in Slots :
           disp'[q][j] = IF q = p /\ j = i THEN d ELSE disp[q][j]
  BY SetDispType
<1>2. step' \in [Peers -> [pc : StepPcs, listed : SUBSET Snap, plan : PlanType]]
      /\ PlanHasTarget'
  <2>1. CASE step' = step
    BY <2>1 DEF TypeInv, TypeOK, PlanHasTarget
  <2>2. CASE GiveUp(p)
    BY <2>2, IdleType DEF TypeInv, TypeOK, PlanHasTarget, GiveUp, Idle
  <2>3. CASE Goto(p, "committing") /\ step[p].pc = "sending"
    BY <2>3, ZenonT(60) DEF TypeInv, TypeOK, PlanHasTarget, Goto, StepPcs
  <2> QED BY <2>1, <2>2, <2>3
<1>3. TypeOK'
  BY <1>1, <1>2 DEF TypeInv, TypeOK
<1>4. StreamCarries'
  BY <1>1, ZenonT(60) DEF TypeInv, StreamCarries
<1>5. OneReceiver'
  BY <1>1 DEF TypeInv, OneReceiver, Slots
<1> QED BY <1>2, <1>3, <1>4, <1>5 DEF TypeInv

LEMMA CarriedType ==
  ASSUME TypeInv, NEW p \in Peers, step[p].pc = "ready", SendPossible(p)
  PROVE  Carried(p) \in SUBSET Snap /\ Carried(p) # {}
<1>1. snaps \in SUBSET Snap /\ step[p].plan.to \in Snap
  BY DEF TypeInv, TypeOK, PlanHasTarget
<1>2. step[p].plan.to \in snaps /\ step[p].plan.from < step[p].plan.to
      /\ step[p].plan.to <= step[p].plan.to
  BY <1>1, ConstantsAssumption DEF SendPossible, Snap
<1> QED BY <1>1, <1>2 DEF Carried

LEMMA TypeOpenRecv ==
  ASSUME TypeInv, NEW p \in Peers, OpenRecv(p) PROVE TypeInv'
<1>1. UNCHANGED <<senderVars, receiverVars, faults>> /\ step[p].pc = "ready"
      /\ "current" \in Slots
  BY DEF OpenRecv, Slots
<1>2. CASE SendPossible(p)
  <2> DEFINE d == [pc |-> "open", kind |-> step[p].plan.kind,
                   from |-> step[p].plan.from, to |-> step[p].plan.to,
                   rest |-> Carried(p), discard |-> step[p].plan.discard]
  <2>1. d \in DispType
    BY <1>1, <1>2, CarriedType DEF TypeInv, TypeOK, PlanType, DispType, DispPcs
  <2>2. SetDisp(p, "current", d) /\ Goto(p, "sending")
    BY <1>2 DEF OpenRecv
  <2>3. d.pc = "open" /\ d.rest # {}
    BY <1>1, <1>2, CarriedType
  <2> HIDE DEF d
  <2>4. /\ disp' \in [Peers -> [Slots -> DispType]]
        /\ \A q \in Peers, j \in Slots :
             disp'[q][j] = IF q = p /\ j = "current" THEN d ELSE disp[q][j]
    BY <1>1, <2>1, <2>2, SetDispType
  <2>5. step' \in [Peers -> [pc : StepPcs, listed : SUBSET Snap, plan : PlanType]]
        /\ PlanHasTarget'
    BY <1>1, <2>2 DEF TypeInv, TypeOK, PlanHasTarget, Goto, StepPcs
  <2>6. TypeOK'
    BY <1>1, <2>4, <2>5 DEF TypeInv, TypeOK, senderVars, receiverVars
  <2>7. StreamCarries'
    BY <1>1, <2>3, <2>4 DEF TypeInv, StreamCarries, receiverVars
  <2>8. OneReceiver'
    BY <2>3, <2>4 DEF TypeInv, OneReceiver, Slots
  <2> QED BY <2>5, <2>6, <2>7, <2>8 DEF TypeInv
<1>3. CASE ~SendPossible(p)
  <2>1. GiveUp(p) /\ UNCHANGED disp
    BY <1>3 DEF OpenRecv
  <2>2. UNCHANGED <<taken, snaps, receiverVars, disp>> /\ UNCHANGED faults
        /\ holds' = holds /\ cursors' = cursors
    BY <1>1, <2>1 DEF senderVars
  <2> QED BY <2>1, <2>2, SenderSetsType, TypeSenderStep
<1> QED BY <1>2, <1>3

LEMMA TypeReadResponse ==
  ASSUME TypeInv, NEW p \in Peers, ReadResponse(p) PROVE TypeInv'
<1>1. /\ SetDisp(p, "current", NoDisp) /\ NoDisp.pc \notin {"open", "receiving"}
      /\ GiveUp(p) \/ (Goto(p, "committing") /\ step[p].pc = "sending")
      /\ "current" \in Slots
      /\ taken' = taken /\ snaps' = snaps /\ holds' = holds /\ cursors' = cursors
      /\ beheaded' = beheaded /\ UNCHANGED <<recv, exists, token, last, faults>>
  BY DEF ReadResponse, NoDisp, Slots, senderVars, receiverVars
<1>2. /\ recv' \in [Peers -> SUBSET Snap] /\ exists' \in [Peers -> BOOLEAN]
      /\ token' \in [Peers -> [to : 0..MaxSnaps, from : 0..MaxSnaps]]
      /\ last' \in [Peers -> SUBSET Snap] /\ faults' \in 0..MaxFaults
  BY <1>1 DEF TypeInv, TypeOK
<1>3. \A q \in Peers, j \in Slots :
        disp'[q][j].pc = "receiving" => token'[q] = token[q]
  BY <1>1
<1> QED BY <1>1, <1>2, <1>3, NoDispType, TypeQuietDispatcher

LEMMA TypeOldExits ==
  ASSUME TypeInv, NEW p \in Peers, OldExits(p) PROVE TypeInv'
<1>1. /\ SetDisp(p, "old", NoDisp) /\ NoDisp.pc \notin {"open", "receiving"}
      /\ "old" \in Slots
      /\ taken' = taken /\ snaps' = snaps /\ holds' = holds /\ cursors' = cursors
      /\ step' = step
      /\ beheaded' = beheaded /\ UNCHANGED <<recv, exists, token, last, faults>>
  BY DEF OldExits, NoDisp, Slots, senderVars, receiverVars
<1>2. /\ recv' \in [Peers -> SUBSET Snap] /\ exists' \in [Peers -> BOOLEAN]
      /\ token' \in [Peers -> [to : 0..MaxSnaps, from : 0..MaxSnaps]]
      /\ last' \in [Peers -> SUBSET Snap] /\ faults' \in 0..MaxFaults
  BY <1>1 DEF TypeInv, TypeOK
<1>3. \A q \in Peers, j \in Slots :
        disp'[q][j].pc = "receiving" => token'[q] = token[q]
  BY <1>1
<1> QED BY <1>1, <1>2, <1>3, NoDispType, TypeQuietDispatcher

LEMMA TypeAdvanceLastHold ==
  ASSUME TypeInv, NEW p \in Peers, NEW i \in Slots, AdvanceLastHold(p, i) PROVE TypeInv'
<1> DEFINE d == [disp[p][i] EXCEPT !.pc = "ok"]
           to == disp[p][i].to
<1>1. d \in DispType /\ d.pc = "ok"
  <2>1. disp[p][i] \in DispType /\ "ok" \in DispPcs
    BY DispatcherType DEF DispPcs
  <2> QED BY <2>1, DispatcherMoves
<1>2. /\ SetDisp(p, i, d)
      /\ taken' = taken /\ snaps' = snaps /\ holds' = holds /\ cursors' = cursors
      /\ step' = step
      /\ beheaded' = beheaded /\ UNCHANGED <<recv, exists, token>>
  BY DEF AdvanceLastHold, senderVars
<1>3. Fault \/ NoFault
  BY DEF AdvanceLastHold
<1>4. last' \in [Peers -> SUBSET Snap]
  <2>1. last \in [Peers -> SUBSET Snap] /\ recv[p] \in SUBSET Snap
    BY DEF TypeInv, TypeOK
  <2>2. \A left \in SUBSET last[p] : left \in SUBSET Snap
    BY <2>1
  <2>3. CASE UNCHANGED last
    BY <2>1, <2>3
  <2>4. CASE to \in recv[p] /\ last' = [last EXCEPT ![p] = {to}]
    BY <2>1, <2>4, UpdateSets
  <2>5. ASSUME to \in recv[p], NEW left \in SUBSET last[p] \ {{}},
               last' = [last EXCEPT ![p] = {to} \cup left]
        PROVE  last' \in [Peers -> SUBSET Snap]
    BY <2>1, <2>2, <2>5, UpdateSets
  <2> QED BY <2>3, <2>4, <2>5 DEF AdvanceLastHold
<1>5. /\ recv' \in [Peers -> SUBSET Snap] /\ exists' \in [Peers -> BOOLEAN]
      /\ token' \in [Peers -> [to : 0..MaxSnaps, from : 0..MaxSnaps]]
      /\ faults' \in 0..MaxFaults
  BY <1>2, <1>3, FaultType DEF TypeInv, TypeOK
<1>6. \A q \in Peers, j \in Slots :
        disp'[q][j].pc = "receiving" => token'[q] = token[q]
  BY <1>2
<1>7. d.pc \notin {"open", "receiving"}
  BY <1>1
<1> HIDE DEF d
<1> QED BY <1>1, <1>2, <1>4, <1>5, <1>6, <1>7, TypeQuietDispatcher

LEMMA TypeRecvBreak ==
  ASSUME TypeInv, NEW p \in Peers, NEW i \in Slots, RecvBreak(p, i) PROVE TypeInv'
<1> DEFINE d == [disp[p][i] EXCEPT !.pc = "failed"]
<1>1. d \in DispType /\ d.pc = "failed"
  <2>1. disp[p][i] \in DispType /\ "failed" \in DispPcs
    BY DispatcherType DEF DispPcs
  <2> QED BY <2>1, DispatcherMoves
<1>2. /\ SetDisp(p, i, d) /\ disp[p][i].pc = "receiving" /\ Fault
      /\ taken' = taken /\ snaps' = snaps /\ holds' = holds /\ cursors' = cursors
      /\ step' = step
      /\ beheaded' = beheaded /\ UNCHANGED <<recv, last>>
      /\ \/ UNCHANGED <<token, exists>>
         \/ /\ token' = [token EXCEPT ![p] = NoToken]
            /\ exists' = [exists EXCEPT ![p] = ExistsAfterAbort(p)]
  BY DEF RecvBreak, senderVars
<1>a. ExistsAfterAbort(p) \in BOOLEAN
  BY DispatcherType DEF ExistsAfterAbort
<1>3. NoToken \in [to : 0..MaxSnaps, from : 0..MaxSnaps]
  BY ConstantsAssumption DEF NoToken, NoSnap
<1>b. exists' \in [Peers -> BOOLEAN]
  BY <1>2, <1>a DEF TypeInv, TypeOK
<1>c. token' \in [Peers -> [to : 0..MaxSnaps, from : 0..MaxSnaps]]
  BY <1>2, <1>3 DEF TypeInv, TypeOK
<1>4. recv' \in [Peers -> SUBSET Snap] /\ last' \in [Peers -> SUBSET Snap]
      /\ faults' \in 0..MaxFaults
  BY <1>2, FaultType DEF TypeInv, TypeOK
<1>5. ASSUME NEW q \in Peers, NEW j \in Slots, disp'[q][j].pc = "receiving"
      PROVE  token'[q] = token[q]
  <2>1. disp'[q][j] = IF q = p /\ j = i THEN d ELSE disp[q][j]
    BY <1>1, <1>2, SetDispType
  <2>2. q # p
    BY <1>1, <1>2, <1>5, <2>1 DEF TypeInv, OneReceiver, Slots
  <2> QED BY <1>2, <2>2 DEF TypeInv, TypeOK
<1>6. d.pc \notin {"open", "receiving"}
  BY <1>1
<1> HIDE DEF d
<1> QED BY <1>1, <1>2, <1>b, <1>c, <1>4, <1>5, <1>6, TypeQuietDispatcher

LEMMA TypeRecvStart ==
  ASSUME TypeInv, NEW p \in Peers, NEW i \in Slots, RecvStart(p, i) PROVE TypeInv'
<1> DEFINE d      == disp[p][i]
           tok    == IF d.discard THEN NoToken ELSE token[p]
           ex     == IF d.discard THEN ExistsAfterAbort(p) ELSE exists[p]
           ended  == [d EXCEPT !.pc = "failed"]
           active == [d EXCEPT !.pc = "receiving"]
<1>1. /\ d.pc = "open"
      /\ taken' = taken /\ snaps' = snaps /\ holds' = holds /\ cursors' = cursors
      /\ step' = step /\ recv' = recv /\ last' = last /\ faults' = faults
      /\ beheaded' = beheaded
  BY DEF RecvStart, senderVars
<1>2. /\ d \in DispType /\ ended \in DispType /\ active \in DispType
      /\ ended.pc \notin {"open", "receiving"} /\ active.pc = "receiving"
      /\ active.rest = d.rest
  <2>1. d \in DispType /\ {"failed", "receiving"} \subseteq DispPcs
    BY DispatcherType DEF DispPcs
  <2> HIDE DEF d
  <2> QED BY <2>1, DispatcherMoves
<1>3. ex \in BOOLEAN /\ tok \in [to : 0..MaxSnaps, from : 0..MaxSnaps]
  <2>1. NoToken \in [to : 0..MaxSnaps, from : 0..MaxSnaps]
    BY ConstantsAssumption DEF NoToken, NoSnap
  <2> QED BY <2>1, DispatcherType DEF ExistsAfterAbort
<1>4. recv' \in [Peers -> SUBSET Snap] /\ last' \in [Peers -> SUBSET Snap]
      /\ faults' \in 0..MaxFaults
  BY <1>1 DEF TypeInv, TypeOK
<1>5. token \in [Peers -> [to : 0..MaxSnaps, from : 0..MaxSnaps]]
      /\ exists \in [Peers -> BOOLEAN]
  BY DEF TypeInv, TypeOK
<1>6. CASE SetDisp(p, i, ended) /\ UNCHANGED <<token, exists>>
  <2>1. token' = token /\ exists' = exists
    BY <1>6
  <2> HIDE DEF ended
  <2> QED BY <1>1, <1>2, <1>4, <1>5, <1>6, <2>1, TypeQuietDispatcher
<1>7. CASE /\ ~LockHeld(p)
           /\ token' = [token EXCEPT ![p] = tok]
           /\ exists' = [exists EXCEPT ![p] = ex]
           /\ SetDisp(p, i, ended)
  <2> HIDE DEF tok, ex, ended, d
  <2>1. exists' \in [Peers -> BOOLEAN]
    BY <1>3, <1>5, <1>7
  <2>2. token' \in [Peers -> [to : 0..MaxSnaps, from : 0..MaxSnaps]]
    BY <1>3, <1>5, <1>7
  <2>3. ASSUME NEW q \in Peers, NEW j \in Slots, disp'[q][j].pc = "receiving"
        PROVE  token'[q] = token[q]
    <3>1. disp'[q][j] = IF q = p /\ j = i THEN ended ELSE disp[q][j]
      BY <1>2, <1>7, SetDispType
    <3>2. q # p
      BY <1>2, <1>7, <2>3, <3>1 DEF LockHeld
    <3> QED BY <1>5, <1>7, <3>2
  <2> QED BY <1>1, <1>2, <1>4, <1>7, <2>1, <2>2, <2>3, TypeQuietDispatcher
<1>8. CASE /\ ~LockHeld(p)
           /\ token' = [token EXCEPT ![p] = [to |-> Min(d.rest), from |-> d.from]]
           /\ exists' = [exists EXCEPT ![p] = TRUE]
           /\ SetDisp(p, i, active)
  <2>1. Min(d.rest) \in d.rest /\ Min(d.rest) \in Snap
    <3>1. d.rest # {} /\ d.rest \in SUBSET Snap
      BY <1>1, <1>2 DEF TypeInv, StreamCarries, DispType
    <3> QED BY <3>1, FirstOfRest
  <2>2. [to |-> Min(d.rest), from |-> d.from] \in [to : 0..MaxSnaps, from : 0..MaxSnaps]
    BY <1>2, <2>1, ConstantsAssumption DEF DispType, Snap
  <2>3. token' \in [Peers -> [to : 0..MaxSnaps, from : 0..MaxSnaps]]
    BY <1>5, <1>8, <2>2
  <2>4. exists' \in [Peers -> BOOLEAN]
    BY <1>5, <1>8
  <2>5. token'[p].to \in active.rest
    BY <1>2, <1>5, <1>8, <2>1
  <2>6. \A q \in Peers : q # p => token'[q] = token[q]
    BY <1>5, <1>8
  <2> HIDE DEF d, active, tok, ex, ended
  <2>7. /\ disp' \in [Peers -> [Slots -> DispType]]
        /\ \A q \in Peers, j \in Slots :
             disp'[q][j] = IF q = p /\ j = i THEN active ELSE disp[q][j]
    BY <1>2, <1>8, SetDispType
  <2>8. TypeOK'
    BY <1>1, <1>4, <2>3, <2>4, <2>7 DEF TypeInv, TypeOK
  <2>9. PlanHasTarget'
    BY <1>1 DEF TypeInv, PlanHasTarget
  <2>10. StreamCarries'
    BY <1>2, <1>8, <2>5, <2>6, <2>7 DEF TypeInv, StreamCarries, LockHeld
  <2>11. OneReceiver'
    BY <1>2, <1>8, <2>7 DEF TypeInv, OneReceiver, LockHeld, Slots
  <2> QED BY <2>8, <2>9, <2>10, <2>11 DEF TypeInv
<1> QED BY <1>6, <1>7, <1>8 DEF RecvStart

LEMMA TypeRecvLand ==
  ASSUME TypeInv, NEW p \in Peers, NEW i \in Slots, RecvLand(p, i) PROVE TypeInv'
<1> DEFINE d    == disp[p][i]
           s    == token[p].to
           rest == d.rest \ {s}
           next == [d EXCEPT !.rest = rest, !.pc = IF rest = {} THEN "landed" ELSE @]
           tok  == IF rest = {} THEN NoToken ELSE [to |-> Min(rest), from |-> s]
<1>1. /\ d.pc = "receiving"
      /\ taken' = taken /\ snaps' = snaps /\ holds' = holds /\ cursors' = cursors
      /\ step' = step /\ exists' = exists /\ last' = last /\ faults' = faults
      /\ beheaded' = beheaded
      /\ recv' = [recv EXCEPT ![p] = @ \cup {s}]
      /\ token' = [token EXCEPT ![p] = tok]
      /\ SetDisp(p, i, next)
  BY DEF RecvLand, senderVars
<1>2. /\ s \in d.rest /\ d.rest \in SUBSET Snap /\ rest \in SUBSET Snap /\ s \in Snap
      /\ recv[p] \in SUBSET Snap
  <2>1. s \in d.rest /\ d.rest \in SUBSET Snap
    BY <1>1, DispatcherType DEF TypeInv, StreamCarries, DispType
  <2> QED BY <2>1, DispatcherType
<1>3. /\ next \in DispType
      /\ next.rest = rest
      /\ next.pc = IF rest = {} THEN "landed" ELSE "receiving"
  BY <1>1, <1>2, DispatcherType, ZenonT(60) DEF DispType, DispPcs
<1>4. rest # {} => Min(rest) \in rest
  <2> HIDE DEF rest
  <2> QED BY <1>2, FirstOfRest
<1>5. tok \in [to : 0..MaxSnaps, from : 0..MaxSnaps] /\ (rest # {} => tok.to \in rest)
  <2>1. NoToken \in [to : 0..MaxSnaps, from : 0..MaxSnaps]
    BY ConstantsAssumption DEF NoToken, NoSnap
  <2>2. s \in 0..MaxSnaps /\ (rest # {} => Min(rest) \in 0..MaxSnaps)
    BY <1>2, <1>4, ConstantsAssumption DEF Snap
  <2> HIDE DEF rest, s
  <2> QED BY <1>4, <2>1, <2>2
<1> HIDE DEF tok, next, rest, d, s
<1>6. token' \in [Peers -> [to : 0..MaxSnaps, from : 0..MaxSnaps]]
      /\ token'[p] = tok /\ \A q \in Peers : q # p => token'[q] = token[q]
  BY <1>1, <1>5 DEF TypeInv, TypeOK
<1>7. recv' \in [Peers -> SUBSET Snap]
  <2>1. recv[p] \cup {s} \in SUBSET Snap /\ recv \in [Peers -> SUBSET Snap]
    BY <1>2 DEF TypeInv, TypeOK
  <2> QED BY <1>1, <2>1, UpdateSets
<1>8. /\ disp' \in [Peers -> [Slots -> DispType]]
      /\ \A q \in Peers, j \in Slots :
           disp'[q][j] = IF q = p /\ j = i THEN next ELSE disp[q][j]
  BY <1>1, <1>3, SetDispType
<1>9. \A j \in Slots : j # i => disp[p][j].pc # "receiving"
  BY <1>1 DEF d, TypeInv, OneReceiver, Slots
<1>10. TypeOK'
  BY <1>1, <1>6, <1>7, <1>8 DEF TypeInv, TypeOK
<1>11. PlanHasTarget'
  BY <1>1 DEF TypeInv, PlanHasTarget
<1>12. StreamCarries'
  BY <1>3, <1>5, <1>6, <1>8, <1>9 DEF TypeInv, StreamCarries
<1>13. OneReceiver'
  BY <1>8, <1>9 DEF TypeInv, OneReceiver, Slots
<1> QED BY <1>10, <1>11, <1>12, <1>13 DEF TypeInv

LEMMA TypeAbandon ==
  ASSUME TypeInv, NEW p \in Peers, Abandon(p) PROVE TypeInv'
<1>1. /\ taken' = taken /\ snaps' = snaps /\ holds' = holds /\ cursors' = cursors
      /\ recv' = recv /\ exists' = exists /\ token' = token /\ last' = last
      /\ beheaded' = beheaded /\ GiveUp(p) /\ Fault /\ "current" \in Slots
  BY DEF Abandon, senderVars, receiverVars, Slots
<1>2. step' \in [Peers -> [pc : StepPcs, listed : SUBSET Snap, plan : PlanType]]
      /\ PlanHasTarget'
  BY <1>1, IdleType DEF TypeInv, TypeOK, PlanHasTarget, GiveUp, Idle
<1>3. faults' \in 0..MaxFaults
  BY <1>1, FaultType DEF TypeInv, TypeOK
<1>4. CASE SetDisp(p, "current", NoDisp)
  <2>1. NoDisp.pc \notin {"open", "receiving"}
    BY DEF NoDisp
  <2>2. /\ recv' \in [Peers -> SUBSET Snap] /\ exists' \in [Peers -> BOOLEAN]
        /\ token' \in [Peers -> [to : 0..MaxSnaps, from : 0..MaxSnaps]]
        /\ last' \in [Peers -> SUBSET Snap]
    BY <1>1 DEF TypeInv, TypeOK
  <2> QED BY <1>1, <1>3, <1>4, <2>1, <2>2, NoDispType, TypeQuietDispatcher
<1>5. CASE disp' = [disp EXCEPT ![p] = [current |-> NoDisp, old |-> disp[p]["current"]]]
           /\ disp[p]["old"].pc = "none"
  <2>1. disp[p]["current"] \in DispType
    BY <1>1, DispatcherType
  <2>2. [current |-> NoDisp, old |-> disp[p]["current"]] \in [Slots -> DispType]
    BY <2>1, NoDispType DEF Slots
  <2>3. disp' \in [Peers -> [Slots -> DispType]]
    BY <1>5, <2>2 DEF TypeInv, TypeOK
  <2>4. /\ disp'[p]["current"] = NoDisp /\ disp'[p]["old"] = disp[p]["current"]
        /\ \A q \in Peers : q # p => disp'[q] = disp[q]
    BY <1>5 DEF TypeInv, TypeOK
  <2>5. TypeOK'
    BY <1>1, <1>2, <1>3, <2>3 DEF TypeInv, TypeOK
  <2>6. StreamCarries'
    BY <1>1, <2>4 DEF TypeInv, StreamCarries, Slots, NoDisp
  <2>7. OneReceiver'
    BY <2>4 DEF TypeInv, OneReceiver, NoDisp
  <2> QED BY <1>2, <2>5, <2>6, <2>7 DEF TypeInv
<1> QED BY <1>4, <1>5 DEF Abandon

LEMMA TypeStutter == TypeInv /\ UNCHANGED vars => TypeInv'
BY DEF TypeInv, TypeOK, PlanHasTarget, StreamCarries, OneReceiver, vars, senderVars,
       receiverVars

LEMMA TypeStep == TypeInv /\ [Next]_vars => TypeInv'
<1> SUFFICES ASSUME TypeInv, [Next]_vars PROVE TypeInv'
  OBVIOUS
<1>1. CASE TakeSnapshot
  BY <1>1, TypeTakeSnapshot
<1>2. ASSUME NEW s \in Snap, SenderPrune(s) PROVE TypeInv'
  BY <1>2 DEF TypeInv, TypeOK, PlanHasTarget, StreamCarries, OneReceiver, SenderPrune,
              receiverVars
<1>3. ASSUME NEW p \in Peers, PushStep(p) PROVE TypeInv'
  BY <1>3, TypeListSender, TypePlanFilesystem, TypeDiscardPartial, TypePlaceHolds,
     TypeSweepStale, TypeOpenRecv, TypeReadResponse, TypeAdvanceCursor,
     TypeSweepCursors, TypeReleaseHolds
  DEF PushStep
<1>4. ASSUME NEW p \in Peers, Abandon(p) PROVE TypeInv'
  BY <1>4, TypeAbandon
<1>5. ASSUME NEW p \in Peers, NEW i \in Slots, Dispatcher(p, i) PROVE TypeInv'
  BY <1>5, TypeRecvStart, TypeRecvLand, TypeRecvBreak, TypeAdvanceLastHold DEF Dispatcher
<1>6. ASSUME NEW p \in Peers, OldExits(p) PROVE TypeInv'
  BY <1>6, TypeOldExits
<1>7. ASSUME NEW p \in Peers, NEW s \in Snap, RecvPrune(p, s) PROVE TypeInv'
  BY <1>7, TypePrune
<1>8. CASE UNCHANGED vars
  BY <1>8, TypeStutter
<1> QED BY <1>1, <1>2, <1>3, <1>4, <1>5, <1>6, <1>7, <1>8 DEF Next

\* Type correctness for every set of peers, both modes and every fault, and with it
\* that two dispatchers never receive into one target at once (recv_lock.rs).
THEOREM TypeCorrect == Spec => [](TypeOK /\ OneReceiver)
<1>1. Spec => []TypeInv
  BY TypeInit, TypeStep, PTL DEF Spec
<1>2. TypeInv => TypeOK /\ OneReceiver
  BY DEF TypeInv
<1> QED BY <1>1, <1>2, PTL

----------------------------------------------------------------------------
(***************************************************************************)
(* Anchors: AnchorInv is inductive, for a job in "latest" mode whose       *)
(* abandoned receives do not land late; from it HeadAnchored and           *)
(* CursorNotAhead.                                                         *)
(***************************************************************************)

\* What a step does not touch about peer q, it leaves anchored.
LEMMA AnchorFrame ==
  ASSUME NEW q \in Peers, Anchor(q),
         holds'[q] = holds[q], cursors'[q] = cursors[q], recv'[q] = recv[q],
         exists'[q] = exists[q], token'[q] = token[q], step'[q] = step[q],
         disp'[q] = disp[q], holds[q] \subseteq snaps'
  PROVE  Anchor(q)'
<1>1. RecvHead(q)' = RecvHead(q) /\ Keep(q)' = Keep(q)
  BY DEF RecvHead, Keep, FromHold
<1>2. /\ HeldIsLive(q)' /\ RecvExists(q)' /\ HeadKept(q)' /\ PartialOnHead(q)'
      /\ ListingCovers(q)' /\ StepKeepsHead(q)' /\ TargetHeld(q)'
  BY <1>1 DEF Anchor, HeldIsLive, RecvExists, HeadKept, PartialOnHead, ListingCovers,
              StepKeepsHead, TargetHeld
<1>3. DispatcherServesStep(q)' /\ OldIsDone(q)'
  BY <1>1 DEF Anchor, DispatcherServesStep, OldIsDone
<1>4. CommitIsHead(q)' /\ CursorIsHead(q)' /\ CursorsBehind(q)'
  BY <1>1 DEF Anchor, CommitIsHead, CursorIsHead, CursorsBehind
<1> QED BY <1>2, <1>3, <1>4 DEF Anchor

\* The types that the proofs below rely on, for one peer.
LEMMA PeerTypes ==
  ASSUME TypeInv, NEW p \in Peers
  PROVE  /\ snaps \in SUBSET Snap
         /\ holds \in [Peers -> SUBSET Snap] /\ holds[p] \in SUBSET Snap
         /\ cursors \in [Peers -> SUBSET Snap] /\ cursors[p] \in SUBSET Snap
         /\ recv \in [Peers -> SUBSET Snap] /\ recv[p] \in SUBSET Snap
         /\ exists \in [Peers -> BOOLEAN]
         /\ token \in [Peers -> [to : 0..MaxSnaps, from : 0..MaxSnaps]]
         /\ step \in [Peers -> [pc : StepPcs, listed : SUBSET Snap, plan : PlanType]]
         /\ disp \in [Peers -> [Slots -> DispType]]
         /\ disp[p]["current"] \in DispType /\ disp[p]["old"] \in DispType
BY DEF TypeInv, TypeOK, Slots

LEMMA NewestFacts ==
  ASSUME NEW S \in SUBSET Snap
  PROVE  /\ S = {} => Newest(S) = 0
         /\ S # {} => Newest(S) \in S /\ Newest(S) \in Snap
         /\ \A s \in S : s <= Newest(S)
         /\ Newest(S) \in Nat
<1>1. CASE S = {}
  BY <1>1 DEF Newest, NoSnap
<1>2. CASE S # {}
  <2>1. Newest(S) \in S /\ \A s \in S : s <= Newest(S)
    BY <1>2, NewestIsLast
  <2>2. Newest(S) \in Snap
    BY <2>1
  <2>3. Newest(S) \in Nat
    BY <2>2, ConstantsAssumption DEF Snap
  <2> QED BY <1>2, <2>1, <2>2, <2>3
<1> QED BY <1>1, <1>2

\* A snapshot of S that no other exceeds is its newest.
LEMMA NewestUnique ==
  ASSUME NEW S \in SUBSET Snap, NEW m \in S, \A s \in S : s <= m
  PROVE  Newest(S) = m
<1>1. Newest(S) \in S /\ m <= Newest(S) /\ Newest(S) \in Nat
  BY NewestFacts
<1>2. Newest(S) <= m /\ m \in Nat
  BY <1>1, ConstantsAssumption DEF Snap
<1> QED BY <1>1, <1>2

LEMMA HeadIsLast ==
  ASSUME TypeInv, NEW p \in Peers
  PROVE  /\ recv[p] = {} => RecvHead(p) = 0
         /\ recv[p] # {} => RecvHead(p) \in recv[p] /\ RecvHead(p) \in Snap
         /\ \A s \in recv[p] : s <= RecvHead(p)
         /\ RecvHead(p) \in Nat
BY PeerTypes, NewestFacts DEF RecvHead

LEMMA InvInit == Init => AnchorInv
<1> SUFFICES ASSUME Init, NEW p \in Peers PROVE Anchor(p)
  BY TypeInit DEF AnchorInv, Intact
<1> QED
  BY DEF Init, Anchor, HeldIsLive, RecvExists, HeadKept, PartialOnHead, ListingCovers,
         StepKeepsHead, TargetHeld, DispatcherServesStep, OldIsDone, CommitIsHead,
         CursorIsHead, CursorsBehind, Idle, NoDisp, BeforeSending, HoldsPlaced, Slots

----------------------------------------------------------------------------
(***************************************************************************)
(* Snapshots and prunes.                                                   *)
(***************************************************************************)
LEMMA AnchorTakeSnapshot ==
  ASSUME NEW q \in Peers, Anchor(q), TakeSnapshot PROVE Anchor(q)'
<1>1. holds[q] \subseteq snaps'
  BY DEF Anchor, HeldIsLive, TakeSnapshot
<1> QED BY <1>1, AnchorFrame DEF TakeSnapshot, receiverVars

LEMMA AnchorSenderPrune ==
  ASSUME NEW q \in Peers, Anchor(q), NEW s \in Snap, SenderPrune(s) PROVE Anchor(q)'
<1>1. holds[q] \subseteq snaps'
  BY DEF Anchor, HeldIsLive, SenderPrune
<1> QED BY <1>1, AnchorFrame DEF SenderPrune, receiverVars

\* A prune on the receiver that does not take its newest snapshot.
LEMMA AnchorRecvPrune ==
  ASSUME TypeInv, NEW p \in Peers, Anchor(p), NEW s \in Snap, RecvPrune(p, s),
         s # Newest(recv[p])
  PROVE  Anchor(p)'
<1>1. /\ holds' = holds /\ cursors' = cursors /\ exists' = exists /\ token' = token
      /\ step' = step /\ disp' = disp /\ snaps' = snaps
      /\ recv' = [recv EXCEPT ![p] = @ \ {s}] /\ s \in recv[p]
  BY DEF RecvPrune, senderVars
<1>2. recv'[p] = recv[p] \ {s}
  BY <1>1, PeerTypes
<1>3. RecvHead(p) \in recv'[p] /\ recv[p] # {}
  BY <1>1, <1>2, HeadIsLast DEF RecvHead
<1>4. RecvHead(p)' = RecvHead(p)
  <2>1. recv'[p] \in SUBSET Snap /\ \A x \in recv'[p] : x <= RecvHead(p)
    BY <1>2, PeerTypes, HeadIsLast
  <2>2. Newest(recv'[p]) = RecvHead(p)
    BY <1>3, <2>1, NewestUnique
  <2> QED BY <2>2 DEF RecvHead
<1>5. Keep(p)' = Keep(p)
  BY <1>1 DEF Keep, FromHold
<1>6. /\ HeldIsLive(p)' /\ RecvExists(p)' /\ HeadKept(p)' /\ PartialOnHead(p)'
      /\ ListingCovers(p)' /\ StepKeepsHead(p)' /\ TargetHeld(p)'
  BY <1>1, <1>3, <1>4, <1>5
  DEF Anchor, HeldIsLive, RecvExists, HeadKept, PartialOnHead, ListingCovers,
      StepKeepsHead, TargetHeld
<1>7. DispatcherServesStep(p)' /\ OldIsDone(p)'
  BY <1>1, <1>3, <1>4 DEF Anchor, DispatcherServesStep, OldIsDone
<1>8. CommitIsHead(p)' /\ CursorIsHead(p)' /\ CursorsBehind(p)'
  BY <1>1, <1>3, <1>4 DEF Anchor, CommitIsHead, CursorIsHead, CursorsBehind
<1> QED BY <1>6, <1>7, <1>8 DEF Anchor

----------------------------------------------------------------------------
(***************************************************************************)
(* The push step, up to the stream.                                        *)
(***************************************************************************)

\* A step that is given up demands only what holds between steps, of a dispatcher
\* that is gone.
LEMMA AnchorGiveUp ==
  ASSUME TypeInv, NEW p \in Peers, Anchor(p), step'[p] = Idle,
         disp'[p]["current"].pc = "none",
         disp'[p]["old"].pc \in {"none", "landed", "ok", "failed"},
         holds'[p] \subseteq snaps', recv'[p] = recv[p], recv[p] # {} => exists'[p],
         recv[p] # {} => RecvHead(p) \in holds'[p] \cup cursors'[p],
         token'[p] = token[p] \/ token'[p] = NoToken,
         \A c \in cursors'[p] : c <= RecvHead(p)
  PROVE  Anchor(p)'
<1>1. RecvHead(p)' = RecvHead(p)
  BY DEF RecvHead
<1>2. HeldIsLive(p)' /\ RecvExists(p)' /\ HeadKept(p)' /\ PartialOnHead(p)'
  BY <1>1 DEF Anchor, HeldIsLive, RecvExists, HeadKept, PartialOnHead
<1>3. /\ ListingCovers(p)' /\ StepKeepsHead(p)' /\ TargetHeld(p)'
      /\ CommitIsHead(p)' /\ CursorIsHead(p)'
  BY DEF ListingCovers, StepKeepsHead, TargetHeld, CommitIsHead, CursorIsHead, Idle,
         BeforeSending, HoldsPlaced
<1>4. DispatcherServesStep(p)' /\ OldIsDone(p)' /\ CursorsBehind(p)'
  BY <1>1 DEF DispatcherServesStep, OldIsDone, CursorsBehind
<1> QED BY <1>2, <1>3, <1>4 DEF Anchor

\* Steps before the stream starts: no dispatcher serves this peer's step.
LEMMA NoDispatcherYet ==
  ASSUME TypeInv, NEW p \in Peers, Anchor(p), step[p].pc # "sending"
  PROVE  disp[p]["current"].pc = "none" /\ OldIsDone(p)
BY DEF Anchor, DispatcherServesStep

LEMMA AnchorListSender ==
  ASSUME TypeInv, NEW p \in Peers, Anchor(p), ListSender(p) PROVE Anchor(p)'
<1>1. /\ holds' = holds /\ cursors' = cursors /\ recv' = recv /\ exists' = exists
      /\ token' = token /\ disp' = disp /\ snaps' = snaps
      /\ step[p].pc = "idle"
      /\ step'[p] = [pc |-> "listed", listed |-> snaps, plan |-> Nothing]
  BY PeerTypes DEF ListSender, senderVars, receiverVars
<1>2. RecvHead(p)' = RecvHead(p)
  BY <1>1 DEF RecvHead
<1>3. HeldIsLive(p)' /\ RecvExists(p)' /\ HeadKept(p)' /\ PartialOnHead(p)' /\ CursorsBehind(p)'
  BY <1>1, <1>2
  DEF Anchor, HeldIsLive, RecvExists, HeadKept, PartialOnHead, CursorsBehind
<1>4. /\ ListingCovers(p)' /\ StepKeepsHead(p)' /\ TargetHeld(p)'
      /\ CommitIsHead(p)' /\ CursorIsHead(p)'
  BY <1>1
  DEF Anchor, HeldIsLive, ListingCovers, StepKeepsHead, TargetHeld, CommitIsHead,
      CursorIsHead, BeforeSending, HoldsPlaced
<1>5. DispatcherServesStep(p)' /\ OldIsDone(p)'
  BY <1>1, NoDispatcherYet DEF DispatcherServesStep, OldIsDone
<1> QED BY <1>3, <1>4, <1>5 DEF Anchor

LEMMA PlanOneFits ==
  ASSUME NEW S \in SUBSET (1..MaxSnaps), NEW R \in SUBSET (1..MaxSnaps),
         NEW B \in SUBSET (1..MaxSnaps), NEW resumeB, NEW seen, NEW ex \in BOOLEAN,
         NEW decodes \in BOOLEAN, NEW listed \in BOOLEAN, NEW plan,
         plan = PlanOne(S, R, seen, ex, decodes, resumeB, B, listed, Mode)
  PROVE  /\ WellFormed(plan, S, R, B, seen, Mode)
         /\ \A h \in R : (\A s \in R : s <= h) => BasedOn(plan, h, S)
<1> DEFINE planned == PlanOne(S, R, seen, ex, decodes, resumeB, B, listed, Mode)
<1>0. MaxSnaps \in Nat /\ Mode \in Modes
  BY ConstantsAssumption
<1>1. WellFormed(planned, S, R, B, seen, Mode)
  BY <1>0, PlanOneWellFormed
<1>3. \A h \in R : (\A s \in R : s <= h) => BasedOn(planned, h, S)
  BY <1>0, PlanOneWellFormed
<1> HIDE DEF planned
<1>4. plan = planned
  BY DEF planned
<1> QED BY <1>1, <1>3, <1>4

LEMMA PlanSeenWellFormed ==
  ASSUME TypeInv, NEW p \in Peers, NEW seen, NEW decodes \in BOOLEAN,
         NEW listed \in BOOLEAN, NEW listedAgain \in BOOLEAN, NEW plan,
         plan = PlanSeen(p, seen, decodes, listed, listedAgain)
  PROVE  /\ WellFormed(plan, step[p].listed, recv[p], Bookmarks, seen, Mode)
         /\ \A h \in recv[p] :
              (\A s \in recv[p] : s <= h) => BasedOn(plan, h, step[p].listed)
<1>1. step[p].listed \in SUBSET (1..MaxSnaps) /\ recv[p] \in SUBSET (1..MaxSnaps)
      /\ exists[p] \in BOOLEAN
  BY DEF TypeInv, TypeOK, Snap
<1>2. Bookmarks \in SUBSET (1..MaxSnaps)
  BY BookmarksType DEF TypeInv, Snap
<1>4. plan = PlanOne(step[p].listed, recv[p], seen, exists[p], decodes,
                     IF listed THEN Bookmarks ELSE {}, Bookmarks, listedAgain, Mode)
  BY DEF PlanSeen
<1> DEFINE S == step[p].listed
           R == recv[p]
           ex == exists[p]
           B == Bookmarks
           resumeB == IF listed THEN Bookmarks ELSE {}
<1>5. /\ S \in SUBSET (1..MaxSnaps) /\ R \in SUBSET (1..MaxSnaps) /\ ex \in BOOLEAN
      /\ B \in SUBSET (1..MaxSnaps)
      /\ plan = PlanOne(S, R, seen, ex, decodes, resumeB, B, listedAgain, Mode)
  BY <1>1, <1>2, <1>4
<1> HIDE DEF S, R, ex, B, resumeB
<1>6. /\ WellFormed(plan, S, R, B, seen, Mode)
      /\ \A h \in R : (\A s \in R : s <= h) => BasedOn(plan, h, S)
  BY <1>5, PlanOneFits
<1> QED BY <1>6 DEF S, R, ex, B

\* The plan keeps the receiver's newest snapshot, or a cursor records it.
LEMMA PlanKeepsHead ==
  ASSUME TypeInv, Mode = "latest", NEW p \in Peers, Anchor(p), step[p].pc = "listed",
         NEW seen \in SeenTokens(p), NEW decodes \in BOOLEAN, NEW listed \in BOOLEAN,
         NEW listedAgain \in BOOLEAN, NEW plan,
         plan = PlanSeen(p, seen, decodes, listed, listedAgain),
         plan.kind \in SendKinds, recv[p] # {}, RecvHead(p) \notin cursors[p]
  PROVE  \/ plan.kind \in SnapshotBased /\ plan.from = RecvHead(p)
         \/ plan.kind = "resume" /\ plan.from = RecvHead(p) /\ RecvHead(p) \in step[p].listed
<1>1. RecvHead(p) \in holds[p] /\ holds[p] \subseteq step[p].listed
  BY DEF Anchor, HeadKept, ListingCovers
<1>4. /\ WellFormed(plan, step[p].listed, recv[p], Bookmarks, seen, Mode)
      /\ \A h \in recv[p] : (\A s \in recv[p] : s <= h) => BasedOn(plan, h, step[p].listed)
  BY PlanSeenWellFormed
<1>5. BasedOn(plan, RecvHead(p), step[p].listed)
  BY <1>4, HeadIsLast
<1>6. CASE plan.kind = "resume"
  <2>1. seen # NoToken /\ plan.from = seen.from
    BY <1>4, <1>6 DEF WellFormed
  <2>2. seen = token[p]
    BY <2>1 DEF SeenTokens
  <2>3. plan.from = RecvHead(p)
    BY <2>1, <2>2 DEF Anchor, PartialOnHead
  <2> QED BY <1>1, <1>6, <2>3
<1>7. CASE plan.kind # "resume"
  BY <1>1, <1>5, <1>7 DEF BasedOn
<1> QED BY <1>6, <1>7

LEMMA AnchorPlanFilesystem ==
  ASSUME TypeInv, Mode = "latest", NEW p \in Peers, Anchor(p), PlanFilesystem(p)
  PROVE  Anchor(p)'
<1>1. PICK seen \in SeenTokens(p), decodes \in BOOLEAN, listed \in BOOLEAN,
           listedAgain \in BOOLEAN :
        LET plan == PlanSeen(p, seen, decodes, listed, listedAgain)
        IN  /\ IF seen = token[p] /\ decodes /\ listed /\ listedAgain
               THEN NoFault ELSE Fault
            /\ IF plan.kind \in SendKinds
               THEN step' = [step EXCEPT
                      ![p].pc = IF plan.discard THEN "discarding" ELSE "planned",
                      ![p].plan = plan]
               ELSE GiveUp(p)
  BY Zenon DEF PlanFilesystem
<1> DEFINE plan == PlanSeen(p, seen, decodes, listed, listedAgain)
<1>2. /\ holds' = holds /\ cursors' = cursors /\ recv' = recv /\ exists' = exists
      /\ token' = token /\ disp' = disp /\ snaps' = snaps /\ step[p].pc = "listed"
  BY DEF PlanFilesystem, senderVars, receiverVars
<1>3. RecvHead(p)' = RecvHead(p)
  BY <1>2 DEF RecvHead
<1>4. /\ HeldIsLive(p)' /\ RecvExists(p)' /\ HeadKept(p)' /\ PartialOnHead(p)'
      /\ CursorsBehind(p)'
  BY <1>2, <1>3
  DEF Anchor, HeldIsLive, RecvExists, HeadKept, PartialOnHead, CursorsBehind
<1>5. DispatcherServesStep(p)' /\ OldIsDone(p)'
  BY <1>2, NoDispatcherYet DEF DispatcherServesStep, OldIsDone
<1>6. CASE plan.kind \in SendKinds
  <2>1. /\ step'[p].pc = IF plan.discard THEN "discarding" ELSE "planned"
        /\ step'[p].plan = plan /\ step'[p].listed = step[p].listed
    <3>1. plan.kind \in SendKinds =>
            step' = [step EXCEPT ![p].pc = IF plan.discard THEN "discarding" ELSE "planned",
                                 ![p].plan = plan]
      BY <1>1
    <3> HIDE DEF plan
    <3> QED BY <1>6, <3>1, PeerTypes
  <2>2. plan.kind # "incremental_all" /\ (plan.kind = "full" => plan.from = NoSnap)
    <3>1. WellFormed(plan, step[p].listed, recv[p], Bookmarks, seen, Mode)
      BY PlanSeenWellFormed
    <3> QED BY <3>1 DEF WellFormed, SnapshotBased
  <2>3. \/ recv[p] = {} \/ RecvHead(p) \in cursors[p]
        \/ plan.kind \in SnapshotBased /\ plan.from = RecvHead(p)
        \/ plan.kind = "resume" /\ plan.from = RecvHead(p) /\ RecvHead(p) \in step[p].listed
    BY <1>2, <1>6, PlanKeepsHead
  <2> HIDE DEF plan
  <2>4. recv[p] # {} => RecvHead(p)' \in cursors'[p] \cup Keep(p)'
    BY <1>2, <1>3, <2>1, <2>3 DEF Keep, FromHold, SnapshotBased
  <2>5. /\ ListingCovers(p)' /\ StepKeepsHead(p)' /\ TargetHeld(p)'
        /\ CommitIsHead(p)' /\ CursorIsHead(p)'
    BY <1>2, <2>1, <2>2, <2>4
    DEF ListingCovers, StepKeepsHead, TargetHeld, CommitIsHead, CursorIsHead, HoldsPlaced
  <2> QED BY <1>4, <1>5, <2>5 DEF Anchor
<1>7. CASE plan.kind \notin SendKinds
  <2>1. step'[p] = Idle
    BY <1>1, <1>7, PeerTypes DEF GiveUp
  <2>2. /\ ListingCovers(p)' /\ StepKeepsHead(p)' /\ TargetHeld(p)'
        /\ CommitIsHead(p)' /\ CursorIsHead(p)'
    BY <2>1 DEF ListingCovers, StepKeepsHead, TargetHeld, CommitIsHead, CursorIsHead,
                Idle, BeforeSending, HoldsPlaced
  <2> QED BY <1>4, <1>5, <2>2 DEF Anchor
<1> QED BY <1>6, <1>7

LEMMA AnchorDiscardPartial ==
  ASSUME TypeInv, NEW p \in Peers, Anchor(p), DiscardPartial(p) PROVE Anchor(p)'
<1>1. /\ holds' = holds /\ cursors' = cursors /\ recv' = recv /\ disp' = disp
      /\ snaps' = snaps /\ step[p].pc = "discarding"
  BY DEF DiscardPartial, senderVars
<1>2. /\ disp[p]["current"].pc = "none" /\ OldIsDone(p)
      /\ holds[p] \subseteq snaps /\ (recv[p] # {} => exists[p])
      /\ (recv[p] # {} => RecvHead(p) \in holds[p] \cup cursors[p])
      /\ \A c \in cursors[p] : c <= RecvHead(p)
  BY <1>1, NoDispatcherYet
  DEF Anchor, HeldIsLive, RecvExists, HeadKept, CursorsBehind
<1>3. CASE GiveUp(p) /\ UNCHANGED <<token, exists>>
  <2>1. step'[p] = Idle
    BY <1>3, PeerTypes DEF GiveUp
  <2> QED BY <1>1, <1>2, <1>3, <2>1, AnchorGiveUp DEF OldIsDone
<1>4. CASE /\ token' = [token EXCEPT ![p] = NoToken]
           /\ exists' = [exists EXCEPT ![p] = ExistsAfterAbort(p)]
           /\ Goto(p, "planned")
  <2>1. /\ step'[p] = [step[p] EXCEPT !.pc = "planned"]
        /\ token'[p] = NoToken
        /\ recv[p] # {} => exists'[p]
    BY <1>2, <1>4, PeerTypes DEF Goto, ExistsAfterAbort
  <2>2. /\ step'[p].pc = "planned" /\ step'[p].plan = step[p].plan
        /\ step'[p].listed = step[p].listed
    BY <2>1, PeerTypes
  <2>3. RecvHead(p)' = RecvHead(p) /\ Keep(p)' = Keep(p)
    BY <1>1, <2>2 DEF RecvHead, Keep, FromHold
  <2>4. /\ HeldIsLive(p)' /\ RecvExists(p)' /\ HeadKept(p)' /\ PartialOnHead(p)'
        /\ CursorsBehind(p)'
    BY <1>1, <1>2, <2>1, <2>3
    DEF HeldIsLive, RecvExists, HeadKept, PartialOnHead, CursorsBehind
  <2>5. StepKeepsHead(p)'
    BY <1>1, <2>2, <2>3 DEF Anchor, StepKeepsHead, BeforeSending
  <2>6. /\ ListingCovers(p)' /\ TargetHeld(p)' /\ CommitIsHead(p)' /\ CursorIsHead(p)'
        /\ DispatcherServesStep(p)' /\ OldIsDone(p)'
    BY <1>1, <1>2, <2>2
    DEF ListingCovers, TargetHeld, CommitIsHead, CursorIsHead, HoldsPlaced,
        DispatcherServesStep, OldIsDone
  <2> QED BY <2>4, <2>5, <2>6 DEF Anchor
<1> QED BY <1>3, <1>4 DEF DiscardPartial

LEMMA AnchorPlaceHolds ==
  ASSUME TypeInv, NEW p \in Peers, Anchor(p), PlaceHolds(p) PROVE Anchor(p)'
<1>1. /\ cursors' = cursors /\ recv' = recv /\ exists' = exists /\ token' = token
      /\ disp' = disp /\ snaps' = snaps /\ step[p].pc = "planned"
  BY DEF PlaceHolds, receiverVars
<1>2. /\ disp[p]["current"].pc = "none" /\ OldIsDone(p)
      /\ holds[p] \subseteq snaps /\ (recv[p] # {} => exists[p])
      /\ (recv[p] # {} => RecvHead(p) \in holds[p] \cup cursors[p])
      /\ \A c \in cursors[p] : c <= RecvHead(p)
  BY <1>1, NoDispatcherYet
  DEF Anchor, HeldIsLive, RecvExists, HeadKept, CursorsBehind
<1>3. CASE /\ Keep(p) \subseteq snaps
           /\ holds' = [holds EXCEPT ![p] = @ \cup Keep(p)]
           /\ Goto(p, "held")
  <2>1. /\ holds'[p] = holds[p] \cup Keep(p)
        /\ step'[p] = [step[p] EXCEPT !.pc = "held"]
    BY <1>3, PeerTypes DEF Goto
  <2>2. /\ step'[p].pc = "held" /\ step'[p].plan = step[p].plan
        /\ step'[p].listed = step[p].listed
    BY <2>1, PeerTypes
  <2>3. RecvHead(p)' = RecvHead(p) /\ Keep(p)' = Keep(p)
    BY <1>1, <2>2 DEF RecvHead, Keep, FromHold
  <2>4. Keep(p) \subseteq snaps /\ step[p].plan.to \in Keep(p)
    BY <1>3 DEF Keep
  <2>5. /\ HeldIsLive(p)' /\ RecvExists(p)' /\ HeadKept(p)' /\ PartialOnHead(p)'
        /\ CursorsBehind(p)'
    BY <1>1, <1>2, <2>1, <2>3, <2>4
    DEF Anchor, HeldIsLive, RecvExists, HeadKept, PartialOnHead, CursorsBehind
  <2>6. StepKeepsHead(p)' /\ TargetHeld(p)'
    BY <1>1, <2>1, <2>2, <2>3, <2>4
    DEF Anchor, StepKeepsHead, TargetHeld, BeforeSending
  <2>7. /\ ListingCovers(p)' /\ CommitIsHead(p)' /\ CursorIsHead(p)'
        /\ DispatcherServesStep(p)' /\ OldIsDone(p)'
    BY <1>1, <1>2, <2>2
    DEF ListingCovers, CommitIsHead, CursorIsHead, DispatcherServesStep, OldIsDone
  <2> QED BY <2>5, <2>6, <2>7 DEF Anchor
<1>4. CASE /\ FromHold(p) \subseteq snaps
           /\ holds' = [holds EXCEPT ![p] = @ \cup FromHold(p)]
           /\ GiveUp(p)
  <2>1. /\ holds'[p] = holds[p] \cup FromHold(p) /\ step'[p] = Idle
    BY <1>4, PeerTypes DEF GiveUp
  <2> QED BY <1>1, <1>2, <1>4, <2>1, AnchorGiveUp DEF OldIsDone
<1>5. CASE GiveUp(p) /\ UNCHANGED holds
  <2>1. /\ holds'[p] = holds[p] /\ step'[p] = Idle
    BY <1>5, PeerTypes DEF GiveUp
  <2> QED BY <1>1, <1>2, <1>5, <2>1, AnchorGiveUp DEF OldIsDone
<1> QED BY <1>3, <1>4, <1>5 DEF PlaceHolds

\* What a sweep leaves held: everything that is kept, nothing that was not held.
LEMMA ReleaseKeeps ==
  ASSUME TypeInv, NEW p \in Peers, NEW keep, ReleaseExcept(p, keep)
  PROVE  /\ holds[p] \cap keep \subseteq holds'[p]
         /\ holds'[p] \subseteq holds[p]
         /\ \A r \in Peers : r # p => holds'[r] = holds[r]
BY PeerTypes DEF ReleaseExcept

LEMMA AnchorSweepStale ==
  ASSUME TypeInv, NEW p \in Peers, Anchor(p), SweepStale(p) PROVE Anchor(p)'
<1>1. /\ cursors' = cursors /\ recv' = recv /\ exists' = exists /\ token' = token
      /\ disp' = disp /\ snaps' = snaps /\ step[p].pc = "held" /\ Goto(p, "ready")
      /\ ReleaseExcept(p, Keep(p))
  BY DEF SweepStale, receiverVars
<1>2. /\ step'[p] = [step[p] EXCEPT !.pc = "ready"]
  BY <1>1, PeerTypes DEF Goto
<1>3. /\ step'[p].pc = "ready" /\ step'[p].plan = step[p].plan
      /\ step'[p].listed = step[p].listed
  BY <1>2, PeerTypes
<1>4. RecvHead(p)' = RecvHead(p) /\ Keep(p)' = Keep(p)
  BY <1>1, <1>3 DEF RecvHead, Keep, FromHold
<1>5. /\ holds[p] \cap Keep(p) \subseteq holds'[p] /\ holds'[p] \subseteq holds[p]
  BY <1>1, ReleaseKeeps
<1>6. recv[p] # {} => RecvHead(p) \in cursors[p] \cup (holds[p] \cap Keep(p))
  BY <1>1 DEF Anchor, HeadKept, StepKeepsHead, BeforeSending
<1>7. /\ HeldIsLive(p)' /\ RecvExists(p)' /\ HeadKept(p)' /\ PartialOnHead(p)'
      /\ CursorsBehind(p)'
  BY <1>1, <1>4, <1>5, <1>6
  DEF Anchor, HeldIsLive, RecvExists, HeadKept, PartialOnHead, CursorsBehind
<1>8. step[p].plan.to \in holds[p] \cap Keep(p)
  BY <1>1 DEF Anchor, TargetHeld, HoldsPlaced, Keep
<1>9. StepKeepsHead(p)' /\ TargetHeld(p)'
  BY <1>1, <1>3, <1>4, <1>5, <1>8
  DEF Anchor, StepKeepsHead, TargetHeld, BeforeSending
<1>10. disp[p]["current"].pc = "none" /\ OldIsDone(p)
  BY <1>1, NoDispatcherYet
<1>11. /\ ListingCovers(p)' /\ CommitIsHead(p)' /\ CursorIsHead(p)'
       /\ DispatcherServesStep(p)' /\ OldIsDone(p)'
  BY <1>1, <1>3, <1>10
  DEF ListingCovers, CommitIsHead, CursorIsHead, DispatcherServesStep, OldIsDone
<1> QED BY <1>7, <1>9, <1>11 DEF Anchor

----------------------------------------------------------------------------
(***************************************************************************)
(* The stream.                                                             *)
(***************************************************************************)

\* While the stream runs, a step that leaves the sender alone has to keep what the
\* receiver's state is about, and nothing else.
LEMMA AnchorSending ==
  ASSUME TypeInv, NEW p \in Peers, Anchor(p),
         step'[p].pc = "sending", step'[p].plan = step[p].plan, step[p].plan.to \in holds[p],
         holds'[p] = holds[p], snaps' = snaps,
         RecvExists(p)', HeadKept(p)', PartialOnHead(p)', CursorsBehind(p)',
         DispatcherServesStep(p)', OldIsDone(p)'
  PROVE  Anchor(p)'
<1>1. HeldIsLive(p)'
  BY DEF Anchor, HeldIsLive
<1>2. /\ ListingCovers(p)' /\ StepKeepsHead(p)' /\ TargetHeld(p)'
      /\ CommitIsHead(p)' /\ CursorIsHead(p)'
  BY DEF ListingCovers, StepKeepsHead, TargetHeld, CommitIsHead, CursorIsHead, BeforeSending
<1> QED BY <1>1, <1>2 DEF Anchor

LEMMA AnchorOpenRecv ==
  ASSUME TypeInv, NEW p \in Peers, Anchor(p), OpenRecv(p) PROVE Anchor(p)'
<1>1. /\ holds' = holds /\ cursors' = cursors /\ recv' = recv /\ exists' = exists
      /\ token' = token /\ snaps' = snaps /\ step[p].pc = "ready" /\ "current" \in Slots
      /\ "old" \in Slots
  BY DEF OpenRecv, senderVars, receiverVars, Slots
<1>2. /\ disp[p]["current"].pc = "none" /\ OldIsDone(p)
      /\ holds[p] \subseteq snaps /\ (recv[p] # {} => exists[p])
      /\ (recv[p] # {} => RecvHead(p) \in holds[p] \cup cursors[p])
      /\ \A c \in cursors[p] : c <= RecvHead(p)
  BY <1>1, NoDispatcherYet
  DEF Anchor, HeldIsLive, RecvExists, HeadKept, CursorsBehind
<1>3. CASE SendPossible(p)
  <2> DEFINE d == [pc |-> "open", kind |-> step[p].plan.kind,
                   from |-> step[p].plan.from, to |-> step[p].plan.to,
                   rest |-> Carried(p), discard |-> step[p].plan.discard]
  <2>1. Goto(p, "sending") /\ SetDisp(p, "current", d)
    BY <1>3 DEF OpenRecv
  <2>2. d \in DispType
    BY <1>1, <1>3, CarriedType DEF TypeInv, TypeOK, PlanType, DispType, DispPcs
  <2>3. /\ step[p].plan.kind # "incremental_all" /\ step[p].plan.from < step[p].plan.to
        /\ (step[p].plan.kind = "full" => step[p].plan.from = NoSnap)
        /\ step[p].plan.kind \in SendKinds /\ step[p].plan.to \in holds[p]
    BY <1>1, <1>3
    DEF Anchor, StepKeepsHead, BeforeSending, SendPossible, TargetHeld, HoldsPlaced,
        TypeInv, PlanHasTarget
  <2>4. Carried(p) = {step[p].plan.to}
    BY <2>3 DEF Carried
  <2>5. /\ d.pc = "open" /\ d.kind = step[p].plan.kind /\ d.from = step[p].plan.from
        /\ d.to = step[p].plan.to /\ d.rest = {step[p].plan.to}
    BY <2>4
  <2> HIDE DEF d
  <2>6. /\ disp'[p]["current"] = d /\ disp'[p]["old"] = disp[p]["old"]
    <3>1. \A r \in Peers, j \in Slots :
             disp'[r][j] = IF r = p /\ j = "current" THEN d ELSE disp[r][j]
      BY <1>1, <2>1, <2>2, SetDispType
    <3> QED BY <1>1, <3>1
  <2>7. /\ step'[p].pc = "sending" /\ step'[p].plan = step[p].plan
    BY <2>1, PeerTypes DEF Goto
  <2>8. RecvHead(p)' = RecvHead(p)
    BY <1>1 DEF RecvHead
  <2>9. RecvExists(p)' /\ HeadKept(p)' /\ PartialOnHead(p)' /\ CursorsBehind(p)'
    BY <1>1, <1>2, <2>8
    DEF Anchor, RecvExists, HeadKept, PartialOnHead, CursorsBehind
  <2>10. DispatcherServesStep(p)' /\ OldIsDone(p)'
    BY <1>2, <2>3, <2>5, <2>6, <2>7 DEF DispatcherServesStep, OldIsDone
  <2> QED BY <1>1, <2>3, <2>7, <2>9, <2>10, AnchorSending
<1>4. CASE ~SendPossible(p)
  <2>1. GiveUp(p) /\ disp' = disp
    BY <1>4 DEF OpenRecv
  <2>2. step'[p] = Idle
    BY <2>1, PeerTypes DEF GiveUp
  <2> QED BY <1>1, <1>2, <2>1, <2>2, AnchorGiveUp DEF OldIsDone
<1> QED BY <1>3, <1>4

LEMMA AnchorReadResponse ==
  ASSUME TypeInv, NEW p \in Peers, Anchor(p), ReadResponse(p) PROVE Anchor(p)'
<1>1. /\ holds' = holds /\ cursors' = cursors /\ recv' = recv /\ exists' = exists
      /\ token' = token /\ snaps' = snaps /\ step[p].pc = "sending"
      /\ SetDisp(p, "current", NoDisp) /\ "current" \in Slots /\ "old" \in Slots
  BY DEF ReadResponse, senderVars, receiverVars, Slots
<1>2. /\ OldIsDone(p) /\ holds[p] \subseteq snaps /\ (recv[p] # {} => exists[p])
      /\ (recv[p] # {} => RecvHead(p) \in holds[p] \cup cursors[p])
      /\ \A c \in cursors[p] : c <= RecvHead(p)
  BY DEF Anchor, HeldIsLive, RecvExists, HeadKept, CursorsBehind
<1>3. /\ disp'[p]["current"] = NoDisp /\ disp'[p]["old"] = disp[p]["old"]
  <2>1. \A r \in Peers, j \in Slots :
           disp'[r][j] = IF r = p /\ j = "current" THEN NoDisp ELSE disp[r][j]
    BY <1>1, NoDispType, SetDispType
  <2> QED BY <1>1, <2>1
<1>4. disp'[p]["current"].pc = "none" /\ OldIsDone(p)'
  BY <1>2, <1>3 DEF NoDisp, OldIsDone
<1>5. CASE disp[p]["current"].pc = "ok" /\ Goto(p, "committing")
  <2>1. /\ step'[p].pc = "committing" /\ step'[p].plan = step[p].plan
    BY <1>5, PeerTypes DEF Goto
  <2>2. step[p].plan.to \in recv[p] /\ step[p].plan.to = RecvHead(p)
    BY <1>5 DEF Anchor, DispatcherServesStep
  <2>3. RecvHead(p)' = RecvHead(p)
    BY <1>1 DEF RecvHead
  <2>4. /\ HeldIsLive(p)' /\ RecvExists(p)' /\ HeadKept(p)' /\ PartialOnHead(p)'
        /\ CursorsBehind(p)'
    BY <1>1, <1>2, <2>3
    DEF Anchor, HeldIsLive, RecvExists, HeadKept, PartialOnHead, CursorsBehind
  <2>5. TargetHeld(p)' /\ CommitIsHead(p)'
    BY <1>1, <2>1, <2>2, <2>3 DEF Anchor, TargetHeld, HoldsPlaced, CommitIsHead
  <2>6. /\ ListingCovers(p)' /\ StepKeepsHead(p)' /\ CursorIsHead(p)'
        /\ DispatcherServesStep(p)'
    BY <1>4, <2>1
    DEF ListingCovers, StepKeepsHead, CursorIsHead, BeforeSending, DispatcherServesStep
  <2> QED BY <1>4, <2>4, <2>5, <2>6 DEF Anchor
<1>6. CASE GiveUp(p)
  <2>1. step'[p] = Idle
    BY <1>6, PeerTypes DEF GiveUp
  <2> QED BY <1>1, <1>2, <1>4, <2>1, AnchorGiveUp DEF OldIsDone
<1> QED BY <1>5, <1>6 DEF ReadResponse

----------------------------------------------------------------------------
(***************************************************************************)
(* The commit, and giving up.                                              *)
(***************************************************************************)

LEMMA AnchorAdvanceCursor ==
  ASSUME TypeInv, NEW p \in Peers, Anchor(p), AdvanceCursor(p) PROVE Anchor(p)'
<1>1. /\ recv' = recv /\ exists' = exists /\ token' = token /\ disp' = disp
      /\ snaps' = snaps /\ step[p].pc = "committing"
  BY DEF AdvanceCursor, receiverVars
<1>2. /\ disp[p]["current"].pc = "none" /\ OldIsDone(p)
      /\ holds[p] \subseteq snaps /\ (recv[p] # {} => exists[p])
      /\ (recv[p] # {} => RecvHead(p) \in holds[p] \cup cursors[p])
      /\ \A c \in cursors[p] : c <= RecvHead(p)
  BY <1>1, NoDispatcherYet
  DEF Anchor, HeldIsLive, RecvExists, HeadKept, CursorsBehind
<1>3. /\ step[p].plan.to \in recv[p] /\ step[p].plan.to = RecvHead(p)
      /\ step[p].plan.to \in holds[p] /\ RecvHead(p) \in Nat
  BY <1>1, HeadIsLast DEF Anchor, CommitIsHead, TargetHeld, HoldsPlaced
<1>4. RecvHead(p)' = RecvHead(p)
  BY <1>1 DEF RecvHead
<1>5. CASE /\ cursors' = [cursors EXCEPT ![p] = @ \cup {step[p].plan.to}]
           /\ Goto(p, "advanced") /\ holds' = holds
  <2>1. /\ step'[p].pc = "advanced" /\ step'[p].plan = step[p].plan
        /\ cursors'[p] = cursors[p] \cup {step[p].plan.to}
    BY <1>5, PeerTypes DEF Goto
  <2>2. /\ HeldIsLive(p)' /\ RecvExists(p)' /\ HeadKept(p)' /\ PartialOnHead(p)'
        /\ CursorsBehind(p)'
    BY <1>1, <1>2, <1>3, <1>4, <1>5, <2>1
    DEF Anchor, HeldIsLive, RecvExists, HeadKept, PartialOnHead, CursorsBehind
  <2>3. /\ ListingCovers(p)' /\ StepKeepsHead(p)' /\ TargetHeld(p)'
        /\ DispatcherServesStep(p)' /\ OldIsDone(p)'
    BY <1>1, <1>2, <2>1
    DEF ListingCovers, StepKeepsHead, TargetHeld, BeforeSending, HoldsPlaced,
        DispatcherServesStep, OldIsDone
  <2>4. CommitIsHead(p)' /\ CursorIsHead(p)'
    BY <1>1, <1>3, <1>4, <2>1 DEF CommitIsHead, CursorIsHead
  <2> QED BY <2>2, <2>3, <2>4 DEF Anchor
<1>6. ASSUME NEW left \in SUBSET ((holds[p] \cap Candidates(p)) \ {step[p].plan.to}),
             holds' = [holds EXCEPT ![p] =
               (@ \ ((holds[p] \cap Candidates(p)) \ {step[p].plan.to})) \cup left],
             GiveUp(p), cursors' = cursors
      PROVE  Anchor(p)'
  <2>1. /\ step'[p] = Idle
        /\ step[p].plan.to \in holds'[p] /\ holds'[p] \subseteq holds[p]
    BY <1>3, <1>6, PeerTypes DEF GiveUp
  <2>2. RecvHead(p) \in holds'[p] \cup cursors'[p] /\ holds'[p] \subseteq snaps'
    BY <1>1, <1>2, <1>3, <2>1
  <2> QED BY <1>1, <1>2, <1>6, <2>1, <2>2, AnchorGiveUp DEF OldIsDone
<1> QED BY <1>5, <1>6 DEF AdvanceCursor

\* What the sweep of older cursors leaves: the new one, nothing that was not there.
LEMMA SweepCursorsKeeps ==
  ASSUME TypeInv, NEW p \in Peers, SweepCursors(p), step[p].plan.to \in cursors[p]
  PROVE  /\ step[p].plan.to \in cursors'[p]
         /\ cursors'[p] \subseteq cursors[p]
         /\ \A r \in Peers : r # p => cursors'[r] = cursors[r]
BY PeerTypes DEF SweepCursors

LEMMA AnchorSweepCursors ==
  ASSUME TypeInv, NEW p \in Peers, Anchor(p), SweepCursors(p) PROVE Anchor(p)'
<1>1. /\ holds' = holds /\ recv' = recv /\ exists' = exists /\ token' = token
      /\ disp' = disp /\ snaps' = snaps /\ step[p].pc = "advanced" /\ Goto(p, "recorded")
  BY DEF SweepCursors, receiverVars
<1>2. /\ disp[p]["current"].pc = "none" /\ OldIsDone(p)
  BY <1>1, NoDispatcherYet
<1>3. /\ step[p].plan.to \in recv[p] /\ step[p].plan.to = RecvHead(p)
      /\ step[p].plan.to \in cursors[p]
  BY <1>1 DEF Anchor, CommitIsHead, CursorIsHead
<1>4. RecvHead(p)' = RecvHead(p)
  BY <1>1 DEF RecvHead
<1>5. /\ step[p].plan.to \in cursors'[p] /\ cursors'[p] \subseteq cursors[p]
  BY <1>3, SweepCursorsKeeps
<1>6. /\ step'[p].pc = "recorded" /\ step'[p].plan = step[p].plan
  BY <1>1, PeerTypes DEF Goto
<1>7. /\ HeldIsLive(p)' /\ RecvExists(p)' /\ HeadKept(p)' /\ PartialOnHead(p)'
      /\ CursorsBehind(p)'
  BY <1>1, <1>3, <1>4, <1>5
  DEF Anchor, HeldIsLive, RecvExists, HeadKept, PartialOnHead, CursorsBehind
<1>8. /\ ListingCovers(p)' /\ StepKeepsHead(p)' /\ TargetHeld(p)'
      /\ DispatcherServesStep(p)' /\ OldIsDone(p)'
  BY <1>1, <1>2, <1>6
  DEF ListingCovers, StepKeepsHead, TargetHeld, BeforeSending, HoldsPlaced,
      DispatcherServesStep, OldIsDone
<1>9. CommitIsHead(p)' /\ CursorIsHead(p)'
  BY <1>1, <1>3, <1>4, <1>5, <1>6 DEF CommitIsHead, CursorIsHead
<1> QED BY <1>7, <1>8, <1>9 DEF Anchor

LEMMA AnchorReleaseHolds ==
  ASSUME TypeInv, NEW p \in Peers, Anchor(p), ReleaseHolds(p) PROVE Anchor(p)'
<1>1. /\ cursors' = cursors /\ recv' = recv /\ exists' = exists /\ token' = token
      /\ disp' = disp /\ snaps' = snaps /\ step[p].pc = "recorded" /\ GiveUp(p)
      /\ ReleaseExcept(p, {})
  BY DEF ReleaseHolds, receiverVars
<1>2. /\ disp[p]["current"].pc = "none" /\ OldIsDone(p)
      /\ holds[p] \subseteq snaps /\ (recv[p] # {} => exists[p])
      /\ \A c \in cursors[p] : c <= RecvHead(p)
  BY <1>1, NoDispatcherYet DEF Anchor, HeldIsLive, RecvExists, CursorsBehind
<1>3. RecvHead(p) \in cursors[p]
  BY <1>1 DEF Anchor, CommitIsHead, CursorIsHead
<1>4. /\ holds'[p] \subseteq holds[p]
  BY <1>1, ReleaseKeeps
<1>5. step'[p] = Idle
  BY <1>1, PeerTypes DEF GiveUp
<1> QED BY <1>1, <1>2, <1>3, <1>4, <1>5, AnchorGiveUp DEF OldIsDone

LEMMA AnchorAbandon ==
  ASSUME TypeInv, "late_landing" \notin Faults, NEW p \in Peers, Anchor(p), Abandon(p)
  PROVE  Anchor(p)'
<1>1. /\ holds' = holds /\ cursors' = cursors /\ recv' = recv /\ exists' = exists
      /\ token' = token /\ snaps' = snaps /\ GiveUp(p) /\ "current" \in Slots
      /\ "old" \in Slots
  BY DEF Abandon, senderVars, receiverVars, Slots
<1>2. /\ OldIsDone(p) /\ holds[p] \subseteq snaps /\ (recv[p] # {} => exists[p])
      /\ (recv[p] # {} => RecvHead(p) \in holds[p] \cup cursors[p])
      /\ \A c \in cursors[p] : c <= RecvHead(p)
  BY DEF Anchor, HeldIsLive, RecvExists, HeadKept, CursorsBehind
<1>3. step'[p] = Idle
  BY <1>1, PeerTypes DEF GiveUp
<1>4. /\ disp'[p]["current"].pc = "none"
      /\ disp'[p]["old"].pc \in {"none", "landed", "ok", "failed"}
  <2>1. CASE /\ disp[p]["current"].pc = "landed"
             /\ disp' = [disp EXCEPT ![p] = [current |-> NoDisp,
                                             old |-> disp[p]["current"]]]
    BY <2>1, PeerTypes DEF NoDisp
  <2>2. CASE SetDisp(p, "current", NoDisp)
    <3>1. \A r \in Peers, j \in Slots :
             disp'[r][j] = IF r = p /\ j = "current" THEN NoDisp ELSE disp[r][j]
      BY <1>1, <2>2, NoDispType, SetDispType
    <3> QED BY <1>1, <1>2, <3>1 DEF OldIsDone, NoDisp
  <2> QED BY <2>1, <2>2 DEF Abandon
<1> QED BY <1>1, <1>2, <1>3, <1>4, AnchorGiveUp

----------------------------------------------------------------------------
(***************************************************************************)
(* The dispatchers.                                                        *)
(***************************************************************************)

\* Changing one dispatcher leaves the other one and the other peers' alone.
LEMMA OneDispatcher ==
  ASSUME TypeInv, NEW p \in Peers, NEW i \in Slots, NEW d \in DispType, SetDisp(p, i, d)
  PROVE  /\ disp'[p][i] = d
         /\ \A j \in Slots : j # i => disp'[p][j] = disp[p][j]
         /\ \A r \in Peers : r # p => disp'[r] = disp[r]
<1>1. \A r \in Peers, j \in Slots :
         disp'[r][j] = IF r = p /\ j = i THEN d ELSE disp[r][j]
  BY SetDispType
<1>2. \A r \in Peers : r # p => disp'[r] = disp[r]
  BY PeerTypes DEF SetDisp
<1> QED BY <1>1, <1>2

\* What is known of the dispatcher that serves the step, once it has started.
LEMMA Serving ==
  ASSUME TypeInv, NEW p \in Peers, Anchor(p), disp[p]["current"].pc # "none"
  PROVE  /\ step[p].pc = "sending"
         /\ disp[p]["current"].to = step[p].plan.to
         /\ step[p].plan.to \in holds[p]
         /\ step[p].plan.to \in Snap
BY DEF Anchor, DispatcherServesStep, TargetHeld, HoldsPlaced, TypeInv, PlanHasTarget

LEMMA AnchorRecvStart ==
  ASSUME TypeInv, NEW p \in Peers, Anchor(p), NEW i \in Slots, RecvStart(p, i)
  PROVE  Anchor(p)'
<1> DEFINE d      == disp[p]["current"]
           tok    == IF d.discard THEN NoToken ELSE token[p]
           ex     == IF d.discard THEN ExistsAfterAbort(p) ELSE exists[p]
           ended  == [d EXCEPT !.pc = "failed"]
           active == [d EXCEPT !.pc = "receiving"]
<1>0. "current" \in Slots /\ "old" \in Slots
  BY DEF Slots
<1>1. i = "current" /\ d.pc = "open"
  BY <1>0 DEF RecvStart, Anchor, OldIsDone, Slots
<1>2. /\ holds' = holds /\ cursors' = cursors /\ snaps' = snaps /\ recv' = recv
      /\ step' = step
  BY DEF RecvStart, senderVars
<1>3. /\ step[p].pc = "sending" /\ d.to = step[p].plan.to /\ d.rest = {d.to}
      /\ d.from < d.to /\ (d.kind = "full" => d.from = NoSnap) /\ d.kind \in SendKinds
      /\ OldIsDone(p) /\ step[p].plan.to \in holds[p] /\ step[p].plan.to \in Snap
  BY <1>0, <1>1, Serving DEF Anchor, DispatcherServesStep
<1>4. /\ ended \in DispType /\ active \in DispType
      /\ ended.pc = "failed" /\ ended.kind = d.kind /\ ended.from = d.from /\ ended.to = d.to
      /\ active.pc = "receiving" /\ active.kind = d.kind /\ active.from = d.from
      /\ active.to = d.to /\ active.rest = d.rest
  <2>1. d \in DispType /\ {"failed", "receiving"} \subseteq DispPcs
    BY <1>0, DispatcherType DEF DispPcs
  <2> HIDE DEF d
  <2> QED BY <2>1, DispatcherMoves
<1>5. RecvHead(p)' = RecvHead(p)
  BY <1>2 DEF RecvHead
<1>6. HeadKept(p)' /\ CursorsBehind(p)'
  BY <1>0, <1>2, <1>5 DEF Anchor, HeadKept, CursorsBehind
<1>7. /\ (recv[p] # {} => ex) /\ (recv[p] # {} => exists[p])
      /\ (tok = token[p] \/ tok = NoToken)
  BY <1>0 DEF Anchor, RecvExists, ExistsAfterAbort
<1>8. tok # NoToken => tok.from = RecvHead(p)
  BY <1>0, <1>7 DEF Anchor, PartialOnHead
<1>9. CASE /\ SetDisp(p, "current", ended)
           /\ \/ UNCHANGED <<token, exists>>
              \/ /\ token' = [token EXCEPT ![p] = tok]
                 /\ exists' = [exists EXCEPT ![p] = ex]
  <2>1. /\ (token'[p] = token[p] \/ token'[p] = tok) /\ (exists'[p] = exists[p] \/ exists'[p] = ex)
    <3> HIDE DEF tok, ex
    <3> QED BY <1>0, <1>9, PeerTypes
  <2> HIDE DEF ended, tok, ex, d
  <2>2. /\ disp'[p]["current"] = ended /\ disp'[p]["old"] = disp[p]["old"]
    BY <1>0, <1>4, <1>9, OneDispatcher
  <2>3. RecvExists(p)' /\ PartialOnHead(p)'
    BY <1>0, <1>2, <1>5, <1>7, <1>8, <2>1 DEF Anchor, RecvExists, PartialOnHead
  <2>4. DispatcherServesStep(p)' /\ OldIsDone(p)'
    BY <1>2, <1>3, <1>4, <2>2 DEF DispatcherServesStep, OldIsDone
  <2> QED BY <1>2, <1>3, <1>6, <2>3, <2>4, AnchorSending
<1>10. CASE /\ Receivable(p, d, tok, ex)
            /\ token' = [token EXCEPT ![p] = [to |-> Min(d.rest), from |-> d.from]]
            /\ exists' = [exists EXCEPT ![p] = TRUE]
            /\ SetDisp(p, "current", active)
  <2>1. d.from = RecvHead(p)
    <3>1. CASE d.kind = "full"
      <4>1. ~ex
        BY <1>10, <3>1 DEF Receivable
      <4>2. recv[p] = {}
        BY <1>7, <4>1
      <4> QED BY <1>0, <1>3, <3>1, <4>2, HeadIsLast DEF NoSnap
    <3>2. CASE d.kind = "resume"
      <4>1. tok = [to |-> d.to, from |-> d.from]
        BY <1>10, <3>2 DEF Receivable
      <4>2. tok.to # NoSnap
        BY <1>3, <4>1, ConstantsAssumption DEF Snap, NoSnap
      <4>3. tok # NoToken
        BY <4>2 DEF NoToken
      <4> HIDE DEF tok
      <4> QED BY <1>8, <4>1, <4>3
    <3>3. CASE d.kind \notin {"full", "resume"}
      BY <1>10, <3>3 DEF Receivable, RecvHead
    <3> QED BY <3>1, <3>2, <3>3
  <2>2. Min(d.rest) = d.to
    <3>1. d.rest \in SUBSET Snap /\ d.rest # {}
      BY <1>3
    <3> QED BY <1>3, <3>1, FirstOfRest
  <2>3. /\ token'[p] = [to |-> d.to, from |-> d.from] /\ exists'[p] = TRUE
    BY <1>0, <1>10, <2>2, PeerTypes
  <2> HIDE DEF active, tok, ex, d
  <2>4. /\ disp'[p]["current"] = active /\ disp'[p]["old"] = disp[p]["old"]
    BY <1>0, <1>4, <1>10, OneDispatcher
  <2>5. RecvExists(p)' /\ PartialOnHead(p)'
    BY <1>5, <2>1, <2>3 DEF RecvExists, PartialOnHead
  <2>6. DispatcherServesStep(p)' /\ OldIsDone(p)'
    BY <1>2, <1>3, <1>4, <2>3, <2>4 DEF DispatcherServesStep, OldIsDone
  <2> QED BY <1>2, <1>3, <1>6, <2>5, <2>6, AnchorSending
<1> QED BY <1>1, <1>9, <1>10 DEF RecvStart

LEMMA AnchorRecvLand ==
  ASSUME TypeInv, NEW p \in Peers, Anchor(p), NEW i \in Slots, RecvLand(p, i)
  PROVE  /\ Anchor(p)'
         /\ RecvHead(p)' = step[p].plan.to
         /\ RecvHead(p) < step[p].plan.to
         /\ step[p].plan.to \in snaps
<1> DEFINE d    == disp[p]["current"]
           next == [d EXCEPT !.rest = {}, !.pc = "landed"]
           to   == step[p].plan.to
<1>0. "current" \in Slots /\ "old" \in Slots
  BY DEF Slots
<1>1. i = "current" /\ d.pc = "receiving"
  BY <1>0 DEF RecvLand, Anchor, OldIsDone, Slots
<1>2. /\ holds' = holds /\ cursors' = cursors /\ snaps' = snaps /\ exists' = exists
      /\ step' = step
  BY DEF RecvLand, senderVars
<1>3. /\ step[p].pc = "sending" /\ d.to = to /\ d.rest = {to}
      /\ d.from < to /\ d.kind \in SendKinds
      /\ OldIsDone(p) /\ to \in holds[p] /\ to \in Snap
      /\ token[p] = [to |-> to, from |-> d.from] /\ exists[p]
  BY <1>0, <1>1, Serving DEF Anchor, DispatcherServesStep
<1>4. token[p].to = to /\ d.from = RecvHead(p)
  <2>1. token[p].to = to /\ token[p].from = d.from /\ to # NoSnap
    BY <1>3, ConstantsAssumption DEF Snap, NoSnap
  <2>2. token[p] # NoToken
    BY <2>1 DEF NoToken
  <2> QED BY <1>0, <2>1, <2>2 DEF Anchor, PartialOnHead
<1>5. to \in snaps /\ to \in Nat
  BY <1>0, <1>3, ConstantsAssumption DEF Anchor, HeldIsLive, Snap
<1>6. next \in DispType /\ next.pc = "landed" /\ next.to = to /\ next.kind = d.kind
  <2>1. d \in DispType /\ "landed" \in DispPcs /\ d.to = to
    BY <1>0, <1>3, DispatcherType DEF DispPcs
  <2> HIDE DEF d, to
  <2> QED BY <2>1, DispatcherLands
<1>7. /\ recv' = [recv EXCEPT ![p] = @ \cup {to}]
      /\ token' = [token EXCEPT ![p] = NoToken]
      /\ SetDisp(p, "current", next)
  <2>1. d.rest \ {token[p].to} = {}
    BY <1>3, <1>4
  <2> QED BY <1>1, <1>4, <2>1 DEF RecvLand
<1>8. /\ recv'[p] = recv[p] \cup {to} /\ token'[p] = NoToken
  BY <1>0, <1>7, PeerTypes
<1> HIDE DEF next
<1>9. /\ disp'[p]["current"] = next /\ disp'[p]["old"] = disp[p]["old"]
  BY <1>0, <1>6, <1>7, OneDispatcher
<1>10. RecvHead(p) < to /\ RecvHead(p) \in Nat
  BY <1>0, <1>3, <1>4, HeadIsLast
<1>11. RecvHead(p)' = to
  <2>1. recv'[p] \in SUBSET Snap /\ to \in recv'[p]
    BY <1>0, <1>3, <1>8, PeerTypes
  <2>2. \A x \in recv'[p] : x <= to
    <3>1. \A x \in recv[p] : x <= RecvHead(p) /\ x \in Nat
      BY <1>0, HeadIsLast, PeerTypes, ConstantsAssumption DEF Snap
    <3> HIDE DEF to
    <3> QED BY <1>5, <1>8, <1>10, <3>1
  <2>3. Newest(recv'[p]) = to
    BY <2>1, <2>2, NewestUnique
  <2> QED BY <2>3 DEF RecvHead
<1>12. RecvExists(p)' /\ HeadKept(p)' /\ PartialOnHead(p)'
  BY <1>2, <1>3, <1>8, <1>11 DEF RecvExists, HeadKept, PartialOnHead
<1>13. CursorsBehind(p)'
  <2>1. \A c \in cursors[p] : c <= RecvHead(p) /\ c \in Nat
    BY <1>0, PeerTypes, ConstantsAssumption DEF Anchor, CursorsBehind, Snap
  <2> HIDE DEF to
  <2> QED BY <1>2, <1>5, <1>10, <1>11, <2>1 DEF CursorsBehind
<1>14. DispatcherServesStep(p)' /\ OldIsDone(p)'
  BY <1>2, <1>3, <1>6, <1>8, <1>9, <1>11 DEF DispatcherServesStep, OldIsDone
<1>15. Anchor(p)'
  BY <1>2, <1>3, <1>12, <1>13, <1>14, AnchorSending
<1> QED BY <1>5, <1>10, <1>11, <1>15

LEMMA AnchorRecvBreak ==
  ASSUME TypeInv, NEW p \in Peers, Anchor(p), NEW i \in Slots, RecvBreak(p, i)
  PROVE  Anchor(p)'
<1> DEFINE d     == disp[p]["current"]
           ended == [d EXCEPT !.pc = "failed"]
<1>0. "current" \in Slots /\ "old" \in Slots
  BY DEF Slots
<1>1. i = "current" /\ d.pc = "receiving"
  BY <1>0 DEF RecvBreak, Anchor, OldIsDone, Slots
<1>2. /\ holds' = holds /\ cursors' = cursors /\ snaps' = snaps /\ recv' = recv
      /\ step' = step /\ SetDisp(p, "current", ended)
      /\ \/ UNCHANGED <<token, exists>>
         \/ /\ token' = [token EXCEPT ![p] = NoToken]
            /\ exists' = [exists EXCEPT ![p] = ExistsAfterAbort(p)]
  BY <1>1 DEF RecvBreak, senderVars
<1>3. /\ step[p].pc = "sending" /\ d.to = step[p].plan.to /\ d.kind \in SendKinds
      /\ OldIsDone(p) /\ step[p].plan.to \in holds[p]
  BY <1>0, <1>1, Serving DEF Anchor, DispatcherServesStep
<1>4. ended \in DispType /\ ended.pc = "failed" /\ ended.kind = d.kind /\ ended.to = d.to
  <2>1. d \in DispType /\ "failed" \in DispPcs
    BY <1>0, DispatcherType DEF DispPcs
  <2> HIDE DEF d
  <2> QED BY <2>1, DispatcherMoves
<1>5. RecvHead(p)' = RecvHead(p)
  BY <1>2 DEF RecvHead
<1>6. /\ (token'[p] = token[p] \/ token'[p] = NoToken)
      /\ (recv[p] # {} => exists'[p])
  BY <1>0, <1>2, PeerTypes DEF Anchor, RecvExists, ExistsAfterAbort
<1> HIDE DEF ended
<1>7. /\ disp'[p]["current"] = ended /\ disp'[p]["old"] = disp[p]["old"]
  BY <1>0, <1>2, <1>4, OneDispatcher
<1>8. RecvExists(p)' /\ HeadKept(p)' /\ PartialOnHead(p)' /\ CursorsBehind(p)'
  BY <1>0, <1>2, <1>5, <1>6
  DEF Anchor, RecvExists, HeadKept, PartialOnHead, CursorsBehind
<1>9. DispatcherServesStep(p)' /\ OldIsDone(p)'
  BY <1>2, <1>3, <1>4, <1>7 DEF DispatcherServesStep, OldIsDone
<1> QED BY <1>2, <1>3, <1>8, <1>9, AnchorSending

\* A dispatcher of p that has landed its stream, or is gone, changes nothing that
\* the invariant is about.
LEMMA AnchorQuiet ==
  ASSUME TypeInv, NEW p \in Peers, Anchor(p), NEW i \in Slots, NEW d \in DispType,
         SetDisp(p, i, d),
         d = [disp[p][i] EXCEPT !.pc = "ok"] \/ (i = "old" /\ d = NoDisp),
         i = "old" \/ disp[p][i].pc = "landed",
         UNCHANGED senderVars, UNCHANGED <<recv, exists, token, step>>
  PROVE  Anchor(p)'
<1>1. /\ disp'[p][i] = d /\ \A j \in Slots : j # i => disp'[p][j] = disp[p][j]
  BY OneDispatcher
<1>2. /\ holds' = holds /\ cursors' = cursors /\ snaps' = snaps /\ recv' = recv
      /\ exists' = exists /\ token' = token /\ step' = step
      /\ "current" \in Slots /\ "old" \in Slots
  BY DEF senderVars, Slots
<1>3. RecvHead(p)' = RecvHead(p) /\ Keep(p)' = Keep(p)
  BY <1>2 DEF RecvHead, Keep, FromHold
<1>4. /\ HeldIsLive(p)' /\ RecvExists(p)' /\ HeadKept(p)' /\ PartialOnHead(p)'
      /\ ListingCovers(p)' /\ StepKeepsHead(p)' /\ TargetHeld(p)'
      /\ CommitIsHead(p)' /\ CursorIsHead(p)' /\ CursorsBehind(p)'
  BY <1>2, <1>3
  DEF Anchor, HeldIsLive, RecvExists, HeadKept, PartialOnHead, ListingCovers,
      StepKeepsHead, TargetHeld, CommitIsHead, CursorIsHead, CursorsBehind
<1>5. CASE i = "old"
  <2>1. disp'[p]["current"] = disp[p]["current"] /\ d.pc \in {"ok", "none"}
    BY <1>1, <1>2, <1>5, PeerTypes DEF NoDisp, DispType
  <2>2. DispatcherServesStep(p)' /\ OldIsDone(p)'
    BY <1>1, <1>2, <1>3, <1>5, <2>1 DEF Anchor, DispatcherServesStep, OldIsDone
  <2> QED BY <1>4, <2>2 DEF Anchor
<1>6. CASE i = "current"
  <2>1. /\ disp'[p]["old"] = disp[p]["old"] /\ disp[p]["current"].pc = "landed"
        /\ d.pc = "ok" /\ d.to = disp[p]["current"].to /\ d.kind = disp[p]["current"].kind
    BY <1>1, <1>2, <1>6, PeerTypes DEF DispType
  <2>2. disp'[p]["current"] = d
    BY <1>1, <1>6
  <2>3. DispatcherServesStep(p)' /\ OldIsDone(p)'
    BY <1>2, <1>3, <2>1, <2>2 DEF Anchor, DispatcherServesStep, OldIsDone
  <2> QED BY <1>4, <2>3 DEF Anchor
<1> QED BY <1>5, <1>6 DEF Slots

LEMMA AnchorAdvanceLastHold ==
  ASSUME TypeInv, NEW p \in Peers, Anchor(p), NEW i \in Slots, AdvanceLastHold(p, i)
  PROVE  Anchor(p)'
<1> DEFINE d == [disp[p][i] EXCEPT !.pc = "ok"]
<1>1. d \in DispType
  <2>1. disp[p][i] \in DispType /\ "ok" \in DispPcs
    BY DispatcherType DEF DispPcs
  <2> QED BY <2>1, DispatcherMoves
<1>2. SetDisp(p, i, d) /\ disp[p][i].pc = "landed"
      /\ UNCHANGED <<senderVars, recv, exists, token, step>>
  BY DEF AdvanceLastHold
<1> QED BY <1>1, <1>2, AnchorQuiet

LEMMA AnchorOldExits ==
  ASSUME TypeInv, NEW p \in Peers, Anchor(p), OldExits(p) PROVE Anchor(p)'
<1>1. SetDisp(p, "old", NoDisp) /\ "old" \in Slots
      /\ UNCHANGED <<senderVars, recv, exists, token, step>>
  BY DEF OldExits, receiverVars, Slots
<1> QED BY <1>1, NoDispType, AnchorQuiet

----------------------------------------------------------------------------
(***************************************************************************)
(* What a step towards one peer leaves alone.                              *)
(***************************************************************************)

\* A step of peer p leaves every variable of the other peers alone.
OthersUntouched(p) == \A q \in Peers : q # p =>
  /\ holds'[q] = holds[q] /\ cursors'[q] = cursors[q] /\ recv'[q] = recv[q]
  /\ exists'[q] = exists[q] /\ token'[q] = token[q] /\ step'[q] = step[q]
  /\ disp'[q] = disp[q]

LEMMA PushStepIsLocal ==
  ASSUME TypeInv, NEW p \in Peers, PushStep(p)
  PROVE  OthersUntouched(p) /\ snaps' = snaps /\ beheaded' = beheaded
<1> USE PeerTypes DEF OthersUntouched, senderVars, receiverVars, Goto, GiveUp
<1>1. CASE ListSender(p)
  BY <1>1 DEF ListSender
<1>2. CASE PlanFilesystem(p)
  <2>1. \A q \in Peers : q # p => step'[q] = step[q]
    BY <1>2 DEF PlanFilesystem
  <2> QED BY <1>2, <2>1 DEF PlanFilesystem
<1>3. CASE DiscardPartial(p)
  BY <1>3 DEF DiscardPartial
<1>4. CASE PlaceHolds(p)
  BY <1>4 DEF PlaceHolds
<1>5. CASE SweepStale(p)
  BY <1>5, ReleaseKeeps DEF SweepStale
<1>6. CASE OpenRecv(p)
  BY <1>6 DEF OpenRecv, SetDisp
<1>7. CASE ReadResponse(p)
  BY <1>7 DEF ReadResponse, SetDisp
<1>8. CASE AdvanceCursor(p)
  BY <1>8 DEF AdvanceCursor
<1>9. CASE SweepCursors(p)
  BY <1>9 DEF SweepCursors
<1>10. CASE ReleaseHolds(p)
  BY <1>10, ReleaseKeeps DEF ReleaseHolds
<1> QED BY <1>1, <1>2, <1>3, <1>4, <1>5, <1>6, <1>7, <1>8, <1>9, <1>10 DEF PushStep

LEMMA ReceiverIsLocal ==
  ASSUME TypeInv, NEW p \in Peers,
         \/ Abandon(p) \/ OldExits(p)
         \/ \E i \in Slots : Dispatcher(p, i)
         \/ \E s \in Snap : RecvPrune(p, s)
  PROVE  OthersUntouched(p) /\ snaps' = snaps /\ beheaded \subseteq beheaded'
<1> USE PeerTypes DEF OthersUntouched, senderVars, receiverVars, GiveUp, SetDisp
<1>1. CASE Abandon(p)
  BY <1>1 DEF Abandon
<1>2. CASE OldExits(p)
  BY <1>2 DEF OldExits
<1>3. ASSUME NEW i \in Slots, RecvStart(p, i)
      PROVE  OthersUntouched(p) /\ snaps' = snaps /\ beheaded' = beheaded
  BY <1>3 DEF RecvStart
<1>4. ASSUME NEW i \in Slots, RecvLand(p, i)
      PROVE  OthersUntouched(p) /\ snaps' = snaps /\ beheaded' = beheaded
  BY <1>4 DEF RecvLand
<1>5. ASSUME NEW i \in Slots, RecvBreak(p, i)
      PROVE  OthersUntouched(p) /\ snaps' = snaps /\ beheaded' = beheaded
  BY <1>5 DEF RecvBreak
<1>6. ASSUME NEW i \in Slots, AdvanceLastHold(p, i)
      PROVE  OthersUntouched(p) /\ snaps' = snaps /\ beheaded' = beheaded
  BY <1>6 DEF AdvanceLastHold
<1>7. ASSUME NEW s \in Snap, RecvPrune(p, s)
      PROVE  OthersUntouched(p) /\ snaps' = snaps /\ beheaded \subseteq beheaded'
  BY <1>7 DEF RecvPrune
<1> QED BY <1>1, <1>2, <1>3, <1>4, <1>5, <1>6, <1>7 DEF Dispatcher

\* What a step towards p does to the anchor of another peer.
LEMMA AnchorOthers ==
  ASSUME NEW p \in Peers, OthersUntouched(p), snaps' = snaps,
         NEW q \in Peers, q # p, Anchor(q)
  PROVE  Anchor(q)'
<1>1. holds[q] \subseteq snaps'
  BY DEF Anchor, HeldIsLive
<1> QED BY <1>1, AnchorFrame DEF OthersUntouched

\* No receiver gets its newest snapshot back.
LEMMA BeheadedGrows ==
  ASSUME TypeInv, [Next]_vars
  PROVE  beheaded \subseteq beheaded'
<1>1. CASE TakeSnapshot
  BY <1>1 DEF TakeSnapshot, receiverVars
<1>2. ASSUME NEW s \in Snap, SenderPrune(s) PROVE beheaded \subseteq beheaded'
  BY <1>2 DEF SenderPrune, receiverVars
<1>3. ASSUME NEW p \in Peers, PushStep(p) PROVE beheaded \subseteq beheaded'
  BY <1>3, PushStepIsLocal
<1>4. ASSUME NEW p \in Peers,
             \/ Abandon(p) \/ OldExits(p)
             \/ \E i \in Slots : Dispatcher(p, i)
             \/ \E s \in Snap : RecvPrune(p, s)
      PROVE  beheaded \subseteq beheaded'
  BY <1>4, ReceiverIsLocal
<1>5. CASE UNCHANGED vars
  BY <1>5 DEF vars, receiverVars
<1> QED BY <1>1, <1>2, <1>3, <1>4, <1>5 DEF Next

----------------------------------------------------------------------------
(***************************************************************************)
(* The invariant, and what follows from it.                                *)
(***************************************************************************)

\* Where abandoned receives may not land late, and no step sends -I streams.
Scope == Mode = "latest" /\ "late_landing" \notin Faults

\* A step towards p that does not make its receiver destroy its newest snapshot.
LEMMA AnchorLocal ==
  ASSUME TypeInv, Scope, NEW p \in Peers, Anchor(p), p \notin beheaded',
         \/ PushStep(p) \/ Abandon(p) \/ OldExits(p)
         \/ \E i \in Slots : Dispatcher(p, i)
         \/ \E s \in Snap : RecvPrune(p, s)
  PROVE  Anchor(p)'
<1>1. Mode = "latest" /\ "late_landing" \notin Faults
  BY DEF Scope
<1>2. CASE PushStep(p)
  BY <1>1, <1>2, AnchorListSender, AnchorPlanFilesystem, AnchorDiscardPartial,
     AnchorPlaceHolds, AnchorSweepStale, AnchorOpenRecv, AnchorReadResponse,
     AnchorAdvanceCursor, AnchorSweepCursors, AnchorReleaseHolds
  DEF PushStep
<1>3. CASE Abandon(p)
  BY <1>1, <1>3, AnchorAbandon
<1>4. CASE OldExits(p)
  BY <1>4, AnchorOldExits
<1>5. ASSUME NEW i \in Slots, Dispatcher(p, i) PROVE Anchor(p)'
  BY <1>5, AnchorRecvStart, AnchorRecvLand, AnchorRecvBreak, AnchorAdvanceLastHold
  DEF Dispatcher
<1>6. ASSUME NEW s \in Snap, RecvPrune(p, s) PROVE Anchor(p)'
  <2>1. s # Newest(recv[p])
    BY <1>6 DEF RecvPrune
  <2> QED BY <1>6, <2>1, AnchorRecvPrune
<1> QED BY <1>2, <1>3, <1>4, <1>5, <1>6

LEMMA InvStep == AnchorInv /\ [Next]_vars /\ Scope => AnchorInv'
<1> SUFFICES ASSUME AnchorInv, [Next]_vars, Scope, NEW q \in Peers, q \notin beheaded'
             PROVE  Anchor(q)'
  BY TypeStep DEF AnchorInv, Intact
<1>1. TypeInv /\ Anchor(q)
  BY BeheadedGrows DEF AnchorInv, Intact
<1>2. CASE TakeSnapshot
  BY <1>1, <1>2, AnchorTakeSnapshot
<1>3. ASSUME NEW s \in Snap, SenderPrune(s) PROVE Anchor(q)'
  BY <1>1, <1>3, AnchorSenderPrune
<1>4. ASSUME NEW p \in Peers,
             \/ PushStep(p) \/ Abandon(p) \/ OldExits(p)
             \/ \E i \in Slots : Dispatcher(p, i)
             \/ \E s \in Snap : RecvPrune(p, s)
      PROVE  Anchor(q)'
  <2>1. CASE q = p
    BY <1>1, <1>4, <2>1, AnchorLocal
  <2>2. CASE q # p
    <3>1. OthersUntouched(p) /\ snaps' = snaps
      BY <1>1, <1>4, PushStepIsLocal, ReceiverIsLocal
    <3> QED BY <1>1, <2>2, <3>1, AnchorOthers
  <2> QED BY <2>1, <2>2
<1>5. CASE UNCHANGED vars
  <2>1. holds[q] \subseteq snaps'
    BY <1>1, <1>5 DEF Anchor, HeldIsLive, vars, senderVars
  <2> QED BY <1>1, <1>5, <2>1, AnchorFrame DEF vars, senderVars, receiverVars
<1> QED BY <1>2, <1>3, <1>4, <1>5 DEF Next

\* The inductive invariant: between any two steps of any peers, whatever crashes
\* or replies are lost, the sender keeps what the next push to each receiver needs
\* that has not destroyed its newest snapshot (holds.rs, step.rs, plan.rs, recv.rs).
THEOREM AnchorInvariant == ASSUME Scope PROVE Spec => []AnchorInv
<1>1. Init => AnchorInv
  BY InvInit
<1>2. AnchorInv /\ [Next]_vars => AnchorInv'
  BY InvStep
<1> QED BY <1>1, <1>2, PTL DEF Spec

\* The newest snapshot of every receiver that has not destroyed it stays anchored on
\* the sender, by the step hold or by the cursor (holds.rs, ARCHITECTURE.md "Holds and
\* replication cursor"), whatever the other receivers have destroyed.
THEOREM HeadStaysAnchored == ASSUME Scope PROVE Spec => []HeadAnchored
<1>1. AnchorInv => HeadAnchored
  BY DEF AnchorInv, Anchor, HeadKept, HeadAnchored, RecvHead
<1> QED BY <1>1, AnchorInvariant, PTL

\* No cursor records a snapshot that the receiver has not confirmed, nor one newer
\* than what a receiver has that has destroyed no newest snapshot (holds.rs, commit;
\* mod.rs, replicate_step).
THEOREM CursorsConfirmed == ASSUME Scope PROVE Spec => []CursorNotAhead
<1>1. AnchorInv => CursorNotAhead
  <2> SUFFICES ASSUME AnchorInv, NEW p \in Intact, cursors[p] # {}
               PROVE  Max(cursors[p]) <= Newest(recv[p])
    BY DEF CursorNotAhead
  <2>0. p \in Peers
    BY DEF Intact
  <2>1. cursors[p] \in SUBSET Snap /\ \A c \in cursors[p] : c <= RecvHead(p)
    BY <2>0, PeerTypes DEF AnchorInv, Anchor, CursorsBehind
  <2>2. Newest(cursors[p]) \in cursors[p] /\ Newest(cursors[p]) = Max(cursors[p])
    BY <2>1, NewestFacts DEF Newest
  <2> QED BY <2>1, <2>2 DEF RecvHead
<1> QED BY <1>1, AnchorInvariant, PTL

=============================================================================
