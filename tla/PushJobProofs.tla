---------------------------- MODULE PushJobProofs ----------------------------
(***************************************************************************)
(* What holds of the scheduling loop of a push job for any peers, any tree *)
(* of filesystems and any number of control calls and failures.            *)
(***************************************************************************)
EXTENDS PushJob, TLAPS

----------------------------------------------------------------------------
(***************************************************************************)
(* The inductive invariant.  VisitInv speaks of the visit, LoopInv and     *)
(* HistoryInv of the loop around it.                                       *)
(***************************************************************************)

\* Outside a visit nothing is left of the last one, and inside one every filesystem has
\* been queued.
VisitBounds ==
  /\ visit = NoPeer =>
       /\ full = {} /\ blocked = {}
       /\ \A f \in Filesystems : fs[f] = "idle" /\ steps[f] = 0
  /\ visit # NoPeer => \A f \in Filesystems : fs[f] # "idle"

\* The step limit leaves a running filesystem a step.
StepsBounded ==
  \A f \in Filesystems :
    /\ fs[f] \in {"idle", "waiting"} => steps[f] = 0 /\ f \notin full
    /\ fs[f] \in InProgress => steps[f] < MaxSteps

\* What has started has only ended filesystems above it.
LevelsWaited ==
  \A f \in Filesystems : fs[f] \notin {"idle", "waiting"} => LevelReached(f)

\* A full plan is sent to an absent target, and once it is over, the target has landed
\* or the descendants are kept out.
FullPlansInv ==
  /\ NoDoomedFull
  /\ \A f \in Filesystems :
       /\ dryRun => fs[f] \notin InTransfer
       /\ f \in full /\ fs[f] \in Ended =>
            dryRun \/ f \in blocked \/ target[visit][f] = "present"
       /\ fs[f] \in InProgress => blocked \cap Under[f] = {}

\* A filesystem ends without error and before its time only in a cancelled cycle.
EndsExplained ==
  \A f \in Filesystems :
    /\ fs[f] = "skipped" => cancelled
    /\ fs[f] = "advanced" => dryRun \/ cancelled \/ steps[f] = MaxSteps

VisitInv ==
  VisitType /\ VisitBounds /\ StepsBounded /\ LevelsWaited /\ FullPlansInv /\ EndsExplained

LoopType ==
  /\ phase \in Phases /\ half \in Halves /\ controls \in 0..MaxControls
  /\ subscribed \in BOOLEAN /\ changed \in BOOLEAN /\ wake \in BOOLEAN
  /\ stopping \in BOOLEAN /\ paused \in BOOLEAN /\ armed \in BOOLEAN /\ loaded \in BOOLEAN
  /\ manual \cup parked \subseteq Peers
  /\ link \in [Peers -> Routes]
  /\ picked \subseteq DOMAIN Targets
  /\ mem \in [Peers -> OutcomeType] /\ ledger \in [Peers -> OutcomeType]

\* Visits take place in a cycle, and a cycle can be cancelled.
LoopInv ==
  /\ LoopType
  /\ visit # NoPeer => phase = "cycle"
  /\ phase = "cycle" => armed

\* A success is an attempt, and the memory that was loaded is never behind the ledger.
HistoryInv ==
  \A p \in Peers :
    /\ mem[p].success = "fresh" => mem[p].attempt = "fresh"
    /\ ledger[p].success = "fresh" => ledger[p].attempt = "fresh"
    /\ loaded /\ ledger[p].success = "fresh" => mem[p].success = "fresh"

JobInv == VisitInv /\ LoopInv /\ HistoryInv


LEMMA VisitUnderway ==
  ASSUME VisitInv, NEW f \in Filesystems, fs[f] # "idle"
  PROVE  visit \in Peers /\ visit # NoPeer
BY DEF VisitInv, VisitType, VisitBounds

\* Steps that leave the visit itself alone: the token may only be taken back between
\* visits.
LEMMA VisitFrame ==
  ASSUME VisitInv, UNCHANGED <<dryRun, visitVars, target>>,
         cancelled' \in BOOLEAN, ready' \subseteq Filesystems, faults' \in 0..MaxFaults,
         visit # NoPeer /\ cancelled => cancelled'
  PROVE  VisitInv'
<1> USE DEF visitVars
<1>1. VisitType' /\ VisitBounds' /\ StepsBounded'
  BY DEF VisitInv, VisitType, VisitBounds, StepsBounded
<1>2. LevelsWaited'
  BY DEF VisitInv, LevelsWaited, LevelReached
<1>3. FullPlansInv'
  BY DEF VisitInv, FullPlansInv, NoDoomedFull
<1>4. EndsExplained'
  <2> SUFFICES ASSUME NEW f \in Filesystems
      PROVE  /\ fs'[f] = "skipped" => cancelled'
             /\ fs'[f] = "advanced" => dryRun' \/ cancelled' \/ steps'[f] = MaxSteps
    BY DEF EndsExplained
  <2>1. CASE visit = NoPeer
    BY <2>1 DEF VisitInv, VisitBounds
  <2>2. CASE visit # NoPeer
    BY <2>2 DEF VisitInv, EndsExplained
  <2> QED
    BY <2>1, <2>2
<1> QED
  BY <1>1, <1>2, <1>3, <1>4 DEF VisitInv

LEMMA NextFault ==
  ASSUME VisitInv, Fault \/ NoFault
  PROVE  faults' \in 0..MaxFaults
BY VisitAssumption DEF VisitInv, VisitType, Fault, NoFault

----------------------------------------------------------------------------
(* The steps of a visit.                                                   *)

LEMMA BeginVisitInv ==
  ASSUME VisitInv, NEW p \in Peers, visit = NoPeer, BeginVisit(p)
  PROVE  VisitInv'
<1>1. /\ p # NoPeer /\ visit' = p
      /\ UNCHANGED <<dryRun, steps, full, blocked, cancelled, ready, target>>
  BY VisitAssumption DEF BeginVisit
<1>2. PICK s \in {"waiting", "unlisted"} : fs' = [f \in Filesystems |-> s]
  BY DEF BeginVisit
<1>3. full = {} /\ blocked = {} /\ \A f \in Filesystems : steps[f] = 0
  BY DEF VisitInv, VisitBounds
<1>4. faults' \in 0..MaxFaults
  BY NextFault DEF BeginVisit
<1>5. VisitType'
  BY <1>1, <1>2, <1>4 DEF VisitInv, VisitType, FsStates, Ended
<1>6. VisitBounds' /\ StepsBounded'
  BY <1>1, <1>2, <1>3 DEF VisitBounds, StepsBounded, InProgress, InTransfer
<1>7. LevelsWaited'
  BY <1>1, <1>2 DEF LevelsWaited, LevelReached, Ended
<1>8. FullPlansInv'
  BY <1>1, <1>2, <1>3 DEF FullPlansInv, NoDoomedFull, InProgress, InTransfer
<1>9. EndsExplained'
  BY <1>1, <1>2 DEF EndsExplained
<1> QED
  BY <1>5, <1>6, <1>7, <1>8, <1>9 DEF VisitInv

\* What a step of f may do to the state of f, for the two parts of the invariant that
\* only look at states: nobody leaves Ended, and nobody starts before his turn.
LEMMA StateStep ==
  ASSUME VisitInv, NEW f \in Filesystems, NEW state \in FsStates \ {"idle", "waiting"},
         SetFs(f, state), fs[f] \notin Ended, visit' = visit, LevelReached(f)
  PROVE  /\ LevelsWaited'
         /\ visit # NoPeer => \A g \in Filesystems : fs'[g] # "idle"
<1>1. fs \in [Filesystems -> FsStates] /\ fs' = [fs EXCEPT ![f] = state]
  BY DEF VisitInv, VisitType, SetFs
<1>2. \A g \in Filesystems : fs[g] \in Ended => fs'[g] \in Ended
  BY <1>1
<1>3. ASSUME NEW g \in Filesystems, fs'[g] \notin {"idle", "waiting"}
      PROVE  LevelReached(g)
  <2>1. CASE g = f
    BY <2>1
  <2>2. CASE g # f
    BY <1>1, <1>3, <2>2 DEF VisitInv, LevelsWaited
  <2> QED
    BY <2>1, <2>2
<1>4. LevelsWaited'
  BY <1>2, <1>3 DEF LevelsWaited, LevelReached
<1>5. visit # NoPeer => \A g \in Filesystems : fs'[g] # "idle"
  BY <1>1 DEF VisitInv, VisitBounds
<1> QED
  BY <1>4, <1>5

\* An ancestor of a running filesystem has ended.
LEMMA AncestorsEnded ==
  ASSUME VisitInv, NEW f \in Filesystems, fs[f] \in InProgress, NEW a \in Under[f]
  PROVE  a \in Filesystems /\ fs[a] \in Ended /\ a # f
<1>1. a \in Filesystems /\ Depth[a] < Depth[f] /\ Depth[f] \in Nat
  BY VisitAssumption
<1>2. LevelReached(f)
  BY DEF VisitInv, LevelsWaited, InProgress, InTransfer
<1> QED
  BY <1>1, <1>2 DEF LevelReached

LEMMA ClaimInv ==
  ASSUME VisitInv, NEW f \in Filesystems, Claim(f)
  PROVE  VisitInv'
<1>1. /\ fs[f] = "waiting" /\ LevelReached(f)
      /\ UNCHANGED <<dryRun, visit, steps, full, blocked, cancelled, ready, target, faults>>
  BY DEF Claim
<1>2. PICK state \in {"skipped", "barred", "planning"} :
        /\ SetFs(f, state)
        /\ state = "skipped" => cancelled
        /\ state = "planning" => blocked \cap Under[f] = {}
  BY DEF Claim
<1>3. visit # NoPeer /\ steps[f] = 0 /\ f \notin full
  BY <1>1, VisitUnderway DEF VisitInv, StepsBounded
<1>4. fs \in [Filesystems -> FsStates] /\ fs' = [fs EXCEPT ![f] = state]
  BY <1>2 DEF SetFs, VisitInv, VisitType
<1>5. state \in FsStates \ {"idle", "waiting"} /\ fs[f] \notin Ended
  BY <1>1 DEF FsStates, InProgress, InTransfer, Ended
<1>6. LevelsWaited' /\ \A g \in Filesystems : fs'[g] # "idle"
  BY <1>1, <1>2, <1>3, <1>5, StateStep
<1>7. VisitType'
  BY <1>1, <1>4, <1>5 DEF VisitInv, VisitType
<1>8. VisitBounds'
  BY <1>1, <1>3, <1>6 DEF VisitBounds
<1>9. StepsBounded'
  BY <1>1, <1>2, <1>3, <1>4, VisitAssumption DEF VisitInv, StepsBounded
<1>10. FullPlansInv'
  BY <1>1, <1>2, <1>3, <1>4
     DEF VisitInv, FullPlansInv, NoDoomedFull, InProgress, InTransfer, Ended
<1>11. EndsExplained'
  BY <1>1, <1>2, <1>3, <1>4 DEF VisitInv, EndsExplained
<1> QED
  BY <1>6, <1>7, <1>8, <1>9, <1>10, <1>11 DEF VisitInv

LEMMA PlanStepInv ==
  ASSUME VisitInv, NEW f \in Filesystems, PlanStep(f)
  PROVE  VisitInv'
<1>1. /\ fs[f] = "planning"
      /\ UNCHANGED <<dryRun, visit, steps, cancelled, ready, target, blocked>>
  BY DEF PlanStep, Settle
<1>2. PICK state \in {"done", "failed", "advanced", "sending"},
           F \in {full \ {f}, full \cup {f}} :
        /\ fs' = [fs EXCEPT ![f] = state] /\ full' = F
        /\ state = "advanced" => dryRun
        /\ state = "sending" => ~dryRun
        /\ f \in F => target[visit][f] = "absent" /\ state \in {"advanced", "sending"}
  BY DEF PlanStep, Settle, SetFs
<1>3. visit # NoPeer /\ blocked \cap Under[f] = {} /\ steps[f] < MaxSteps
  BY <1>1, VisitUnderway DEF VisitInv, FullPlansInv, InProgress, StepsBounded
<1>4. fs \in [Filesystems -> FsStates] /\ SetFs(f, state)
  BY <1>2 DEF SetFs, VisitInv, VisitType
<1>5. state \in FsStates \ {"idle", "waiting"} /\ fs[f] \notin Ended
  BY <1>1 DEF FsStates, InProgress, InTransfer, Ended
<1>6. LevelsWaited' /\ \A g \in Filesystems : fs'[g] # "idle"
  BY <1>1, <1>3, <1>4, <1>5, StateStep DEF VisitInv, LevelsWaited
<1>7. faults' \in 0..MaxFaults
  BY NextFault DEF PlanStep
<1>8. VisitType'
  BY <1>1, <1>2, <1>4, <1>5, <1>7 DEF VisitInv, VisitType
<1>9. VisitBounds'
  BY <1>1, <1>3, <1>6 DEF VisitBounds
<1>10. StepsBounded'
  BY <1>1, <1>2, <1>3, <1>4 DEF VisitInv, StepsBounded
<1>11. FullPlansInv'
  BY <1>1, <1>2, <1>3, <1>4
     DEF VisitInv, FullPlansInv, NoDoomedFull, InProgress, InTransfer, Ended
<1>12. EndsExplained'
  BY <1>1, <1>2, <1>4 DEF VisitInv, EndsExplained
<1> QED
  BY <1>6, <1>8, <1>9, <1>10, <1>11, <1>12 DEF VisitInv

\* What a receive for f may do to the datasets of its visit: its own target, and the
\* missing ancestors.
Received(f, T) ==
  /\ T \in [Filesystems -> TargetStates]
  /\ target' = [target EXCEPT ![visit] = T]
  /\ T[f] \in {target[visit][f], "partial", "present"}
  /\ \A a \in Filesystems \ {f} :
       \/ T[a] = target[visit][a]
       \/ a \in Under[f] /\ target[visit][a] = "absent" /\ T[a] = "placeholder"

\* An ancestor that a receive for f creates has ended, and one that had failed a full
\* send would have kept f out.
LEMMA ReceivedSpares ==
  ASSUME VisitInv, NEW f \in Filesystems, fs[f] \in InTransfer, NEW T, Received(f, T),
         NEW a \in Filesystems \ {f}, T[a] # target[visit][a]
  PROVE  fs[a] \in Ended /\ a \notin full
<1>1. a \in Under[f] /\ target[visit][a] = "absent"
  BY DEF Received
<1>2. fs[a] \in Ended
  BY <1>1, AncestorsEnded DEF InProgress
<1>3. blocked \cap Under[f] = {} /\ ~dryRun
  BY DEF VisitInv, FullPlansInv, InProgress
<1> QED
  BY <1>1, <1>2, <1>3 DEF VisitInv, FullPlansInv

\* Any step of a transfer.
LEMMA TransferStepInv ==
  ASSUME VisitInv, NEW f \in Filesystems, fs[f] \in InTransfer,
         NEW state \in {"planning", "finalizing", "advanced", "failed", "aborted"},
         SetFs(f, state), UNCHANGED <<dryRun, visit, full, cancelled, ready>>,
         Fault \/ NoFault,
         NEW T, Received(f, T),
         blocked' = blocked \/ blocked' = blocked \cup {f},
         state \in {"failed", "aborted"} /\ f \in full => f \in blocked',
         \/ steps' = steps /\ state \notin {"planning", "advanced"}
         \/ /\ steps' = [steps EXCEPT ![f] = @ + 1] /\ state \in {"planning", "advanced"}
            /\ T[f] = "present"
            /\ state = "planning" => steps[f] + 1 < MaxSteps
            /\ state = "advanced" => cancelled \/ ~(steps[f] + 1 < MaxSteps)
  PROVE  VisitInv'
<1>1. /\ visit \in Peers /\ visit # NoPeer
      /\ blocked \cap Under[f] = {} /\ steps[f] \in Nat /\ steps[f] < MaxSteps /\ ~dryRun
  BY VisitUnderway
     DEF VisitInv, FullPlansInv, InProgress, InTransfer, StepsBounded, VisitType
<1>2. /\ fs \in [Filesystems -> FsStates] /\ fs' = [fs EXCEPT ![f] = state]
      /\ target \in [Peers -> [Filesystems -> TargetStates]] /\ target'[visit] = T
  BY <1>1 DEF SetFs, VisitInv, VisitType, Received
<1>3. state \in FsStates \ {"idle", "waiting"} /\ fs[f] \notin Ended
  BY DEF FsStates, InProgress, InTransfer, Ended
<1>4. LevelsWaited' /\ \A g \in Filesystems : fs'[g] # "idle"
  BY <1>1, <1>3, StateStep DEF VisitInv, LevelsWaited, InTransfer
<1>5. faults' \in 0..MaxFaults
  BY NextFault
<1>6. steps' \in [Filesystems -> 0..MaxSteps]
  BY <1>1, VisitAssumption DEF VisitInv, VisitType
<1>7. target' \in [Peers -> [Filesystems -> TargetStates]]
  BY <1>2 DEF Received
<1>8. VisitType'
  BY <1>2, <1>3, <1>5, <1>6, <1>7 DEF VisitInv, VisitType
<1>9. VisitBounds'
  BY <1>1, <1>4 DEF VisitBounds
<1>10. \A g \in Filesystems \ {f} : fs'[g] = fs[g] /\ steps'[g] = steps[g]
  BY <1>2 DEF VisitInv, VisitType
<1>11. fs'[f] = state /\ (state \in {"planning", "advanced"} => steps'[f] = steps[f] + 1)
  BY <1>2 DEF VisitInv, VisitType
<1>12. StepsBounded'
  <2> SUFFICES ASSUME NEW g \in Filesystems
      PROVE  /\ fs'[g] \in {"idle", "waiting"} => steps'[g] = 0 /\ g \notin full
             /\ fs'[g] \in InProgress => steps'[g] < MaxSteps
    BY DEF StepsBounded
  <2>1. CASE g = f
    BY <2>1, <1>1, <1>11 DEF InProgress, InTransfer
  <2>2. CASE g # f
    BY <2>2, <1>10 DEF VisitInv, StepsBounded
  <2> QED
    BY <2>1, <2>2
<1>13. EndsExplained'
  <2> SUFFICES ASSUME NEW g \in Filesystems
      PROVE  /\ fs'[g] = "skipped" => cancelled
             /\ fs'[g] = "advanced" => dryRun \/ cancelled \/ steps'[g] = MaxSteps
    BY DEF EndsExplained
  <2>1. CASE g = f
    BY <2>1, <1>1, <1>11, VisitAssumption
  <2>2. CASE g # f
    BY <2>2, <1>10 DEF VisitInv, EndsExplained
  <2> QED
    BY <2>1, <2>2
<1>14. ASSUME NEW a \in Filesystems \ {f}, T[a] # target[visit][a]
       PROVE  fs[a] \in Ended /\ a \notin full
  BY <1>14, ReceivedSpares
<1>15. ASSUME NEW g \in Filesystems
       PROVE  /\ fs'[g] = "sending" /\ g \in full => target'[visit][g] = "absent"
              /\ g \in full /\ fs'[g] \in Ended =>
                   g \in blocked' \/ target'[visit][g] = "present"
              /\ fs'[g] \in InProgress => blocked' \cap Under[g] = {}
  <2>1. CASE g = f
    <3>1. f \notin Under[f]
      BY VisitAssumption
    <3> QED
      BY <2>1, <3>1, <1>1, <1>2, <1>11 DEF Ended, InProgress, InTransfer
  <2>2. CASE g # f
    <3>1. fs[g] = "sending" /\ g \in full => target'[visit][g] = "absent"
      BY <2>2, <1>2, <1>14 DEF VisitInv, FullPlansInv, NoDoomedFull, Ended
    <3>2. g \in full /\ fs[g] \in Ended => g \in blocked' \/ target'[visit][g] = "present"
      BY <2>2, <1>1, <1>2, <1>14 DEF VisitInv, FullPlansInv
    <3>3. fs[g] \in InProgress => f \notin Under[g]
      BY <1>3, AncestorsEnded
    <3>4. fs[g] \in InProgress => blocked \cap Under[g] = {}
      BY DEF VisitInv, FullPlansInv
    <3> QED
      BY <2>2, <3>1, <3>2, <3>3, <3>4, <1>10
  <2> QED
    BY <2>1, <2>2
<1>16. FullPlansInv'
  BY <1>1, <1>15 DEF FullPlansInv, NoDoomedFull
<1> QED
  BY <1>4, <1>8, <1>9, <1>12, <1>13, <1>16 DEF VisitInv

\* The ways a receive for f can leave the datasets.
LEMMA BrokenOffReceives ==
  ASSUME VisitInv, NEW f \in Filesystems, fs[f] # "idle", BrokenOff(f)
  PROVE  \E T : Received(f, T)
<1>1. /\ visit \in Peers /\ target[visit] \in [Filesystems -> TargetStates]
  BY VisitUnderway DEF VisitInv, VisitType
<1>2. PICK reached \in {target[visit], WithAncestors(f)} :
        \/ target' = [target EXCEPT ![visit] = reached]
        \/ target' = [target EXCEPT ![visit] = [reached EXCEPT ![f] = "partial"]]
  BY DEF BrokenOff
<1>3. /\ reached \in [Filesystems -> TargetStates]
      /\ \A a \in Filesystems :
           \/ reached[a] = target[visit][a]
           \/ a \in Under[f] /\ target[visit][a] = "absent" /\ reached[a] = "placeholder"
  BY <1>1, <1>2 DEF WithAncestors, TargetStates
<1>4. CASE target' = [target EXCEPT ![visit] = reached]
  <2>1. reached[f] = target[visit][f]
    BY <1>3, VisitAssumption
  <2> QED
    BY <1>3, <1>4, <2>1 DEF Received
<1>5. CASE target' = [target EXCEPT ![visit] = [reached EXCEPT ![f] = "partial"]]
  <2> DEFINE T == [reached EXCEPT ![f] = "partial"]
  <2>1. /\ T \in [Filesystems -> TargetStates] /\ T[f] = "partial"
        /\ \A a \in Filesystems \ {f} : T[a] = reached[a]
    BY <1>3 DEF TargetStates
  <2>2. target' = [target EXCEPT ![visit] = T]
    BY <1>5
  <2> HIDE DEF T
  <2>3. \A a \in Filesystems \ {f} :
          \/ T[a] = target[visit][a]
          \/ a \in Under[f] /\ target[visit][a] = "absent" /\ T[a] = "placeholder"
    BY <1>3, <2>1
  <2>4. Received(f, T)
    BY <2>1, <2>2, <2>3 DEF Received
  <2> QED
    BY <2>4
<1> QED
  BY <1>2, <1>4, <1>5

LEMMA ReachedReceives ==
  ASSUME VisitInv, NEW f \in Filesystems, fs[f] # "idle",
         target' = [target EXCEPT ![visit] = WithAncestors(f)]
  PROVE  \E T : Received(f, T)
<1>1. target[visit] \in [Filesystems -> TargetStates]
  BY VisitUnderway DEF VisitInv, VisitType
<1>2. /\ WithAncestors(f) \in [Filesystems -> TargetStates]
      /\ \A a \in Filesystems :
           \/ WithAncestors(f)[a] = target[visit][a]
           \/ /\ a \in Under[f] /\ target[visit][a] = "absent"
              /\ WithAncestors(f)[a] = "placeholder"
  BY <1>1 DEF WithAncestors, TargetStates
<1>3. WithAncestors(f)[f] = target[visit][f]
  BY <1>2, VisitAssumption
<1> QED
  BY <1>2, <1>3 DEF Received

LEMMA LandedReceives ==
  ASSUME VisitInv, NEW f \in Filesystems, fs[f] # "idle",
         target' = [target EXCEPT ![visit][f] = "present"]
  PROVE  \E T : Received(f, T) /\ T[f] = "present"
<1> DEFINE T == [target[visit] EXCEPT ![f] = "present"]
<1>1. target[visit] \in [Filesystems -> TargetStates]
  BY VisitUnderway DEF VisitInv, VisitType
<1>2. /\ T \in [Filesystems -> TargetStates] /\ T[f] = "present"
      /\ \A a \in Filesystems \ {f} : T[a] = target[visit][a]
  BY <1>1 DEF TargetStates
<1>3. target' = [target EXCEPT ![visit] = T]
  OBVIOUS
<1> HIDE DEF T
<1> QED
  BY <1>2, <1>3 DEF Received

LEMMA SendStepInv ==
  ASSUME VisitInv, NEW f \in Filesystems, SendStep(f)
  PROVE  VisitInv' /\ \E T : Received(f, T)
<1>1. /\ fs[f] = "sending" /\ UNCHANGED <<dryRun, visit, steps, full, cancelled, ready>>
      /\ Fault \/ NoFault
  BY DEF SendStep
<1>2. PICK state \in {"finalizing", "failed", "aborted"} :
        /\ SetFs(f, state)
        /\ blocked' = blocked \/ blocked' = blocked \cup {f}
        /\ state \in {"failed", "aborted"} /\ f \in full => f \in blocked'
  BY DEF SendStep, Settle
<1>3. PICK T : Received(f, T)
  BY <1>1, BrokenOffReceives, ReachedReceives DEF SendStep
<1>4. VisitInv'
  BY <1>1, <1>2, <1>3, TransferStepInv DEF InTransfer
<1> QED
  BY <1>3, <1>4

LEMMA FinalizeStepInv ==
  ASSUME VisitInv, NEW f \in Filesystems, FinalizeStep(f)
  PROVE  VisitInv' /\ \E T : Received(f, T)
<1>1. /\ fs[f] = "finalizing" /\ UNCHANGED <<dryRun, visit, full, cancelled, ready>>
      /\ Fault \/ NoFault
  BY DEF FinalizeStep
<1>2. CASE /\ target' = [target EXCEPT ![visit][f] = "present"]
           /\ SetFs(f, IF ~cancelled /\ StepsLeft(f) THEN "planning" ELSE "advanced")
           /\ steps' = [steps EXCEPT ![f] = @ + 1] /\ UNCHANGED blocked
  <2>1. PICK T : Received(f, T) /\ T[f] = "present"
    BY <1>1, <1>2, LandedReceives
  <2>2. PICK state \in {"planning", "advanced"} :
          /\ SetFs(f, state)
          /\ state = "planning" => steps[f] + 1 < MaxSteps
          /\ state = "advanced" => cancelled \/ ~(steps[f] + 1 < MaxSteps)
    BY <1>2 DEF StepsLeft
  <2>3. VisitInv'
    BY <1>1, <1>2, <2>1, <2>2, TransferStepInv DEF InTransfer
  <2> QED
    BY <2>1, <2>3
<1>3. CASE /\ target' = [target EXCEPT ![visit][f] = "present"] \/ BrokenOff(f)
           /\ Settle(f, "failed", f \in full) /\ UNCHANGED steps
  <2>1. PICK T : Received(f, T)
    BY <1>1, <1>3, LandedReceives, BrokenOffReceives
  <2>2. PICK state \in {"failed"} :
          /\ SetFs(f, state)
          /\ blocked' = blocked \/ blocked' = blocked \cup {f}
          /\ f \in full => f \in blocked'
    BY <1>3 DEF Settle
  <2>3. VisitInv'
    BY <1>1, <1>3, <2>1, <2>2, TransferStepInv DEF InTransfer
  <2> QED
    BY <2>1, <2>3
<1> QED
  BY <1>2, <1>3 DEF FinalizeStep

\* run_for_peer returns, or the daemon dies.
LEMMA ForgetVisitInv ==
  ASSUME VisitInv, ForgetVisit, UNCHANGED <<dryRun, ready, target>>,
         cancelled' \in BOOLEAN, faults' \in 0..MaxFaults
  PROVE  VisitInv'
<1>1. VisitType'
  BY VisitAssumption DEF VisitInv, VisitType, ForgetVisit, FsStates
<1>2. VisitBounds' /\ StepsBounded'
  BY VisitAssumption DEF VisitBounds, StepsBounded, ForgetVisit, InProgress, InTransfer
<1>3. LevelsWaited' /\ FullPlansInv' /\ EndsExplained'
  BY DEF LevelsWaited, FullPlansInv, NoDoomedFull, EndsExplained, ForgetVisit,
         InProgress, InTransfer, Ended
<1> QED
  BY <1>1, <1>2, <1>3 DEF VisitInv

LEMMA InvInitially == JobInit => JobInv
<1> SUFFICES ASSUME JobInit PROVE JobInv
  OBVIOUS
<1> USE DEF JobInit, VisitInit
<1>1. VisitType /\ VisitBounds
  <2>1. 0 \in 0..MaxSteps /\ 0 \in 0..MaxFaults
    BY VisitAssumption
  <2>2. target \in [Peers -> [Filesystems -> TargetStates]]
    BY DEF TargetStates
  <2>3. VisitBounds
    BY DEF VisitBounds
  <2> QED
    BY <2>1, <2>2, <2>3 DEF VisitType, FsStates
<1>2. StepsBounded /\ LevelsWaited
  BY DEF StepsBounded, LevelsWaited, InProgress, InTransfer
<1>3. FullPlansInv /\ EndsExplained
  BY DEF FullPlansInv, NoDoomedFull, EndsExplained, InProgress, InTransfer, Ended
<1>4. LoopInv
  <2>1. controls \in 0..MaxControls
    BY JobAssumption
  <2>2. NeverTried \in OutcomeType
    BY DEF NeverTried, OutcomeType, Ages, Statuses
  <2>3. mem \in [Peers -> OutcomeType] /\ ledger \in [Peers -> OutcomeType]
    BY <2>2
  <2> QED
    BY <2>1, <2>3 DEF LoopInv, LoopType, Phases, Halves, Routes
<1>5. HistoryInv
  BY DEF HistoryInv, NeverTried
<1> QED
  BY <1>1, <1>2, <1>3, <1>4, <1>5 DEF JobInv, VisitInv

----------------------------------------------------------------------------
(* The steps of the loop, one lemma for each part of the invariant.        *)

\* Where a step is outside the visit, its variables are those of the frame.
LEMMA OutsideVisit ==
  ASSUME VisitInv, UNCHANGED visitAll, Fault \/ NoFault \/ UNCHANGED faults
  PROVE  VisitInv'
<1>1. faults' \in 0..MaxFaults
  BY NextFault DEF VisitInv, VisitType
<1> QED
  BY <1>1, VisitFrame DEF visitAll, VisitInv, VisitType

LEMMA LoopVisitInv ==
  ASSUME JobInv, Loop
  PROVE  VisitInv'
<1> USE DEF JobInv
<1>1. CASE LeaveGrace
  BY <1>1, OutsideVisit DEF LeaveGrace
<1>2. CASE Gate
  BY <1>2, OutsideVisit DEF Gate
<1>3. CASE LoadOutcomes
  BY <1>3, OutsideVisit DEF LoadOutcomes
<1>4. CASE SelectTargets
  BY <1>4, OutsideVisit DEF SelectTargets
<1>5. CASE Arm
  <2>1. visit = NoPeer
    BY <1>5 DEF Arm, LoopInv
  <2> QED
    BY <1>5, <2>1, VisitFrame DEF Arm, VisitInv, VisitType, LoopInv, LoopType
<1>6. CASE StartVisit
  <2>1. PICK i \in picked : BeginVisit(Targets[i])
    BY <1>6 DEF StartVisit
  <2>2. visit = NoPeer /\ Targets[i] \in Peers
    BY <1>6, JobAssumption DEF StartVisit, LoopInv, LoopType
  <2> QED
    BY <2>1, <2>2, BeginVisitInv
<1>7. ASSUME NEW f \in Filesystems, VisitStep(f) PROVE VisitInv'
  BY <1>7, ClaimInv, PlanStepInv, SendStepInv, FinalizeStepInv DEF VisitStep, Replicate
<1>8. CASE EndVisit
  BY <1>8, ForgetVisitInv, NextFault DEF EndVisit, VisitInv, VisitType
<1>9. CASE EndCycle
  BY <1>9, VisitFrame DEF EndCycle, VisitInv, VisitType
<1>10. CASE WakeUp
  BY <1>10, OutsideVisit DEF WakeUp
<1>11. CASE StopLoop
  BY <1>11, OutsideVisit DEF StopLoop
<1> QED
  BY <1>1, <1>2, <1>3, <1>4, <1>5, <1>6, <1>7, <1>8, <1>9, <1>10, <1>11 DEF Loop

LEMMA OutcomeTypes ==
  ASSUME NEW o \in OutcomeType, NEW s \in Statuses
  PROVE  Attempted(o, s) \in OutcomeType /\ Aged(o) \in OutcomeType
BY DEF OutcomeType, Attempted, Aged, Ages

LEMMA AttemptStatusType == AttemptStatus \in Statuses
BY DEF AttemptStatus, Statuses

LEMMA LoopLoopInv ==
  ASSUME JobInv, Loop
  PROVE  LoopInv'
<1> USE DEF JobInv, LoopInv, LoopType, Phases,
            loopVars, flagVars, cycleVars, pastVars, visitAll, visitVars
<1>1. CASE LeaveGrace
  BY <1>1 DEF LeaveGrace
<1>2. CASE Gate
  BY <1>2 DEF Gate, Nap
<1>3. CASE LoadOutcomes
  <2>1. Seeded \in [Peers -> OutcomeType]
    BY DEF Seeded
  <2> QED
    BY <1>3, <2>1 DEF LoadOutcomes
<1>4. CASE SelectTargets
  BY <1>4 DEF SelectTargets, Nap
<1>5. CASE Arm
  BY <1>5 DEF Arm
<1>6. CASE StartVisit
  BY <1>6 DEF StartVisit
<1>7. ASSUME NEW f \in Filesystems, VisitStep(f) PROVE LoopInv'
  BY <1>7 DEF VisitStep, Replicate, Claim, PlanStep, SendStep, FinalizeStep
<1>8. CASE EndVisit
  <2>1. /\ visit \in Peers /\ visit' = NoPeer
        /\ UNCHANGED <<loopVars, flagVars, cycleVars, loaded>>
        /\ parked' \subseteq parked \cup {visit}
    BY <1>8 DEF EndVisit, VisitOver, ForgetVisit, VisitInv, VisitType
  <2>2. mem' \in [Peers -> OutcomeType] /\ ledger' \in [Peers -> OutcomeType]
    BY <1>8, <2>1, OutcomeTypes, AttemptStatusType DEF EndVisit
  <2> QED
    BY <2>1, <2>2
<1>9. CASE EndCycle
  BY <1>9 DEF EndCycle, Nap
<1>10. CASE WakeUp
  BY <1>10 DEF WakeUp
<1>11. CASE StopLoop
  BY <1>11 DEF StopLoop
<1> QED
  BY <1>1, <1>2, <1>3, <1>4, <1>5, <1>6, <1>7, <1>8, <1>9, <1>10, <1>11 DEF Loop

LEMMA LoopHistoryInv ==
  ASSUME JobInv, Loop
  PROVE  HistoryInv'
<1> USE DEF JobInv, HistoryInv
<1>1. CASE LeaveGrace
  BY <1>1 DEF LeaveGrace, pastVars
<1>2. CASE Gate
  BY <1>2 DEF Gate, pastVars
<1>3. CASE LoadOutcomes
  <2>1. \A p \in Peers : ledger[p].success = "fresh" => Seeded[p] = ledger[p]
    BY DEF Seeded, NeverTried
  <2>2. \A p \in Peers : Seeded[p] = ledger[p] \/ Seeded[p] = mem[p]
    BY DEF Seeded
  <2> QED
    BY <1>3, <2>1, <2>2 DEF LoadOutcomes
<1>4. CASE SelectTargets
  BY <1>4 DEF SelectTargets, pastVars
<1>5. CASE Arm
  BY <1>5 DEF Arm, pastVars
<1>6. CASE StartVisit
  BY <1>6 DEF StartVisit, pastVars
<1>7. ASSUME NEW f \in Filesystems, VisitStep(f) PROVE HistoryInv'
  BY <1>7 DEF VisitStep, pastVars
<1>8. CASE EndVisit
  <2>1. /\ mem' = [mem EXCEPT ![visit] = Attempted(@, AttemptStatus)]
        /\ \/ ledger' = [ledger EXCEPT ![visit] = Attempted(@, AttemptStatus)]
           \/ ledger' = ledger
        /\ loaded' = loaded /\ visit \in Peers
    BY <1>8 DEF EndVisit, VisitOver, VisitInv, VisitType
  <2>2. mem \in [Peers -> OutcomeType] /\ ledger \in [Peers -> OutcomeType]
    BY DEF LoopInv, LoopType
  <2>3. \A o \in OutcomeType :
          /\ Attempted(o, AttemptStatus).attempt = "fresh"
          /\ Attempted(o, AttemptStatus).success =
               IF AttemptStatus = "ok" THEN "fresh" ELSE o.success
    BY DEF Attempted
  <2> HIDE DEF JobInv
  <2> QED
    BY <2>1, <2>2, <2>3 DEF JobInv
<1>9. CASE EndCycle
  BY <1>9 DEF EndCycle, pastVars
<1>10. CASE WakeUp
  BY <1>10 DEF WakeUp, pastVars
<1>11. CASE StopLoop
  BY <1>11 DEF StopLoop, pastVars
<1> QED
  BY <1>1, <1>2, <1>3, <1>4, <1>5, <1>6, <1>7, <1>8, <1>9, <1>10, <1>11 DEF Loop

----------------------------------------------------------------------------
(* Control calls and the rest of the world.                                *)

LEMMA NextControl ==
  ASSUME LoopType, Control
  PROVE  controls' \in 0..MaxControls
BY JobAssumption DEF LoopType, Control

LEMMA CallsInv ==
  ASSUME JobInv, Calls
  PROVE  JobInv'
<1> USE DEF JobInv, LoopInv, LoopType, HistoryInv,
            loopVars, flagVars, cycleVars, pastVars, visitAll, visitVars
<1>1. CASE Notify
  <2>1. VisitInv'
    BY <1>1, OutsideVisit DEF Notify
  <2>2. LoopInv'
    BY <1>1, NextControl DEF Notify, Halves
  <2>3. HistoryInv'
    BY <1>1 DEF Notify
  <2> QED
    BY <2>1, <2>2, <2>3
<1>2. CASE Wakeup
  <2>1. VisitInv'
    BY <1>2, OutsideVisit DEF Wakeup
  <2>2. LoopInv'
    BY <1>2, NextControl DEF Wakeup, Halves
  <2>3. HistoryInv'
    BY <1>2 DEF Wakeup
  <2> QED
    BY <2>1, <2>2, <2>3
<1>3. CASE Resume
  <2>1. VisitInv'
    BY <1>3, OutsideVisit DEF Resume
  <2>2. LoopInv'
    BY <1>3, NextControl DEF Resume, Halves
  <2>3. HistoryInv'
    BY <1>3 DEF Resume
  <2> QED
    BY <2>1, <2>2, <2>3
<1>4. CASE Pause
  <2>1. VisitInv'
    BY <1>4, OutsideVisit DEF Pause
  <2>2. LoopInv'
    BY <1>4, NextControl DEF Pause, Halves
  <2>3. HistoryInv'
    BY <1>4 DEF Pause
  <2> QED
    BY <2>1, <2>2, <2>3
<1>5. CASE PauseCancels
  <2>1. VisitInv'
    BY <1>5, VisitFrame DEF PauseCancels, VisitInv, VisitType
  <2>2. LoopInv'
    BY <1>5, NextControl DEF PauseCancels, Halves
  <2>3. HistoryInv'
    BY <1>5 DEF PauseCancels
  <2> QED
    BY <2>1, <2>2, <2>3
<1>6. CASE CancelCurrent
  <2>1. VisitInv'
    BY <1>6, VisitFrame DEF CancelCurrent, VisitInv, VisitType
  <2>2. LoopInv'
    BY <1>6, NextControl DEF CancelCurrent, Halves
  <2>3. HistoryInv'
    BY <1>6 DEF CancelCurrent
  <2> QED
    BY <2>1, <2>2, <2>3
<1>7. ASSUME NEW p \in Peers, RequestPush(p) PROVE JobInv'
  <2>1. VisitInv'
    BY <1>7, OutsideVisit DEF RequestPush
  <2>2. LoopInv'
    BY <1>7, NextControl DEF RequestPush, Halves
  <2>3. HistoryInv'
    BY <1>7 DEF RequestPush
  <2> QED
    BY <2>1, <2>2, <2>3
<1> QED
  BY <1>1, <1>2, <1>3, <1>4, <1>5, <1>6, <1>7 DEF Calls

LEMMA WorldInv ==
  ASSUME JobInv, World
  PROVE  JobInv'
<1> USE DEF JobInv, LoopInv, LoopType, HistoryInv,
            loopVars, flagVars, cycleVars, pastVars, visitAll, visitVars
<1>1. ASSUME NEW p \in Peers, LinkChange(p) PROVE JobInv'
  <2>1. VisitInv'
    BY <1>1, OutsideVisit DEF LinkChange
  <2>2. controls' \in 0..MaxControls /\ link' \in [Peers -> Routes]
    BY <1>1, JobAssumption DEF LinkChange
  <2>3. LoopInv'
    BY <1>1, <2>2 DEF LinkChange
  <2>4. HistoryInv'
    BY <1>1 DEF LinkChange
  <2> QED
    BY <2>1, <2>3, <2>4
<1>2. ASSUME NEW p \in Peers, Elapse(p) PROVE JobInv'
  <2>1. VisitInv'
    BY <1>2, OutsideVisit DEF Elapse
  <2>2. mem \in [Peers -> OutcomeType] /\ ledger \in [Peers -> OutcomeType]
    OBVIOUS
  <2>3. mem' \in [Peers -> OutcomeType] /\ ledger' \in [Peers -> OutcomeType]
    BY <1>2, <2>2, OutcomeTypes DEF Elapse, Statuses
  <2>4. LoopInv'
    BY <1>2, <2>3 DEF Elapse
  <2>5. \A o \in OutcomeType : Aged(o).success = "old"
    BY DEF Aged, OutcomeType
  <2>6. HistoryInv'
    BY <1>2, <2>2, <2>5 DEF Elapse
  <2> QED
    BY <2>1, <2>4, <2>6
<1>3. ASSUME NEW f \in Filesystems, SnapJob(f) PROVE JobInv'
  <2>1. VisitInv'
    BY <1>3, VisitFrame DEF SnapJob, FirstSnapshot, VisitInv, VisitType
  <2>2. LoopInv'
    BY <1>3 DEF SnapJob, FirstSnapshot
  <2>3. HistoryInv'
    BY <1>3 DEF SnapJob
  <2> QED
    BY <2>1, <2>2, <2>3
<1>4. CASE Shutdown
  <2>1. VisitInv'
    BY <1>4, VisitFrame DEF Shutdown, VisitInv, VisitType
  <2>2. LoopInv'
    BY <1>4, NextControl DEF Shutdown
  <2>3. HistoryInv'
    BY <1>4 DEF Shutdown
  <2> QED
    BY <2>1, <2>2, <2>3
<1>5. CASE Restart
  <2>1. VisitInv'
    BY <1>5, ForgetVisitInv, NextFault DEF Restart
  <2>2. LoopInv'
    BY <1>5 DEF Restart, ForgetVisit, Phases, Halves, Routes,
               OutcomeType, NeverTried, Ages, Statuses
  <2>3. HistoryInv'
    BY <1>5 DEF Restart, NeverTried
  <2> QED
    BY <2>1, <2>2, <2>3
<1> QED
  BY <1>1, <1>2, <1>3, <1>4, <1>5 DEF World

LEMMA JobInvariant == Spec => []JobInv
<1>1. JobInit => JobInv
  BY InvInitially
<1>2. JobInv /\ [Next]_vars => JobInv'
  <2> SUFFICES ASSUME JobInv, [Next]_vars PROVE JobInv'
    OBVIOUS
  <2>1. CASE Next
    BY <2>1, LoopVisitInv, LoopLoopInv, LoopHistoryInv, CallsInv, WorldInv DEF Next, JobInv
  <2>2. CASE UNCHANGED vars
    <3>1. VisitInv'
      BY <2>2, OutsideVisit DEF JobInv, vars
    <3> QED
      BY <2>2, <3>1 DEF JobInv, LoopInv, LoopType, HistoryInv, vars, loopVars, flagVars,
                       cycleVars, pastVars, visitAll, visitVars
  <2> QED
    BY <2>1, <2>2
<1> QED
  BY <1>1, <1>2, PTL DEF Spec

----------------------------------------------------------------------------
(***************************************************************************)
(* Theorems.                                                               *)
(***************************************************************************)

\* Type correctness, with the bounds of PushJob: no filesystem takes more steps in a
\* visit than the limit of a cycle (replicate_one, MAX_STEPS_PER_CYCLE).
THEOREM TypeCorrect == Spec => []TypeOK
<1>1. JobInv => TypeOK
  BY DEF JobInv, VisitInv, LoopInv, LoopType, TypeOK
<1> QED
  BY <1>1, JobInvariant, PTL

\* Whatever the tree of filesystems and the number of slots, no full stream is under way
\* to a dataset that exists (run_for_peer, the depth levels).
THEOREM FullSendsFindRoom == Spec => []NoDoomedFull
<1>1. JobInv => NoDoomedFull
  BY DEF JobInv, VisitInv, FullPlansInv
<1> QED
  BY <1>1, JobInvariant, PTL

\* Only the two halves of a transfer touch the receiver's datasets.
LEMMA TargetSteps ==
  ASSUME [Next]_vars, target' # target
  PROVE  \E f \in Filesystems : SendStep(f) \/ FinalizeStep(f)
<1>1. CASE Loop
  <2>1. ASSUME NEW f \in Filesystems, VisitStep(f)
        PROVE  SendStep(f) \/ FinalizeStep(f)
    BY <2>1 DEF VisitStep, Replicate, Claim, PlanStep
  <2>2. CASE StartVisit
    BY <2>2 DEF StartVisit, BeginVisit
  <2>3. CASE LeaveGrace \/ Gate \/ LoadOutcomes \/ SelectTargets \/ WakeUp \/ StopLoop
    BY <2>3 DEF LeaveGrace, Gate, LoadOutcomes, SelectTargets, WakeUp, StopLoop, visitAll
  <2>4. CASE Arm \/ EndVisit \/ EndCycle
    BY <2>4 DEF Arm, EndVisit, EndCycle
  <2> QED
    BY <1>1, <2>1, <2>2, <2>3, <2>4 DEF Loop
<1>2. CASE Calls
  BY <1>2 DEF Calls, Notify, Wakeup, Resume, Pause, PauseCancels, CancelCurrent,
              RequestPush, visitAll
<1>3. CASE World
  BY <1>3 DEF World, LinkChange, Elapse, SnapJob, FirstSnapshot, Shutdown, Restart, visitAll
<1>4. CASE UNCHANGED vars
  BY <1>4 DEF vars, visitAll
<1> QED
  BY <1>1, <1>2, <1>3, <1>4 DEF Next

\* A filesystem whose first full send failed in a visit is not made a placeholder by its
\* descendants, wherever in the tree they are and however many run (run_for_peer,
\* blocked).
THEOREM FailedFullsStayAbsent == Spec => FailedFullStaysAbsent
<1> DEFINE Spared == \A f \in Filesystems : Placeheld(f) => f \notin full
<1>1. JobInv /\ [Next]_vars => [Spared]_target
  <2> SUFFICES ASSUME JobInv, [Next]_vars, target' # target,
                      NEW a \in Filesystems, Placeheld(a)
               PROVE  a \notin full
    OBVIOUS
  <2>1. PICK f \in Filesystems : SendStep(f) \/ FinalizeStep(f)
    BY TargetSteps
  <2>2. VisitInv /\ fs[f] \in InTransfer
    BY <2>1 DEF JobInv, SendStep, FinalizeStep, InTransfer
  <2>3. PICK T : Received(f, T)
    BY <2>1, <2>2, SendStepInv, FinalizeStepInv
  <2>4. PICK p \in Peers : target[p][a] # "placeholder" /\ target'[p][a] = "placeholder"
    BY DEF Placeheld
  <2>5. target \in [Peers -> [Filesystems -> TargetStates]]
    BY <2>2 DEF VisitInv, VisitType
  <2>6. p = visit /\ T[a] = "placeholder" /\ T[a] # target[visit][a]
    BY <2>3, <2>4, <2>5 DEF Received
  <2>7. a # f
    BY <2>3, <2>6 DEF Received
  <2> QED
    BY <2>2, <2>3, <2>6, <2>7, ReceivedSpares
<1> QED
  BY <1>1, JobInvariant, PTL DEF Spec, FailedFullStaysAbsent

\* A visit is over in one of two ways.
LEMMA VisitEnds ==
  ASSUME JobInv, [Next]_vars, visit # NoPeer, visit' = NoPeer, phase' = "cycle"
  PROVE  EndVisit
<1>1. CASE Loop
  <2>1. ASSUME NEW f \in Filesystems, VisitStep(f) PROVE visit' = visit
    BY <2>1 DEF VisitStep, Replicate, Claim, PlanStep, SendStep, FinalizeStep
  <2>2. CASE StartVisit
    BY <2>2 DEF StartVisit
  <2>3. CASE LeaveGrace \/ Gate \/ LoadOutcomes \/ SelectTargets \/ WakeUp \/ StopLoop
    BY <2>3 DEF LeaveGrace, Gate, LoadOutcomes, SelectTargets, WakeUp, StopLoop, visitAll,
                visitVars
  <2>4. CASE Arm \/ EndCycle
    BY <2>4 DEF Arm, EndCycle, visitVars
  <2> QED
    BY <1>1, <2>1, <2>2, <2>3, <2>4 DEF Loop
<1>2. CASE Calls
  BY <1>2 DEF Calls, Notify, Wakeup, Resume, Pause, PauseCancels, CancelCurrent,
              RequestPush, visitAll, visitVars
<1>3. CASE World
  BY <1>3 DEF World, LinkChange, Elapse, SnapJob, FirstSnapshot, Shutdown, Restart,
              visitAll, visitVars
<1>4. CASE UNCHANGED vars
  BY <1>4 DEF vars, visitAll, visitVars
<1> QED
  BY <1>1, <1>2, <1>3, <1>4 DEF Next

\* An attempt that is recorded as ok has caught up every filesystem, or given it all the
\* steps of a cycle, whenever the token fired (classify_peer_attempt).
THEOREM OkIsComplete == Spec => OkMeansComplete
<1> DEFINE Complete ==
      \A p \in Peers :
        visit = p /\ visit' = NoPeer /\ phase' = "cycle" /\ mem'[p].status = "ok" =>
          \A f \in Filesystems : \/ fs[f] = "done"
                                 \/ fs[f] = "advanced" /\ steps[f] = MaxSteps
<1>1. JobInv /\ [Next]_vars => Complete
  <2> SUFFICES ASSUME JobInv, [Next]_vars, NEW p \in Peers,
                      visit = p, visit' = NoPeer, phase' = "cycle", mem'[p].status = "ok",
                      NEW f \in Filesystems
               PROVE  fs[f] = "done" \/ (fs[f] = "advanced" /\ steps[f] = MaxSteps)
    OBVIOUS
  <2>1. EndVisit
    BY VisitEnds, VisitAssumption
  <2>2. mem \in [Peers -> OutcomeType]
    BY DEF JobInv, LoopInv, LoopType
  <2>3. AttemptStatus = "ok"
    BY <2>1, <2>2 DEF EndVisit, Attempted
  <2>4. ~cancelled /\ ~dryRun /\ fs[f] \notin {"aborted", "failed", "barred", "unlisted"}
    BY <2>3 DEF AttemptStatus
  <2>5. fs[f] \in Ended
    BY <2>1 DEF EndVisit, VisitOver
  <2>6. /\ fs[f] = "skipped" => cancelled
        /\ fs[f] = "advanced" => dryRun \/ cancelled \/ steps[f] = MaxSteps
    BY DEF JobInv, VisitInv, EndsExplained
  <2>7. fs[f] \in {"done", "advanced", "skipped"}
    BY <2>4, <2>5 DEF Ended
  <2> QED
    BY <2>4, <2>6, <2>7
<1> QED
  BY <1>1, JobInvariant, PTL DEF Spec, OkMeansComplete

\* Once the history is loaded, no peer is visited unasked that the ledger shows in sync,
\* whatever restarts and failed writes came before (ensure_outcomes_loaded).
THEOREM HistoryIsHeeded == Spec => HistorySurvives
<1> DEFINE Heeded ==
      phase = "select" /\ phase' = "arm" /\ loaded =>
        \A i \in picked' : \/ Targets[i] \in manual
                           \/ ledger[Targets[i]].success # "fresh"
<1>1. JobInv /\ [Next]_vars => Heeded
  <2> SUFFICES ASSUME JobInv, [Next]_vars, phase = "select", phase' = "arm", loaded,
                      NEW i \in picked', Targets[i] \notin manual
               PROVE  ledger[Targets[i]].success # "fresh"
    OBVIOUS
  <2>1. SelectTargets
    <3>1. CASE Loop
      BY <3>1 DEF Loop, LeaveGrace, Gate, LoadOutcomes, Arm, StartVisit, VisitStep,
                  EndVisit, EndCycle, WakeUp, StopLoop
    <3>2. CASE Calls
      BY <3>2 DEF Calls, Notify, Wakeup, Resume, Pause, PauseCancels, CancelCurrent,
                  RequestPush, loopVars
    <3>3. CASE World
      BY <3>3 DEF World, LinkChange, Elapse, SnapJob, Shutdown, Restart, loopVars
    <3>4. CASE UNCHANGED vars
      BY <3>4 DEF vars, loopVars
    <3> QED
      BY <3>1, <3>2, <3>3, <3>4 DEF Next
  <2>2. i \in DOMAIN Targets /\ Selected(Targets[i])
    BY <2>1 DEF SelectTargets
  <2>3. Targets[i] \in Peers /\ Due(Targets[i])
    BY <2>2, JobAssumption DEF Selected
  <2>4. mem[Targets[i]].success # "fresh"
    BY <2>3 DEF Due, ScheduleAnchor, JobInv, HistoryInv
  <2> QED
    BY <2>3, <2>4 DEF JobInv, HistoryInv
<1> QED
  BY <1>1, JobInvariant, PTL DEF Spec, HistorySurvives

----------------------------------------------------------------------------
(* Wakeups.                                                                *)

\* NoRequestSleeps is not inductive: a request that comes in during a cycle must
\* already be covered before the loop goes back to sleep.  From the moment a request is
\* queued, its wakeup is on the way or pending, or the loop has yet to select, or it has
\* ended.
NoNapAhead == {"grace", "gate", "load", "select", "stopped"}
RequestCovered ==
  manual # {} => wake \/ half = "notify" \/ phase \in NoNapAhead

LEMMA CoveredInitially == JobInit => RequestCovered
BY DEF JobInit, RequestCovered

\* Steps of the loop: only SelectTargets takes requests, and it takes all of them.
LEMMA CoveredByLoop ==
  ASSUME RequestCovered, Loop
  PROVE  RequestCovered'
<1>1. CASE LeaveGrace
  BY <1>1 DEF LeaveGrace, flagVars, RequestCovered, NoNapAhead
<1>2. CASE Gate
  BY <1>2 DEF Gate, Nap, flagVars, RequestCovered, NoNapAhead
<1>3. CASE LoadOutcomes
  BY <1>3 DEF LoadOutcomes, flagVars, RequestCovered, NoNapAhead
<1>4. CASE SelectTargets
  BY <1>4 DEF SelectTargets, RequestCovered
<1>5. CASE Arm
  BY <1>5 DEF Arm, flagVars, RequestCovered, NoNapAhead
<1>6. CASE StartVisit
  BY <1>6 DEF StartVisit, loopVars, flagVars, RequestCovered
<1>7. ASSUME NEW f \in Filesystems, VisitStep(f) PROVE RequestCovered'
  BY <1>7 DEF VisitStep, loopVars, flagVars, RequestCovered
<1>8. CASE EndVisit
  BY <1>8 DEF EndVisit, loopVars, flagVars, RequestCovered
<1>9. CASE EndCycle
  BY <1>9 DEF EndCycle, Nap, flagVars, RequestCovered, NoNapAhead
<1>10. CASE WakeUp
  BY <1>10 DEF WakeUp, RequestCovered, NoNapAhead
<1>11. CASE StopLoop
  BY <1>11 DEF StopLoop, flagVars, RequestCovered, NoNapAhead
<1> QED
  BY <1>1, <1>2, <1>3, <1>4, <1>5, <1>6, <1>7, <1>8, <1>9, <1>10, <1>11 DEF Loop

\* Control calls: a new one starts only when no other is between its halves, so it
\* cannot overwrite a notification that is still to come.
LEMMA CoveredByCalls ==
  ASSUME RequestCovered, Calls
  PROVE  RequestCovered'
<1>1. CASE Notify
  BY <1>1 DEF Notify, RequestCovered
<1>2. CASE Wakeup
  BY <1>2 DEF Wakeup, RequestCovered
<1>3. CASE Resume
  BY <1>3 DEF Resume, RequestCovered
<1>4. CASE Pause
  BY <1>4 DEF Pause, Control, loopVars, RequestCovered
<1>5. CASE PauseCancels
  BY <1>5 DEF PauseCancels, loopVars, RequestCovered
<1>6. CASE CancelCurrent
  BY <1>6 DEF CancelCurrent, loopVars, RequestCovered
<1>7. ASSUME NEW p \in Peers, RequestPush(p) PROVE RequestCovered'
  BY <1>7 DEF RequestPush, RequestCovered
<1> QED
  BY <1>1, <1>2, <1>3, <1>4, <1>5, <1>6, <1>7 DEF Calls

LEMMA CoveredByWorld ==
  ASSUME RequestCovered, World
  PROVE  RequestCovered'
<1>1. ASSUME NEW p \in Peers, LinkChange(p) PROVE RequestCovered'
  BY <1>1 DEF LinkChange, loopVars, RequestCovered
<1>2. ASSUME NEW p \in Peers, Elapse(p) PROVE RequestCovered'
  BY <1>2 DEF Elapse, loopVars, flagVars, RequestCovered
<1>3. ASSUME NEW f \in Filesystems, SnapJob(f) PROVE RequestCovered'
  BY <1>3 DEF SnapJob, loopVars, flagVars, RequestCovered
<1>4. CASE Shutdown
  BY <1>4 DEF Shutdown, RequestCovered
<1>5. CASE Restart
  BY <1>5 DEF Restart, RequestCovered
<1> QED
  BY <1>1, <1>2, <1>3, <1>4, <1>5 DEF World

\* No lost wakeup, whatever interleaving of control calls with the loop: a nap that
\* only its timer would end leaves no manual request waiting (PushJob::request_push,
\* run_and_record, run).
THEOREM RequestsNeverSleep == Spec => []NoRequestSleeps
<1>1. JobInit => RequestCovered
  BY CoveredInitially
<1>2. RequestCovered /\ [Next]_vars => RequestCovered'
  <2> SUFFICES ASSUME RequestCovered, [Next]_vars PROVE RequestCovered'
    OBVIOUS
  <2>1. CASE Next
    BY <2>1, CoveredByLoop, CoveredByCalls, CoveredByWorld DEF Next
  <2>2. CASE UNCHANGED vars
    BY <2>2 DEF vars, loopVars, flagVars, RequestCovered
  <2> QED
    BY <2>1, <2>2
<1>3. RequestCovered => NoRequestSleeps
  BY DEF RequestCovered, NoNapAhead, NoRequestSleeps
<1> QED
  BY <1>1, <1>2, <1>3, PTL DEF Spec

=============================================================================
