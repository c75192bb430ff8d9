------------------------------ MODULE PushVisit ------------------------------
(***************************************************************************)
(* The visit of a push cycle to one peer: run_for_peer, replicate_one and  *)
(* replicate_step (daemon/src/jobs/push/mod.rs).  Filesystems replicate    *)
(* concurrently, up to Parallel at once, one depth level at a time, and a  *)
(* filesystem whose ancestor failed its first full send is left out,       *)
(* because a receive creates the missing parents of its target as          *)
(* placeholders and a full stream cannot land on one.                      *)
(*                                                                         *)
(* CatchUp and Replication look inside a step; here a step only matters by *)
(* what it does to the receiver's target.                                  *)
(***************************************************************************)
EXTENDS Integers, FiniteSets

CONSTANTS
  Peers,        \* the job's targets
  NoPeer,       \* no visit is going on
  Filesystems,  \* what the job's filters resolve to
  Under,        \* Under[f]: the ancestors of f among Filesystems
  Depth,        \* Depth[f]: slashes in the path of f
  Parallel,     \* filesystems replicated concurrently
  MaxSteps,     \* MAX_STEPS_PER_CYCLE
  MaxFaults     \* failures per behaviour (a bound)

ASSUME VisitAssumption ==
  /\ NoPeer \notin Peers
  /\ Under \in [Filesystems -> SUBSET Filesystems]
  /\ Depth \in [Filesystems -> Nat]
  /\ \A f \in Filesystems : \A a \in Under[f] : Depth[a] < Depth[f]
  /\ Parallel \in Nat \ {0} /\ MaxSteps \in Nat \ {0} /\ MaxFaults \in Nat

VARIABLES
  dryRun,     \* configuration: the job only plans
  visit,      \* the peer being visited
  fs,         \* fs[f]: where filesystem f is in this visit
  steps,      \* steps[f]: steps of f that advanced the receiver
  full,       \* filesystems whose latest plan is a full send
  blocked,    \* filesystems whose failure keeps their descendants out
  cancelled,  \* the cycle's cancellation token has fired
  ready,      \* filesystems that have a snapshot to send
  target,     \* target[p][f]: the target dataset of f on peer p
  faults      \* failures so far

visitVars == <<visit, fs, steps, full, blocked>>

InTransfer == {"sending", "finalizing"}
InProgress == {"planning"} \cup InTransfer
Ended == {"done", "advanced", "skipped", "barred", "failed", "aborted", "unlisted"}
FsStates == {"idle", "waiting"} \cup InProgress \cup Ended

\* "partial": created by a first receive that has not ended, which can be resumed.
TargetStates == {"absent", "partial", "placeholder", "present"}

Fault   == faults < MaxFaults /\ faults' = faults + 1
NoFault == faults' = faults

VisitInit ==
  /\ dryRun \in BOOLEAN
  /\ visit = NoPeer
  /\ fs = [f \in Filesystems |-> "idle"]
  /\ steps = [f \in Filesystems |-> 0]
  /\ full = {}
  /\ blocked = {}
  /\ cancelled = FALSE
  /\ ready \in SUBSET Filesystems
  /\ target = [p \in Peers |-> [f \in Filesystems |-> "absent"]]
  /\ faults = 0

----------------------------------------------------------------------------
SetFs(f, state) == fs' = [fs EXCEPT ![f] = state]
Running == {f \in Filesystems : fs[f] \in InProgress}

\* expand_filesystems, then every filesystem is queued; a listing that fails ends
\* the visit.
BeginVisit(p) ==
  /\ visit' = p
  /\ \/ /\ fs' = [f \in Filesystems |-> "waiting"]
        /\ NoFault
     \/ /\ fs' = [f \in Filesystems |-> "unlisted"]
        /\ Fault
  /\ UNCHANGED <<dryRun, steps, full, blocked, cancelled, ready, target>>

\* Mutation: levels are not waited for.
AnyLevel(f) == TRUE

\* The levels run in sequence.
LevelReached(f) == \A g \in Filesystems : Depth[g] < Depth[f] => fs[g] \in Ended

\* A slot takes the next filesystem of the level.
Claim(f) ==
  /\ fs[f] = "waiting"
  /\ LevelReached(f)
  /\ Cardinality(Running) < Parallel
  /\ SetFs(f, IF cancelled THEN "skipped"
              ELSE IF blocked \cap Under[f] # {} THEN "barred"
              ELSE "planning")
  /\ UNCHANGED <<dryRun, visit, steps, full, blocked, cancelled, ready, target, faults>>

\* Mutation: a failed full send does not keep the descendants out.
SettleOpen(f, state, failedFull) ==
  /\ SetFs(f, state)
  /\ UNCHANGED blocked

\* f moves on to state.  When it failed on a full send, the target is still absent
\* and the descendants of f are left out.
Settle(f, state, failedFull) ==
  /\ SetFs(f, state)
  /\ blocked' = IF failedFull THEN blocked \cup {f} ELSE blocked

\* replicate_step up to the transfer: plan, then discard a stale partial receive.
\* Neither counts as a failed full send when it fails.  (A full plan never comes to
\* the discard: the dataset of a partial first receive exists, so it is refused.)
PlanStep(f) ==
  /\ fs[f] = "planning"
  /\ LET state == target[visit][f]
         Planned(sendsFull, next) ==
           /\ full' = IF sendsFull THEN full \cup {f} ELSE full \ {f}
           /\ Settle(f, next, FALSE)
     IN  \/ /\ f \notin ready \/ state = "present"
            /\ Planned(FALSE, "done") /\ NoFault
         \/ /\ f \in ready /\ state = "placeholder"
            /\ Planned(FALSE, "failed") /\ NoFault
         \/ /\ f \in ready /\ state # "placeholder"
            /\ Planned(state = "absent", IF dryRun THEN "advanced" ELSE "sending")
            /\ NoFault
         \/ /\ Planned(FALSE, "failed") /\ Fault
  /\ UNCHANGED <<dryRun, visit, steps, cancelled, ready, target>>

\* ensure_receive_ancestors on the receiver.
WithAncestors(f) ==
  [a \in Filesystems |->
     IF a \in Under[f] /\ target[visit][a] = "absent" THEN "placeholder"
     ELSE target[visit][a]]

\* A receive that ends early may have created the ancestors, or its target.
BrokenOff(f) ==
  \E reached \in {target[visit], WithAncestors(f)} :
    \/ target' = [target EXCEPT ![visit] = reached]
    \/ /\ reached = WithAncestors(f) /\ reached[f] = "absent"
       /\ target' = [target EXCEPT ![visit] = [reached EXCEPT ![f] = "partial"]]

\* The transfer up to the last byte.  Once the token has fired, it cannot get there.
SendStep(f) ==
  /\ fs[f] = "sending"
  /\ LET reached == target' = [target EXCEPT ![visit] = WithAncestors(f)]
     IN  \/ /\ ~cancelled
            /\ f \in full => target[visit][f] = "absent"
            /\ reached /\ SetFs(f, "finalizing") /\ NoFault
            /\ UNCHANGED blocked
         \/ /\ ~cancelled
            /\ f \in full /\ target[visit][f] # "absent"
            /\ reached /\ Settle(f, "failed", TRUE) /\ NoFault
         \/ /\ BrokenOff(f) /\ Settle(f, "failed", f \in full) /\ Fault
         \/ /\ cancelled
            /\ BrokenOff(f) /\ Settle(f, "aborted", f \in full) /\ NoFault
  /\ UNCHANGED <<dryRun, visit, steps, full, cancelled, ready>>

\* Mutation: the step limit is compared before the step is counted.
OneStepTooMany(f) == steps[f] < MaxSteps

\* The bound of replicate_one's loop, once the step of f is counted.
StepsLeft(f) == steps[f] + 1 < MaxSteps

\* The stream is handed over: zfs recv ends, the step commits, and replicate_one
\* plans again unless the cycle is cancelled or the step limit is reached.  The
\* reply of a receive that landed may still be lost.
FinalizeStep(f) ==
  /\ fs[f] = "finalizing"
  /\ LET landed == target' = [target EXCEPT ![visit][f] = "present"]
         again  == ~cancelled /\ StepsLeft(f)
     IN  \/ /\ landed /\ NoFault
            /\ SetFs(f, IF again THEN "planning" ELSE "advanced")
            /\ steps' = [steps EXCEPT ![f] = @ + 1]
            /\ UNCHANGED blocked
         \/ /\ landed \/ BrokenOff(f)
            /\ Settle(f, "failed", f \in full) /\ Fault
            /\ UNCHANGED steps
  /\ UNCHANGED <<dryRun, visit, full, cancelled, ready>>

\* A filesystem gets its first snapshot that the job's filter matches.
FirstSnapshot(f) ==
  /\ f \notin ready
  /\ ready' = ready \cup {f}
  /\ UNCHANGED <<dryRun, visitVars, cancelled, target, faults>>

Replicate(f) == Claim(f) \/ PlanStep(f) \/ SendStep(f) \/ FinalizeStep(f)

VisitOver == visit # NoPeer /\ \A f \in Filesystems : fs[f] \in Ended

\* run_for_peer returns: nothing of the visit outlives it.
ForgetVisit ==
  /\ visit' = NoPeer
  /\ fs' = [f \in Filesystems |-> "idle"]
  /\ steps' = [f \in Filesystems |-> 0]
  /\ full' = {}
  /\ blocked' = {}

\* Mutation: the attempt's status ignores a token that fired between steps.
AttemptStatusOfErrors ==
  IF \E f \in Filesystems : fs[f] = "aborted" THEN "cancelled"
  ELSE IF \E f \in Filesystems : fs[f] \in {"failed", "barred", "unlisted"} THEN "error"
  ELSE IF dryRun THEN "dry_run" ELSE "ok"

\* classify_peer_attempt.
AttemptStatus ==
  IF cancelled \/ \E f \in Filesystems : fs[f] = "aborted" THEN "cancelled"
  ELSE IF \E f \in Filesystems : fs[f] \in {"failed", "barred", "unlisted"} THEN "error"
  ELSE IF dryRun THEN "dry_run" ELSE "ok"

----------------------------------------------------------------------------
VisitType ==
  /\ dryRun \in BOOLEAN
  /\ visit \in Peers \cup {NoPeer}
  /\ fs \in [Filesystems -> FsStates]
  /\ steps \in [Filesystems -> 0..MaxSteps]
  /\ full \subseteq Filesystems
  /\ blocked \subseteq Filesystems
  /\ cancelled \in BOOLEAN
  /\ ready \subseteq Filesystems
  /\ target \in [Peers -> [Filesystems -> TargetStates]]
  /\ faults \in 0..MaxFaults

\* A full stream is never under way to a dataset that exists: zfs recv would refuse
\* it in every cycle to come (run_for_peer, the depth levels).
NoDoomedFull ==
  \A f \in Filesystems :
    fs[f] = "sending" /\ f \in full => target[visit][f] = "absent"

Placeheld(f) == \E p \in Peers :
  target[p][f] # "placeholder" /\ target'[p][f] = "placeholder"

\* A filesystem whose first full send failed in this visit is not turned into a
\* placeholder by its descendants (run_for_peer, blocked).
FailedFullStaysAbsent ==
  [][\A f \in Filesystems : Placeheld(f) => f \notin full]_target

\* "Ancestors finish before any descendant starts", so that a parent that has
\* something to send is never left behind as a placeholder (run_for_peer).
ParentsNeverPlaceholders ==
  [][\A f \in Filesystems : Placeheld(f) => f \notin ready]_target

=============================================================================
