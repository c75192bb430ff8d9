------------------------------- MODULE CatchUp -------------------------------
(***************************************************************************)
(* One visit of a push cycle to one filesystem: replicate_one              *)
(* (daemon/src/jobs/push/mod.rs) plans, executes and plans again until the *)
(* receiver holds the sender's head.  Replication follows the steps of the *)
(* protocol through crashes, from an empty start; this module follows the  *)
(* plans, from every situation that two datasets can be in: snapshots that *)
(* the job's filter hides, bookmarks made by other tools or jobs, a        *)
(* receiver that another job has fed, partial receives that are stale.     *)
(*                                                                         *)
(* Simplifications: no transfer fails, because a step that fails ends the  *)
(* visit; the discard RPC and the discard flag of the receive header act   *)
(* at the same instant.                                                    *)
(***************************************************************************)
EXTENDS Planner

CONSTANTS
  MaxSnap,   \* snapshots that exist over the whole behaviour (a bound)
  MaxSteps   \* MAX_STEPS_PER_CYCLE

ASSUME CatchUpAssumption == MaxSnap \in Nat /\ MaxSteps \in Nat \ {0}

VARIABLES
  mode,     \* the job's replicate mode
  S,        \* sender: snapshots that the job's filter matches
  cursor,   \* sender: this job's cursor bookmark, NoSnap when there is none
  foreign,  \* sender: all other bookmarks
  R,        \* receiver: snapshots, unfiltered
  exists,   \* receiver: the target dataset exists
  token,    \* receiver: partial receive
  plan,     \* the plan being executed
  phase,    \* where the visit is
  steps,    \* steps executed in this visit
  raced,    \* ghost: snapshots taken during the visit
  head0     \* ghost: the receiver's newest snapshot when the visit began

situation == <<mode, S, cursor, foreign, R, exists, token>>
vars == <<situation, plan, phase, steps, raced, head0>>

Snap == 1..MaxSnap
Phases == {"choose", "plan", "execute", "done", "limit", "diverged", "placeholder",
           "refused"}

Newest(T) == IF T = {} THEN NoSnap ELSE Max(T)
Bookmarks == foreign \cup ({cursor} \ {NoSnap})

\* The situations of two datasets: a dataset with snapshots or a partial receive
\* exists, a partial receive is an increment on the receiver's newest snapshot, and
\* in "all" mode the stream it comes from skipped no snapshot of the sender.
Consistent ==
  /\ R # {} \/ token # NoToken => exists
  /\ token # NoToken =>
       /\ token.to > Newest(R)
       /\ token.from = Newest(R)
       /\ mode = "all" => \A s \in S : ~(token.from < s /\ s < token.to)

Init ==
  /\ mode = "latest" /\ S = {} /\ cursor = NoSnap /\ foreign = {}
  /\ R = {} /\ exists = FALSE /\ token = NoToken
  /\ plan = Nothing /\ phase = "choose" /\ steps = 0 /\ raced = 0 /\ head0 = NoSnap

\* A visit begins, in any situation.
Begin ==
  /\ phase = "choose"
  /\ phase' = "plan"
  /\ mode' \in Modes
  /\ S' \in SUBSET Snap
  /\ cursor' \in Snap \cup {NoSnap}
  /\ foreign' \in {F \in SUBSET Snap : Cardinality(F) <= 1}
  /\ R' \in SUBSET Snap
  /\ exists' \in BOOLEAN
  /\ token' \in {NoToken} \cup [to : Snap, from : {Newest(R')}]
  /\ Consistent'
  /\ head0' = Newest(R')
  /\ UNCHANGED <<plan, steps, raced>>

\* The snap job takes a snapshot meanwhile.
TakeSnapshot ==
  LET next == Newest(S \cup R \cup Bookmarks \cup ({token.to} \ {NoSnap})) + 1
  IN  /\ phase \in {"plan", "execute"}
      /\ next <= MaxSnap
      /\ S' = S \cup {next}
      /\ raced' = raced + 1
      /\ UNCHANGED <<mode, cursor, foreign, R, exists, token, plan, phase, steps, head0>>

\* plan_one_filesystem, then the discard of a stale partial receive: zfs recv -A
\* takes along a dataset that the partial receive had created.
PlanStep ==
  LET next == PlanOne(S, R, token, exists, TRUE, Bookmarks, Bookmarks, TRUE, mode)
      drop == next.kind \in SendKinds /\ next.discard
  IN  /\ phase = "plan"
      /\ plan' = next
      /\ phase' = IF next.kind \in SendKinds THEN "execute"
                  ELSE IF next.kind = "nothing" THEN "done" ELSE next.kind
      /\ token' = IF drop THEN NoToken ELSE token
      /\ exists' = IF drop /\ R = {} THEN FALSE ELSE exists
      /\ UNCHANGED <<mode, S, cursor, foreign, R, steps, raced, head0>>

\* What zfs send and zfs recv accept.
Sendable ==
  /\ plan.to \in S
  /\ plan.from < plan.to
  /\ plan.kind \in SnapshotBased => plan.from \in S
  /\ plan.kind = "bookmark" => plan.from \in Bookmarks
Applicable ==
  IF plan.kind = "full" THEN ~exists
  ELSE IF plan.kind = "resume" THEN token = [to |-> plan.to, from |-> plan.from]
  ELSE token = NoToken /\ plan.from = Newest(R)

Carried ==
  IF plan.kind = "incremental_all"
  THEN {s \in S : plan.from < s /\ s <= plan.to}
  ELSE {plan.to}

\* Mutation: the loop has no step limit.
ExecuteWithoutLimit ==
  /\ phase = "execute"
  /\ Sendable /\ Applicable
  /\ R' = R \cup Carried
  /\ exists' = TRUE
  /\ token' = NoToken
  /\ cursor' = plan.to
  /\ steps' = steps + 1
  /\ phase' = "plan"
  /\ UNCHANGED <<mode, S, foreign, plan, raced, head0>>

\* run_one_filesystem: the stream lands and the cursor moves, or the step fails and
\* ends the visit; the loop stops at the step limit.
ExecuteStep ==
  /\ phase = "execute"
  /\ \/ /\ Sendable /\ Applicable
        /\ R' = R \cup Carried
        /\ exists' = TRUE
        /\ token' = NoToken
        /\ cursor' = plan.to
        /\ steps' = steps + 1
        /\ phase' = IF steps + 1 >= MaxSteps THEN "limit" ELSE "plan"
     \/ /\ ~(Sendable /\ Applicable)
        /\ phase' = "refused"
        /\ UNCHANGED <<R, exists, token, cursor, steps>>
  /\ UNCHANGED <<mode, S, foreign, plan, raced, head0>>

Next == Begin \/ TakeSnapshot \/ PlanStep \/ ExecuteStep

Spec == Init /\ [][Next]_vars

----------------------------------------------------------------------------
\* Type correctness.
TypeOK ==
  /\ mode \in Modes /\ phase \in Phases
  /\ S \subseteq Snap /\ R \subseteq Snap /\ foreign \subseteq Snap
  /\ cursor \in 0..MaxSnap /\ head0 \in 0..MaxSnap
  /\ exists \in BOOLEAN
  /\ token \in [to : 0..MaxSnap, from : 0..MaxSnap]
  /\ plan.kind \in PlanKinds /\ plan.to \in 0..MaxSnap /\ plan.from \in 0..MaxSnap
  /\ steps \in 0..MaxSteps /\ raced \in 0..MaxSnap

\* While the sender still owns the receiver's newest snapshot, or a bookmark of it,
\* no plan is refused by zfs send or zfs recv, whatever older snapshots, stale
\* tokens and foreign bookmarks there are (plan.rs, apply_bookmark_fallback: an
\* older common snapshot is an unreceivable base).  The one exception: in "latest"
\* mode the sender's head may be older than the receiver's, and the fallback, which
\* asks only in "all" mode whether anything is left past the bookmark, still plans
\* an increment back to it.
Anchored == Newest(R) \in {NoSnap} \cup S \cup Bookmarks
BackToHead == mode = "latest" /\ plan.kind = "bookmark" /\ plan.to < plan.from
AnchoredPlanApplies ==
  phase = "execute" /\ Anchored /\ ~BackToHead => Sendable /\ Applicable

\* What a visit reports at its end is true.  When there was nothing to do, nothing is
\* left to do: the receiver is at or past the sender's head, and in "all" mode it has
\* every snapshot of the sender past the one it started from (plan.rs, ReplicateMode::All
\* "so the history that follows can be carried over too").  "diverged" means that both
\* sides share nothing, so no increment exists that the planner overlooked
\* (PlanError::Diverged).
EndsTruthfully ==
  /\ phase = "done" => /\ Newest(S) <= Newest(R)
                       /\ mode = "all" => \A s \in S : s > head0 => s \in R
  /\ phase = "diverged" => R \cap (S \cup Bookmarks) = {}

\* Two steps catch up with everything that existed when the visit began; only a
\* snap job that races ahead can bring the step limit near (replicate_one,
\* MAX_STEPS_PER_CYCLE).
StepsFollowTheRace == steps <= 2 + raced

=============================================================================
