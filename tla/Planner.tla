------------------------------ MODULE Planner ------------------------------
(***************************************************************************)
(* The replication planner of a push job (daemon/src/jobs/push/plan.rs):   *)
(* which zfs send one filesystem needs next, given what the sender has,    *)
(* what the receiver has and the receiver's resume token.  Pure operators, *)
(* one per function of the source.                                         *)
(*                                                                         *)
(* A snapshot is a positive integer.  It stands for its GUID and for its   *)
(* creation transaction group at once: inside one dataset creation         *)
(* transactions grow strictly, so "newer" is ">".  A bookmark carries the  *)
(* GUID and the creation transaction of the snapshot it was made from, so  *)
(* it is the same integer.  NoSnap stands for an absent snapshot.          *)
(***************************************************************************)
EXTENDS Integers, FiniteSets, FiniteSetsExt

NoSnap == 0

Modes == {"latest", "all"}

\* The variants of SnapshotPlan, and the two refusals of PlanError that are
\* decided from the same inputs.
SendKinds == {"full", "incremental", "incremental_all", "bookmark", "resume"}
PlanKinds == SendKinds \cup {"nothing", "diverged", "placeholder"}

\* The kinds that carry a snapshot (not a bookmark) as incremental base.
SnapshotBased == {"incremental", "incremental_all"}

\* What zfs recv -s leaves behind: the snapshot being received and its base.
NoToken == [to |-> NoSnap, from |-> NoSnap]

Plan(kind, from, to, discard) ==
  [kind |-> kind, from |-> from, to |-> to, discard |-> discard]

Nothing == Plan("nothing", NoSnap, NoSnap, FALSE)

\* Mutation: "all" mode starts from the head as well.
FullTargetNewest(S, mode) == Max(S)

(***************************************************************************)
(* pick_plan_with_discard: intersect by GUID.  S is the sender's filtered  *)
(* snapshot list, R the receiver's GUIDs.                                  *)
(***************************************************************************)
FullTarget(S, mode) == IF mode = "all" THEN Min(S) ELSE Max(S)

\* Mutation: "all" mode walks snapshot by snapshot.
PickPlanOneByOne(S, R, discard, mode) ==
  LET from == Max(S \cap R)
      to   == IF mode = "all" THEN Min({s \in S : s > from}) ELSE Max(S)
  IN  IF S = {} THEN Nothing
      ELSE IF S \cap R = {} THEN Plan("full", NoSnap, FullTarget(S, mode), discard)
      ELSE IF from = Max(S) THEN Nothing
      ELSE Plan("incremental", from, to, discard)

PickPlan(S, R, discard, mode) ==
  LET from == Max(S \cap R)
      gap  == {s \in S : from < s /\ s < Max(S)}
      kind == IF mode = "all" /\ gap # {} THEN "incremental_all" ELSE "incremental"
  IN  IF S = {} THEN Nothing
      ELSE IF S \cap R = {} THEN Plan("full", NoSnap, FullTarget(S, mode), discard)
      ELSE IF from = Max(S) THEN Nothing
      ELSE Plan(kind, from, Max(S), discard)

\* Mutation: there is no fallback.
NoBookmarkFallback(plan, S, R, B, mode) == plan

\* Mutation: only a full plan falls back, an incremental one keeps its older base.
FallbackForFullOnly(plan, S, R, B, mode) ==
  LET common == B \cap R
      past   == {s \in S : s > Max(common)}
      to     == IF mode = "latest" THEN plan.to ELSE Min(past)
  IN  IF plan.kind # "full" \/ common = {} THEN plan
      ELSE IF mode = "all" /\ past = {} THEN Nothing
      ELSE Plan("bookmark", Max(common), to, plan.discard)

(***************************************************************************)
(* apply_bookmark_fallback: a bookmark that is a strictly newer common     *)
(* point than the plan's snapshot base replaces it.  A plan without a base *)
(* has from = NoSnap, which is below every bookmark.                       *)
(***************************************************************************)
BookmarkFallback(plan, S, R, B, mode) ==
  LET common == B \cap R
      best   == Max(common)
      past   == {s \in S : s > best}
      to     == IF mode = "latest" THEN plan.to ELSE Min(past)
      newer  == /\ plan.kind \in SnapshotBased \cup {"full"}
                /\ common # {}
                /\ best > plan.from
  IN  IF ~newer THEN plan
      ELSE IF (mode = "all" /\ past = {}) \/ best = to THEN Nothing
      ELSE Plan("bookmark", best, to, plan.discard)

(***************************************************************************)
(* pick_plan_with_token for a token that decoded: resume it only when both *)
(* ends of the interrupted send still exist on the sender, otherwise plan  *)
(* afresh and discard the partial state first.                             *)
(***************************************************************************)
Resumable(token, S, B) ==
  /\ token.to \in S
  /\ token.from = NoSnap \/ token.from \in S \cup B

\* Mutation: a stale partial receive is left in place.
PickPlanKeepPartial(S, R, token, B, mode) ==
  IF Resumable(token, S, B)
  THEN Plan("resume", token.from, token.to, FALSE)
  ELSE PickPlan(S, R, FALSE, mode)

PickPlanWithToken(S, R, token, B, mode) ==
  IF Resumable(token, S, B)
  THEN Plan("resume", token.from, token.to, FALSE)
  ELSE PickPlan(S, R, TRUE, mode)

(***************************************************************************)
(* reject_unreceivable_full: a full stream only applies to a target that   *)
(* does not exist.                                                         *)
(***************************************************************************)
RejectUnreceivableFull(plan, R, exists) ==
  IF plan.kind = "full" /\ (R # {} \/ exists)
  THEN Plan(IF R # {} THEN "diverged" ELSE "placeholder", NoSnap, NoSnap, FALSE)
  ELSE plan

(***************************************************************************)
(* plan_one_filesystem, after its reads.  decodes: zfs send -nvt accepted  *)
(* the token.  resumeB and B are what the two bookmark listings returned:  *)
(* resumeB for the resume validation (empty when that listing failed), B   *)
(* for the fallback, which is skipped when its listing failed.             *)
(***************************************************************************)
PlanOne(S, R, token, exists, decodes, resumeB, B, listed, mode) ==
  LET picked == IF token # NoToken /\ decodes
                THEN PickPlanWithToken(S, R, token, resumeB, mode)
                ELSE PickPlan(S, R, token # NoToken, mode)
      based  == IF listed THEN BookmarkFallback(picked, S, R, B, mode) ELSE picked
  IN  IF S = {} THEN Nothing
      ELSE RejectUnreceivableFull(based, R, exists)

=============================================================================
