---------------------------- MODULE PlannerProofs ----------------------------
(***************************************************************************)
(* What the planner returns, for every pair of histories: facts that the   *)
(* proofs about Replication rest on, and one that stands on its own, that  *)
(* a plan always starts from the receiver's newest snapshot when the       *)
(* sender still has it.                                                    *)
(***************************************************************************)
EXTENDS Planner, WellFoundedInduction, TLAPS

\* A nonempty set of snapshots has a newest and an oldest member, which is what
\* Max and Min (each a CHOOSE) return.
LessThan == {ss \in Nat \X Nat : ss[1] < ss[2]}

LEMMA LessThanWellFounded == IsWellFoundedOn(LessThan, Nat)
BY NatLessThanWellFounded DEF LessThan, OpToRel

LEMMA LeastExists ==
  ASSUME NEW T, T \subseteq Nat, T # {}
  PROVE  \E x \in T : \A y \in T : x <= y
<1>1. PICK x \in T : \A y \in T : ~(<<y, x>> \in LessThan)
  BY LessThanWellFounded, WFMin
<1>2. \A y \in T : ~(y < x)
  BY <1>1 DEF LessThan
<1>3. \A y \in T : x <= y
  BY <1>2
<1> QED BY <1>3

LEMMA MaxIsNewest ==
  ASSUME NEW N \in Nat, NEW S \in SUBSET (1..N), S # {}
  PROVE  Max(S) \in S /\ \A s \in S : s <= Max(S)
<1> DEFINE T == {N - s : s \in S}
<1>1. T \subseteq Nat
  OBVIOUS
<1>2. T # {}
  OBVIOUS
<1>3. \E t \in T : \A u \in T : t <= u
  <2> HIDE DEF T
  <2> QED BY <1>1, <1>2, LeastExists
<1>4. \E m \in S : \A s \in S : m >= s
  <2>1. PICK t \in T : \A u \in T : t <= u
    BY <1>3
  <2>2. PICK m \in S : t = N - m
    BY <2>1
  <2>3. \A s \in S : N - m <= N - s
    BY <2>1, <2>2
  <2> HIDE DEF T
  <2>4. \A s \in S : s \in Int
    OBVIOUS
  <2> QED BY <2>3, <2>4
<1>5. Max(S) \in S /\ \A s \in S : Max(S) >= s
  BY <1>4 DEF Max
<1> QED BY <1>5

LEMMA MinIsOldest ==
  ASSUME NEW N \in Nat, NEW S \in SUBSET (1..N), S # {}
  PROVE  Min(S) \in S /\ \A s \in S : Min(S) <= s
<1>1. S \subseteq Nat
  OBVIOUS
<1>2. \E m \in S : \A s \in S : m <= s
  BY <1>1, LeastExists
<1> QED BY <1>2 DEF Min

----------------------------------------------------------------------------
\* A plan that the planner may return for the sender's list S, the receiver's R
\* and bookmarks B in the given mode, as far as the steps that execute it care.
WellFormed(plan, S, R, B, token, mode) ==
  /\ plan = Plan(plan.kind, plan.from, plan.to, plan.discard)
  /\ plan.kind \in PlanKinds
  /\ plan.discard \in BOOLEAN
  /\ plan.kind \in SendKinds => plan.to \in S
  /\ plan.kind \notin SendKinds => plan.to = NoSnap
  /\ plan.kind \in SnapshotBased => plan.from \in S \cap R
  /\ plan.kind = "bookmark" => plan.from \in B \cap R
  /\ plan.kind = "resume" => token # NoToken /\ plan.from = token.from
  /\ plan.kind \notin SnapshotBased \cup {"bookmark", "resume"} => plan.from = NoSnap
  /\ mode = "latest" => plan.kind # "incremental_all"

\* The base is h whenever h is among the sender's snapshots.
BasedOn(plan, h, S) ==
  h \in S => \/ plan.kind \notin SendKinds
             \/ plan.kind = "resume"
             \/ plan.kind \in SnapshotBased /\ plan.from = h

LEMMA PickPlanWellFormed ==
  ASSUME NEW N \in Nat, NEW S \in SUBSET (1..N), NEW R \in SUBSET (1..N),
         NEW B, NEW token, NEW discard \in BOOLEAN, NEW mode \in Modes
  PROVE  LET plan == PickPlan(S, R, discard, mode)
         IN  /\ WellFormed(plan, S, R, B, token, mode)
             /\ plan.kind \in {"nothing", "full", "incremental", "incremental_all"}
             /\ \A h \in R : (\A s \in R : s <= h) => BasedOn(plan, h, S)
<1> DEFINE plan == PickPlan(S, R, discard, mode)
<1> SUFFICES /\ WellFormed(plan, S, R, B, token, mode)
             /\ plan.kind \in {"nothing", "full", "incremental", "incremental_all"}
             /\ \A h \in R : (\A s \in R : s <= h) => BasedOn(plan, h, S)
  OBVIOUS
<1> USE DEF WellFormed, Plan, Nothing, PlanKinds, SendKinds, SnapshotBased, BasedOn
<1>0. S \subseteq Int /\ R \subseteq Int
  OBVIOUS
<1>1. CASE S = {}
  BY <1>1 DEF PickPlan
<1>2. CASE S # {} /\ S \cap R = {}
  <2>1. plan = Plan("full", NoSnap, FullTarget(S, mode), discard)
    BY <1>2 DEF PickPlan
  <2>2. FullTarget(S, mode) \in S
    BY <1>2, MaxIsNewest, MinIsOldest DEF FullTarget
  <2> QED BY <1>2, <2>1, <2>2
<1>3. CASE S \cap R # {} /\ Max(S \cap R) = Max(S)
  <2>1. plan = Nothing
    BY <1>3 DEF PickPlan
  <2> QED BY <2>1
<1>4. CASE S \cap R # {} /\ Max(S \cap R) # Max(S)
  <2> DEFINE kind == IF mode = "all" /\ {s \in S : Max(S \cap R) < s /\ s < Max(S)} # {}
                     THEN "incremental_all" ELSE "incremental"
  <2>1. plan = Plan(kind, Max(S \cap R), Max(S), discard)
    BY <1>4 DEF PickPlan
  <2>2. Max(S \cap R) \in S \cap R /\ \A s \in S \cap R : s <= Max(S \cap R)
    BY <1>4, MaxIsNewest
  <2>3. Max(S) \in S
    BY <1>4, MaxIsNewest
  <2>4. kind \in SnapshotBased /\ (mode = "latest" => kind # "incremental_all")
    OBVIOUS
  <2>5. ASSUME NEW h \in R, \A s \in R : s <= h, h \in S
        PROVE  h = Max(S \cap R)
    <3>1. Max(S \cap R) <= h /\ h <= Max(S \cap R)
      BY <2>2, <2>5
    <3>2. Max(S \cap R) \in Int /\ h \in Int
      BY <1>0, <2>2
    <3> QED BY <3>1, <3>2
  <2> HIDE DEF kind
  <2> QED BY <2>1, <2>2, <2>3, <2>4, <2>5
<1> QED BY <1>1, <1>2, <1>3, <1>4

\* "resume" survives the fallback untouched, and a bookmark only replaces a base
\* that is older than it.
LEMMA FallbackWellFormed ==
  ASSUME NEW N \in Nat, NEW S \in SUBSET (1..N), NEW R \in SUBSET (1..N),
         NEW B \in SUBSET (1..N), NEW token, NEW mode \in Modes, NEW plan,
         WellFormed(plan, S, R, B, token, mode),
         plan.kind \in PlanKinds \ {"bookmark", "diverged", "placeholder"}
  PROVE  LET based == BookmarkFallback(plan, S, R, B, mode)
         IN  /\ WellFormed(based, S, R, B, token, mode)
             /\ based.kind \in PlanKinds \ {"diverged", "placeholder"}
             /\ \A h \in R : (\A s \in R : s <= h) /\ BasedOn(plan, h, S)
                             => BasedOn(based, h, S)
<1> DEFINE based  == BookmarkFallback(plan, S, R, B, mode)
           common == B \cap R
           best   == Max(common)
           past   == {s \in S : s > best}
           to     == IF mode = "latest" THEN plan.to ELSE Min(past)
           newer  == /\ plan.kind \in SnapshotBased \cup {"full"}
                     /\ common # {}
                     /\ best > plan.from
<1> SUFFICES /\ WellFormed(based, S, R, B, token, mode)
             /\ based.kind \in PlanKinds \ {"diverged", "placeholder"}
             /\ \A h \in R : (\A s \in R : s <= h) /\ BasedOn(plan, h, S)
                             => BasedOn(based, h, S)
  OBVIOUS
<1>0. S \subseteq Int /\ R \subseteq Int
  OBVIOUS
<1>1. CASE ~newer
  <2>1. based = plan
    BY <1>1 DEF BookmarkFallback
  <2> QED BY <2>1
<1>2. CASE newer /\ ((mode = "all" /\ past = {}) \/ best = to)
  <2>1. based = Nothing
    BY <1>2 DEF BookmarkFallback
  <2> QED
    BY <2>1 DEF WellFormed, BasedOn, Nothing, Plan, PlanKinds, SendKinds, SnapshotBased
<1>3. CASE newer /\ ~((mode = "all" /\ past = {}) \/ best = to)
  <2>1. based = Plan("bookmark", best, to, plan.discard)
    BY <1>3 DEF BookmarkFallback
  <2>2. best \in B \cap R
    BY <1>3, MaxIsNewest
  <2>3. to \in S
    <3>1. CASE mode = "latest"
      BY <1>3, <3>1 DEF WellFormed, SendKinds, SnapshotBased
    <3>2. CASE mode = "all"
      <4>1. past # {} /\ past \in SUBSET (1..N)
        BY <1>3, <3>2
      <4>2. Min(past) \in past
        <5> HIDE DEF past
        <5> QED BY <4>1, MinIsOldest
      <4> QED BY <3>2, <4>2
    <3> QED BY <3>1, <3>2 DEF Modes
  <2>4. WellFormed(based, S, R, B, token, mode)
    <3> HIDE DEF based, best, to
    <3> QED BY <2>1, <2>2, <2>3
        DEF WellFormed, Plan, PlanKinds, SendKinds, SnapshotBased
  <2>5. ASSUME NEW h \in R, \A s \in R : s <= h, BasedOn(plan, h, S)
        PROVE  h \notin S
    <3>1. SUFFICES ASSUME h \in S PROVE FALSE
      OBVIOUS
    <3>2. plan.from = h
      BY <1>3, <2>5, <3>1 DEF BasedOn, SendKinds, SnapshotBased
    <3>3. best > h /\ best <= h
      BY <1>3, <2>2, <2>5, <3>2
    <3>4. best \in Int /\ h \in Int
      BY <1>0, <2>2
    <3> HIDE DEF best
    <3> QED BY <3>3, <3>4
  <2>6. based.kind = "bookmark"
    BY <2>1 DEF Plan
  <2> QED BY <2>4, <2>5, <2>6 DEF BasedOn, PlanKinds, SendKinds
<1> QED BY <1>1, <1>2, <1>3

LEMMA TokenPlanWellFormed ==
  ASSUME NEW N \in Nat, NEW S \in SUBSET (1..N), NEW R \in SUBSET (1..N),
         NEW B, NEW resumeB, NEW token, token # NoToken, NEW mode \in Modes
  PROVE  LET plan == PickPlanWithToken(S, R, token, resumeB, mode)
         IN  /\ WellFormed(plan, S, R, B, token, mode)
             /\ plan.kind \in PlanKinds \ {"bookmark", "diverged", "placeholder"}
             /\ \A h \in R : (\A s \in R : s <= h) => BasedOn(plan, h, S)
<1> DEFINE plan == PickPlanWithToken(S, R, token, resumeB, mode)
<1> SUFFICES /\ WellFormed(plan, S, R, B, token, mode)
             /\ plan.kind \in PlanKinds \ {"bookmark", "diverged", "placeholder"}
             /\ \A h \in R : (\A s \in R : s <= h) => BasedOn(plan, h, S)
  OBVIOUS
<1>1. CASE Resumable(token, S, resumeB)
  <2>1. plan = Plan("resume", token.from, token.to, FALSE)
    BY <1>1 DEF PickPlanWithToken
  <2>2. token.to \in S
    BY <1>1 DEF Resumable
  <2> QED
    BY <2>1, <2>2 DEF WellFormed, BasedOn, Plan, PlanKinds, SendKinds, SnapshotBased
<1>2. CASE ~Resumable(token, S, resumeB)
  <2>1. plan = PickPlan(S, R, TRUE, mode)
    BY <1>2 DEF PickPlanWithToken
  <2>2. TRUE \in BOOLEAN
    OBVIOUS
  <2> HIDE DEF plan
  <2> QED BY <2>1, <2>2, PickPlanWellFormed, ZenonT(60) DEF PlanKinds, SendKinds
<1> QED BY <1>1, <1>2

\* Every plan names a live snapshot of the sender's list as its target and a base
\* both sides know; a full send goes to an absent target only; and whenever the
\* sender still lists the receiver's newest snapshot, an incremental plan starts
\* exactly there (plan_one_filesystem and everything it calls, plan.rs).
THEOREM PlanOneWellFormed ==
  ASSUME NEW N \in Nat, NEW S \in SUBSET (1..N), NEW R \in SUBSET (1..N),
         NEW B \in SUBSET (1..N), NEW resumeB, NEW token, NEW exists \in BOOLEAN,
         NEW decodes \in BOOLEAN, NEW listed \in BOOLEAN, NEW mode \in Modes
  PROVE  LET plan == PlanOne(S, R, token, exists, decodes, resumeB, B, listed, mode)
         IN  /\ WellFormed(plan, S, R, B, token, mode)
             /\ plan.kind = "full" => R = {} /\ ~exists
             /\ \A h \in R : (\A s \in R : s <= h) => BasedOn(plan, h, S)
<1> DEFINE picked == IF token # NoToken /\ decodes
                     THEN PickPlanWithToken(S, R, token, resumeB, mode)
                     ELSE PickPlan(S, R, token # NoToken, mode)
           based  == IF listed THEN BookmarkFallback(picked, S, R, B, mode) ELSE picked
           plan   == PlanOne(S, R, token, exists, decodes, resumeB, B, listed, mode)
<1> SUFFICES /\ WellFormed(plan, S, R, B, token, mode)
             /\ plan.kind = "full" => R = {} /\ ~exists
             /\ \A h \in R : (\A s \in R : s <= h) => BasedOn(plan, h, S)
  OBVIOUS
<1>1. /\ WellFormed(picked, S, R, B, token, mode)
      /\ picked.kind \in PlanKinds \ {"bookmark", "diverged", "placeholder"}
      /\ \A h \in R : (\A s \in R : s <= h) => BasedOn(picked, h, S)
  <2>1. CASE token # NoToken /\ decodes
    BY <2>1, TokenPlanWellFormed
  <2>2. CASE ~(token # NoToken /\ decodes)
    <3>1. picked = PickPlan(S, R, token # NoToken, mode)
      BY <2>2
    <3>2. (token # NoToken) \in BOOLEAN
      OBVIOUS
    <3> HIDE DEF picked
    <3> QED BY <3>1, <3>2, PickPlanWellFormed, ZenonT(60) DEF PlanKinds, SendKinds
  <2> QED BY <2>1, <2>2
<1>2. /\ WellFormed(based, S, R, B, token, mode)
      /\ based.kind \in PlanKinds \ {"diverged", "placeholder"}
      /\ \A h \in R : (\A s \in R : s <= h) => BasedOn(based, h, S)
  <2> HIDE DEF picked
  <2>1. CASE listed
    BY <1>1, <2>1, FallbackWellFormed
  <2>2. CASE ~listed
    BY <1>1, <2>2
  <2> QED BY <2>1, <2>2
<1> HIDE DEF based
<1>3. CASE S = {}
  <2>1. plan = Nothing
    BY <1>3 DEF PlanOne
  <2> HIDE DEF plan
  <2> QED
    BY <2>1 DEF WellFormed, BasedOn, Nothing, Plan, PlanKinds, SendKinds, SnapshotBased
<1>4. CASE S # {} /\ based.kind = "full" /\ (R # {} \/ exists)
  <2>1. plan = Plan(IF R # {} THEN "diverged" ELSE "placeholder", NoSnap, NoSnap, FALSE)
    BY <1>4 DEF PlanOne, RejectUnreceivableFull, based
  <2> HIDE DEF plan
  <2> QED
    BY <2>1 DEF WellFormed, BasedOn, Plan, PlanKinds, SendKinds, SnapshotBased
<1>5. CASE S # {} /\ ~(based.kind = "full" /\ (R # {} \/ exists))
  <2>1. plan = based
    BY <1>5 DEF PlanOne, RejectUnreceivableFull, based
  <2> HIDE DEF plan
  <2> QED BY <1>2, <1>5, <2>1
<1> QED BY <1>3, <1>4, <1>5

=============================================================================
