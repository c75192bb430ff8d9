---------------------------- MODULE CatchUpProofs ----------------------------
(***************************************************************************)
(* One visit to one filesystem, from any situation of the two datasets:    *)
(* its plans apply, its verdict is true, and it takes two steps unless     *)
(* snapshots are taken meanwhile; for histories of any length.             *)
(***************************************************************************)
EXTENDS CatchUp, PlannerProofs, FiniteSetTheorems

(***************************************************************************)
(* What the planner returns when it does not resume, for snapshots L of    *)
(* the sender, H of the receiver and bookmarks B.                          *)
(***************************************************************************)
FreshPlan(p, L, H, B, drop, ex, m) ==
  /\ p.kind \in PlanKinds \ {"resume"}
  /\ p.kind = "nothing" => L = {} \/ \E h \in H : \A s \in L : s <= h
  /\ p.kind = "diverged" => H \cap (L \cup B) = {}
  /\ p.kind = "full" => H = {} /\ ~ex /\ p.from = NoSnap
  /\ p.kind \in SnapshotBased => p.from \in L /\ p.from < p.to
  /\ p.kind = "bookmark" => p.from \in B \ L /\ (m = "all" => p.from < p.to)
  /\ p.kind \in SnapshotBased \cup {"bookmark"} =>
       p.from \in H /\ \A h \in H \cap (L \cup B) : h <= p.from
  /\ p.kind \in SendKinds =>
       /\ p.to \in L /\ p.discard = drop
       /\ m = "latest" \/ p.kind \in SnapshotBased => \A s \in L : s <= p.to
       /\ m = "all" /\ p.kind # "incremental_all" => \A s \in L : ~(p.from < s /\ s < p.to)

\* Before the fallback: without bookmarks, and a full plan whatever the receiver has.
FreshPick(p, L, H, drop, ex, m) ==
  /\ p.kind # "full" => FreshPlan(p, L, H, {}, drop, ex, m)
  /\ p.kind = "full" => /\ L \cap H = {} /\ p = Plan("full", NoSnap, p.to, drop)
                        /\ FreshPlan(p, L, {}, {}, drop, FALSE, m)

LEMMA PickPlanIsFresh ==
  ASSUME NEW N \in Nat, NEW L \in SUBSET (1..N), NEW H \in SUBSET (1..N),
         NEW drop \in BOOLEAN, NEW m \in Modes, NEW ex
  PROVE  FreshPick(PickPlan(L, H, drop, m), L, H, drop, ex, m)
<1> DEFINE p == PickPlan(L, H, drop, m)
           from == Max(L \cap H)
           last == Max(L)
           gap == {s \in L : from < s /\ s < last}
           kind == IF m = "all" /\ gap # {} THEN "incremental_all" ELSE "incremental"
<1> SUFFICES /\ p.kind # "full" => FreshPlan(p, L, H, {}, drop, ex, m)
             /\ p.kind = "full" => /\ L \cap H = {} /\ p = Plan("full", NoSnap, p.to, drop)
                                   /\ FreshPlan(p, L, {}, {}, drop, FALSE, m)
  BY DEF FreshPick
<1> USE DEF PlanKinds, SendKinds, SnapshotBased, NoSnap
<1>0. L \subseteq Int /\ H \subseteq Int
  OBVIOUS
<1>1. CASE L = {}
  <2>1. p = Plan("nothing", 0, 0, FALSE)
    BY <1>1 DEF PickPlan, Nothing
  <2> HIDE DEF p
  <2> QED BY <1>1, <2>1 DEF FreshPlan, Plan
<1>2. CASE L # {} /\ L \cap H = {}
  <2> DEFINE to == FullTarget(L, m)
  <2>1. p = Plan("full", 0, to, drop)
    BY <1>2 DEF PickPlan
  <2>2. /\ to \in L
        /\ m = "latest" => \A s \in L : s <= to
        /\ m = "all" => \A s \in L : ~(s < to)
    <3>1. CASE m = "latest"
      BY <1>2, <3>1, MaxIsNewest DEF FullTarget
    <3>2. CASE m = "all"
      <4>1. to = Min(L)
        BY <3>2 DEF FullTarget
      <4>2. Min(L) \in L /\ \A s \in L : Min(L) <= s
        BY <1>2, MinIsOldest
      <4>3. to \in L /\ \A s \in L : to <= s
        BY <4>1, <4>2
      <4> HIDE DEF to
      <4>4. \A s \in L : ~(s < to)
        BY <1>0, <4>3
      <4> QED BY <3>2, <4>3, <4>4
    <3> QED BY <3>1, <3>2 DEF Modes
  <2> HIDE DEF p, to
  <2> QED BY <1>2, <2>1, <2>2 DEF FreshPlan, Plan, Modes
<1>3. CASE L \cap H # {}
  <2>1. /\ from \in L \cap H /\ \A s \in L \cap H : s <= from
        /\ last \in L /\ \A s \in L : s <= last
    BY <1>3, MaxIsNewest
  <2>2. p = IF from = last THEN Nothing ELSE Plan(kind, from, last, drop)
    BY <1>3 DEF PickPlan
  <2>3. /\ kind \in SnapshotBased
        /\ m = "all" /\ kind # "incremental_all" => \A s \in L : ~(from < s /\ s < last)
    OBVIOUS
  <2> HIDE DEF p, kind, from, last
  <2>4. CASE from = last
    <3>1. p = Plan("nothing", 0, 0, FALSE)
      BY <2>2, <2>4 DEF Nothing
    <3> QED BY <2>1, <2>4, <3>1 DEF FreshPlan, Plan
  <2>5. CASE from # last
    <3>1. p = Plan(kind, from, last, drop) /\ from < last
      BY <1>0, <2>1, <2>2, <2>5
    <3> QED BY <1>0, <2>1, <2>3, <3>1 DEF FreshPlan, Plan
  <2> QED BY <2>4, <2>5
<1> QED BY <1>1, <1>2, <1>3

LEMMA FallbackIsFresh ==
  ASSUME NEW N \in Nat, NEW L \in SUBSET (1..N), NEW H \in SUBSET (1..N),
         NEW B \in SUBSET (1..N), NEW drop \in BOOLEAN, NEW m \in Modes, NEW ex \in BOOLEAN
  PROVE  FreshPlan(RejectUnreceivableFull(
                     BookmarkFallback(PickPlan(L, H, drop, m), L, H, B, m), H, ex),
                   L, H, B, drop, ex, m)
<1> DEFINE picked == PickPlan(L, H, drop, m)
           common == B \cap H
           best == Max(common)
           past == {s \in L : s > best}
           to == IF m = "latest" THEN picked.to ELSE Min(past)
           newer == /\ picked.kind \in SnapshotBased \cup {"full"}
                    /\ common # {} /\ best > picked.from
           based == BookmarkFallback(picked, L, H, B, m)
           p == RejectUnreceivableFull(based, H, ex)
<1> SUFFICES FreshPlan(p, L, H, B, drop, ex, m)
  OBVIOUS
<1>0. L \subseteq Int /\ H \subseteq Int /\ B \subseteq Int
  OBVIOUS
<1>1. /\ picked.kind # "full" => FreshPlan(picked, L, H, {}, drop, ex, m)
      /\ picked.kind = "full" => /\ L \cap H = {} /\ picked = Plan("full", NoSnap, picked.to, drop)
                                 /\ FreshPlan(picked, L, {}, {}, drop, FALSE, m)
  <2>1. FreshPick(picked, L, H, drop, ex, m)
    BY PickPlanIsFresh
  <2> HIDE DEF picked
  <2> QED BY <2>1 DEF FreshPick
<1>2. common # {} => best \in B \cap H /\ \A b \in B \cap H : b <= best
  <2>1. common \in SUBSET (1..N)
    OBVIOUS
  <2> QED BY <2>1, MaxIsNewest
<1>3. picked.kind \in {"nothing", "full", "incremental", "incremental_all"}
  BY PickPlanWellFormed
<1>4. CASE ~newer
  <2>1. based = picked
    BY <1>4 DEF BookmarkFallback
  <2>2. common # {} /\ picked.kind \in SnapshotBased \cup {"full"} =>
          \A b \in B \cap H : b <= picked.from
    <3> SUFFICES ASSUME common # {}, picked.kind \in SnapshotBased \cup {"full"}
                 PROVE  \A b \in B \cap H : b <= picked.from
      OBVIOUS
    <3>1. picked.from \in Int
      <4>1. CASE picked.kind = "full"
        BY <1>1, <4>1 DEF FreshPlan, NoSnap
      <4>2. CASE picked.kind \in SnapshotBased
        BY <1>0, <1>1, <4>2 DEF FreshPlan, SnapshotBased
      <4> QED BY <4>1, <4>2
    <3>2. ~(best > picked.from) /\ best \in B /\ \A b \in B \cap H : b <= best
      BY <1>2, <1>4
    <3> HIDE DEF best, picked
    <3> QED BY <1>0, <3>1, <3>2
  <2>3. CASE picked.kind = "full"
    <3>1. picked.from = 0 /\ common = {}
      <4>1. picked.from = 0
        BY <1>1, <2>3 DEF FreshPlan, NoSnap
      <4>2. \A b \in B \cap H : b >= 1
        OBVIOUS
      <4> QED BY <1>0, <2>2, <2>3, <4>1, <4>2
    <3>2. CASE H # {} \/ ex
      <4>1. p = Plan(IF H # {} THEN "diverged" ELSE "placeholder", NoSnap, NoSnap, FALSE)
        BY <2>1, <2>3, <3>2 DEF RejectUnreceivableFull
      <4>2. H \cap (L \cup B) = {}
        BY <1>1, <2>3, <3>1
      <4> HIDE DEF p
      <4> QED BY <4>1, <4>2 DEF FreshPlan, Plan, PlanKinds, SendKinds, SnapshotBased
    <3>3. CASE H = {} /\ ~ex
      <4>1. p = picked
        BY <2>1, <3>3 DEF RejectUnreceivableFull
      <4> HIDE DEF p, picked
      <4> QED BY <1>1, <2>3, <3>3, <4>1 DEF FreshPlan, SnapshotBased
    <3> QED BY <3>2, <3>3
  <2>4. CASE picked.kind # "full"
    <3>1. p = picked
      BY <2>1, <2>4 DEF RejectUnreceivableFull
    <3>2. common = {} => B \cap H = {}
      OBVIOUS
    <3> HIDE DEF p, picked, common
    <3> QED BY <1>1, <1>3, <2>2, <2>4, <3>1, <3>2 DEF FreshPlan, SnapshotBased
  <2> QED BY <2>3, <2>4
<1>5. CASE newer /\ ((m = "all" /\ past = {}) \/ best = to)
  <2>1. based = Nothing
    BY <1>5 DEF BookmarkFallback
  <2>2. p = Plan("nothing", 0, 0, FALSE)
    <3> HIDE DEF based
    <3> QED BY <2>1 DEF RejectUnreceivableFull, Nothing, Plan, NoSnap
  <2>3. \A s \in L : s <= best
    <3>1. CASE m = "all" /\ past = {}
      <4>1. \A s \in L : ~(s > best)
        BY <3>1
      <4>2. best \in Int
        BY <1>0, <1>2, <1>5
      <4> HIDE DEF best
      <4> QED BY <1>0, <4>1, <4>2
    <3>2. CASE m = "latest" /\ best = to
      <4>1. to = picked.to
        BY <3>2
      <4>2. \A s \in L : s <= picked.to
        BY <1>1, <1>5, <3>2 DEF FreshPlan, SnapshotBased, SendKinds
      <4> HIDE DEF to, picked, best
      <4> QED BY <3>2, <4>1, <4>2
    <3>3. CASE m = "all" /\ past # {} /\ best = to
      <4>1. past \in SUBSET (1..N) /\ to = Min(past)
        BY <3>3 DEF Modes
      <4>2. Min(past) \in past
        BY <3>3, <4>1, MinIsOldest
      <4>3. best \in Int
        BY <1>0, <1>2, <1>5
      <4> QED BY <3>3, <4>1, <4>2, <4>3
    <3> QED BY <1>5, <3>1, <3>2, <3>3 DEF Modes
  <2>4. best \in H
    BY <1>2, <1>5
  <2> HIDE DEF p, best
  <2> QED BY <2>2, <2>3, <2>4 DEF FreshPlan, Plan, PlanKinds, SendKinds, SnapshotBased
<1>6. CASE newer /\ ~((m = "all" /\ past = {}) \/ best = to)
  <2>1. based = Plan("bookmark", best, to, picked.discard)
    BY <1>6 DEF BookmarkFallback
  <2>2. p = Plan("bookmark", best, to, picked.discard)
    <3> HIDE DEF based
    <3> QED BY <2>1 DEF RejectUnreceivableFull, Plan
  <2>3. best \in B \cap H /\ (\A b \in B \cap H : b <= best) /\ picked.from < best
    <3>1. picked.from \in Int
      <4>1. CASE picked.kind = "full"
        BY <1>1, <4>1 DEF FreshPlan, NoSnap
      <4>2. CASE picked.kind \in SnapshotBased
        BY <1>0, <1>1, <4>2 DEF FreshPlan, SnapshotBased
      <4> QED BY <1>6, <4>1, <4>2
    <3> HIDE DEF best, picked
    <3> QED BY <1>0, <1>2, <1>6, <3>1
  <2>4. picked.to \in L /\ picked.discard = drop /\ (m = "latest" => \A s \in L : s <= picked.to)
    <3>1. CASE picked.kind = "full"
      BY <1>1, <3>1 DEF FreshPlan, SendKinds
    <3>2. CASE picked.kind \in SnapshotBased
      BY <1>1, <3>2 DEF FreshPlan, SendKinds, SnapshotBased
    <3> QED BY <1>6, <3>1, <3>2
  <2>5. \A s \in L \cap H : s < best
    <3>1. CASE picked.kind = "full"
      BY <1>1, <3>1
    <3>2. CASE picked.kind \in SnapshotBased
      <4>1. picked.from \in L /\ \A h \in H \cap L : h <= picked.from
        BY <1>1, <3>2 DEF FreshPlan, SnapshotBased
      <4> HIDE DEF best, picked
      <4>2. ASSUME NEW s \in L \cap H PROVE s < best
        <5>1. s <= picked.from /\ picked.from < best
          BY <2>3, <4>1
        <5>2. s \in Int /\ picked.from \in Int /\ best \in Int
          BY <1>0, <2>3, <4>1
        <5> QED BY <5>1, <5>2
      <4> QED BY <4>2
    <3> QED BY <1>6, <3>1, <3>2
  <2>6. /\ to \in L /\ (m = "latest" => \A s \in L : s <= to)
        /\ m = "all" => best < to /\ \A s \in L : ~(best < s /\ s < to)
    <3>1. CASE m = "latest"
      <4>1. to = picked.to
        BY <3>1
      <4> HIDE DEF to, picked
      <4> QED BY <2>4, <3>1, <4>1
    <3>2. CASE m = "all"
      <4>1. past \in SUBSET (1..N) /\ to = Min(past) /\ past # {}
        BY <1>6, <3>2
      <4>2. Min(past) \in past /\ \A s \in past : Min(past) <= s
        BY <4>1, MinIsOldest
      <4>3. best \in Int
        BY <1>0, <2>3
      <4>4. to \in L /\ to > best /\ \A s \in L : s > best => to <= s
        BY <4>1, <4>2
      <4> HIDE DEF to, best
      <4> QED BY <1>0, <3>2, <4>3, <4>4
    <3> QED BY <3>1, <3>2 DEF Modes
  <2> HIDE DEF p, best, to, picked
  <2>7. \A h \in H \cap (L \cup B) : h <= best
    BY <1>0, <2>3, <2>5
  <2>8. best \notin L
    BY <1>0, <2>3, <2>5
  <2>9. /\ p.kind = "bookmark" /\ p.from = best /\ p.to = to /\ p.discard = drop
    BY <2>2, <2>4 DEF Plan
  <2> QED BY <2>3, <2>6, <2>7, <2>8, <2>9 DEF FreshPlan, PlanKinds, SendKinds, SnapshotBased
<1> QED BY <1>4, <1>5, <1>6

\* Either the partial receive is resumed, or the plan is made as if there were none and
\* has it discarded (plan_one_filesystem, where every read succeeds).
PlanOutcome(p, L, H, B, tok, ex, m) ==
  \/ /\ tok # NoToken /\ Resumable(tok, L, B)
     /\ p = Plan("resume", tok.from, tok.to, FALSE)
  \/ FreshPlan(p, L, H, B, tok # NoToken, ex, m)

LEMMA PlanOneIsFresh ==
  ASSUME NEW N \in Nat, NEW L \in SUBSET (1..N), NEW H \in SUBSET (1..N),
         NEW B \in SUBSET (1..N), NEW tok, NEW ex \in BOOLEAN, NEW m \in Modes
  PROVE  PlanOutcome(PlanOne(L, H, tok, ex, TRUE, B, B, TRUE, m), L, H, B, tok, ex, m)
<1> DEFINE p == PlanOne(L, H, tok, ex, TRUE, B, B, TRUE, m)
           drop == tok # NoToken
<1> SUFFICES \/ /\ tok # NoToken /\ Resumable(tok, L, B)
                /\ p = Plan("resume", tok.from, tok.to, FALSE)
             \/ FreshPlan(p, L, H, B, drop, ex, m)
  BY DEF PlanOutcome
<1>1. CASE L = {}
  <2>1. p = Plan("nothing", 0, 0, FALSE)
    BY <1>1 DEF PlanOne, Nothing, NoSnap
  <2> HIDE DEF p
  <2> QED BY <1>1, <2>1 DEF FreshPlan, Plan, PlanKinds, SendKinds, SnapshotBased
<1>2. CASE L # {} /\ drop /\ Resumable(tok, L, B)
  <2> DEFINE picked == Plan("resume", tok.from, tok.to, FALSE)
  <2>1. p = RejectUnreceivableFull(BookmarkFallback(picked, L, H, B, m), H, ex)
    BY <1>2 DEF PlanOne, PickPlanWithToken
  <2>2. BookmarkFallback(picked, L, H, B, m) = picked
    BY DEF BookmarkFallback, Plan, SnapshotBased
  <2>3. picked.kind # "full"
    BY DEF Plan
  <2> HIDE DEF p, picked
  <2>4. p = picked
    BY <2>1, <2>2, <2>3 DEF RejectUnreceivableFull
  <2> QED BY <1>2, <2>4 DEF picked
<1>3. CASE L # {} /\ ~(drop /\ Resumable(tok, L, B))
  <2>1. p = RejectUnreceivableFull(
              BookmarkFallback(PickPlan(L, H, drop, m), L, H, B, m), H, ex)
    BY <1>3 DEF PlanOne, PickPlanWithToken
  <2>2. drop \in BOOLEAN
    OBVIOUS
  <2> HIDE DEF p, drop
  <2> QED BY <2>1, <2>2, FallbackIsFresh
<1> QED BY <1>1, <1>2, <1>3

-----------------------------------------------------------------------------
(* The visit *)

Ahead(T, n) == {s \in T : s > n}

SituationInv ==
  /\ mode \in Modes /\ phase \in Phases /\ exists \in BOOLEAN
  /\ S \in SUBSET Snap /\ R \in SUBSET Snap /\ foreign \in SUBSET Snap
  /\ cursor \in 0..MaxSnap /\ token \in [to : 0..MaxSnap, from : 0..MaxSnap]
  /\ steps \in Nat /\ raced \in Nat /\ head0 \in 0..MaxSnap
  /\ Consistent

\* The plan in execution applies if it can; what the stream passes over, nobody took.
PlanInv ==
  phase = "execute" =>
    /\ plan.kind \in SendKinds /\ plan.to \in S /\ plan.from \in 0..MaxSnap
    /\ plan.kind = "full" => plan.from = NoSnap
    /\ mode = "all" /\ plan.kind # "incremental_all" =>
         \A s \in S : ~(plan.from < s /\ s < plan.to)
    /\ AnchoredPlanApplies

\* What the sender took since the visit began, up to the receiver's newest, has landed.
LandedInv == mode = "all" => \A s \in S : head0 < s /\ s <= Newest(R) => s \in R

\* After the first step the receiver's newest snapshot is one of the sender's, and from
\* the second on only what was taken meanwhile is ahead.
RaceInv ==
  /\ steps <= 2 + raced
  /\ phase = "choose" => steps = 0
  /\ phase = "plan" /\ steps > 0 => token = NoToken /\ R # {} /\ Newest(R) \in S
  /\ phase = "plan" /\ steps > 1 => steps + Cardinality(Ahead(S, Newest(R))) <= 2 + raced
  /\ phase = "execute" /\ steps > 0 =>
       steps + 1 + Cardinality(Ahead(S, plan.to)) <= 2 + raced

VisitInv == SituationInv /\ PlanInv /\ LandedInv /\ EndsTruthfully /\ RaceInv

LEMMA NewestFacts ==
  ASSUME NEW T \in SUBSET Snap
  PROVE  /\ Newest(T) \in 0..MaxSnap
         /\ T = {} => Newest(T) = 0
         /\ T # {} => Newest(T) \in T
         /\ \A s \in T : s <= Newest(T)
<1>1. MaxSnap \in Nat
  BY CatchUpAssumption
<1>2. CASE T = {}
  BY <1>1, <1>2 DEF Newest, NoSnap
<1>3. CASE T # {}
  <2>1. Newest(T) = Max(T)
    BY <1>3 DEF Newest
  <2>2. T \in SUBSET (1..MaxSnap)
    BY DEF Snap
  <2>3. Max(T) \in T /\ \A s \in T : s <= Max(T)
    BY <1>1, <1>3, <2>2, MaxIsNewest
  <2>4. \A s \in T : s \in 0..MaxSnap
    BY <1>1, <2>2
  <2> QED BY <1>3, <2>1, <2>3, <2>4
<1> QED BY <1>2, <1>3

LEMMA NewestIs ==
  ASSUME NEW T \in SUBSET Snap, NEW n \in T, \A s \in T : s <= n
  PROVE  Newest(T) = n
<1>1. MaxSnap \in Nat /\ n \in Int
  BY CatchUpAssumption DEF Snap
<1>2. Newest(T) \in T /\ n <= Newest(T) /\ Newest(T) \in Int
  BY <1>1, NewestFacts
<1> QED BY <1>1, <1>2

LEMMA AheadFacts ==
  ASSUME NEW T \in SUBSET Snap, NEW n \in Nat
  PROVE  /\ IsFiniteSet(Ahead(T, n)) /\ Cardinality(Ahead(T, n)) \in Nat
         /\ (\A s \in T : s <= n) => Cardinality(Ahead(T, n)) = 0
         /\ (\E s \in T : s > n) => Cardinality(Ahead(T, n)) >= 1
<1>1. MaxSnap \in Nat
  BY CatchUpAssumption
<1>2. IsFiniteSet(Snap)
  BY <1>1, FS_Interval DEF Snap
<1>3. Ahead(T, n) \in SUBSET Snap
  BY DEF Ahead
<1>4. IsFiniteSet(Ahead(T, n)) /\ Cardinality(Ahead(T, n)) \in Nat
  BY <1>2, <1>3, FS_Subset, FS_CardinalityType
<1>5. ASSUME \A s \in T : s <= n PROVE Cardinality(Ahead(T, n)) = 0
  <2>1. \A s \in T : s \in Int /\ ~(s > n)
    BY <1>1, <1>5 DEF Snap
  <2>2. Ahead(T, n) = {}
    BY <2>1 DEF Ahead
  <2> QED BY <2>2, FS_EmptySet
<1>6. ASSUME NEW s \in T, s > n PROVE Cardinality(Ahead(T, n)) >= 1
  <2>1. Ahead(T, n) # {}
    BY <1>6 DEF Ahead
  <2>2. Cardinality(Ahead(T, n)) # 0
    BY <1>4, <2>1, FS_EmptySet
  <2> QED BY <1>4, <2>2
<1> QED BY <1>4, <1>5, <1>6

LEMMA VisitInitially == Init => VisitInv
<1> SUFFICES ASSUME Init PROVE VisitInv
  OBVIOUS
<1>1. MaxSnap \in Nat /\ {} \in SUBSET Snap
  BY CatchUpAssumption
<1>2. Consistent
  BY DEF Init, Consistent
<1>3. SituationInv
  <2>1. 0 \in 0..MaxSnap /\ token = [to |-> 0, from |-> 0] /\ cursor = 0 /\ head0 = 0
    BY <1>1 DEF Init, NoToken, NoSnap
  <2>2. mode \in Modes /\ phase \in Phases /\ exists \in BOOLEAN
    BY DEF Init, Modes, Phases
  <2>3. /\ S \in SUBSET Snap /\ R \in SUBSET Snap /\ foreign \in SUBSET Snap
        /\ steps \in Nat /\ raced \in Nat
    BY <1>1 DEF Init
  <2> QED BY <1>2, <2>1, <2>2, <2>3 DEF SituationInv
<1>4. PlanInv /\ LandedInv /\ EndsTruthfully
  BY DEF Init, PlanInv, LandedInv, EndsTruthfully
<1>5. RaceInv
  BY DEF Init, RaceInv
<1> QED BY <1>3, <1>4, <1>5 DEF VisitInv

LEMMA VisitByBegin == ASSUME VisitInv, Begin PROVE VisitInv'
<1>1. MaxSnap \in Nat
  BY CatchUpAssumption
<1>2. /\ phase = "choose" /\ phase' = "plan" /\ mode' \in Modes
      /\ S' \in SUBSET Snap /\ R' \in SUBSET Snap /\ foreign' \in SUBSET Snap
      /\ cursor' \in 0..MaxSnap /\ exists' \in BOOLEAN /\ Consistent'
      /\ head0' = Newest(R') /\ UNCHANGED <<plan, steps, raced>>
  BY <1>1 DEF Begin, Snap, NoSnap
<1>3. token' \in [to : 0..MaxSnap, from : 0..MaxSnap]
  <2>1. Newest(R') \in 0..MaxSnap
    BY <1>2, NewestFacts
  <2>2. NoToken \in [to : 0..MaxSnap, from : 0..MaxSnap]
    BY <1>1 DEF NoToken, NoSnap
  <2>3. token' \in {NoToken} \cup [to : Snap, from : {Newest(R')}]
    BY DEF Begin
  <2> HIDE DEF Newest
  <2> QED BY <1>1, <2>1, <2>2, <2>3 DEF Snap
<1>4. head0' \in 0..MaxSnap
  BY <1>2, NewestFacts
<1>5. SituationInv'
  BY <1>2, <1>3, <1>4 DEF VisitInv, SituationInv, Phases
<1>6. LandedInv'
  <2>1. \A s \in S' : ~(head0' < s /\ s <= head0')
    BY <1>1, <1>2, <1>4 DEF Snap
  <2> QED BY <1>2, <2>1 DEF LandedInv
<1>7. RaceInv'
  BY <1>2 DEF VisitInv, SituationInv, RaceInv
<1> QED BY <1>2, <1>5, <1>6, <1>7 DEF VisitInv, PlanInv, EndsTruthfully

\* The new snapshot is newer than all there is, and the race is one longer.
LEMMA VisitBySnapshot == ASSUME VisitInv, TakeSnapshot PROVE VisitInv'
<1> DEFINE all == S \cup R \cup Bookmarks \cup ({token.to} \ {NoSnap})
           next == Newest(all) + 1
<1>1. /\ phase \in {"plan", "execute"} /\ next <= MaxSnap /\ S' = S \cup {next}
      /\ raced' = raced + 1
      /\ UNCHANGED <<mode, cursor, foreign, R, exists, token, plan, phase, steps, head0>>
  BY DEF TakeSnapshot
<1>2. MaxSnap \in Nat /\ SituationInv
  BY CatchUpAssumption DEF VisitInv
<1>3. all \in SUBSET Snap
  <2>1. {cursor} \ {NoSnap} \in SUBSET Snap /\ {token.to} \ {NoSnap} \in SUBSET Snap
    BY <1>2 DEF SituationInv, Snap, NoSnap
  <2>2. S \in SUBSET Snap /\ R \in SUBSET Snap /\ foreign \in SUBSET Snap
    BY <1>2 DEF SituationInv
  <2> QED BY <2>1, <2>2 DEF Bookmarks
<1>4. next \in Snap /\ \A s \in all : s < next
  <2>1. Newest(all) \in 0..MaxSnap /\ \A s \in all : s <= Newest(all)
    BY <1>3, NewestFacts
  <2>2. \A s \in all : s \in Int
    BY <1>2, <1>3 DEF Snap
  <2> HIDE DEF all
  <2> QED BY <1>1, <1>2, <2>1, <2>2 DEF Snap
<1>5. (\A s \in S \cup R : s < next) /\ token.to < next
  BY <1>2, <1>4 DEF Snap, NoSnap
<1>0. \A s \in S : s \in Nat
  BY <1>2 DEF SituationInv, Snap
<1> HIDE DEF next, all
<1>6. S' \in SUBSET Snap /\ next \notin S /\ next \in Nat
  BY <1>1, <1>2, <1>4, <1>5 DEF SituationInv, Snap
<1>7. Newest(R) \in 0..MaxSnap /\ Newest(R) < next /\ Newest(R)' = Newest(R)
  <2>1. Newest(R) \in 0..MaxSnap /\ (R = {} => Newest(R) = 0) /\ (R # {} => Newest(R) \in R)
    BY <1>2, NewestFacts DEF SituationInv
  <2>2. Newest(R)' = Newest(R)
    BY <1>1
  <2>3. 0 < next
    BY <1>4 DEF Snap
  <2> QED BY <1>5, <2>1, <2>2, <2>3
<1>8. SituationInv'
  <2>1. Consistent'
    <3>1. token # NoToken /\ mode = "all" => \A s \in S' : ~(token.from < s /\ s < token.to)
      <4>1. token.to \in Int /\ next \in Int
        BY <1>2, <1>6 DEF SituationInv
      <4>2. ~(next < token.to)
        BY <1>5, <4>1
      <4> QED BY <1>1, <1>2, <4>2 DEF SituationInv, Consistent
    <3> QED BY <1>1, <1>2, <1>7, <3>1 DEF SituationInv, Consistent
  <2> QED BY <1>1, <1>2, <1>6, <2>1 DEF SituationInv
<1>9. PlanInv'
  <2> SUFFICES ASSUME phase = "execute" PROVE PlanInv'
    BY <1>1 DEF PlanInv
  <2>1. /\ plan.kind \in SendKinds /\ plan.to \in S /\ plan.from \in 0..MaxSnap
        /\ plan.kind = "full" => plan.from = NoSnap
        /\ mode = "all" /\ plan.kind # "incremental_all" =>
             \A s \in S : ~(plan.from < s /\ s < plan.to)
        /\ AnchoredPlanApplies
    BY DEF VisitInv, PlanInv
  <2>2. ~(next < plan.to)
    BY <1>0, <1>5, <1>6, <2>1
  <2>3. AnchoredPlanApplies'
    <3>1. Bookmarks' = Bookmarks /\ BackToHead' = BackToHead
      BY <1>1 DEF Bookmarks, BackToHead
    <3>2. Anchored' => Anchored
      BY <1>1, <1>2, <1>7, <3>1 DEF Anchored, NoSnap
    <3>3. (Sendable => Sendable') /\ (Applicable => Applicable')
      BY <1>1, <1>7, <3>1 DEF Sendable, Applicable
    <3> QED BY <1>1, <2>1, <3>1, <3>2, <3>3 DEF AnchoredPlanApplies
  <2> QED BY <1>1, <2>1, <2>2, <2>3 DEF PlanInv
<1>10. LandedInv'
  <2>1. ~(next <= Newest(R))
    BY <1>2, <1>6, <1>7
  <2> QED BY <1>1, <1>7, <2>1 DEF VisitInv, LandedInv
<1>11. ASSUME NEW n \in Nat, n < next
       PROVE  Cardinality(Ahead(S', n)) = Cardinality(Ahead(S, n)) + 1
  <2>1. Ahead(S', n) = Ahead(S, n) \cup {next} /\ next \notin Ahead(S, n)
    BY <1>1, <1>6, <1>11 DEF Ahead
  <2>2. IsFiniteSet(Ahead(S, n))
    BY <1>2, AheadFacts DEF SituationInv
  <2> QED BY <2>1, <2>2, FS_AddElement
<1>12. ASSUME NEW n \in Nat PROVE Cardinality(Ahead(S, n)) \in Nat
  BY <1>2, AheadFacts DEF SituationInv
<1>13. RaceInv'
  <2>1. steps \in Nat /\ raced \in Nat /\ RaceInv
    BY <1>2 DEF SituationInv, VisitInv
  <2>2. CASE phase = "plan"
    <3>1. Newest(R) \in Nat
      BY <1>2, <1>7
    <3>2. Cardinality(Ahead(S', Newest(R))) = Cardinality(Ahead(S, Newest(R))) + 1
      BY <1>7, <1>11, <3>1
    <3> QED BY <1>1, <1>7, <1>12, <2>1, <2>2, <3>1, <3>2 DEF RaceInv
  <2>3. CASE phase = "execute"
    <3>1. plan.to \in S /\ plan.to \in Nat
      BY <1>0, <2>3 DEF VisitInv, PlanInv
    <3>2. Cardinality(Ahead(S', plan.to)) = Cardinality(Ahead(S, plan.to)) + 1
      BY <1>5, <1>11, <3>1
    <3> QED BY <1>1, <1>12, <2>1, <2>3, <3>1, <3>2 DEF RaceInv
  <2> QED BY <1>1, <2>2, <2>3
<1> QED BY <1>1, <1>8, <1>9, <1>10, <1>13 DEF VisitInv, EndsTruthfully

\* A base that both sides have is the receiver's newest snapshot when that is anchored.
LEMMA BaseIsNewest ==
  ASSUME SituationInv, NEW from \in R, Newest(R) \in {NoSnap} \cup S \cup Bookmarks,
         \A h \in R \cap (S \cup Bookmarks) : h <= from
  PROVE  from = Newest(R)
<1>1. MaxSnap \in Nat /\ \A s \in R : s \in Nat /\ s >= 1
  BY CatchUpAssumption DEF SituationInv, Snap
<1>2. Newest(R) \in R /\ \A s \in R : s <= Newest(R)
  BY NewestFacts DEF SituationInv
<1>3. Newest(R) <= from /\ from <= Newest(R)
  BY <1>1, <1>2 DEF NoSnap
<1> QED BY <1>1, <1>2, <1>3

LEMMA VisitByPlan == ASSUME VisitInv, PlanStep PROVE VisitInv'
<1> DEFINE next == PlanOne(S, R, token, exists, TRUE, Bookmarks, Bookmarks, TRUE, mode)
           drop == next.kind \in SendKinds /\ next.discard
<1>1. /\ phase = "plan" /\ plan' = next
      /\ phase' = IF next.kind \in SendKinds THEN "execute"
                  ELSE IF next.kind = "nothing" THEN "done" ELSE next.kind
      /\ token' = IF drop THEN NoToken ELSE token
      /\ exists' = IF drop /\ R = {} THEN FALSE ELSE exists
      /\ UNCHANGED <<mode, S, cursor, foreign, R, steps, raced, head0>>
  BY DEF PlanStep
<1>2. MaxSnap \in Nat /\ SituationInv /\ LandedInv /\ RaceInv
  BY CatchUpAssumption DEF VisitInv
<1>3. /\ S \in SUBSET (1..MaxSnap) /\ R \in SUBSET (1..MaxSnap) /\ mode \in Modes
      /\ exists \in BOOLEAN /\ Consistent /\ token \in [to : 0..MaxSnap, from : 0..MaxSnap]
  BY <1>2 DEF SituationInv, Snap
<1>4. Bookmarks \in SUBSET (1..MaxSnap)
  <2>1. {cursor} \ {NoSnap} \in SUBSET Snap /\ foreign \in SUBSET Snap
    BY <1>2 DEF SituationInv, Snap, NoSnap
  <2> QED BY <2>1 DEF Bookmarks, Snap
<1>5. \/ /\ token # NoToken /\ Resumable(token, S, Bookmarks)
         /\ next = Plan("resume", token.from, token.to, FALSE)
      \/ FreshPlan(next, S, R, Bookmarks, token # NoToken, exists, mode)
  <2>1. PlanOutcome(next, S, R, Bookmarks, token, exists, mode)
    BY <1>2, <1>3, <1>4, PlanOneIsFresh
  <2> HIDE DEF next
  <2> QED BY <2>1 DEF PlanOutcome
<1>6. \A s \in S \cup R \cup Bookmarks : s \in Nat /\ s >= 1
  BY <1>2, <1>3, <1>4
<1> HIDE DEF next
<1>7. /\ Newest(R) \in Nat /\ (R # {} => Newest(R) \in R) /\ (R = {} => Newest(R) = 0)
      /\ \A s \in R : s <= Newest(R)
  BY <1>2, NewestFacts DEF SituationInv
<1>8. Bookmarks' = Bookmarks /\ Newest(R)' = Newest(R)
  BY <1>1 DEF Bookmarks
<1>9. LandedInv'
  BY <1>1, <1>2, <1>8 DEF LandedInv
<1>10. CASE /\ token # NoToken /\ Resumable(token, S, Bookmarks)
            /\ next = Plan("resume", token.from, token.to, FALSE)
  <2>1. /\ next.kind = "resume" /\ next.from = token.from /\ next.to = token.to
        /\ next.discard = FALSE
    BY <1>10 DEF Plan
  <2>2. phase' = "execute" /\ token' = token /\ exists' = exists
    BY <1>1, <2>1 DEF SendKinds
  <2>3. /\ token.to \in S /\ token.from = Newest(R) /\ token.from < token.to
        /\ mode = "all" => \A s \in S : ~(token.from < s /\ s < token.to)
    BY <1>3, <1>6, <1>7, <1>10 DEF Resumable, Consistent
  <2>4. SituationInv'
    <3>1. Consistent'
      <4>1. UNCHANGED <<mode, S, R, exists, token>>
        BY <1>1, <2>2
      <4> QED BY <1>3, <4>1 DEF Consistent, Newest
    <3> QED BY <1>1, <1>2, <2>2, <3>1 DEF SituationInv, Phases
  <2>5. AnchoredPlanApplies'
    <3>1. token = [to |-> next.to, from |-> next.from]
      BY <1>3, <2>1
    <3>2. Applicable'
      BY <1>1, <2>1, <2>2, <3>1 DEF Applicable
    <3>3. Sendable'
      BY <1>1, <2>1, <2>2, <2>3 DEF Sendable, SnapshotBased
    <3> QED BY <3>2, <3>3 DEF AnchoredPlanApplies
  <2>6. PlanInv'
    BY <1>1, <1>3, <2>1, <2>2, <2>3, <2>5 DEF PlanInv, SendKinds
  <2>7. RaceInv'
    BY <1>1, <1>2, <1>10, <2>2 DEF RaceInv, SituationInv
  <2> QED BY <1>9, <2>2, <2>4, <2>6, <2>7 DEF VisitInv, EndsTruthfully
<1>11. CASE FreshPlan(next, S, R, Bookmarks, token # NoToken, exists, mode)
  <2> DEFINE sends == next.kind \in SendKinds
  <2>1. sends => token' = NoToken /\ next.to \in S
    BY <1>1, <1>11 DEF FreshPlan
  <2>2. /\ sends => phase' = "execute"
        /\ ~sends => phase' \in {"done", "diverged", "placeholder"}
        /\ phase' = "done" => next.kind = "nothing"
        /\ phase' = "diverged" => next.kind = "diverged"
    <3>1. next.kind \in PlanKinds
      BY <1>11 DEF FreshPlan
    <3> QED BY <1>1, <3>1 DEF PlanKinds, SendKinds
  <2>3. SituationInv'
    <3>1. token' \in {token, NoToken} /\ exists' \in BOOLEAN /\ (R # {} => exists' = exists)
          /\ (token' # NoToken => exists' = exists /\ token' = token)
      BY <1>1, <1>3
    <3>2. Consistent'
      BY <1>1, <1>3, <1>8, <3>1 DEF Consistent
    <3>3. token' \in [to : 0..MaxSnap, from : 0..MaxSnap]
      <4>1. NoToken \in [to : 0..MaxSnap, from : 0..MaxSnap]
        BY <1>2 DEF NoToken, NoSnap
      <4> QED BY <1>3, <3>1, <4>1
    <3>4. phase' \in Phases
      BY <2>2 DEF Phases
    <3> QED BY <1>1, <1>2, <3>1, <3>2, <3>3, <3>4 DEF SituationInv
  <2>4. ASSUME next.kind \in SnapshotBased \cup {"bookmark"}, Anchored
        PROVE  next.from = Newest(R)
    <3>1. next.from \in R /\ \A h \in R \cap (S \cup Bookmarks) : h <= next.from
      BY <1>11, <2>4 DEF FreshPlan
    <3> QED BY <1>2, <2>4, <3>1, BaseIsNewest DEF Anchored
  <2>5. sends => next.from \in 0..MaxSnap
    <3>1. CASE next.kind = "full"
      BY <1>2, <1>11, <3>1 DEF FreshPlan, NoSnap
    <3>2. CASE next.kind \in SnapshotBased \cup {"bookmark"}
      <4>1. next.from \in R
        BY <1>11, <3>2 DEF FreshPlan
      <4>2. \A s \in R : s \in 0..MaxSnap
        BY <1>2, <1>3
      <4> QED BY <4>1, <4>2
    <3> QED BY <1>11, <3>1, <3>2 DEF FreshPlan, SendKinds, SnapshotBased
  <2>6. sends => AnchoredPlanApplies'
    <3> SUFFICES ASSUME sends, Anchored, ~BackToHead' PROVE Sendable' /\ Applicable'
      BY <1>1, <1>8 DEF AnchoredPlanApplies, Anchored
    <3>1. CASE next.kind = "full"
      <4>1. R = {} /\ ~exists /\ next.from = 0
        BY <1>11, <3>1 DEF FreshPlan, NoSnap
      <4>2. ~exists' /\ next.from < next.to
        BY <1>1, <1>6, <2>1, <4>1
      <4> QED BY <1>1, <2>1, <3>1, <4>2 DEF Sendable, Applicable, SnapshotBased
    <3>2. CASE next.kind \in SnapshotBased
      <4>1. next.from \in S /\ next.from < next.to
        BY <1>11, <3>2 DEF FreshPlan
      <4> QED BY <1>1, <1>8, <2>1, <2>4, <3>2, <4>1 DEF Sendable, Applicable, SnapshotBased
    <3>3. CASE next.kind = "bookmark"
      <4>1. next.from \in Bookmarks \ S /\ (mode = "all" => next.from < next.to)
        BY <1>11, <3>3 DEF FreshPlan
      <4>2. next.from \in Nat /\ next.to \in Nat /\ next.from # next.to
        BY <1>6, <2>1, <4>1
      <4>3. next.from < next.to
        BY <1>1, <1>3, <3>3, <4>1, <4>2 DEF BackToHead, Modes
      <4> QED BY <1>1, <1>8, <2>1, <2>4, <3>3, <4>1, <4>3 DEF Sendable, Applicable, SnapshotBased
    <3> QED BY <1>11, <3>1, <3>2, <3>3 DEF FreshPlan, SendKinds, SnapshotBased
  <2>7. PlanInv'
    <3>1. sends =>
            /\ next.kind = "full" => next.from = NoSnap
            /\ mode = "all" /\ next.kind # "incremental_all" =>
                 \A s \in S : ~(next.from < s /\ s < next.to)
      BY <1>11 DEF FreshPlan
    <3>2. phase' = "execute" => sends
      BY <2>2
    <3> QED BY <1>1, <2>1, <2>5, <2>6, <3>1, <3>2 DEF PlanInv
  <2>8. EndsTruthfully'
    <3>1. ASSUME phase' = "done" PROVE Newest(S) <= Newest(R)
      <4>1. S = {} \/ \E h \in R : \A s \in S : s <= h
        BY <1>11, <2>2, <3>1 DEF FreshPlan
      <4>2. Newest(S) \in Nat /\ (S = {} => Newest(S) = 0) /\ (S # {} => Newest(S) \in S)
        BY <1>2, NewestFacts DEF SituationInv
      <4>3. CASE S = {}
        BY <1>7, <4>2, <4>3
      <4>4. CASE S # {}
        <5>1. PICK h \in R : \A s \in S : s <= h
          BY <4>1, <4>4
        <5>2. Newest(S) <= h /\ h <= Newest(R) /\ h \in Nat
          BY <1>6, <1>7, <4>2, <4>4, <5>1
        <5> QED BY <1>7, <4>2, <5>2
      <4> QED BY <4>3, <4>4
    <3>2. ASSUME phase' = "done", mode = "all", NEW s \in S, s > head0 PROVE s \in R
      <4>1. s <= Newest(S) /\ Newest(S) \in Nat
        BY <1>2, NewestFacts DEF SituationInv
      <4>2. s <= Newest(R)
        BY <1>6, <1>7, <3>1, <3>2, <4>1
      <4>3. head0 < s
        BY <1>2, <1>6, <3>2 DEF SituationInv
      <4> QED BY <1>2, <3>2, <4>2, <4>3 DEF LandedInv
    <3>3. ASSUME phase' = "diverged" PROVE R \cap (S \cup Bookmarks) = {}
      BY <1>11, <2>2, <3>3 DEF FreshPlan
    <3>4. Newest(S)' = Newest(S)
      BY <1>1
    <3> QED BY <1>1, <1>8, <3>1, <3>2, <3>3, <3>4 DEF EndsTruthfully
  <2>9. RaceInv'
    <3>1. steps \in Nat /\ raced \in Nat /\ RaceInv
      BY <1>2 DEF SituationInv
    <3>2. ASSUME phase' = "execute", steps > 0
          PROVE  steps + 1 + Cardinality(Ahead(S, next.to)) <= 2 + raced
      <4>1. token = NoToken /\ R # {} /\ Newest(R) \in S /\ Newest(R) \in R
        BY <1>1, <1>7, <3>1, <3>2 DEF RaceInv
      <4>2. next.kind \in SnapshotBased \cup {"bookmark"}
        <5>1. next.kind # "full" /\ next.kind # "resume" /\ next.kind \in SendKinds
          BY <1>11, <2>2, <3>2, <4>1 DEF FreshPlan
        <5> QED BY <5>1 DEF SendKinds, SnapshotBased
      <4>3. next.from = Newest(R)
        BY <2>4, <4>1, <4>2 DEF Anchored
      <4>4. next.kind \in SnapshotBased
        BY <1>11, <4>1, <4>2, <4>3 DEF FreshPlan
      <4>5. next.to \in S /\ (\A s \in S : s <= next.to) /\ Newest(R) < next.to
        BY <1>11, <2>1, <2>2, <3>2, <4>3, <4>4 DEF FreshPlan, SendKinds, SnapshotBased
      <4>6. Cardinality(Ahead(S, next.to)) = 0
        BY <1>2, <1>6, <4>5, AheadFacts DEF SituationInv
      <4>7. Cardinality(Ahead(S, Newest(R))) \in Nat /\ Cardinality(Ahead(S, Newest(R))) >= 1
        <5>1. \E s \in S : s > Newest(R)
          BY <1>6, <1>7, <4>5
        <5> QED BY <1>2, <1>7, <5>1, AheadFacts DEF SituationInv
      <4> QED BY <1>1, <3>1, <3>2, <4>6, <4>7 DEF RaceInv
    <3>3. phase' # "choose" /\ phase' # "plan"
      BY <2>2
    <3> QED BY <1>1, <3>1, <3>2, <3>3 DEF RaceInv
  <2> QED BY <1>9, <2>3, <2>7, <2>8, <2>9 DEF VisitInv
<1> QED BY <1>5, <1>10, <1>11

LEMMA VisitByExecute == ASSUME VisitInv, ExecuteStep PROVE VisitInv'
<1>1. MaxSnap \in Nat /\ SituationInv /\ PlanInv /\ LandedInv /\ RaceInv /\ phase = "execute"
  BY CatchUpAssumption DEF VisitInv, ExecuteStep
<1>2. UNCHANGED <<mode, S, foreign, plan, raced, head0>>
  BY DEF ExecuteStep
<1>3. CASE /\ phase' = "refused"
           /\ UNCHANGED <<R, exists, token, cursor, steps>>
  <2>1. SituationInv'
    BY <1>1, <1>2, <1>3 DEF SituationInv, Consistent, Newest, Phases
  <2>2. PlanInv' /\ LandedInv' /\ EndsTruthfully' /\ RaceInv'
    BY <1>1, <1>2, <1>3 DEF PlanInv, LandedInv, EndsTruthfully, RaceInv, Newest
  <2> QED BY <2>1, <2>2 DEF VisitInv
<1>4. CASE /\ Sendable /\ Applicable
           /\ R' = R \cup Carried /\ exists' = TRUE /\ token' = NoToken /\ cursor' = plan.to
           /\ steps' = steps + 1 /\ phase' = IF steps + 1 >= MaxSteps THEN "limit" ELSE "plan"
  <2>1. /\ plan.kind \in SendKinds /\ plan.to \in S /\ plan.from \in Nat /\ plan.from < plan.to
        /\ plan.kind = "full" => plan.from = 0
        /\ mode = "all" /\ plan.kind # "incremental_all" =>
             \A s \in S : ~(plan.from < s /\ s < plan.to)
    BY <1>1, <1>4 DEF PlanInv, Sendable, NoSnap
  <2>2. /\ \A s \in S \cup R : s \in Nat /\ s >= 1
        /\ \A s \in R : s <= Newest(R)
        /\ R = {} => Newest(R) = 0
    BY <1>1, NewestFacts DEF SituationInv, Snap
  <2>3. plan.from = Newest(R)
    <3>1. CASE plan.kind = "full"
      <4>1. R = {}
        BY <1>1, <1>4, <3>1 DEF Applicable, SituationInv, Consistent
      <4> QED BY <2>1, <2>2, <3>1, <4>1
    <3>2. CASE plan.kind = "resume"
      <4>1. token = [to |-> plan.to, from |-> plan.from]
        BY <1>4, <3>2 DEF Applicable
      <4>2. token # NoToken
        <5>1. token.to # 0
          BY <2>1, <2>2, <4>1
        <5> QED BY <5>1 DEF NoToken, NoSnap
      <4> QED BY <1>1, <4>1, <4>2 DEF SituationInv, Consistent
    <3>3. CASE plan.kind \notin {"full", "resume"}
      BY <1>4, <3>3 DEF Applicable
    <3> QED BY <3>1, <3>2, <3>3
  <2>4. /\ Carried \subseteq S /\ plan.to \in Carried /\ \A s \in Carried : s <= plan.to
        /\ plan.kind = "incremental_all" =>
             \A s \in S : plan.from < s /\ s <= plan.to => s \in Carried
    BY <2>1, <2>2 DEF Carried
  <2>5. R' \in SUBSET Snap /\ plan.to \in R' /\ \A s \in R' : s <= plan.to
    <3>1. R' \in SUBSET Snap
      BY <1>1, <1>4, <2>4 DEF SituationInv
    <3>2. ASSUME NEW s \in R PROVE s <= plan.to
      <4>1. s <= plan.from /\ s \in Nat /\ plan.to \in Nat
        BY <2>1, <2>2, <2>3
      <4> QED BY <2>1, <4>1
    <3> QED BY <1>4, <2>4, <3>1, <3>2
  <2>6. Newest(R') = plan.to
    BY <2>5, NewestIs
  <2>7. SituationInv'
    <3>1. cursor' \in 0..MaxSnap /\ steps' \in Nat /\ phase' \in Phases
      <4>1. \A s \in S : s \in 0..MaxSnap
        BY <1>1 DEF SituationInv, Snap
      <4> QED BY <1>1, <1>4, <2>1, <4>1 DEF SituationInv, Phases
    <3>2. token' \in [to : 0..MaxSnap, from : 0..MaxSnap]
      BY <1>1, <1>4 DEF NoToken, NoSnap
    <3>3. Consistent'
      BY <1>4 DEF Consistent
    <3> QED BY <1>1, <1>2, <1>4, <2>5, <3>1, <3>2, <3>3 DEF SituationInv
  <2>8. LandedInv'
    <3> SUFFICES ASSUME mode = "all", NEW s \in S, head0 < s, s <= plan.to PROVE s \in R'
      BY <1>2, <2>6 DEF LandedInv
    <3>1. CASE s <= plan.from
      BY <1>1, <1>4, <2>3, <3>1 DEF LandedInv
    <3>2. CASE ~(s <= plan.from) /\ plan.kind = "incremental_all"
      BY <1>4, <2>1, <2>2, <2>4, <3>2
    <3>3. CASE ~(s <= plan.from) /\ plan.kind # "incremental_all"
      <4>1. s = plan.to
        BY <2>1, <2>2, <3>3
      <4> QED BY <2>5, <4>1
    <3> QED BY <3>1, <3>2, <3>3
  <2>9. RaceInv'
    <3>1. /\ steps \in Nat /\ raced \in Nat /\ plan.to \in Nat
          /\ Cardinality(Ahead(S, plan.to)) \in Nat
      BY <1>1, <2>1, <2>2, AheadFacts DEF SituationInv
    <3>2. steps > 0 => steps + 1 + Cardinality(Ahead(S, plan.to)) <= 2 + raced
      BY <1>1 DEF RaceInv
    <3>3. R' # {} /\ Newest(R') \in S
      BY <2>1, <2>5, <2>6
    <3> QED BY <1>2, <1>4, <2>6, <3>1, <3>2, <3>3 DEF RaceInv
  <2> QED BY <1>4, <2>7, <2>8, <2>9 DEF VisitInv, PlanInv, EndsTruthfully
<1> QED BY <1>3, <1>4 DEF ExecuteStep

THEOREM VisitInvariant == Spec => []VisitInv
<1>1. VisitInv /\ [Next]_vars => VisitInv'
  <2>1. ASSUME VisitInv, UNCHANGED vars PROVE VisitInv'
    <3>1. SituationInv' /\ PlanInv'
      BY <2>1 DEF VisitInv, SituationInv, PlanInv, vars, situation, Consistent, Newest, Sendable,
         Applicable, AnchoredPlanApplies, Anchored, BackToHead, Bookmarks
    <3>2. LandedInv' /\ EndsTruthfully' /\ RaceInv'
      BY <2>1 DEF VisitInv, LandedInv, EndsTruthfully, RaceInv, vars, situation, Newest, Bookmarks
    <3> QED BY <3>1, <3>2 DEF VisitInv
  <2> QED BY <2>1, VisitByBegin, VisitBySnapshot, VisitByPlan, VisitByExecute DEF Next
<1> QED BY <1>1, VisitInitially, PTL DEF Spec

\* While the sender owns the receiver's newest snapshot or a bookmark of it, no plan that
\* is carried out is refused, from any situation of the two datasets (plan.rs).
THEOREM AnchoredPlansApply == Spec => []AnchoredPlanApplies
<1>1. VisitInv => AnchoredPlanApplies
  BY DEF VisitInv, PlanInv, AnchoredPlanApplies
<1> QED BY <1>1, VisitInvariant, PTL

\* A visit that ends up to date has left nothing behind, and one that gives up as diverged
\* has overlooked no common point (plan.rs, PlanError::Diverged).
THEOREM VisitsEndTruthfully == Spec => []EndsTruthfully
<1>1. VisitInv => EndsTruthfully
  BY DEF VisitInv
<1> QED BY <1>1, VisitInvariant, PTL

\* A visit takes two steps, and one more for every snapshot taken meanwhile, whatever the
\* step limit is (replicate_one).
THEOREM VisitsAreShort == Spec => []StepsFollowTheRace
<1>1. VisitInv => StepsFollowTheRace
  BY DEF VisitInv, RaceInv, StepsFollowTheRace
<1> QED BY <1>1, VisitInvariant, PTL

-----------------------------------------------------------------------------
(* The bounds *)

\* The plan is one of the planner's, each race added a snapshot on top of the sender's,
\* and a visit that goes on is below its step limit.
CountsInv ==
  /\ plan.kind \in PlanKinds /\ plan.to \in 0..MaxSnap /\ plan.from \in 0..MaxSnap
  /\ raced <= Newest(S) /\ (phase = "choose" => raced = 0)
  /\ steps <= MaxSteps /\ (phase \in {"choose", "plan", "execute"} => steps < MaxSteps)

LEMMA CountsBySnapshot == ASSUME VisitInv, CountsInv, TakeSnapshot PROVE CountsInv'
<1> DEFINE all == S \cup R \cup Bookmarks \cup ({token.to} \ {NoSnap})
           next == Newest(all) + 1
<1>1. /\ phase \in {"plan", "execute"} /\ next <= MaxSnap /\ S' = S \cup {next}
      /\ raced' = raced + 1 /\ UNCHANGED <<plan, phase, steps>>
  BY DEF TakeSnapshot
<1>2. MaxSnap \in Nat /\ SituationInv /\ raced \in Nat
  BY CatchUpAssumption DEF VisitInv, SituationInv
<1>3. all \in SUBSET Snap /\ S \in SUBSET Snap
  <2>1. {cursor} \ {NoSnap} \in SUBSET Snap /\ {token.to} \ {NoSnap} \in SUBSET Snap
    BY <1>2 DEF SituationInv, Snap, NoSnap
  <2> QED BY <1>2, <2>1 DEF Bookmarks, SituationInv
<1>4. Newest(all) \in 0..MaxSnap /\ \A s \in S : s <= Newest(all)
  BY <1>3, NewestFacts
<1>5. Newest(S) \in 0..MaxSnap /\ (S = {} => Newest(S) = 0) /\ (S # {} => Newest(S) \in S)
  BY <1>3, NewestFacts
<1>6. Newest(S) <= Newest(all)
  BY <1>2, <1>4, <1>5
<1> HIDE DEF all
<1>7. next \in Snap
  BY <1>1, <1>2, <1>4 DEF Snap
<1>8. Newest(S \cup {next}) = next
  <2>1. \A s \in S \cup {next} : s <= next
    BY <1>2, <1>3, <1>4 DEF Snap
  <2>2. S \cup {next} \in SUBSET Snap
    BY <1>3, <1>7
  <2> HIDE DEF next
  <2> QED BY <2>1, <2>2, NewestIs
<1>9. raced' <= Newest(S)'
  BY <1>1, <1>2, <1>4, <1>5, <1>6, <1>8 DEF CountsInv
<1> QED BY <1>1, <1>9 DEF CountsInv

LEMMA CountsByPlan == ASSUME VisitInv, CountsInv, PlanStep PROVE CountsInv'
<1> DEFINE next == PlanOne(S, R, token, exists, TRUE, Bookmarks, Bookmarks, TRUE, mode)
<1>1. /\ plan' = next /\ phase = "plan" /\ UNCHANGED <<S, steps, raced>>
      /\ phase' = IF next.kind \in SendKinds THEN "execute"
                  ELSE IF next.kind = "nothing" THEN "done" ELSE next.kind
  BY DEF PlanStep
<1>2. /\ S \in SUBSET (1..MaxSnap) /\ R \in SUBSET (1..MaxSnap) /\ mode \in Modes
      /\ exists \in BOOLEAN /\ token \in [to : 0..MaxSnap, from : 0..MaxSnap]
      /\ MaxSnap \in Nat
  BY CatchUpAssumption DEF VisitInv, SituationInv, Snap
<1>3. Bookmarks \in SUBSET (1..MaxSnap)
  <2>1. {cursor} \ {NoSnap} \in SUBSET Snap /\ foreign \in SUBSET Snap
    BY DEF VisitInv, SituationInv, Snap, NoSnap
  <2> QED BY <2>1 DEF Bookmarks, Snap
<1>4. WellFormed(next, S, R, Bookmarks, token, mode)
  <2>1. TRUE \in BOOLEAN
    OBVIOUS
  <2> QED BY <1>2, <1>3, <2>1, PlanOneWellFormed
<1> HIDE DEF next
<1>5. next.kind \in PlanKinds /\ next.to \in 0..MaxSnap /\ next.from \in 0..MaxSnap
  <2>1. next.kind \in PlanKinds /\ (next.to \in S \/ next.to = 0)
    BY <1>4 DEF WellFormed, NoSnap
  <2>2. next.from \in S \/ next.from \in Bookmarks \/ next.from = 0 \/ next.from = token.from
    BY <1>4 DEF WellFormed, NoSnap
  <2>3. token.from \in 0..MaxSnap
    BY <1>2
  <2>4. 0 \in 0..MaxSnap /\ \A s \in S \cup Bookmarks : s \in 0..MaxSnap
    BY <1>2, <1>3
  <2> QED BY <2>1, <2>2, <2>3, <2>4
<1>6. phase' # "choose"
  BY <1>1, <1>5 DEF PlanKinds, SendKinds
<1> QED BY <1>1, <1>5, <1>6 DEF CountsInv

LEMMA CountsByExecute == ASSUME VisitInv, CountsInv, ExecuteStep PROVE CountsInv'
<1>1. UNCHANGED <<S, plan, raced>> /\ phase = "execute"
  BY DEF ExecuteStep
<1>2. steps \in Nat /\ MaxSteps \in Nat /\ steps < MaxSteps
  BY <1>1, CatchUpAssumption DEF VisitInv, SituationInv, CountsInv
<1>3. \/ phase' = "refused" /\ steps' = steps
      \/ steps' = steps + 1 /\ phase' = IF steps + 1 >= MaxSteps THEN "limit" ELSE "plan"
  BY DEF ExecuteStep
<1>4. /\ steps' <= MaxSteps /\ phase' # "choose"
      /\ phase' \in {"choose", "plan", "execute"} => steps' < MaxSteps
  BY <1>2, <1>3
<1> QED BY <1>1, <1>4 DEF CountsInv

\* Snapshots, plan and counters stay within their bounds: no visit executes more than
\* MAX_STEPS_PER_CYCLE steps, and no plan names a snapshot that neither side ever had
\* (replicate_one, daemon/src/jobs/push/mod.rs).
THEOREM CatchUpTypeCorrect == Spec => []TypeOK
<1>1. Init => CountsInv
  <2> SUFFICES ASSUME Init PROVE CountsInv
    OBVIOUS
  <2>1. /\ plan.kind \in PlanKinds /\ plan.to = 0 /\ plan.from = 0 /\ MaxSnap \in Nat
        /\ raced = 0 /\ S = {} /\ steps = 0 /\ MaxSteps \in Nat \ {0}
    BY CatchUpAssumption DEF Init, Nothing, Plan, PlanKinds, NoSnap
  <2>2. Newest(S) = 0
    BY <2>1 DEF Newest, NoSnap
  <2> QED BY <2>1, <2>2 DEF CountsInv
<1>2. VisitInv /\ CountsInv /\ [Next]_vars => CountsInv'
  <2>1. ASSUME VisitInv, CountsInv, Begin PROVE CountsInv'
    <3>1. UNCHANGED <<plan, steps, raced>> /\ phase = "choose" /\ phase' = "plan"
      BY <2>1 DEF Begin
    <3>2. raced = 0 /\ Newest(S') \in 0..MaxSnap /\ MaxSnap \in Nat
      BY <2>1, <3>1, NewestFacts, CatchUpAssumption DEF Begin, CountsInv
    <3> QED BY <2>1, <3>1, <3>2 DEF CountsInv
  <2>2. ASSUME CountsInv, UNCHANGED vars PROVE CountsInv'
    BY <2>2 DEF CountsInv, vars, situation, Newest
  <2> QED BY <2>1, <2>2, CountsBySnapshot, CountsByPlan, CountsByExecute DEF Next
<1>3. VisitInv /\ CountsInv => TypeOK
  <2> SUFFICES ASSUME VisitInv, CountsInv PROVE TypeOK
    OBVIOUS
  <2>1. steps \in 0..MaxSteps /\ raced \in 0..MaxSnap
    <3>1. Newest(S) \in 0..MaxSnap /\ MaxSnap \in Nat /\ MaxSteps \in Nat
      BY NewestFacts, CatchUpAssumption DEF VisitInv, SituationInv
    <3> QED BY <3>1 DEF VisitInv, SituationInv, CountsInv
  <2> QED BY <2>1 DEF VisitInv, SituationInv, CountsInv, TypeOK
<1> QED BY <1>1, <1>2, <1>3, VisitInitially, VisitInvariant, PTL DEF Spec
=============================================================================
