-------------------------- MODULE IncrementalReplica --------------------------
(***************************************************************************)
(* What replication promises, without the mechanism: each receiver has a   *)
(* head, the newest snapshot it holds; the sender owns a set of bases (its *)
(* snapshots and its cursor bookmarks); the head of every receiver stays   *)
(* among the bases, so the next send can always be an increment on it, and *)
(* a head only moves forward (ARCHITECTURE.md, "Holds and replication      *)
(* cursor").  A receiver that destroys its own head is lost to that        *)
(* promise, and takes nothing from the others.                             *)
(***************************************************************************)
EXTENDS Integers

CONSTANT Peers

VARIABLES
  newest,   \* snapshots taken so far: they are 1..newest
  bases,    \* snapshots and bookmarks the sender could send an increment from
  head,     \* head[p]: newest snapshot of receiver p, 0 when it has none
  lost      \* receivers that have destroyed their head

vars == <<newest, bases, head, lost>>

Init ==
  /\ newest = 0
  /\ bases = {}
  /\ head = [p \in Peers |-> 0]
  /\ lost = {}

Take ==
  /\ newest' = newest + 1
  /\ bases' = bases \cup {newest + 1}
  /\ UNCHANGED <<head, lost>>

\* The sender forgets snapshots or bookmarks, but never a receiver's head.
Forget ==
  /\ bases' \subseteq bases
  /\ \A p \in Peers : head[p] # 0 => head[p] \in bases'
  /\ UNCHANGED <<newest, head, lost>>

\* A receiver moves to a newer snapshot that is still a base.
Deliver(p) ==
  /\ p \notin lost
  /\ \E s \in bases :
       /\ s > head[p]
       /\ head' = [head EXCEPT ![p] = s]
  /\ UNCHANGED <<newest, bases, lost>>

\* A receiver destroys its head, and is not spoken of any more.
Lose(p) ==
  /\ lost' = lost \cup {p}
  /\ head' = [head EXCEPT ![p] = 0]
  /\ UNCHANGED <<newest, bases>>

Next == Take \/ Forget \/ \E p \in Peers : Deliver(p) \/ Lose(p)

Spec == Init /\ [][Next]_vars

=============================================================================
