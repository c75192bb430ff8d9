------------------------------ MODULE MCPushJob ------------------------------
(***************************************************************************)
(* Small instances of PushJob.  Two filesystems side by side and one below *)
(* one of them is the least tree with concurrency and an ancestor; two     *)
(* scheduled targets are the least that can hold up each other.            *)
(***************************************************************************)
EXTENDS PushJob

CONSTANTS p1, p2, parent, sibling, child

OneTarget == <<p1>>
TwoTargets == <<p1, p2>>

Tree == {parent, sibling, child}
TreeUnder == [f \in Tree |-> IF f = child THEN {parent} ELSE {}]
TreeDepth == [f \in Tree |-> IF f = child THEN 2 ELSE 1]

Single == {parent}
SingleUnder == [f \in Single |-> {}]
SingleDepth == [f \in Single |-> 1]

=============================================================================
