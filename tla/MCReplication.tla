---------------------------- MODULE MCReplication ----------------------------
(***************************************************************************)
(* Small instances of Replication.  Where the .cfg names two receivers,    *)
(* MCSpec checks two instances at once: one receiver alone within the      *)
(* bounds of the .cfg, and both within the lower ones below.               *)
(***************************************************************************)
EXTENDS ReplicationInvariant

SnapsOfTwo  == 2
FaultsOfTwo == 2

VARIABLE acting   \* the peers that the job pushes to

OnePeer == {CHOOSE p \in Peers : TRUE}

MCInit == Init /\ acting \in {OnePeer, Peers}

MCNext ==
  /\ Next
  /\ UNCHANGED acting
  /\ \A p \in Peers \ acting : step'[p] = step[p]
  /\ acting # OnePeer => taken' <= SnapsOfTwo /\ faults' <= FaultsOfTwo

MCSpec == MCInit /\ [][MCNext]_<<vars, acting>>

=============================================================================
