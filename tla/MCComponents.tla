---------------------------- MODULE MCComponents ----------------------------
(***************************************************************************)
(* The components that share no state with each other, in one instance for *)
(* TLC: "part" says which of them a behaviour runs, the others stay in an  *)
(* initial state.  Nothing is lost by that, because no action of one reads *)
(* or writes a variable of another.  They are extended, but for the        *)
(* replication, which shares names with the rest and is instantiated.      *)
(*                                                                         *)
(* Five snapshots put every relative order of base, bookmark, partial      *)
(* receive and head, with one snapshot in between, within reach of the     *)
(* loop that plans a visit (CatchUp); the step limit is lowered until the  *)
(* race can meet it.                                                       *)
(*                                                                         *)
(* The event feeds: one event in the writer's queue, and two in the        *)
(* broadcast, overflow both; a replay and a poll of two rows fall behind   *)
(* four.  Sessions: two per token and three logins evict; a refresh comes  *)
(* due before the expiry, and both within the clock.  One periodic job     *)
(* works over two datasets.  A transfer has three chunks of which two fit  *)
(* into the pipes, so that the sender blocks on the receiver, and two      *)
(* upsets, so that one may hit the other.  The limiter's burst is a chunk  *)
(* where the limit is low, half a second of rate where it is high.  The    *)
(* daemon and two dispatchers open the database after an upgrade.          *)
(***************************************************************************)
EXTENDS CatchUp, Sessions, Lifecycle, Transfer, EventLog, Bandwidth, RecvChannel, Migration,
        Retention

VARIABLES
  part,
  taken, snaps, holds, cursors, pushRecv, target, received, lastHold, beheaded, step, disp,
  faults

pushVars == <<taken, snaps, holds, cursors, pushRecv, target, received, lastHold, beheaded,
    step, disp, faults>>

-----------------------------------------------------------------------------
(* Receive channels: two clients share a root and two missing ancestors, the third one  *)
(* has a root of its own but names a target that only looks as if it lay below.         *)
Client(operations, root, dataset) ==
  [jobs |-> {"push"}, operations |-> operations, root |-> root, fingerprint |-> TRUE,
   auth |-> TRUE, job |-> "push", target |-> dataset]
Discard == "control:discard_partial_recv"
Entries ==
  [c1 |-> Client({"recv", "control", "control:proxy_admin"}, <<"t", "b">>,
                 <<"t", "b", "x", "y", "p">>),
   c2 |-> Client({"recv", "control", Discard}, <<"t", "b">>, <<"t", "b", "x", "y", "q">>),
   c3 |-> Client({"recv"}, <<"t", "b">>, <<"t", "bb", "z">>)]
RecvClients == DOMAIN Entries
Lengthened == {<<"b", "bb">>}
Pools == {<<"t">>, <<"t", "b">>, <<"t", "bb">>}

(* Retention: grids that start with keep=all, with a bucket as long as the interval,    *)
(* and three that do not load (lengths that fall, a first bucket that is too long, a    *)
(* count of zero), over a tree whose root is excluded.                                  *)
Term(count, length, keep) == [count |-> count, length |-> length, keep |-> keep]
Grids ==
  {<<Term(1, 1, -1), Term(2, 2, 1)>>, <<Term(2, 1, 1), Term(2, 2, 1)>>,
   <<Term(1, 2, -1), Term(2, 1, 1), Term(1, 3, 1)>>,
   <<Term(1, 1, 1), Term(1, 2, 2), Term(1, 4, 1)>>,
   <<Term(2, 2, 1), Term(2, 1, 1)>>, <<Term(2, 3, 1)>>, <<Term(0, 1, 1)>>}
Tree == [k \in [path : {<<"p">>}, tree : BOOLEAN] |-> k.tree]
Jobs ==
  {[filesystems |-> Tree, interval |-> IF g[1].length = 2 THEN 2 ELSE 0, keep |-> {},
    defaults |-> [interval |-> 1, grid |-> g, protect |-> g[1].length = 1]] : g \in Grids}
ParentAndChild == {<<"p">>, <<"p", "a">>}

(* One receiver, for the convergence of the retries.                                    *)
Push == INSTANCE Replication WITH
  exists <- target, token <- received, last <- lastHold, recv <- pushRecv,
  Peers <- {"p1"}, MaxSnaps <- 3, Mode <- "latest", Faults <- {"token_query"}, MaxFaults <- 2

-----------------------------------------------------------------------------
Parts == {"visit", "events", "auth", "daemon", "channels", "keep", "stream", "limit", "schema",
  "push"}
Inits ==
  /\ Init /\ EventLogInit /\ SessionsInit /\ LifecycleInit /\ RecvChannelInit /\ RetentionInit
  /\ TransferInit /\ BandwidthInit /\ MigrationInit /\ Push!Init

AllInit ==
  /\ part \in Parts
  /\ Inits
  /\ part # "events" => daemon
  /\ part # "daemon" => kind = "snap"
  /\ part # "limit" => rate = 1
  /\ part # "schema" => jobRuns = "absent" /\ syncs = "absent"
  /\ part # "keep" => job = ResolveDefaults(CHOOSE j \in Jobs : Loads(j))

Only(p) ==
  /\ part = p /\ UNCHANGED part
  /\ p # "visit" => UNCHANGED vars
  /\ p # "events" => UNCHANGED eventLogVars
  /\ p # "auth" => UNCHANGED sessionsVars
  /\ p # "daemon" => UNCHANGED lifecycleVars
  /\ p # "channels" => UNCHANGED recvChannelVars
  /\ p # "keep" => UNCHANGED retentionVars
  /\ p # "stream" => UNCHANGED transferVars
  /\ p # "limit" => UNCHANGED bandwidthVars
  /\ p # "schema" => UNCHANGED migrationVars
  /\ p # "push" => UNCHANGED pushVars

\* A receiver that has destroyed its newest snapshot meets EveryPushConverges for good,
\* whatever follows, so its behaviours are followed up to there and no further.
AllNext ==
  \/ Only("visit") /\ Next
  \/ Only("events") /\ EventLogNext
  \/ Only("auth") /\ SessionsNext
  \/ Only("daemon") /\ LifecycleNext
  \/ Only("channels") /\ RecvChannelNext
  \/ Only("keep") /\ RetentionNext
  \/ Only("stream") /\ TransferNext
  \/ Only("limit") /\ BandwidthNext
  \/ Only("schema") /\ MigrationNext
  \/ Only("push") /\ Push!Next /\ beheaded = {}

allVars ==
  <<part, vars, eventLogVars, sessionsVars, lifecycleVars, recvChannelVars, retentionVars,
    transferVars, bandwidthVars, migrationVars, pushVars>>

\* The fairness of each component, where it runs.
AllFairness ==
  /\ WF_lifecycleVars(part = "daemon" /\ JobStep)
  /\ WF_lifecycleVars(part = "daemon" /\ Timeout)
  /\ \A c \in Clients :
       /\ SF_recvChannelVars(part = "channels" /\ Retries(c))
       /\ WF_recvChannelVars(part = "channels" /\ GetsOn(c))
  /\ WF_transferVars(part = "stream" /\ SenderStep)
  /\ WF_transferVars(part = "stream" /\ ReceiverStep)
  /\ WF_transferVars(part = "stream" /\ KeepAlive)
  /\ WF_pushVars(part = "push" /\ Push!PushStep("p1"))
  /\ \A i \in Push!Slots : WF_pushVars(part = "push" /\ Push!Dispatcher("p1", i))
  /\ WF_pushVars(part = "push" /\ Push!OldExits("p1"))

AllSpec == AllInit /\ [][AllNext]_allVars /\ AllFairness

-----------------------------------------------------------------------------
(* The types in one property, and the liveness properties where their component runs:   *)
(* it takes no step elsewhere.                                                          *)

TypesOK ==
  CASE part = "visit" -> TypeOK
    [] part = "events" -> EventLogTypeOK
    [] part = "auth" -> SessionsTypeOK
    [] part = "daemon" -> LifecycleTypeOK
    [] part = "channels" -> RecvChannelTypeOK
    [] part = "keep" -> RetentionTypeOK
    [] part = "stream" -> TransferTypeOK
    [] part = "limit" -> BandwidthTypeOK
    [] part = "schema" -> MigrationTypeOK
    [] part = "push" -> Push!TypeOK

EveryWakeupRuns == part = "daemon" => WakeupRuns
EveryShutdownCleansUp == part = "daemon" => ShutdownCleansUp
EveryClientLands == part = "channels" => EveryTargetLands
EveryTransferEnds == part = "stream" => TransferEnds
EveryPushConverges == part = "push" => Push!Converges

=============================================================================
