# A verification development for arctern

arctern pushes ZFS snapshots over SSH: a daemon on the sending machine takes and
prunes snapshots, plans `zfs send` streams and pipes them into a dispatcher process
(`stdinserver`) on the receiving machine, which runs `zfs recv`. This directory holds
TLA+ models of that program, the TLC runs that check them and TLAPS proofs about them.
Paths below are relative to the repository; `PROJECT.json` maps each definition to the
lines it models.

- [Inventory](#inventory): the parts of the system, their state, operations, hazards
- [Modules](#modules) and how they correspond to the code
- [Runs](#runs): what each one checks, its bounds and the mutations that show it can fail
- [Disagreements](#disagreements-between-code-and-text) the models exhibit
- [Proofs](#proofs)
- [Limits](#limits) and what is not modelled
- [Plan](#plan)

## Inventory

### Sender

**Replication planner** (`daemon/src/jobs/push/plan.rs`). Stateless. From the filtered
snapshots of the sender, all snapshots of the receiver's target, the receiver's resume
token and the sender's bookmarks it picks one plan: nothing, full, incremental (`-i`, or
`-I` in `all` mode), incremental from a bookmark, resume; or it refuses (diverged,
placeholder). Hard: partial receives that no longer match the sender, receivers fed by
other tools, bookmarks that are newer than any common snapshot. Correct when every plan
applies at the receiver as long as any common base exists, and `nothing` means done.

**Replication step** (`step.rs`, `holds.rs`). State lives in ZFS only: step holds
`arctern_step_J_<job>_P_<peer>` on both ends of the stream, cursor bookmarks
`arctern_cursor_G_<guid>_J_<job>_P_<peer>`. A step places holds, sweeps stale ones,
sends, waits for the terminal response, creates the new cursor, destroys the old ones,
releases the holds. Hard: each of these is a separate command; the process may die, the
link break, the transfer be cancelled or prune run between any two. Correct when
incrementality is never lost (the receiver's newest snapshot stays anchored on the
sender), a partial receive stays resumable, cursors record only confirmed snapshots and
holds do not pile up.

**Push job** (`daemon/src/jobs/push/mod.rs`). In memory: pause flag, queue of manual
requests, token of the running cycle, progress of the transfers, per-peer history seeded
from SQLite. A loop naps until the earliest target is due, woken by requests or
connectivity changes; a cycle visits the selected peers in order; a visit replicates the
filesystems by depth levels, several at a time; a filesystem is planned and stepped
until it is up to date, at most 16 steps. Control calls (send now, cancel, pause,
resume, wake up) come from HTTP handlers on other threads at any point. Correct when no
request is lost, no peer starves, history survives restarts, statuses tell the truth
and a parent is never shadowed by the placeholder that its child's receive creates.

**Job framework, snap and prune jobs** (`jobs/mod.rs`, `periodic.rs`, `snap.rs`,
`prune.rs`). A manager that starts the jobs, routes control calls by name and shuts
down with a time limit; periodic loops; `prune_dataset` skips held and busy snapshots.
They interact with replication through ZFS alone: everything a plan has read may be
pruned before it is used.

**Transfer** (`execute_one_plan` in `step.rs`, `RecvChannel` in `peer/mod.rs`). A copy loop
from `zfs send` into an SSH channel, then the frame with the receiver's verdict. Hard:
either command may end first, with pipes full or empty in between; a cancel comes in the
middle of a write; a link falls silent. Correct when what the sender reports is true of the
receiver, and neither end waits for ever.

**Bandwidth limiter** (`limiter.rs`): a token bucket shared by the concurrent sends of a
job; large writes go into debt. Correct when they keep to the rate together.

**Peer links** (`daemon/src/peer/`). Per peer: ranked SSH routes, the live link, an
active route, probe and reconnect loops with back-off, a guard that counts running
receives, published through a watch channel. Hard: probes against slow links, re-ranking
under a transfer, a dead link that looks alive.

### Receiver

**Dispatch and ACL** (`stdinserver/dispatch.rs`, `acl.rs`): each SSH channel starts a
process that checks the key's fingerprint, the client's operations and its root
filesystem, then serves one channel: control, receive or events.

**Receive channel** (`recv.rs`, `recv_lock.rs`): under a non-blocking flock per dataset,
abort a stale partial receive if asked, create missing ancestors as unmounted
placeholders, run `zfs recv -s`, answer; after the lock is gone, move the last-received
hold. Hard: several such processes for one target, senders that gave up long ago.

**Control channel** (`control.rs`): snapshot listing with the resume token, discarding a
partial receive, and a proxy to the daemon's HTTP API. **Event bridge** (`events.rs`):
polls SQLite and streams log events.

### Both

**State database** (`daemon/src/state/`): log events, job runs, push history, receive
transfers, ARC statistics; a trimmer; reconciliation of runs that a crash left running;
the migration of databases of earlier releases, which the daemon and any dispatcher may be
at simultaneously.
**Authentication** (`auth.rs`): peer credentials of the UNIX socket, admin token, browser
sessions that roll forward, expire and are evicted. **HTTP API** (`router.rs`,
`handlers/`): job control, event streams with a backlog, reads of ZFS and SQLite.
**Start and shutdown** (`main.rs`). **Configuration** (`crates/config`): schema,
validation, retention grid, prune rules, filters. **Wire protocol and client**
(`crates/transport`, `crates/client`, `crates/api`). **Admin UI** (`admin-ui`):
presentation plus two stream stores that reconnect and resume.

The hazards of all of these, each at its line, are listed in `PROJECT.json`.

## Modules

| Module | Models | State, actions |
| --- | --- | --- |
| `Planner` | `plan.rs` | pure operators, one per function, ending in `PlanOne` |
| `Replication` | one filesystem of a push job and its receivers: `step.rs`, `holds.rs`, `recv.rs`, `control.rs`, prune | sender and receiver datasets, holds, cursors, the step in progress, dispatcher processes; one action per ZFS command or message of the protocol |
| `IncrementalReplica` | the promise of ARCHITECTURE.md, "Holds and replication cursor" | the abstract specification that `Replication` implements |
| `ReplicationInvariant` | - | the inductive invariants `AnchorInv`, `Partial`, `IInv` and `HoldsInv` of `Replication` |
| `CatchUp` | `replicate_one`, the loop around the planner | two datasets in any consistent situation; plan, execute, snap job |
| `PushVisit` | `run_for_peer`, `replicate_one`, `replicate_step` over a tree of filesystems | per-filesystem progress, targets on the peers; claim, plan, send, finalize |
| `PushJob` | `PushJob::run`, `run_and_record`, `select_targets`, `run_cycle`, control calls | loop phase, flags, queue, history in memory and in SQLite; extends `PushVisit` |
| `PeerLink` | `peer/`, `open_recv` and `RecvGuard`, `handlers/peers.rs` | routes, sessions, the reconnect loop and its entry; visits and event streams that use the link |
| `RecvChannel` | `dispatch.rs`, `acl.rs`, `recv.rs`, `recv_lock.rs`, `control.rs` | datasets of the receiver, flocks, one dispatcher per client |
| `EventLog` | `state/log_events.rs`, `handlers/events.rs`, `stdinserver/events.rs`, the UI's event store | queue, table, broadcast, one stream with its client, one poller |
| `Sessions` | `auth.rs` | rows of `browser_sessions`, requests between their two statements, the clock |
| `Lifecycle` | `main.rs`, `jobs/periodic.rs`, the cycles of `snap.rs` and `prune.rs`, `state/job_runs.rs`, reconciliation | the process, shutdown stages, one periodic job, its rows |
| `Retention` | `crates/config/src/grid`, `prune.rs`, `filter.rs`, defaults and validation of a snap job | the job as loaded, the clock, a cycle over datasets, their snapshots |
| `CursorNames` | `holds.rs` (cursor names), `validate_identifier` | the cursors of one dataset under two replications |
| `Transfer` | `execute_one_plan` (`step.rs`), `open_recv` and `RecvChannel` (`peer/mod.rs`), `drive` (`recv.rs`), the frames of `protocol.rs` | sender's copy loop, `zfs send`, pipes, link, dispatcher, lock, the verdict's way back |
| `Bandwidth` | `limiter.rs` | the bucket, streams that write, account and sleep, the clock |
| `Migration` | `open`, `migrate`, `repair_pre_ledger_schema` (`state/mod.rs`) | shapes of two tables, processes between the statements |
| `MC*` | - | instances for TLC; `MCComponents` puts ten components side by side |
| `*Proofs` | - | theorems, see [Proofs](#proofs) |

**Snapshots** are 1, 2, 3, ... in creation order. One integer stands for the GUID and for
the creation transaction, which is what the planner compares; a bookmark is the integer
of its snapshot. Names, sizes, bytes, properties and send flags are left out.

**Replication** follows the step through its commands: `ListSender`, `PlanFilesystem`
(with the failing reads that the code tolerates), `DiscardPartial`, `PlaceHolds`,
`SweepStale`, `OpenRecv`, `ReadResponse`, `AdvanceCursor`, `SweepCursors`,
`ReleaseHolds`. `Abandon` ends a step at any of these points and stands for a crash, a
restart, a broken link, a cancellation and a lost reply alike: nothing but ZFS remembers
anything, so they do not differ afterwards. The dispatcher of an abandoned step lives on
in the slot `old`; it may land what is complete and moves the last-received hold.
`PlaceHolds` is the two `zfs hold` commands in one action: a base whose target can no longer
be held, by a crash or a prune in between, is its second disjunct, and nothing else can tell
the two moments apart.

Prune picks any snapshot that ZFS lets go, on either side, which covers every retention
rule. That includes the receiver's newest snapshot, which no rule need spare
(crates/config/src/grid/retention.rs:278-288): only the last-received hold does, and it is
not there yet between `RecvLand` and `AdvanceLastHold`, nor after a hold that failed. The
history variable `beheaded` has the receivers whose prune came at such a moment, and
`Intact` the others; see [Limits](#limits) for what that condition means.

**CatchUp** starts where `Replication` never gets from an empty start: foreign bookmarks,
snapshots hidden by the filter, receivers fed by another job, stale tokens.

**PushVisit and PushJob** reduce a step to what it does to the target: absent, partial,
placeholder or present. Time stamps are `fresh` (younger than the peer's cadence) or
`old`; a nap may end at any time, so the arithmetic of `next_wake` is not modelled.
Control calls of two halves (`request_push` queues, then wakes; `pause` sets the flag,
then cancels) are two actions, and one call at a time is between them.

**PeerLink** has one step per await of `run_for_peer`: each route tried by
`connect_ranked` (at start and when it re-ranks), the nap between attempts, the tick,
the answer to a probe or its failure. A session is up, half (the peer is gone, nobody has
noticed) or closed, and lives as long as a clone of the link does. `open_recv` is split
where the code is: the remote process is spawned before the receive is counted, and only
counted receives suspend the probes. A probe may fail because a receive that began after
the check starves it; that tears down a good link, as the code does. The reader of a
link's events is started by the first subscriber and dies with the session.

**RecvChannel** gives every client a fixed entry of `[[allowed_clients]]` and a target.
Probing for missing ancestors and creating them are separate steps, so that dispatchers
under different locks can be in each other's way; the flock is dropped with the process.
`Replication` models what a stream does to a target's snapshots and holds; here a target
is absent, partial or received.

**Transfer** has one action per await of the copy loop and of the dispatcher. A write is one
chunk, of which a few fit in between, so that either end may find itself blocked on the
other. A link is up, silent (nothing passes, neither end knows) or down, and the receiver's
sshd may notice before the sender's ssh. A transfer that fails drops its channel, and its
dispatcher may still hold the target's lock when the next one asks for it. The stall timer
only changes what the console shows and is left out.

**Bandwidth** counts parts of a chunk, and time in half seconds, the unit of the burst. The
ghost `excess` is the most that was sent over any stretch of time that ends now, less what
the rate allows for it.

**Migration** tells databases apart by the shapes of `job_runs` and `push_syncs`. Each
inspection of the schema, each statement outside a transaction and the transaction itself
is a step; a process may end between any two, and others are at the same file.

**EventLog** numbers events by their row. Insert and broadcast are two steps of the
writer, subscription and backlog two steps of the stream. The client is the admin UI's
store: it resumes after the newest event that it holds and drops what is not newer.
`settled` records, per event, that the client saw it or that the code is documented to
skip it (lag of the broadcast, retention, replay cap, a failed read).

**Sessions** splits a validation into its SELECT and its UPDATE or DELETE, with the clock
read once before. A request takes less than a refresh interval.

**Lifecycle** follows the process from bind to exit, the cancellation and the stages of
the shutdown, and `PeriodicJob::run` with its timer and its `Notify`. The cycle of a snap
job snapshots all datasets, then prunes all of them. The start's parts that keep no state
are left out, the daemon is alone (the socket's bind does not exclude a second one, see
[Limits](#limits)).

**Retention** reads a job as the configuration does (maps to filters, defaults,
validation) and then lets its cycles run against a clock, with late cycles, wakeups,
restarts, held victims and snapshots that a user takes (`create_snapshot`, with the
datasets below or without). Ages count from the youngest
snapshot, as in `GridSpec::fit`.

**CursorNames** takes an identifier apart at its underscores, so that a suffix of a name
is a suffix of a sequence of words. All other modules take the names of replications to
be apart, which disagreement 5 shows to be an assumption.

Definitions marked `Mutation:` are not part of the specifications. Each is a plausible
slip in the code (a dropped guard, a wrong snapshot, a swapped order); put in place of
the definition that follows it, it makes one property fail. `PROJECT.json` pairs every
property of every passing run with one.

## Runs

All runs set `CHECK_DEADLOCK FALSE`: bounded histories and failure budgets end, and a
stopped daemon is allowed to stay stopped.

| Run | Checks | Bounds and why they suffice |
| --- | --- | --- |
| `ReplicationLatest` | `HeadAnchored`, `NextPlanApplies`, `ResumeStaysPossible`, `IInv` (with the types), `ImplementsReplica` | 2 failures; 1 receiver with 4 snapshots: an increment interrupted, retried and interrupted again while prune takes everything it can, with one snapshot more than the step names; and 2 receivers with 2 snapshots (`MCSpec` of `MCReplication`): tags and cursors of two peers on the same snapshots, a planner that sees the bookmarks of both, one receiver that destroys its newest snapshot beside one that does not |
| `ReplicationFaults` | `CursorNotAhead`, `CursorNeverLost`, `HoldsDoNotAccumulate` | `all` mode, late landings and failing token queries, 4 snapshots, 2 failures |
| `PushJob` | `TypeOK`, `NoDoomedFull`, `NoRequestSleeps`, `FailedFullStaysAbsent`, `OkMeansComplete`, `HistorySurvives` | 1 scheduled target; parent, sibling and child; 2 slots; 2 steps; 1 failure; 2 control calls or later route changes |
| `PushJobLive` | `DuePeersAreServed` | 2 scheduled targets, 1 filesystem, 1 failure, 1 control call |
| `PeerLink` | `EntryTruthful`, `DeadLinkIsReplaced`, `BestRouteWins`, `FeedFollowsLink` | 2 routes, 1 visitor, 4 session numbers (loop, entry, visitor and stream can hold different ones), re-ranking every second tick; routes come and go without bound |
| `Components` | the types and properties of `CatchUp`, `EventLog`, `Sessions`, `Lifecycle`, `RecvChannel`, `Retention`, `Transfer`, `Bandwidth`, `Migration`, and `EveryPushConverges` of `Replication` | see below |
| `ReplicationAll`, `ReplicationLastHold`, `PushJobResume`, `PushJobPlaceholder`, `PeerEvents`, `CursorNames` | one statement of the repository's text each, which the code does not keep | as small as the behaviour allows |

*Components* is not a composition. The ten components share no variable, and the run
checks each of them alone: `part` says which one a behaviour runs, the others stay in an
initial state, and `AllSpec` assumes of each component the fairness stated in its module.
(A product would only multiply states: no action of one reads what another writes.) What
does interact is in one module: job, visits and history in `PushJob`; sender, receiver,
prune and dispatchers in `Replication`; loop, visits and streams in `PeerLink`. The bounds:

| Part | Bounds and why they suffice |
| --- | --- |
| `CatchUp` | 5 snapshots, every consistent pair of datasets with at most one foreign bookmark, 4 steps, both modes: every order of base, bookmark, partial receive and head |
| `EventLog` | 4 events; the queue holds 1, the broadcast 2, a replay and a poll 2, a poller starts 1 back: each of them overflows |
| `Sessions` | 2 tokens, 2 requests, 3 logins with room for 2, expiry after 3 ticks and refresh after 2, clock up to 3: two refreshes race a logout, an eviction, an expiry |
| `Lifecycle` | 2 datasets, 2 cycles, 1 failure: a crash in one of the cycles, or one dataset that fails where the other does not, or a statement on `job_runs`; the theorems hold for any number |
| `RecvChannel` | 3 clients, 2 failures: two share a root and two missing ancestors, the third one's target only looks as if it lay below its root |
| `Retention` | clock up to 8, 7 grids (4 load, 3 must be refused), a cycle of up to 1 s, 1 mishap: the history is twice as long as the grids |
| `Transfer` | 3 chunks, of which 2 fit in between, 2 transfers, 2 upsets: the sender blocks on the receiver, one failure hits the other's clean-up, and a retry meets the old dispatcher |
| `Bandwidth` | 3 streams, writes of up to 2 parts, rates of 1 and 3 per tick: the burst is a chunk at one rate, half a second's worth at the other; the bound is reached |
| `Migration` | the daemon and 2 dispatchers on every combination of shapes, 2 ends of processes or statements |
| `Replication` | 1 peer, 3 snapshots, 2 failures, failing token queries: both ends fail before the retries converge; a behaviour is left where the receiver destroys its newest snapshot, as `EveryPushConverges` holds from there on whatever happens |

What the main properties say:

- `HeadAnchored`: the newest snapshot of every intact receiver (one that has not destroyed
  its newest snapshot) carries this peer's step hold or is recorded by its cursor, at every
  instant. Losing it means a full resend.
- `NextPlanApplies`: whatever a step left behind, the next plan for an intact receiver is
  neither diverged nor a placeholder, and an incremental base is the receiver's newest
  snapshot.
- `ResumeStaysPossible`: target and base of an intact receiver's partial receive survive on
  the sender. `CursorNotAhead`: a cursor records only what such a receiver has.
- `ImplementsReplica`: the head of an intact receiver only moves forward and the sender
  never forgets it; a receiver that destroys its head is lost to the promise and takes
  nothing from the others.
- `AnchoredPlanApplies`, `EndsTruthfully`, `StepsFollowTheRace`: the planner finds the one
  base that applies, reports divergence only for datasets that share nothing, stops only
  when there is nothing left, and takes two steps plus one for each snapshot that races
  ahead.
- `NoDoomedFull`, `FailedFullStaysAbsent`: the depth levels and the blocking of
  descendants keep a full stream away from a dataset that exists.
- `DeadLinkIsReplaced`, `BestRouteWins`, `FeedFollowsLink`, `EntryTruthful`: a session that
  died under a receive is noticed although receives suspend the probes; back in reach of
  the best route the peer ends up on it; a browser's stream ends with its link; the entry
  that scheduler and API read names the route that its link uses, and no other.
- `SentOnce`, `NoSilentGap`: the overlap of backlog and live events
  is cut exactly, a client that reconnects after any break or restart misses nothing that
  is not documented as skipped, and polls of a limited size do not jump over rows.
- `SessionCap`, `RemovedStaysOut`, `UseProlongs`: concurrent validations neither revive a
  session that was removed nor shorten one, and logins keep the table within its limit.
- `RunningRowsAreLive`, `FinishedCycleIsHonest`, `EveryWakeupRuns`, `EveryShutdownCleansUp`: no crash
  leaves a job shown as running, a cycle reported as ok did everything on every dataset,
  no wakeup is lost whenever it comes, and a shutdown ends and removes the socket.
- `ChangesAreGranted`, `EveryClientLands`: no sequence of channels of several clients
  changes what its client may not change; dispatchers that race for shared ancestors fail
  each other only for a while.
- `VerdictTruthful`, `EveryTransferEnds`: "ok" means that the whole stream landed, "refused" that
  it did not, and a cancel over a live link returns only after the dispatcher has let go of
  the target; wherever a transfer is interrupted, both ends come to an end.
- `RateHolds`: over any stretch of time, and after any idle gap, all streams together send
  no more than the rate, the burst and a chunk each.
- `OldDatabasesSurvive`: no crash and no second process at the same migration loses a run
  or leaves a process working on an old schema; the last successes are carried over, but
  for one window (see [Limits](#limits)).
- `GridHoldsHistory`: across repeated prunes on datasets that age, the leading `keep=all`
  buckets lack nothing that was ever taken, and nothing is given up but for something
  older, until that has outlived the whole grid. It does not say how far apart the survivors
  are (see [Limits](#limits)).
- `NoRequestSleeps`: no lost wakeup. `OkMeansComplete`: a peer recorded as ok has left
  out no filesystem. `HistorySurvives`: no restart and no failing read of the history
  resends unasked to a peer that the history shows to be in sync, once the history is loaded;
  until it could be read, peers look as if they had never synced.

**Fairness.** `EveryPushConverges` assumes weak fairness of the push step and of each
dispatcher process, per peer: the loop of `PushJob::run` wakes on a timer for ever, and
a dispatcher runs until its input ends. It assumes nothing of snapshots, prune and
failures, which the bounds exhaust. It speaks of receivers that stay intact, and of runs
without late landings: where one may come at any time, a receive that was given up long ago
can leave a head that the sender no longer anchors, and such a pair may never converge. `PushJobLive` assumes weak fairness of the loop as a
whole and of the second halves of control calls: tokio polls a task whose timer fired, a
started handler finishes. No link change, control call or passing of time is assumed to
happen. `PeerLink` assumes it of the loop (its timers fire, its calls return or time
out), of a transfer that has begun, of a session whose route is gone (it breaks, then ssh's
keepalives notice, `SERVER_ALIVE_INTERVAL`) and of the tasks that see a channel close.
`Lifecycle` assumes it of the job's task, which tokio polls when it is ready, and of the
shutdown timer. `RecvChannel` assumes weak fairness of a running dispatcher and strong
fairness of each client's retries: the lock is free again and again, and the sender's loop
tries again for ever, with plans that do not always ask for a discard. `Transfer` assumes
weak fairness of the sender's task with its `zfs send`, which ends, of the dispatcher with
its `zfs recv`, which takes what it is given, and of the keep-alives by which ssh and sshd
notice a silent link (`SERVER_ALIVE_INTERVAL`, TCP's own at the receiver): nothing of
retries, cancels or failures.

## Disagreements between code and text

1. *Intermediate snapshots of a `-I` stream* (`ReplicationAll`; step.rs:279-281,
   ARCHITECTURE.md:213-215). Busy protects them only while `zfs send` runs. After an
   interruption the receiver's newest snapshot may be an intermediate that prune then
   destroys on the sender; the next increment is refused for ever.
2. *Resume after pause* (`PushJobResume`; jobs/mod.rs:138-139, handlers/jobs.rs:146).
   Pause records a cancelled attempt, and a cancelled attempt counts as the peer's last
   sync for scheduling; resume wakes a loop that finds nothing due. A graceful restart
   of the daemon has the same effect.
3. *Placeholders* (`PushJobPlaceholder`; push/mod.rs:547-556). A parent that fails in
   planning does not keep its descendants out.
4. *A peer's event stream* (`PeerEvents`; handlers/peers.rs:254-257 says that it ends
   rather than stalls). The receiver's daemon may stop without the SSH session ending; the
   reader then ends, but the sender of the broadcast stays in the link's `OnceCell`
   (peer/mod.rs:329): open streams stay silent, and new ones subscribe to a reader that is
   gone, until the link itself is replaced.
5. *Cursor names* (`CursorNames`; crates/config/src/lib.rs:306-324). The markers `_J_` and
   `_P_` are kept out of identifiers, but a name may start or end with half of one. Job `a`
   and peer `P_b` have the cursors of job `a_P` and peer `b`; the cursors of job `J_a` end
   like those of job `a`, which destroys them as stale.

6. *Last-received hold* (`ReplicationLastHold`; ARCHITECTURE.md:276-280 "keeps a
   receiver-side prune job from destroying the last common snapshot between syncs"). The hold
   is placed after the stream has landed and the lock is gone (recv.rs:145-155), and the step
   is committed whether it could be placed or not. A receiver's prune that comes first may
   destroy what has just landed. The sender then records a cursor that the receiver does not
   have and gives up the one that it has; its own prune does the rest, and every later plan
   is "diverged". No fault is needed.

Questions without a text to compare with are hazards with a note, among them: pausing
while every transfer is finalizing does not stop the cycle; a cancel drops manual
requests that the cycle has taken but not reached; a cycle cancelled between steps is
recorded as ok in `job_runs`.

## Proofs

TLAPS proves the following for any sets of peers, filesystems, clients, sessions and
streams, any history length and any number of failures. Beyond what the statements
themselves condition on (`Scope` and `ResumeScope`; in `Replication` the receivers of
`Intact`) and what [Limits](#limits) says of the models, only the named assumptions on the
constants are used, which TLC evaluates in the runs. They say that finite bounds
are naturals and that modes and fault kinds are of the enumerations, and otherwise:

| Assumption | Module | What the code gives for it |
| --- | --- | --- |
| `VisitAssumption` | `PushVisit` | an ancestor is less deep than what lies below it; a cycle allows a step, a semaphore a slot |
| `JobAssumption` | `PushJob` | the targets are a sequence of peers (one peer may occur twice) |
| `LinkAssumption` | `PeerLink` | a peer has a route; there is one session number more than loop, entry and visitors can refer to at the same time |
| `SessionsAssumption` | `Sessions` | the refresh interval is not zero |
| `TargetsAssumption` | `RecvChannel` | the targets lie apart (see [Limits](#limits)); only `RecvChannelTypeCorrect` uses it |
| `BandwidthAssumption` | `Bandwidth` | rate and chunk are not zero, streams are finitely many |
| `EventLogAssumption` | `EventLog` | the broadcast keeps at least one event |
| `RetentionAssumption` | `Retention` | the interval and the terms of a grid are read as whole numbers; that a grid is in order is not assumed, loading checks it |

| Module | Theorem | States |
| --- | --- | --- |
| `PlannerProofs` | `PlanOneWellFormed` | every plan is well formed, for any datasets and any failing reads |
| `ReplicationProofs` | `TypeCorrect` | `TypeOK` and mutual exclusion of receives |
| `ReplicationProofs` | `AnchorInvariant`, `HeadStaysAnchored`, `CursorsConfirmed` | `AnchorInv`, `HeadAnchored`, `CursorNotAhead`, under `Scope` |
| `ReplicaProofs` | `ReplicationImplementsReplica` | refinement of `IncrementalReplica`, under `Scope` |
| `ReplicaProofs` | `PartialInvariant`, `InterruptedStaysResumable`, `PlansAlwaysApply` | `IInv`, `ResumeStaysPossible`, `NextPlanApplies`, under `ResumeScope` |
| `ReplicaProofs` | `CursorsAreNeverLost`, `HoldsAreSwept` | `CursorNeverLost`, `HoldsDoNotAccumulate`, in every mode and under every fault |
| `CatchUpProofs` | `AnchoredPlansApply`, `VisitsEndTruthfully`, `VisitsAreShort`, `CatchUpTypeCorrect` | `AnchoredPlanApplies`, `EndsTruthfully`, `StepsFollowTheRace`, `TypeOK` of `CatchUp` |
| `PushJobProofs` | `TypeCorrect`, `FullSendsFindRoom`, `FailedFullsStayAbsent`, `OkIsComplete`, `HistoryIsHeeded`, `RequestsNeverSleep` | `TypeOK`, `NoDoomedFull`, `FailedFullStaysAbsent`, `OkMeansComplete`, `HistorySurvives`, `NoRequestSleeps` |
| `PeerLinkProofs` | `EntriesAreTruthful` | `EntryTruthful` |
| `StreamProofs` | `TransfersTellTheTruth`, `TransferTypeCorrect` | `VerdictTruthful`, types of `Transfer` |
| `StreamProofs` | `ClientsStayWithinGrants`, `RecvChannelTypeCorrect` | `ChangesAreGranted`; types of `RecvChannel`, with the locks and the tree of datasets |
| `StreamProofs` | `EventsAreSentOnce`, `EventsLeaveNoGap`, `EventLogTypeCorrect` | `SentOnce`, `NoSilentGap`, types of `EventLog` |
| `StreamProofs` | `StreamsKeepTheRate`, `BandwidthTypeCorrect` | `RateHolds`, types of `Bandwidth` |
| `DaemonProofs` | `RunningRowsStayLive`, `FinishedCyclesAreHonest`, `LifecycleTypeCorrect` | `RunningRowsAreLive`, `FinishedCycleIsHonest`, types of `Lifecycle` |
| `DaemonProofs` | `SessionsAreCapped`, `RemovedSessionsStayOut`, `UsedSessionsLiveOn`, `SessionsTypeCorrect` | `SessionCap`, `RemovedStaysOut`, `UseProlongs`, types of `Sessions` |
| `DaemonProofs` | `DatabasesSurvive`, `MigrationTypeCorrect` | `OldDatabasesSurvive`, types of `Migration` |
| `DaemonProofs` | `GridHoldsItsHistory`, `RetentionTypeCorrect` | `GridHoldsHistory`, types of `Retention` |

`Scope` is `latest` mode without late landings: in `all` mode the first disagreement
above refutes `HeadAnchored`, and a late landing breaks it too. Within it the theorems speak of
every receiver that has not destroyed its newest snapshot; the sixth disagreement shows that
they could not speak of the others. `ResumeScope` adds that the
query for the receiver's token does not fail: a step that plans without the token it should
have seen may release what the partial receive needs.

*The anchor argument.* `HeadAnchored` is not inductive. A sweep of stale holds removes
every tag but those of the step in progress, so the step must be known to keep the
receiver's head or to rely on a cursor (`StepKeepsHead`); that follows from what the
planner saw if the listing was complete for this peer's holds (`ListingCovers`). A
landing moves the head to the target of the stream, so the target must be held
(`TargetHeld`) and must be the one of the step (`DispatcherServesStep`). A commit
releases all tags, so what it commits must be the head (`CommitIsHead`) and recorded
(`CursorIsHead`). A resumed stream lands on the head because a partial receive always is
an increment on it (`PartialOnHead`). `Anchor` is the conjunction of these parts,
`AnchorInv` adds the types and the flock and asks for `Anchor` of every intact receiver.
A receiver's state is touched by its own step, dispatchers and prune only
(`PushStepIsLocal`, `ReceiverIsLocal`); of what the others do, a sender's prune is the one that
could hurt it (`AnchorOthers`). So each action's lemma is about one receiver, with one step
per part. A receiver that destroys its newest snapshot leaves `Intact` for good
(`BeheadedGrows`), and nothing is claimed of it.
The planner enters only through lemmas of `PlannerProofs`.

*Partial receives.* `ResumeStaysPossible` and `NextPlanApplies` need in addition that the
snapshot a partial receive waits for is held (`PartialHeld`), that a step which found a
partial receive has discarded it or goes on with it (`PartialIsTarget`), that a commit leaves
none behind (`CommitIsClean`) and that an empty target exists only as a partial receive
(`ContentExists`). `IInv` is `AnchorInv` with these parts; the two properties then follow from
what the planner does with such a pair of datasets.

*Refinement.* `newest` is `taken`, `bases` the live snapshots and cursors, `head` the
receiver's newest snapshot, `lost` is `beheaded`: taking a snapshot is `Take`, every prune on
the sender, sweep or cursor step is `Forget`, the landing is `Deliver`, a receiver's prune is
`Lose` when it takes the newest snapshot, the rest stutters; that `Forget` never forgets a
head is `HeadAnchored` in the next state. What comes from a receiver that is lost must not
bring in bases either: a commit to it may record a snapshot as cursor, but one that was
held, hence a live snapshot and a base already (`HoldsInv`).

*Holds.* A peer's tags are on snapshots that live, and until the sweep they lie within what
its step has listed or within the two ends of the step (`SweepSeesHolds` in `HoldsInv`); so
what a sweep that works leaves is what it was told to keep.

*One visit's plans.* `FreshPlan` says what a plan that is made now is worth, whatever both
datasets hold: the newest common base, a target with nothing skipped. `VisitInv` carries that
through the visit: until the step has run, snapshots are only added, and on top
(`PlanInv`); what was added up to the receiver's newest has landed (`LandedInv`). After the
first step both sides share the receiver's newest, so from then on the steps and what is
still ahead together grow only with the race (`RaceInv`). `CountsInv` bounds them.

*A visit's filesystems.* `NoDoomedFull` holds because the levels wait: nobody below the
current depth has left the queue (`LevelsWaited`), so a full plan's target cannot have been
made a placeholder by a descendant, and a failed full plan blocks the descendants
(`FullPlansInv`). Every skipped or unfinished filesystem of a visit is explained by a fired
token or by the step limit (`EndsExplained`), which makes `ok` mean complete. Memory that
was loaded is never behind the ledger (`HistoryInv`).

*No lost wakeup.* `RequestCovered` strengthens `NoRequestSleeps`: a queued request
always has its wakeup pending or on the way, or the loop has yet to select, or has ended.

*Peer links.* The entry has the loop's link, and a route counts as connected exactly when the
link's session has it (`LoopInv`). Readers of events run only for sessions in use
(`ReadersServe`), so that a new session always finds a free number.

*Rows of cycles.* `RunningRowsAreLive` holds only where the database has been reconciled;
`RunsInv` adds that rows are used once, that none beyond the counter is in use, and that
between two cycles none belongs to the loop. `CycleInv` ties what a cycle has left to what
it has tried, loop by loop, so that at its end everything was tried and an unmarked failure
is impossible.

*Sessions.* Ids are used once and a removed one has no row (`RowsInv`); a request
whose session went before its SELECT is still waiting for it, one that the SELECT found due
finds its own row or none, and its clock reading is less than a refresh interval old
(`RequestInv`), so that an UPDATE that comes late takes less than that interval back: no
row falls that far below the last grant, and grants lie in the past (`GrantInv`). The cap
needs that the sweep, the eviction and the insert are one transaction: at most one row comes,
and one goes when the table is full.

*Migration.* `MigrationInv` follows every process through the statements: past the one that
repairs a table, the table is repaired, and the column is empty only while somebody has yet
to fill it or has ended in between.

*Transfers.* `FrameInv`: the frame repeats the verdict of a dispatcher that has exited, and
a verdict of ok is that of a whole stream. `ResultInv`: a result is kept only while no
transfer runs, and nothing that it speaks of changes in the meantime. `ChunksInv` accounts
for the chunk that the sender has in hand.

*Channels.* A dispatcher past admission serves a client that may receive its target
(`ChannelInv`), and all that it creates is on the way from the client's root to there. With
`LocksInv` and `TreeInv`: nothing that is aborted lies above a dataset that stays.

*Events.* What a stream has still to send is ascending and newer than what the client has
(`StreamInv`): first the rest of the backlog, up to `last`, then what is broadcast past it.
`GapInv`: every event of the daemon's own is with the client or given up, or is ahead of the
client and on the way; a poll has seen all rows up to where it is (`PollInv`).

*Bandwidth.* What was sent over a stretch of time is what the bucket is short of plus what
streams have written and not accounted (`SentInv`); the bucket's debt never exceeds a chunk of
every stream, since a stream that owes sleeps until the debt it saw is paid (`BucketInv`).
Sums over the streams are functions that satisfy their recursion (`PartialSums`), as the
fold itself cannot be reasoned about.

*Retention.* A grid's buckets are a recursion over its terms, and the prover has no
induction over an operator. The lemmas use the least counterexample instead: were there a
prefix of the grid without a solution of the recursion, or a bucket's end that is no natural
number, then there would be a first one, and the one before it refutes it (`EndsExist`,
`EndsAscend`, `FlatsExist`, `FlattenType`). With the ends known, a snapshot younger than the
grid's end lies in a bucket (`BucketFound`), and `GridSpec::fit` spares it in a leading
`keep=all` bucket and where nothing is older (`FitSpares`). Ages only grow with what is taken
(`AgesGrow`), so a new snapshot keeps the promise (`PromiseGrows`), and so does a prune, by way
of the oldest own snapshot there is (`PromiseThins`). Other rules and spared victims only keep
more.

Only model-checked:

- *Liveness* (`DuePeersAreServed`, `DeadLinkIsReplaced`, `BestRouteWins`, `FeedFollowsLink`,
  and the properties of `Components` that begin with `Every`): needs `ENABLED`, which the
  proof system does not treat.
- `TypesOK` as one formula: it asks of each part what the theorem about that component's
  types states for every value of the constants.
- What the runs that expect a violation refute.

## Limits

- One abandoned dispatcher per peer at a time, one control call at a time between its
  halves, and the counters named in the `.cfg` files.
- *Receivers that destroy their newest snapshot.* Most properties of `Replication` speak of
  `Intact` receivers. What takes a receiver out is its own prune, naming the newest snapshot
  between the landing and the last-received hold, or after that hold failed. Rules
  that cannot name it exclude this: a grid that begins with `keep=all` and whose
  regular expression matches it (the newest match has age 0 and lies in the first bucket), or a
  regex rule that protects it. A grid that keeps the oldest of its first bucket can name it.
  Once out, a receiver stays out of `Intact`, also when a later step catches up with it. (An
  operator who destroys it by hand is another way out.)
- A late landing after the sender planned again can leave the receiver with a head that
  the sender no longer anchors. `ReplicationFaults` admits it and checks what survives.
- `AnchoredPlanApplies` names one exception: in `latest` mode, when the sender's newest
  matching snapshot is older than the receiver's head and a bookmark records that head,
  the fallback plans an increment back to it (plan.rs:207-279 asks whether anything is
  left past the bookmark in `all` mode only). zfs send refuses; the job shows an error
  until the next snapshot.
- `Replication` and its theorems take for granted that nobody releases a step hold or
  destroys a cursor by hand. The API lets an operator release `arctern_*` holds, as the way
  out of a stuck one (handlers/snapshots.rs:317); the head may then go unanchored.
- `PushJob` has one filesystem tree for all peers and does not model the row in
  `job_runs` (the one of periodic jobs is in `Lifecycle`), the status rendering and the
  amount of time that passes.
- The last-received hold is moved after the dataset lock is dropped. A delayed dispatcher
  can move it back, although ARCHITECTURE.md:276-280 has it on the newest snapshot; what the
  hold then protects is an older one. `Replication` models the move, and `ReplicationLastHold`
  shows the shorter way, a prune before the hold.
- `PeerLink` has no time: the back-off's length and the SSH handshake are not modelled,
  and a visitor holds one link at a time.
- `EventLog`: a row that a dispatcher writes is broadcast to nobody. A client whose cursor
  has passed it never sees it, which `NoSilentGap` leaves out (it speaks of the daemon's own
  events).
- `Sessions` deletes by `expires_at <= now`; at that very second a validation that read
  the row may still be served, which `RemovedStaysOut` allows (it began before). The property
  speaks of rows that were deleted: a logout whose DELETE fails is only logged, its answer is
  the same (auth.rs:392-402), and the session lives on; that case is outside it.
- `Lifecycle`: a start that fails leaves its socket behind, as does a crash. A second
  daemon replaces the socket of a running one; the model starts one at a time. A cycle
  of a periodic job does not look at the cancellation; it runs on until the deadline.
- `RecvChannel`'s clients all authenticate and present the fingerprint of their entry: the
  pin is an operand of `decide` there, and no run has it fail.
- `CatchUp` answers every read, deletes no snapshot during a visit and has no holds; the race
  with prune, failing reads and sweeps is the subject of `Replication`.
- `RecvChannel` leaves out targets that lie below one another and targets that the operator
  has created: what `zfs recv -A` and a full stream do to a target with children is not modelled
  there (`PushVisit` models the order in which the sender goes through a tree).
- `RecvChannel`: when a dispatcher is killed, its `zfs recv` child may go on without the
  lock. ZFS refuses a second receive into the same dataset, which `Replication` models as a
  failing one; here it ends with its dispatcher.
- `Transfer`: after a failed `zfs send` nobody waits for the dispatcher (step.rs:235), so a
  retry may be refused by the lock of the old one; the cycle after that gets on. A cancel
  waits for the dispatcher without a limit, and for the rate limiter's sleep, which looks at
  no token.
- `Migration`: adding `last_success_at` and filling it are two statements (state/mod.rs:171).
  A process that ends in between leaves a column that nobody fills, and until the filling
  others find it empty: `OldDatabasesSurvive` names both. What is lost is when peers were
  last in sync, so they are due at once. A rebuild of `job_runs` that a second process
  repeats may number the rows anew.
- `Retention`: ages are of one second's precision. Where the first bucket is exactly one
  interval long, a snapshot taken by a wakeup within that interval is destroyed by the
  prune that follows the next one: by design.
- `Retention`: no property bounds the gap between two survivors of a grid. An earlier
  `GridHoldsHistory` asked for one at most two buckets older, TLC agreed on small grids, and
  the proof showed it to be false in general: a survivor that ages into a bucket which
  still holds an older one is destroyed there, contrary to retention.rs:9-12 ("it becomes
  that bucket's oldest and survives again"), and the older one may be the next to leave that
  bucket. With cycles a few seconds early or late such losses follow one another: replaying
  `fit` on a `1x1h(keep=all) | 24x1h | 14x1d | 8x1w` grid, snapshots every 15 minutes
  and a jitter of 5 s gave gaps of up to four hourly buckets. Cycles at exact intervals
  that divide the buckets gave one survivor per bucket.

Not modelled, and why:

- *Receive progress* (`recv_transfers`, ARC statistics, ZFS reads of the API): rows or
  answers that nobody acts upon.
- *Configuration parsing (but for what `Retention` and `CursorNames`
  model of it), command lines, JSON, the generated client*: conversions without
  state.
- *Admin UI*: presentation, but for the event store in `EventLog`.

## Plan

1. *Core* (done): planner, replication step, catch-up loop, abstract replica, push job;
   anchor invariant and refinement proved, for receivers that keep their newest snapshot.
2. *Receivers and links* (done): `RecvChannel`, `PeerLink` with its users, `Transfer`,
   `Bandwidth`.
3. *Bookkeeping* (done): `EventLog`, `Sessions`, `Lifecycle`, `Migration`.
4. *Pure algorithms* (done): `Retention` with its cycles, `CursorNames`, access control in
   `RecvChannel`.
5. *Proofs* (done): every safety invariant and action property of the passing runs,
   the inductive invariants they need, the refinement, the types. Left: lemmas about the
   filters and validation of `Retention`, what holds in
   `all` mode and with late landings beyond `CursorNeverLost` and `HoldsDoNotAccumulate`, and how
   a receiver that has destroyed its newest snapshot becomes whole again.
6. *Compositions left*: `PeerLink` under `PushJob` through the published entry;
   `RecvChannel`'s placeholders under `Replication`'s datasets.
