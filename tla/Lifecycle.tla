------------------------------ MODULE Lifecycle ------------------------------
(***************************************************************************)
(* The daemon process from start to exit (daemon/src/main.rs), one of its  *)
(* periodic jobs (jobs/periodic.rs, snap.rs, prune.rs) and the rows that   *)
(* the job's cycles leave in job_runs (state/mod.rs, state/job_runs.rs),   *)
(* across crashes and restarts.  At most one daemon runs at a time.        *)
(*                                                                         *)
(* Time is left out: an interval, the job deadline and the shutdown        *)
(* deadline may elapse at any point where the code waits for them.         *)
(***************************************************************************)
EXTENDS Naturals

CONSTANTS
  JobDatasets,  \* datasets that the job's filter may match
  MaxRuns,      \* cycles over the whole behaviour (a bound)
  MaxFailures   \* failing commands and crashes (a bound)

ASSUME LifecycleAssumption == MaxRuns \in Nat /\ MaxFailures \in Nat

VARIABLES
  process,  \* down, bound (the socket exists), open (database), serving, stopping
            \* (the shutdown token is cancelled)
  socket,   \* the UNIX socket's path exists
  stage,    \* the shutdown stage
  drained,  \* both servers have ended
  ended,    \* JobManager::shutdown has returned
  ran,      \* how the last daemon ended: clean, timeout, died
  kind,     \* snap or prune
  loop,     \* the job's loop: idle, start, list, snap, prune, finish, gone
  left,     \* datasets of the cycle that the current loop has not reached
  targets,  \* datasets that the cycle's listing matched
  failed,   \* some dataset of the cycle failed
  run,      \* the cycle's row, 0 when it could not be inserted
  due,      \* sleep_until(due) is over
  permit,   \* the permit of the job's Notify
  row,      \* job_runs
  runs,     \* rows inserted so far
  failures,
  asked,    \* ghost: a wakeup that no cycle has followed yet
  tried,    \* ghost: the cycle's work on each dataset, and how much of it succeeded
  done,
  lost      \* ghost: rows whose terminal update failed

procVars == <<process, socket, stage, drained, ended, ran>>
cycleVars == <<left, targets, failed, run, tried, done>>
wakeVars == <<due, permit, asked>>
rowVars == <<row, runs, lost>>
lifecycleVars == <<procVars, kind, loop, cycleVars, wakeVars, rowVars, failures>>

Runs == 1..MaxRuns
Stages == {"servers_and_jobs", "peers", "arc", "retention", "socket", "complete"}
Statuses == {"none", "running", "ok", "error", "interrupted"}
Alive == process \in {"serving", "stopping"}

LifecycleTypeOK ==
  /\ process \in {"down", "bound", "open", "serving", "stopping"}
  /\ socket \in BOOLEAN /\ stage \in Stages
  /\ drained \in BOOLEAN /\ ended \in BOOLEAN /\ ran \in {"clean", "timeout", "died"}
  /\ kind \in {"snap", "prune"}
  /\ loop \in {"idle", "start", "list", "snap", "prune", "finish", "gone"}
  /\ left \subseteq targets /\ targets \subseteq JobDatasets /\ failed \in BOOLEAN
  /\ run \in 0..MaxRuns /\ runs \in 0..MaxRuns /\ row \in [Runs -> Statuses]
  /\ due \in BOOLEAN /\ permit \in BOOLEAN /\ asked \in BOOLEAN
  /\ done \subseteq tried /\ tried \subseteq {"snap", "prune"} \X JobDatasets
  /\ lost \subseteq Runs /\ failures \in 0..MaxFailures

NoCycle == left' = {} /\ targets' = {} /\ failed' = FALSE /\ run' = 0 /\ tried' = {} /\ done' = {}
NoJob == loop' = "gone" /\ NoCycle /\ due' = FALSE /\ permit' = FALSE /\ asked' = FALSE

LifecycleInit ==
  /\ process = "down" /\ socket = FALSE /\ stage = "servers_and_jobs"
  /\ drained = FALSE /\ ended = FALSE /\ ran = "clean" /\ kind \in {"snap", "prune"}
  /\ loop = "gone" /\ left = {} /\ targets = {} /\ failed = FALSE /\ run = 0
  /\ tried = {} /\ done = {}
  /\ due = FALSE /\ permit = FALSE /\ asked = FALSE
  /\ row = [r \in Runs |-> "none"] /\ runs = 0 /\ lost = {} /\ failures = 0

CommandFails == failures < MaxFailures /\ failures' = failures + 1

-----------------------------------------------------------------------------
(* The process *)

\* run_daemon binds the UNIX socket first; bind_unix_socket replaces a stale one.
Bind ==
  /\ process = "down"
  /\ process' = "bound" /\ socket' = TRUE
  /\ stage' = "servers_and_jobs" /\ drained' = FALSE /\ ended' = FALSE
  /\ UNCHANGED <<ran, kind, loop, cycleVars, wakeVars, rowVars, failures>>

Reconciled == [r \in Runs |-> IF row[r] = "running" THEN "interrupted" ELSE row[r]]

\* The daemon opens the database and reconciles the rows that a predecessor left running.
OpenForDaemon ==
  /\ process = "bound"
  /\ process' = "open"
  /\ row' = Reconciled /\ lost' = {}
  /\ UNCHANGED <<socket, stage, drained, ended, ran, kind, loop, cycleVars, wakeVars,
                 runs, failures>>

\* Mutation: every process that opens the database reconciles it.
OpenReconciling ==
  /\ process # "down"
  /\ row' = Reconciled
  /\ UNCHANGED <<procVars, kind, loop, cycleVars, wakeVars, runs, lost, failures>>

\* A dispatcher process opens the database, at any time; it leaves job_runs alone.
OpenDatabase ==
  /\ process # "down"
  /\ UNCHANGED lifecycleVars

\* The jobs are spawned, each with its first cycle due, then the daemon listens on TCP.
Spawn ==
  /\ process = "open"
  /\ process' = "serving"
  /\ loop' = "idle" /\ due' = TRUE /\ permit' = FALSE
  /\ UNCHANGED <<socket, stage, drained, ended, ran, kind, cycleVars, asked,
                 rowVars, failures>>

\* The process is killed, panics, or fails while it starts: the socket stays behind.
DaemonDies ==
  /\ process # "down" /\ CommandFails
  /\ process' = "down" /\ ran' = "died" /\ NoJob
  /\ UNCHANGED <<socket, stage, drained, ended, kind, rowVars>>

\* SIGTERM, SIGINT, or a listener that ends on its own.
CancelShutdown ==
  /\ process = "serving"
  /\ process' = "stopping"
  /\ UNCHANGED <<socket, stage, drained, ended, ran, kind, loop, cycleVars, wakeVars, rowVars,
                 failures>>

Drain ==
  /\ process = "stopping" /\ ~drained
  /\ drained' = TRUE
  /\ UNCHANGED <<process, socket, stage, ended, ran, kind, loop, cycleVars, wakeVars,
                 rowVars, failures>>

\* JobManager::shutdown: the job's task has ended, or its deadline is over.
EndJobs ==
  /\ process = "stopping" /\ ~ended
  /\ ended' = TRUE
  /\ UNCHANGED <<process, socket, stage, drained, ran, kind, loop, cycleVars, wakeVars,
                 rowVars, failures>>

After == [servers_and_jobs |-> "peers", peers |-> "arc", arc |-> "retention",
          retention |-> "socket", socket |-> "complete"]

\* The stages follow one another, each when its tasks have ended.
NextStage ==
  /\ process = "stopping" /\ stage # "complete"
  /\ stage = "servers_and_jobs" => drained /\ ended
  /\ stage' = After[stage]
  /\ socket' = (socket /\ stage # "socket")
  /\ UNCHANGED <<process, drained, ended, ran, kind, loop, cycleVars, wakeVars, rowVars,
                 failures>>

DaemonExits(how) == process' = "down" /\ ran' = how /\ NoJob

Complete ==
  /\ process = "stopping" /\ stage = "complete"
  /\ DaemonExits("clean")
  /\ UNCHANGED <<socket, stage, drained, ended, kind, rowVars, failures>>

\* Mutation: the timeout returns without touching the socket.
TimeoutKeepsSocket ==
  /\ process = "stopping"
  /\ DaemonExits("timeout")
  /\ UNCHANGED <<socket, stage, drained, ended, kind, rowVars, failures>>

\* supervise_shutdown: the deadline for all stages together is over.
Timeout ==
  /\ process = "stopping"
  /\ socket' = FALSE
  /\ DaemonExits("timeout")
  /\ UNCHANGED <<stage, drained, ended, kind, rowVars, failures>>

-----------------------------------------------------------------------------
(* The job: PeriodicJob::run and the cycles of snap and prune *)

\* The next cycle is due.
Elapse ==
  /\ Alive /\ loop = "idle" /\ ~due /\ runs < MaxRuns
  /\ due' = TRUE
  /\ UNCHANGED <<procVars, kind, loop, cycleVars, permit, asked, rowVars, failures>>

\* Mutation: only a loop that waits hears the wakeup (Notify::notify_waiters).
WakeupWaiting ==
  /\ Alive /\ ~drained /\ loop # "gone"
  /\ permit' = (permit \/ loop = "idle") /\ asked' = TRUE
  /\ UNCHANGED <<procVars, kind, loop, cycleVars, due, rowVars, failures>>
\* POST /api/v1/jobs/{name}/wakeup, at any point of a cycle.
Wakeup ==
  /\ Alive /\ ~drained /\ loop # "gone"
  /\ permit' = TRUE /\ asked' = TRUE
  /\ UNCHANGED <<procVars, kind, loop, cycleVars, due, rowVars, failures>>

\* The loop's select takes any branch that is ready, the cancellation not before others.
StopLoop ==
  /\ loop = "idle" /\ process = "stopping"
  /\ loop' = "gone"
  /\ UNCHANGED <<procVars, kind, cycleVars, wakeVars, rowVars, failures>>

BeginCycle ==
  /\ loop = "idle" /\ runs < MaxRuns
  /\ \/ due /\ permit' = permit
     \/ permit /\ permit' = FALSE
  /\ loop' = "start" /\ due' = FALSE /\ asked' = FALSE
  /\ UNCHANGED <<procVars, kind, cycleVars, rowVars, failures>>

\* record_start: a cycle whose row cannot be inserted goes on without one.
RecordStart ==
  /\ loop = "start"
  /\ loop' = "list"
  /\ \/ /\ runs' = runs + 1 /\ run' = runs + 1
        /\ row' = [row EXCEPT ![runs + 1] = "running"]
        /\ UNCHANGED failures
     \/ CommandFails /\ UNCHANGED <<run, runs, row>>
  /\ UNCHANGED <<procVars, kind, left, targets, failed, tried, done, wakeVars, lost>>

\* The datasets of the filter; without any the cycle is over.
List ==
  /\ loop = "list"
  /\ \/ /\ targets' \in SUBSET JobDatasets
        /\ left' = targets' /\ UNCHANGED <<failed, failures>>
        /\ loop' = IF targets' = {} THEN "finish" ELSE kind
     \/ /\ CommandFails /\ failed' = TRUE /\ loop' = "finish"
        /\ UNCHANGED <<left, targets>>
  /\ UNCHANGED <<procVars, kind, run, tried, done, wakeVars, rowVars>>

\* Mutation: the first dataset that fails ends its loop.
FailedLeaves(d) == {}
\* What a failure leaves to do: the other datasets go on.
FailureLeaves(d) == left \ {d}

\* One dataset is snapshotted, or pruned; a failure is kept for the cycle's report.
Work(op) ==
  /\ loop = op /\ left # {}
  /\ \E d \in left :
    /\ tried' = tried \cup {<<op, d>>}
    /\ \/ /\ left' = left \ {d} /\ done' = done \cup {<<op, d>>}
          /\ UNCHANGED <<failed, failures>>
       \/ /\ CommandFails /\ failed' = TRUE
          /\ left' = FailureLeaves(d) /\ UNCHANGED done
  /\ UNCHANGED <<procVars, kind, loop, targets, run, wakeVars, rowVars>>

SnapshotDataset == Work("snap")
PruneDataset == Work("prune")

\* All snapshots are taken before the first dataset is pruned.
LoopOver ==
  /\ loop \in {"snap", "prune"} /\ left = {}
  /\ IF loop = "snap" THEN loop' = "prune" /\ left' = targets
                      ELSE loop' = "finish" /\ left' = left
  /\ UNCHANGED <<procVars, kind, targets, failed, run, tried, done, wakeVars, rowVars, failures>>

\* record_finish, whose failure is ignored, and the end of the cycle.
RecordFinish ==
  /\ loop = "finish"
  /\ loop' = "idle" /\ NoCycle
  /\ \/ /\ row' = IF run = 0 THEN row
                  ELSE [row EXCEPT ![run] = IF failed THEN "error" ELSE "ok"]
        /\ UNCHANGED <<lost, failures>>
     \/ /\ run # 0 /\ CommandFails
        /\ lost' = lost \cup {run} /\ UNCHANGED row
  /\ UNCHANGED <<procVars, kind, wakeVars, runs>>

JobStep ==
  \/ StopLoop \/ BeginCycle \/ RecordStart \/ List \/ SnapshotDataset \/ PruneDataset
  \/ LoopOver \/ RecordFinish

LifecycleNext ==
  \/ Bind \/ OpenForDaemon \/ OpenDatabase \/ Spawn \/ DaemonDies
  \/ CancelShutdown \/ Drain \/ EndJobs \/ NextStage \/ Complete \/ Timeout
  \/ Elapse \/ Wakeup \/ JobStep

\* The runtime polls a task that is ready; the shutdown timer fires.
LifecycleFairness == WF_lifecycleVars(JobStep) /\ WF_lifecycleVars(Timeout)

LifecycleSpec == LifecycleInit /\ [][LifecycleNext]_lifecycleVars
LifecycleFairSpec == LifecycleSpec /\ LifecycleFairness

-----------------------------------------------------------------------------
(* Properties *)

\* While the daemon serves, the rows that say "running" are those of the cycles that do
\* run: reconciliation at the start leaves none of a predecessor, no other process ends
\* a live one.  (A terminal update that failed is the known exception.)
RunningRowsAreLive ==
  Alive => {r \in Runs : row[r] = "running"} \ lost = {run} \ {0}

\* A cycle that is over has snapshotted and pruned, or tried to, every dataset that its
\* listing matched, whichever of them failed, and it is reported as ok only if all of it
\* succeeded (jobs/periodic.rs, Cycle::run).
FinishedCycleIsHonest ==
  loop = "finish" =>
    LET ops == IF kind = "snap" THEN {"snap", "prune"} ELSE {"prune"}
    IN  /\ tried = ops \X targets
        /\ ~failed => done = tried

\* A wakeup is followed by a cycle that begins after it, unless the daemon ends first.
WakeupRuns == asked ~> (~asked \/ runs = MaxRuns)

\* A shutdown ends, however long requests and jobs take, and takes the socket with it.
ShutdownCleansUp == (process = "stopping") ~> (process = "down" /\ (socket => ran = "died"))

=============================================================================
