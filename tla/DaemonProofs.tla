---------------------------- MODULE DaemonProofs ----------------------------
(***************************************************************************)
(* What holds of the daemon's own state: its rows in job_runs, its browser *)
(* sessions and its database, and the snapshots that its jobs retain; for  *)
(* any datasets, any number of cycles, logins, concurrent requests and     *)
(* processes, and however many commands fail or processes die.             *)
(***************************************************************************)
EXTENDS Lifecycle, Sessions, Migration, Retention, FiniteSetTheorems, WellFoundedInduction, TLAPS

-----------------------------------------------------------------------------
(* The periodic jobs and the rows of their cycles *)

\* Between two cycles, and without a loop, nothing is left of a cycle.
NothingLeft ==
  left = {} /\ targets = {} /\ failed = FALSE /\ tried = {} /\ done = {}

\* RunningRowsAreLive holds from the moment the database is reconciled, and a row is
\* either still running, or ended, or given up; rows are used once.
RunsInv ==
  /\ kind \in {"snap", "prune"}
  /\ process \notin {"serving", "stopping"} => loop = "gone"
  /\ loop \in {"idle", "start", "gone"} => run = 0
  /\ loop = "start" => runs < MaxRuns
  /\ runs \in 0..MaxRuns /\ run \in 0..runs /\ lost \subseteq 1..runs
  /\ run \notin lost
  /\ row \in [Runs -> Statuses]
  /\ \A r \in Runs : r > runs => row[r] = "none"
  /\ process \in {"open", "serving", "stopping"} =>
       {r \in Runs : row[r] = "running"} \ lost = {run} \ {0}

\* How far a cycle is: the datasets that the current loop has left are those it has not
\* tried; a snap job is through with the snapshots when it prunes.
CycleInv ==
  /\ loop \in {"idle", "start", "list", "gone"} => NothingLeft
  /\ left \subseteq targets
  /\ ~failed => done = tried
  /\ loop = "snap" => kind = "snap" /\ tried = {"snap"} \X (targets \ left)
  /\ loop = "prune" =>
       tried = (IF kind = "snap" THEN {"snap"} \X targets ELSE {})
                 \cup ({"prune"} \X (targets \ left))
  /\ loop = "finish" =>
       tried = (IF kind = "snap" THEN {"snap", "prune"} ELSE {"prune"}) \X targets

-----------------------------------------------------------------------------
(* Rows *)

LEMMA RunsInitially == LifecycleInit => RunsInv
BY LifecycleAssumption, SMT DEF LifecycleInit, RunsInv, Runs, Statuses

LEMMA RunsByProcess ==
  ASSUME RunsInv,
         \/ Bind \/ OpenForDaemon \/ OpenDatabase \/ Spawn \/ DaemonDies
         \/ CancelShutdown \/ Drain \/ EndJobs \/ NextStage \/ Complete \/ Timeout
  PROVE  RunsInv'
<1> USE DEF RunsInv, rowVars, cycleVars, wakeVars, procVars
<1>1. CASE Bind
  BY <1>1 DEF Bind
<1>2. CASE OpenForDaemon
  <2>1. Reconciled \in [Runs -> Statuses] /\ \A r \in Runs : Reconciled[r] # "running"
    BY DEF Reconciled, Statuses
  <2>2. \A r \in Runs : r > runs => Reconciled[r] = "none"
    BY DEF Reconciled
  <2> QED BY <1>2, <2>1, <2>2 DEF OpenForDaemon
<1>3. CASE OpenDatabase
  BY <1>3 DEF OpenDatabase, lifecycleVars
<1>4. CASE Spawn
  BY <1>4 DEF Spawn
<1>5. CASE DaemonDies
  BY <1>5 DEF DaemonDies, NoJob, NoCycle
<1>6. CASE CancelShutdown
  BY <1>6 DEF CancelShutdown
<1>7. CASE Drain \/ EndJobs \/ NextStage
  BY <1>7 DEF Drain, EndJobs, NextStage
<1>8. CASE Complete \/ Timeout
  <2>1. process' = "down" /\ loop' = "gone" /\ run' = 0 /\ UNCHANGED <<kind, row, runs, lost>>
    BY <1>8 DEF Complete, Timeout, DaemonExits, NoJob, NoCycle
  <2>2. 0 \in 0..runs /\ 0 \notin lost
    BY LifecycleAssumption
  <2> QED BY <2>1, <2>2
<1> QED BY <1>1, <1>2, <1>3, <1>4, <1>5, <1>6, <1>7, <1>8

LEMMA RunsByJob ==
  ASSUME RunsInv, Elapse \/ Wakeup \/ JobStep
  PROVE  RunsInv'
<1> USE DEF RunsInv, rowVars, cycleVars, wakeVars, procVars
<1>1. CASE Elapse \/ Wakeup
  BY <1>1 DEF Elapse, Wakeup
<1>2. CASE StopLoop
  BY <1>2 DEF StopLoop
<1>3. CASE BeginCycle
  BY <1>3 DEF BeginCycle
<1>4. CASE RecordStart
  <2>0. run = 0 /\ runs < MaxRuns /\ runs \in Nat /\ MaxRuns \in Nat
        /\ process \in {"serving", "stopping"}
    BY <1>4, LifecycleAssumption DEF RecordStart
  <2>1. CASE UNCHANGED <<run, runs, row>>
    BY <1>4, <2>1 DEF RecordStart
  <2>2. CASE /\ runs' = runs + 1 /\ run' = runs + 1
             /\ row' = [row EXCEPT ![runs + 1] = "running"]
    <3>1. runs + 1 \in Runs /\ runs + 1 \notin lost
      BY <2>0 DEF Runs
    <3>2. row' \in [Runs -> Statuses] /\ \A r \in Runs : r > runs + 1 => row'[r] = "none"
      BY <2>0, <2>2, <3>1 DEF Statuses, Runs
    <3>3. {r \in Runs : row'[r] = "running"} = {r \in Runs : row[r] = "running"} \cup {runs + 1}
      BY <2>2, <3>1
    <3>4. {r \in Runs : row'[r] = "running"} \ lost = {run'} \ {0}
      BY <2>0, <2>2, <3>1, <3>3
    <3> QED BY <1>4, <2>0, <2>2, <3>1, <3>2, <3>4 DEF RecordStart
  <2> QED BY <1>4, <2>1, <2>2 DEF RecordStart
<1>5. CASE List
  <2>1. /\ loop = "list" /\ loop' \notin {"idle", "start", "gone"}
        /\ UNCHANGED <<process, kind, run, runs, row, lost>>
    <3>1. kind \in {"snap", "prune"}
      OBVIOUS
    <3> QED BY <1>5, <3>1 DEF List
  <2> QED BY <2>1
<1>6. CASE SnapshotDataset \/ PruneDataset
  BY <1>6 DEF SnapshotDataset, PruneDataset, Work
<1>7. CASE LoopOver
  BY <1>7 DEF LoopOver
<1>8. CASE RecordFinish
  <2>0. process \in {"serving", "stopping"} /\ runs \in Nat /\ run \in Nat
    BY <1>8, LifecycleAssumption DEF RecordFinish
  <2>1. ASSUME run # 0, lost' = lost \cup {run}, UNCHANGED row PROVE RunsInv'
    <3>1. {r \in Runs : row[r] = "running"} \ lost' = {}
      BY <2>0, <2>1
    <3> QED BY <1>8, <2>0, <2>1, <3>1 DEF RecordFinish, NoCycle
  <2>2. ASSUME run = 0, UNCHANGED <<row, lost>> PROVE RunsInv'
    BY <1>8, <2>0, <2>2 DEF RecordFinish, NoCycle
  <2>3. ASSUME run # 0, UNCHANGED lost,
               row' = [row EXCEPT ![run] = IF failed THEN "error" ELSE "ok"]
        PROVE  RunsInv'
    <3>1. run \in Runs
      BY <2>0, <2>3, LifecycleAssumption DEF Runs
    <3>2. row' \in [Runs -> Statuses] /\ \A r \in Runs : r > runs => row'[r] = "none"
      BY <2>0, <2>3 DEF Statuses, Runs
    <3>3. {r \in Runs : row'[r] = "running"} = {r \in Runs : row[r] = "running"} \ {run}
      BY <2>3, <3>1
    <3>4. {r \in Runs : row'[r] = "running"} \ lost = {}
      BY <2>0, <3>3
    <3> QED BY <1>8, <2>0, <2>3, <3>2, <3>4 DEF RecordFinish, NoCycle
  <2> QED BY <1>8, <2>1, <2>2, <2>3 DEF RecordFinish
<1> QED BY <1>1, <1>2, <1>3, <1>4, <1>5, <1>6, <1>7, <1>8 DEF JobStep

\* Whatever crashes and failing statements come in between, the rows shown as running
\* are those of cycles that do run (state/job_runs.rs, reconciliation in state/mod.rs).
THEOREM RunningRowsStayLive ==
  LifecycleSpec => []RunningRowsAreLive
<1>1. LifecycleInit => RunsInv
  BY RunsInitially
<1>2. RunsInv /\ [LifecycleNext]_lifecycleVars => RunsInv'
  <2>1. ASSUME RunsInv, UNCHANGED lifecycleVars PROVE RunsInv'
    BY <2>1 DEF RunsInv, lifecycleVars, rowVars, cycleVars, procVars
  <2> QED BY <2>1, RunsByProcess, RunsByJob DEF LifecycleNext
<1>3. RunsInv => RunningRowsAreLive
  BY DEF RunsInv, RunningRowsAreLive, Alive
<1> QED BY <1>1, <1>2, <1>3, PTL DEF LifecycleSpec

-----------------------------------------------------------------------------
(* Cycles *)

LEMMA CycleByProcess ==
  ASSUME CycleInv, RunsInv,
         \/ Bind \/ OpenForDaemon \/ OpenDatabase \/ Spawn \/ DaemonDies
         \/ CancelShutdown \/ Drain \/ EndJobs \/ NextStage \/ Complete \/ Timeout
  PROVE  CycleInv'
<1> USE DEF CycleInv, NothingLeft, cycleVars
<1>1. CASE Bind \/ OpenForDaemon \/ CancelShutdown \/ Drain \/ EndJobs \/ NextStage
  BY <1>1 DEF Bind, OpenForDaemon, CancelShutdown, Drain, EndJobs, NextStage
<1>2. CASE OpenDatabase
  BY <1>2 DEF OpenDatabase, lifecycleVars
<1>3. CASE Spawn
  BY <1>3 DEF Spawn, RunsInv
<1>4. CASE DaemonDies
  BY <1>4 DEF DaemonDies, NoJob, NoCycle
<1>5. CASE Complete \/ Timeout
  BY <1>5 DEF Complete, Timeout, DaemonExits, NoJob, NoCycle
<1> QED BY <1>1, <1>2, <1>3, <1>4, <1>5

\* One dataset more is tried, and no longer left.
LEMMA CycleByWork ==
  ASSUME CycleInv, RunsInv, NEW op \in {"snap", "prune"}, Work(op)
  PROVE  CycleInv'
<1>1. PICK d \in left :
        /\ tried' = tried \cup {<<op, d>>} /\ left' = left \ {d}
        /\ \/ done' = done \cup {<<op, d>>} /\ failed' = failed
           \/ failed' = TRUE
  BY DEF Work, FailureLeaves
<1>2. /\ loop = op /\ loop' = loop /\ targets' = targets /\ kind' = kind /\ d \in targets
      /\ left' \subseteq targets'
  BY <1>1 DEF Work, CycleInv
<1>3. {op} \X (targets' \ left') = ({op} \X (targets \ left)) \cup {<<op, d>>}
  BY <1>1, <1>2
<1>4. ~failed' => done' = tried'
  BY <1>1 DEF CycleInv
<1>5. CASE op = "snap"
  BY <1>1, <1>2, <1>3, <1>4, <1>5 DEF CycleInv
<1>6. CASE op = "prune"
  BY <1>1, <1>2, <1>3, <1>4, <1>6 DEF CycleInv
<1> QED BY <1>5, <1>6

LEMMA CycleByJob ==
  ASSUME CycleInv, RunsInv, Elapse \/ Wakeup \/ JobStep
  PROVE  CycleInv'
<1> USE DEF CycleInv, NothingLeft, cycleVars
<1>1. CASE Elapse \/ Wakeup
  BY <1>1 DEF Elapse, Wakeup
<1>2. CASE StopLoop \/ BeginCycle
  BY <1>2 DEF StopLoop, BeginCycle
<1>3. CASE RecordStart
  BY <1>3 DEF RecordStart
<1>4. CASE List
  BY <1>4 DEF List, RunsInv
<1>5. CASE SnapshotDataset \/ PruneDataset
  BY <1>5, CycleByWork DEF SnapshotDataset, PruneDataset
<1>6. CASE LoopOver
  BY <1>6 DEF LoopOver
<1>7. CASE RecordFinish
  BY <1>7 DEF RecordFinish, NoCycle
<1> QED BY <1>1, <1>2, <1>3, <1>4, <1>5, <1>6, <1>7 DEF JobStep

LEMMA CycleInitially == LifecycleInit => RunsInv /\ CycleInv
BY RunsInitially DEF LifecycleInit, CycleInv, NothingLeft

LEMMA CycleStep ==
  RunsInv /\ CycleInv /\ [LifecycleNext]_lifecycleVars => (RunsInv /\ CycleInv)'
<1>1. ASSUME RunsInv, CycleInv, UNCHANGED lifecycleVars PROVE RunsInv' /\ CycleInv'
  BY <1>1 DEF RunsInv, CycleInv, NothingLeft, lifecycleVars, rowVars, cycleVars, procVars
<1> QED BY <1>1, RunsByProcess, RunsByJob, CycleByProcess, CycleByJob DEF LifecycleNext

\* A cycle that is over has tried everything, and ok means that all of it succeeded
\* (jobs/snap.rs, jobs/prune.rs).
THEOREM FinishedCyclesAreHonest ==
  LifecycleSpec => []FinishedCycleIsHonest
<1>1. CycleInv => FinishedCycleIsHonest
  BY DEF CycleInv, FinishedCycleIsHonest
<1> QED BY <1>1, CycleInitially, CycleStep, PTL DEF LifecycleSpec

\* The process with its stages, and the loop.
PhaseInv ==
  /\ process \in {"down", "bound", "open", "serving", "stopping"}
  /\ socket \in BOOLEAN /\ stage \in Stages
  /\ drained \in BOOLEAN /\ ended \in BOOLEAN /\ ran \in {"clean", "timeout", "died"}
  /\ loop \in {"idle", "start", "list", "snap", "prune", "finish", "gone"}
  /\ due \in BOOLEAN /\ permit \in BOOLEAN /\ asked \in BOOLEAN
  /\ failures \in 0..MaxFailures

WorkInv ==
  /\ targets \subseteq JobDatasets /\ failed \in BOOLEAN
  /\ done \subseteq tried /\ tried \subseteq {"snap", "prune"} \X JobDatasets

LEMMA PhaseStep ==
  ASSUME RunsInv, PhaseInv, [LifecycleNext]_lifecycleVars PROVE PhaseInv'
<1> USE DEF PhaseInv, procVars, wakeVars
<1>1. failures' \in 0..MaxFailures
  <2> DEFINE Counted == UNCHANGED failures \/ CommandFails
  <2>1. Bind \/ OpenForDaemon \/ OpenDatabase \/ Spawn \/ DaemonDies \/ CancelShutdown => Counted
    BY DEF lifecycleVars, Bind, OpenForDaemon, OpenDatabase, Spawn, DaemonDies, CancelShutdown
  <2>2. Drain \/ EndJobs \/ NextStage \/ Complete \/ Timeout \/ Elapse \/ Wakeup => Counted
    BY DEF Drain, EndJobs, NextStage, Complete, Timeout, Elapse, Wakeup
  <2>3. JobStep => Counted
    <3>1. StopLoop \/ BeginCycle \/ RecordStart \/ List \/ LoopOver \/ RecordFinish => Counted
      BY DEF StopLoop, BeginCycle, RecordStart, List, LoopOver, RecordFinish
    <3>2. SnapshotDataset \/ PruneDataset => Counted
      BY DEF SnapshotDataset, PruneDataset, Work
    <3> QED BY <3>1, <3>2 DEF JobStep
  <2>4. UNCHANGED lifecycleVars => Counted
    BY DEF lifecycleVars
  <2> HIDE DEF Counted
  <2>5. Counted
    BY <2>1, <2>2, <2>3, <2>4, Zenon DEF LifecycleNext
  <2> QED BY <2>5, LifecycleAssumption DEF Counted, CommandFails
<1>2. CASE Bind \/ OpenForDaemon \/ CancelShutdown \/ Drain \/ EndJobs
  <2>1. CASE Bind \/ OpenForDaemon
    BY <1>1, <2>1 DEF Bind, OpenForDaemon, Stages
  <2>2. CASE CancelShutdown
    BY <1>1, <2>2 DEF CancelShutdown, Stages
  <2>3. CASE Drain
    BY <1>1, <2>3 DEF Drain, Stages
  <2>4. CASE EndJobs
    BY <1>1, <2>4 DEF EndJobs, Stages
  <2> QED BY <1>2, <2>1, <2>2, <2>3, <2>4
<1>3. CASE OpenDatabase \/ UNCHANGED lifecycleVars
  BY <1>3 DEF OpenDatabase, lifecycleVars
<1>4. CASE Spawn
  BY <1>1, <1>4 DEF Spawn
<1>5. CASE DaemonDies
  BY <1>1, <1>5 DEF DaemonDies, NoJob
<1>6. CASE NextStage
  <2>1. After[stage] \in Stages
    BY <1>6 DEF NextStage, Stages, After
  <2>2. socket' \in BOOLEAN
    BY <1>6 DEF NextStage
  <2> QED BY <1>1, <1>6, <2>1, <2>2 DEF NextStage
<1>7. CASE Complete \/ Timeout
  BY <1>1, <1>7 DEF Complete, Timeout, DaemonExits, NoJob
<1>8. CASE Elapse \/ Wakeup \/ StopLoop \/ BeginCycle
  BY <1>1, <1>8 DEF Elapse, Wakeup, StopLoop, BeginCycle
<1>9. CASE RecordStart \/ LoopOver \/ RecordFinish
  BY <1>1, <1>9 DEF RecordStart, LoopOver, RecordFinish
<1>10. CASE List
  BY <1>1, <1>10 DEF List, RunsInv
<1>11. CASE SnapshotDataset \/ PruneDataset
  BY <1>1, <1>11 DEF SnapshotDataset, PruneDataset, Work
<1> QED BY <1>2, <1>3, <1>4, <1>5, <1>6, <1>7, <1>8, <1>9, <1>10, <1>11
        DEF LifecycleNext, JobStep

\* What a cycle works on is what its listing matched.
LEMMA WorkStep ==
  ASSUME CycleInv, WorkInv, [LifecycleNext]_lifecycleVars PROVE WorkInv'
<1> USE DEF WorkInv, cycleVars
<1>1. CASE Bind \/ OpenForDaemon \/ Spawn \/ CancelShutdown \/ Drain \/ EndJobs \/ NextStage
  BY <1>1 DEF Bind, OpenForDaemon, Spawn, CancelShutdown, Drain, EndJobs, NextStage
<1>2. CASE OpenDatabase \/ UNCHANGED lifecycleVars
  BY <1>2 DEF OpenDatabase, lifecycleVars
<1>3. CASE DaemonDies \/ Complete \/ Timeout \/ RecordFinish
  BY <1>3 DEF DaemonDies, Complete, Timeout, DaemonExits, NoJob, NoCycle, RecordFinish
<1>4. CASE Elapse \/ Wakeup \/ StopLoop \/ BeginCycle \/ RecordStart
  BY <1>4 DEF Elapse, Wakeup, StopLoop, BeginCycle, RecordStart
<1>5. CASE List \/ LoopOver
  BY <1>5 DEF List, LoopOver
<1>6. ASSUME NEW op \in {"snap", "prune"}, Work(op) PROVE WorkInv'
  <2>1. PICK d \in left :
          /\ tried' = tried \cup {<<op, d>>} /\ UNCHANGED targets
          /\ done' = done \cup {<<op, d>>} \/ UNCHANGED done
          /\ failed' = failed \/ failed' = TRUE
    BY <1>6 DEF Work
  <2>2. d \in targets
    BY DEF CycleInv
  <2>3. <<op, d>> \in {"snap", "prune"} \X JobDatasets
    BY <2>2
  <2>4. done' \subseteq tried' /\ tried' \subseteq {"snap", "prune"} \X JobDatasets
    BY <2>1, <2>3
  <2>5. failed' \in BOOLEAN
    BY <2>1
  <2> QED BY <2>1, <2>4, <2>5
<1> QED BY <1>1, <1>2, <1>3, <1>4, <1>5, <1>6 DEF LifecycleNext, JobStep, SnapshotDataset, PruneDataset

\* Process, job and rows stay within their types, through every crash and timeout
\* (main.rs, jobs/periodic.rs).
THEOREM LifecycleTypeCorrect == LifecycleSpec => []LifecycleTypeOK
<1>1. LifecycleInit => PhaseInv /\ WorkInv
  <2> SUFFICES ASSUME LifecycleInit PROVE PhaseInv /\ WorkInv
    OBVIOUS
  <2>1. failures \in 0..MaxFailures
    BY LifecycleAssumption DEF LifecycleInit
  <2>2. WorkInv
    BY DEF LifecycleInit, WorkInv
  <2> QED BY <2>1, <2>2 DEF LifecycleInit, PhaseInv, Stages
<1>2. RunsInv /\ CycleInv /\ PhaseInv /\ WorkInv => LifecycleTypeOK
  <2> SUFFICES ASSUME RunsInv, CycleInv, PhaseInv, WorkInv PROVE LifecycleTypeOK
    OBVIOUS
  <2>1. runs \in 0..MaxRuns /\ run \in 0..MaxRuns /\ lost \subseteq Runs
    BY LifecycleAssumption DEF RunsInv, Runs
  <2> QED BY <2>1 DEF RunsInv, CycleInv, PhaseInv, WorkInv, LifecycleTypeOK
<1> QED BY <1>1, <1>2, CycleInitially, CycleStep, PhaseStep, WorkStep, PTL DEF LifecycleSpec

-----------------------------------------------------------------------------
(* Browser sessions *)

Row == [ns : Namespaces, until : Nat] \cup {NoRow}
Request ==
  [pc : {"idle", "select", "refresh", "revoke"}, sid : Nat, now : Nat, late : BOOLEAN]

\* A session that was removed, or not yet issued, has no row; ids are used once.
RowsInv ==
  /\ clock \in Nat /\ adminToken \in Namespaces /\ issued \in 0..MaxSids
  /\ rows \in [Sids -> Row]
  /\ removed \subseteq 1..issued
  /\ \A s \in removed : rows[s] = NoRow
  /\ \A s \in Sids : s > issued => rows[s] = NoRow

\* A request under way is about an issued session, has read the clock less than a refresh
\* interval ago and, once it has seen the row, can meet it only under its own token. One
\* that came too late never gets beyond its SELECT.
RequestInv ==
  /\ req \in [Requests -> Request]
  /\ \A r \in Requests : req[r].pc # "idle" =>
       /\ req[r].sid \in 1..issued
       /\ req[r].now <= clock /\ clock < req[r].now + Refresh
       /\ req[r].late => req[r].sid \in removed /\ req[r].pc = "select"
  /\ \A r \in Requests : req[r].pc = "refresh" =>
       rows[req[r].sid] = NoRow \/ rows[req[r].sid].ns = adminToken
  /\ ~barred

\* Grants lie in the past, and rows are long enough for them.
GrantInv ==
  /\ lastGrant \in [Sids -> Nat]
  /\ \A s \in Sids : lastGrant[s] <= clock
  /\ UseProlongs

SessionsInv == RowsInv /\ RequestInv /\ GrantInv

-----------------------------------------------------------------------------
LEMMA SessionsInitially == SessionsInit => SessionsInv
BY SessionsAssumption, SMT DEF SessionsInit, SessionsInv, RowsInv, RequestInv, GrantInv,
   UseProlongs, Idle, NoRow, Row, Request, Sids

LEMMA SidsFacts == ASSUME RowsInv, NEW s \in 1..issued PROVE s \in Sids
BY SessionsAssumption DEF RowsInv, Sids

LEMMA NoRowNamespace ==
  ASSUME RowsInv
  PROVE  /\ NoRow.ns # adminToken
         /\ \A s \in Sids : rows[s].ns = adminToken => rows[s] # NoRow /\ rows[s].until \in Nat
         /\ \A s \in Sids : rows[s] # NoRow => rows[s] \in [ns : Namespaces, until : Nat]
BY SessionsAssumption DEF RowsInv, NoRow, Row

\* Rows that are deleted take their grants along.
LEMMA DeleteRows ==
  ASSUME NEW S, rows' = Delete(rows, S), rows \in [Sids -> Row]
  PROVE  /\ rows' \in [Sids -> Row]
         /\ \A s \in Sids : IF s \in S THEN rows'[s] = NoRow ELSE rows'[s] = rows[s]
BY DEF Delete, Row

-----------------------------------------------------------------------------
LEMMA SessionsByLogin == ASSUME SessionsInv, Login PROVE SessionsInv'
<1> DEFINE expired == {s \in Sids : rows[s] # NoRow /\ rows[s].until <= clock}
           kept == Delete(rows, expired)
           sid == issued + 1
<1>1. PICK evicted \in Evicted(RowsOf(kept, adminToken)) :
        /\ rows' = [Delete(kept, evicted) EXCEPT
                       ![sid] = [ns |-> adminToken, until |-> clock + Ttl]]
        /\ removed' = removed \cup expired \cup evicted
        /\ lastGrant' = [s \in Sids |-> IF s \in expired \cup evicted THEN 0
                                        ELSE IF s = sid THEN clock ELSE lastGrant[s]]
  BY DEF Login
<1>2. issued' = sid /\ UNCHANGED <<clock, adminToken, req, barred>> /\ issued < MaxSids
  BY DEF Login
<1>3. /\ issued \in Nat /\ MaxSids \in Nat /\ sid \in Sids
      /\ clock \in Nat /\ adminToken \in Namespaces
      /\ Ttl \in Nat /\ Refresh \in Nat \ {0}
  BY <1>2, SessionsAssumption DEF SessionsInv, RowsInv, Sids
<1>4. evicted \subseteq {s \in Sids : rows[s] # NoRow}
  <2>1. evicted \subseteq RowsOf(kept, adminToken)
    BY <1>1 DEF Evicted
  <2>2. \A s \in RowsOf(kept, adminToken) : s \in Sids /\ rows[s] # NoRow
    BY NoRowNamespace, <1>3 DEF RowsOf, Delete, SessionsInv
  <2> QED BY <2>1, <2>2
<1>5. sid \notin expired /\ sid \notin evicted /\ sid \notin removed
  BY <1>3, <1>4 DEF SessionsInv, RowsInv
<1>6. \A s \in Sids \ {sid} :
        rows'[s] = IF s \in expired \cup evicted THEN NoRow ELSE rows[s]
  BY <1>1, <1>3 DEF Delete
<1>7. rows'[sid] = [ns |-> adminToken, until |-> clock + Ttl]
  BY <1>1, <1>3 DEF Delete
<1>8. rows' \in [Sids -> Row]
  <2>1. DOMAIN rows' = Sids /\ rows' = [s \in Sids |-> rows'[s]]
    BY <1>1 DEF Delete
  <2>2. ASSUME NEW s \in Sids PROVE rows'[s] \in Row
    BY <1>3, <1>6, <1>7 DEF Row, SessionsInv, RowsInv
  <2> QED BY <2>1, <2>2
<1>9. RowsInv'
  <2>1. removed' \subseteq 1..sid
    <3>1. \A s \in Sids : rows[s] # NoRow => s \in 1..issued
      BY <1>3 DEF SessionsInv, RowsInv, Sids
    <3>2. expired \subseteq 1..issued /\ evicted \subseteq 1..issued /\ removed \subseteq 1..issued
      BY <1>4, <3>1 DEF SessionsInv, RowsInv
    <3>3. 1..issued \subseteq 1..sid
      BY <1>3
    <3> HIDE DEF expired, sid, kept
    <3> QED BY <1>1, <3>2, <3>3
  <2>2. \A s \in removed' : rows'[s] = NoRow
    BY <1>1, <1>3, <1>4, <1>5, <1>6, <2>1, SidsFacts DEF SessionsInv, RowsInv
  <2>3. \A s \in Sids : s > sid => rows'[s] = NoRow
    BY <1>3, <1>6 DEF SessionsInv, RowsInv, Sids
  <2> QED BY <1>2, <1>3, <1>8, <2>1, <2>2, <2>3 DEF RowsInv
<1>10. RequestInv'
  <2>1. ASSUME NEW r \in Requests, req[r].pc # "idle"
        PROVE  req[r].sid \in 1..issued /\ req[r].sid \in Sids \ {sid} /\ req[r].sid \in 1..sid
    BY <2>1, <1>3, SidsFacts DEF SessionsInv, RequestInv
  <2>2. ASSUME NEW r \in Requests, req[r].pc = "refresh"
        PROVE  rows'[req[r].sid] = NoRow \/ rows'[req[r].sid].ns = adminToken
    BY <2>1, <2>2, <1>6 DEF SessionsInv, RequestInv
  <2> QED BY <1>1, <1>2, <2>1, <2>2 DEF SessionsInv, RequestInv
<1>11. GrantInv'
  <2>1. lastGrant' \in [Sids -> Nat] /\ \A s \in Sids : lastGrant'[s] <= clock
    BY <1>1, <1>3 DEF SessionsInv, GrantInv
  <2>2. ASSUME NEW s \in Sids, rows'[s] # NoRow
        PROVE  rows'[s].until + Refresh > lastGrant'[s] + Ttl
    <3>1. CASE s = sid
      BY <1>1, <1>3, <1>5, <1>7, <3>1
    <3>2. CASE s # sid
      BY <1>1, <1>3, <1>6, <2>2, <3>2 DEF SessionsInv, GrantInv, UseProlongs
    <3> QED BY <3>1, <3>2
  <2> QED BY <1>2, <2>1, <2>2 DEF GrantInv, UseProlongs
<1> QED BY <1>9, <1>10, <1>11 DEF SessionsInv

\* A grant of a session whose row, if it is there, has just been read or written as long
\* enough.
LEMMA SessionsByGrant ==
  ASSUME SessionsInv, NEW r \in Requests, req[r].pc # "idle", ~req[r].late,
         Grant(r), UNCHANGED <<clock, adminToken, issued, removed>>, RowsInv',
         \A s \in Sids \ {req[r].sid} : rows'[s] = rows[s],
         rows'[req[r].sid] = NoRow <=> rows[req[r].sid] = NoRow,
         rows'[req[r].sid] # NoRow =>
           /\ rows'[req[r].sid].ns = rows[req[r].sid].ns
           /\ rows'[req[r].sid].until + Refresh > req[r].now + Ttl
           /\ rows'[req[r].sid].until + Refresh > lastGrant[req[r].sid] + Ttl
  PROVE  SessionsInv'
<1> DEFINE sid == req[r].sid
<1>1. req' = [req EXCEPT ![r] = Idle] /\ ~barred'
  BY DEF Grant, SessionsInv, RequestInv
<1>2. sid \in Sids /\ req[r].now \in Nat /\ req[r].now <= clock /\ clock \in Nat
  BY SidsFacts DEF SessionsInv, RequestInv, RowsInv, Request
<1>3. lastGrant' = [lastGrant EXCEPT ![sid] =
                      IF rows[sid] # NoRow /\ req[r].now > @ THEN req[r].now ELSE @]
  BY DEF Grant
<1>4. RequestInv'
  <2>1. req' \in [Requests -> Request]
    BY <1>1 DEF SessionsInv, RequestInv, Request, Idle
  <2>2. \A q \in Requests : req'[q].pc # "idle" => q # r /\ req'[q] = req[q]
    BY <1>1 DEF SessionsInv, RequestInv, Idle
  <2>3. ASSUME NEW q \in Requests, req'[q].pc = "refresh"
        PROVE  rows'[req'[q].sid] = NoRow \/ rows'[req'[q].sid].ns = adminToken
    <3>1. req'[q] = req[q] /\ req[q].sid \in Sids
      BY <2>2, <2>3, SidsFacts DEF SessionsInv, RequestInv
    <3>2. rows[req[q].sid] = NoRow \/ rows[req[q].sid].ns = adminToken
      BY <2>3, <3>1 DEF SessionsInv, RequestInv
    <3>3. CASE req[q].sid = sid
      BY <3>1, <3>2, <3>3
    <3>4. CASE req[q].sid # sid
      BY <3>1, <3>2, <3>4
    <3> QED BY <3>3, <3>4
  <2> QED BY <1>1, <2>1, <2>2, <2>3 DEF SessionsInv, RequestInv
<1>5. GrantInv'
  <2>1. lastGrant' \in [Sids -> Nat] /\ \A s \in Sids : lastGrant'[s] <= clock
    BY <1>2, <1>3 DEF SessionsInv, GrantInv
  <2>2. ASSUME NEW s \in Sids, rows'[s] # NoRow
        PROVE  rows'[s].until + Refresh > lastGrant'[s] + Ttl
    <3>1. CASE s = sid
      BY <1>2, <1>3, <2>2, <3>1 DEF SessionsInv, GrantInv
    <3>2. CASE s # sid
      BY <1>2, <1>3, <2>2, <3>2 DEF SessionsInv, GrantInv, UseProlongs
    <3> QED BY <3>1, <3>2
  <2> QED BY <2>1, <2>2 DEF GrantInv, UseProlongs
<1> QED BY <1>4, <1>5 DEF SessionsInv

\* Steps of a request that change nothing but its own state.
LEMMA SessionsByProgress ==
  ASSUME SessionsInv, NEW r \in Requests, UNCHANGED <<clock, adminToken, rows, issued, ghosts>>,
         NEW q \in Request, req' = [req EXCEPT ![r] = q],
         q.pc # "idle" =>
           /\ q.sid \in 1..issued /\ q.now <= clock /\ clock < q.now + Refresh
           /\ q.late => q.sid \in removed /\ q.pc = "select",
         q.pc = "refresh" => rows[q.sid].ns = adminToken
  PROVE  SessionsInv'
<1>1. RequestInv'
  BY DEF SessionsInv, RequestInv, ghosts
<1>2. RowsInv' /\ GrantInv'
  BY DEF SessionsInv, RowsInv, GrantInv, UseProlongs, ghosts
<1> QED BY <1>1, <1>2 DEF SessionsInv

LEMMA SessionsBySelect == ASSUME SessionsInv, NEW r \in Requests, Select(r) PROVE SessionsInv'
<1> DEFINE sid == req[r].sid
<1>1. req[r].pc = "select" /\ req[r] \in Request /\ sid \in Sids /\ sid \in 1..issued
      /\ req[r].now <= clock /\ clock < req[r].now + Refresh
  BY SidsFacts DEF Select, SessionsInv, RequestInv
<1>2. rows[sid].ns = adminToken => ~req[r].late /\ rows[sid] # NoRow /\ rows[sid].until \in Nat
  BY <1>1, NoRowNamespace DEF SessionsInv, RequestInv, RowsInv
<1>3. CASE rows[sid].ns # adminToken
  <2>1. req' = [req EXCEPT ![r] = Idle] /\ Idle \in Request /\ Idle.pc = "idle"
        /\ UNCHANGED <<clock, adminToken, rows, issued, ghosts>>
    BY <1>3 DEF Select, Idle, Request, ghosts
  <2> QED BY <2>1, SessionsByProgress
<1>4. ASSUME rows[sid].ns = adminToken, NEW pc \in {"refresh", "revoke"},
             req' = [req EXCEPT ![r].pc = pc], UNCHANGED <<lastGrant, barred>>
      PROVE  SessionsInv'
  <2> DEFINE q == [req[r] EXCEPT !.pc = pc]
  <2>1. q \in Request /\ q.pc = pc /\ q.sid = sid /\ q.now = req[r].now /\ q.late = req[r].late
    BY <1>1, <1>4 DEF Request
  <2>2. req' = [req EXCEPT ![r] = q]
    BY <1>4
  <2>3. UNCHANGED <<clock, adminToken, rows, issued, ghosts>>
    BY <1>4 DEF Select, ghosts
  <2> HIDE DEF q
  <2> QED BY <1>1, <1>2, <1>4, <2>1, <2>2, <2>3, SessionsByProgress
<1>5. ASSUME rows[sid].ns = adminToken, ~DueForRefresh(rows[sid].until, req[r].now), Grant(r)
      PROVE  SessionsInv'
  <2>1. req[r].now \in Nat /\ rows[sid].until \in Nat /\ Ttl \in Nat /\ Refresh \in Nat
    BY <1>1, <1>2, <1>5, SessionsAssumption DEF Request
  <2>2. rows[sid].until + Refresh > req[r].now + Ttl
    BY <1>5, <2>1 DEF DueForRefresh
  <2>3. rows[sid].until + Refresh > lastGrant[sid] + Ttl
    BY <1>1, <1>2, <1>5 DEF SessionsInv, GrantInv, UseProlongs
  <2>4. UNCHANGED <<clock, adminToken, rows, issued, removed>>
    BY DEF Select
  <2>5. RowsInv'
    BY <2>4 DEF SessionsInv, RowsInv
  <2> QED BY <1>1, <1>2, <1>5, <2>2, <2>3, <2>4, <2>5, SessionsByGrant
<1> QED BY <1>3, <1>4, <1>5 DEF Select

LEMMA SessionsByRefresh == ASSUME SessionsInv, NEW r \in Requests, RefreshRow(r) PROVE SessionsInv'
<1> DEFINE sid == req[r].sid
<1>1. /\ req[r].pc = "refresh" /\ sid \in Sids /\ ~req[r].late
      /\ req[r].now \in Nat /\ clock \in Nat /\ clock < req[r].now + Refresh
      /\ rows[sid] = NoRow \/ rows[sid].ns = adminToken
  BY SidsFacts DEF RefreshRow, SessionsInv, RequestInv, RowsInv, Request
<1>2. Grant(r) /\ UNCHANGED <<clock, adminToken, issued, removed>> /\ Ttl \in Nat /\ Refresh \in Nat
  BY SessionsAssumption DEF RefreshRow
<1>3. CASE rows[sid] = NoRow
  <2>1. rows' = rows /\ rows'[sid] = NoRow
    BY <1>1, <1>3, NoRowNamespace DEF RefreshRow, SessionsInv
  <2>2. RowsInv'
    BY <1>2, <2>1 DEF SessionsInv, RowsInv
  <2> QED BY <1>1, <1>2, <1>3, <2>1, <2>2, SessionsByGrant
<1>4. CASE rows[sid] # NoRow
  <2>0. rows[sid] \in [ns : Namespaces, until : Nat] /\ rows[sid].ns = adminToken
    BY <1>1, <1>4, NoRowNamespace DEF SessionsInv
  <2>1. rows' = [rows EXCEPT ![sid].until = req[r].now + Ttl]
    BY <2>0 DEF RefreshRow
  <2>2. /\ rows'[sid] = [rows[sid] EXCEPT !.until = req[r].now + Ttl]
        /\ \A s \in Sids \ {sid} : rows'[s] = rows[s]
    BY <1>1, <2>1 DEF SessionsInv, RowsInv
  <2>3. rows'[sid] \in [ns : Namespaces, until : Nat] /\ rows'[sid].ns = adminToken
        /\ rows'[sid].until = req[r].now + Ttl
    BY <1>1, <1>2, <2>0, <2>2
  <2>4. rows'[sid] # NoRow
    BY <2>0, <2>3, SessionsAssumption DEF NoRow
  <2>5. RowsInv'
    <3>1. rows' \in [Sids -> Row]
      BY <1>1, <2>1, <2>3 DEF SessionsInv, RowsInv, Row
    <3>2. sid \notin removed /\ sid \in 1..issued
      BY <1>1, <1>4 DEF SessionsInv, RowsInv, RequestInv
    <3>3. \A s \in removed : rows'[s] = NoRow
      BY <2>2, <3>2, SidsFacts DEF SessionsInv, RowsInv
    <3>4. \A s \in Sids : s > issued => rows'[s] = NoRow
      BY <2>2, <3>2 DEF SessionsInv, RowsInv
    <3> QED BY <1>2, <3>1, <3>3, <3>4 DEF SessionsInv, RowsInv
  <2>6. lastGrant[sid] \in Nat /\ lastGrant[sid] <= clock /\ Refresh > 0
    BY <1>1, SessionsAssumption DEF SessionsInv, GrantInv
  <2>7. /\ rows'[sid].until + Refresh > req[r].now + Ttl
        /\ rows'[sid].until + Refresh > lastGrant[sid] + Ttl
    BY <1>1, <1>2, <2>3, <2>6
  <2> QED BY <1>1, <1>2, <1>4, <2>0, <2>2, <2>3, <2>4, <2>5, <2>7, SessionsByGrant
<1> QED BY <1>3, <1>4

LEMMA SessionsByRevoke ==
  ASSUME SessionsInv, NEW s \in 1..issued, RevokeRow(s),
         UNCHANGED <<clock, adminToken, issued, barred>>, req' \in [Requests -> Request],
         \A r \in Requests : req'[r].pc # "idle" => req'[r] = req[r]
  PROVE  SessionsInv'
<1> DEFINE gone == {s} \cap RowsOf(rows, adminToken)
<1>1. rows' = Delete(rows, gone) /\ removed' = removed \cup gone
      /\ lastGrant' = [x \in Sids |-> IF x \in gone THEN 0 ELSE lastGrant[x]]
  BY DEF RevokeRow
<1>2. gone \subseteq {s} /\ s \in Sids
  BY SidsFacts DEF SessionsInv
<1>3. rows' \in [Sids -> Row]
      /\ \A x \in Sids : IF x \in gone THEN rows'[x] = NoRow ELSE rows'[x] = rows[x]
  BY <1>1, DeleteRows DEF SessionsInv, RowsInv
<1> HIDE DEF gone
<1>4. RowsInv'
  <2>1. removed' \subseteq 1..issued
    BY <1>1, <1>2 DEF SessionsInv, RowsInv
  <2>2. \A x \in removed' : rows'[x] = NoRow
    BY <1>1, <1>2, <1>3, <2>1, SidsFacts DEF SessionsInv, RowsInv
  <2>3. \A x \in Sids : x > issued => rows'[x] = NoRow
    BY <1>3 DEF SessionsInv, RowsInv
  <2> QED BY <1>3, <2>1, <2>2, <2>3 DEF SessionsInv, RowsInv
<1>5. RequestInv'
  <2>1. ASSUME NEW r \in Requests, req'[r].pc = "refresh"
        PROVE  rows'[req'[r].sid] = NoRow \/ rows'[req'[r].sid].ns = adminToken'
    <3>1. req'[r] = req[r] /\ req[r].pc = "refresh" /\ req[r].sid \in Sids
      BY <2>1, SidsFacts DEF SessionsInv, RequestInv
    <3> QED BY <1>3, <3>1 DEF SessionsInv, RequestInv
  <2>2. ASSUME NEW r \in Requests, req'[r].pc # "idle"
        PROVE  /\ req'[r].sid \in 1..issued'
               /\ req'[r].now <= clock' /\ clock' < req'[r].now + Refresh
               /\ req'[r].late => req'[r].sid \in removed' /\ req'[r].pc = "select"
    BY <1>1, <2>2 DEF SessionsInv, RequestInv
  <2> QED BY <2>1, <2>2 DEF SessionsInv, RequestInv
<1>6. GrantInv'
  <2>1. lastGrant' \in [Sids -> Nat] /\ \A x \in Sids : lastGrant'[x] <= clock'
    BY <1>1 DEF SessionsInv, GrantInv, RowsInv
  <2>2. ASSUME NEW x \in Sids, rows'[x] # NoRow
        PROVE  rows'[x].until + Refresh > lastGrant'[x] + Ttl
    BY <1>1, <1>3, <2>2 DEF SessionsInv, GrantInv, UseProlongs
  <2> QED BY <2>1, <2>2 DEF GrantInv, UseProlongs
<1> QED BY <1>4, <1>5, <1>6 DEF SessionsInv

LEMMA SessionsStep == ASSUME SessionsInv, [SessionsNext]_sessionsVars PROVE SessionsInv'
<1>1. CASE Login
  BY <1>1, SessionsByLogin
<1>2. CASE Logout
  <2>1. PICK s \in 1..issued : RevokeRow(s)
    BY <1>2 DEF Logout
  <2> QED BY <1>2, <2>1, SessionsByRevoke DEF Logout, SessionsInv, RequestInv
<1>3. CASE ServerRestarts
  <2>1. Idle \in Request /\ Idle.pc = "idle"
    BY DEF Idle, Request
  <2>2. RowsInv' /\ GrantInv'
    BY <1>3 DEF ServerRestarts, ghosts, SessionsInv, RowsInv, GrantInv, UseProlongs
  <2>3. RequestInv'
    BY <1>3, <2>1 DEF ServerRestarts, ghosts, SessionsInv, RequestInv
  <2> QED BY <2>2, <2>3 DEF SessionsInv
<1>4. CASE ClockTicks
  <2>1. clock' = clock + 1 /\ clock \in Nat /\ UNCHANGED <<adminToken, rows, issued, req, ghosts>>
    BY <1>4 DEF ClockTicks, SessionsInv, RowsInv
  <2>2. RowsInv'
    BY <2>1 DEF ghosts, SessionsInv, RowsInv
  <2>3. GrantInv'
    BY <2>1 DEF ghosts, SessionsInv, GrantInv, UseProlongs
  <2>4. RequestInv'
    <3>1. \A r \in Requests : req[r].now \in Nat
      BY DEF SessionsInv, RequestInv, Request
    <3>2. \A r \in Requests : req[r].pc # "idle" => clock + 1 < req[r].now + Refresh
      BY <1>4 DEF ClockTicks
    <3> QED BY <2>1, <3>1, <3>2 DEF ghosts, SessionsInv, RequestInv
  <2> QED BY <2>2, <2>3, <2>4 DEF SessionsInv
<1>5. ASSUME NEW r \in Requests, Arrive(r) PROVE SessionsInv'
  <2>1. PICK s \in 1..issued :
          req' = [req EXCEPT ![r] = [pc |-> "select", sid |-> s, now |-> clock,
                                     late |-> s \in removed]]
    BY <1>5 DEF Arrive
  <2> DEFINE q == [pc |-> "select", sid |-> s, now |-> clock, late |-> s \in removed]
  <2>2. /\ q \in Request /\ q.pc = "select" /\ q.sid = s /\ q.now = clock
        /\ q.late => s \in removed
    <3>1. s \in Nat /\ clock \in Nat /\ (s \in removed) \in BOOLEAN
      BY DEF SessionsInv, RowsInv
    <3> QED BY <3>1 DEF Request
  <2>3. clock < clock + Refresh /\ clock <= clock
    BY SessionsAssumption DEF SessionsInv, RowsInv
  <2>4. UNCHANGED <<clock, adminToken, rows, issued, ghosts>> /\ req' = [req EXCEPT ![r] = q]
    BY <1>5, <2>1 DEF Arrive
  <2> HIDE DEF q
  <2> QED BY <2>2, <2>3, <2>4, SessionsByProgress
<1>6. ASSUME NEW r \in Requests, Select(r) PROVE SessionsInv'
  BY <1>6, SessionsBySelect
<1>7. ASSUME NEW r \in Requests, RefreshRow(r) PROVE SessionsInv'
  BY <1>7, SessionsByRefresh
<1>8. ASSUME NEW r \in Requests, RevokeExpired(r) PROVE SessionsInv'
  <2>1. req[r].sid \in 1..issued /\ req' = [req EXCEPT ![r] = Idle]
    BY <1>8 DEF RevokeExpired, SessionsInv, RequestInv
  <2>2. Idle \in Request /\ Idle.pc = "idle"
    BY DEF Idle, Request
  <2>3. /\ req' \in [Requests -> Request]
        /\ \A q \in Requests : req'[q].pc # "idle" => req'[q] = req[q]
    BY <2>1, <2>2 DEF SessionsInv, RequestInv
  <2> QED BY <1>8, <2>1, <2>3, SessionsByRevoke DEF RevokeExpired
<1>9. ASSUME NEW r \in Requests, RefuseRequest(r) PROVE SessionsInv'
  <2>1. Idle \in Request /\ Idle.pc = "idle"
    BY DEF Idle, Request
  <2> QED BY <1>9, <2>1, SessionsByProgress DEF RefuseRequest
<1>10. CASE UNCHANGED sessionsVars
  BY <1>10 DEF sessionsVars, ghosts, SessionsInv, RowsInv, RequestInv, GrantInv, UseProlongs
<1> QED BY <1>1, <1>2, <1>3, <1>4, <1>5, <1>6, <1>7, <1>8, <1>9, <1>10 DEF SessionsNext

\* No request that begins after a session's removal is served with it (auth.rs,
\* validate_session and its refresh).
THEOREM RemovedSessionsStayOut ==
  SessionsSpec => []RemovedStaysOut
<1>1. SessionsInv => RemovedStaysOut
  BY DEF SessionsInv, RequestInv, RemovedStaysOut
<1> QED BY <1>1, SessionsInitially, SessionsStep, PTL DEF SessionsSpec

\* Every use of a session prolongs it, also with updates out of order (auth.rs, the
\* rolling refresh).
THEOREM UsedSessionsLiveOn ==
  SessionsSpec => []UseProlongs
<1>1. SessionsInv => UseProlongs
  BY DEF SessionsInv, GrantInv
<1> QED BY <1>1, SessionsInitially, SessionsStep, PTL DEF SessionsSpec

-----------------------------------------------------------------------------
(* The number of sessions *)

\* Only a login adds a row; all others keep, prolong or delete.
LEMMA OnlyLoginAdds ==
  ASSUME SessionsInv, [SessionsNext]_sessionsVars, ~Login, NEW n \in Namespaces
  PROVE  RowsOf(rows', n) \subseteq RowsOf(rows, n)
<1>1. ASSUME NEW s, RevokeRow(s) PROVE RowsOf(rows', n) \subseteq RowsOf(rows, n)
  BY <1>1, SessionsAssumption DEF RevokeRow, RowsOf, Delete, NoRow
<1>2. ASSUME NEW r \in Requests, RefreshRow(r) PROVE RowsOf(rows', n) \subseteq RowsOf(rows, n)
  <2>1. CASE rows' = rows
    BY <2>1
  <2>2. CASE rows' = [rows EXCEPT ![req[r].sid].until = req[r].now + Ttl]
    <3>1. ASSUME NEW s \in Sids, rows[s].ns # n PROVE rows'[s].ns # n
      <4>1. rows[s] \in Row /\ DOMAIN rows = Sids
        BY DEF SessionsInv, RowsInv
      <4>2. rows'[s] = rows[s] \/ rows'[s] = [rows[s] EXCEPT !.until = req[r].now + Ttl]
        BY <2>2, <4>1
      <4> QED BY <3>1, <4>1, <4>2 DEF Row, NoRow
    <3> QED BY <3>1 DEF RowsOf
  <2> QED BY <1>2, <2>1, <2>2 DEF RefreshRow
<1>3. CASE rows' = rows
  BY <1>3
<1> QED BY <1>1, <1>2, <1>3 DEF SessionsNext, sessionsVars, Logout, ServerRestarts, ClockTicks,
       Arrive, Select, RevokeExpired, RefuseRequest

LEMMA FiniteRows ==
  ASSUME NEW f, NEW n
  PROVE  IsFiniteSet(RowsOf(f, n))
<1>1. IsFiniteSet(1..MaxSids)
  BY FS_Interval, SessionsAssumption
<1> QED BY <1>1, FS_Subset DEF RowsOf, Sids

\* One eviction makes room for one session.
LEMMA LoginKeepsCap ==
  ASSUME SessionsInv, SessionCap, Login
  PROVE  SessionCap'
<1> DEFINE expired == {s \in Sids : rows[s] # NoRow /\ rows[s].until <= clock}
           kept == Delete(rows, expired)
           sid == issued + 1
           live == RowsOf(kept, adminToken)
<1>1. PICK evicted \in Evicted(live) :
        rows' = [Delete(kept, evicted) EXCEPT ![sid] = [ns |-> adminToken, until |-> clock + Ttl]]
  BY DEF Login
<1>2. sid \in Sids /\ adminToken \in Namespaces /\ MaxSessions \in Nat /\ 0 \notin Namespaces
  BY SessionsAssumption DEF Login, SessionsInv, RowsInv, Sids
<1>3. \A n \in Namespaces : RowsOf(kept, n) \subseteq RowsOf(rows, n)
  BY <1>2 DEF RowsOf, Delete, NoRow
<1>4. \A n \in Namespaces \ {adminToken} : RowsOf(rows', n) \subseteq RowsOf(kept, n)
  BY <1>1, <1>2 DEF RowsOf, Delete, NoRow
<1>5. RowsOf(rows', adminToken) \subseteq (live \ evicted) \cup {sid}
  BY <1>1, <1>2 DEF RowsOf, Delete, NoRow
<1>6. IsFiniteSet(live) /\ Cardinality(live) <= MaxSessions /\ Cardinality(live) \in Nat
  BY <1>2, <1>3, FiniteRows, FS_Subset, FS_CardinalityType DEF SessionCap
<1>7. IsFiniteSet(live \ evicted) /\ Cardinality(live \ evicted) \in Nat
      /\ Cardinality(live \ evicted) + 1 <= MaxSessions
  <2>1. CASE Cardinality(live) < MaxSessions
    <3>1. evicted = {}
      BY <1>1, <2>1 DEF Evicted
    <3>2. live \ evicted = live
      BY <3>1
    <3> HIDE DEF live
    <3>3. Cardinality(live) + 1 <= MaxSessions
      BY <1>2, <1>6, <2>1
    <3> QED BY <1>6, <3>2, <3>3
  <2>2. CASE ~(Cardinality(live) < MaxSessions)
    <3>1. PICK s \in live : evicted = {s}
      BY <1>1, <2>2 DEF Evicted
    <3>2. IsFiniteSet(live \ {s}) /\ Cardinality(live \ {s}) = Cardinality(live) - 1
      BY <1>6, <3>1, FS_RemoveElement
    <3>3. Cardinality(live \ {s}) \in Nat
      BY <3>2, FS_CardinalityType
    <3> QED BY <1>2, <1>6, <3>1, <3>2, <3>3
  <2> QED BY <2>1, <2>2
<1>8. Cardinality(RowsOf(rows', adminToken)) <= MaxSessions
  <2>1. IsFiniteSet((live \ evicted) \cup {sid})
        /\ Cardinality((live \ evicted) \cup {sid}) <= Cardinality(live \ evicted) + 1
    <3> DEFINE rest == live \ evicted
    <3>1. IsFiniteSet(rest) /\ Cardinality(rest) \in Nat
      BY <1>7
    <3> HIDE DEF rest
    <3>2. /\ IsFiniteSet(rest \cup {sid})
          /\ Cardinality(rest \cup {sid}) =
               IF sid \in rest THEN Cardinality(rest) ELSE Cardinality(rest) + 1
      BY <3>1, FS_AddElement
    <3> QED BY <3>1, <3>2 DEF rest
  <2>2. /\ Cardinality(RowsOf(rows', adminToken)) <= Cardinality((live \ evicted) \cup {sid})
        /\ Cardinality(RowsOf(rows', adminToken)) \in Nat
        /\ Cardinality((live \ evicted) \cup {sid}) \in Nat
    BY <1>5, <2>1, FS_Subset, FS_CardinalityType
  <2> QED BY <1>2, <1>7, <2>1, <2>2
<1>9. ASSUME NEW n \in Namespaces \ {adminToken} PROVE Cardinality(RowsOf(rows', n)) <= MaxSessions
  <2>1. RowsOf(rows', n) \subseteq RowsOf(rows, n)
    BY <1>3, <1>4
  <2>2. /\ Cardinality(RowsOf(rows', n)) <= Cardinality(RowsOf(rows, n))
        /\ Cardinality(RowsOf(rows', n)) \in Nat /\ Cardinality(RowsOf(rows, n)) \in Nat
    BY <2>1, FiniteRows, FS_Subset, FS_CardinalityType
  <2> QED BY <1>2, <2>2 DEF SessionCap
<1> QED BY <1>8, <1>9 DEF SessionCap

\* No interleaving of logins, logouts, refreshes and expiries exceeds MAX_SESSIONS
\* (auth.rs, create_session).
THEOREM SessionsAreCapped ==
  SessionsSpec => []SessionCap
<1>1. SessionsInit => SessionCap
  <2>1. ASSUME SessionsInit, NEW n \in Namespaces PROVE RowsOf(rows, n) = {}
    BY <2>1, SessionsAssumption DEF SessionsInit, RowsOf, NoRow
  <2> QED BY <2>1, FS_EmptySet, SessionsAssumption DEF SessionCap
<1>2. SessionsInv /\ SessionCap /\ [SessionsNext]_sessionsVars => SessionCap'
  <2>1. ASSUME SessionsInv, SessionCap, [SessionsNext]_sessionsVars, ~Login, NEW n \in Namespaces
        PROVE  Cardinality(RowsOf(rows', n)) <= MaxSessions
    <3>1. RowsOf(rows', n) \subseteq RowsOf(rows, n)
      BY <2>1, OnlyLoginAdds
    <3>2. /\ Cardinality(RowsOf(rows', n)) <= Cardinality(RowsOf(rows, n))
          /\ Cardinality(RowsOf(rows', n)) \in Nat /\ Cardinality(RowsOf(rows, n)) \in Nat
      BY <3>1, FiniteRows, FS_Subset, FS_CardinalityType
    <3> QED BY <2>1, <3>2, SessionsAssumption DEF SessionCap
  <2> QED BY <2>1, LoginKeepsCap DEF SessionCap
<1> QED BY <1>1, <1>2, SessionsInitially, SessionsStep, PTL DEF SessionsSpec

\* The clock bounds what was read of it, and nothing is left of a request that has ended.
BoundsInv ==
  /\ clock <= MaxTime /\ barred \in BOOLEAN
  /\ \A s \in Sids : rows[s].until <= clock + Ttl
  /\ \A r \in Requests : req[r].pc = "idle" => req[r] = Idle

LEMMA LaterSumsAreLarger ==
  ASSUME NEW a \in Nat, NEW b \in Nat, NEW t \in Nat, a <= b PROVE a + t <= b + t
OBVIOUS

LEMMA BoundsStep ==
  ASSUME SessionsInv, BoundsInv, [SessionsNext]_sessionsVars PROVE BoundsInv'
<1>1. /\ clock \in Nat /\ MaxTime \in Nat /\ Ttl \in Nat /\ rows \in [Sids -> Row]
      /\ req \in [Requests -> Request] /\ NoRow.until = 0 /\ Idle.pc = "idle"
      /\ \A s \in Sids : rows[s].until \in Nat
  <2>1. rows \in [Sids -> Row] /\ \A x \in Row : x.until \in Nat
    BY DEF SessionsInv, RowsInv, Row, NoRow
  <2> QED BY <2>1, SessionsAssumption DEF SessionsInv, RowsInv, RequestInv, NoRow, Idle
<1>2. clock' <= MaxTime /\ clock' \in Nat /\ clock <= clock'
  <2>1. UNCHANGED clock \/ (clock < MaxTime /\ clock' = clock + 1)
    BY DEF SessionsNext, sessionsVars, Login, Logout, ServerRestarts, ClockTicks, Arrive, Select,
       RefreshRow, RevokeExpired, RefuseRequest
  <2> QED BY <1>1, <2>1 DEF BoundsInv
<1>3. barred' \in BOOLEAN
  BY DEF BoundsInv, SessionsNext, sessionsVars, ghosts, Login, Logout, ServerRestarts, ClockTicks,
     Arrive, Select, RefreshRow, RevokeExpired, RefuseRequest, Grant
<1>4. clock + Ttl <= clock' + Ttl
  BY <1>1, <1>2, LaterSumsAreLarger
<1>5. ASSUME NEW s \in Sids PROVE rows'[s].until <= clock' + Ttl
  <2>1. CASE rows'[s] = rows[s] \/ rows'[s] = NoRow
    BY <1>1, <1>2, <2>1 DEF BoundsInv
  <2>2. CASE UNCHANGED rows
    BY <2>1, <2>2
  <2>3. CASE Logout \/ \E r \in Requests : RevokeExpired(r)
    BY <1>1, <2>1, <2>3 DEF Logout, RevokeExpired, RevokeRow, Delete
  <2>4. CASE Login
    <3>1. PICK f \in [Sids -> Row] :
            /\ f[s] = rows[s] \/ f[s] = NoRow
            /\ rows' = [f EXCEPT ![issued + 1] = [ns |-> adminToken, until |-> clock + Ttl]]
      <4> DEFINE expired == {x \in Sids : rows[x] # NoRow /\ rows[x].until <= clock}
                 kept == Delete(rows, expired)
      <4>1. PICK evicted \in Evicted(RowsOf(kept, adminToken)) :
              rows' = [Delete(kept, evicted) EXCEPT
                        ![issued + 1] = [ns |-> adminToken, until |-> clock + Ttl]]
        BY <2>4 DEF Login
      <4>2. kept \in [Sids -> Row] /\ (kept[s] = rows[s] \/ kept[s] = NoRow)
        BY <1>1 DEF Delete, Row
      <4> HIDE DEF kept
      <4>3. /\ Delete(kept, evicted) \in [Sids -> Row]
            /\ Delete(kept, evicted)[s] = kept[s] \/ Delete(kept, evicted)[s] = NoRow
        BY <4>2 DEF Delete, Row
      <4> QED BY <4>1, <4>2, <4>3
    <3>2. CASE s = issued + 1
      <4>1. rows'[s] = [ns |-> adminToken, until |-> clock + Ttl]
        BY <3>1, <3>2
      <4>2. rows'[s].until = clock + Ttl
        BY <4>1
      <4> QED BY <1>4, <4>2
    <3>3. CASE s # issued + 1
      BY <2>1, <3>1, <3>3
    <3> QED BY <3>2, <3>3
  <2>5. ASSUME NEW r \in Requests, RefreshRow(r) PROVE rows'[s].until <= clock' + Ttl
    <3>1. req[r].now \in Nat /\ req[r].now <= clock
      BY <1>1, <2>5 DEF RefreshRow, SessionsInv, RequestInv, Request
    <3>2. \/ rows' = rows
          \/ rows' = [rows EXCEPT ![req[r].sid].until = req[r].now + Ttl]
      BY <2>5 DEF RefreshRow
    <3>3. rows'[s] = rows[s] \/ rows'[s].until = req[r].now + Ttl
      <4>1. CASE rows[s] = NoRow
        BY <1>1, <3>2, <4>1 DEF NoRow
      <4>2. CASE rows[s] # NoRow
        <5>1. rows[s] \in [ns : Namespaces, until : Nat]
          BY <1>1, <4>2 DEF Row
        <5> QED BY <1>1, <3>2, <5>1
      <4> QED BY <4>1, <4>2
    <3>4. CASE rows'[s] = rows[s]
      BY <2>1, <3>4
    <3>5. CASE rows'[s].until = req[r].now + Ttl
      BY <1>1, <1>2, <3>1, <3>5
    <3> QED BY <3>3, <3>4, <3>5
  <2>6. CASE ServerRestarts \/ ClockTicks \/ UNCHANGED sessionsVars
    BY <2>2, <2>6 DEF ServerRestarts, ClockTicks, sessionsVars
  <2>7. ASSUME NEW r \in Requests, Arrive(r) \/ Select(r) \/ RefuseRequest(r) PROVE UNCHANGED rows
    BY <2>7 DEF Arrive, Select, RefuseRequest
  <2> QED BY <2>2, <2>3, <2>4, <2>5, <2>6, <2>7 DEF SessionsNext
<1>6. ASSUME NEW r \in Requests, req'[r].pc = "idle" PROVE req'[r] = Idle
  <2>1. CASE req'[r] = req[r]
    BY <1>6, <2>1 DEF BoundsInv
  <2>2. CASE Login \/ Logout \/ ClockTicks \/ UNCHANGED sessionsVars
    BY <2>1, <2>2 DEF Login, Logout, ClockTicks, sessionsVars
  <2>3. CASE ServerRestarts
    BY <2>3 DEF ServerRestarts
  <2>4. ASSUME NEW q \in Requests,
               Arrive(q) \/ Select(q) \/ RefreshRow(q) \/ RevokeExpired(q) \/ RefuseRequest(q)
        PROVE  req'[r] = Idle
    <3>1. \/ req' = [req EXCEPT ![q] = Idle]
          \/ \E x \in Request : x.pc # "idle" /\ req' = [req EXCEPT ![q] = x]
      <4>1. CASE Arrive(q)
        <5>1. PICK s \in 1..issued :
                req' = [req EXCEPT ![q] = [pc |-> "select", sid |-> s, now |-> clock,
                                           late |-> s \in removed]]
          BY <4>1 DEF Arrive
        <5>2. [pc |-> "select", sid |-> s, now |-> clock, late |-> s \in removed] \in Request
          BY <1>1 DEF Request, SessionsInv, RowsInv
        <5> QED BY <5>1, <5>2
      <4>2. CASE Select(q)
        <5>1. \/ req' = [req EXCEPT ![q] = Idle]
              \/ req' = [req EXCEPT ![q] = [req[q] EXCEPT !.pc = "revoke"]]
              \/ req' = [req EXCEPT ![q] = [req[q] EXCEPT !.pc = "refresh"]]
          BY <4>2 DEF Select, Grant
        <5>2. /\ [req[q] EXCEPT !.pc = "revoke"] \in Request
              /\ [req[q] EXCEPT !.pc = "refresh"] \in Request
          BY <1>1 DEF Request
        <5>3. /\ [req[q] EXCEPT !.pc = "revoke"].pc # "idle"
              /\ [req[q] EXCEPT !.pc = "refresh"].pc # "idle"
          BY <1>1 DEF Request
        <5> QED BY <5>1, <5>2, <5>3
      <4>3. CASE RefreshRow(q) \/ RevokeExpired(q) \/ RefuseRequest(q)
        BY <4>3 DEF RefreshRow, RevokeExpired, RefuseRequest, Grant
      <4> QED BY <2>4, <4>1, <4>2, <4>3
    <3>2. CASE q = r
      BY <1>1, <1>6, <3>1, <3>2
    <3>3. CASE q # r
      BY <1>1, <2>1, <3>1, <3>3
    <3> QED BY <3>2, <3>3
  <2> QED BY <2>2, <2>3, <2>4 DEF SessionsNext
<1> QED BY <1>2, <1>3, <1>5, <1>6 DEF BoundsInv

\* Rows and requests stay within their types: an expiry is never further ahead than the
\* time to live (auth.rs).
THEOREM SessionsTypeCorrect == SessionsSpec => []SessionsTypeOK
<1>1. SessionsInit => BoundsInv
  <2> SUFFICES ASSUME SessionsInit PROVE BoundsInv
    OBVIOUS
  <2>1. clock <= MaxTime /\ clock + Ttl \in Nat /\ clock + Ttl >= 0
    BY SessionsAssumption DEF SessionsInit
  <2>2. \A s \in Sids : rows[s].until <= clock + Ttl
    BY <2>1 DEF SessionsInit, NoRow
  <2>3. barred \in BOOLEAN
    BY DEF SessionsInit
  <2>4. \A r \in Requests : req[r] = Idle
    BY DEF SessionsInit
  <2> QED BY <2>1, <2>2, <2>3, <2>4 DEF BoundsInv
<1>2. SessionsInv /\ BoundsInv => SessionsTypeOK
  <2> SUFFICES ASSUME SessionsInv, BoundsInv PROVE SessionsTypeOK
    OBVIOUS
  <2>1. /\ clock \in Nat /\ clock \in 0..MaxTime /\ Ttl \in Nat /\ MaxTime \in Nat
        /\ MaxSids \in Nat /\ issued \in 0..MaxSids
    BY SessionsAssumption DEF SessionsInv, BoundsInv, RowsInv
  <2>2. rows \in [Sids -> [ns : Namespaces, until : 0..(MaxTime + Ttl)] \cup {NoRow}]
    <3>1. ASSUME NEW s \in Sids
          PROVE  rows[s] \in [ns : Namespaces, until : 0..(MaxTime + Ttl)] \cup {NoRow}
      <4>1. rows[s] \in [ns : Namespaces, until : Nat] \cup {NoRow} /\ rows[s].until <= clock + Ttl
        BY DEF SessionsInv, RowsInv, BoundsInv, Row
      <4> QED BY <2>1, <4>1
    <3> QED BY <3>1 DEF SessionsInv, RowsInv
  <2>3. ASSUME NEW r \in Requests
        PROVE  req[r] \in [pc : {"idle", "select", "refresh", "revoke"},
                           sid : 0..MaxSids, now : 0..MaxTime, late : BOOLEAN]
    <3>1. CASE req[r].pc = "idle"
      <4>1. req[r] = Idle
        BY <3>1 DEF BoundsInv
      <4> QED BY <2>1, <4>1 DEF Idle
    <3>2. CASE req[r].pc # "idle"
      <4>1. req[r] \in Request /\ req[r].sid \in 1..issued /\ req[r].now <= clock
        BY <3>2 DEF SessionsInv, RequestInv
      <4> QED BY <2>1, <4>1 DEF Request
    <3> QED BY <3>1, <3>2
  <2>4. removed \subseteq Sids
    BY <2>1 DEF SessionsInv, RowsInv, Sids
  <2>5. lastGrant \in [Sids -> 0..MaxTime]
    <3>1. \A s \in Sids : lastGrant[s] \in 0..MaxTime
      BY <2>1 DEF SessionsInv, GrantInv
    <3> QED BY <3>1 DEF SessionsInv, GrantInv
  <2>6. req \in [Requests -> [pc : {"idle", "select", "refresh", "revoke"},
                              sid : 0..MaxSids, now : 0..MaxTime, late : BOOLEAN]]
    BY <2>3 DEF SessionsInv, RequestInv
  <2> QED BY <2>1, <2>2, <2>4, <2>5, <2>6 DEF SessionsInv, RowsInv, BoundsInv, SessionsTypeOK
<1> QED BY <1>1, <1>2, SessionsInitially, SessionsStep, BoundsStep, PTL DEF SessionsSpec

-----------------------------------------------------------------------------
(* Opening the state database *)

\* How far a process is tells what has been repaired: past the first table no run of it is
\* in the old shape, past the second neither table is, and who has it open found both.
MigrationInv ==
  /\ history = TRUE /\ jobRuns \in Shapes /\ syncs \in Shapes
  /\ opening \in [Processes -> OpenStages]
  /\ \A p \in Processes :
       /\ opening[p] \in {"syncs", "add", "fill", "baseline", "open"} => jobRuns # "old"
       /\ opening[p] \in {"fill", "baseline", "open"} => syncs # "old"
       /\ opening[p] = "open" => jobRuns = "current" /\ syncs = "current"
  /\ filled = TRUE \/ torn = TRUE \/ syncs = "old" \/ \E p \in Processes : opening[p] = "fill"

LEMMA MigrationInitially == MigrationInit => MigrationInv
BY DEF MigrationInit, MigrationInv, OpenStages, Shapes

\* No step brings an old shape back, and none takes a current one away.
LEMMA MigrationStep == ASSUME MigrationInv, [MigrationNext]_migrationVars PROVE MigrationInv'
<1> USE DEF MigrationInv, OpenStages, Shapes, MovesTo, tables
<1>1. ASSUME NEW p \in Processes, BeginOpening(p) PROVE MigrationInv'
  BY <1>1 DEF BeginOpening
<1>2. ASSUME NEW p \in Processes, InspectRuns(p) PROVE MigrationInv'
  BY <1>2 DEF InspectRuns
<1>3. ASSUME NEW p \in Processes, RebuildRuns(p) PROVE MigrationInv'
  BY <1>3 DEF RebuildRuns
<1>4. ASSUME NEW p \in Processes, InspectSyncs(p) PROVE MigrationInv'
  BY <1>4 DEF InspectSyncs
<1>5. ASSUME NEW p \in Processes, AddLastSuccess(p) PROVE MigrationInv'
  <2>1. CASE syncs = "old"
    BY <1>5, <2>1 DEF AddLastSuccess
  <2>2. CASE syncs # "old"
    BY <1>5, <2>2 DEF AddLastSuccess
  <2> QED BY <2>1, <2>2
<1>6. ASSUME NEW p \in Processes, FillLastSuccess(p) PROVE MigrationInv'
  BY <1>6 DEF FillLastSuccess
<1>7. ASSUME NEW p \in Processes, Baseline(p) PROVE MigrationInv'
  BY <1>7 DEF Baseline
<1>8. ASSUME NEW p \in Processes, End(p) PROVE MigrationInv'
  BY <1>8 DEF End
<1>9. ASSUME NEW p \in Processes, Close(p) PROVE MigrationInv'
  BY <1>9 DEF Close
<1>10. CASE UNCHANGED migrationVars
  BY <1>10 DEF migrationVars
<1> QED
  BY <1>1, <1>2, <1>3, <1>4, <1>5, <1>6, <1>7, <1>8, <1>9, <1>10 DEF MigrationNext

\* Processes that repair an old database at once, and die on the way, lose nothing of it
\* (state/mod.rs, open and its repairs).
THEOREM DatabasesSurvive == MigrationSpec => []OldDatabasesSurvive
<1>1. MigrationInv => OldDatabasesSurvive
  BY DEF MigrationInv, OldDatabasesSurvive
<1> QED BY <1>1, MigrationInitially, MigrationStep, PTL DEF MigrationSpec

\* Nothing counts as filled in while the column is missing.
MigrationTypeInv ==
  /\ filled \in BOOLEAN /\ torn \in BOOLEAN /\ crashes \in 0..MaxCrashes
  /\ syncs = "old" => ~filled

LEMMA MigrationTypeStep ==
  ASSUME MigrationInv, MigrationTypeInv, [MigrationNext]_migrationVars PROVE MigrationTypeInv'
<1> USE DEF MigrationTypeInv, tables
<1>1. ASSUME NEW p \in Processes, BeginOpening(p) \/ InspectRuns(p) \/ InspectSyncs(p) \/ Close(p)
      PROVE  MigrationTypeInv'
  BY <1>1 DEF BeginOpening, InspectRuns, InspectSyncs, Close
<1>2. ASSUME NEW p \in Processes, RebuildRuns(p) PROVE MigrationTypeInv'
  BY <1>2 DEF RebuildRuns
<1>3. ASSUME NEW p \in Processes, AddLastSuccess(p) PROVE MigrationTypeInv'
  BY <1>3 DEF AddLastSuccess
<1>4. ASSUME NEW p \in Processes, FillLastSuccess(p) PROVE MigrationTypeInv'
  BY <1>4 DEF FillLastSuccess, MigrationInv
<1>5. ASSUME NEW p \in Processes, Baseline(p) PROVE MigrationTypeInv'
  BY <1>5 DEF Baseline
<1>6. ASSUME NEW p \in Processes, End(p) PROVE MigrationTypeInv'
  <2>1. crashes' \in 0..MaxCrashes
    BY <1>6, MigrationAssumption DEF End
  <2> QED BY <1>6, <2>1 DEF End
<1>7. CASE UNCHANGED migrationVars
  BY <1>7 DEF migrationVars
<1> QED BY <1>1, <1>2, <1>3, <1>4, <1>5, <1>6, <1>7 DEF MigrationNext

\* The tables are of a release's shape at every step, and the new column counts as filled
\* in only where it is there (state/mod.rs).
THEOREM MigrationTypeCorrect == MigrationSpec => []MigrationTypeOK
<1>1. MigrationInit => MigrationTypeInv
  <2> SUFFICES ASSUME MigrationInit PROVE MigrationTypeInv
    OBVIOUS
  <2>1. crashes \in 0..MaxCrashes
    BY MigrationAssumption DEF MigrationInit
  <2>2. filled = (syncs # "old") /\ torn = FALSE
    BY DEF MigrationInit
  <2> QED BY <2>1, <2>2 DEF MigrationTypeInv
<1>2. MigrationInv /\ MigrationTypeInv => MigrationTypeOK
  BY DEF MigrationInv, MigrationTypeInv, MigrationTypeOK
<1> QED BY <1>1, <1>2, MigrationInitially, MigrationStep, MigrationTypeStep, PTL DEF MigrationSpec

-----------------------------------------------------------------------------
(* The grids of a snap job and the snapshots that they keep *)

\* Every set of naturals that is not empty has a least member.
LEMMA LeastOf ==
  ASSUME NEW T, T \subseteq Nat, T # {}
  PROVE  \E x \in T : \A y \in T : x <= y
<1> DEFINE LessThan == OpToRel(<, Nat)
<1>1. PICK x \in T : \A y \in T : ~(<<y, x>> \in LessThan)
  BY NatLessThanWellFounded, WFMin
<1>2. \A y \in T : ~(y < x)
  BY <1>1 DEF OpToRel
<1>3. \A y \in T : x <= y
  BY <1>2
<1> QED BY <1>3

\* Max of a bounded set of naturals is its greatest member.
LEMMA GreatestOf ==
  ASSUME NEW n \in Nat, NEW S \in SUBSET (0..n), S # {}
  PROVE  Max(S) \in S /\ \A y \in S : y <= Max(S)
<1> DEFINE T == {n - x : x \in S}
<1>0. \A x \in S : x \in Nat /\ n - x \in Nat
  OBVIOUS
<1>1. T \subseteq Nat /\ T # {}
  BY <1>0
<1>2. PICK t \in T : \A y \in T : t <= y
  BY <1>1, LeastOf
<1>3. PICK x \in S : t = n - x
  BY <1>2
<1>4. \A y \in S : y <= x
  <2> SUFFICES ASSUME NEW y \in S PROVE y <= x
    OBVIOUS
  <2>1. n - y \in T
    OBVIOUS
  <2> HIDE DEF T
  <2>2. n - x <= n - y /\ x \in Nat /\ y \in Nat
    BY <1>0, <1>2, <1>3, <2>1
  <2> QED BY <2>2
<1> QED BY <1>3, <1>4 DEF Max

\* The recursions of the buckets' ends and of a grid's terms have a solution for every
\* prefix: the first prefix without one would follow one with.
EndRec(grid, n, f) == f = [i \in 0..n |-> IF i = 0 THEN 0 ELSE f[i - 1] + grid[i].length]

LEMMA EndsExist ==
  ASSUME NEW grid, NEW n \in Nat
  PROVE  \E f : EndRec(grid, n, f)
<1> DEFINE T == {m \in Nat : ~\E f : EndRec(grid, m, f)}
<1> SUFFICES ASSUME T # {} PROVE FALSE
  OBVIOUS
<1>1. PICK m \in T : \A y \in T : m <= y
  BY LeastOf
<1>2. m # 0
  <2> DEFINE f == [i \in 0..0 |-> 0]
  <2>1. EndRec(grid, 0, f)
    BY DEF EndRec
  <2> HIDE DEF f
  <2> QED BY <2>1
<1>3. m - 1 \in Nat /\ m \in Nat /\ ~(m <= m - 1)
  BY <1>2
<1>4. PICK f : EndRec(grid, m - 1, f)
  BY <1>1, <1>3
<1> DEFINE g == [i \in 0..m |-> IF i = 0 THEN 0 ELSE f[i - 1] + grid[i].length]
<1>5. \A i \in 0..(m - 1) : f[i] = IF i = 0 THEN 0 ELSE f[i - 1] + grid[i].length
  BY <1>4 DEF EndRec
<1>6. \A i \in 0..(m - 1) : i \in 0..m /\ g[i] = f[i]
  BY <1>3, <1>5
<1>7. g = [i \in 0..m |-> IF i = 0 THEN 0 ELSE f[i - 1] + grid[i].length]
  OBVIOUS
<1> HIDE DEF g
<1>8. g = [i \in 0..m |-> IF i = 0 THEN 0 ELSE g[i - 1] + grid[i].length]
  <2>1. \A i \in 0..m : i # 0 => i - 1 \in 0..(m - 1)
    BY <1>3
  <2>2. \A i \in 0..m : i # 0 => f[i - 1] = g[i - 1]
    BY <1>6, <2>1
  <2> QED BY <1>7, <2>2
<1> QED BY <1>1, <1>8 DEF EndRec

\* The ends of the buckets: the first begins at the youngest snapshot, and each is a
\* bucket later than the one before.
LEMMA EndsOf ==
  ASSUME NEW grid, Len(grid) \in Nat
  PROVE  /\ EndOf(grid, 0) = 0
         /\ \A k \in 1..Len(grid) : EndOf(grid, k) = EndOf(grid, k - 1) + grid[k].length
<1> DEFINE end == CHOOSE f : EndRec(grid, Len(grid), f)
<1>1. \A k : EndOf(grid, k) = end[k]
  BY DEF EndOf, EndRec
<1>2. EndRec(grid, Len(grid), end)
  BY EndsExist
<1> HIDE DEF end
<1>3. \A i \in 0..Len(grid) : end[i] = IF i = 0 THEN 0 ELSE end[i - 1] + grid[i].length
  BY <1>2 DEF EndRec
<1> QED BY <1>1, <1>3

\* What a grid that parses is made of.
Buckets == [length : Nat \ {0}, keep : (Nat \ {0}) \cup {All}]

\* The buckets of a grid end at natural ages.
LEMMA EndsAscend ==
  ASSUME NEW grid \in Seq(Buckets)
  PROVE  \A k \in 0..Len(grid) : EndOf(grid, k) \in Nat
<1> DEFINE T == {k \in 0..Len(grid) : EndOf(grid, k) \notin Nat}
<1> SUFFICES ASSUME T # {} PROVE FALSE
  OBVIOUS
<1>1. PICK k \in T : \A y \in T : k <= y
  <2>1. T \subseteq Nat
    OBVIOUS
  <2> QED BY <2>1, LeastOf
<1>2. Len(grid) \in Nat
  OBVIOUS
<1>3. k # 0
  BY <1>2, EndsOf
<1>4. k \in 1..Len(grid) /\ k - 1 \in 0..Len(grid) /\ ~(k <= k - 1)
  BY <1>2, <1>3
<1>5. EndOf(grid, k - 1) \in Nat
  BY <1>1, <1>4
<1>6. grid[k].length \in Nat
  <2>1. grid[k] \in Buckets
    BY <1>4
  <2> QED BY <2>1 DEF Buckets
<1>7. EndOf(grid, k) = EndOf(grid, k - 1) + grid[k].length
  BY <1>2, <1>4, EndsOf
<1> QED BY <1>1, <1>5, <1>6, <1>7

\* FlattenSeq, prefix by prefix.
FlatRec(s, n, f) == f = [i \in 1..n |-> IF i = 1 THEN s[i] ELSE f[i - 1] \o s[i]]

LEMMA FlatsExist ==
  ASSUME NEW s, NEW n \in Nat
  PROVE  \E f : FlatRec(s, n, f)
<1> DEFINE T == {m \in Nat : ~\E f : FlatRec(s, m, f)}
<1> SUFFICES ASSUME T # {} PROVE FALSE
  OBVIOUS
<1>1. PICK m \in T : \A y \in T : m <= y
  BY LeastOf
<1>2. m # 0
  <2> DEFINE f == [i \in 1..0 |-> 0]
  <2>1. FlatRec(s, 0, f)
    BY DEF FlatRec
  <2> HIDE DEF f
  <2> QED BY <2>1
<1>3. m - 1 \in Nat /\ m \in Nat /\ ~(m <= m - 1)
  BY <1>2
<1>4. PICK f : FlatRec(s, m - 1, f)
  BY <1>1, <1>3
<1> DEFINE g == [i \in 1..m |-> IF i = 1 THEN s[i] ELSE f[i - 1] \o s[i]]
<1>5. \A i \in 1..(m - 1) : f[i] = IF i = 1 THEN s[i] ELSE f[i - 1] \o s[i]
  BY <1>4 DEF FlatRec
<1>6. \A i \in 1..(m - 1) : i \in 1..m /\ g[i] = f[i]
  BY <1>3, <1>5
<1>7. g = [i \in 1..m |-> IF i = 1 THEN s[i] ELSE f[i - 1] \o s[i]]
  OBVIOUS
<1> HIDE DEF g
<1>8. g = [i \in 1..m |-> IF i = 1 THEN s[i] ELSE g[i - 1] \o s[i]]
  <2>1. \A i \in 1..m : i # 1 => i - 1 \in 1..(m - 1)
    BY <1>3
  <2>2. \A i \in 1..m : i # 1 => f[i - 1] = g[i - 1]
    BY <1>6, <2>1
  <2> QED BY <1>7, <2>2
<1> QED BY <1>1, <1>8 DEF FlatRec

\* Terms that are flattened are a sequence of what their sequences are made of.
LEMMA FlattenType ==
  ASSUME NEW S, NEW s \in Seq(Seq(S))
  PROVE  FlattenSeq(s) \in Seq(S)
<1>1. CASE Len(s) = 0
  <2>1. s = <<>>
    BY <1>1
  <2> QED BY <1>1, <2>1 DEF FlattenSeq
<1>2. CASE Len(s) # 0
  <2> DEFINE flat == CHOOSE f : FlatRec(s, Len(s), f)
             T == {k \in 1..Len(s) : flat[k] \notin Seq(S)}
  <2>1. FlattenSeq(s) = flat[Len(s)]
    BY <1>2 DEF FlattenSeq, FlatRec
  <2>2. FlatRec(s, Len(s), flat)
    <3>1. Len(s) \in Nat
      OBVIOUS
    <3> QED BY <3>1, FlatsExist
  <2> HIDE DEF flat
  <2>3. \A i \in 1..Len(s) : flat[i] = IF i = 1 THEN s[i] ELSE flat[i - 1] \o s[i]
    BY <2>2 DEF FlatRec
  <2>4. ASSUME T # {} PROVE FALSE
    <3>1. T \subseteq Nat
      OBVIOUS
    <3>2. PICK k \in T : \A y \in T : k <= y
      BY <2>4, <3>1, LeastOf
    <3>3. k \in 1..Len(s) /\ s[k] \in Seq(S)
      OBVIOUS
    <3>4. k # 1
      BY <2>3, <3>2, <3>3
    <3>5. k - 1 \in 1..Len(s) /\ ~(k <= k - 1)
      BY <3>3, <3>4
    <3>6. flat[k - 1] \in Seq(S)
      BY <3>2, <3>5
    <3>7. flat[k] = flat[k - 1] \o s[k]
      BY <2>3, <3>3, <3>4
    <3>8. flat[k] \in Seq(S)
      BY <3>3, <3>6, <3>7
    <3> QED BY <3>8
  <2>5. Len(s) \in 1..Len(s)
    BY <1>2
  <2> QED BY <2>1, <2>4, <2>5
<1> QED BY <1>1, <1>2

\* A grid that parses is a sequence of buckets that are longer than zero and keep
\* something.
LEMMA IntervalsType ==
  ASSUME NEW terms \in Seq(Terms), GridParses(terms)
  PROVE  Intervals(terms) \in Seq(Buckets) /\ Len(Intervals(terms)) \in Nat
<1> DEFINE s == [i \in DOMAIN terms |->
                   [j \in 1..terms[i].count |->
                     [length |-> terms[i].length, keep |-> terms[i].keep]]]
<1>1. DOMAIN terms = 1..Len(terms) /\ Len(terms) \in Nat
  OBVIOUS
<1>2. \A i \in 1..Len(terms) :
        /\ terms[i].count \in Nat /\ terms[i].length \in Nat \ {0}
        /\ terms[i].keep \in (Nat \ {0}) \cup {All}
  <2>1. \A i \in 1..Len(terms) : terms[i] \in Terms
    OBVIOUS
  <2>2. \A i \in 1..Len(terms) : terms[i].length > 0 /\ terms[i].keep # 0
    BY <1>1 DEF GridParses
  <2> QED BY <2>1, <2>2 DEF Terms, All
<1>3. ASSUME NEW i \in 1..Len(terms) PROVE s[i] \in Seq(Buckets)
  <2> DEFINE b == [length |-> terms[i].length, keep |-> terms[i].keep]
  <2>1. b \in Buckets
    BY <1>2 DEF Buckets
  <2>2. s[i] = [j \in 1..terms[i].count |-> b]
    BY <1>1
  <2>3. terms[i].count \in Nat
    BY <1>2
  <2> HIDE DEF b, s
  <2> QED BY <2>1, <2>2, <2>3
<1>4. s \in Seq(Seq(Buckets))
  BY <1>1, <1>3
<1> HIDE DEF s
<1>5. FlattenSeq(s) \in Seq(Buckets)
  BY <1>4, FlattenType
<1> QED BY <1>5 DEF Intervals, s

-----------------------------------------------------------------------------
\* The types, with what the types of a job and its grids come to, and the functions that
\* the history is kept in.
JobInv ==
  /\ job.interval \in Nat
  /\ \A g \in OwnGrids : g \in Seq(Buckets) /\ Len(g) \in Nat

\* The types of one dataset: its snapshots are also finitely many, for they are counted.
DatasetOK(d) ==
  /\ retained[d] \subseteq [at : 0..now, name : {"own", "other"}]
  /\ OwnTimes(d) \subseteq everTaken[d] /\ everTaken[d] \subseteq 0..now
  /\ d \notin JobTargets => everTaken[d] = {}
  /\ IsFiniteSet(retained[d])

Steps == {"idle", "snap", "prune"}

RetentionTypes ==
  /\ JobInv
  /\ now \in 0..MaxClock /\ nextDue \in 0..(MaxClock + job.interval)
  /\ mishaps \in 0..MaxMishaps /\ doing \in Steps
  /\ todo \subseteq JobTargets /\ (doing = "idle") = (todo = {})
  /\ retained = [d \in HostDatasets |-> retained[d]]
  /\ everTaken = [d \in HostDatasets |-> everTaken[d]]
  /\ \A d \in HostDatasets : DatasetOK(d)

\* The job that is loaded has an interval and grids of buckets (load_from_str).
LEMMA JobTypes == RetentionInit => JobInv
<1> SUFFICES ASSUME RetentionInit PROVE JobInv
  OBVIOUS
<1>1. PICK c \in Configs : Loads(c) /\ job = ResolveDefaults(c)
  BY DEF RetentionInit
<1>2. /\ job.interval \in Nat
      /\ \A r \in job.keep : r.kind = "grid" => r.grid \in Seq(Terms)
  BY <1>1, RetentionAssumption
<1>3. \A r \in job.keep : r.kind = "grid" => GridParses(r.grid)
  BY <1>1 DEF Loads
<1>4. \A r \in job.keep : r.kind = "grid" =>
        Intervals(r.grid) \in Seq(Buckets) /\ Len(Intervals(r.grid)) \in Nat
  BY <1>2, <1>3, IntervalsType
<1> QED BY <1>2, <1>4 DEF JobInv, OwnGrids

\* A daemon starts with the types.
LEMMA RetentionInitially == RetentionInit => RetentionTypes
<1> SUFFICES ASSUME RetentionInit PROVE RetentionTypes
  OBVIOUS
<1>1. IsFiniteSet({})
  BY FS_EmptySet
<1>2. \A d \in HostDatasets : DatasetOK(d)
  BY <1>1 DEF RetentionInit, DatasetOK, OwnTimes
<1> QED BY <1>2, JobTypes, RetentionAssumption DEF RetentionInit, RetentionTypes, JobInv, Steps

\* Mishaps stay within their bound.
LEMMA DisturbType ==
  ASSUME mishaps \in 0..MaxMishaps, NEW n \in Nat, Disturb(n)
  PROVE  mishaps' \in 0..MaxMishaps
BY RetentionAssumption DEF Disturb

\* A snapshot more brings its own time, where it is one of the job, and no other.
LEMMA OneMore ==
  ASSUME NEW R, NEW s
  PROVE  {x.at : x \in {x \in R \cup {s} : x.name = "own"}} =
           {x.at : x \in {x \in R : x.name = "own"}} \cup (IF s.name = "own" THEN {s.at} ELSE {})
OBVIOUS

\* Every step of the job, of the clock and of the users keeps the types.
LEMMA RetentionStep == RetentionTypes /\ [RetentionNext]_retentionVars => RetentionTypes'
<1> SUFFICES ASSUME RetentionTypes, [RetentionNext]_retentionVars PROVE RetentionTypes'
  OBVIOUS
<1>0. job' = job
  BY DEF RetentionNext, retentionVars, Tick, CycleBegins, Restart, SnapshotTarget, PruneTarget,
         CreateSnapshot
<1> USE DEF Steps
<1>1. JobInv' /\ JobTargets' = JobTargets
  BY <1>0 DEF RetentionTypes, JobInv, OwnGrids, JobTargets
<1> DEFINE Same == retained' = retained /\ everTaken' = everTaken
<1>2. ASSUME Same, now' \in now..MaxClock PROVE \A d \in HostDatasets : DatasetOK(d)'
  <2>1. \A d \in HostDatasets : OwnTimes(d)' = OwnTimes(d)
    BY <1>2 DEF OwnTimes
  <2>2. now \in Nat /\ now' \in Nat /\ now <= now'
    BY <1>2, RetentionAssumption DEF RetentionTypes
  <2>3. 0..now \subseteq 0..now'
    BY <2>2
  <2> QED BY <1>1, <1>2, <2>1, <2>3 DEF DatasetOK, RetentionTypes
<1>3. CASE Tick
  <2>1. Same /\ now' \in now..MaxClock /\ now' \in 0..MaxClock
    BY <1>3, RetentionAssumption DEF Tick, RetentionTypes
  <2> QED BY <1>0, <1>1, <1>2, <1>3, <2>1 DEF Tick, RetentionTypes
<1>4. CASE CycleBegins
  <2>1. Same /\ now' = now /\ now \in now..MaxClock
    BY <1>4, RetentionAssumption DEF CycleBegins, RetentionTypes
  <2>2. mishaps' \in 0..MaxMishaps
    BY <1>4, DisturbType DEF CycleBegins, RetentionTypes
  <2>3. nextDue' \in 0..(MaxClock + job'.interval)
    BY <1>0, <1>4, RetentionAssumption DEF CycleBegins, RetentionTypes, JobInv
  <2>4. doing' \in Steps /\ todo' \subseteq JobTargets' /\ (doing' = "idle") = (todo' = {})
    BY <1>1, <1>4 DEF CycleBegins
  <2> QED BY <1>1, <1>2, <2>1, <2>2, <2>3, <2>4 DEF RetentionTypes
<1>5. CASE Restart
  <2>1. Same /\ now' \in now..MaxClock /\ now' \in 0..MaxClock
    BY <1>5, RetentionAssumption DEF Restart, RetentionTypes
  <2>2. mishaps' \in 0..MaxMishaps
    BY <1>5, DisturbType DEF Restart, RetentionTypes
  <2>3. nextDue' \in 0..(MaxClock + job'.interval)
    BY <1>1, <1>5, <2>1, RetentionAssumption DEF Restart, JobInv
  <2>4. doing' \in Steps /\ todo' \subseteq JobTargets' /\ (doing' = "idle") = (todo' = {})
    BY <1>5 DEF Restart
  <2> QED BY <1>1, <1>2, <2>1, <2>2, <2>3, <2>4 DEF RetentionTypes
<1>6. ASSUME NEW d \in HostDatasets, SnapshotTarget(d) PROVE RetentionTypes'
  <2>1. now' = now /\ nextDue' = nextDue /\ d \in JobTargets
    BY <1>6 DEF SnapshotTarget, RetentionTypes
  <2>2. mishaps' \in 0..MaxMishaps
    BY <1>6, DisturbType DEF SnapshotTarget, RetentionTypes
  <2>3. doing' \in Steps /\ todo' \subseteq JobTargets' /\ (doing' = "idle") = (todo' = {})
    BY <1>1, <1>6, <2>1 DEF SnapshotTarget, RetentionTypes
  <2>4. CASE Same
    <3>1. now' \in now..MaxClock
      BY <2>1, RetentionAssumption DEF RetentionTypes
    <3> QED BY <1>0, <1>1, <1>2, <2>1, <2>2, <2>3, <2>4, <3>1 DEF RetentionTypes
  <2>5. CASE /\ retained' = [retained EXCEPT ![d] = @ \cup {[at |-> now, name |-> "own"]}]
             /\ everTaken' = [everTaken EXCEPT ![d] = @ \cup {now}]
    <3>1. \A e \in HostDatasets :
            e # d => retained'[e] = retained[e] /\ everTaken'[e] = everTaken[e]
      BY <2>5 DEF RetentionTypes
    <3>2. \A e \in HostDatasets : e # d => DatasetOK(e)'
      BY <1>1, <2>1, <3>1 DEF RetentionTypes, DatasetOK, OwnTimes
    <3>3. /\ retained'[d] = retained[d] \cup {[at |-> now, name |-> "own"]}
          /\ everTaken'[d] = everTaken[d] \cup {now}
      BY <2>5 DEF RetentionTypes
    <3>4. IsFiniteSet(retained'[d])
      <4>1. IsFiniteSet(retained[d])
        BY DEF RetentionTypes, DatasetOK
      <4>2. IsFiniteSet(retained[d] \cup {[at |-> now, name |-> "own"]})
        BY <4>1, FS_AddElement
      <4> QED BY <3>3, <4>2
    <3>5. OwnTimes(d)' = OwnTimes(d) \cup {now}
      <4> DEFINE s == [at |-> now, name |-> "own"]
      <4>1. retained'[d] = retained[d] \cup {s} /\ s.name = "own" /\ s.at = now
        BY <3>3
      <4> HIDE DEF s
      <4> QED BY <4>1, OneMore DEF OwnTimes
    <3>6. now \in 0..now
      BY RetentionAssumption DEF RetentionTypes
    <3>7. DatasetOK(d)'
      BY <1>1, <2>1, <3>3, <3>4, <3>5, <3>6 DEF RetentionTypes, DatasetOK
    <3>8. /\ retained' = [e \in HostDatasets |-> retained'[e]]
          /\ everTaken' = [e \in HostDatasets |-> everTaken'[e]]
      BY <2>5 DEF RetentionTypes
    <3> QED BY <1>0, <1>1, <2>1, <2>2, <2>3, <3>2, <3>7, <3>8 DEF RetentionTypes
  <2> QED BY <1>6, <2>4, <2>5 DEF SnapshotTarget
<1>7. ASSUME NEW d \in HostDatasets, PruneTarget(d) PROVE RetentionTypes'
  <2> DEFINE victims == Evaluate(job.keep, retained[d])
  <2>1. PICK spared \in SUBSET victims :
          /\ Disturb(Cardinality(spared))
          /\ retained' = [retained EXCEPT ![d] = @ \ (victims \ spared)]
    BY <1>7 DEF PruneTarget
  <2>2. now' = now /\ nextDue' = nextDue /\ d \in JobTargets /\ everTaken' = everTaken
    BY <1>7 DEF PruneTarget, RetentionTypes
  <2>3. mishaps' \in 0..MaxMishaps
    <3>1. spared \subseteq retained[d]
      BY DEF Evaluate
    <3>2. Cardinality(spared) \in Nat
      BY <3>1, FS_Subset, FS_CardinalityType DEF RetentionTypes, DatasetOK
    <3> QED BY <2>1, <3>2, DisturbType DEF RetentionTypes
  <2>4. doing' \in Steps /\ todo' \subseteq JobTargets' /\ (doing' = "idle") = (todo' = {})
    BY <1>1, <1>7 DEF PruneTarget, RetentionTypes
  <2> HIDE DEF victims
  <2>5. /\ \A e \in HostDatasets : retained'[e] \subseteq retained[e]
        /\ retained' = [e \in HostDatasets |-> retained'[e]]
    BY <2>1 DEF RetentionTypes
  <2>6. \A e \in HostDatasets : DatasetOK(e)'
    BY <1>1, <2>2, <2>5, FS_Subset DEF RetentionTypes, DatasetOK, OwnTimes
  <2> QED BY <1>0, <1>1, <2>2, <2>3, <2>4, <2>5, <2>6 DEF RetentionTypes
<1>8. ASSUME NEW d \in HostDatasets, NEW recursive \in BOOLEAN, CreateSnapshot(d, recursive)
      PROVE  RetentionTypes'
  <2>1. now' = now /\ UNCHANGED <<nextDue, doing, todo, everTaken>>
    BY <1>8 DEF CreateSnapshot
  <2>2. mishaps' \in 0..MaxMishaps
    BY <1>8, DisturbType DEF CreateSnapshot, RetentionTypes
  <2> DEFINE new == [at |-> now, name |-> "other"]
  <2>3. /\ \A e \in HostDatasets : \/ retained'[e] = retained[e]
                                   \/ retained'[e] = retained[e] \cup {new}
        /\ retained' = [e \in HostDatasets |-> retained'[e]]
    BY <1>8 DEF CreateSnapshot
  <2>4. new \in [at : 0..now, name : {"own", "other"}] /\ new.name # "own"
    BY RetentionAssumption DEF RetentionTypes
  <2> HIDE DEF new
  <2>5. ASSUME NEW e \in HostDatasets PROVE OwnTimes(e)' = OwnTimes(e)
    <3>0. retained'[e] = retained[e] \/ retained'[e] = retained[e] \cup {new}
      BY <2>3
    <3>1. CASE retained'[e] = retained[e]
      BY <3>1 DEF OwnTimes
    <3>2. CASE retained'[e] = retained[e] \cup {new}
      BY <2>4, <3>2, OneMore DEF OwnTimes
    <3> QED BY <3>0, <3>1, <3>2
  <2>6. ASSUME NEW e \in HostDatasets PROVE IsFiniteSet(retained'[e])
    <3>1. IsFiniteSet(retained[e])
      BY DEF RetentionTypes, DatasetOK
    <3>2. IsFiniteSet(retained[e] \cup {new})
      BY <3>1, FS_AddElement
    <3> QED BY <2>3, <3>1, <3>2
  <2>7. \A e \in HostDatasets : DatasetOK(e)'
    BY <1>1, <2>1, <2>3, <2>4, <2>5, <2>6 DEF RetentionTypes, DatasetOK
  <2> QED BY <1>0, <1>1, <2>1, <2>2, <2>3, <2>7 DEF RetentionTypes
<1>9. CASE UNCHANGED retentionVars
  <2>1. now' \in now..MaxClock
    BY <1>9, RetentionAssumption DEF RetentionTypes, retentionVars
  <2> QED BY <1>0, <1>1, <1>2, <1>9, <2>1 DEF RetentionTypes, retentionVars
<1> QED BY <1>3, <1>4, <1>5, <1>6, <1>7, <1>8, <1>9 DEF RetentionNext

\* Retention keeps its types: the datasets a cycle has to do are targets of the job, the
\* times of its snapshots are among those ever taken, and none lies in the future
\* (jobs/periodic.rs, jobs/snap.rs, prune.rs).
THEOREM RetentionTypeCorrect == RetentionSpec => []RetentionTypeOK
<1>1. RetentionTypes => RetentionTypeOK
  BY DEF RetentionTypes, RetentionTypeOK, DatasetOK, Steps
<1> QED BY <1>1, RetentionInitially, RetentionStep, PTL DEF RetentionSpec

-----------------------------------------------------------------------------
\* What GridHoldsHistory says of one time, one grid and the times of one dataset: all that
\* were ever taken, and those of the snapshots that are rest.
Promise(g, ever, own, x) ==
  /\ InKeepAll(g, Max(ever) - x) => x \in own
  /\ \E y \in ever : y <= x /\ (y \in own \/ Max(ever) - y >= EndOf(g, Len(g)))

\* GridHoldsHistory with the types; it is inductive.
HistoryInv ==
  RetentionTypes /\ \A d \in HostDatasets, g \in OwnGrids : \A x \in everTaken[d] :
                      Promise(g, everTaken[d], OwnTimes(d), x)

\* The age of a snapshot can only grow with what is taken.
LEMMA AgesGrow ==
  ASSUME NEW N \in Nat, NEW S \in SUBSET (0..N), NEW T \in SUBSET (0..N), S \subseteq T, NEW x \in S
  PROVE  /\ Max(S) - x \in Nat /\ Max(T) - x \in Nat /\ Max(S) - x <= Max(T) - x
         /\ Max(S) \in Nat /\ Max(T) \in Nat
<1>1. Max(S) \in S /\ x <= Max(S) /\ Max(T) \in T /\ Max(S) <= Max(T)
  BY GreatestOf
<1>2. x \in Nat /\ Max(S) \in Nat /\ Max(T) \in Nat
  <2>1. \A y \in T : y \in Nat
    OBVIOUS
  <2> QED BY <1>1, <2>1
<1> QED BY <1>1, <1>2

\* An older snapshot is in the window of keep=all only if a younger one is.
LEMMA WindowShrinks ==
  ASSUME NEW g \in Seq(Buckets), NEW a \in Nat, NEW b \in Nat, a <= b, InKeepAll(g, b)
  PROVE  InKeepAll(g, a)
<1>1. \A k \in DOMAIN g : EndOf(g, k) \in Nat
  BY EndsAscend
<1> QED BY <1>1 DEF InKeepAll

\* A snapshot more makes every other one older, and is there itself.
LEMMA PromiseGrows ==
  ASSUME NEW N \in Nat, NEW g \in Seq(Buckets), NEW E \in SUBSET (0..N), NEW F \in SUBSET (0..N),
         NEW own, NEW more, E \subseteq F, own \subseteq more, F \ E \subseteq more,
         \A x \in E : Promise(g, E, own, x)
  PROVE  \A x \in F : Promise(g, F, more, x)
<1>0. EndOf(g, Len(g)) \in Nat
  <2>1. Len(g) \in 0..Len(g)
    OBVIOUS
  <2> QED BY <2>1, EndsAscend
<1> SUFFICES ASSUME NEW x \in F PROVE Promise(g, F, more, x)
  OBVIOUS
<1>1. CASE x \in E
  <2>1. InKeepAll(g, Max(F) - x) => x \in more
    BY <1>1, AgesGrow, WindowShrinks DEF Promise
  <2>2. PICK y \in E : y <= x /\ (y \in own \/ Max(E) - y >= EndOf(g, Len(g)))
    BY <1>1 DEF Promise
  <2>3. Max(E) - y \in Nat /\ Max(F) - y \in Nat /\ Max(E) - y <= Max(F) - y
    BY AgesGrow
  <2>4. y \in more \/ Max(F) - y >= EndOf(g, Len(g))
    BY <1>0, <2>2, <2>3
  <2> QED BY <2>1, <2>2, <2>4 DEF Promise
<1>2. CASE x \notin E
  <2>1. x \in more /\ x <= x
    BY <1>2
  <2> QED BY <2>1 DEF Promise
<1> QED BY <1>1, <1>2

\* What is younger than the end of a bucket lies in that one or in an earlier one.
LEMMA BucketFound ==
  ASSUME NEW N \in Nat, NEW g \in Seq(Buckets), NEW M, {e.at : e \in M} \subseteq 0..N,
         NEW s \in M, NEW k \in 0..Len(g), AgeOf(s, M) < EndOf(g, k)
  PROVE  \E j \in 1..k : s \in Bucket(g, M, j)
<1> DEFINE T == {j \in 0..k : AgeOf(s, M) < EndOf(g, j)}
<1>0. AgeOf(s, M) \in Nat
  BY AgesGrow DEF AgeOf
<1>1. PICK j \in T : \A i \in T : j <= i
  <2>1. T \subseteq Nat /\ k \in T
    OBVIOUS
  <2> QED BY <2>1, LeastOf
<1>2. Len(g) \in Nat
  OBVIOUS
<1>3. j # 0
  BY <1>0, <1>2, EndsOf
<1>4. j \in 1..k /\ j - 1 \in 0..k /\ ~(j <= j - 1) /\ j - 1 \in 0..Len(g)
  BY <1>2, <1>3
<1>5. EndOf(g, j - 1) \in Nat
  BY <1>4, EndsAscend
<1>6. ~(AgeOf(s, M) < EndOf(g, j - 1))
  BY <1>1, <1>4
<1> QED BY <1>0, <1>1, <1>4, <1>5, <1>6 DEF Bucket

\* A grid destroys nothing in its leading buckets with keep=all, and never the oldest
\* snapshot that it covers.
LEMMA FitSpares ==
  ASSUME NEW N \in Nat, NEW g \in Seq(Buckets), NEW M, {e.at : e \in M} \subseteq 0..N,
         NEW s \in FitDestroys(g, M)
  PROVE  /\ ~InKeepAll(g, AgeOf(s, M))
         /\ (\A e \in M : s.at <= e.at) => AgeOf(s, M) >= EndOf(g, Len(g))
<1>1. s \in M /\ \A k \in DOMAIN g : s \notin Kept(Bucket(g, M, k), g[k].keep)
  BY DEF FitDestroys
<1>2. ~InKeepAll(g, AgeOf(s, M))
  <2> SUFFICES ASSUME NEW k \in DOMAIN g, AgeOf(s, M) < EndOf(g, k),
                      \A j \in 1..k : g[j].keep = All
               PROVE  FALSE
    BY DEF InKeepAll
  <2>0. k \in 0..Len(g) /\ Len(g) \in Nat
    OBVIOUS
  <2>1. PICK j \in 1..k : s \in Bucket(g, M, j)
    BY <1>1, <2>0, BucketFound
  <2>2. s \in Kept(Bucket(g, M, j), g[j].keep) /\ j \in DOMAIN g
    BY <2>1 DEF Kept
  <2> QED BY <1>1, <2>2
<1>3. ASSUME \A e \in M : s.at <= e.at, AgeOf(s, M) < EndOf(g, Len(g)) PROVE FALSE
  <2>1. PICK j \in 1..Len(g) : s \in Bucket(g, M, j)
    <3>1. Len(g) \in 0..Len(g)
      OBVIOUS
    <3> QED BY <1>1, <1>3, <3>1, BucketFound
  <2>2. Older(s, Bucket(g, M, j)) = {}
    <3>1. \A e \in M : e.at \in Nat
      OBVIOUS
    <3>2. \A e \in M : ~(e.at < s.at)
      BY <1>1, <1>3, <3>1
    <3> QED BY <3>2 DEF Older, Bucket
  <2>3. g[j].keep = All \/ 0 < g[j].keep
    <3>1. g[j] \in Buckets
      OBVIOUS
    <3> QED BY <3>1 DEF Buckets
  <2>4. s \in Kept(Bucket(g, M, j), g[j].keep)
    BY <2>1, <2>2, <2>3, FS_EmptySet DEF Kept
  <2> QED BY <1>1, <2>4
<1>4. AgeOf(s, M) \in Nat /\ EndOf(g, Len(g)) \in Nat
  <2>1. Len(g) \in 0..Len(g)
    OBVIOUS
  <2> QED BY <1>1, <2>1, AgesGrow, EndsAscend DEF AgeOf
<1> QED BY <1>2, <1>3, <1>4

\* What is left after a prune keeps the promise.
LEMMA PromiseThins ==
  ASSUME NEW N \in Nat, NEW g \in Seq(Buckets), NEW ever \in SUBSET (0..N), NEW R, NEW rest,
         rest \subseteq R, {e.at : e \in {t \in R : t.name = "own"}} \subseteq ever,
         \A e \in R \ rest : e.name = "own" => e \in FitDestroys(g, {t \in R : t.name = "own"}),
         \A x \in ever : Promise(g, ever, {e.at : e \in {t \in R : t.name = "own"}}, x)
  PROVE  \A x \in ever : Promise(g, ever, {e.at : e \in {t \in rest : t.name = "own"}}, x)
<1> DEFINE M    == {t \in R : t.name = "own"}
           own  == {e.at : e \in M}
           less == {e.at : e \in {t \in rest : t.name = "own"}}
<1> SUFFICES ASSUME NEW x \in ever PROVE Promise(g, ever, less, x)
  OBVIOUS
<1>0. own \subseteq ever /\ own \subseteq 0..N /\ Len(g) \in 0..Len(g)
  <2>1. own \subseteq ever
    OBVIOUS
  <2> HIDE DEF own
  <2> QED BY <2>1
<1>1. ASSUME NEW s \in M, s \notin rest
      PROVE  /\ ~InKeepAll(g, AgeOf(s, M))
             /\ (\A e \in M : s.at <= e.at) => AgeOf(s, M) >= EndOf(g, Len(g))
  <2>1. s \in FitDestroys(g, M)
    BY <1>1
  <2> HIDE DEF M
  <2> QED BY <1>0, <2>1, FitSpares
<1>2. ASSUME NEW s \in M
      PROVE  /\ s.at \in own /\ AgeOf(s, M) \in Nat /\ Max(ever) - s.at \in Nat
             /\ AgeOf(s, M) <= Max(ever) - s.at
  <2>1. s.at \in own
    OBVIOUS
  <2> QED BY <1>0, <2>1, AgesGrow DEF AgeOf
<1>3. \A s \in M : s \in rest => s.at \in less
  OBVIOUS
<1>4. Promise(g, ever, own, x)
  OBVIOUS
<1> HIDE DEF M, own, less
<1>5. ASSUME InKeepAll(g, Max(ever) - x) PROVE x \in less
  <2>1. PICK s \in M : s.at = x
    BY <1>4, <1>5 DEF Promise, own
  <2>2. InKeepAll(g, AgeOf(s, M))
    BY <1>2, <1>5, <2>1, WindowShrinks
  <2> QED BY <1>1, <1>3, <2>1, <2>2
<1>6. PICK y \in ever : y <= x /\ (y \in own \/ Max(ever) - y >= EndOf(g, Len(g)))
  BY <1>4 DEF Promise
<1>7. \E z \in ever : z <= x /\ (z \in less \/ Max(ever) - z >= EndOf(g, Len(g)))
  <2>1. CASE y \notin own
    BY <1>6, <2>1
  <2>2. CASE y \in own
    <3>1. PICK m \in own : \A o \in own : m <= o
      <4>1. own \subseteq Nat
        BY <1>0
      <4> QED BY <2>2, <4>1, LeastOf
    <3>2. PICK s \in M : s.at = m
      BY <3>1 DEF own
    <3>3. \A e \in M : s.at <= e.at
      BY <1>2, <3>1, <3>2
    <3>4. m \in ever /\ m <= x
      <4>1. \A z \in ever : z \in Nat
        OBVIOUS
      <4>2. m \in ever /\ m <= y
        BY <1>0, <2>2, <3>1
      <4> QED BY <1>6, <4>1, <4>2
    <3>5. EndOf(g, Len(g)) \in Nat
      BY <1>0, EndsAscend
    <3>6. s \in rest \/ Max(ever) - m >= EndOf(g, Len(g))
      BY <1>1, <1>2, <3>2, <3>3, <3>5
    <3> QED BY <1>3, <3>2, <3>4, <3>6
  <2> QED BY <2>1, <2>2
<1>8. Promise(g, ever, less, x)
  BY <1>5, <1>7 DEF Promise
<1> QED BY <1>8 DEF less

\* A snapshot taken and a dataset pruned keep the promise of every grid.
LEMMA HistoryStep == HistoryInv /\ [RetentionNext]_retentionVars => HistoryInv'
<1> SUFFICES ASSUME HistoryInv, [RetentionNext]_retentionVars PROVE HistoryInv'
  OBVIOUS
<1>1. RetentionTypes /\ RetentionTypes' /\ now' \in Nat
  BY RetentionStep, RetentionAssumption DEF HistoryInv, RetentionTypes
<1>2. job' = job
  BY DEF RetentionNext, retentionVars, Tick, CycleBegins, Restart, SnapshotTarget, PruneTarget,
         CreateSnapshot
<1>3. OwnGrids' = OwnGrids
  BY <1>2 DEF OwnGrids
<1> SUFFICES ASSUME NEW d \in HostDatasets, NEW g \in OwnGrids
             PROVE  \A x \in everTaken'[d] : Promise(g, everTaken'[d], OwnTimes(d)', x)
  BY <1>1, <1>3 DEF HistoryInv
<1>4. /\ g \in Seq(Buckets) /\ everTaken'[d] \in SUBSET (0..now')
      /\ OwnTimes(d) \subseteq everTaken[d]
      /\ \A x \in everTaken[d] : Promise(g, everTaken[d], OwnTimes(d), x)
  BY <1>1 DEF HistoryInv, RetentionTypes, JobInv, DatasetOK
<1>5. ASSUME everTaken[d] \subseteq everTaken'[d], OwnTimes(d) \subseteq OwnTimes(d)',
             everTaken'[d] \ everTaken[d] \subseteq OwnTimes(d)'
      PROVE  \A x \in everTaken'[d] : Promise(g, everTaken'[d], OwnTimes(d)', x)
  <2>1. everTaken[d] \in SUBSET (0..now')
    BY <1>4, <1>5
  <2> QED BY <1>1, <1>4, <1>5, <2>1, PromiseGrows
<1>6. CASE UNCHANGED <<retained, everTaken>>
  BY <1>5, <1>6 DEF OwnTimes
<1>7. ASSUME NEW e \in HostDatasets, SnapshotTarget(e)
      PROVE  \A x \in everTaken'[d] : Promise(g, everTaken'[d], OwnTimes(d)', x)
  <2> DEFINE s == [at |-> now, name |-> "own"]
  <2>1. CASE retained'[d] = retained[d] /\ everTaken'[d] = everTaken[d]
    BY <1>5, <2>1 DEF OwnTimes
  <2>2. CASE retained'[d] = retained[d] \cup {s} /\ everTaken'[d] = everTaken[d] \cup {now}
    <3>1. s.name = "own" /\ s.at = now
      OBVIOUS
    <3> HIDE DEF s
    <3>2. OwnTimes(d)' = OwnTimes(d) \cup {now}
      BY <2>2, <3>1, OneMore DEF OwnTimes
    <3> QED BY <1>5, <2>2, <3>2
  <2> QED BY <1>1, <1>7, <2>1, <2>2 DEF SnapshotTarget, RetentionTypes
<1>8. ASSUME NEW e \in HostDatasets, NEW recursive \in BOOLEAN, CreateSnapshot(e, recursive)
      PROVE  \A x \in everTaken'[d] : Promise(g, everTaken'[d], OwnTimes(d)', x)
  <2>1. everTaken'[d] = everTaken[d] /\ retained[d] \subseteq retained'[d]
    BY <1>8 DEF CreateSnapshot
  <2> QED BY <1>5, <2>1 DEF OwnTimes
<1>9. ASSUME NEW e \in HostDatasets, PruneTarget(e)
      PROVE  \A x \in everTaken'[d] : Promise(g, everTaken'[d], OwnTimes(d)', x)
  <2>1. everTaken' = everTaken
    BY <1>9 DEF PruneTarget
  <2>2. CASE d # e
    <3>1. retained'[d] = retained[d]
      BY <1>1, <1>9, <2>2 DEF PruneTarget, RetentionTypes
    <3> QED BY <1>5, <2>1, <3>1 DEF OwnTimes
  <2>3. CASE d = e
    <3> DEFINE R == retained[d]
               rest == retained'[d]
    <3>1. rest \subseteq R /\ R \ rest \subseteq Evaluate(job.keep, R)
      BY <1>1, <1>9, <2>3 DEF PruneTarget, RetentionTypes, Evaluate
    <3>2. PICK r \in job.keep : r.kind = "grid" /\ r.names = {"own"} /\ g = Intervals(r.grid)
      BY DEF OwnGrids
    <3>3. ASSUME NEW s \in R \ rest, s.name = "own"
          PROVE  s \in FitDestroys(g, {t \in R : t.name = "own"})
      <4>1. s \in DestroySet(r, R)
        BY <3>1, <3>2 DEF Evaluate
      <4>2. {t \in R : t.name \in r.names} = {t \in R : t.name = "own"}
        BY <3>2
      <4> QED BY <3>2, <3>3, <4>1, <4>2 DEF DestroySet
    <3>4. everTaken[d] \in SUBSET (0..now')
      BY <1>4, <2>1
    <3> HIDE DEF rest, R
    <3>5. \A x \in everTaken[d] :
            Promise(g, everTaken[d], {s.at : s \in {t \in rest : t.name = "own"}}, x)
      BY <1>1, <1>4, <3>1, <3>3, <3>4, PromiseThins DEF R, OwnTimes
    <3> QED BY <2>1, <3>5 DEF rest, OwnTimes
  <2> QED BY <2>2, <2>3
<1> QED BY <1>6, <1>7, <1>8, <1>9
        DEF RetentionNext, retentionVars, Tick, CycleBegins, Restart

\* What the grids of a job over its own snapshots promise of the history (GridSpec::fit in
\* grid/retention.rs, evaluate in prune.rs): the leading keep=all buckets lack nothing that
\* was ever taken, and whatever is given up has an older survivor, until that one has
\* outlived the whole grid; for any jobs, datasets and clocks, and however many cycles are
\* late, woken, cut short by a restart or spare a victim.
THEOREM GridHoldsItsHistory == RetentionSpec => []GridHoldsHistory
<1>1. RetentionInit => HistoryInv
  BY RetentionInitially DEF RetentionInit, HistoryInv
<1>2. HistoryInv => GridHoldsHistory
  BY DEF HistoryInv, GridHoldsHistory, Promise, AgeIn
<1> QED BY <1>1, <1>2, HistoryStep, PTL DEF RetentionSpec

=============================================================================
