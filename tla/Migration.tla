------------------------------ MODULE Migration ------------------------------
(***************************************************************************)
(* Opening the state database (daemon/src/state/mod.rs): the daemon and    *)
(* the dispatchers, each a process of its own, bring a database of an      *)
(* earlier release to the current schema before they use it, at the same   *)
(* time and with crashes between any two statements.  Two tables have      *)
(* shapes that predate the migration ledger: job_runs without run_id, and  *)
(* push_syncs without last_success_at.                                     *)
(*                                                                         *)
(* What a table holds is told apart by what a repair may do to it: rows    *)
(* are there or lost, and the last successes are filled in or not.         *)
(***************************************************************************)
EXTENDS Naturals

CONSTANTS
  Processes,  \* the daemon and dispatchers that open the database
  MaxCrashes  \* processes that die, statements that fail (a bound)

ASSUME MigrationAssumption == MaxCrashes \in Nat

VARIABLES
  jobRuns,  \* job_runs: absent, old (without run_id), current
  history,  \* its rows are all there
  syncs,    \* push_syncs: absent, old (without last_success_at), current
  filled,   \* the successful syncs of the old table have their last_success_at
  opening,  \* the stage of each process
  crashes,
  torn      \* ghost: a process ended between adding the column and filling it

tables == <<jobRuns, history, syncs, filled>>
migrationVars == <<tables, opening, crashes, torn>>

Shapes == {"absent", "old", "current"}
OpenStages == {"closed", "runs", "rebuild", "syncs", "add", "fill", "baseline", "open"}

MigrationTypeOK ==
  /\ jobRuns \in Shapes /\ history \in BOOLEAN /\ syncs \in Shapes /\ filled \in BOOLEAN
  /\ opening \in [Processes -> OpenStages]
  /\ crashes \in 0..MaxCrashes /\ torn \in BOOLEAN
  /\ syncs = "old" => ~filled

\* A database of any release, or none yet.
MigrationInit ==
  /\ jobRuns \in Shapes /\ syncs \in Shapes
  /\ history = TRUE /\ filled = (syncs # "old")
  /\ opening = [p \in Processes |-> "closed"] /\ crashes = 0 /\ torn = FALSE

MovesTo(p, next) == opening' = [opening EXCEPT ![p] = next]

BeginOpening(p) ==
  /\ opening[p] = "closed" /\ MovesTo(p, "runs")
  /\ UNCHANGED <<tables, crashes, torn>>

\* What the process reads of a table's shape may be out of date when it acts on it.
InspectRuns(p) ==
  /\ opening[p] = "runs" /\ MovesTo(p, IF jobRuns = "old" THEN "rebuild" ELSE "syncs")
  /\ UNCHANGED <<tables, crashes, torn>>

\* Mutation: renaming, creating, copying and dropping without a transaction; the next
\* process finds no table to repair.
RebuildInSteps(p) ==
  /\ opening[p] = "rebuild"
  /\ \/ jobRuns' = "current" /\ MovesTo(p, "syncs") /\ UNCHANGED <<history, crashes>>
     \/ /\ crashes < MaxCrashes /\ crashes' = crashes + 1
        /\ jobRuns' = "absent" /\ history' = FALSE /\ MovesTo(p, "closed")
  /\ UNCHANGED <<syncs, filled, torn>>

\* One transaction; the rows of a table that has been rebuilt meanwhile are copied once
\* more (and may get other ids, which is left out).
RebuildRuns(p) ==
  /\ opening[p] = "rebuild" /\ jobRuns' = "current" /\ MovesTo(p, "syncs")
  /\ UNCHANGED <<history, syncs, filled, crashes, torn>>

InspectSyncs(p) ==
  /\ opening[p] = "syncs" /\ MovesTo(p, IF syncs = "old" THEN "add" ELSE "baseline")
  /\ UNCHANGED <<tables, crashes, torn>>

\* A second ALTER TABLE finds the column there and fails.
AddLastSuccess(p) ==
  /\ opening[p] = "add"
  /\ IF syncs = "old" THEN syncs' = "current" /\ MovesTo(p, "fill")
                      ELSE UNCHANGED syncs /\ MovesTo(p, "closed")
  /\ UNCHANGED <<jobRuns, history, filled, crashes, torn>>

FillLastSuccess(p) ==
  /\ opening[p] = "fill" /\ filled' = TRUE /\ MovesTo(p, "baseline")
  /\ UNCHANGED <<jobRuns, history, syncs, crashes, torn>>

\* migrations/0001_baseline.sql creates what is absent; the ledger admits it once, so that
\* of two processes at it one may fail.
Baseline(p) ==
  /\ opening[p] = "baseline"
  /\ \/ /\ jobRuns' = IF jobRuns = "absent" THEN "current" ELSE jobRuns
        /\ syncs' = IF syncs = "absent" THEN "current" ELSE syncs
        /\ MovesTo(p, "open")
     \/ /\ \E q \in Processes \ {p} : opening[q] \in {"baseline", "open"}
        /\ UNCHANGED <<jobRuns, syncs>> /\ MovesTo(p, "closed")
  /\ UNCHANGED <<history, filled, crashes, torn>>

\* A process dies, or a statement fails and open returns the error.
End(p) ==
  /\ opening[p] # "closed" /\ crashes < MaxCrashes /\ crashes' = crashes + 1
  /\ torn' = (torn \/ opening[p] = "fill") /\ MovesTo(p, "closed")
  /\ UNCHANGED tables

Close(p) == opening[p] = "open" /\ MovesTo(p, "closed") /\ UNCHANGED <<tables, crashes, torn>>

MigrationNext ==
  \E p \in Processes :
    \/ BeginOpening(p) \/ InspectRuns(p) \/ RebuildRuns(p) \/ InspectSyncs(p) \/ AddLastSuccess(p)
    \/ FillLastSuccess(p) \/ Baseline(p) \/ End(p) \/ Close(p)

MigrationSpec == MigrationInit /\ [][MigrationNext]_migrationVars

-----------------------------------------------------------------------------
(* Properties *)

\* However many processes repair an old database at once, and whichever of them die on
\* the way, one that has it open works on the current schema, no run of the history is
\* lost, and the last successes are carried over ("fixed in place", mod.rs:107-110).  The
\* exception: the new column and its contents are two statements, so a process that ends
\* between them leaves a column that no later one fills, and one that still runs leaves
\* the others to find it empty until it goes on.
OldDatabasesSurvive ==
  /\ \A p \in Processes : opening[p] = "open" => jobRuns = "current" /\ syncs = "current"
  /\ history
  /\ filled \/ torn \/ syncs = "old" \/ \E p \in Processes : opening[p] = "fill"

=============================================================================
