------------------------------ MODULE Retention ------------------------------
(***************************************************************************)
(* Retention on one host: a snap job (jobs/snap.rs, run by jobs/           *)
(* periodic.rs) that is read from the configuration with its defaults      *)
(* (crates/config/src/lib.rs), takes a snapshot of every dataset that its  *)
(* filters select (filter.rs) and then prunes each of them by the keep     *)
(* rules (prune.rs) and the retention grid (grid/).                        *)
(*                                                                         *)
(* Datasets are sequences of components, times are whole seconds, which is *)
(* the precision of a snapshot's name and of its creation property.  A     *)
(* name is "own" when it starts with the job's prefix and "other" when it  *)
(* does not; a regular expression is the set of the names it matches.  An  *)
(* own name is taken once a second, so that no two entries of a grid are   *)
(* of one age.                                                             *)
(***************************************************************************)
EXTENDS Integers, FiniteSets, Sequences, SequencesExt, FiniteSetsExt

CONSTANTS
  Configs,       \* the jobs that the operator may write
  HostDatasets,  \* the datasets of the host
  MaxClock,      \* the clock (a bound)
  MaxDuration,   \* of a cycle (a bound)
  MaxMishaps     \* wakeups, restarts and commands that fail (a bound)

VARIABLES
  job,           \* the job as resolved at load
  now, nextDue,  \* the clock and the next cycle
  doing, todo,   \* where the cycle is, and the datasets it still has to do there
  retained,      \* retained[d]: the dataset's snapshots, each a time and a kind of name
  everTaken,     \* ghost: the times of all the own snapshots ever taken
  mishaps

retentionVars == <<job, now, nextDue, doing, todo, retained, everTaken, mishaps>>

-----------------------------------------------------------------------------
(* The grid *)

\* KeepCount::All; a count of 0 is refused.
All == -1

\* GridSpec::parse: a term of count n stands for n buckets.
Intervals(terms) ==
  FlattenSeq([i \in DOMAIN terms |->
    [j \in 1..terms[i].count |-> [length |-> terms[i].length, keep |-> terms[i].keep]]])

\* Only a prefix of keep=all buckets may be followed by a shorter one.
Monotonic(grid) ==
  \A i \in 2..Len(grid) :
    grid[i].length < grid[i - 1].length => \A p \in 1..(i - 1) : grid[p].keep = All

GridParses(terms) ==
  /\ terms # <<>>
  /\ \A i \in DOMAIN terms : terms[i].count > 0 /\ terms[i].length > 0 /\ terms[i].keep # 0
  /\ Monotonic(Intervals(terms))

\* The age at which bucket k ends.
EndOf(grid, k) ==
  LET end[i \in 0..Len(grid)] == IF i = 0 THEN 0 ELSE end[i - 1] + grid[i].length
  IN  end[k]

\* Ages count from the youngest entry, never from the clock.
AgeOf(s, entries) == Max({e.at : e \in entries}) - s.at

Bucket(grid, entries, k) ==
  {s \in entries : EndOf(grid, k - 1) <= AgeOf(s, entries) /\ AgeOf(s, entries) < EndOf(grid, k)}

Older(s, entries) == {e \in entries : e.at < s.at}
Younger(s, entries) == {e \in entries : e.at > s.at}

\* Mutation: a bucket keeps its youngest entries.
KeptYoungest(bucket, keep) == {s \in bucket : keep = All \/ Cardinality(Younger(s, bucket)) < keep}
\* A bucket keeps its oldest entries.
Kept(bucket, keep) == {s \in bucket : keep = All \/ Cardinality(Older(s, bucket)) < keep}

\* GridSpec::fit: what no bucket keeps is destroyed, what is older than the last one too.
FitDestroys(grid, entries) ==
  entries \ UNION {Kept(Bucket(grid, entries, k), grid[k].keep) : k \in DOMAIN grid}

-----------------------------------------------------------------------------
(* Keep rules *)

\* KeepRule::destroy_set.
DestroySet(rule, entries) ==
  LET matching == {s \in entries : s.name \in rule.names}
  IN  IF rule.kind = "grid"
      THEN (entries \ matching) \cup FitDestroys(Intervals(rule.grid), matching)
      ELSE IF rule.negate THEN matching ELSE entries \ matching

\* evaluate: what every rule gives up; no rules prune nothing.
Evaluate(rules, entries) ==
  {s \in entries : rules # {} /\ \A r \in rules : s \in DestroySet(r, entries)}

-----------------------------------------------------------------------------
(* Filesystem filters *)

Under(d, root) == d = root \/ IsStrictPrefix(root, d)

\* map_to_filters: keys with a trailing "/" are trees, false values exclude from the
\* trees they lie in.
MapToFilters(map) ==
  {[path |-> k.path, tree |-> k.tree,
    exclude |-> {x \in DOMAIN map : ~map[x] /\ k.tree /\ Under(x.path, k.path)}]
     : k \in {k \in DOMAIN map : map[k]}}

MapAccepted(map) ==
  \A x \in DOMAIN map : map[x] \/ \E f \in MapToFilters(map) : x \in f.exclude

\* excluded: a bare name drops that dataset alone, a tree all that lies in it.
Excluded(d, f) == \E x \in f.exclude : d = x.path \/ (x.tree /\ Under(d, x.path))

\* FilesystemFilter::resolve, resolve_all.
Resolve(f) ==
  {d \in HostDatasets : (d = f.path \/ (f.tree /\ Under(d, f.path))) /\ ~(f.tree /\ Excluded(d, f))}
ResolveAll(filters) == UNION {Resolve(f) : f \in filters}

\* validate_filesystem_filter, over paths that are names of datasets.
FilterValid(f) == /\ f.exclude # {} => f.tree
                  /\ \A x \in f.exclude : Under(x.path, f.path)

-----------------------------------------------------------------------------
(* Loading the job *)

\* build_default_pruning, for the prefix that the job takes its snapshots with.
DefaultPruning(defaults) ==
  IF defaults.grid = <<>> THEN {}
  ELSE {[kind |-> "grid", grid |-> defaults.grid, names |-> {"own"}]}
       \cup IF defaults.protect
             THEN {[kind |-> "regex", names |-> {"own"}, negate |-> TRUE]} ELSE {}

\* resolve_defaults: what the job leaves out comes from the defaults.
ResolveDefaults(c) ==
  [filters |-> MapToFilters(c.filesystems),
   interval |-> IF c.interval # 0 THEN c.interval ELSE c.defaults.interval,
   keep |-> IF c.keep # {} THEN c.keep ELSE DefaultPruning(c.defaults)]

\* Mutation: the first bucket may be longer than the interval.
FirstBucketAny(grid, interval) == TRUE
FirstBucketFits(grid, interval) == grid[1].keep = All \/ grid[1].length <= interval

\* load_from_str: parsing, and validate_snap.
Loads(c) ==
  LET j == ResolveDefaults(c)
      grids == {r.grid : r \in {r \in j.keep : r.kind = "grid"}}
  IN  /\ MapAccepted(c.filesystems) /\ \A f \in j.filters : FilterValid(f)
      /\ j.interval # 0
      /\ \A g \in grids : GridParses(g) /\ FirstBucketFits(Intervals(g), j.interval)

\* A term that has been read, its count and its length not yet checked.
Terms == [count : Nat, length : Nat, keep : Nat \cup {All}]

ASSUME RetentionAssumption ==
  /\ MaxClock \in Nat /\ MaxDuration \in Nat /\ MaxMishaps \in Nat
  /\ \A c \in Configs :
       /\ ResolveDefaults(c).interval \in Nat
       /\ \A r \in ResolveDefaults(c).keep : r.kind = "grid" => r.grid \in Seq(Terms)

-----------------------------------------------------------------------------
(* The job *)

JobTargets == ResolveAll(job.filters)
OwnTimes(d) == {s.at : s \in {s \in retained[d] : s.name = "own"}}

RetentionTypeOK ==
  /\ now \in 0..MaxClock /\ nextDue \in 0..(MaxClock + job.interval)
  /\ mishaps \in 0..MaxMishaps /\ doing \in {"idle", "snap", "prune"}
  /\ todo \subseteq JobTargets /\ (doing = "idle") = (todo = {})
  /\ \A d \in HostDatasets :
       /\ retained[d] \subseteq [at : 0..now, name : {"own", "other"}]
       /\ OwnTimes(d) \subseteq everTaken[d] /\ everTaken[d] \subseteq 0..now
       /\ d \notin JobTargets => everTaken[d] = {}

RetentionInit ==
  /\ \E c \in Configs : Loads(c) /\ job = ResolveDefaults(c)
  /\ now = 0 /\ nextDue = 0 /\ doing = "idle" /\ todo = {} /\ mishaps = 0
  /\ retained = [d \in HostDatasets |-> {}] /\ everTaken = [d \in HostDatasets |-> {}]

Disturb(n) == mishaps + n <= MaxMishaps /\ mishaps' = mishaps + n

\* Time passes while a cycle runs and, between two, until the timer fires.
Tick ==
  /\ now < IF doing = "idle" THEN nextDue ELSE nextDue - job.interval + MaxDuration
  /\ now < MaxClock /\ now' = now + 1
  /\ UNCHANGED <<job, nextDue, doing, todo, retained, everTaken, mishaps>>

\* PeriodicJob::run: a cycle starts when it is due or when somebody wakes the job up; the
\* next one is due an interval after the start, whenever this one ends.
CycleBegins ==
  /\ doing = "idle"
  /\ \/ now >= nextDue /\ UNCHANGED mishaps
     \/ now < nextDue /\ Disturb(1)
  /\ nextDue' = now + job.interval
  /\ todo' = JobTargets /\ doing' = IF JobTargets = {} THEN "idle" ELSE "snap"
  /\ UNCHANGED <<job, now, retained, everTaken>>

\* The daemon stops, and a new one starts some time later with a cycle at once.
Restart ==
  /\ Disturb(1)
  /\ now' \in now..MaxClock /\ nextDue' = now'
  /\ doing' = "idle" /\ todo' = {}
  /\ UNCHANGED <<job, retained, everTaken>>

\* The datasets get their snapshots in turn; a name that exists is fine, a failure is
\* reported and the loop goes on.
SnapshotTarget(d) ==
  /\ doing = "snap" /\ d \in todo
  /\ \/ /\ retained' = [retained EXCEPT ![d] = @ \cup {[at |-> now, name |-> "own"]}]
        /\ everTaken' = [everTaken EXCEPT ![d] = @ \cup {now}]
        /\ UNCHANGED mishaps
     \/ Disturb(1) /\ UNCHANGED <<retained, everTaken>>
  /\ IF todo = {d} THEN doing' = "prune" /\ todo' = JobTargets
                   ELSE todo' = todo \ {d} /\ UNCHANGED doing
  /\ UNCHANGED <<job, now, nextDue>>

\* prune_dataset: the victims are destroyed one by one; one that is held or busy is spared,
\* and one that fails spares those after it.
PruneTarget(d) ==
  LET victims == Evaluate(job.keep, retained[d])
  IN  /\ doing = "prune" /\ d \in todo
      /\ \E spared \in SUBSET victims :
           /\ Disturb(Cardinality(spared))
           /\ retained' = [retained EXCEPT ![d] = @ \ (victims \ spared)]
      /\ todo' = todo \ {d} /\ doing' = IF todo = {d} THEN "idle" ELSE "prune"
      /\ UNCHANGED <<job, now, nextDue, everTaken>>

\* A user takes a snapshot under a name of his own (create_snapshot), with the datasets
\* below or without; so may another job or a replication.
CreateSnapshot(d, recursive) ==
  /\ Disturb(1)
  /\ retained' = [e \in HostDatasets |-> IF e = d \/ (recursive /\ Under(e, d))
                                      THEN retained[e] \cup {[at |-> now, name |-> "other"]}
                                      ELSE retained[e]]
  /\ UNCHANGED <<job, now, nextDue, doing, todo, everTaken>>

RetentionNext ==
  \/ Tick \/ CycleBegins \/ Restart
  \/ \E d \in HostDatasets : SnapshotTarget(d) \/ PruneTarget(d)
  \/ \E d \in HostDatasets, recursive \in BOOLEAN : CreateSnapshot(d, recursive)

RetentionSpec == RetentionInit /\ [][RetentionNext]_retentionVars

-----------------------------------------------------------------------------
(* Properties *)

\* The grids over the snapshots of the job.
OwnGrids == {Intervals(r.grid) : r \in {r \in job.keep : r.kind = "grid" /\ r.names = {"own"}}}

\* The age of what was taken at x, counted as a grid counts that has lost nothing.
AgeIn(d, x) == Max(everTaken[d]) - x

\* The buckets with keep=all that a grid begins with.
InKeepAll(grid, age) ==
  \E k \in DOMAIN grid : age < EndOf(grid, k) /\ \A j \in 1..k : grid[j].keep = All

\* What the grid promises of the history, through late cycles, restarts, wakeups, victims
\* that are held and snapshots of others: its leading buckets with keep=all lack nothing of
\* what was ever taken (with the newest, where there is one), and nothing is given up but
\* for something older, until that has outlived the whole grid.
GridHoldsHistory ==
  \A d \in HostDatasets, g \in OwnGrids : \A x \in everTaken[d] :
    /\ InKeepAll(g, AgeIn(d, x)) => x \in OwnTimes(d)
    /\ \E y \in everTaken[d] :
         y <= x /\ (y \in OwnTimes(d) \/ AgeIn(d, y) >= EndOf(g, Len(g)))

=============================================================================
