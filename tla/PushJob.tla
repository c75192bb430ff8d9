------------------------------- MODULE PushJob -------------------------------
(***************************************************************************)
(* A push job as its users and the daemon see it: the scheduling loop of   *)
(* PushJob (daemon/src/jobs/push/mod.rs) and the control calls that the    *)
(* HTTP handlers make on it from other threads.  The visits that a cycle   *)
(* makes are those of PushVisit.                                           *)
(*                                                                         *)
(* Simplifications:                                                        *)
(*  - a time stamp is known by its age: "fresh" (younger than the peer's   *)
(*    cadence) or "old", which also stands for none (the one difference,   *)
(*    an error that only an existing time stamp can raise, may happen or   *)
(*    not); a nap may end at any time;                                     *)
(*  - select_targets reads everything at one instant, but control calls    *)
(*    and link changes come in before it and after it;                     *)
(*  - one control call at a time is between its two halves (a bound);      *)
(*  - the row that a cycle leaves in job_runs is not modelled.             *)
(***************************************************************************)
EXTENDS PushVisit, Sequences

CONSTANTS
  Targets,      \* the job's targets in the order of its configuration
  AutoPeers,    \* those whose mode is auto
  MaxControls   \* control calls and later link changes (a bound)

ASSUME JobAssumption ==
  Targets \in Seq(Peers) /\ AutoPeers \subseteq Peers /\ MaxControls \in Nat

VARIABLES
  phase,      \* where the scheduling loop is
  subscribed, \* the loop listens to the peers' state
  changed,    \* it has not yet seen the last change of it
  wake,       \* the permit of the wakeup Notify
  stopping,   \* the job's own token has fired: the daemon shuts down
  paused,     \* the paused flag
  manual,     \* peers queued for a manual push
  half,       \* the control call that is between its two halves
  armed,      \* cycle_cancel is set
  link,       \* link[p]: what the active route to p admits
  picked,     \* places in Targets of the selected peers not yet visited
  mem,        \* mem[p]: outcome of the latest attempt, in memory
  ledger,     \* the same in SQLite (push_syncs)
  loaded,     \* mem has been seeded from the ledger
  parked,     \* ghost: peers to which a pause has cut a transfer short
  controls    \* control calls and link changes so far

loopVars  == <<phase, subscribed, stopping>>
flagVars  == <<changed, wake, paused, manual, half, link, controls>>
cycleVars == <<armed, picked>>
pastVars  == <<mem, ledger, loaded, parked>>
visitAll  == <<dryRun, visitVars, cancelled, ready, target>>
vars == <<loopVars, flagVars, cycleVars, pastVars, visitAll, faults>>

Phases == {"grace", "gate", "load", "select", "arm", "cycle", "nap", "stopped"}
Halves == {"none", "notify", "pause"}
Routes == {"none", "manual", "auto"}
Ages == {"fresh", "old"}
Statuses == {"none", "ok", "dry_run", "cancelled", "error"}

NeverTried == [success |-> "old", attempt |-> "old", status |-> "none"]

JobInit ==
  /\ VisitInit
  /\ phase = "grace" /\ subscribed = FALSE /\ changed = FALSE /\ wake = FALSE
  /\ stopping = FALSE /\ paused = FALSE /\ manual = {} /\ half = "none"
  /\ armed = FALSE
  /\ link = [p \in Peers |-> "none"]
  /\ picked = {}
  /\ mem = [p \in Peers |-> NeverTried]
  /\ ledger = [p \in Peers |-> NeverTried]
  /\ loaded = FALSE
  /\ parked = {}
  /\ controls = 0

----------------------------------------------------------------------------
(***************************************************************************)
(* The scheduling loop.                                                    *)
(***************************************************************************)

\* The grace period ends: something has connected, or the time is over.  A shutdown
\* is looked for only as long as nothing has.
LeaveGrace ==
  /\ phase = "grace"
  /\ \/ phase' = "gate"
     \/ stopping /\ (\A p \in Peers : link[p] = "none") /\ phase' = "stopped"
  /\ UNCHANGED <<subscribed, stopping, flagVars, cycleVars, pastVars, visitAll, faults>>

\* The loop subscribes to the peers' state once the first cycle is over.
Nap == phase' = "nap" /\ subscribed' = TRUE

\* run_and_record: a paused job runs only for manual requests.
Gate ==
  /\ phase = "gate"
  /\ IF paused /\ manual = {}
     THEN Nap
     ELSE phase' = "load" /\ UNCHANGED subscribed
  /\ UNCHANGED <<stopping, flagVars, cycleVars, pastVars, visitAll, faults>>

\* A peer without a row in the ledger keeps what this process knows of it.
Seeded == [p \in Peers |-> IF ledger[p] = NeverTried THEN mem[p] ELSE ledger[p]]

\* Mutation: a history that could not be read counts as loaded.
LoadOnce ==
  /\ phase = "load"
  /\ phase' = "select"
  /\ loaded' = TRUE
  /\ \/ /\ mem' = IF loaded THEN mem ELSE Seeded
        /\ NoFault
     \/ /\ ~loaded /\ Fault
        /\ UNCHANGED mem
  /\ UNCHANGED <<subscribed, stopping, flagVars, cycleVars, ledger, parked, visitAll>>

\* ensure_outcomes_loaded: a history that could not be read is tried again in the
\* next cycle; this one goes on without it.
LoadOutcomes ==
  /\ phase = "load"
  /\ phase' = "select"
  /\ \/ /\ mem' = IF loaded THEN mem ELSE Seeded
        /\ loaded' = TRUE
        /\ NoFault
     \/ /\ ~loaded /\ Fault
        /\ UNCHANGED <<mem, loaded>>
  /\ UNCHANGED <<subscribed, stopping, flagVars, cycleVars, ledger, parked, visitAll>>

\* Mutation: every attempt holds back the next one, a failed one too.
AnchorOnAttempt(outcome) == outcome.attempt

\* peer_schedule_anchor: a cancelled attempt holds back the next automatic one.
ScheduleAnchor(outcome) ==
  IF outcome.status = "cancelled" THEN outcome.attempt ELSE outcome.success

Due(p) == ScheduleAnchor(mem[p]) # "fresh"

Selected(p) ==
  IF p \in manual THEN link[p] # "none"
  ELSE ~paused /\ p \in AutoPeers /\ link[p] = "auto" /\ Due(p)

\* A manual request for a peer that is not connected is an error, and so is an auto
\* peer that went without a sync for over three times its cadence.
Unreachable == {p \in manual : link[p] = "none"}
MayBeStale == {p \in AutoPeers \ manual : ~paused /\ link[p] # "auto" /\ Due(p)}

\* select_targets, and the idle tick when nothing is due and nothing is wrong.
SelectTargets ==
  /\ phase = "select"
  /\ manual' = {}
  /\ picked' = {i \in DOMAIN Targets : Selected(Targets[i])}
  /\ \/ /\ picked' # {} \/ Unreachable # {} \/ MayBeStale # {}
        /\ phase' = "arm" /\ UNCHANGED subscribed
     \/ /\ picked' = {} /\ Unreachable = {}
        /\ Nap
  /\ UNCHANGED <<stopping, changed, wake, paused, half, link, controls, armed, pastVars,
                 visitAll, faults>>

\* The cycle gets its token, a child of the job's own, and cancel and pause can see
\* it from here on.
Arm ==
  /\ phase = "arm"
  /\ phase' = "cycle"
  /\ armed' = TRUE
  /\ cancelled' = stopping
  /\ UNCHANGED <<subscribed, stopping, flagVars, picked, pastVars, dryRun, visitVars,
                 ready, target, faults>>

\* The selected peers are visited in the order of the configuration.
StartVisit ==
  /\ phase = "cycle" /\ visit = NoPeer
  /\ ~cancelled
  /\ \E i \in picked :
       /\ \A j \in picked : i <= j
       /\ BeginVisit(Targets[i])
       /\ picked' = picked \ {i}
  /\ UNCHANGED <<loopVars, flagVars, armed, pastVars>>

VisitStep(f) ==
  /\ phase = "cycle"
  /\ Replicate(f)
  /\ UNCHANGED <<loopVars, flagVars, cycleVars, pastVars>>

\* push_syncs::record, and the same in memory.
Attempted(outcome, status) ==
  [success |-> IF status = "ok" THEN "fresh" ELSE outcome.success,
   attempt |-> "fresh", status |-> status]

\* The rest of run_cycle's round for one peer.  A ledger that cannot be written is
\* left as it is.
EndVisit ==
  /\ phase = "cycle" /\ VisitOver
  /\ ForgetVisit
  /\ mem' = [mem EXCEPT ![visit] = Attempted(@, AttemptStatus)]
  /\ \/ /\ ledger' = [ledger EXCEPT ![visit] = Attempted(@, AttemptStatus)]
        /\ NoFault
     \/ /\ UNCHANGED ledger
        /\ Fault
  /\ parked' = IF paused /\ \E f \in Filesystems : fs[f] = "aborted"
               THEN parked \cup {visit} ELSE parked \ {visit}
  /\ UNCHANGED <<loopVars, flagVars, cycleVars, loaded, dryRun, cancelled, ready, target>>

\* A cancelled cycle drops the peers it has not come to.
EndCycle ==
  /\ phase = "cycle" /\ visit = NoPeer
  /\ picked = {} \/ cancelled
  /\ Nap
  /\ armed' = FALSE /\ cancelled' = FALSE
  /\ picked' = {}
  /\ UNCHANGED <<stopping, flagVars, pastVars, dryRun, visitVars, ready, target, faults>>

\* The nap ends for one of the reasons that are there, and uses up that one.
WakeUp ==
  /\ phase = "nap"
  /\ phase' = "gate"
  /\ \/ UNCHANGED <<wake, changed>>
     \/ wake /\ wake' = FALSE /\ UNCHANGED changed
     \/ changed /\ changed' = FALSE /\ UNCHANGED wake
  /\ UNCHANGED <<subscribed, stopping, paused, manual, half, link, controls, cycleVars,
                 pastVars, visitAll, faults>>

StopLoop ==
  /\ phase = "nap" /\ stopping
  /\ phase' = "stopped"
  /\ UNCHANGED <<subscribed, stopping, flagVars, cycleVars, pastVars, visitAll, faults>>

----------------------------------------------------------------------------
(***************************************************************************)
(* Control calls.                                                          *)
(***************************************************************************)

Control == controls < MaxControls /\ controls' = controls + 1 /\ half = "none"

\* cancellable_now.
Cancellable ==
  LET transfers == {f \in Filesystems : fs[f] \in InTransfer}
  IN  \/ \E f \in Filesystems : fs[f] = "waiting"
      \/ transfers = {}
      \/ \E f \in transfers : fs[f] = "sending"

Notify ==
  /\ half = "notify"
  /\ half' = "none"
  /\ wake' = TRUE
  /\ UNCHANGED <<loopVars, changed, paused, manual, link, controls, cycleVars, pastVars,
                 visitAll, faults>>

\* wakeup.
Wakeup ==
  /\ Control
  /\ wake' = TRUE
  /\ UNCHANGED <<loopVars, changed, paused, manual, half, link, cycleVars, pastVars,
                 visitAll, faults>>

\* Mutation: the request does not wake the loop.
QueueOnly(p) ==
  /\ Control
  /\ manual' = manual \cup {p}
  /\ UNCHANGED <<loopVars, changed, wake, paused, half, link, cycleVars, pastVars, visitAll,
                 faults>>

\* request_push: queue the peer, then wake the loop.
RequestPush(p) ==
  /\ Control
  /\ manual' = manual \cup {p}
  /\ half' = "notify"
  /\ UNCHANGED <<loopVars, changed, wake, paused, link, cycleVars, pastVars, visitAll,
                 faults>>

\* resume: clear the flag, then wake the loop.
Resume ==
  /\ Control
  /\ paused' = FALSE
  /\ half' = "notify"
  /\ UNCHANGED <<loopVars, changed, wake, manual, link, cycleVars, pastVars, visitAll,
                 faults>>

\* pause: set the flag, then cancel the cycle if there is something to cut short.
Pause ==
  /\ Control
  /\ paused' = TRUE
  /\ half' = "pause"
  /\ UNCHANGED <<loopVars, changed, wake, manual, link, cycleVars, pastVars, visitAll,
                 faults>>

PauseCancels ==
  /\ half = "pause"
  /\ half' = "none"
  /\ cancelled' = (cancelled \/ (armed /\ Cancellable))
  /\ UNCHANGED <<loopVars, changed, wake, paused, manual, link, controls, cycleVars,
                 pastVars, dryRun, visitVars, ready, target, faults>>

\* cancel_current.
CancelCurrent ==
  /\ Control
  /\ armed /\ Cancellable
  /\ cancelled' = TRUE
  /\ UNCHANGED <<loopVars, changed, wake, paused, manual, half, link, cycleVars, pastVars,
                 dryRun, visitVars, ready, target, faults>>

----------------------------------------------------------------------------
(***************************************************************************)
(* The rest of the world.                                                  *)
(***************************************************************************)

\* PeersState::publish.  The first connections, during the grace period, are not counted.
LinkChange(p) ==
  /\ \/ phase = "grace" /\ UNCHANGED controls
     \/ phase # "grace" /\ controls < MaxControls /\ controls' = controls + 1
  /\ \E r \in Routes \ {link[p]} : link' = [link EXCEPT ![p] = r]
  /\ changed' = subscribed
  /\ UNCHANGED <<loopVars, wake, paused, manual, half, cycleVars, pastVars,
                 visitAll, faults>>

\* A cadence passes for the time stamps of one peer.
Aged(outcome) == [outcome EXCEPT !.success = "old", !.attempt = "old"]

Elapse(p) ==
  /\ mem' = [mem EXCEPT ![p] = Aged(@)]
  /\ ledger' = [ledger EXCEPT ![p] = Aged(@)]
  /\ UNCHANGED <<loopVars, flagVars, cycleVars, loaded, parked, visitAll, faults>>

SnapJob(f) ==
  /\ FirstSnapshot(f)
  /\ UNCHANGED <<loopVars, flagVars, cycleVars, pastVars>>

\* The daemon shuts down: the job's token takes the cycle's along.
Shutdown ==
  /\ ~stopping /\ Control
  /\ stopping' = TRUE
  /\ cancelled' = armed
  /\ UNCHANGED <<phase, subscribed, changed, wake, paused, manual, half, link, cycleVars,
                 pastVars, dryRun, visitVars, ready, target, faults>>

\* It starts again, after a shutdown or a crash.  Only SQLite and the receivers'
\* datasets remember.
Restart ==
  /\ IF phase = "stopped" THEN NoFault ELSE Fault
  /\ phase' = "grace" /\ subscribed' = FALSE /\ changed' = FALSE /\ wake' = FALSE
  /\ stopping' = FALSE /\ paused' = FALSE /\ manual' = {} /\ half' = "none"
  /\ armed' = FALSE /\ cancelled' = FALSE
  /\ link' = [p \in Peers |-> "none"]
  /\ picked' = {} /\ parked' = {}
  /\ mem' = [p \in Peers |-> NeverTried]
  /\ loaded' = FALSE
  /\ ForgetVisit
  /\ UNCHANGED <<controls, ledger, dryRun, ready, target>>

Loop ==
  \/ LeaveGrace \/ Gate \/ LoadOutcomes \/ SelectTargets \/ Arm \/ StartVisit
  \/ \E f \in Filesystems : VisitStep(f)
  \/ EndVisit \/ EndCycle \/ WakeUp \/ StopLoop

Calls ==
  \/ Notify \/ Wakeup \/ Resume \/ Pause \/ PauseCancels \/ CancelCurrent
  \/ \E p \in Peers : RequestPush(p)

World ==
  \/ \E p \in Peers : LinkChange(p) \/ Elapse(p)
  \/ \E f \in Filesystems : SnapJob(f)
  \/ Shutdown \/ Restart

Next == Loop \/ Calls \/ World

Spec == JobInit /\ [][Next]_vars

\* The loop never stops running, its timer always fires, and a control call that
\* began is finished.  Nothing else is obliged to happen.
Fairness == WF_vars(Loop) /\ WF_vars(Notify) /\ WF_vars(PauseCancels)

FairSpec == Spec /\ Fairness

----------------------------------------------------------------------------
(***************************************************************************)
(* Properties.                                                             *)
(***************************************************************************)

OutcomeType == [success : Ages, attempt : Ages, status : Statuses]

\* Type correctness.
TypeOK ==
  /\ VisitType
  /\ phase \in Phases /\ half \in Halves /\ controls \in 0..MaxControls
  /\ subscribed \in BOOLEAN /\ changed \in BOOLEAN /\ wake \in BOOLEAN
  /\ stopping \in BOOLEAN /\ paused \in BOOLEAN /\ armed \in BOOLEAN /\ loaded \in BOOLEAN
  /\ manual \cup parked \subseteq Peers
  /\ link \in [Peers -> Routes]
  /\ picked \subseteq DOMAIN Targets
  /\ mem \in [Peers -> OutcomeType] /\ ledger \in [Peers -> OutcomeType]

\* An attempt recorded as ok has left out nothing: every filesystem was caught up, or
\* had all the steps a cycle gives it (classify_peer_attempt: "the case where the
\* token fired between steps, so no step got to report it").
OkMeansComplete ==
  [][\A p \in Peers :
       visit = p /\ visit' = NoPeer /\ phase' = "cycle" /\ mem'[p].status = "ok" =>
         \A f \in Filesystems : \/ fs[f] = "done"
                                \/ fs[f] = "advanced" /\ steps[f] = MaxSteps]_vars

\* No lost wakeup: when nothing but its timer would end a nap, no manual request is
\* waiting (request_push; the request may come in at any point of a cycle).
NoRequestSleeps ==
  phase = "nap" /\ ~wake /\ half # "notify" => manual = {}

\* A restart, or a failed write of the ledger, does not make a peer due that the
\* recorded history shows to be in sync: once the history is loaded, no such peer is
\* visited unasked (ensure_outcomes_loaded: "marking it loaded on failure made every
\* auto target look like it had never synced").
HistorySurvives ==
  [][phase = "select" /\ phase' = "arm" /\ loaded =>
       \A i \in picked' : \/ Targets[i] \in manual
                          \/ ledger[Targets[i]].success # "fresh"]_vars

\* A peer whose last success is too long ago is visited, however often the attempts
\* fail, unless it is cancelled, paused or out of reach (next_wake, BLOCKED_RETRY).
NeedsSync(p) == mem[p].success # "fresh" /\ mem[p].status # "cancelled"
InReach(p) == link[p] = "auto" /\ ~paused /\ ~stopping /\ phase # "stopped"
DuePeersAreServed ==
  \A p \in AutoPeers :
    NeedsSync(p) /\ InReach(p) ~> visit = p \/ ~NeedsSync(p) \/ ~InReach(p)

\* "Clear the paused flag and wake the cycle loop (a paused transfer continues from
\* its resume token)" (jobs/mod.rs): after resume, the next selection takes the
\* peers to which the pause has cut a transfer short.
ResumeContinues ==
  [][phase = "select" /\ phase' \in {"nap", "arm"} /\ ~paused =>
       \A p \in parked :
         link[p] = "auto" => \E i \in picked' : Targets[i] = p]_vars

=============================================================================
