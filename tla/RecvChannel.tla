----------------------------- MODULE RecvChannel -----------------------------
(***************************************************************************)
(* The receiver's side of SSH: each channel is a dispatcher process that   *)
(* checks the client's entry in [[allowed_clients]] (stdinserver/          *)
(* dispatch.rs, acl.rs) and then receives one stream (recv.rs) or serves   *)
(* the control RPCs (control.rs).  Dispatchers of several clients work on  *)
(* one tree of datasets, where a receive first creates the missing         *)
(* ancestors of its target.                                                *)
(*                                                                         *)
(* A dataset is the sequence of its components.  What a stream does to the *)
(* target's snapshots is left to Replication; here a target is absent,     *)
(* holds a partial receive, or has been received.                          *)
(***************************************************************************)
EXTENDS Naturals, Sequences, SequencesExt

CONSTANTS
  Clients,   \* the senders that connect
  Entry,     \* Entry[c]: jobs, operations, root (<<>> without root_fs), fingerprint;
             \* what sshd says of the key and what the client asks for: auth, job, target
  Longer,    \* pairs of components of which the second is the first and more letters
  Existing,  \* datasets that the operator has created
  MaxFails   \* failing commands and dispatchers that die (a bound)

ASSUME RecvChannelAssumption ==
  /\ \A c \in Clients : Entry[c].root \in Seq(STRING) /\ Entry[c].target \in Seq(STRING)
  /\ MaxFails \in Nat

\* A target is none of the operator's datasets, whose parents are all there, and no target
\* lies below another: the module leaves apart what zfs does with children of a target.
Apart(targets) ==
  /\ Existing \subseteq Seq(STRING) /\ Existing \cap targets = {} /\ <<>> \notin targets
  /\ \A n \in Existing : Len(n) > 1 => Front(n) \in Existing
  /\ \A t, u \in targets : ~IsStrictPrefix(t, u)
ASSUME TargetsAssumption == Apart({Entry[c].target : c \in Clients})

VARIABLES
  datasets,  \* on the receiving host
  partial,   \* targets with a partial receive
  landed,    \* targets with a completed receive
  proc,      \* the client's receive dispatcher
  locks,     \* locks[c]: the target whose flock the client's dispatcher holds
  did,       \* ghost: for whom the last change was made, and what it was
  fails

recvChannelVars == <<datasets, partial, landed, proc, locks, did, fails>>

NoLock == <<>>
NoChange == <<>>
Gone == [pc |-> "none", discard |-> FALSE, next |-> 0]
Targets == {Entry[c].target : c \in Clients}
Below(p, n) == IsStrictPrefix(p, n)
ParentOf(n) == Front(n)
PathTo(n) == {SubSeq(n, 1, i) : i \in 1..Len(n)}
Datasets == UNION {PathTo(t) : t \in Targets}

RecvChannelTypeOK ==
  /\ datasets \subseteq Datasets \cup Existing
  /\ \A n \in datasets : Len(n) > 1 => ParentOf(n) \in datasets
  /\ partial \subseteq Targets \cap datasets /\ landed \subseteq Targets \cap datasets
  /\ \A c \in Clients :
       /\ proc[c].pc \in {"none", "admitted", "probe", "create", "recv"}
       /\ (proc[c].pc = "none") = (locks[c] = NoLock)
       /\ \A b \in Clients \ {c} : locks[c] # NoLock => locks[b] # locks[c]
  /\ fails \in 0..MaxFails

RecvChannelInit ==
  /\ datasets = Existing /\ partial = {} /\ landed = {}
  /\ proc = [c \in Clients |-> Gone] /\ locks = [c \in Clients |-> NoLock]
  /\ did = NoChange /\ fails = 0

Mishap == fails < MaxFails /\ fails' = fails + 1

-----------------------------------------------------------------------------
(* Admission *)

\* decide: the fingerprint, for "recv" the job, and the operation, for "events" through
\* the control grant as well.
Decide(c, op) ==
  LET e == Entry[c]
  IN  /\ e.fingerprint => e.auth
      /\ op \notin {"control", "events"} => e.job \in e.jobs
      /\ op \in e.operations \/ (op = "events" /\ "control" \in e.operations)

\* check_operation; the umbrella grant "control" covers what only reads.
Granted(c, op, legacy) ==
  op \in Entry[c].operations \/ (legacy /\ "control" \in Entry[c].operations)

\* Mutation: the names are compared as strings.
UnderRootAsString(c, n) ==
  LET r == Entry[c].root
  IN  \/ r = <<>>
      \/ /\ Len(n) >= Len(r) /\ Front(r) = SubSeq(n, 1, Len(r) - 1)
         /\ n[Len(r)] = Last(r) \/ <<Last(r), n[Len(r)]>> \in Longer
\* check_root_fs: the root itself or what lies below it, at a component's boundary.
UnderRoot(c, n) == Entry[c].root = <<>> \/ n = Entry[c].root \/ Below(Entry[c].root, n)

\* RecvLocks::acquire, which does not wait.
Free(n) == \A c \in Clients : locks[c] # n

\* Mutation: the lock is a file that a dispatcher which dies leaves behind.
LeaveKeepsLock(c) == proc' = [proc EXCEPT ![c] = Gone] /\ UNCHANGED locks
\* The process ends, well or not; the kernel drops its flock.
Leave(c) == proc' = [proc EXCEPT ![c] = Gone] /\ locks' = [locks EXCEPT ![c] = NoLock]
StepTo(c, pc) == proc' = [proc EXCEPT ![c].pc = pc] /\ UNCHANGED locks

\* A receive channel opens.  One that is refused (not granted, outside the root, lock
\* busy) changes nothing.
OpenRecvChannel(c) ==
  LET target == Entry[c].target
  IN  /\ proc[c].pc = "none" /\ target \notin landed
      /\ Decide(c, "recv") /\ UnderRoot(c, target) /\ Free(target)
      /\ \E discard \in BOOLEAN :
           proc' = [proc EXCEPT ![c] = [pc |-> "admitted", discard |-> discard, next |-> 0]]
      /\ locks' = [locks EXCEPT ![c] = target]
      /\ UNCHANGED <<datasets, partial, landed, did, fails>>

\* zfs recv -A: the partial receive goes, and with it a dataset that never had more.
AbortPartial(c, target) ==
  /\ partial' = partial \ {target}
  /\ datasets' = IF target \in partial \ landed THEN datasets \ {target} ELSE datasets
  /\ did' = <<c, "discard", target>>

\* Mutation: the flag in the header needs no grant of its own.
DiscardUnchecked(c) == TRUE
DiscardAllowed(c) == Granted(c, "control:discard_partial_recv", FALSE)

\* The header may ask for the partial receive to be discarded first; without the grant
\* the channel is refused.
DiscardFirst(c) ==
  /\ proc[c].pc = "admitted"
  /\ IF ~proc[c].discard
     THEN StepTo(c, "probe") /\ UNCHANGED <<datasets, partial, did>>
     ELSE IF DiscardAllowed(c)
     THEN StepTo(c, "probe") /\ AbortPartial(c, Entry[c].target)
     ELSE Leave(c) /\ UNCHANGED <<datasets, partial, did>>
  /\ UNCHANGED <<landed, fails>>

-----------------------------------------------------------------------------
(* Receiving *)

\* creatable_ancestors: below the root, or the pool, and above the target.
CreatableAncestors(c) ==
  LET t == Entry[c].target
      stop == IF Entry[c].root = <<>> THEN 1 ELSE Len(Entry[c].root)
  IN  [i \in 1..(Len(t) - 1 - stop) |-> SubSeq(t, 1, stop + i)]

\* ensure_receive_ancestors: the first one that is missing.
Probe(c) ==
  LET candidates == CreatableAncestors(c)
      missing == {i \in DOMAIN candidates : candidates[i] \notin datasets}
      first == IF missing = {} THEN Len(candidates) + 1
               ELSE CHOOSE i \in missing : \A j \in missing : i <= j
  IN  /\ proc[c].pc = "probe"
      /\ proc' = [proc EXCEPT ![c] = [pc |-> "create", discard |-> @.discard, next |-> first]]
      /\ UNCHANGED <<datasets, partial, landed, locks, did, fails>>

\* The ancestors from there on are created one by one; one that another dispatcher has
\* created since the probe, or whose parent is missing, ends the receive with an error.
Create(c) ==
  LET candidates == CreatableAncestors(c)
      n == candidates[proc[c].next]
  IN  /\ proc[c].pc = "create"
      /\ IF proc[c].next > Len(candidates)
         THEN StepTo(c, "recv") /\ UNCHANGED <<datasets, did>>
         ELSE IF n \in datasets \/ ParentOf(n) \notin datasets
         THEN Leave(c) /\ UNCHANGED <<datasets, did>>
         ELSE /\ datasets' = datasets \cup {n}
              /\ did' = <<c, "create", n>>
              /\ proc' = [proc EXCEPT ![c].next = @ + 1] /\ UNCHANGED locks
      /\ UNCHANGED <<partial, landed, fails>>

\* zfs recv -s -u ends well and the response says so.
Land(c) ==
  LET t == Entry[c].target
  IN  /\ proc[c].pc = "recv" /\ ParentOf(t) \in datasets
      /\ datasets' = datasets \cup {t} /\ landed' = landed \cup {t} /\ partial' = partial \ {t}
      /\ did' = <<c, "recv", t>>
      /\ Leave(c)
      /\ UNCHANGED fails

\* The stream breaks off after some of it has arrived.
BreakOff(c) ==
  LET t == Entry[c].target
  IN  /\ proc[c].pc = "recv" /\ ParentOf(t) \in datasets /\ Mishap
      /\ datasets' = datasets \cup {t} /\ partial' = partial \cup {t}
      /\ did' = <<c, "recv", t>>
      /\ Leave(c)
      /\ UNCHANGED landed

\* A zfs command fails, or the dispatcher dies.
DispatcherDies(c) ==
  /\ proc[c].pc # "none" /\ Mishap
  /\ Leave(c)
  /\ UNCHANGED <<datasets, partial, landed, did>>

-----------------------------------------------------------------------------
(* The control channel *)

\* discard_partial_recv, under the same lock as a receive.
DiscardPartialRecv(c) ==
  /\ Decide(c, "control") /\ Granted(c, "control:discard_partial_recv", FALSE)
  /\ \E t \in partial : UnderRoot(c, t) /\ Free(t) /\ AbortPartial(c, t)
  /\ UNCHANGED <<landed, proc, locks, fails>>

\* handle_proxy: the API of this host alone, and no endpoint that streams.
ProxyForwards(c, method, route) ==
  /\ Decide(c, "control")
  /\ \/ method = "GET" /\ Granted(c, "control:proxy_read", TRUE)
     \/ method \in {"POST", "DELETE"} /\ Granted(c, "control:proxy_admin", FALSE)
  /\ route \notin {"outside", "peers", "stream"}

Proxy(c) ==
  /\ \E method \in {"GET", "POST", "DELETE", "PUT"},
        route \in {"api", "recent_events", "outside", "peers", "stream"} :
       /\ ProxyForwards(c, method, route)
       /\ did' = <<c, method, route>>
  /\ UNCHANGED <<datasets, partial, landed, proc, locks, fails>>

RecvChannelNext ==
  \E c \in Clients :
    \/ OpenRecvChannel(c) \/ DiscardFirst(c) \/ Probe(c) \/ Create(c) \/ Land(c)
    \/ BreakOff(c) \/ DispatcherDies(c) \/ DiscardPartialRecv(c) \/ Proxy(c)

\* A sender retries for ever, not always with a demand to discard, and a dispatcher that
\* runs gets on.
Retries(c) == OpenRecvChannel(c) /\ ~proc'[c].discard
GetsOn(c) == DiscardFirst(c) \/ Probe(c) \/ Create(c) \/ Land(c)
RecvChannelFairness ==
  \A c \in Clients : SF_recvChannelVars(Retries(c)) /\ WF_recvChannelVars(GetsOn(c))

RecvChannelSpec == RecvChannelInit /\ [][RecvChannelNext]_recvChannelVars
RecvChannelFairSpec == RecvChannelSpec /\ RecvChannelFairness

-----------------------------------------------------------------------------
(* Properties *)

\* Whatever a dispatcher has changed, its client was entitled to: datasets are created
\* below its root and received at or below it with a granted job, a partial receive is
\* thrown away only with the grant to do so (by flag or by RPC), and a request that
\* changes the receiver's configuration takes the administrator's grant.
ChangesAreGranted ==
  did # NoChange =>
    LET e == Entry[did[1]]
        what == did[2]
        n == did[3]
    IN  /\ what \in {"create", "recv", "discard", "GET", "POST", "DELETE"}
        /\ what = "create" => e.root = <<>> \/ Below(e.root, n)
        /\ what = "recv" => /\ e.root = <<>> \/ e.root = n \/ Below(e.root, n)
                            /\ e.job \in e.jobs /\ "recv" \in e.operations
        /\ what = "discard" => "control:discard_partial_recv" \in e.operations
        /\ what \in {"POST", "DELETE"} => "control:proxy_admin" \in e.operations
        /\ what = "GET" => "control" \in e.operations

\* Receives that create ancestors they share fail each other at most for a while: every
\* client that is entitled to its target has it in the end, through broken streams and
\* dispatchers that die.
EveryTargetLands ==
  \A c \in Clients :
    Decide(c, "recv") /\ UnderRoot(c, Entry[c].target) => <>(Entry[c].target \in landed)

=============================================================================
