------------------------------ MODULE EventLog ------------------------------
(***************************************************************************)
(* The event pipeline: tracing layer -> bounded queue -> one writer task   *)
(* -> row in log_events (which gives the event its id) -> broadcast to the *)
(* live streams (daemon/src/state/log_events.rs, handlers/events.rs), and  *)
(* the two consumers of the table: the admin UI's event store, which       *)
(* resumes after the newest event it holds, and the SQLite poller of a     *)
(* host without a daemon (stdinserver/events.rs).                          *)
(*                                                                         *)
(* An event is the id of its row.  Dispatcher processes write rows into    *)
(* the same table without any broadcast: those are the foreign rows.  One  *)
(* client and one poller stand for all; they share nothing but the table.  *)
(***************************************************************************)
EXTENDS Naturals, Sequences, FiniteSets, Functions

CONSTANTS
  MaxEvents,   \* rows inserted over the whole behaviour (a bound)
  Queue,       \* capacity of the writer's queue
  Buffer,      \* capacity of the broadcast
  Replay,      \* rows that a stream replays at most
  PollBack,    \* rows before the newest at which a poller starts
  PollLimit    \* rows that a poll reads at most

ASSUME EventLogAssumption ==
  /\ {MaxEvents, Queue, Replay, PollBack, PollLimit} \subseteq Nat /\ Buffer \in Nat \ {0}

VARIABLES
  daemon,    \* a daemon runs on this host (otherwise events are polled)
  queue,     \* number of events between the layer and the writer
  table,     \* ids of the rows in log_events
  nextId,    \* the next id of the AUTOINCREMENT column
  own,       \* ids that the daemon's writer was given
  pending,   \* the row that is inserted and not yet broadcast, 0 when there is none
  conn,      \* the client's stream: off, subscribed (before the backlog), live
  since,     \* the cursor that the client named when it connected
  replay,    \* backlog frames still to be sent
  buffer,    \* broadcast events that the stream has not taken yet
  last,      \* last_backlog_id: live events up to here are skipped
  newest,    \* newest event that the client holds, 0 when it holds none
  settled,   \* ghost: own events that were shown to the client, or that it cannot expect
             \* (lag, trim, replay cap, failed read)
  pollSince, pollStart, polled   \* the poller's cursor, where it began, what it sent

writerVars == <<queue, nextId, own, pending>>
streamVars == <<conn, since, replay, buffer, last>>
clientVars == <<newest, settled>>
pollVars == <<pollSince, pollStart, polled>>
eventLogVars == <<daemon, writerVars, table, streamVars, clientVars, pollVars>>

Ids == 1..MaxEvents
Biggest(T) == CHOOSE i \in T : \A j \in T : j <= i
Ascends(s) == \A j, k \in 1..Len(s) : j < k => s[j] < s[k]
\* The rows T in their order (one sequence).
Sorted(T) == {s \in [1..Cardinality(T) -> T] : Range(s) = T /\ Ascends(s)}
\* The newest, or the oldest, n of the rows T.
NewestOf(T, n) == {i \in T : Cardinality({j \in T : j > i}) < n}
OldestOf(T, n) == {i \in T : Cardinality({j \in T : j < i}) < n}

EventLogTypeOK ==
  /\ daemon \in BOOLEAN /\ queue \in 0..Queue
  /\ table \subseteq Ids /\ own \subseteq Ids /\ nextId \in 1..(MaxEvents + 1)
  /\ pending \in own \cup {0}
  /\ conn \in {"off", "subscribed", "live"}
  /\ since \in 0..MaxEvents /\ last \in 0..MaxEvents /\ newest \in 0..MaxEvents
  /\ replay \in Seq(Ids) /\ Len(replay) <= Replay
  /\ buffer \in Seq(own) /\ Len(buffer) <= Buffer
  /\ settled \subseteq own
  /\ pollSince \in 0..MaxEvents /\ pollStart \in 0..MaxEvents /\ polled \subseteq Ids

EventLogInit ==
  /\ daemon \in BOOLEAN
  /\ queue = 0 /\ table = {} /\ nextId = 1 /\ own = {} /\ pending = 0
  /\ conn = "off" /\ since = 0 /\ replay = <<>> /\ buffer = <<>> /\ last = 0
  /\ newest = 0 /\ settled = {}
  /\ pollSince = 0 /\ pollStart = 0 /\ polled = {}

-----------------------------------------------------------------------------
(* Writing *)

\* The layer never blocks: a full queue drops the event, which then has no id.
Emit ==
  /\ daemon /\ queue < Queue
  /\ queue' = queue + 1
  /\ UNCHANGED <<daemon, nextId, own, pending, table, streamVars, clientVars, pollVars>>

\* The writer takes the next event; an insert that fails loses it.
WriterInsert ==
  /\ queue > 0 /\ pending = 0 /\ nextId <= MaxEvents
  /\ queue' = queue - 1
  /\ table' = table \cup {nextId}
  /\ own' = own \cup {nextId}
  /\ pending' = nextId
  /\ nextId' = nextId + 1
  /\ UNCHANGED <<daemon, streamVars, clientVars, pollVars>>

WriterInsertFails ==
  /\ queue > 0 /\ pending = 0
  /\ queue' = queue - 1
  /\ UNCHANGED <<daemon, nextId, own, pending, table, streamVars, clientVars, pollVars>>

\* The row goes to every subscription; one that is full loses its oldest event.
WriterBroadcast ==
  /\ pending # 0
  /\ pending' = 0
  /\ IF conn = "off"
     THEN UNCHANGED <<buffer, settled>>
     ELSE LET lagged == Len(buffer) = Buffer
          IN  /\ buffer' = Append(IF lagged THEN Tail(buffer) ELSE buffer, pending)
              /\ settled' = IF lagged THEN settled \cup {Head(buffer)} ELSE settled
  /\ UNCHANGED <<daemon, queue, nextId, own, table, conn, since, replay, last, newest,
                 pollVars>>

\* A dispatcher process logs into the same database.
ForeignInsert ==
  /\ nextId <= MaxEvents
  /\ table' = table \cup {nextId}
  /\ nextId' = nextId + 1
  /\ UNCHANGED <<daemon, queue, own, pending, streamVars, clientVars, pollVars>>

\* The trim sweeper deletes what is older than a day.
Trim ==
  /\ table # {}
  /\ \E cutoff \in table : table' = {i \in table : i > cutoff}
  /\ UNCHANGED <<daemon, writerVars, streamVars, clientVars, pollVars>>

-----------------------------------------------------------------------------
(* Streaming: stream_events and the store of the admin UI *)

\* Mutation: the cursor is not taken into account once the backlog is sent.
LastOfBacklog(rows) == IF rows = {} THEN 0 ELSE Biggest(rows)
\* What the client has after the replay: the newest row of it, or its own cursor.
LastSent(rows) == IF rows = {} THEN since ELSE Biggest(rows \cup {since})

\* Events that such a replay leaves out for good: cut by the cap, trimmed, or not read.
PassedOver(rows) ==
  LET onTheWay == Range(buffer) \cup {pending}
  IN  {i \in own \ rows : i > since /\ (i <= LastSent(rows) \/ i \notin onTheWay)}

\* The client opens a stream after the newest event that it holds; the handler
\* subscribes before it reads the backlog.
Subscribe ==
  /\ daemon /\ conn = "off"
  /\ conn' = "subscribed"
  /\ since' = newest
  /\ buffer' = <<>> /\ replay' = <<>> /\ last' = 0
  /\ UNCHANGED <<daemon, writerVars, table, clientVars, pollVars>>

\* Mutation: the handler subscribes only after it has read the backlog.
ReadBacklogFirst ==
  /\ conn = "subscribed"
  /\ conn' = "live"
  /\ \E rows \in {NewestOf({i \in table : i > since}, Replay), {}} :
       /\ replay' \in Sorted(rows)
       /\ last' = LastSent(rows)
       /\ settled' = settled \cup PassedOver(rows)
  /\ buffer' = <<>>
  /\ UNCHANGED <<daemon, writerVars, table, since, newest, pollVars>>

\* The newest rows after the cursor are replayed; a read that fails replays nothing.
ReadBacklog ==
  /\ conn = "subscribed"
  /\ conn' = "live"
  /\ \E rows \in {NewestOf({i \in table : i > since}, Replay), {}} :
       /\ replay' \in Sorted(rows)
       /\ last' = LastSent(rows)
       /\ settled' = settled \cup PassedOver(rows)
  /\ UNCHANGED <<daemon, writerVars, table, since, buffer, newest, pollVars>>

\* The next frame reaches the client, which keeps it only past its newest event.
Show(id) ==
  /\ settled' = IF id > newest THEN settled \cup ({id} \cap own) ELSE settled
  /\ newest' = IF id > newest THEN id ELSE newest

SendReplay ==
  /\ conn = "live" /\ replay # <<>>
  /\ replay' = Tail(replay)
  /\ Show(Head(replay))
  /\ UNCHANGED <<daemon, writerVars, table, conn, since, buffer, last, pollVars>>

SendLive ==
  /\ conn = "live" /\ replay = <<>> /\ buffer # <<>>
  /\ buffer' = Tail(buffer)
  /\ IF Head(buffer) > last THEN Show(Head(buffer)) ELSE UNCHANGED <<settled, newest>>
  /\ UNCHANGED <<daemon, writerVars, table, conn, since, replay, last, pollVars>>

\* The connection breaks, the tab sleeps, or the daemon ends the stream: what the
\* stream held is gone.
CloseStream == conn' = "off" /\ since' = 0 /\ replay' = <<>> /\ buffer' = <<>> /\ last' = 0

Disconnect ==
  /\ conn # "off"
  /\ CloseStream
  /\ UNCHANGED <<daemon, writerVars, table, clientVars, pollVars>>

\* The daemon stops and starts: queue, writer and streams are lost, the table is not.
DaemonRestarts ==
  /\ daemon
  /\ queue' = 0 /\ pending' = 0
  /\ CloseStream
  /\ UNCHANGED <<daemon, nextId, own, table, clientVars, pollVars>>

-----------------------------------------------------------------------------
(* Polling: poll_sqlite *)

PollerStart ==
  /\ ~daemon
  /\ LET cursor == IF table = {} THEN 0 ELSE Biggest(table)
     IN  pollStart' = IF cursor > PollBack THEN cursor - PollBack ELSE 0
  /\ pollSince' = pollStart' /\ polled' = {}
  /\ UNCHANGED <<daemon, writerVars, table, streamVars, clientVars>>

PollBatch == OldestOf({i \in table : i > pollSince}, PollLimit)

Poll ==
  /\ ~daemon /\ PollBatch # {}
  /\ polled' = polled \cup PollBatch
  /\ pollSince' = Biggest(PollBatch)
  /\ UNCHANGED <<daemon, pollStart, writerVars, table, streamVars, clientVars>>

EventLogNext ==
  \/ Emit \/ WriterInsert \/ WriterInsertFails \/ WriterBroadcast \/ ForeignInsert \/ Trim
  \/ Subscribe \/ ReadBacklog \/ SendReplay \/ SendLive \/ Disconnect \/ DaemonRestarts
  \/ PollerStart \/ Poll

EventLogSpec == EventLogInit /\ [][EventLogNext]_eventLogVars

-----------------------------------------------------------------------------
(* Properties *)

\* A stream sends every event once and in order, and never one that the client already
\* holds, whatever the broadcast buffered around the read of the backlog: of the newest
\* event that the client holds, the rest of the replay and the buffered events, those up
\* to last_backlog_id are skipped and the others ascend (handlers/events.rs).
SentOnce ==
  conn = "live" =>
    LET frames == <<newest>> \o replay \o buffer
        Sent(k) == k <= 1 + Len(replay) \/ frames[k] > last
    IN  \A j, k \in 1..Len(frames) : j < k /\ Sent(j) /\ Sent(k) => frames[j] < frames[k]

\* No reader of the log misses what it could have had.  Between the events that a
\* browser holds, none of the daemon's own is missing across any reconnection and
\* restart, but for those that the stream is documented to skip: lagged, trimmed, beyond
\* the replay cap, or hidden by a failed read.  The poller (stdinserver/events.rs) passes
\* over no row, its own host's or foreign, however many come at once.
NoSilentGap ==
  /\ \A i \in own : i < newest => i \in settled
  /\ \A i \in table : pollStart < i /\ i <= pollSince => i \in polled

=============================================================================
