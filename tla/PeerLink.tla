------------------------------ MODULE PeerLink ------------------------------
(***************************************************************************)
(* The link to one peer (daemon/src/peer): the reconnect loop that ranks   *)
(* the routes, probes the live session and re-ranks it, the entry that it  *)
(* publishes, and the users of the link: push visits that stream receives  *)
(* over it and browsers that follow the peer's events.                     *)
(*                                                                         *)
(* A session is a number; it closes with its last clone and its number is  *)
(* used again. It is up, half (the peer is gone, nobody has noticed) or    *)
(* closed.                                                                 *)
(* Time is left out: a probe, a connection attempt and a nap end at some   *)
(* point, and the back-off between attempts is the step Backoff.           *)
(***************************************************************************)
EXTENDS Integers, FiniteSets

CONSTANTS
  NRoutes,      \* configured routes, 1 is the one with the highest priority
  NSessions,    \* numbers for sessions
  Visitors,     \* users that hold a link while they work: visits, job streams
  RerankTicks   \* RERANK_EVERY_TICKS

ASSUME LinkAssumption ==
  /\ NRoutes \in Nat \ {0}
  /\ IsFiniteSet(Visitors)
  /\ NSessions \in Nat /\ NSessions >= Cardinality(Visitors) + 3
  /\ RerankTicks \in Nat \ {0}

None     == 0
Routes   == 1..NRoutes
Sessions == 1..NSessions

VARIABLES
  reach,    \* routes on which the peer answers
  session,  \* per number: the route and the state (up, half, closed) of the session
  pc,       \* the reconnect loop: connecting, backoff, parked, probing, reranking
  try,      \* the route that connect_ranked tries next
  health,   \* route states of the loop: unknown, connected, failed
  link,     \* the loop's session, None between connections
  ticks,    \* probe ticks, modulo RerankTicks
  entry,    \* what the loop has published
  visit,    \* per visitor: its phase (idle, holding, spawned, streaming) and its session
  reader,   \* per session: the task that reads the peer's events channel, if there was one
  feed      \* the session whose events a browser follows, None if its stream is closed

loopVars == <<pc, try, health, link, ticks, entry>>
userVars == <<visit, reader, feed>>
vars     == <<reach, session, loopVars, userVars>>

Down(status, states) ==
  [status |-> status, active |-> None, link |-> None, routes |-> states]
Up(s, states) ==
  [status |-> "connected", active |-> session'[s].route, link |-> s, routes |-> states]

Gone == [route |-> 1, state |-> "closed"]

Init ==
  /\ reach \in SUBSET Routes
  /\ session = [s \in Sessions |-> Gone]
  /\ pc = "connecting" /\ try = 1 /\ link = None /\ ticks = 0
  /\ health = [r \in Routes |-> "unknown"]
  /\ entry = Down("absent", health)
  /\ visit = [v \in Visitors |-> [phase |-> "idle", link |-> None]]
  /\ reader = [s \in Sessions |-> "none"]
  /\ feed = None

----------------------------------------------------------------------------
(* Sessions and their references.                                          *)

\* Clones of the link: the loop's, the published one and those of the visitors. The
\* events stream of a browser keeps only the receiving end of the broadcast.
Holders == {visit[v].link : v \in Visitors}
Users == Holders \cup {link, entry.link}
Referenced(s) == s \in Users

\* Mutation: the reader of its events keeps the session of a link that nobody uses.
ReaderKeepsSession(s) == reader[s] = "running"

\* Whether the reader keeps a session open: dropping the last clone cancels it
\* (CancelOnDrop).
ReaderKeeps(s) == FALSE

\* The sessions and readers once only users hold links and the receiving end of feed is
\* open: what a session's last clone leaves is closed.
Kept(users) == {s \in Sessions : s \in users \/ ReaderKeeps(s)}
SessionsKept(users) == [s \in Sessions |-> IF s \in Kept(users) THEN session[s] ELSE Gone]
ReadersKept(users) ==
  [s \in Sessions |-> IF s \in Kept(users) THEN reader[s]
                     ELSE IF s = feed THEN "ended" ELSE "none"]
Release(users) == session' = SessionsKept(users) /\ reader' = ReadersKept(users)

Free == {s \in Sessions : ~Referenced(s) /\ feed # s /\ reader[s] # "running"}
Fresh == CHOOSE s \in Free : \A t \in Free : s <= t

\* active_recvs: receives are counted once their header is written, until the channel
\* is dropped.
ActiveRecvs(s) == {v \in Visitors : visit[v] = [phase |-> "streaming", link |-> s]}

----------------------------------------------------------------------------
(* The reconnect loop, run_for_peer.                                       *)

\* One iteration of connect_ranked over the routes up to last; when the route answers its
\* session takes the place of the loop's.
Attempt(last) ==
  /\ try <= last
  /\ IF try \in reach
     THEN /\ session' = [SessionsKept(Holders) EXCEPT ![Fresh] = [route |-> try, state |-> "up"]]
          /\ reader' = ReadersKept(Holders)
          /\ link' = Fresh
     ELSE UNCHANGED <<session, reader, link>>

\* connect_ranked over all routes: the first that answers wins and is published; when
\* none does the entry fails and the loop backs off.
Connect ==
  /\ pc = "connecting"
  /\ \/ /\ Attempt(NRoutes)
        /\ health' = [health EXCEPT ![try] = IF try \in reach THEN "connected" ELSE "failed"]
        /\ IF try \in reach
           THEN /\ pc' = "parked" /\ ticks' = 0 /\ try' = 1
                /\ entry' = Up(Fresh, health')
           ELSE /\ try' = try + 1
                /\ UNCHANGED <<pc, ticks, entry>>
     \/ /\ try > NRoutes
        /\ pc' = "backoff" /\ try' = 1
        /\ entry' = Down("failed", health)
        /\ UNCHANGED <<session, reader, link, health, ticks>>
  /\ UNCHANGED <<reach, visit, feed>>

Backoff ==
  /\ pc = "backoff" /\ pc' = "connecting"
  /\ UNCHANGED <<reach, session, try, health, link, ticks, entry, userVars>>

\* The probe interval is over: the probe is skipped while receives are streaming.
Tick ==
  /\ pc = "parked"
  /\ ticks' = (ticks + 1) % RerankTicks
  /\ pc' = IF ActiveRecvs(link) = {} THEN "probing" ELSE "parked"
  /\ UNCHANGED <<reach, session, try, health, link, entry, userVars>>

\* Mutation: the routes are counted from one where the code counts from zero.
RerankFromThird == session[link].route > 2 /\ ticks = 0

RerankDue == session[link].route > 1 /\ ticks = 0

\* The probe is answered; on every RerankTicks-th tick a lower route tries the better ones.
ProbeAnswered ==
  /\ pc = "probing" /\ session[link].state = "up"
  /\ pc' = IF RerankDue THEN "reranking" ELSE "parked"
  /\ UNCHANGED <<reach, session, try, health, link, ticks, entry, userVars>>

\* The probe fails or times out: the session is gone, or a receive that began after the
\* check starves the control channel. The entry is torn down.
ProbeFails ==
  /\ pc = "probing"
  /\ session[link].state # "up" \/ ActiveRecvs(link) # {}
  /\ health' = [health EXCEPT ![session[link].route] = "failed"]
  /\ entry' = Down("reconnecting", health')
  /\ pc' = "connecting" /\ try' = 1 /\ link' = None /\ ticks' = 0
  /\ Release(Holders)
  /\ UNCHANGED <<reach, visit, feed>>

\* Mutation: the route that is left keeps its health.
SwapKeepsHealth(old) == [health EXCEPT ![try] = "connected"]

\* The route states after a swap from the route old to the one that was tried.
SwappedHealth(old) == [health EXCEPT ![old] = "unknown", ![try] = "connected"]

\* connect_ranked over the routes better than the active one: a success swaps the
\* link, the old session lives on in whoever holds it.
Rerank ==
  /\ pc = "reranking"
  /\ LET old == session[link].route IN
     \/ /\ Attempt(old - 1)
        /\ IF try \in reach
           THEN /\ health' = SwappedHealth(old)
                /\ pc' = "parked" /\ try' = 1
                /\ entry' = Up(Fresh, health')
           ELSE /\ health' = [health EXCEPT ![try] = "failed"]
                /\ try' = try + 1
                /\ UNCHANGED <<pc, entry>>
     \/ /\ try >= old
        /\ pc' = "parked" /\ try' = 1
        /\ UNCHANGED <<session, reader, link, health, entry>>
  /\ UNCHANGED <<reach, ticks, visit, feed>>

----------------------------------------------------------------------------
(* The network.                                                            *)

RouteChanges(r) ==
  /\ reach' = IF r \in reach THEN reach \ {r} ELSE reach \cup {r}
  /\ UNCHANGED <<session, loopVars, userVars>>

SessionBreaks(s) ==
  /\ session[s].state = "up" /\ session[s].route \notin reach
  /\ session' = [session EXCEPT ![s].state = "half"]
  /\ UNCHANGED <<reach, loopVars, userVars>>

\* Mutation: only the application probes, which receives suspend.
NoticedWithoutRecvs(s) == session[s].state = "half" /\ ActiveRecvs(s) = {}

\* Whether ssh's keepalives tell: SERVER_ALIVE_INTERVAL, whatever the channels do.
Noticed(s) == session[s].state = "half"

KeepAliveFails(s) ==
  /\ Noticed(s)
  /\ session' = [session EXCEPT ![s].state = "closed"]
  /\ UNCHANGED <<reach, loopVars, userVars>>

----------------------------------------------------------------------------
(* Visits: open_recv, RecvChannel, RecvGuard.                              *)

SetVisit(v, phase, s) == visit' = [visit EXCEPT ![v] = [phase |-> phase, link |-> s]]

TakeLink(v) ==
  /\ visit[v].phase = "idle" /\ entry.link # None
  /\ SetVisit(v, "holding", entry.link)
  /\ UNCHANGED <<reach, session, loopVars, reader, feed>>

\* open_recv spawns the remote process, then writes the header, then counts.
SpawnRecv(v) ==
  /\ visit[v].phase = "holding" /\ session[visit[v].link].state = "up"
  /\ SetVisit(v, "spawned", visit[v].link)
  /\ UNCHANGED <<reach, session, loopVars, reader, feed>>

CountRecv(v) ==
  /\ visit[v].phase = "spawned" /\ session[visit[v].link].state = "up"
  /\ SetVisit(v, "streaming", visit[v].link)
  /\ UNCHANGED <<reach, session, loopVars, reader, feed>>

\* The channel ends, well or with the session.
FinishRecv(v) ==
  /\ visit[v].phase \in {"spawned", "streaming"}
  /\ \/ session[visit[v].link].state = "up" /\ visit[v].phase = "streaming"
     \/ session[visit[v].link].state = "closed"
  /\ SetVisit(v, "holding", visit[v].link)
  /\ UNCHANGED <<reach, session, loopVars, reader, feed>>

DropLink(v) ==
  /\ visit[v].phase = "holding"
  /\ SetVisit(v, "idle", None)
  /\ Release({link, entry.link} \cup {visit[w].link : w \in Visitors \ {v}})
  /\ UNCHANGED <<reach, loopVars, feed>>

----------------------------------------------------------------------------
(* Events: subscribe_events, its reader task, stream_peer_events.          *)

\* A browser opens the stream; the first subscriber of a link starts the reader. A
\* channel that cannot be spawned fails the request and is tried again by the next.
OpenFeed ==
  /\ feed = None /\ entry.link # None
  /\ \/ reader[entry.link] # "none" /\ UNCHANGED reader
     \/ /\ reader[entry.link] = "none" /\ session[entry.link].state = "up"
        /\ reader' = [reader EXCEPT ![entry.link] = "running"]
  /\ feed' = entry.link
  /\ UNCHANGED <<reach, session, loopVars, visit>>

\* The remote process ends its output: the receiver's daemon stopped.
EventsEof(s) ==
  /\ reader[s] = "running" /\ session[s].state = "up"
  /\ reader' = [reader EXCEPT ![s] = "ended"]
  /\ UNCHANGED <<reach, session, loopVars, visit, feed>>

\* The reader stops with the session.
StopReader(s) ==
  /\ reader[s] = "running" /\ session[s].state = "closed"
  /\ reader' = [reader EXCEPT ![s] = "ended"]
  /\ UNCHANGED <<reach, session, loopVars, visit, feed>>

\* The broadcast is closed when its senders are gone, the link's and the reader's; the
\* stream then ends.
CloseFeed ==
  /\ feed # None /\ ~Referenced(feed) /\ reader[feed] # "running"
  /\ feed' = None
  /\ reader' = [reader EXCEPT ![feed] = "none"]
  /\ UNCHANGED <<reach, session, loopVars, visit>>

----------------------------------------------------------------------------
Loop == Connect \/ Backoff \/ Tick \/ ProbeAnswered \/ ProbeFails \/ Rerank

Recv(v) == SpawnRecv(v) \/ CountRecv(v) \/ FinishRecv(v)

Next ==
  \/ Loop
  \/ \E r \in Routes : RouteChanges(r)
  \/ \E s \in Sessions : SessionBreaks(s) \/ KeepAliveFails(s) \/ EventsEof(s) \/ StopReader(s)
  \/ \E v \in Visitors : TakeLink(v) \/ Recv(v) \/ DropLink(v)
  \/ OpenFeed \/ CloseFeed

Spec == Init /\ [][Next]_vars

\* The loop's timers fire and its calls return; a transfer ends when it is done or
\* broken; ssh sends its keepalives; dropped links and closed broadcasts are noticed.
\* Nobody has to open, to hold for ever or to give up anything. A session on a route
\* that is gone breaks: TCP carries nothing.
Fairness ==
  /\ WF_vars(Loop)
  /\ \A v \in Visitors : WF_vars(CountRecv(v) \/ FinishRecv(v))
  /\ \A s \in Sessions : WF_vars(SessionBreaks(s) \/ KeepAliveFails(s) \/ StopReader(s))
  /\ WF_vars(CloseFeed)

FairSpec == Spec /\ Fairness

----------------------------------------------------------------------------
(* Properties.                                                             *)

\* The published entry is one the API and the scheduler can rely on: a link exactly when
\* connected, over the route it names, and no other route shown as connected, through
\* any sequence of failed probes, re-rankings and reconnections (reconnect.rs, publish).
EntryTruthful ==
  /\ entry.status = "connected" <=> entry.link # None
  /\ entry.link # None => session[entry.link].route = entry.active
  /\ \A r \in Routes : entry.routes[r] = "connected" <=> r = entry.active

\* A link whose session is dead is not kept: receives over it suspend the probe, but the
\* keepalives of ssh end them (mod.rs, SERVER_ALIVE_INTERVAL).
DeadLinkIsReplaced ==
  \A s \in Sessions :
    (entry.link = s /\ session[s].state # "up") ~> (entry.link # s)

\* Back in reach of the best route, and with the transfers over, the peer ends up on it,
\* whatever happened before (reconnect.rs, re-rank).
BestRouteWins ==
  <>[](1 \in reach /\ \A v \in Visitors : visit[v].phase # "streaming")
    => <>[](entry.active = 1)

\* An events stream does not outlive the link it was opened on: it ends once nobody uses
\* that link, so the browser reconnects over the new one (mod.rs, CancelOnDrop).
FeedFollowsLink ==
  \A s \in Sessions : (feed = s /\ ~Referenced(s)) ~> (feed # s)

\* What handlers/peers.rs promises of stream_peer_events: it ends rather than stalls. A
\* stream whose channel has ended does not stay open over a link that stays up.
FeedNeverStalls ==
  \A s \in Sessions : (feed = s /\ reader[s] = "ended") ~> (feed # s)
=============================================================================
