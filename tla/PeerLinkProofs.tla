---------------------------- MODULE PeerLinkProofs ----------------------------
(***************************************************************************)
(* What holds of the link to a peer for any routes, any number of users of *)
(* the link and any behaviour of the network.                              *)
(***************************************************************************)
EXTENDS PeerLink, FiniteSetTheorems, WellFoundedInduction, TLAPS

----------------------------------------------------------------------------
(***************************************************************************)
(* The inductive invariant.  What is published is true because the loop    *)
(* and the entry always have the same session, whose route never changes   *)
(* as long as they have it: its number is not given to a new session.      *)
(***************************************************************************)

\* The records of the link.
LinkType ==
  /\ reach \subseteq Routes
  /\ session \in [Sessions -> [route : Routes, state : {"up", "half", "closed"}]]
  /\ pc \in {"connecting", "backoff", "parked", "probing", "reranking"}
  /\ try \in 1..(NRoutes + 1)
  /\ health \in [Routes -> {"unknown", "connected", "failed"}]
  /\ link \in Sessions \cup {None}
  /\ entry \in [status : {"absent", "connected", "failed", "reconnecting"},
                active : Routes \cup {None},
                link   : Sessions \cup {None},
                routes : [Routes -> {"unknown", "connected", "failed"}]]
  /\ visit \in [Visitors -> [phase : {"idle", "holding", "spawned", "streaming"},
                             link  : Sessions \cup {None}]]
  /\ reader \in [Sessions -> {"none", "running", "ended"}]
  /\ feed \in Sessions \cup {None}

\* The loop has published the session that it has, and counts no other route than that
\* session's as connected.
LoopInv ==
  /\ entry.link = link
  /\ pc \in {"connecting", "backoff"} <=> link = None
  /\ \A r \in Routes :
       health[r] = "connected" <=> link # None /\ r = session[link].route

\* Nobody reads the events of a session that is not in use, so that a number can always
\* be found for a new session.
ReadersServe ==
  /\ \A v \in Visitors : visit[v].phase = "idle" => visit[v].link = None
  /\ \A s \in Sessions : reader[s] = "running" => Referenced(s)

LinkInv == LinkType /\ LoopInv /\ ReadersServe /\ EntryTruthful

----------------------------------------------------------------------------
(* A new session always finds a number.                                    *)

LEMMA LeastSession ==
  ASSUME NEW T, T \subseteq Nat, T # {}
  PROVE  \E x \in T : \A y \in T : x <= y
<1> DEFINE LessThan == OpToRel(<, Nat)
<1>1. PICK x \in T : \A y \in T : ~(<<y, x>> \in LessThan)
  BY NatLessThanWellFounded, WFMin
<1>2. \A y \in T : ~(y < x)
  BY <1>1 DEF OpToRel
<1>3. \A y \in T : x <= y
  BY <1>2
<1> QED
  BY <1>3

LEMMA OneMore ==
  ASSUME NEW S, NEW x, NEW n \in Nat, IsFiniteSet(S), Cardinality(S) <= n
  PROVE  IsFiniteSet(S \cup {x}) /\ Cardinality(S \cup {x}) <= n + 1
<1>1. Cardinality(S) \in Nat
  BY FS_CardinalityType
<1>2. /\ IsFiniteSet(S \cup {x})
      /\ Cardinality(S \cup {x}) = IF x \in S THEN Cardinality(S) ELSE Cardinality(S) + 1
  BY FS_AddElement
<1> QED
  BY <1>1, <1>2

\* Beside the sessions of the visitors only the loop's and the one of the feed are in use.
LEMMA FreshIsFree ==
  ASSUME LinkInv
  PROVE  Fresh \in Sessions /\ ~Referenced(Fresh)
<1> DEFINE Used == Holders \cup {link, feed}
<1>1. IsFiniteSet(Holders) /\ Cardinality(Holders) <= Cardinality(Visitors)
  <2> DEFINE linkOf == [v \in Visitors |-> visit[v].link]
  <2>1. linkOf \in Surjection(Visitors, Holders)
    BY DEF Surjection, Holders
  <2> HIDE DEF linkOf
  <2> QED
    BY <2>1, FS_Surjection, LinkAssumption
<1>2. /\ IsFiniteSet(Holders \cup {link})
      /\ Cardinality(Holders \cup {link}) <= Cardinality(Visitors) + 1
  BY <1>1, OneMore, FS_CardinalityType, LinkAssumption
<1>3. IsFiniteSet(Used) /\ Cardinality(Used) <= Cardinality(Visitors) + 2
  <2> DEFINE S == Holders \cup {link}
             n == Cardinality(Visitors) + 1
  <2>1. Used = S \cup {feed}
    OBVIOUS
  <2>2. Cardinality(Visitors) \in Nat /\ n \in Nat
    BY FS_CardinalityType, LinkAssumption
  <2>3. IsFiniteSet(S) /\ Cardinality(S) <= n
    BY <1>2
  <2> HIDE DEF Used, S
  <2>4. IsFiniteSet(Used) /\ Cardinality(Used) <= n + 1
    <3> HIDE DEF n
    <3> QED
      BY <2>1, <2>2, <2>3, OneMore
  <2> QED
    BY <2>2, <2>4
<1>4. IsFiniteSet(Sessions) /\ Cardinality(Sessions) = NSessions
  BY FS_Interval, LinkAssumption DEF Sessions
<1>5. ~(Sessions \subseteq Used)
  <2> HIDE DEF Used
  <2> QED
    BY <1>3, <1>4, FS_Subset, FS_CardinalityType, LinkAssumption
<1>6. PICK s \in Sessions : s \notin Used
  BY <1>5
<1>7. s \in Free
  BY <1>6 DEF Free, Referenced, Users, LinkInv, LoopInv, ReadersServe
<1>8. Free \subseteq Nat
  BY DEF Free, Sessions
<1>9. \E t \in Free : \A u \in Free : t <= u
  BY <1>7, <1>8, LeastSession
<1>10. Fresh \in Free
  BY <1>9 DEF Fresh
<1> QED
  BY <1>10 DEF Free

----------------------------------------------------------------------------
(* Sessions that are let go.                                               *)

\* What is kept for users is left as it is, and no reader stays without one of them.
LEMMA KeptForUsers ==
  ASSUME LinkType, NEW users
  PROVE  /\ SessionsKept(users) \in
              [Sessions -> [route : Routes, state : {"up", "half", "closed"}]]
         /\ \A s \in Sessions \cap users : SessionsKept(users)[s] = session[s]
         /\ ReadersKept(users) \in [Sessions -> {"none", "running", "ended"}]
         /\ \A s \in Sessions : ReadersKept(users)[s] = "running" => s \in users
BY LinkAssumption
   DEF LinkType, SessionsKept, ReadersKept, Kept, ReaderKeeps, Gone, Routes

LEMMA LinkInitially == Init => LinkInv
<1> SUFFICES ASSUME Init PROVE LinkInv
  OBVIOUS
<1>1. LinkType
  BY LinkAssumption DEF Init, LinkType, Routes, Gone, Down
<1>2. LoopInv /\ ReadersServe
  BY DEF Init, LoopInv, ReadersServe, Down
<1>3. EntryTruthful
  BY DEF Init, EntryTruthful, Down, Routes, None
<1> QED
  BY <1>1, <1>2, <1>3 DEF LinkInv

\* Steps that leave the loop alone and no session on another route.
LEMMA LoopUnmoved ==
  ASSUME LinkInv, UNCHANGED <<reach, loopVars>>, LinkType',
         entry.link # None => session'[entry.link].route = session[entry.link].route
  PROVE  LoopInv' /\ EntryTruthful'
BY DEF LinkInv, LoopInv, EntryTruthful, loopVars

----------------------------------------------------------------------------
(* The reconnect loop.                                                     *)

\* A route that answers.
LEMMA Connected ==
  ASSUME LinkInv, NEW last \in 0..NRoutes, Attempt(last), try \in reach,
         UNCHANGED <<visit, feed>>
  PROVE  /\ Fresh \in Sessions /\ link' = Fresh /\ try \in Routes
         /\ session' \in [Sessions -> [route : Routes, state : {"up", "half", "closed"}]]
         /\ session'[Fresh].route = try
         /\ reader' \in [Sessions -> {"none", "running", "ended"}]
         /\ \A s \in Sessions : reader'[s] = "running" => s \in Holders
<1>1. /\ link' = Fresh /\ reader' = ReadersKept(Holders)
      /\ session' = [SessionsKept(Holders) EXCEPT ![Fresh] = [route |-> try, state |-> "up"]]
  BY DEF Attempt
<1>2. try \in Routes
  BY DEF LinkInv, LinkType
<1>3. Fresh \in Sessions
  BY FreshIsFree
<1> QED
  BY <1>1, <1>2, <1>3, KeptForUsers DEF LinkInv

\* What a link to the session s on the route r, with the routes' states h, makes of the
\* loop and its entry.
LEMMA Published ==
  ASSUME LinkInv, NEW s \in Sessions, NEW h \in [Routes -> {"unknown", "connected", "failed"}],
         NEW r \in Routes, session'[s].route = r,
         \A q \in Routes : h[q] = "connected" <=> q = r,
         link' = s, health' = h, entry' = Up(s, h), pc' = "parked"
  PROVE  LoopInv' /\ EntryTruthful'
<1>1. /\ entry'.status = "connected" /\ entry'.active = r /\ entry'.link = s
      /\ entry'.routes = h
  BY DEF Up
<1>2. s # None
  BY DEF Sessions, None
<1> QED
  BY <1>1, <1>2 DEF LoopInv, EntryTruthful

LEMMA ConnectInv ==
  ASSUME LinkInv, Connect
  PROVE  LinkInv'
<1>1. /\ pc = "connecting" /\ link = None /\ entry.link = None
      /\ \A r \in Routes : health[r] # "connected"
      /\ UNCHANGED <<reach, visit, feed>>
  BY DEF Connect, LinkInv, LoopInv
<1>2. CASE Attempt(NRoutes) /\ try \in reach
  <2>1. /\ health' = [health EXCEPT ![try] = "connected"]
        /\ pc' = "parked" /\ ticks' = 0 /\ try' = 1 /\ entry' = Up(Fresh, health')
    <3>1. try <= NRoutes
      BY <1>2 DEF Attempt
    <3> QED
      BY <1>2, <3>1, LinkAssumption DEF Connect, LinkInv, LinkType
  <2>2. NRoutes \in 0..NRoutes
    BY LinkAssumption
  <2>3. /\ Fresh \in Sessions /\ link' = Fresh /\ try \in Routes
        /\ session' \in [Sessions -> [route : Routes, state : {"up", "half", "closed"}]]
        /\ session'[Fresh].route = try
        /\ reader' \in [Sessions -> {"none", "running", "ended"}]
        /\ \A s \in Sessions : reader'[s] = "running" => s \in Holders
    BY <1>1, <1>2, <2>2, Connected
  <2>4. /\ health' \in [Routes -> {"unknown", "connected", "failed"}]
        /\ \A q \in Routes : health'[q] = "connected" <=> q = try
    BY <1>1, <2>1, <2>3 DEF LinkInv, LinkType
  <2>5. LoopInv' /\ EntryTruthful'
    <3> DEFINE h == health'
    <3>1. /\ h \in [Routes -> {"unknown", "connected", "failed"}]
          /\ \A q \in Routes : h[q] = "connected" <=> q = try
          /\ health' = h /\ entry' = Up(Fresh, h) /\ pc' = "parked"
      BY <2>1, <2>4
    <3> HIDE DEF h
    <3> QED
      BY <2>3, <3>1, Published
  <2>6. entry' \in [status : {"absent", "connected", "failed", "reconnecting"},
                    active : Routes \cup {None}, link : Sessions \cup {None},
                    routes : [Routes -> {"unknown", "connected", "failed"}]]
    BY <2>1, <2>3, <2>4 DEF Up
  <2>7. LinkType'
    <3>1. try' \in 1..(NRoutes + 1) /\ pc' = "parked"
      BY <2>1, LinkAssumption
    <3> QED
      BY <1>1, <2>3, <2>4, <2>6, <3>1 DEF LinkInv, LinkType
  <2>8. ReadersServe'
    BY <1>1, <2>3 DEF LinkInv, ReadersServe, Referenced, Users, Holders
  <2> QED
    BY <2>5, <2>7, <2>8 DEF LinkInv
<1>3. CASE Attempt(NRoutes) /\ try \notin reach
  <2>1. try \in Routes
    BY <1>3 DEF Attempt, LinkInv, LinkType, Routes
  <2>2. /\ health' = [health EXCEPT ![try] = "failed"] /\ try' = try + 1
        /\ UNCHANGED <<pc, ticks, entry, session, reader, link>>
    BY <1>3, <2>1, LinkAssumption DEF Connect, Attempt, Routes
  <2>3. LinkType'
    BY <1>1, <2>1, <2>2, LinkAssumption DEF LinkInv, LinkType, Routes
  <2>4. LoopInv' /\ EntryTruthful'
    BY <1>1, <2>1, <2>2 DEF LinkInv, LinkType, LoopInv, EntryTruthful
  <2>5. ReadersServe'
    BY <1>1, <2>2 DEF LinkInv, ReadersServe, Referenced, Users, Holders
  <2> QED
    BY <2>3, <2>4, <2>5 DEF LinkInv
<1>4. CASE /\ try > NRoutes
           /\ pc' = "backoff" /\ try' = 1 /\ entry' = Down("failed", health)
           /\ UNCHANGED <<session, reader, link, health, ticks>>
  <2>1. LinkType'
    BY <1>1, <1>4, LinkAssumption DEF LinkInv, LinkType, Down
  <2>2. LoopInv' /\ EntryTruthful'
    BY <1>1, <1>4 DEF LinkInv, LoopInv, EntryTruthful, Down, Routes, None
  <2>3. ReadersServe'
    BY <1>1, <1>4 DEF LinkInv, ReadersServe, Referenced, Users, Holders, Down
  <2> QED
    BY <2>1, <2>2, <2>3 DEF LinkInv
<1> QED
  BY <1>2, <1>3, <1>4 DEF Connect

\* The active route, as long as there is a session.
LEMMA ActiveRoute ==
  ASSUME LinkInv, pc \in {"parked", "probing", "reranking"}
  PROVE  link \in Sessions /\ link # None /\ session[link].route \in Routes
BY DEF LinkInv, LoopInv, LinkType

LEMMA ProbeFailsInv ==
  ASSUME LinkInv, ProbeFails
  PROVE  LinkInv'
<1>1. /\ health' = [health EXCEPT ![session[link].route] = "failed"]
      /\ entry' = Down("reconnecting", health')
      /\ pc' = "connecting" /\ try' = 1 /\ link' = None
      /\ session' = SessionsKept(Holders) /\ reader' = ReadersKept(Holders)
      /\ UNCHANGED <<reach, visit, feed>>
  BY DEF ProbeFails, Release
<1>2. link # None /\ session[link].route \in Routes
  BY ActiveRoute DEF ProbeFails
<1>3. /\ health' \in [Routes -> {"unknown", "connected", "failed"}]
      /\ \A r \in Routes : health'[r] # "connected"
  BY <1>1, <1>2 DEF LinkInv, LinkType, LoopInv
<1>4. LinkType'
  BY <1>1, <1>3, KeptForUsers, LinkAssumption DEF LinkInv, LinkType, Down
<1>5. LoopInv' /\ EntryTruthful'
  BY <1>1, <1>3 DEF LoopInv, EntryTruthful, Down, Routes, None
<1>6. ReadersServe'
  BY <1>1, KeptForUsers DEF LinkInv, ReadersServe, Referenced, Users, Holders
<1> QED
  BY <1>4, <1>5, <1>6 DEF LinkInv

LEMMA RerankInv ==
  ASSUME LinkInv, Rerank
  PROVE  LinkInv'
<1> DEFINE old == session[link].route
<1>1. /\ pc = "reranking" /\ link \in Sessions /\ link # None /\ old \in Routes
      /\ UNCHANGED <<reach, ticks, visit, feed>>
  BY ActiveRoute DEF Rerank
<1>2. old - 1 \in 0..NRoutes /\ old - 1 < NRoutes
  BY <1>1, LinkAssumption DEF Routes
<1>3. CASE Attempt(old - 1) /\ try \in reach
  <2>1. /\ health' = SwappedHealth(old) /\ pc' = "parked" /\ try' = 1
        /\ entry' = Up(Fresh, health')
    <3>1. try < old
      BY <1>1, <1>3 DEF Attempt, LinkInv, LinkType, Routes
    <3> QED
      BY <1>1, <1>3, <3>1 DEF Rerank, LinkInv, LinkType, Routes
  <2>2. /\ Fresh \in Sessions /\ link' = Fresh /\ try \in Routes
        /\ session' \in [Sessions -> [route : Routes, state : {"up", "half", "closed"}]]
        /\ session'[Fresh].route = try
        /\ reader' \in [Sessions -> {"none", "running", "ended"}]
        /\ \A s \in Sessions : reader'[s] = "running" => s \in Holders
    BY <1>1, <1>2, <1>3, Connected
  <2>3. /\ health' \in [Routes -> {"unknown", "connected", "failed"}]
        /\ \A q \in Routes : health'[q] = "connected" <=> q = try
    <3>1. health \in [Routes -> {"unknown", "connected", "failed"}]
      BY DEF LinkInv, LinkType
    <3>2. \A q \in Routes : health[q] = "connected" <=> q = old
      BY <1>1 DEF LinkInv, LoopInv
    <3> HIDE DEF old
    <3> QED
      BY <2>1, <2>2, <3>1, <3>2 DEF SwappedHealth
  <2>4. LoopInv' /\ EntryTruthful'
    <3> DEFINE h == health'
    <3>1. /\ h \in [Routes -> {"unknown", "connected", "failed"}]
          /\ \A q \in Routes : h[q] = "connected" <=> q = try
          /\ health' = h /\ entry' = Up(Fresh, h) /\ pc' = "parked"
      BY <2>1, <2>3
    <3> HIDE DEF h
    <3> QED
      BY <2>2, <3>1, Published
  <2>5. entry' \in [status : {"absent", "connected", "failed", "reconnecting"},
                    active : Routes \cup {None}, link : Sessions \cup {None},
                    routes : [Routes -> {"unknown", "connected", "failed"}]]
    BY <2>1, <2>2, <2>3 DEF Up
  <2>6. LinkType'
    BY <1>1, <2>1, <2>2, <2>3, <2>5, LinkAssumption DEF LinkInv, LinkType
  <2>7. ReadersServe'
    BY <1>1, <2>2 DEF LinkInv, ReadersServe, Referenced, Users, Holders
  <2> QED
    BY <2>4, <2>6, <2>7 DEF LinkInv
<1>4. CASE Attempt(old - 1) /\ try \notin reach
  <2>1. try < old
    BY <1>1, <1>4 DEF Attempt, LinkInv, LinkType, Routes
  <2>2. try \in Routes /\ try # old
    BY <1>1, <2>1, LinkAssumption DEF LinkInv, LinkType, Routes
  <2>3. /\ health' = [health EXCEPT ![try] = "failed"] /\ try' = try + 1
        /\ UNCHANGED <<pc, entry, session, reader, link>>
    BY <1>1, <1>4, <2>1 DEF Rerank, Attempt, LinkInv, LinkType, Routes
  <2>4. LinkType'
    BY <1>1, <2>2, <2>3, LinkAssumption DEF LinkInv, LinkType, Routes
  <2>5. LoopInv' /\ EntryTruthful'
    BY <1>1, <2>2, <2>3 DEF LinkInv, LinkType, LoopInv, EntryTruthful
  <2>6. ReadersServe'
    BY <1>1, <2>3 DEF LinkInv, ReadersServe, Referenced, Users, Holders
  <2> QED
    BY <2>4, <2>5, <2>6 DEF LinkInv
<1>5. CASE /\ try >= old /\ pc' = "parked" /\ try' = 1
           /\ UNCHANGED <<session, reader, link, health, entry>>
  <2>1. LinkType'
    BY <1>1, <1>5, LinkAssumption DEF LinkInv, LinkType
  <2>2. LoopInv' /\ EntryTruthful'
    BY <1>1, <1>5 DEF LinkInv, LoopInv, EntryTruthful
  <2>3. ReadersServe'
    BY <1>1, <1>5 DEF LinkInv, ReadersServe, Referenced, Users, Holders
  <2> QED
    BY <2>1, <2>2, <2>3 DEF LinkInv
<1> QED
  BY <1>3, <1>4, <1>5 DEF Rerank

\* Steps of the loop that only move it on.
LEMMA LoopMovesOn ==
  ASSUME LinkInv, Backoff \/ Tick \/ ProbeAnswered
  PROVE  LinkInv'
<1>1. /\ UNCHANGED <<reach, session, try, health, link, entry, visit, reader, feed>>
      /\ \/ pc = "backoff" /\ pc' = "connecting"
         \/ /\ pc \in {"parked", "probing"}
            /\ pc' \in {"parked", "probing", "reranking"}
  BY DEF Backoff, Tick, ProbeAnswered, userVars
<1>2. LinkType'
  BY <1>1 DEF LinkInv, LinkType
<1>3. LoopInv' /\ EntryTruthful'
  BY <1>1 DEF LinkInv, LoopInv, EntryTruthful
<1>4. ReadersServe'
  BY <1>1 DEF LinkInv, ReadersServe, Referenced, Users, Holders
<1> QED
  BY <1>2, <1>3, <1>4 DEF LinkInv

----------------------------------------------------------------------------
(* The network, the visitors and the events.                               *)

LEMMA NetworkInv ==
  ASSUME LinkInv,
         \/ \E r \in Routes : RouteChanges(r)
         \/ \E s \in Sessions : SessionBreaks(s) \/ KeepAliveFails(s)
  PROVE  LinkInv'
<1>1. UNCHANGED <<pc, try, health, link, ticks, entry, visit, reader, feed>>
  BY DEF RouteChanges, SessionBreaks, KeepAliveFails, loopVars, userVars
<1>2. /\ reach' \subseteq Routes
      /\ session' \in [Sessions -> [route : Routes, state : {"up", "half", "closed"}]]
      /\ \A s \in Sessions : session'[s].route = session[s].route
  <2>1. CASE \E r \in Routes : RouteChanges(r)
    BY <2>1 DEF RouteChanges, LinkInv, LinkType
  <2>2. ASSUME NEW s \in Sessions, NEW st \in {"half", "closed"},
               session' = [session EXCEPT ![s].state = st], reach' = reach
        PROVE  /\ reach' \subseteq Routes
               /\ session' \in [Sessions -> [route : Routes, state : {"up", "half", "closed"}]]
               /\ \A t \in Sessions : session'[t].route = session[t].route
    BY <2>2 DEF LinkInv, LinkType
  <2>3. CASE \E s \in Sessions : SessionBreaks(s)
    BY <2>2, <2>3 DEF SessionBreaks
  <2>4. CASE \E s \in Sessions : KeepAliveFails(s)
    BY <2>2, <2>4 DEF KeepAliveFails
  <2> QED
    BY <2>1, <2>3, <2>4
<1>3. LinkType'
  BY <1>1, <1>2 DEF LinkInv, LinkType
<1>4. LoopInv' /\ EntryTruthful'
  <2>1. entry.link # None => session'[entry.link].route = session[entry.link].route
    BY <1>2 DEF LinkInv, LinkType
  <2> QED
    BY <1>1, <2>1 DEF LinkInv, LoopInv, EntryTruthful
<1>5. ReadersServe'
  BY <1>1 DEF LinkInv, ReadersServe, Referenced, Users, Holders
<1> QED
  BY <1>3, <1>4, <1>5 DEF LinkInv

\* A visitor keeps his link from one phase to the next, or takes the published one.
LEMMA VisitorInv ==
  ASSUME LinkInv, NEW v \in Visitors, TakeLink(v) \/ Recv(v)
  PROVE  LinkInv'
<1>1. UNCHANGED <<reach, session, loopVars, reader, feed>>
  BY DEF TakeLink, Recv, SpawnRecv, CountRecv, FinishRecv
<1>2. PICK ph \in {"holding", "spawned", "streaming"}, s \in Sessions \cup {None} :
        /\ SetVisit(v, ph, s)
        /\ s = visit[v].link \/ visit[v].phase = "idle"
  BY DEF TakeLink, Recv, SpawnRecv, CountRecv, FinishRecv, LinkInv, LinkType
<1>3. /\ visit' = [visit EXCEPT ![v] = [phase |-> ph, link |-> s]]
      /\ visit \in [Visitors -> [phase : {"idle", "holding", "spawned", "streaming"},
                                 link  : Sessions \cup {None}]]
  BY <1>2 DEF SetVisit, LinkInv, LinkType
<1>4. LinkType'
  BY <1>1, <1>2, <1>3 DEF LinkInv, LinkType, loopVars
<1>5. LoopInv' /\ EntryTruthful'
  BY <1>1, <1>4, LoopUnmoved
<1>6. \A t \in Sessions : Referenced(t) => Referenced(t)'
  <2> SUFFICES ASSUME NEW t \in Sessions, Referenced(t) PROVE Referenced(t)'
    OBVIOUS
  <2>1. CASE t \in {link, entry.link}
    BY <2>1, <1>1 DEF Referenced, Users, loopVars
  <2>2. CASE t \in Holders
    <3>1. PICK w \in Visitors : t = visit[w].link
      BY <2>2 DEF Holders
    <3>2. t = visit'[w].link
      <4>1. t # None
        BY DEF Sessions, None
      <4> QED
        BY <1>2, <1>3, <3>1, <4>1 DEF LinkInv, ReadersServe
    <3> QED
      BY <3>2 DEF Referenced, Users, Holders
  <2> QED
    BY <2>1, <2>2 DEF Referenced, Users
<1>7. ReadersServe'
  BY <1>1, <1>2, <1>3, <1>6 DEF LinkInv, ReadersServe
<1> QED
  BY <1>4, <1>5, <1>7 DEF LinkInv

LEMMA DropLinkInv ==
  ASSUME LinkInv, NEW v \in Visitors, DropLink(v)
  PROVE  LinkInv'
<1> DEFINE users == {link, entry.link} \cup {visit[w].link : w \in Visitors \ {v}}
<1>1. /\ visit' = [visit EXCEPT ![v] = [phase |-> "idle", link |-> None]]
      /\ session' = SessionsKept(users) /\ reader' = ReadersKept(users)
      /\ UNCHANGED <<reach, pc, try, health, link, ticks, entry, feed>>
  BY DEF DropLink, SetVisit, Release, loopVars
<1>2. \A s \in Sessions : s \in users => Referenced(s)'
  <2>1. \A w \in Visitors \ {v} : visit'[w] = visit[w]
    BY <1>1 DEF LinkInv, LinkType
  <2> QED
    BY <1>1, <2>1 DEF Referenced, Users, Holders
<1>3. entry.link \in users
  OBVIOUS
<1> HIDE DEF users
<1>4. LinkType'
  BY <1>1, KeptForUsers DEF LinkInv, LinkType
<1>5. entry.link # None => session'[entry.link].route = session[entry.link].route
  BY <1>1, <1>3, KeptForUsers DEF LinkInv, LinkType
<1>6. LoopInv' /\ EntryTruthful'
  BY <1>1, <1>4, <1>5, LoopUnmoved DEF loopVars
<1>7. ReadersServe'
  <2>1. \A w \in Visitors : visit'[w].phase = "idle" => visit'[w].link = None
    BY <1>1 DEF LinkInv, LinkType, ReadersServe
  <2>2. \A s \in Sessions : reader'[s] = "running" => s \in users
    BY <1>1, KeptForUsers DEF LinkInv
  <2> QED
    BY <1>2, <2>1, <2>2 DEF ReadersServe
<1> QED
  BY <1>4, <1>6, <1>7 DEF LinkInv

LEMMA EventsInv ==
  ASSUME LinkInv, OpenFeed \/ CloseFeed \/ \E s \in Sessions : EventsEof(s) \/ StopReader(s)
  PROVE  LinkInv'
<1>1. UNCHANGED <<reach, session, pc, try, health, link, ticks, entry, visit>>
  BY DEF OpenFeed, CloseFeed, EventsEof, StopReader, loopVars
<1>2. /\ reader' \in [Sessions -> {"none", "running", "ended"}]
      /\ feed' \in Sessions \cup {None}
      /\ \A s \in Sessions : reader'[s] = "running" => reader[s] = "running" \/ s = entry.link
  <2>1. CASE OpenFeed
    BY <2>1 DEF OpenFeed, LinkInv, LinkType
  <2>2. CASE CloseFeed
    BY <2>2 DEF CloseFeed, LinkInv, LinkType
  <2>3. CASE \E s \in Sessions : EventsEof(s) \/ StopReader(s)
    BY <2>3 DEF EventsEof, StopReader, LinkInv, LinkType
  <2> QED
    BY <2>1, <2>2, <2>3
<1>3. LinkType'
  BY <1>1, <1>2 DEF LinkInv, LinkType
<1>4. LoopInv' /\ EntryTruthful'
  <2>1. LoopInv /\ EntryTruthful
    BY DEF LinkInv
  <2>2. LoopInv'
    BY <1>1, <2>1 DEF LoopInv
  <2>3. EntryTruthful'
    BY <1>1, <2>1 DEF EntryTruthful
  <2> QED BY <2>2, <2>3
<1>5. ReadersServe'
  BY <1>1, <1>2 DEF LinkInv, ReadersServe, Referenced, Users, Holders
<1> QED
  BY <1>3, <1>4, <1>5 DEF LinkInv

----------------------------------------------------------------------------
(***************************************************************************)
(* Theorems.                                                               *)
(***************************************************************************)

LEMMA LinkInvariant == Spec => []LinkInv
<1>1. Init => LinkInv
  BY LinkInitially
<1>2. LinkInv /\ [Next]_vars => LinkInv'
  <2> SUFFICES ASSUME LinkInv, [Next]_vars PROVE LinkInv'
    OBVIOUS
  <2>1. CASE Loop
    BY <2>1, ConnectInv, LoopMovesOn, ProbeFailsInv, RerankInv DEF Loop
  <2>2. CASE \/ \E r \in Routes : RouteChanges(r)
             \/ \E s \in Sessions : SessionBreaks(s) \/ KeepAliveFails(s)
    BY <2>2, NetworkInv
  <2>3. CASE \E v \in Visitors : TakeLink(v) \/ Recv(v) \/ DropLink(v)
    BY <2>3, VisitorInv, DropLinkInv
  <2>4. CASE OpenFeed \/ CloseFeed \/ \E s \in Sessions : EventsEof(s) \/ StopReader(s)
    BY <2>4, EventsInv
  <2>5. CASE UNCHANGED vars
    BY <2>5 DEF vars, loopVars, userVars, LinkInv, LinkType, LoopInv, ReadersServe,
                Referenced, Users, Holders, EntryTruthful
  <2> QED
    BY <2>1, <2>2, <2>3, <2>4, <2>5 DEF Next
<1> QED
  BY <1>1, <1>2, PTL DEF Spec

\* What a link shows to the API and the scheduler is true, for any routes and users and
\* whatever the network does (reconnect.rs, publish).
THEOREM EntriesAreTruthful == Spec => []EntryTruthful
<1>1. LinkInv => EntryTruthful
  BY DEF LinkInv
<1> QED
  BY <1>1, LinkInvariant, PTL

=============================================================================
