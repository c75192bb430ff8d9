------------------------------ MODULE Sessions ------------------------------
(***************************************************************************)
(* Browser sessions of the admin UI (daemon/src/auth.rs): rows of          *)
(* browser_sessions that are created by a login, checked and rolled        *)
(* forward by every request, revoked by a logout, evicted by later logins  *)
(* and kept across restarts.  Requests run concurrently; a validation is a *)
(* SELECT and, in a second statement, an UPDATE or a DELETE.               *)
(*                                                                         *)
(* A session is an integer (ids are random, so none is issued twice); a    *)
(* namespace is the administrator token that the cookie name is derived    *)
(* from, which changes when the operator replaces the token file.          *)
(***************************************************************************)
EXTENDS Naturals, FiniteSets

CONSTANTS
  MaxTime,      \* the clock ends here (a bound)
  MaxSids,      \* sessions created over the whole behaviour (a bound)
  MaxSessions,  \* MAX_SESSIONS
  Ttl,          \* SESSION_TTL
  Refresh,      \* SESSION_REFRESH_INTERVAL
  Namespaces,   \* administrator tokens, in the order of their use
  Requests      \* requests at a time

ASSUME SessionsAssumption ==
  /\ MaxTime \in Nat /\ MaxSids \in Nat /\ MaxSessions \in Nat
  /\ Ttl \in Nat /\ Refresh \in Nat \ {0}
  /\ Namespaces \subseteq Nat \ {0}

VARIABLES
  clock,
  adminToken,  \* the administrator token in use
  rows,        \* browser_sessions: session -> namespace and expires_at
  issued,      \* sessions created so far
  req,         \* the requests in progress
  removed,     \* ghost: sessions whose row was deleted
  lastGrant,   \* ghost: the newest clock reading that a granted request used
  barred       \* ghost: some request was granted on a session removed before it began

ghosts == <<removed, lastGrant, barred>>
sessionsVars == <<clock, adminToken, rows, issued, req, ghosts>>

Sids == 1..MaxSids
NoRow == [ns |-> 0, until |-> 0]

\* pc: idle, select, refresh (the row was read and is due), revoke (it had expired),
\* served; now: the clock as the request read it; late: the session was gone by then.
Idle == [pc |-> "idle", sid |-> 0, now |-> 0, late |-> FALSE]

SessionsTypeOK ==
  /\ clock \in 0..MaxTime /\ adminToken \in Namespaces /\ issued \in 0..MaxSids
  /\ rows \in [Sids -> [ns : Namespaces, until : 0..(MaxTime + Ttl)] \cup {NoRow}]
  /\ req \in [Requests -> [pc : {"idle", "select", "refresh", "revoke"},
                           sid : 0..MaxSids, now : 0..MaxTime, late : BOOLEAN]]
  /\ removed \subseteq Sids /\ lastGrant \in [Sids -> 0..MaxTime] /\ barred \in BOOLEAN

SessionsInit ==
  /\ clock = 0 /\ adminToken \in {n \in Namespaces : \A m \in Namespaces : n <= m}
  /\ rows = [s \in Sids |-> NoRow] /\ issued = 0
  /\ req = [r \in Requests |-> Idle]
  /\ removed = {} /\ lastGrant = [s \in Sids |-> 0] /\ barred = FALSE

RowsOf(f, n) == {s \in Sids : f[s].ns = n}
Delete(f, S) == [s \in Sids |-> IF s \in S THEN NoRow ELSE f[s]]

-----------------------------------------------------------------------------
\* Mutation: a full table is noticed one row too late.
EvictedBeyond(live) ==
  IF Cardinality(live) <= MaxSessions THEN {{}}
  ELSE {{s} : s \in {x \in live : \A y \in live : rows[x].until <= rows[y].until}}
\* The row that makes room: one of those that expire first.
Evicted(live) ==
  IF Cardinality(live) < MaxSessions THEN {{}}
  ELSE {{s} : s \in {x \in live : \A y \in live : rows[x].until <= rows[y].until}}

\* POST /auth/login with the right token: one transaction sweeps the expired rows of
\* every namespace, makes room in its own and inserts the session.
Login ==
  /\ issued < MaxSids
  /\ LET expired == {s \in Sids : rows[s] # NoRow /\ rows[s].until <= clock}
         kept == Delete(rows, expired)
         sid == issued + 1
     IN  \E evicted \in Evicted(RowsOf(kept, adminToken)) :
           /\ rows' = [Delete(kept, evicted) EXCEPT
                        ![sid] = [ns |-> adminToken, until |-> clock + Ttl]]
           /\ removed' = removed \cup expired \cup evicted
           /\ lastGrant' = [s \in Sids |-> IF s \in expired \cup evicted THEN 0
                                           ELSE IF s = sid THEN clock ELSE lastGrant[s]]
           /\ issued' = sid
  /\ UNCHANGED <<clock, adminToken, req, barred>>

\* A request with a session cookie of the token in use: require_admin_session and
\* GET /auth/session read the clock, then the row.
Arrive(r) ==
  /\ req[r].pc = "idle"
  /\ \E s \in 1..issued :
       req' = [req EXCEPT ![r] = [pc |-> "select", sid |-> s, now |-> clock,
                                  late |-> s \in removed]]
  /\ UNCHANGED <<clock, adminToken, rows, issued, ghosts>>

Grant(r) ==
  /\ req' = [req EXCEPT ![r] = Idle]
  /\ lastGrant' = [lastGrant EXCEPT ![req[r].sid] = IF rows[req[r].sid] # NoRow /\ req[r].now > @
                                              THEN req[r].now ELSE @]
  /\ barred' = (barred \/ req[r].late)

\* Mutation: the boundary itself is not due yet.
DueAfterBoundary(expiry, now) == now + Ttl > expiry + Refresh
\* A session is rolled forward once a refresh interval has passed since the last time.
DueForRefresh(expiry, now) == now + Ttl >= expiry + Refresh

Select(r) ==
  LET s == req[r].sid
  IN  /\ req[r].pc = "select"
      /\ \/ /\ rows[s].ns # adminToken
            /\ req' = [req EXCEPT ![r] = Idle]
            /\ UNCHANGED <<lastGrant, barred>>
         \/ /\ rows[s].ns = adminToken /\ rows[s].until <= req[r].now
            /\ req' = [req EXCEPT ![r].pc = "revoke"]
            /\ UNCHANGED <<lastGrant, barred>>
         \/ /\ rows[s].ns = adminToken /\ rows[s].until > req[r].now
            /\ DueForRefresh(rows[s].until, req[r].now)
            /\ req' = [req EXCEPT ![r].pc = "refresh"]
            /\ UNCHANGED <<lastGrant, barred>>
         \/ /\ rows[s].ns = adminToken /\ rows[s].until > req[r].now
            /\ ~DueForRefresh(rows[s].until, req[r].now)
            /\ Grant(r)
      /\ UNCHANGED <<clock, adminToken, rows, issued, removed>>

\* Mutation: the refresh writes the whole row.
RefreshWritesRow(r) ==
  /\ req[r].pc = "refresh"
  /\ rows' = [rows EXCEPT ![req[r].sid] = [ns |-> adminToken, until |-> req[r].now + Ttl]]
  /\ Grant(r)
  /\ UNCHANGED <<clock, adminToken, issued, removed>>

\* The UPDATE does nothing to a row that has gone meanwhile; the request that read it is
\* served all the same.
RefreshRow(r) ==
  /\ req[r].pc = "refresh"
  /\ rows' = IF rows[req[r].sid].ns = adminToken
             THEN [rows EXCEPT ![req[r].sid].until = req[r].now + Ttl] ELSE rows
  /\ Grant(r)
  /\ UNCHANGED <<clock, adminToken, issued, removed>>

\* The row that the request found expired is deleted, as it is by a logout.
RevokeRow(s) ==
  LET gone == {s} \cap RowsOf(rows, adminToken)
  IN  /\ rows' = Delete(rows, gone)
      /\ removed' = removed \cup gone
      /\ lastGrant' = [x \in Sids |-> IF x \in gone THEN 0 ELSE lastGrant[x]]

RevokeExpired(r) ==
  /\ req[r].pc = "revoke"
  /\ RevokeRow(req[r].sid)
  /\ req' = [req EXCEPT ![r] = Idle]
  /\ UNCHANGED <<clock, adminToken, issued, barred>>

Logout ==
  /\ \E s \in 1..issued : RevokeRow(s)
  /\ UNCHANGED <<clock, adminToken, issued, req, barred>>

\* A statement of the database fails: the request is refused, nothing is written.
RefuseRequest(r) ==
  /\ req[r].pc # "idle"
  /\ req' = [req EXCEPT ![r] = Idle]
  /\ UNCHANGED <<clock, adminToken, rows, issued, ghosts>>

\* The daemon restarts, with the same token file or with a new one.
ServerRestarts ==
  /\ req' = [r \in Requests |-> Idle]
  /\ adminToken' \in {n \in Namespaces : n >= adminToken}
  /\ UNCHANGED <<clock, rows, issued, ghosts>>

\* Time passes.  A validation takes less than a refresh interval.
ClockTicks ==
  /\ clock < MaxTime
  /\ \A r \in Requests : req[r].pc # "idle" => clock + 1 < req[r].now + Refresh
  /\ clock' = clock + 1
  /\ UNCHANGED <<adminToken, rows, issued, req, ghosts>>

SessionsNext ==
  \/ Login \/ Logout \/ ServerRestarts \/ ClockTicks
  \/ \E r \in Requests :
       Arrive(r) \/ Select(r) \/ RefreshRow(r) \/ RevokeExpired(r) \/ RefuseRequest(r)

SessionsSpec == SessionsInit /\ [][SessionsNext]_sessionsVars

-----------------------------------------------------------------------------
(* Properties *)

\* However logins, refreshes and expiries interleave, a token never has more than
\* MAX_SESSIONS rows (auth.rs, create_session: one eviction for each insert is enough).
SessionCap == \A n \in Namespaces : Cardinality(RowsOf(rows, n)) <= MaxSessions

\* Once a session is logged out, evicted or expired, no request that begins later is
\* served with it: not even a refresh under way brings it back.
RemovedStaysOut == ~barred

\* A session that is used lives on: its row, while it is there, lasts for a SESSION_TTL
\* less one refresh interval after the newest request that it admitted, although the
\* UPDATE of a slower request may come later and carry an older clock reading.
UseProlongs ==
  \A s \in Sids : rows[s] # NoRow => rows[s].until + Refresh > lastGrant[s] + Ttl

=============================================================================
