------------------------------ MODULE Bandwidth ------------------------------
(***************************************************************************)
(* The rate limit of a push job (jobs/push/limiter.rs): one token bucket   *)
(* that the job's parallel transfers share (step.rs calls throttle after   *)
(* every write).  The bucket may go into debt; whoever takes it there      *)
(* sleeps until his debt would be paid, while others may deepen it.        *)
(*                                                                         *)
(* A tick of the clock is half a second, and amounts count parts of a      *)
(* chunk; timers fire late by up to a tick.                                *)
(***************************************************************************)
EXTENDS Integers, FiniteSets, FiniteSetsExt

CONSTANTS
  Streams,  \* transfers at a time
  Rates,    \* bandwidth_limit per tick, as the operator may set it
  Chunk     \* the most that one write sends

\* parse_bytes_per_sec refuses a limit of nothing.
ASSUME BandwidthAssumption ==
  IsFiniteSet(Streams) /\ Rates \subseteq Nat \ {0} /\ Chunk \in Nat \ {0}

VARIABLES
  rate,
  idle,    \* ticks since the bucket was last looked at
  level,   \* what it held then
  turn,    \* a stream: write, account (written, not yet taken off the bucket), sleep
  amount,  \* what it has written
  wake,    \* ticks until its timer fires
  excess   \* ghost: the most, over all moments up to now, that was sent since beyond
           \* what the rate allows for the time since

bandwidthVars == <<rate, idle, level, turn, amount, wake, excess>>

\* RateLimiter::new: half a second of rate, or one chunk.
Burst == Max({rate, Chunk})

Debt == Cardinality(Streams) * Chunk
Ceil(a, b) == (a + b - 1) \div b

\* Past this the bucket is full whatever it held: the clock need not be told further.
FullAfter == Ceil(Burst + Debt, rate)

BandwidthTypeOK ==
  /\ rate \in Rates /\ idle \in 0..FullAfter /\ level \in (-Debt)..Burst
  /\ \A s \in Streams :
       /\ turn[s] \in {"write", "account", "sleep"}
       /\ amount[s] \in 0..Chunk /\ (amount[s] > 0) = (turn[s] = "account")
       /\ wake[s] \in 0..Ceil(Debt, rate) /\ (wake[s] > 0) = (turn[s] = "sleep")
  /\ excess \in Nat

BandwidthInit ==
  /\ rate \in Rates /\ idle = 0 /\ level = Burst
  /\ turn = [s \in Streams |-> "write"] /\ amount = [s \in Streams |-> 0]
  /\ wake = [s \in Streams |-> 0] /\ excess = 0

\* Mutation: an idle time banks all of its credit.
RefillAll(ticks) == level + ticks * rate
\* The credit of the time since, up to the burst.
Refill(ticks) == Min({level + ticks * rate, Burst})

PacedWrite(s) ==
  /\ turn[s] = "write"
  /\ \E n \in 1..Chunk : /\ amount' = [amount EXCEPT ![s] = n]
                         /\ excess' = excess + n
  /\ turn' = [turn EXCEPT ![s] = "account"]
  /\ UNCHANGED <<rate, idle, level, wake>>

Account(s) ==
  LET rest == Refill(idle) - amount[s]
  IN  /\ turn[s] = "account"
      /\ level' = rest /\ idle' = 0
      /\ amount' = [amount EXCEPT ![s] = 0]
      /\ wake' = [wake EXCEPT ![s] = IF rest < 0 THEN Ceil(-rest, rate) ELSE 0]
      /\ turn' = [turn EXCEPT ![s] = IF rest < 0 THEN "sleep" ELSE "write"]
      /\ UNCHANGED <<rate, excess>>

TimePasses ==
  /\ idle' = Min({idle + 1, FullAfter})
  /\ wake' = [s \in Streams |-> Max({wake[s] - 1, 0})]
  /\ turn' = [s \in Streams |-> IF wake[s] = 1 THEN "write" ELSE turn[s]]
  /\ excess' = Max({excess - rate, 0})
  /\ UNCHANGED <<rate, level, amount>>

BandwidthNext == TimePasses \/ \E s \in Streams : PacedWrite(s) \/ Account(s)

BandwidthSpec == BandwidthInit /\ [][BandwidthNext]_bandwidthVars

\* Over any stretch of time, however the streams interleave and whatever idle gap came
\* before it, they send no more together than the rate allows, the burst and one chunk
\* each (limiter.rs, "N parallel sends still sum to `rate`"); and no stream sleeps for
\* longer than a chunk of each takes, which is what a cancel may have to wait for, since
\* the sleep looks at no token.
RateHolds ==
  /\ excess <= Burst + Debt
  /\ \A s \in Streams : (wake[s] - 1) * rate < Debt

=============================================================================
