-------------------------- MODULE BandwidthLimiter --------------------------
(***************************************************************************)
(* The bandwidth limiter that the relays of a user share (limits.rs        *)
(* BandwidthLimiter): wait_for and wait_for_async, the token bucket behind *)
(* them, revocation, and a speed limit that is lifted and set again while  *)
(* relays wait.                                                            *)
(*                                                                         *)
(* The unit of time is the time the limit allows one byte, so a second is  *)
(* Rate units and the bucket gains one token a unit.                       *)
(***************************************************************************)
EXTENDS Naturals

CONSTANTS
  Relays,
  Rate,       \* bytes per second
  Sizes,      \* of the chunks the relays read
  FullBucket  \* no request looks further back than this

max(a, b) == IF a >= b THEN a ELSE b
min(a, b) == IF a <= b THEN a ELSE b

Capacity(n) == max(Rate, n)

ASSUME BucketAssumption ==
  /\ Rate \in Nat \ {0}
  /\ FullBucket \in Nat /\ Rate <= FullBucket
  /\ Sizes \subseteq Nat \ {0}
  /\ \A n \in Sizes : Capacity(n) <= FullBucket

VARIABLES
  tokens,     \* in the bucket
  elapsed,    \* since last_refill, up to FullBucket
  unlimited,  \* bytes_per_second is 0
  revoked,
  stage,      \* of a relay: "read", then in wait_for "try", "sleep", "granted"
  size,       \* the bytes it asks for
  sleep,      \* what is left of its sleep
  burst       \* granted beyond the rate, over the worst interval up to now

limiter_vars == <<tokens, elapsed, unlimited, revoked, stage, size, sleep, burst>>

-----------------------------------------------------------------------------
LimiterInit ==
  /\ tokens = 0
  /\ elapsed = 0
  /\ unlimited = FALSE
  /\ revoked = FALSE
  /\ stage = [r \in Relays |-> "read"]
  /\ size = [r \in Relays |-> 0]
  /\ sleep = [r \in Relays |-> 0]
  /\ burst = 0

Goto(r, label) == stage' = [stage EXCEPT ![r] = label]

wait_for(r, n) ==
  /\ stage[r] = "read"
  /\ Goto(r, "try")
  /\ size' = [size EXCEPT ![r] = n]
  /\ UNCHANGED <<tokens, elapsed, unlimited, revoked, sleep, burst>>

\* The loop sees the revocation: wait_for is false and the relay ends.
Refuse(r) ==
  /\ stage[r] = "try"
  /\ revoked
  /\ Goto(r, "end")
  /\ UNCHANGED <<tokens, elapsed, unlimited, revoked, size, sleep, burst>>

\* What the bucket holds once it is refilled for a request of n bytes.
Refilled(n) == min(tokens + elapsed, Capacity(n))

\* reserve_wait_duration grants the request, or empties the bucket and has
\* the relay sleep for what is missing.
reserve_wait_duration(r) ==
  LET n == size[r]
      missing == n - Refilled(n)
  IN  /\ stage[r] = "try"
      /\ ~ revoked
      /\ ~ unlimited
      /\ elapsed' = 0
      /\ \/ /\ Refilled(n) >= n
            /\ tokens' = Refilled(n) - n
            /\ burst' = burst + n
            /\ Goto(r, "granted")
            /\ UNCHANGED sleep
         \/ /\ Refilled(n) < n
            /\ tokens' = 0
            /\ sleep' = [sleep EXCEPT ![r] = missing]
            /\ Goto(r, "sleep")
            /\ UNCHANGED burst
      /\ UNCHANGED <<unlimited, revoked, size>>

\* Without a limit the bucket is left alone.
ReserveUnlimited(r) ==
  /\ stage[r] = "try"
  /\ ~ revoked
  /\ unlimited
  /\ Goto(r, "granted")
  /\ UNCHANGED <<tokens, elapsed, unlimited, revoked, size, sleep, burst>>

\* Mutant: who has slept for what was missing has paid.
WakeGranted(r) ==
  /\ stage[r] = "sleep"
  /\ sleep[r] = 0
  /\ Goto(r, "granted")
  /\ burst' = burst + size[r]
  /\ UNCHANGED <<tokens, elapsed, unlimited, revoked, size, sleep>>

\* Mutant: the revocation is looked at before the loop, not in it.
WakeReserves(r) ==
  /\ stage[r] = "sleep"
  /\ sleep[r] = 0
  /\ sleep' = [sleep EXCEPT ![r] = size[r]]
  /\ UNCHANGED <<tokens, elapsed, unlimited, revoked, stage, size, burst>>

\* The sleep is over and the loop starts again, with the whole request.
Wake(r) ==
  /\ stage[r] = "sleep"
  /\ sleep[r] = 0
  /\ Goto(r, "try")
  /\ UNCHANGED <<tokens, elapsed, unlimited, revoked, size, sleep, burst>>

\* wait_for looks at the revocation once more and returns.
Return(r) ==
  /\ stage[r] = "granted"
  /\ Goto(r, IF revoked THEN "end" ELSE "read")
  /\ UNCHANGED <<tokens, elapsed, unlimited, revoked, size, sleep, burst>>

\* Time passes. A relay may oversleep.
Tick ==
  /\ elapsed' = min(elapsed + 1, FullBucket)
  /\ sleep' = [r \in Relays |-> IF sleep[r] > 0 THEN sleep[r] - 1 ELSE 0]
  /\ burst' = IF burst > 0 THEN burst - 1 ELSE 0
  /\ UNCHANGED <<tokens, unlimited, revoked, stage, size>>

revoke ==
  /\ revoked' = TRUE
  /\ UNCHANGED <<tokens, elapsed, unlimited, stage, size, sleep, burst>>

set_unlimited ==
  /\ revoked' = FALSE
  /\ unlimited' = TRUE
  /\ UNCHANGED <<tokens, elapsed, stage, size, sleep, burst>>

set_bytes_per_second ==
  /\ revoked' = FALSE
  /\ unlimited' = FALSE
  /\ UNCHANGED <<tokens, elapsed, stage, size, sleep, burst>>

Waiting(r) ==
  \/ Refuse(r)
  \/ reserve_wait_duration(r)
  \/ ReserveUnlimited(r)
  \/ Wake(r)
  \/ Return(r)

LimiterNext ==
  \/ \E r \in Relays, n \in Sizes : wait_for(r, n)
  \/ \E r \in Relays : Waiting(r)
  \/ Tick
  \/ revoke
  \/ set_unlimited
  \/ set_bytes_per_second

LimiterSpec == LimiterInit /\ [][LimiterNext]_limiter_vars

\* Threads and tasks that can run do, and time goes on.
FairSpec ==
  /\ LimiterSpec
  /\ WF_limiter_vars(Tick)
  /\ \A r \in Relays : WF_limiter_vars(Waiting(r))

-----------------------------------------------------------------------------
\* The variables hold values of their types: the bucket never holds more than
\* burst_bytes and no sleep outlasts the time to fill it (limits.rs 936-983).
LimiterTypeOK ==
  /\ tokens \in 0..FullBucket
  /\ elapsed \in 0..FullBucket
  /\ unlimited \in BOOLEAN
  /\ revoked \in BOOLEAN
  /\ stage \in [Relays -> {"read", "try", "sleep", "granted", "end"}]
  /\ size \in [Relays -> Sizes \union {0}]
  /\ sleep \in [Relays -> 0..FullBucket]
  /\ burst \in Nat

\* Over any stretch of T units of time the relays of a user together are
\* granted at most T bytes and one full bucket, however many there are, in
\* whatever sizes they ask and however they oversleep. (burst is what was
\* granted beyond the rate since the stretch for which that is largest, so
\* its bound is the bound for every stretch.) limits.rs:961-982 has no
\* bound on the relays that share the bucket.
SpeedLimitHolds == burst <= FullBucket

\* A user that stays revoked has no relay left inside wait_for: a sleep is
\* finite and the loop looks at the revocation before it asks again, so a
\* relay that waits for bandwidth ends (limits.rs:934-942, 950-958).
RevokedWaitersEnd ==
  <>[]revoked => \A r \in Relays : <>[](stage[r] \in {"read", "end"})
=============================================================================
