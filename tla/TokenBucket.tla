---------------------------- MODULE TokenBucket ----------------------------
(***************************************************************************)
(* The endpoint rate limiter of packages/resilience/src/token-bucket.ts.   *)
(* The code's fractional tokens are counted in integer parts: a token is   *)
(* TokenUnit parts and a tick adds Refill parts.  The code refills lazily, *)
(* by the time since lastRefill and capped at capacity; refilling on every *)
(* tick gives the same amount at every read.                               *)
(***************************************************************************)
EXTENDS Ticks

CONSTANTS Capacity, Refill, TokenUnit, MaxHint

\* createTokenBucket throws unless capacity and rate are positive; a hint is
\* a Retry-After, which parseRetryAfterMs clamps to a maximum.
ASSUME BucketOptions == /\ Capacity \in Nat \ {0}
                        /\ Refill \in Nat \ {0}
                        /\ TokenUnit \in Nat \ {0}
                        /\ MaxHint \in Nat

VARIABLES
  tokens,      \* in parts
  pauseLeft    \* ticks until pausedUntil

bucketVars == <<tokens, pauseLeft>>

BucketTypeOK == tokens \in 0..Capacity /\ pauseLeft \in 0..MaxHint

BucketInit == tokens = Capacity /\ pauseLeft = 0

TokenAvailable == pauseLeft = 0 /\ tokens >= TokenUnit

\* tryAcquire() returning true.
TakeToken == TokenAvailable /\ tokens' = tokens - TokenUnit /\ UNCHANGED pauseLeft

\* ceil(n / Refill)
TicksToRefill(n) == (n + Refill - 1) \div Refill

MsUntilAvailable == IF pauseLeft > 0 THEN pauseLeft
                    ELSE IF tokens >= TokenUnit THEN 0
                    ELSE TicksToRefill(TokenUnit - tokens)

\* Mutant: the latest hint wins, even a shorter one.
PauseForLatest(ticks) == pauseLeft' = ticks /\ UNCHANGED tokens

\* pauseFor(): a pause is extended, never cut short.
PauseFor(ticks) == pauseLeft' = Greater(pauseLeft, ticks) /\ UNCHANGED tokens

\* Mutant: the refill forgets the burst capacity.
BucketTickUncapped == tokens' = tokens + Refill /\ pauseLeft' = Elapse(pauseLeft)

BucketTick == /\ tokens' = Lesser(Capacity, tokens + Refill)
              /\ pauseLeft' = Elapse(pauseLeft)
=============================================================================
