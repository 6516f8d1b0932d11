--------------------------- MODULE ResilientCall ---------------------------
(***************************************************************************)
(* The resilience pipeline of packages/resilience/src/pipeline.ts around   *)
(* one endpoint: the callers of createResilientCallable, each running the  *)
(* retry loop of executeWithRetry over runOnce, and sharing the endpoint's *)
(* circuit breaker, concurrency limiter and token bucket.                  *)
(*                                                                         *)
(* A step is the code a caller runs between two awaits:                    *)
(*   idle      no call under way                                           *)
(*   queued    awaiting concurrency.acquire() in the waiters queue         *)
(*   admitted  holds a slot, acquire() resolved                            *)
(*   bucket    asleep in rateLimit.acquire() ('wait' mode)                 *)
(*   granted   rateLimit.acquire() took a token, its promise resolved      *)
(*   running   fn() called, its promise or the timeout pending             *)
(*   backoff   asleep before the next attempt                              *)
(***************************************************************************)
EXTENDS CircuitBreaker, ConcurrencyLimiter, TokenBucket, FiniteSets

CONSTANTS
  Calls,          \* the callers of the endpoint
  MaxAttempts,    \* retry.maxAttempts
  BaseDelay,      \* retry.baseDelayMs, with factor 2
  MaxDelay,       \* retry.maxDelayMs
  CallTimeout,    \* timeoutMs, 0 when unset
  FailFast,       \* the callers with rateLimitMode 'fail-fast'
  BypassCircuit,  \* the callers with bypassCircuit
  NoRetry,        \* the callers with maxRetries 0
  MaxOrphans      \* bound: calls left running after a timeout that are counted

ASSUME CallOptions == /\ MaxAttempts \in Nat \ {0}
                      /\ BaseDelay \in Nat
                      /\ MaxDelay \in Nat
                      /\ CallTimeout \in Nat
                      /\ FailFast \cup BypassCircuit \cup NoRetry \subseteq Calls
                      /\ MaxOrphans \in Nat

VARIABLES
  pc,         \* where each caller is, see above
  attempt,    \* its 1-based attempt, 0 when idle
  timer,      \* ticks left of the one timer it may have: the bucket deadline,
              \* the call timeout or the backoff sleep
  orphans     \* calls of fn that timed out and have not settled yet

callVars == <<pc, attempt, timer, orphans>>

vars == <<circuitVars, limiterVars, bucketVars, callVars>>

Place == {"idle", "queued", "admitted", "bucket", "granted", "running", "backoff"}

\* The places between acquire() resolving and the finally that releases.
SlotPlaces == {"admitted", "bucket", "granted", "running"}

Holders == {c \in Calls : pc[c] \in SlotPlaces}

\* A classified error, by what the pipeline asks of it.  A hint of 0 acts as
\* an absent retryAfterMs.
ErrorClass == {"rate_limited", "transient", "fatal"}

Errors == [class : ErrorClass, hint : 0..MaxHint]

Transient == [class |-> "transient", hint |-> 0]

Fatal == [class |-> "fatal", hint |-> 0]

AttemptLimit(c) == IF c \in NoRetry THEN 1 ELSE MaxAttempts

ShouldRetry(c, n, err) == err.class # "fatal" /\ n < AttemptLimit(c)

\* nextDelayMs: exponential backoff with optional full jitter, raised to the
\* hint and cut at maxDelayMs.
NextDelays(n, hint) ==
  {Lesser(MaxDelay, Greater(b, hint)) : b \in 0..Lesser(MaxDelay, BaseDelay * 2^(n - 1))}

\* How executeWithRetry disposes of attempt n having thrown err: sleep, or
\* give up and reject.  moved is pc with everyone else's move made.
Dispose(c, n, err, moved) ==
  IF ShouldRetry(c, n, err)
  THEN /\ pc' = [moved EXCEPT ![c] = "backoff"]
       /\ attempt' = [attempt EXCEPT ![c] = n]
       /\ \E d \in NextDelays(n, err.hint) : timer' = [timer EXCEPT ![c] = d]
  ELSE /\ pc' = [moved EXCEPT ![c] = "idle"]
       /\ attempt' = [attempt EXCEPT ![c] = 0]
       /\ timer' = [timer EXCEPT ![c] = 0]

\* Mutant: release() forgets to call next().
NobodyResumed == pc

\* pc once the caller resumed by a release has its slot.
WithResumed == [c \in Calls |-> IF c \in Resumed THEN "admitted" ELSE pc[c]]

\* An attempt that holds a slot ends by throwing err.
ThrowHolding(c, err) == /\ ReleaseSlot
                        /\ Dispose(c, attempt[c], err, WithResumed)

-----------------------------------------------------------------------------
\* Steps 1 and 2 of runOnce: the circuit check and the synchronous part of
\* concurrency.acquire() run without an await between them.
CheckCircuit(c) == IF c \in BypassCircuit THEN UNCHANGED circuitVars ELSE CanPass

EnterLimiter(c, n) ==
  \/ /\ TakeSlot
     /\ pc' = [pc EXCEPT ![c] = "admitted"]
     /\ attempt' = [attempt EXCEPT ![c] = n]
     /\ timer' = [timer EXCEPT ![c] = 0]
  \/ /\ JoinQueue(c)
     /\ pc' = [pc EXCEPT ![c] = "queued"]
     /\ attempt' = [attempt EXCEPT ![c] = n]
     /\ timer' = [timer EXCEPT ![c] = 0]
  \/ /\ QueueFull
     /\ UNCHANGED limiterVars
     /\ Dispose(c, n, Transient, pc)

StartAttempt(c, n) ==
  /\ \/ CheckCircuit(c) /\ EnterLimiter(c, n)
     \/ /\ c \notin BypassCircuit
        /\ CannotPass
        /\ Dispose(c, n, Fatal, pc)
        /\ UNCHANGED limiterVars
  /\ UNCHANGED <<bucketVars, orphans>>

Invoke(c) == pc[c] = "idle" /\ StartAttempt(c, 1)

Retry(c) == pc[c] = "backoff" /\ timer[c] = 0 /\ StartAttempt(c, attempt[c] + 1)

\* Mutant: the local RATE_LIMITED is thrown before the try whose finally
\* releases the slot.
RateLimitFailFastLeaks(c) ==
  /\ pc[c] = "admitted" /\ c \in FailFast
  /\ \/ /\ TakeToken
        /\ pc' = [pc EXCEPT ![c] = "running"]
        /\ timer' = [timer EXCEPT ![c] = CallTimeout]
        /\ UNCHANGED <<limiterVars, attempt>>
     \/ /\ ~TokenAvailable
        /\ Dispose(c, attempt[c], [class |-> "rate_limited", hint |-> MsUntilAvailable], pc)
        /\ UNCHANGED <<bucketVars, limiterVars>>
  /\ UNCHANGED <<circuitVars, orphans>>

\* Step 3 in 'fail-fast' mode: a token and fn() at once, or a local
\* RATE_LIMITED, thrown outside the inner try: neither the circuit nor the
\* bucket hears of it.
RateLimitFailFast(c) ==
  /\ pc[c] = "admitted" /\ c \in FailFast
  /\ \/ /\ TakeToken
        /\ pc' = [pc EXCEPT ![c] = "running"]
        /\ timer' = [timer EXCEPT ![c] = CallTimeout]
        /\ UNCHANGED <<limiterVars, attempt>>
     \/ /\ ~TokenAvailable
        /\ ThrowHolding(c, [class |-> "rate_limited", hint |-> MsUntilAvailable])
        /\ UNCHANGED bucketVars
  /\ UNCHANGED <<circuitVars, orphans>>

\* Step 3 in 'wait' mode: acquire(timeoutMs) tries at once, then sleeps.
RateLimitWait(c) ==
  /\ pc[c] = "admitted" /\ c \notin FailFast
  /\ \/ /\ TakeToken
        /\ pc' = [pc EXCEPT ![c] = "granted"]
        /\ UNCHANGED timer
     \/ /\ ~TokenAvailable
        /\ pc' = [pc EXCEPT ![c] = "bucket"]
        /\ timer' = [timer EXCEPT ![c] = CallTimeout]
        /\ UNCHANGED bucketVars
  /\ UNCHANGED <<circuitVars, limiterVars, attempt, orphans>>

\* The sleep of acquire() ends when a token is due; a token someone else took
\* or a longer pause sends it back to sleep, which changes nothing.
BucketWake(c) == /\ pc[c] = "bucket"
                 /\ TakeToken
                 /\ pc' = [pc EXCEPT ![c] = "granted"]
                 /\ timer' = [timer EXCEPT ![c] = 0]
                 /\ UNCHANGED <<circuitVars, limiterVars, attempt, orphans>>

\* 'TokenBucket: acquire timed out' is a plain Error: normalizeError makes it
\* a PROVIDER_ERROR that is not retryable.
BucketTimeout(c) == /\ pc[c] = "bucket"
                    /\ CallTimeout > 0 /\ timer[c] = 0
                    /\ ~TokenAvailable
                    /\ ThrowHolding(c, Fatal)
                    /\ UNCHANGED <<circuitVars, bucketVars, orphans>>

\* Steps 4 and 5: fn() is called and raced with the timeout.
CallFn(c) == /\ pc[c] = "granted"
             /\ pc' = [pc EXCEPT ![c] = "running"]
             /\ timer' = [timer EXCEPT ![c] = CallTimeout]
             /\ UNCHANGED <<circuitVars, limiterVars, bucketVars, attempt, orphans>>

FnResolves(c) == /\ pc[c] = "running"
                 /\ RecordSuccess
                 /\ ReleaseSlot
                 /\ pc' = [WithResumed EXCEPT ![c] = "idle"]
                 /\ attempt' = [attempt EXCEPT ![c] = 0]
                 /\ timer' = [timer EXCEPT ![c] = 0]
                 /\ UNCHANGED <<bucketVars, orphans>>

\* Only a RATE_LIMITED error carries a cooldownHintMs.
CooldownHint(err) == IF err.class = "rate_limited" THEN err.hint ELSE 0

FnRejects(c, err) == /\ pc[c] = "running"
                     /\ PauseFor(CooldownHint(err))
                     /\ RecordFailure
                     /\ ThrowHolding(c, err)
                     /\ UNCHANGED orphans

\* The timeout wins the race; nothing stops fn, which is left running.
TimeoutFires(c) == /\ pc[c] = "running"
                   /\ CallTimeout > 0 /\ timer[c] = 0
                   /\ RecordFailure
                   /\ ThrowHolding(c, Transient)
                   /\ orphans' = Lesser(orphans + 1, MaxOrphans)
                   /\ UNCHANGED bucketVars

OrphanSettles == /\ orphans > 0
                 /\ orphans' = orphans - 1
                 /\ UNCHANGED <<circuitVars, limiterVars, bucketVars, pc, attempt, timer>>

-----------------------------------------------------------------------------
\* circuit.reset(), the administrator's.
ResetCircuit == Reset /\ UNCHANGED <<limiterVars, bucketVars, callVars>>

\* state() and snapshot(), which observers call at any time.
ObserveCircuit == MaybeTransitionToHalfOpen /\ UNCHANGED <<limiterVars, bucketVars, callVars>>

Tick == /\ CircuitTick
        /\ BucketTick
        /\ timer' = [c \in Calls |-> Elapse(timer[c])]
        /\ UNCHANGED <<limiterVars, pc, attempt, orphans>>

\* What caller c does without waiting for fn.
CallStep(c) == \/ Retry(c) \/ RateLimitFailFast(c) \/ RateLimitWait(c)
               \/ BucketWake(c) \/ BucketTimeout(c) \/ CallFn(c) \/ TimeoutFires(c)

FnSettles(c) == FnResolves(c) \/ \E err \in Errors : FnRejects(c, err)

Environment == OrphanSettles \/ ResetCircuit \/ ObserveCircuit

Init == /\ CircuitInit /\ LimiterInit /\ BucketInit
        /\ pc = [c \in Calls |-> "idle"]
        /\ attempt = [c \in Calls |-> 0]
        /\ timer = [c \in Calls |-> 0]
        /\ orphans = 0

Next == \/ \E c \in Calls : Invoke(c) \/ CallStep(c) \/ FnSettles(c)
        \/ Environment
        \/ Tick

Spec == Init /\ [][Next]_vars

\* Timers fire and promise continuations run; whether fn ever settles, and
\* whether anybody calls, is not the pipeline's to promise.
Fairness == WF_vars(Tick) /\ \A c \in Calls : WF_vars(CallStep(c))
-----------------------------------------------------------------------------
\* The types of the pipeline's state (circuit-breaker.ts, concurrency.ts,
\* token-bucket.ts and the locals of executeWithRetry).
TypeOK == /\ CircuitTypeOK
          /\ BucketTypeOK
          /\ active \in Nat
          /\ waiters \in Seq(Calls)
          /\ pc \in [Calls -> Place]
          /\ attempt \in [Calls -> 0..MaxAttempts]
          /\ timer \in [Calls -> Nat]
          /\ orphans \in 0..MaxOrphans

\* Every slot the limiter counts is held by exactly one attempt and every
\* attempt past acquire() holds one: no path through runOnce (shed, local rate
\* limit, bucket timeout, success, failure, call timeout) leaks a slot or
\* releases one twice, and the cap of concurrency.ts is kept.
SlotsAccounted == /\ active = Cardinality(Holders)
                  /\ active <= MaxConcurrent

\* The waiters queue holds exactly the callers suspended in acquire(), each
\* once, within maxQueue, and only while every slot is taken: a caller never
\* sleeps beside a free slot.
WaitersAccounted ==
  /\ \A c \in Calls : pc[c] = "queued" <=> \E i \in DOMAIN waiters : waiters[i] = c
  /\ \A i, j \in DOMAIN waiters : waiters[i] = waiters[j] => i = j
  /\ Len(waiters) <= MaxQueue
  /\ waiters # <<>> => active = MaxConcurrent

\* The two views circuit-breaker.ts keeps of an outage never disagree,
\* whatever order late outcomes, bypassing callers, observers and resets come
\* in: the circuit is closed exactly while fewer than failureThreshold
\* failures have been reported since the last success, and a cooldown is
\* running only while it is open.
BreakerConsistent == /\ circuit = "closed" <=> failures < FailureThreshold
                     /\ cooldownLeft > 0 => circuit = "open"

\* The limiter as the pipeline uses it is a first-come first-served semaphore:
\* nobody overtakes a waiter, a released slot goes to the oldest one.
Limiter == INSTANCE FifoSemaphore WITH
             Clients <- Calls, Slots <- MaxConcurrent, QueueLimit <- MaxQueue,
             holders <- Holders, queue <- waiters

LimiterIsFifoSemaphore == Limiter!SemSpec

\* With a call timeout every call settles, whatever fn does and however the
\* other callers compete for slots and tokens: executeWithRetry returns.
Settles == \A c \in Calls : pc[c] # "idle" ~> pc[c] = "idle"

\* An open circuit gets its chance to half-open: failures that late or
\* bypassing callers keep reporting to an open circuit do not prolong its
\* cooldown (recordFailure, open branch).
CooldownEnds == circuit = "open" ~> (circuit # "open" \/ cooldownLeft = 0)
=============================================================================
