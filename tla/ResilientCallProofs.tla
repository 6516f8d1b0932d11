------------------------ MODULE ResilientCallProofs ------------------------
(***************************************************************************)
(* Proofs about the resilience pipeline for any number of callers and any  *)
(* options: its state is well typed, the slots and the waiters queue of    *)
(* the limiter are accounted for, the circuit breaker is consistent, and   *)
(* the limiter implements the first-come first-served semaphore.  And over *)
(* time: for any capacity, rate and Retry-After hints, the endpoint's rate *)
(* is kept and no token is issued inside a Retry-After window.             *)
(***************************************************************************)
EXTENDS ResilienceAudit, FiniteSetTheorems, TLAPS

\* The counting part of the invariant.  The callers may be infinitely many,
\* so that the holders are finitely many is part of what is shown.
SlotInv == /\ active \in Nat
           /\ waiters \in Seq(Calls)
           /\ pc \in [Calls -> Place]
           /\ IsFiniteSet(Holders)
           /\ SlotsAccounted
           /\ WaitersAccounted

-----------------------------------------------------------------------------
\* The semaphore counts its holders with the cardinality of this module.
LEMMA SameCardinality == \A S : Limiter!Cardinality(S) = Cardinality(S)
  BY DEF Limiter!Cardinality, Cardinality

\* Ticks only count down, and the two bounds are natural numbers.
LEMMA TicksType ==
  ASSUME NEW a \in Nat, NEW b \in Nat
  PROVE  /\ Lesser(a, b) \in 0..a
         /\ Lesser(a, b) <= b
         /\ Greater(a, b) \in Nat
         /\ Greater(a, b) = a \/ Greater(a, b) = b
         /\ Elapse(a) \in 0..a
  BY DEF Lesser, Greater, Elapse

\* Every operation of the circuit breaker keeps it well typed and consistent.
LEMMA BreakerStep ==
  ASSUME CircuitTypeOK, BreakerConsistent,
         \/ UNCHANGED circuitVars
         \/ MaybeTransitionToHalfOpen
         \/ RecordSuccess
         \/ RecordFailure
         \/ Reset
         \/ CircuitTick
  PROVE  CircuitTypeOK' /\ BreakerConsistent'
  BY CircuitOptions
     DEF CircuitTypeOK, BreakerConsistent, CircuitState, circuitVars, CircuitNow,
         MaybeTransitionToHalfOpen, RecordSuccess, RecordFailure, Trips, Reset,
         CircuitTick, Lesser, Elapse

-----------------------------------------------------------------------------
\* A caller that moves between two places on the same side of the slot and of
\* the queue leaves the limiter as it is.
LEMMA SlotKept ==
  ASSUME SlotInv, NEW c \in Calls, NEW p \in Place,
         UNCHANGED limiterVars,
         pc' = [pc EXCEPT ![c] = p],
         pc[c] # "queued", p # "queued",
         pc[c] \in SlotPlaces <=> p \in SlotPlaces
  PROVE  SlotInv' /\ UNCHANGED <<Holders, waiters>>
<1>1. pc' \in [Calls -> Place] /\ \A d \in Calls : pc'[d] = IF d = c THEN p ELSE pc[d]
  BY DEF SlotInv
<1>2. Holders' = Holders
  BY <1>1 DEF Holders
<1>3. \A d \in Calls : pc'[d] = "queued" <=> pc[d] = "queued"
  BY <1>1
<1> QED
  BY <1>1, <1>2, <1>3 DEF SlotInv, SlotsAccounted, WaitersAccounted, limiterVars

\* A caller outside the limiter that finds a free slot enters the semaphore.
LEMMA SlotTaken ==
  ASSUME SlotInv, NEW c \in Calls,
         TakeSlot,
         pc' = [pc EXCEPT ![c] = "admitted"],
         pc[c] \in {"idle", "backoff"}
  PROVE  SlotInv' /\ Limiter!Enter(c)
<1>1. pc' \in [Calls -> Place] /\ \A d \in Calls : pc'[d] = IF d = c THEN "admitted" ELSE pc[d]
  BY DEF SlotInv, Place
<1>2. Holders' = Holders \cup {c} /\ c \notin Holders
  BY <1>1 DEF Holders, SlotPlaces
<1>3. IsFiniteSet(Holders') /\ Cardinality(Holders') = Cardinality(Holders) + 1
  BY <1>2, FS_AddElement DEF SlotInv
<1>4. \A d \in Calls : pc'[d] = "queued" <=> pc[d] = "queued"
  BY <1>1
<1>5. waiters = <<>> /\ waiters' = waiters
  BY LimiterOptions DEF SlotInv, WaitersAccounted, TakeSlot
<1>6. SlotsAccounted' /\ active' \in Nat
  BY <1>3, LimiterOptions DEF SlotInv, SlotsAccounted, TakeSlot
<1>7. WaitersAccounted'
  BY <1>4, <1>5 DEF SlotInv, WaitersAccounted
<1>8. c \notin {waiters[i] : i \in DOMAIN waiters}
  BY <1>5
<1>9. Limiter!Enter(c)
  BY <1>2, <1>5, <1>8, SameCardinality DEF Limiter!Enter, Limiter!Queued, SlotInv, SlotsAccounted, TakeSlot
<1> QED
  BY <1>1, <1>3, <1>5, <1>6, <1>7, <1>9 DEF SlotInv

\* A caller outside the limiter that finds no slot waits in the semaphore.
LEMMA SlotAwaited ==
  ASSUME SlotInv, NEW c \in Calls,
         JoinQueue(c),
         pc' = [pc EXCEPT ![c] = "queued"],
         pc[c] \in {"idle", "backoff"}
  PROVE  SlotInv' /\ Limiter!Wait(c)
<1>1. pc' \in [Calls -> Place] /\ \A d \in Calls : pc'[d] = IF d = c THEN "queued" ELSE pc[d]
  BY DEF SlotInv, Place
<1>2. Holders' = Holders /\ c \notin Holders
  BY <1>1 DEF Holders, SlotPlaces
<1>3. active = MaxConcurrent /\ active' = active
  BY LimiterOptions DEF SlotInv, SlotsAccounted, JoinQueue
<1>4. /\ waiters' \in Seq(Calls)
      /\ Len(waiters') = Len(waiters) + 1
      /\ waiters'[Len(waiters) + 1] = c
      /\ \A i \in 1..Len(waiters) : waiters'[i] = waiters[i]
  BY DEF JoinQueue, SlotInv
<1>5. \A i \in DOMAIN waiters : waiters[i] # c
  BY DEF SlotInv, WaitersAccounted
<1>6. WaitersAccounted'
  <2>1. ASSUME NEW d \in Calls
        PROVE  pc'[d] = "queued" <=> \E i \in DOMAIN waiters' : waiters'[i] = d
    <3>1. pc[d] = "queued" <=> \E i \in DOMAIN waiters : waiters[i] = d
      BY DEF SlotInv, WaitersAccounted
    <3>2. DOMAIN waiters = 1..Len(waiters) /\ DOMAIN waiters' = 1..(Len(waiters) + 1)
      BY <1>4 DEF SlotInv
    <3>3. Len(waiters) \in Nat
      BY DEF SlotInv
    <3>4. (\E i \in DOMAIN waiters' : waiters'[i] = d)
            <=> (d = c \/ \E i \in DOMAIN waiters : waiters[i] = d)
      BY <1>4, <3>2, <3>3
    <3> QED
      BY <1>1, <3>1, <3>4
  <2>2. ASSUME NEW i \in DOMAIN waiters', NEW j \in DOMAIN waiters', waiters'[i] = waiters'[j]
        PROVE  i = j
    <3>1. DOMAIN waiters = 1..Len(waiters) /\ DOMAIN waiters' = 1..(Len(waiters) + 1)
      BY <1>4 DEF SlotInv
    <3>2. Len(waiters) \in Nat
      BY DEF SlotInv
    <3>3. \A k, l \in DOMAIN waiters : waiters[k] = waiters[l] => k = l
      BY DEF SlotInv, WaitersAccounted
    <3> QED
      BY <1>4, <1>5, <2>2, <3>1, <3>2, <3>3
  <2>3. Len(waiters') <= MaxQueue
    BY <1>4, LimiterOptions DEF JoinQueue, SlotInv
  <2> QED
    BY <1>3, <2>1, <2>2, <2>3 DEF WaitersAccounted
<1>7. Limiter!Wait(c)
  BY <1>2, <1>3, <1>5, SameCardinality DEF Limiter!Wait, Limiter!Queued, SlotInv, SlotsAccounted, JoinQueue
<1> QED
  BY <1>1, <1>2, <1>3, <1>4, <1>6, <1>7 DEF SlotInv, SlotsAccounted

\* A caller that gives its slot up, to stop or to back off, leaves the
\* semaphore and the oldest waiter takes its place.
LEMMA SlotReleased ==
  ASSUME SlotInv, NEW c \in Calls, NEW p \in {"idle", "backoff"},
         ReleaseSlot,
         pc' = [WithResumed EXCEPT ![c] = p],
         pc[c] \in SlotPlaces
  PROVE  SlotInv' /\ Limiter!Leave(c)
<1>1. c \in Holders /\ IsFiniteSet(Holders)
  BY DEF Holders, SlotInv
<1>2. /\ IsFiniteSet(Holders \ {c})
      /\ Cardinality(Holders \ {c}) = Cardinality(Holders) - 1
  BY <1>1, FS_RemoveElement
<1>3. Cardinality(Holders) \in Nat /\ Cardinality(Holders \ {c}) \in Nat
  BY <1>1, <1>2, FS_CardinalityType
<1>4. CASE waiters = <<>>
  <2>1. pc' \in [Calls -> Place] /\ \A d \in Calls : pc'[d] = IF d = c THEN p ELSE pc[d]
    BY <1>4 DEF SlotInv, WithResumed, Resumed, Place
  <2>2. Holders' = Holders \ {c}
    BY <2>1 DEF Holders, SlotPlaces
  <2>3. active' = active - 1 /\ waiters' = waiters
    BY <1>4 DEF ReleaseSlot
  <2>4. SlotsAccounted' /\ active' \in Nat
    BY <1>2, <1>3, <2>2, <2>3, LimiterOptions DEF SlotInv, SlotsAccounted
  <2>5. \A d \in Calls : pc'[d] = "queued" <=> pc[d] = "queued"
    BY <2>1 DEF SlotPlaces
  <2>6. WaitersAccounted'
    BY <1>4, <2>3, <2>5 DEF SlotInv, WaitersAccounted
  <2>7. Limiter!Leave(c)
    BY <1>1, <1>4, <2>2, <2>3 DEF Limiter!Leave
  <2> QED
    BY <1>2, <2>1, <2>2, <2>3, <2>4, <2>6, <2>7 DEF SlotInv
<1>5. CASE waiters # <<>>
  <2> DEFINE h == Head(waiters)
  <2>1. /\ h \in Calls /\ h = waiters[1] /\ 1 \in DOMAIN waiters
        /\ waiters' = Tail(waiters) /\ waiters' \in Seq(Calls)
        /\ Len(waiters) \in Nat \ {0} /\ Len(waiters') = Len(waiters) - 1
        /\ DOMAIN waiters = 1..Len(waiters) /\ DOMAIN waiters' = 1..(Len(waiters) - 1)
        /\ \A i \in DOMAIN waiters' : waiters'[i] = waiters[i + 1]
    BY <1>5 DEF SlotInv, ReleaseSlot
  <2>2. pc[h] = "queued" /\ h # c /\ h \notin Holders
    BY <2>1 DEF SlotInv, WaitersAccounted, SlotPlaces, Holders
  <2>3. /\ pc' \in [Calls -> Place]
        /\ \A d \in Calls : pc'[d] = IF d = c THEN p ELSE IF d = h THEN "admitted" ELSE pc[d]
    BY <1>5, <2>2 DEF SlotInv, WithResumed, Resumed, Place
  <2>4. Holders' = (Holders \ {c}) \cup {h}
    BY <2>1, <2>2, <2>3 DEF Holders, SlotPlaces
  <2>5. IsFiniteSet(Holders') /\ Cardinality(Holders') = Cardinality(Holders)
    <3>1. h \notin Holders \ {c}
      BY <2>2
    <3>2. /\ IsFiniteSet((Holders \ {c}) \cup {h})
          /\ Cardinality((Holders \ {c}) \cup {h}) = Cardinality(Holders \ {c}) + 1
      BY <1>2, <3>1, FS_AddElement
    <3> QED
      BY <1>2, <1>3, <2>4, <3>2
  <2>6. active' = active
    BY <1>5 DEF ReleaseSlot
  <2>7. SlotsAccounted'
    BY <2>5, <2>6 DEF SlotInv, SlotsAccounted
  <2>8. WaitersAccounted'
    <3>1. ASSUME NEW d \in Calls
          PROVE  pc'[d] = "queued" <=> \E i \in DOMAIN waiters' : waiters'[i] = d
      <4>1. pc[d] = "queued" <=> \E i \in DOMAIN waiters : waiters[i] = d
        BY DEF SlotInv, WaitersAccounted
      <4>2. \A i \in DOMAIN waiters : waiters[i] = h => i = 1
        BY <2>1 DEF SlotInv, WaitersAccounted
      <4>3. (\E i \in DOMAIN waiters' : waiters'[i] = d)
              <=> (d # h /\ \E i \in DOMAIN waiters : waiters[i] = d)
        <5>1. ASSUME NEW i \in DOMAIN waiters', waiters'[i] = d
              PROVE  d # h /\ \E k \in DOMAIN waiters : waiters[k] = d
          <6>1. i + 1 \in DOMAIN waiters /\ i + 1 # 1 /\ waiters[i + 1] = d
            BY <2>1, <5>1
          <6> QED
            BY <4>2, <6>1
        <5>2. ASSUME NEW k \in DOMAIN waiters, waiters[k] = d, d # h
              PROVE  \E i \in DOMAIN waiters' : waiters'[i] = d
          <6>1. k # 1 /\ k - 1 \in DOMAIN waiters' /\ waiters'[k - 1] = d
            BY <2>1, <5>2
          <6> QED
            BY <6>1
        <5> QED
          BY <5>1, <5>2
      <4>4. pc'[d] = "queued" <=> (d # h /\ pc[d] = "queued")
        BY <2>3 DEF SlotPlaces
      <4> QED
        BY <4>1, <4>3, <4>4
    <3>2. ASSUME NEW i \in DOMAIN waiters', NEW j \in DOMAIN waiters', waiters'[i] = waiters'[j]
          PROVE  i = j
      BY <2>1, <3>2 DEF SlotInv, WaitersAccounted
    <3>3. Len(waiters') <= MaxQueue /\ active' = MaxConcurrent
      BY <1>5, <2>1, <2>6, LimiterOptions DEF SlotInv, WaitersAccounted
    <3> QED
      BY <3>1, <3>2, <3>3 DEF WaitersAccounted
  <2>9. Limiter!Leave(c)
    BY <1>1, <1>5, <2>1, <2>4 DEF Limiter!Leave
  <2> QED
    BY <2>1, <2>3, <2>5, <2>6, <2>7, <2>8, <2>9 DEF SlotInv
<1> QED
  BY <1>4, <1>5

-----------------------------------------------------------------------------
\* The locals of the retry loop: a caller that is under way counts its
\* attempts from 1, and one asleep has an attempt left.
LocalsOK == /\ attempt \in [Calls -> 0..MaxAttempts]
            /\ timer \in [Calls -> Nat]
            /\ \A c \in Calls : pc[c] # "idle" => attempt[c] >= 1
            /\ \A c \in Calls : pc[c] = "backoff" => attempt[c] < MaxAttempts

Inv == /\ SlotInv
       /\ LocalsOK
       /\ CircuitTypeOK
       /\ BreakerConsistent
       /\ BucketTypeOK
       /\ orphans \in 0..MaxOrphans

\* Backoff delays are natural numbers, whatever the exponential.
LEMMA DelaysType ==
  ASSUME NEW n, NEW hint \in Nat
  PROVE  NextDelays(n, hint) \subseteq Nat
<1>1. ASSUME NEW b \in Nat
      PROVE  Lesser(MaxDelay, Greater(b, hint)) \in Nat
  BY CallOptions DEF Lesser, Greater
<1> QED
  BY <1>1 DEF NextDelays

\* pc after nothing but callers resumed from the queue.
OnlyResumed(moved) ==
  /\ moved \in [Calls -> Place]
  /\ \A d \in Calls : \/ moved[d] = pc[d]
                      \/ pc[d] = "queued" /\ moved[d] = "admitted"

\* The caller of an attempt that threw is idle or backing off.
Thrown(c, moved) == \E p \in {"idle", "backoff"} : pc' = [moved EXCEPT ![c] = p]

\* A thrown attempt leaves its caller idle or backing off, with an attempt
\* left in the second case.
LEMMA Disposed ==
  ASSUME LocalsOK, NEW c \in Calls, NEW n \in 1..MaxAttempts,
         NEW err \in [class : ErrorClass, hint : Nat],
         NEW moved, OnlyResumed(moved),
         Dispose(c, n, err, moved)
  PROVE  LocalsOK' /\ Thrown(c, moved)
<1>1. CASE ShouldRetry(c, n, err)
  <2>1. PICK d \in NextDelays(n, err.hint) : timer' = [timer EXCEPT ![c] = d]
    BY <1>1 DEF Dispose
  <2>2. d \in Nat
    BY <2>1, DelaysType
  <2>3. n < MaxAttempts
    BY <1>1, CallOptions DEF ShouldRetry, AttemptLimit
  <2>4. pc' = [moved EXCEPT ![c] = "backoff"] /\ attempt' = [attempt EXCEPT ![c] = n]
    BY <1>1 DEF Dispose
  <2> QED
    BY <2>1, <2>2, <2>3, <2>4, CallOptions DEF LocalsOK, OnlyResumed, Thrown
<1>2. CASE ~ShouldRetry(c, n, err)
  <2>1. /\ pc' = [moved EXCEPT ![c] = "idle"]
        /\ attempt' = [attempt EXCEPT ![c] = 0]
        /\ timer' = [timer EXCEPT ![c] = 0]
    BY <1>2 DEF Dispose
  <2> QED
    BY <2>1, CallOptions DEF LocalsOK, OnlyResumed, Thrown
<1> QED
  BY <1>1, <1>2

\* Every exit of runOnce that holds a slot gives it up.
LEMMA ThrownHolding ==
  ASSUME SlotInv, LocalsOK, NEW c \in Calls,
         NEW err \in [class : ErrorClass, hint : Nat],
         pc[c] \in SlotPlaces, ThrowHolding(c, err)
  PROVE  SlotInv' /\ LocalsOK' /\ Limiter!Leave(c)
<1>1. WithResumed \in [Calls -> Place]
  BY DEF WithResumed, SlotInv, Place
<1>2. \A d \in Calls : \/ WithResumed[d] = pc[d]
                       \/ pc[d] = "queued" /\ WithResumed[d] = "admitted"
  <2>1. ASSUME NEW d \in Calls, d \in Resumed
        PROVE  pc[d] = "queued"
    <3>1. waiters # <<>> /\ d = Head(waiters)
      BY <2>1 DEF Resumed
    <3>2. 1 \in DOMAIN waiters /\ d = waiters[1]
      BY <3>1 DEF SlotInv
    <3> QED
      BY <3>2 DEF SlotInv, WaitersAccounted
  <2> QED
    BY <2>1 DEF WithResumed
<1> OnlyResumed(WithResumed)
  BY <1>1, <1>2 DEF OnlyResumed
<1>3. attempt[c] \in 1..MaxAttempts
  BY CallOptions DEF LocalsOK, SlotPlaces
<1>4. LocalsOK' /\ Thrown(c, WithResumed)
  <2>1. Dispose(c, attempt[c], err, WithResumed)
    BY DEF ThrowHolding
  <2> QED
    BY <1>3, <2>1, Disposed
<1>5. SlotInv' /\ Limiter!Leave(c)
  BY <1>4, SlotReleased DEF ThrowHolding, Thrown
<1> QED
  BY <1>4, <1>5

\* A caller that keeps its slot, or stays out of the limiter, keeps its
\* attempt.
LEMMA Moved ==
  ASSUME SlotInv, LocalsOK, NEW c \in Calls, NEW p \in SlotPlaces, NEW t \in Nat,
         pc[c] \in SlotPlaces,
         UNCHANGED <<limiterVars, attempt>>,
         pc' = [pc EXCEPT ![c] = p],
         timer' = [timer EXCEPT ![c] = t]
  PROVE  SlotInv' /\ LocalsOK' /\ UNCHANGED <<Holders, waiters>>
<1>1. p \in Place /\ p \notin {"queued", "idle", "backoff"}
  BY DEF SlotPlaces, Place
<1>2. pc[c] \notin {"queued", "idle", "backoff"}
  BY DEF SlotPlaces
<1>3. SlotInv' /\ UNCHANGED <<Holders, waiters>>
  BY <1>1, <1>2, SlotKept
<1>4. LocalsOK'
  BY <1>1, <1>2 DEF LocalsOK, SlotInv
<1> QED
  BY <1>3, <1>4

\* The circuit check and the limiter, at the start of every attempt.
LEMMA AttemptStarted ==
  ASSUME Inv, NEW c \in Calls, NEW n \in 1..MaxAttempts,
         pc[c] \in {"idle", "backoff"}, StartAttempt(c, n)
  PROVE  Inv' /\ [Limiter!SemNext]_<<Holders, waiters>>
<1> USE DEF Inv
<1>1. UNCHANGED bucketVars /\ orphans' = orphans
  BY DEF StartAttempt
<1>2. CircuitTypeOK' /\ BreakerConsistent'
  <2>1. UNCHANGED circuitVars \/ MaybeTransitionToHalfOpen
    BY DEF StartAttempt, CheckCircuit, CanPass, CannotPass
  <2> QED
    BY <2>1, BreakerStep
<1>3. SlotInv' /\ LocalsOK' /\ [Limiter!SemNext]_<<Holders, waiters>>
  <2>1. CASE /\ TakeSlot
             /\ pc' = [pc EXCEPT ![c] = "admitted"]
             /\ attempt' = [attempt EXCEPT ![c] = n]
             /\ timer' = [timer EXCEPT ![c] = 0]
    <3>1. SlotInv' /\ Limiter!Enter(c)
      BY <2>1, SlotTaken
    <3>2. LocalsOK'
      BY <2>1, CallOptions DEF LocalsOK, SlotInv
    <3> QED
      BY <3>1, <3>2 DEF Limiter!SemNext
  <2>2. CASE /\ JoinQueue(c)
             /\ pc' = [pc EXCEPT ![c] = "queued"]
             /\ attempt' = [attempt EXCEPT ![c] = n]
             /\ timer' = [timer EXCEPT ![c] = 0]
    <3>1. SlotInv' /\ Limiter!Wait(c)
      BY <2>2, SlotAwaited
    <3>2. LocalsOK'
      BY <2>2, CallOptions DEF LocalsOK, SlotInv
    <3> QED
      BY <3>1, <3>2 DEF Limiter!SemNext
  <2>3. ASSUME NEW err \in [class : ErrorClass, hint : Nat],
               UNCHANGED limiterVars, Dispose(c, n, err, pc)
        PROVE  SlotInv' /\ LocalsOK' /\ UNCHANGED <<Holders, waiters>>
    <3>1. OnlyResumed(pc)
      BY DEF OnlyResumed, SlotInv
    <3>2. LocalsOK' /\ Thrown(c, pc)
      BY <2>3, <3>1, Disposed
    <3>3. PICK p \in {"idle", "backoff"} : pc' = [pc EXCEPT ![c] = p]
      BY <3>2 DEF Thrown
    <3>4. p \in Place /\ p # "queued" /\ (pc[c] \in SlotPlaces <=> p \in SlotPlaces)
      BY <3>3 DEF Place, SlotPlaces
    <3>5. SlotInv' /\ UNCHANGED <<Holders, waiters>>
      BY <2>3, <3>3, <3>4, SlotKept
    <3> QED
      BY <3>2, <3>5
  <2>4. Transient \in [class : ErrorClass, hint : Nat] /\ Fatal \in [class : ErrorClass, hint : Nat]
    BY DEF Transient, Fatal, ErrorClass
  <2>5. CASE EnterLimiter(c, n)
    BY <2>1, <2>2, <2>3, <2>4, <2>5 DEF EnterLimiter
  <2>6. CASE UNCHANGED limiterVars /\ Dispose(c, n, Fatal, pc)
    BY <2>3, <2>4, <2>6
  <2> QED
    BY <2>5, <2>6 DEF StartAttempt
<1> QED
  BY <1>1, <1>2, <1>3 DEF BucketTypeOK, bucketVars

\* What is left of a step once the limiter and the locals are settled.
LEMMA Rest ==
  ASSUME Inv, SlotInv', LocalsOK',
         \/ UNCHANGED circuitVars
         \/ RecordSuccess
         \/ RecordFailure,
         \/ UNCHANGED bucketVars
         \/ TakeToken
         \/ \E h \in 0..MaxHint : PauseFor(h),
         \/ orphans' = orphans
         \/ orphans' = Lesser(orphans + 1, MaxOrphans)
  PROVE  Inv'
<1>1. CircuitTypeOK' /\ BreakerConsistent'
  BY BreakerStep DEF Inv
<1>2. BucketTypeOK'
  BY BucketOptions
     DEF Inv, BucketTypeOK, bucketVars, TakeToken, TokenAvailable, PauseFor, Greater
<1>3. orphans' \in 0..MaxOrphans
  BY CallOptions DEF Inv, Lesser
<1> QED
  BY <1>1, <1>2, <1>3 DEF Inv

\* Every step of the pipeline preserves the invariant and maps to a step of
\* the semaphore, or to none.
LEMMA StepPreserves ==
  ASSUME Inv, [Next]_vars
  PROVE  Inv' /\ [Limiter!SemNext]_<<Holders, waiters>>
<1> USE DEF Inv
<1> DEFINE Sem == [Limiter!SemNext]_<<Holders, waiters>>
<1>1. ASSUME NEW c \in Calls, Invoke(c)
      PROVE  Inv' /\ Sem
  <2>1. 1 \in 1..MaxAttempts
    BY CallOptions
  <2> QED
    BY <1>1, <2>1, AttemptStarted DEF Invoke
<1>2. ASSUME NEW c \in Calls, Retry(c)
      PROVE  Inv' /\ Sem
  <2>1. attempt[c] + 1 \in 1..MaxAttempts
    BY <1>2, CallOptions DEF Retry, LocalsOK
  <2> QED
    BY <1>2, <2>1, AttemptStarted DEF Retry
<1>3. ASSUME NEW c \in Calls, RateLimitFailFast(c)
      PROVE  Inv' /\ Sem
  <2>1. pc[c] \in SlotPlaces /\ "running" \in SlotPlaces
    BY <1>3 DEF RateLimitFailFast, SlotPlaces
  <2>2. CASE /\ TakeToken
             /\ pc' = [pc EXCEPT ![c] = "running"]
             /\ timer' = [timer EXCEPT ![c] = CallTimeout]
             /\ UNCHANGED <<limiterVars, attempt>>
    <3>1. SlotInv' /\ LocalsOK' /\ UNCHANGED <<Holders, waiters>>
      BY <2>1, <2>2, Moved, CallOptions
    <3> QED
      BY <1>3, <2>2, <3>1, Rest DEF RateLimitFailFast
  <2>3. CASE /\ ThrowHolding(c, [class |-> "rate_limited", hint |-> MsUntilAvailable])
             /\ UNCHANGED bucketVars
    <3>1. MsUntilAvailable \in Nat
      BY BucketOptions DEF MsUntilAvailable, TicksToRefill, BucketTypeOK
    <3>2. [class |-> "rate_limited", hint |-> MsUntilAvailable] \in [class : ErrorClass, hint : Nat]
      BY <3>1 DEF ErrorClass
    <3>3. SlotInv' /\ LocalsOK' /\ Limiter!Leave(c)
      BY <2>1, <2>3, <3>2, ThrownHolding
    <3> QED
      BY <1>3, <2>3, <3>3, Rest DEF RateLimitFailFast, Limiter!SemNext
  <2> QED
    BY <1>3, <2>2, <2>3 DEF RateLimitFailFast
<1>4. ASSUME NEW c \in Calls, RateLimitWait(c)
      PROVE  Inv' /\ Sem
  <2>1. pc[c] \in SlotPlaces /\ "granted" \in SlotPlaces /\ "bucket" \in SlotPlaces
    BY <1>4 DEF RateLimitWait, SlotPlaces
  <2>2. timer' = [timer EXCEPT ![c] = timer[c]] \/ timer' = [timer EXCEPT ![c] = CallTimeout]
    BY <1>4 DEF RateLimitWait, LocalsOK
  <2>3. timer[c] \in Nat /\ CallTimeout \in Nat
    BY CallOptions DEF LocalsOK
  <2>4. SlotInv' /\ LocalsOK' /\ UNCHANGED <<Holders, waiters>>
    BY <1>4, <2>1, <2>2, <2>3, Moved DEF RateLimitWait
  <2> QED
    BY <1>4, <2>4, Rest DEF RateLimitWait
<1>5. ASSUME NEW c \in Calls, BucketWake(c)
      PROVE  Inv' /\ Sem
  <2>1. pc[c] \in SlotPlaces /\ "granted" \in SlotPlaces
    BY <1>5 DEF BucketWake, SlotPlaces
  <2>2. SlotInv' /\ LocalsOK' /\ UNCHANGED <<Holders, waiters>>
    BY <1>5, <2>1, Moved DEF BucketWake
  <2> QED
    BY <1>5, <2>2, Rest DEF BucketWake
<1>6. ASSUME NEW c \in Calls, BucketTimeout(c)
      PROVE  Inv' /\ Sem
  <2>1. pc[c] \in SlotPlaces /\ Fatal \in [class : ErrorClass, hint : Nat]
    BY <1>6 DEF BucketTimeout, SlotPlaces, Fatal, ErrorClass
  <2>2. SlotInv' /\ LocalsOK' /\ Limiter!Leave(c)
    BY <1>6, <2>1, ThrownHolding DEF BucketTimeout
  <2> QED
    BY <1>6, <2>2, Rest DEF BucketTimeout, Limiter!SemNext
<1>7. ASSUME NEW c \in Calls, CallFn(c)
      PROVE  Inv' /\ Sem
  <2>1. pc[c] \in SlotPlaces /\ "running" \in SlotPlaces
    BY <1>7 DEF CallFn, SlotPlaces
  <2>2. SlotInv' /\ LocalsOK' /\ UNCHANGED <<Holders, waiters>>
    BY <1>7, <2>1, Moved, CallOptions DEF CallFn
  <2> QED
    BY <1>7, <2>2, Rest DEF CallFn
<1>8. ASSUME NEW c \in Calls, FnResolves(c)
      PROVE  Inv' /\ Sem
  <2>1. pc[c] \in SlotPlaces
    BY <1>8 DEF FnResolves, SlotPlaces
  <2>2. SlotInv' /\ Limiter!Leave(c)
    BY <1>8, <2>1, SlotReleased DEF FnResolves
  <2>3. LocalsOK'
    <3>1. \A d \in Calls : d \in Resumed => pc[d] = "queued"
      <4>1. ASSUME NEW d \in Calls, d \in Resumed
            PROVE  1 \in DOMAIN waiters /\ d = waiters[1]
        BY <4>1 DEF Resumed, SlotInv
      <4> QED
        BY <4>1 DEF SlotInv, WaitersAccounted
    <3>2. \A d \in Calls : pc'[d] = IF d = c THEN "idle" ELSE IF d \in Resumed THEN "admitted" ELSE pc[d]
      BY <1>8 DEF FnResolves, WithResumed
    <3> QED
      BY <1>8, <3>1, <3>2, CallOptions DEF FnResolves, LocalsOK
  <2> QED
    BY <1>8, <2>2, <2>3, Rest DEF FnResolves, Limiter!SemNext
<1>9. ASSUME NEW c \in Calls, NEW err \in Errors, FnRejects(c, err)
      PROVE  Inv' /\ Sem
  <2>1. pc[c] \in SlotPlaces /\ err \in [class : ErrorClass, hint : Nat]
    BY <1>9, BucketOptions DEF FnRejects, SlotPlaces, Errors
  <2>2. CooldownHint(err) \in 0..MaxHint
    BY BucketOptions DEF CooldownHint, Errors
  <2>3. SlotInv' /\ LocalsOK' /\ Limiter!Leave(c)
    BY <1>9, <2>1, ThrownHolding DEF FnRejects
  <2> QED
    BY <1>9, <2>2, <2>3, Rest DEF FnRejects, Limiter!SemNext
<1>10. ASSUME NEW c \in Calls, TimeoutFires(c)
       PROVE  Inv' /\ Sem
  <2>1. pc[c] \in SlotPlaces /\ Transient \in [class : ErrorClass, hint : Nat]
    BY <1>10 DEF TimeoutFires, SlotPlaces, Transient, ErrorClass
  <2>2. SlotInv' /\ LocalsOK' /\ Limiter!Leave(c)
    BY <1>10, <2>1, ThrownHolding DEF TimeoutFires
  <2> QED
    BY <1>10, <2>2, Rest DEF TimeoutFires, Limiter!SemNext
<1>11. ASSUME UNCHANGED <<limiterVars, pc>>
       PROVE  SlotInv' /\ UNCHANGED <<Holders, waiters>>
  BY <1>11 DEF SlotInv, SlotsAccounted, WaitersAccounted, Holders, limiterVars
<1>12. CASE Environment
  <2>1. SlotInv' /\ UNCHANGED <<Holders, waiters>>
    BY <1>11, <1>12 DEF Environment, OrphanSettles, ResetCircuit, ObserveCircuit, callVars
  <2>2. LocalsOK' /\ BucketTypeOK' /\ orphans' \in 0..MaxOrphans
    BY <1>12, CallOptions
       DEF Environment, OrphanSettles, ResetCircuit, ObserveCircuit, callVars, bucketVars,
           LocalsOK, BucketTypeOK
  <2>3. CircuitTypeOK' /\ BreakerConsistent'
    <3>1. UNCHANGED circuitVars \/ Reset \/ MaybeTransitionToHalfOpen
      BY <1>12 DEF Environment, OrphanSettles, ResetCircuit, ObserveCircuit
    <3> QED
      BY <3>1, BreakerStep
  <2> QED
    BY <2>1, <2>2, <2>3
<1>13. CASE Tick
  <2>1. SlotInv' /\ UNCHANGED <<Holders, waiters>>
    BY <1>11, <1>13 DEF Tick
  <2>2. \A c \in Calls : Elapse(timer[c]) \in Nat
    BY DEF LocalsOK, Elapse
  <2>3. LocalsOK' /\ orphans' \in 0..MaxOrphans
    BY <1>13, <2>2 DEF Tick, LocalsOK
  <2>4. BucketTypeOK'
    BY <1>13, BucketOptions DEF Tick, BucketTick, BucketTypeOK, Lesser, Elapse
  <2>5. CircuitTypeOK' /\ BreakerConsistent'
    BY <1>13, BreakerStep DEF Tick
  <2> QED
    BY <2>1, <2>3, <2>4, <2>5
<1>14. CASE UNCHANGED vars
  <2>1. SlotInv' /\ UNCHANGED <<Holders, waiters>>
    BY <1>11, <1>14 DEF vars, callVars
  <2>2. LocalsOK' /\ BucketTypeOK' /\ orphans' \in 0..MaxOrphans
    BY <1>14 DEF vars, callVars, bucketVars, LocalsOK, BucketTypeOK
  <2>3. CircuitTypeOK' /\ BreakerConsistent'
    BY <1>14, BreakerStep DEF vars
  <2> QED
    BY <2>1, <2>2, <2>3
<1> QED
  BY <1>1, <1>2, <1>3, <1>4, <1>5, <1>6, <1>7, <1>8, <1>9, <1>10, <1>12, <1>13, <1>14
     DEF Next, CallStep, FnSettles

\* The idle pipeline satisfies the invariant.
LEMMA InitInv == Init => Inv /\ Limiter!SemInit
<1> SUFFICES ASSUME Init PROVE Inv /\ Limiter!SemInit
  OBVIOUS
<1>1. Holders = {}
  BY DEF Init, Holders, SlotPlaces
<1>2. IsFiniteSet(Holders) /\ Cardinality(Holders) = 0
  BY <1>1, FS_EmptySet
<1>3. SlotInv
  BY <1>2, LimiterOptions DEF Init, LimiterInit, SlotInv, SlotsAccounted, WaitersAccounted, Place
<1>4. LocalsOK /\ orphans \in 0..MaxOrphans
  BY CallOptions DEF Init, LocalsOK
<1>5. CircuitTypeOK /\ BreakerConsistent /\ BucketTypeOK
  BY CircuitOptions, BucketOptions
     DEF Init, CircuitInit, BucketInit, CircuitTypeOK, CircuitState, BreakerConsistent, BucketTypeOK
<1> QED
  BY <1>1, <1>3, <1>4, <1>5 DEF Inv, Limiter!SemInit, Init, LimiterInit

\* The inductive invariant holds throughout.
LEMMA Invariant == Spec => []Inv
<1>1. Inv /\ [Next]_vars => Inv'
  BY StepPreserves
<1> QED
  BY <1>1, InitInv, PTL DEF Spec

-----------------------------------------------------------------------------
\* The state of the pipeline is always well typed.
THEOREM TypeCorrect == Spec => []TypeOK
<1>1. Inv => TypeOK
  BY DEF Inv, SlotInv, LocalsOK, TypeOK
<1> QED
  BY <1>1, Invariant, PTL

\* Whatever runOnce does with it, no slot is leaked or released twice, and the
\* cap is kept.
THEOREM SlotsSafe == Spec => []SlotsAccounted
<1>1. Inv => SlotsAccounted
  BY DEF Inv, SlotInv
<1> QED
  BY <1>1, Invariant, PTL

\* The waiters queue and the suspended callers agree, and a caller waits only
\* while every slot is taken.
THEOREM WaitersSafe == Spec => []WaitersAccounted
<1>1. Inv => WaitersAccounted
  BY DEF Inv, SlotInv
<1> QED
  BY <1>1, Invariant, PTL

\* The circuit's state, failure count and cooldown always agree.
THEOREM BreakerSafe == Spec => []BreakerConsistent
<1>1. Inv => BreakerConsistent
  BY DEF Inv
<1> QED
  BY <1>1, Invariant, PTL

\* The limiter of the pipeline implements the first-come first-served
\* semaphore for any number of callers, slots and waiters.
THEOREM LimiterRefines == Spec => LimiterIsFifoSemaphore
<1>1. Inv /\ [Next]_vars => [Limiter!SemNext]_(Limiter!semVars)
  BY StepPreserves DEF Limiter!semVars
<1> QED
  BY <1>1, InitInv, Invariant, PTL DEF Spec, LimiterIsFifoSemaphore, Limiter!SemSpec

-----------------------------------------------------------------------------
(* The token bucket over time. *)

\* What has been granted and not yet drained, with what the bucket still has
\* to give, never exceeds the burst capacity; the bucket's own pause covers
\* every window the upstream has asked for.
RateInv == surge \in Nat /\ surge + tokens <= Capacity

WindowInv == window \in Nat /\ window <= pauseLeft

AuditInv == Inv /\ RateInv /\ WindowInv

-----------------------------------------------------------------------------
\* Who has just thrown does not get a token, and neither does the waiter that
\* inherits its slot.
LEMMA DisposedGetsNone ==
  ASSUME Inv, NEW c \in Calls, NEW n, NEW err, NEW moved \in {pc, WithResumed},
         Dispose(c, n, err, moved)
  PROVE  \A d \in Calls : ~Grants(d)
<1>1. moved \in [Calls -> Place] /\ \A d \in Calls : moved[d] \in {pc[d], "admitted"}
  BY DEF Inv, SlotInv, WithResumed, Place
<1>2. PICK p \in {"idle", "backoff"} : pc' = [moved EXCEPT ![c] = p]
  BY DEF Dispose
<1>3. \A d \in Calls : pc'[d] \in {p, pc[d], "admitted"}
  BY <1>1, <1>2
<1> QED
  BY <1>3 DEF Grants

\* A step in which one caller moves, and not into the bucket's grant, issues
\* no token.
LEMMA MoveGetsNone ==
  ASSUME Inv, NEW c \in Calls, NEW p, pc' = [pc EXCEPT ![c] = p],
         p \notin {"granted", "running"} \/ pc[c] \notin {"admitted", "bucket"}
  PROVE  \A d \in Calls : ~Grants(d)
<1>1. \A d \in Calls : pc'[d] = IF d = c THEN p ELSE pc[d]
  BY DEF Inv, SlotInv
<1> QED
  BY <1>1 DEF Grants

\* A caller that starts an attempt is at most given a slot.
LEMMA StartGetsNone ==
  ASSUME Inv, NEW c \in Calls, NEW n, StartAttempt(c, n)
  PROVE  UNCHANGED bucketVars /\ \A d \in Calls : ~Grants(d)
<1>1. UNCHANGED bucketVars
  BY DEF StartAttempt
<1>2. ASSUME NEW p \in {"admitted", "queued"}, pc' = [pc EXCEPT ![c] = p]
      PROVE  \A d \in Calls : ~Grants(d)
  BY <1>2, MoveGetsNone
<1>3. ASSUME NEW err, Dispose(c, n, err, pc)
      PROVE  \A d \in Calls : ~Grants(d)
  BY <1>3, DisposedGetsNone
<1> QED
  BY <1>1, <1>2, <1>3 DEF StartAttempt, EnterLimiter

\* Of the steps of the callers, those that let somebody pass the rate limit
\* take a token out of the bucket; the others leave its tokens alone, and
\* only a rejection touches its pause.
LEMMA GrantsTakeTokens ==
  ASSUME Inv, NEW c \in Calls, Invoke(c) \/ CallStep(c) \/ FnResolves(c)
  PROVE  TakeToken \/ (UNCHANGED bucketVars /\ \A d \in Calls : ~Grants(d))
<1>1. CASE Invoke(c)
  BY <1>1, StartGetsNone DEF Invoke
<1>2. CASE Retry(c)
  BY <1>2, StartGetsNone DEF Retry
<1>3. CASE RateLimitFailFast(c)
  BY <1>3, DisposedGetsNone DEF RateLimitFailFast, ThrowHolding
<1>4. CASE RateLimitWait(c)
  BY <1>4, MoveGetsNone DEF RateLimitWait
<1>5. CASE BucketWake(c)
  BY <1>5 DEF BucketWake
<1>6. CASE BucketTimeout(c)
  BY <1>6, DisposedGetsNone DEF BucketTimeout, ThrowHolding
<1>7. CASE CallFn(c)
  BY <1>7, MoveGetsNone DEF CallFn
<1>8. CASE TimeoutFires(c)
  BY <1>8, DisposedGetsNone DEF TimeoutFires, ThrowHolding
<1>9. CASE FnResolves(c)
  <2>1. \A d \in Calls : pc'[d] \in {"idle", "admitted", pc[d]}
    BY <1>9 DEF FnResolves, WithResumed
  <2> QED
    BY <1>9, <2>1 DEF FnResolves, Grants
<1> QED
  BY <1>1, <1>2, <1>3, <1>4, <1>5, <1>6, <1>7, <1>8, <1>9 DEF CallStep

\* A rejection grants nobody and extends the pause to its hint.
LEMMA RejectionGetsNone ==
  ASSUME Inv, NEW c \in Calls, NEW err \in Errors, FnRejects(c, err)
  PROVE  PauseFor(CooldownHint(err)) /\ \A d \in Calls : ~Grants(d)
BY DisposedGetsNone DEF FnRejects, ThrowHolding

\* The administrator, the observers, late answers and the clock grant nobody.
LEMMA OthersGetNone ==
  ASSUME UNCHANGED pc
  PROVE  \A d \in Calls : ~Grants(d)
BY DEF Grants

-----------------------------------------------------------------------------
\* A step that takes a token or leaves the bucket alone keeps the accounts.
LEMMA ObservedQuietly ==
  ASSUME AuditInv, Observe(0),
         TakeToken \/ (UNCHANGED bucketVars /\ \A d \in Calls : ~Grants(d))
  PROVE  RateInv' /\ WindowInv'
<1>1. tokens \in Nat /\ TokenUnit \in Nat /\ Capacity \in Nat /\ pauseLeft \in Nat
  BY BucketOptions DEF AuditInv, Inv, BucketTypeOK
<1>2. window' = window /\ pauseLeft' = pauseLeft
  BY <1>1 DEF AuditInv, WindowInv, Observe, Greater, TakeToken, bucketVars
<1>3. surge' \in {surge, surge + TokenUnit} /\ (tokens' = tokens => surge' = surge)
  <2>1. CASE TakeToken
    BY <1>1, <2>1, BucketOptions DEF Observe, TakeToken, TokenAvailable, AuditInv, RateInv
  <2>2. CASE UNCHANGED bucketVars /\ \A d \in Calls : ~Grants(d)
    BY <1>1, <2>2 DEF Observe, AuditInv, RateInv
  <2> QED
    BY <2>1, <2>2
<1>4. tokens' = tokens \/ tokens' = tokens - TokenUnit
  BY DEF TakeToken, bucketVars
<1> QED
  BY <1>1, <1>2, <1>3, <1>4 DEF AuditInv, RateInv, WindowInv

\* Every step keeps the accounts of granted tokens and of windows.
LEMMA AuditStepPreserves ==
  ASSUME AuditInv, [AuditNext]_auditVars
  PROVE  AuditInv'
<1> SUFFICES RateInv' /\ WindowInv'
  <2>1. [Next]_vars
    BY DEF AuditNext, AuditTick, Next, FnSettles, auditVars
  <2> QED
    BY <2>1, StepPreserves DEF AuditInv
<1>1. ASSUME NEW c \in Calls, Invoke(c) \/ CallStep(c) \/ FnResolves(c), Observe(0)
      PROVE  RateInv' /\ WindowInv'
  BY <1>1, GrantsTakeTokens, ObservedQuietly DEF AuditInv
<1>2. ASSUME NEW c \in Calls, NEW err \in Errors, FnRejects(c, err), Observe(CooldownHint(err))
      PROVE  RateInv' /\ WindowInv'
  <2>1. CooldownHint(err) \in Nat
    BY BucketOptions DEF CooldownHint, Errors
  <2>2. PauseFor(CooldownHint(err)) /\ \A d \in Calls : ~Grants(d)
    BY <1>2, RejectionGetsNone DEF AuditInv
  <2>3. RateInv'
    BY <1>2, <2>2, BucketOptions DEF Observe, PauseFor, AuditInv, Inv, BucketTypeOK, RateInv
  <2>4. WindowInv'
    BY <1>2, <2>1, <2>2, BucketOptions
       DEF Observe, PauseFor, Greater, AuditInv, Inv, BucketTypeOK, WindowInv
  <2> QED
    BY <2>3, <2>4
<1>3. CASE Environment /\ Observe(0)
  <2>1. UNCHANGED <<bucketVars, pc>>
    BY <1>3 DEF Environment, OrphanSettles, ResetCircuit, ObserveCircuit, callVars
  <2> QED
    BY <1>3, <2>1, OthersGetNone, ObservedQuietly
<1>4. CASE AuditTick
  BY <1>4, BucketOptions
     DEF AuditTick, Tick, BucketTick, Lesser, Elapse, AuditInv, Inv, BucketTypeOK, RateInv, WindowInv
<1>5. CASE UNCHANGED auditVars
  BY <1>5 DEF auditVars, vars, history, bucketVars, AuditInv, RateInv, WindowInv
<1> QED
  BY <1>1, <1>2, <1>3, <1>4, <1>5 DEF AuditNext

\* The accounts hold throughout.
LEMMA AuditInvariant == AuditSpec => []AuditInv
<1>1. AuditInit => AuditInv
  BY InitInv, BucketOptions DEF AuditInit, AuditInv, RateInv, WindowInv, Init, BucketInit
<1>2. AuditInv /\ [AuditNext]_auditVars => AuditInv'
  BY AuditStepPreserves
<1> QED
  BY <1>1, <1>2, PTL DEF AuditSpec

-----------------------------------------------------------------------------
\* Whatever the mix of fail-fast and waiting callers, and whatever pauses
\* accumulate, at most Capacity + k * Refill parts are granted in k ticks.
THEOREM RateSafe == AuditSpec => []RateConforms
<1>1. AuditInv => RateConforms
  BY BucketOptions DEF AuditInv, Inv, BucketTypeOK, RateInv, RateConforms
<1> QED
  BY <1>1, AuditInvariant, PTL

\* No caller gets a token inside any Retry-After window received so far.
THEOREM RetryAfterHonoured == AuditSpec => TokensHonourRetryAfter
<1>1. ASSUME AuditInv, [AuditNext]_auditVars
      PROVE  [\A c \in Calls : Grants(c) => window = 0]_auditVars
  <2>1. ASSUME TakeToken
        PROVE  window = 0
    BY <1>1, <2>1 DEF TakeToken, TokenAvailable, AuditInv, WindowInv
  <2>2. ASSUME NEW c \in Calls, Invoke(c) \/ CallStep(c) \/ FnResolves(c)
        PROVE  window = 0 \/ \A d \in Calls : ~Grants(d)
    BY <1>1, <2>1, <2>2, GrantsTakeTokens DEF AuditInv
  <2>3. ASSUME NEW c \in Calls, NEW err \in Errors, FnRejects(c, err)
        PROVE  \A d \in Calls : ~Grants(d)
    BY <1>1, <2>3, RejectionGetsNone DEF AuditInv
  <2>4. CASE Environment \/ Tick
    <3>1. UNCHANGED pc
      BY <2>4 DEF Environment, OrphanSettles, ResetCircuit, ObserveCircuit, callVars, Tick
    <3> QED
      BY <3>1, OthersGetNone
  <2> QED
    BY <1>1, <2>2, <2>3, <2>4 DEF AuditNext, AuditTick
<1> QED
  BY <1>1, AuditInvariant, PTL DEF AuditSpec, TokensHonourRetryAfter
=============================================================================
