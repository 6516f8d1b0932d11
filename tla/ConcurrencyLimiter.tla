------------------------- MODULE ConcurrencyLimiter -------------------------
(***************************************************************************)
(* The in-flight limiter of packages/resilience/src/concurrency.ts: a      *)
(* counter of slots in use and the resolvers of the callers waiting for    *)
(* one.                                                                    *)
(***************************************************************************)
EXTENDS Naturals, Sequences

CONSTANTS MaxConcurrent, MaxQueue

\* createConcurrencyLimiter throws unless maxConcurrent is positive.  An
\* undefined maxQueue is any MaxQueue no smaller than the number of callers.
ASSUME LimiterOptions == MaxConcurrent \in Nat \ {0} /\ MaxQueue \in Nat

VARIABLES
  active,    \* slots in use
  waiters    \* the callers whose resolve() is queued, oldest first

limiterVars == <<active, waiters>>

LimiterInit == active = 0 /\ waiters = <<>>

\* acquire(): a free slot is taken at once,
TakeSlot == active < MaxConcurrent /\ active' = active + 1 /\ UNCHANGED waiters

\* Mutant: one waiter too many.
JoinQueueOffByOne(c) == /\ active >= MaxConcurrent
                        /\ Len(waiters) <= MaxQueue
                        /\ waiters' = Append(waiters, c)
                        /\ UNCHANGED active

\* otherwise the caller queues,
JoinQueue(c) == /\ active >= MaxConcurrent
                /\ Len(waiters) < MaxQueue
                /\ waiters' = Append(waiters, c)
                /\ UNCHANGED active

\* unless the queue is full, in which case acquire throws.
QueueFull == active >= MaxConcurrent /\ Len(waiters) >= MaxQueue

\* Mutant: the slot of the waiter that is woken is not counted again.
ReleaseSlotUncounted == /\ active' = active - 1
                        /\ waiters' = IF waiters = <<>> THEN waiters ELSE Tail(waiters)

\* release(): active -= 1, then active += 1 again for the waiter it shifts.
ReleaseSlot == /\ active' = IF waiters = <<>> THEN active - 1 ELSE active
               /\ waiters' = IF waiters = <<>> THEN waiters ELSE Tail(waiters)

\* The caller that a release resumes, if any.
Resumed == IF waiters = <<>> THEN {} ELSE {Head(waiters)}
=============================================================================
