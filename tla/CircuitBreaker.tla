--------------------------- MODULE CircuitBreaker ---------------------------
(***************************************************************************)
(* The endpoint circuit breaker of packages/resilience/src/                *)
(* circuit-breaker.ts: the three variables of its closure and what each    *)
(* method does to them.  ResilientCall composes these operations with the  *)
(* other two limiters of an endpoint.                                      *)
(***************************************************************************)
EXTENDS Ticks

CONSTANTS FailureThreshold, Cooldown

\* createCircuitBreaker throws unless both options are positive.
ASSUME CircuitOptions == /\ FailureThreshold \in Nat \ {0}
                         /\ Cooldown \in Nat \ {0}

VARIABLES
  circuit,       \* state
  failures,      \* consecutiveFailures, counted up to FailureThreshold: the
                 \* code only ever asks whether the threshold is reached
  cooldownLeft   \* ticks until openedAt + cooldownMs

circuitVars == <<circuit, failures, cooldownLeft>>

CircuitState == {"closed", "open", "half_open"}

CircuitTypeOK == /\ circuit \in CircuitState
                 /\ failures \in 0..FailureThreshold
                 /\ cooldownLeft \in 0..Cooldown

CircuitInit == circuit = "closed" /\ failures = 0 /\ cooldownLeft = 0

\* The state after maybeTransitionToHalfOpen.
CircuitNow == IF circuit = "open" /\ cooldownLeft = 0 THEN "half_open" ELSE circuit

\* canPass, state and snapshot all make that transition as a side effect.
MaybeTransitionToHalfOpen == circuit' = CircuitNow /\ UNCHANGED <<failures, cooldownLeft>>

CanPass == MaybeTransitionToHalfOpen /\ CircuitNow # "open"

CannotPass == MaybeTransitionToHalfOpen /\ CircuitNow = "open"

\* Mutant: a success closes the circuit but leaves the failure count.
RecordSuccessKeepsCount == circuit' = "closed" /\ cooldownLeft' = 0 /\ UNCHANGED failures

RecordSuccess == failures' = 0 /\ circuit' = "closed" /\ cooldownLeft' = 0

\* A failure reported in half_open, or the one that reaches the threshold in
\* closed, opens the circuit; one reported while it is open is only counted.
Trips == \/ circuit = "half_open"
         \/ circuit = "closed" /\ failures + 1 >= FailureThreshold

\* Mutant: a failure reported to an open circuit starts the cooldown afresh.
RecordFailureProlongs ==
  /\ failures' = Lesser(failures + 1, FailureThreshold)
  /\ circuit' = IF Trips THEN "open" ELSE circuit
  /\ cooldownLeft' = IF Trips \/ circuit = "open" THEN Cooldown ELSE cooldownLeft

RecordFailure == /\ failures' = Lesser(failures + 1, FailureThreshold)
                 /\ circuit' = IF Trips THEN "open" ELSE circuit
                 /\ cooldownLeft' = IF Trips THEN Cooldown ELSE cooldownLeft

Reset == circuit' = "closed" /\ failures' = 0 /\ cooldownLeft' = 0

CircuitTick == cooldownLeft' = Elapse(cooldownLeft) /\ UNCHANGED <<circuit, failures>>
=============================================================================
