--------------------------- MODULE ResilienceAudit ---------------------------
(***************************************************************************)
(* ResilientCall with the history its promises about time are stated over. *)
(* The history variables observe the steps of the pipeline and constrain   *)
(* none of them.                                                           *)
(***************************************************************************)
EXTENDS ResilientCall

VARIABLES
  window,   \* ticks left of the longest Retry-After the upstream has sent
  surge     \* token parts granted, draining by Refill each tick

history == <<window, surge>>

auditVars == <<vars, history>>

\* Steps of the pipeline, seen from outside.
Grants(c) == pc[c] \in {"admitted", "bucket"} /\ pc'[c] \in {"granted", "running"}

Observe(hint) ==
  /\ window' = Greater(window, hint)
  /\ surge' = surge + (IF \E c \in Calls : Grants(c) THEN TokenUnit ELSE 0)

AuditInit == Init /\ window = 0 /\ surge = 0

AuditTick == /\ Tick
             /\ window' = Elapse(window)
             /\ surge' = IF surge > Refill THEN surge - Refill ELSE 0

AuditNext ==
  \/ \E c \in Calls : (Invoke(c) \/ CallStep(c) \/ FnResolves(c)) /\ Observe(0)
  \/ \E c \in Calls, err \in Errors : FnRejects(c, err) /\ Observe(CooldownHint(err))
  \/ Environment /\ Observe(0)
  \/ AuditTick

AuditSpec == AuditInit /\ [][AuditNext]_auditVars

AuditFairSpec == AuditSpec /\ Fairness

\* No token is issued before the window of every Retry-After received so far
\* has passed: a second, shorter hint never cuts the first one short, and
\* callers already queued or asleep are held back too (pauseFor, tryAcquire).
TokensHonourRetryAfter == [][\A c \in Calls : Grants(c) => window = 0]_auditVars

\* Over any stretch of k ticks at most Capacity + k * Refill parts are
\* granted: fail-fast and waiting callers together keep the endpoint's rate,
\* whatever pauses accumulate (refill, tryAcquire).
RateConforms == surge <= Capacity
=============================================================================
