------------------------------ MODULE Heartbeat ------------------------------
(***************************************************************************)
(* Heartbeat ticks of live agents: the supervisor that schedules them       *)
(* (packages/live-agents-runtime/src/heartbeat-supervisor.ts), the workers  *)
(* that claim them with a lease and process them                            *)
(* (packages/live-agents/src/runtime.ts), and the claims of the in-memory   *)
(* and of the Redis store (state-store.ts, redis-state-store.ts).           *)
(*                                                                          *)
(* A tick is <<b, a>>: of bucket b for agent a.  A lease is held or has      *)
(* expired; it expires while its worker is alive or after a crash.  Which   *)
(* action an agent chooses is left open; its backlog is one item, open or   *)
(* done.                                                                    *)
(***************************************************************************)
EXTENDS Integers, FiniteSets, FiniteSetsExt

CONSTANTS Agents, Workers,
          Buckets,        \* number of buckets of 500 ms
          Concurrency,    \* ticks a worker claims at once
          Stores,         \* subset of {"memory", "redis"}
          MaxFaults,      \* bound on crashes and errors
          MaxOverruns     \* bound on the leases and locks that live workers overrun

ASSUME HeartbeatAssumption ==
  /\ {Buckets, Concurrency} \subseteq Nat \ {0} /\ {MaxFaults, MaxOverruns} \subseteq Nat
  /\ Stores \subseteq {"memory", "redis"} /\ IsFiniteSet(Workers)

VARIABLES store,       \* the store in use
          bucket,      \* the current bucket
          status,      \* tick -> status, or "none"
          lease,       \* tick -> none, held, expired
          agent,       \* agent -> ACTIVE, PAUSED, gone
          work,        \* agent -> its backlog item is open, done
          planned,     \* the ticks the supervisor is about to save
          pc,          \* worker -> where it stands
          queue,       \* worker -> ticks it has claimed and not finished
          cand,        \* worker -> candidates of a claim in Redis
          cur,         \* worker -> the tick it is busy with
          lock,        \* tick -> it is locked in Redis
          faults,      \* crashes and errors so far
          expiries,    \* history: tick -> leases that ran out
          lockouts,    \* history: tick -> locks in Redis that ran out
          execs        \* history: tick -> executions

claims == <<queue, cand, cur, lock>>
ranOut == <<expiries, lockouts>>
tickVars == <<status, lease, ranOut>>
vars == <<store, bucket, tickVars, agent, work, planned, pc, claims, faults, execs>>

Ticks == (1..Buckets) \X Agents
NoTick == <<0, "none">>
Ended == {"COMPLETED", "SKIPPED", "FAILED"}

\* The earliest ticks of S.
Earliest(S) == {t \in S : \A u \in S : t[1] <= u[1]}

Init == /\ store \in Stores /\ bucket = 1
        /\ status = [t \in Ticks |-> "none"] /\ lease = [t \in Ticks |-> "none"]
        /\ agent = [a \in Agents |-> "ACTIVE"] /\ work = [a \in Agents |-> "open"]
        /\ planned = {} /\ pc = [w \in Workers |-> "idle"]
        /\ queue = [w \in Workers |-> {}] /\ cand = [w \in Workers |-> {}]
        /\ cur = [w \in Workers |-> NoTick] /\ lock = [t \in Ticks |-> FALSE]
        /\ faults = 0 /\ execs = [t \in Ticks |-> 0]
        /\ expiries = [t \in Ticks |-> 0] /\ lockouts = [t \in Ticks |-> 0]

-----------------------------------------------------------------------------
(* The clock, the administrator and the supervisor. *)

NextBucket ==
  /\ bucket < Buckets /\ bucket' = bucket + 1
  /\ UNCHANGED <<store, tickVars, agent, work, planned, pc, claims, faults, execs>>

RemoveAgent(a) ==
  /\ agent[a] # "gone" /\ agent' = [agent EXCEPT ![a] = "gone"]
  /\ UNCHANGED <<store, bucket, tickVars, work, planned, pc, claims, faults, execs>>

\* Mutant: whether the tick of the bucket exists is not looked at.
PlanTickUnchecked(a) ==
  /\ planned = {} /\ agent[a] = "ACTIVE" /\ work[a] = "open"
  /\ planned' = {<<bucket, a>>}
  /\ UNCHANGED <<store, bucket, tickVars, agent, work, pc, claims, faults, execs>>

\* An active agent with open work gets a tick in each bucket; scheduleInFlight
\* keeps the passes of a supervisor apart.
PlanTick(a) ==
  /\ planned = {} /\ agent[a] = "ACTIVE" /\ work[a] = "open"
  /\ status[<<bucket, a>>] = "none" /\ planned' = {<<bucket, a>>}
  /\ UNCHANGED <<store, bucket, tickVars, agent, work, pc, claims, faults, execs>>

SaveTick ==
  /\ \E t \in planned : /\ status' = [status EXCEPT ![t] = "SCHEDULED"]
                        /\ lease' = [lease EXCEPT ![t] = "none"]
  /\ planned' = {}
  /\ UNCHANGED <<store, bucket, ranOut, agent, work, pc, claims, faults, execs>>

-----------------------------------------------------------------------------
(* claimNextTicks. *)

\* Mutant: a tick in progress is claimed whatever its lease says.
ClaimableAnyLease(t) == status[t] \in {"SCHEDULED", "IN_PROGRESS"}

\* Mutant: a tick in progress is never claimed again.
ClaimableOnce(t) == status[t] = "SCHEDULED"

Claimable(t) == \/ status[t] = "SCHEDULED"
                \/ status[t] = "IN_PROGRESS" /\ lease[t] # "held"

Lease(S) == /\ status' = [t \in Ticks |-> IF t \in S THEN "IN_PROGRESS" ELSE status[t]]
            /\ lease' = [t \in Ticks |-> IF t \in S THEN "held" ELSE lease[t]]
            /\ UNCHANGED ranOut

claimFrame == <<store, bucket, agent, work, planned, faults, execs>>
Free(w) == pc[w] = "idle" /\ queue[w] = {}

\* In memory: the earliest ticks, up to the concurrency of the worker, at once.
ClaimInMemory(w) ==
  /\ Free(w) /\ store = "memory"
  /\ LET ready == {t \in Ticks : Claimable(t)}
     IN  \E S \in SUBSET ready :
           /\ Cardinality(S) = Min({Concurrency, Cardinality(ready)}) /\ S # {}
           /\ \A t \in S, u \in ready \ S : t[1] <= u[1]
           /\ Lease(S) /\ queue' = [queue EXCEPT ![w] = S]
  /\ UNCHANGED <<claimFrame, pc, cand, cur, lock>>

\* In Redis the candidates are listed, and then each one is locked, looked at
\* again, leased and unlocked, until the worker has enough of them.
ListTicks(w) ==
  /\ Free(w) /\ store = "redis" /\ \E t \in Ticks : Claimable(t)
  /\ cand' = [cand EXCEPT ![w] = {t \in Ticks : Claimable(t)}]
  /\ pc' = [pc EXCEPT ![w] = "claiming"]
  /\ UNCHANGED <<claimFrame, tickVars, queue, cur, lock>>

LockTick(w) ==
  /\ pc[w] = "claiming" /\ Cardinality(queue[w]) < Concurrency
  /\ \E t \in Earliest(cand[w]) :
       /\ cand' = [cand EXCEPT ![w] = @ \ {t}]
       /\ \/ lock[t] /\ UNCHANGED <<pc, cur, lock>>
          \/ /\ ~lock[t] /\ lock' = [lock EXCEPT ![t] = TRUE]
             /\ cur' = [cur EXCEPT ![w] = t] /\ pc' = [pc EXCEPT ![w] = "locked"]
  /\ UNCHANGED <<claimFrame, tickVars, queue>>

\* del does not look whose lock it removes.
Unlock(w) == /\ lock' = [lock EXCEPT ![cur[w]] = FALSE]
             /\ cur' = [cur EXCEPT ![w] = NoTick] /\ pc' = [pc EXCEPT ![w] = "claiming"]

LookAgain(w) ==
  /\ pc[w] = "locked"
  /\ \/ /\ Claimable(cur[w]) /\ pc' = [pc EXCEPT ![w] = "leasing"]
        /\ UNCHANGED <<cur, lock>>
     \/ ~Claimable(cur[w]) /\ Unlock(w)
  /\ UNCHANGED <<claimFrame, tickVars, queue, cand>>

LeaseLocked(w) ==
  /\ pc[w] = "leasing" /\ Lease({cur[w]}) /\ Unlock(w)
  /\ queue' = [queue EXCEPT ![w] = @ \cup {cur[w]}]
  /\ UNCHANGED <<claimFrame, cand>>

EndClaim(w) ==
  /\ pc[w] = "claiming" /\ (cand[w] = {} \/ Cardinality(queue[w]) >= Concurrency)
  /\ pc' = [pc EXCEPT ![w] = "idle"] /\ cand' = [cand EXCEPT ![w] = {}]
  /\ UNCHANGED <<claimFrame, tickVars, queue, cur, lock>>

Claiming(w) == \/ ClaimInMemory(w) \/ ListTicks(w) \/ LockTick(w) \/ LookAgain(w)
               \/ LeaseLocked(w) \/ EndClaim(w)

-----------------------------------------------------------------------------
(* processClaimedTick and the loop around it. *)

tickFrame == <<store, bucket, ranOut, planned, cand, lock>>

\* The claimed ticks are processed one after the other; the status of the tick
\* is not looked at.
LoadTick(w) ==
  /\ pc[w] = "idle" /\ pc' = [pc EXCEPT ![w] = "loaded"]
  /\ \E t \in Earliest(queue[w]) : cur' = [cur EXCEPT ![w] = t]
  /\ UNCHANGED <<tickFrame, status, lease, agent, work, queue, faults, execs>>

\* The tick is saved with a final status, whatever has become of it.
Finish(w, s, l) ==
  /\ status' = [status EXCEPT ![cur[w]] = s] /\ lease' = [lease EXCEPT ![cur[w]] = l]
  /\ queue' = [queue EXCEPT ![w] = @ \ {cur[w]}] /\ cur' = [cur EXCEPT ![w] = NoTick]
  /\ pc' = [pc EXCEPT ![w] = "idle"]
  /\ UNCHANGED <<tickFrame, agent, work, faults, execs>>

Goto(w, p) == /\ pc' = [pc EXCEPT ![w] = p]
              /\ UNCHANGED <<tickFrame, status, lease, queue, cur>>

Agent(w) == cur[w][2]

MissingAgent(w) ==
  /\ pc[w] = "loaded" /\ agent[Agent(w)] = "gone" /\ Finish(w, "FAILED", lease[cur[w]])

ContractInactive(w) ==
  /\ pc[w] = "loaded" /\ agent[Agent(w)] # "gone" /\ Goto(w, "skipping")
  /\ UNCHANGED <<agent, work, faults, execs>>

BudgetExhausted(w) ==
  /\ pc[w] = "loaded" /\ agent[Agent(w)] # "gone" /\ Goto(w, "skipping")
  /\ agent' = [agent EXCEPT ![Agent(w)] = "PAUSED"]
  /\ UNCHANGED <<work, faults, execs>>

Skip(w) == pc[w] = "skipping" /\ Finish(w, "SKIPPED", "none")

\* The policy decides; the action is executed, and the backlog item is done,
\* open still or again, or untouched.
Execute(w) ==
  /\ pc[w] = "loaded" /\ agent[Agent(w)] # "gone" /\ Goto(w, "executed")
  /\ work' \in {work, [work EXCEPT ![Agent(w)] = "open"], [work EXCEPT ![Agent(w)] = "done"]}
  /\ execs' = [execs EXCEPT ![cur[w]] = @ + 1]
  /\ UNCHANGED <<agent, faults>>

Complete(w) == pc[w] = "executed" /\ Finish(w, "COMPLETED", "none")

\* An error of the store or of the policy.
Throws(w) ==
  /\ pc[w] \in {"loaded", "skipping", "executed"} /\ Goto(w, "failing")
  /\ faults < MaxFaults /\ faults' = faults + 1
  /\ UNCHANGED <<agent, work, execs>>

Fail(w) == pc[w] = "failing" /\ Finish(w, "FAILED", "none")

Reset(w) == /\ pc' = [pc EXCEPT ![w] = "idle"] /\ queue' = [queue EXCEPT ![w] = {}]
            /\ cand' = [cand EXCEPT ![w] = {}] /\ cur' = [cur EXCEPT ![w] = NoTick]
            /\ UNCHANGED <<store, bucket, tickVars, agent, work, planned, lock, execs>>

\* The save of the failure fails: the call is abandoned, with the ticks that
\* wait behind it.
TickRejects(w) == pc[w] = "failing" /\ Reset(w) /\ UNCHANGED faults

Processing(w) == \/ LoadTick(w) \/ MissingAgent(w) \/ ContractInactive(w)
                 \/ BudgetExhausted(w) \/ Skip(w) \/ Execute(w) \/ Complete(w) \/ Fail(w)

-----------------------------------------------------------------------------
(* Crashes and leases. *)

Crash(w) == /\ (pc[w] # "idle" \/ queue[w] # {}) /\ Reset(w)
            /\ faults < MaxFaults /\ faults' = faults + 1

Overrun(live) ==
  live => MapThenSumSet(LAMBDA t : expiries[t] + lockouts[t], Ticks) < MaxOverruns

LeaseExpires ==
  /\ \E t \in Ticks : /\ status[t] = "IN_PROGRESS" /\ lease[t] = "held"
                      /\ Overrun(\E w \in Workers : t \in queue[w])
                      /\ lease' = [lease EXCEPT ![t] = "expired"]
                      /\ expiries' = [expiries EXCEPT ![t] = @ + 1]
  /\ UNCHANGED <<store, bucket, status, lockouts, agent, work, planned, pc, claims, faults, execs>>

LockExpires ==
  /\ \E t \in Ticks : /\ lock[t] /\ lock' = [lock EXCEPT ![t] = FALSE]
                      /\ lockouts' = [lockouts EXCEPT ![t] = @ + 1]
                      /\ Overrun(\E w \in Workers : cur[w] = t /\ pc[w] \in {"locked", "leasing"})
  /\ UNCHANGED <<store, bucket, status, lease, expiries, agent, work, planned, pc, queue, cand,
                 cur, faults, execs>>

WorkerStep(w) == Claiming(w) \/ Processing(w)

Next == \/ NextBucket \/ SaveTick \/ LeaseExpires \/ LockExpires
        \/ \E a \in Agents : RemoveAgent(a) \/ PlanTick(a)
        \/ \E w \in Workers : WorkerStep(w) \/ Throws(w) \/ TickRejects(w) \/ Crash(w)

Spec == Init /\ [][Next]_vars

\* The workers poll and their calls return; leases and locks run out.
FairSpec == /\ Spec /\ WF_vars(LeaseExpires) /\ WF_vars(LockExpires)
            /\ \A w \in Workers : WF_vars(WorkerStep(w))

-----------------------------------------------------------------------------
(* Properties. *)

\* The action of a tick is executed once, and once more for each lease of the
\* tick that ran out, although ticks wait in the queue of a worker while their
\* leases run down, workers crash and claims overlap.  A lock that runs out
\* lets one more worker into each later claim, because del hands the lock on
\* from then on, so that the locks multiply the leases.
ExecutionsBounded ==
  \A t \in Ticks : execs[t] <= (1 + expiries[t]) * (1 + lockouts[t])

\* A tick that has ended is not taken up again, unless a lease or a lock of it
\* had run out (in Redis the late save of its worker can fall into a claim).
EndedStays ==
  [][\A t \in Ticks : status[t] \in Ended /\ status'[t] \notin Ended =>
       store = "redis" /\ expiries[t] + lockouts[t] > 0]_vars

\* Every tick that is scheduled ends.
TicksEnd == \A t \in Ticks : status[t] = "SCHEDULED" ~> status[t] \in Ended
=============================================================================
