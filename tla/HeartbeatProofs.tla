--------------------------- MODULE HeartbeatProofs ---------------------------
(***************************************************************************)
(* Proofs about heartbeat ticks for any number of agents, workers, buckets, *)
(* crashes, errors and expired leases, any concurrency and either store:    *)
(* how often the action of a tick is executed, and that a tick which has    *)
(* ended is not taken up again.                                             *)
(***************************************************************************)
EXTENDS Heartbeat, FiniteSetTheorems, TLAPS

-----------------------------------------------------------------------------
(* Shapes. *)

\* Where a worker claims, and where it works on a tick it has loaded.
ClaimPlaces == {"claiming", "locked", "leasing"}
WorkPlaces  == {"loaded", "skipping", "executed", "failing"}
Past        == {"skipping", "executed", "failing"}

\* Ticks.  The tick that is about to be saved has never been seen before.
TickShape ==
  /\ store \in {"memory", "redis"} /\ bucket \in 1..Buckets
  /\ status \in [Ticks -> {"none", "SCHEDULED", "IN_PROGRESS"} \cup Ended]
  /\ lease \in [Ticks -> {"none", "held", "expired"}]
  /\ lock \in [Ticks -> BOOLEAN]
  /\ expiries \in [Ticks -> Nat] /\ lockouts \in [Ticks -> Nat] /\ execs \in [Ticks -> Nat]
  /\ planned \subseteq Ticks /\ \A t \in planned : status[t] = "none"

\* Workers.  Only the Redis store is claimed from step by step; a worker works
\* on ticks it has claimed; no worker knows a tick that was never saved.
WorkerShape ==
  /\ pc \in [Workers -> {"idle"} \cup ClaimPlaces \cup WorkPlaces]
  /\ queue \in [Workers -> SUBSET Ticks] /\ cand \in [Workers -> SUBSET Ticks]
  /\ cur \in [Workers -> Ticks \cup {NoTick}]
  /\ \A w \in Workers : /\ pc[w] \in ClaimPlaces => store = "redis"
                        /\ pc[w] \in {"locked", "leasing"} => cur[w] \in Ticks
                        /\ pc[w] \in WorkPlaces => cur[w] \in queue[w]

Known(w) == queue[w] \cup cand[w] \cup ({cur[w]} \cap Ticks)
KnownSaved == \A w \in Workers : \A t \in Known(w) : status[t] # "none"

Shape == TickShape /\ WorkerShape /\ KnownSaved

\* Worker w moves, and no other.
Moves(w, p, q, c) == /\ pc' = [pc EXCEPT ![w] = p] /\ queue' = [queue EXCEPT ![w] = q]
                     /\ cur' = [cur EXCEPT ![w] = c]

\* Nothing happens to the workers.
WorkersRest == UNCHANGED <<pc, queue, cur>>

\* What the steps of workers are.
LEMMA WorkerMoves ==
  ASSUME Shape, NEW w \in Workers
  PROVE  /\ ClaimInMemory(w) => \E S \in SUBSET Ticks : Moves(w, pc[w], S, cur[w])
         /\ ListTicks(w) => Moves(w, "claiming", queue[w], cur[w])
         /\ LookAgain(w) => \/ Moves(w, "leasing", queue[w], cur[w])
                            \/ Moves(w, "claiming", queue[w], NoTick)
         /\ LeaseLocked(w) => Moves(w, "claiming", queue[w] \cup {cur[w]}, NoTick)
         /\ EndClaim(w) => Moves(w, "idle", queue[w], cur[w])
         /\ LoadTick(w) => \E t \in queue[w] : Moves(w, "loaded", queue[w], t)
         /\ \A s, l : Finish(w, s, l) => Moves(w, "idle", queue[w] \ {cur[w]}, NoTick)
         /\ \A p : Goto(w, p) => Moves(w, p, queue[w], cur[w])
         /\ Reset(w) => Moves(w, "idle", {}, NoTick)
<1>1. /\ pc = [pc EXCEPT ![w] = pc[w]] /\ queue = [queue EXCEPT ![w] = queue[w]]
      /\ cur = [cur EXCEPT ![w] = cur[w]]
  BY DEF Shape, WorkerShape
<1>2. ClaimInMemory(w) => \E S \in SUBSET Ticks : Moves(w, pc[w], S, cur[w])
  BY <1>1 DEF ClaimInMemory, Moves
<1>3. ListTicks(w) => Moves(w, "claiming", queue[w], cur[w])
  BY <1>1 DEF ListTicks, Moves
<1>4. LookAgain(w) => \/ Moves(w, "leasing", queue[w], cur[w])
                      \/ Moves(w, "claiming", queue[w], NoTick)
  BY <1>1 DEF LookAgain, Unlock, Moves
<1>5. LeaseLocked(w) => Moves(w, "claiming", queue[w] \cup {cur[w]}, NoTick)
  BY <1>1 DEF LeaseLocked, Unlock, Moves
<1>6. EndClaim(w) => Moves(w, "idle", queue[w], cur[w])
  BY <1>1 DEF EndClaim, Moves
<1>7. LoadTick(w) => \E t \in queue[w] : Moves(w, "loaded", queue[w], t)
  BY <1>1 DEF LoadTick, Moves, Earliest
<1>8. \A s, l : Finish(w, s, l) => Moves(w, "idle", queue[w] \ {cur[w]}, NoTick)
  BY <1>1 DEF Finish, Moves
<1>9. \A p : Goto(w, p) => Moves(w, p, queue[w], cur[w])
  BY <1>1 DEF Goto, Moves
<1>10. Reset(w) => Moves(w, "idle", {}, NoTick)
  BY <1>1 DEF Reset, Moves
<1> QED
  BY <1>2, <1>3, <1>4, <1>5, <1>6, <1>7, <1>8, <1>9, <1>10

\* A move keeps the shape of the workers if the new place of w has it.
LEMMA MoveKeepsShape ==
  ASSUME WorkerShape, NEW w \in Workers, UNCHANGED store,
         NEW p \in {"idle"} \cup ClaimPlaces \cup WorkPlaces,
         NEW q \in SUBSET Ticks, NEW c \in Ticks \cup {NoTick}, Moves(w, p, q, c),
         cand' \in [Workers -> SUBSET Ticks],
         p \in ClaimPlaces => store = "redis",
         p \in {"locked", "leasing"} => c \in Ticks,
         p \in WorkPlaces => c \in q
  PROVE  WorkerShape'
<1>1. /\ pc' \in [Workers -> {"idle"} \cup ClaimPlaces \cup WorkPlaces]
      /\ queue' \in [Workers -> SUBSET Ticks]
      /\ cur' \in [Workers -> Ticks \cup {NoTick}]
  BY DEF Moves, WorkerShape
<1>2. /\ pc'[w] = p /\ queue'[w] = q /\ cur'[w] = c
      /\ \A v \in Workers \ {w} : pc'[v] = pc[v] /\ queue'[v] = queue[v] /\ cur'[v] = cur[v]
  BY DEF Moves, WorkerShape
<1>3. ASSUME NEW v \in Workers
      PROVE  /\ pc'[v] \in ClaimPlaces => store' = "redis"
             /\ pc'[v] \in {"locked", "leasing"} => cur'[v] \in Ticks
             /\ pc'[v] \in WorkPlaces => cur'[v] \in queue'[v]
  BY <1>2 DEF WorkerShape
<1> QED
  BY <1>1, <1>3 DEF WorkerShape

\* Workers go on knowing only ticks that were saved.
LEMMA MoveKeepsKnown ==
  ASSUME WorkerShape, KnownSaved, NEW w \in Workers, NEW p,
         NEW q \in SUBSET Ticks, NEW c \in Ticks \cup {NoTick}, Moves(w, p, q, c),
         cand' \in [Workers -> SUBSET Ticks],
         \A v \in Workers : cand'[v] \subseteq cand[v] \/ \A t \in cand'[v] : status[t] # "none",
         \A t \in q \cup ({c} \cap Ticks) : t \in Known(w) \/ status[t] # "none",
         \A t \in Ticks : status[t] # "none" => status'[t] # "none"
  PROVE  KnownSaved'
<1>1. NoTick \notin Ticks
  BY DEF NoTick, Ticks
<1>2. /\ queue'[w] = q /\ cur'[w] = c
      /\ \A v \in Workers \ {w} : queue'[v] = queue[v] /\ cur'[v] = cur[v]
  BY DEF Moves, WorkerShape
<1>3. \A v \in Workers : Known(v) \subseteq Ticks
  BY DEF Known, WorkerShape
<1>4. ASSUME NEW v \in Workers, NEW t \in Known(v)'
      PROVE  t \in Ticks /\ (t \in Known(v) \/ status[t] # "none")
  <2>1. t \in queue'[v] \/ t \in cand'[v] \/ (t = cur'[v] /\ t \in Ticks)
    BY <1>4 DEF Known
  <2>2. CASE t \in cand'[v]
    BY <2>2 DEF Known
  <2>3. CASE v = w /\ (t \in queue'[v] \/ (t = cur'[v] /\ t \in Ticks))
    BY <1>2, <2>3
  <2>4. CASE v # w /\ (t \in queue'[v] \/ (t = cur'[v] /\ t \in Ticks))
    BY <1>2, <1>3, <2>4 DEF Known
  <2> QED
    BY <2>1, <2>2, <2>3, <2>4
<1> QED
  BY <1>4 DEF KnownSaved

\* What is not a step of a worker leaves the workers alone.
LEMMA RestKeepsShape ==
  ASSUME WorkerShape, KnownSaved, WorkersRest, UNCHANGED store,
         cand' \in [Workers -> SUBSET Ticks], \A v \in Workers : cand'[v] \subseteq cand[v],
         \A t \in Ticks : status[t] # "none" => status'[t] # "none"
  PROVE  WorkerShape' /\ KnownSaved'
<1>1. WorkerShape'
  BY DEF WorkerShape, WorkersRest
<1>2. \A v \in Workers : Known(v)' \subseteq Known(v) /\ Known(v) \subseteq Ticks
  BY DEF Known, WorkersRest, WorkerShape
<1> QED
  BY <1>1, <1>2 DEF KnownSaved

\* The initial state is well-formed.
LEMMA ShapeInit == Init => Shape
<1> SUFFICES ASSUME Init PROVE Shape
  OBVIOUS
<1>1. TickShape
  BY HeartbeatAssumption DEF Init, TickShape
<1>2. WorkerShape
  BY DEF Init, WorkerShape, ClaimPlaces, WorkPlaces
<1>3. NoTick \notin Ticks
  BY DEF NoTick, Ticks
<1>4. KnownSaved
  BY <1>3 DEF Init, KnownSaved, Known
<1> QED
  BY <1>1, <1>2, <1>4 DEF Shape

\* Leasing a set of ticks.
LEMMA LeaseShape ==
  ASSUME TickShape, NEW S \in SUBSET Ticks, Lease(S), UNCHANGED <<store, bucket, planned, execs>>,
         lock' \in [Ticks -> BOOLEAN], \A t \in S : status[t] # "none"
  PROVE  /\ TickShape'
         /\ \A t \in Ticks : /\ status'[t] = IF t \in S THEN "IN_PROGRESS" ELSE status[t]
                             /\ lease'[t] = IF t \in S THEN "held" ELSE lease[t]
<1>1. \A t \in Ticks : /\ status'[t] = IF t \in S THEN "IN_PROGRESS" ELSE status[t]
                       /\ lease'[t] = IF t \in S THEN "held" ELSE lease[t]
  BY DEF Lease
<1>2. /\ status' \in [Ticks -> {"none", "SCHEDULED", "IN_PROGRESS"} \cup Ended]
      /\ lease' \in [Ticks -> {"none", "held", "expired"}]
  BY DEF Lease, TickShape
<1>3. \A t \in planned' : status'[t] = "none"
  BY <1>1 DEF TickShape
<1> QED
  BY <1>1, <1>2, <1>3 DEF TickShape, Lease, ranOut

\* A worker ends with a tick.
LEMMA FinishShape ==
  ASSUME Shape, NEW w \in Workers, pc[w] \in WorkPlaces, NEW s \in Ended,
         NEW l \in {"none", "held", "expired"}, Finish(w, s, l)
  PROVE  Shape'
<1>1. cur[w] \in Ticks /\ cur[w] \in Known(w) /\ status[cur[w]] # "none"
  BY DEF Shape, WorkerShape, KnownSaved, Known
<1>2. s # "none"
  BY DEF Ended
<1>3. /\ UNCHANGED <<store, bucket, expiries, lockouts, planned, cand, lock, execs>>
      /\ Moves(w, "idle", queue[w] \ {cur[w]}, NoTick)
  BY WorkerMoves DEF Finish, tickFrame, ranOut
<1>4. /\ status' \in [Ticks -> {"none", "SCHEDULED", "IN_PROGRESS"} \cup Ended]
      /\ lease' \in [Ticks -> {"none", "held", "expired"}]
      /\ \A t \in Ticks : status'[t] = IF t = cur[w] THEN s ELSE status[t]
  BY <1>1 DEF Finish, Shape, TickShape
<1>5. TickShape'
  BY <1>1, <1>3, <1>4 DEF Shape, TickShape
<1>6. queue[w] \subseteq Ticks /\ cand \in [Workers -> SUBSET Ticks]
  BY DEF Shape, WorkerShape
<1>7. WorkerShape'
  BY <1>3, <1>6, MoveKeepsShape DEF Shape, ClaimPlaces, WorkPlaces
<1>8. KnownSaved'
  <2>1. \A t \in (queue[w] \ {cur[w]}) \cup ({NoTick} \cap Ticks) : t \in Known(w) \/ status[t] # "none"
    BY DEF Known, NoTick, Ticks
  <2>2. \A t \in Ticks : status[t] # "none" => status'[t] # "none"
    BY <1>2, <1>4
  <2> QED
    BY <1>3, <1>6, <2>1, <2>2, MoveKeepsKnown DEF Shape
<1> QED
  BY <1>5, <1>7, <1>8 DEF Shape

\* A worker moves within a claim or with the tick it has loaded, which leaves
\* the ticks alone.
LEMMA MoveShape ==
  ASSUME Shape, NEW w \in Workers, UNCHANGED <<store, bucket, status, lease, planned, expiries, lockouts>>,
         lock' \in [Ticks -> BOOLEAN], execs' \in [Ticks -> Nat],
         NEW p \in {"idle"} \cup ClaimPlaces \cup WorkPlaces,
         NEW q \in SUBSET Ticks, NEW c \in Ticks \cup {NoTick}, Moves(w, p, q, c),
         cand' \in [Workers -> SUBSET Ticks],
         p \in ClaimPlaces => store = "redis",
         p \in {"locked", "leasing"} => c \in Ticks,
         p \in WorkPlaces => c \in q,
         \A v \in Workers : cand'[v] \subseteq cand[v] \/ \A t \in cand'[v] : status[t] # "none",
         q \cup ({c} \cap Ticks) \subseteq Known(w)
  PROVE  Shape'
<1>1. TickShape'
  BY DEF Shape, TickShape
<1>2. WorkerShape'
  BY MoveKeepsShape DEF Shape
<1>3. KnownSaved'
  BY MoveKeepsKnown DEF Shape
<1> QED
  BY <1>1, <1>2, <1>3 DEF Shape

\* A claim in the in-memory store keeps ticks and workers well-formed.
LEMMA ClaimInMemoryShape ==
  ASSUME Shape, NEW w \in Workers, ClaimInMemory(w)
  PROVE  Shape'
<1>1. PICK S \in SUBSET {t \in Ticks : Claimable(t)} :
        Lease(S) /\ queue' = [queue EXCEPT ![w] = S]
  BY DEF ClaimInMemory
<1>2. /\ UNCHANGED <<store, bucket, planned, execs, pc, cand, cur, lock>> /\ pc[w] = "idle"
  BY DEF ClaimInMemory, claimFrame, Free
<1>3. S \subseteq Ticks /\ \A t \in S : status[t] # "none"
  BY <1>1 DEF Claimable
<1>4. TickShape' /\ \A t \in Ticks : status[t] # "none" => status'[t] # "none"
  BY <1>1, <1>2, <1>3, LeaseShape DEF Shape, TickShape
<1>5. Moves(w, "idle", S, cur[w])
  BY <1>1, <1>2 DEF Moves, Shape, WorkerShape
<1>6. cur[w] \in Ticks \cup {NoTick} /\ cand' \in [Workers -> SUBSET Ticks]
      /\ cand' = cand
  BY <1>2 DEF Shape, WorkerShape
<1>7. WorkerShape'
  BY <1>2, <1>3, <1>5, <1>6, MoveKeepsShape DEF Shape, ClaimPlaces, WorkPlaces
<1>8. KnownSaved'
  <2>1. \A t \in S \cup ({cur[w]} \cap Ticks) : t \in Known(w) \/ status[t] # "none"
    BY <1>3 DEF Known
  <2> QED
    BY <1>3, <1>4, <1>5, <1>6, <2>1, MoveKeepsKnown DEF Shape
<1> QED
  BY <1>4, <1>7, <1>8 DEF Shape

\* So does a lease taken under the lock of a tick.
LEMMA LeaseLockedShape ==
  ASSUME Shape, NEW w \in Workers, LeaseLocked(w)
  PROVE  Shape'
<1>1. cur[w] \in Ticks /\ cur[w] \in Known(w) /\ status[cur[w]] # "none" /\ store = "redis"
  BY DEF Shape, WorkerShape, KnownSaved, Known, LeaseLocked, ClaimPlaces
<1>2. /\ UNCHANGED <<store, bucket, planned, execs, cand>> /\ Lease({cur[w]})
      /\ Moves(w, "claiming", queue[w] \cup {cur[w]}, NoTick)
      /\ lock' = [lock EXCEPT ![cur[w]] = FALSE]
  BY WorkerMoves DEF LeaseLocked, Unlock, claimFrame
<1>3. lock' \in [Ticks -> BOOLEAN]
  BY <1>2 DEF Shape, TickShape
<1>4. TickShape' /\ \A t \in Ticks : status[t] # "none" => status'[t] # "none"
  BY <1>1, <1>2, <1>3, LeaseShape DEF Shape
<1>5. queue[w] \cup {cur[w]} \subseteq Ticks /\ cand \in [Workers -> SUBSET Ticks]
  BY <1>1 DEF Shape, WorkerShape
<1>6. WorkerShape'
  BY <1>1, <1>2, <1>5, MoveKeepsShape DEF Shape, ClaimPlaces, WorkPlaces
<1>7. KnownSaved'
  <2>1. \A t \in (queue[w] \cup {cur[w]}) \cup ({NoTick} \cap Ticks) : t \in Known(w) \/ status[t] # "none"
    BY <1>1 DEF Known, NoTick, Ticks
  <2> QED
    BY <1>2, <1>4, <1>5, <2>1, MoveKeepsKnown DEF Shape
<1> QED
  BY <1>4, <1>6, <1>7 DEF Shape

\* So does every step of a claim.
LEMMA ClaimingShape ==
  ASSUME Shape, NEW w \in Workers, ListTicks(w) \/ LockTick(w) \/ LookAgain(w) \/ EndClaim(w)
  PROVE  Shape'
<1>1. /\ cand \in [Workers -> SUBSET Ticks] /\ queue[w] \in SUBSET Ticks
      /\ cur[w] \in Ticks \cup {NoTick} /\ lock \in [Ticks -> BOOLEAN] /\ execs \in [Ticks -> Nat]
      /\ queue[w] \cup ({cur[w]} \cap Ticks) \subseteq Known(w)
      /\ queue[w] \cup ({NoTick} \cap Ticks) \subseteq Known(w)
  BY DEF Shape, WorkerShape, TickShape, Known, NoTick, Ticks
<1>2. CASE ListTicks(w)
  <2>1. /\ UNCHANGED <<store, bucket, status, lease, planned, expiries, lockouts, lock, execs>>
        /\ store = "redis" /\ Moves(w, "claiming", queue[w], cur[w])
        /\ cand' = [cand EXCEPT ![w] = {t \in Ticks : Claimable(t)}]
    BY <1>2, WorkerMoves DEF ListTicks, claimFrame, tickVars, ranOut
  <2>2. \A v \in Workers : cand'[v] \subseteq cand[v] \/ \A t \in cand'[v] : status[t] # "none"
    BY <1>1, <2>1 DEF Claimable
  <2>3. cand' \in [Workers -> SUBSET Ticks]
    BY <1>1, <2>1
  <2> QED
    BY <1>1, <2>1, <2>2, <2>3, MoveShape DEF ClaimPlaces, WorkPlaces
<1>3. CASE LockTick(w)
  <2>1. /\ UNCHANGED <<store, bucket, status, lease, planned, expiries, lockouts, execs, queue>>
        /\ pc[w] = "claiming"
    BY <1>3 DEF LockTick, claimFrame, tickVars, ranOut
  <2>2. PICK t \in cand[w] :
          /\ cand' = [cand EXCEPT ![w] = @ \ {t}]
          /\ \/ lock[t] /\ UNCHANGED <<pc, cur, lock>>
             \/ /\ ~lock[t] /\ lock' = [lock EXCEPT ![t] = TRUE]
                /\ cur' = [cur EXCEPT ![w] = t] /\ pc' = [pc EXCEPT ![w] = "locked"]
    BY <1>3 DEF LockTick, Earliest
  <2>3. /\ cand' \in [Workers -> SUBSET Ticks] /\ t \in Ticks /\ t \in Known(w)
        /\ \A v \in Workers : cand'[v] \subseteq cand[v]
    BY <1>1, <2>2 DEF Known
  <2>4. CASE UNCHANGED <<pc, cur, lock>>
    <3>1. TickShape'
      BY <2>1, <2>4 DEF Shape, TickShape
    <3>2. WorkerShape' /\ KnownSaved'
      BY <2>1, <2>3, <2>4, RestKeepsShape DEF Shape, WorkersRest
    <3> QED
      BY <3>1, <3>2 DEF Shape
  <2>5. CASE /\ lock' = [lock EXCEPT ![t] = TRUE]
             /\ cur' = [cur EXCEPT ![w] = t] /\ pc' = [pc EXCEPT ![w] = "locked"]
    <3>1. Moves(w, "locked", queue[w], t)
      BY <2>1, <2>5 DEF Moves, Shape, WorkerShape
    <3>2. store = "redis"
      BY <2>1 DEF Shape, WorkerShape, ClaimPlaces
    <3>3. lock' \in [Ticks -> BOOLEAN] /\ queue[w] \cup ({t} \cap Ticks) \subseteq Known(w)
      BY <1>1, <2>3, <2>5
    <3> QED
      BY <1>1, <2>1, <2>3, <3>1, <3>2, <3>3, MoveShape DEF ClaimPlaces, WorkPlaces
  <2> QED
    BY <2>2, <2>4, <2>5
<1>4. CASE LookAgain(w)
  <2>1. /\ UNCHANGED <<store, bucket, status, lease, planned, expiries, lockouts, execs, cand>>
        /\ pc[w] = "locked" /\ lock' \in [Ticks -> BOOLEAN]
    BY <1>1, <1>4 DEF LookAgain, Unlock, claimFrame, tickVars, ranOut
  <2>2. store = "redis" /\ cur[w] \in Ticks
    BY <2>1 DEF Shape, WorkerShape, ClaimPlaces
  <2>3. Moves(w, "leasing", queue[w], cur[w]) \/ Moves(w, "claiming", queue[w], NoTick)
    BY <1>4, WorkerMoves
  <2> QED
    BY <1>1, <2>1, <2>2, <2>3, MoveShape DEF ClaimPlaces, WorkPlaces
<1>5. CASE EndClaim(w)
  <2>1. /\ UNCHANGED <<store, bucket, status, lease, planned, expiries, lockouts, lock, execs>>
        /\ Moves(w, "idle", queue[w], cur[w])
        /\ cand' = [cand EXCEPT ![w] = {}]
    BY <1>5, WorkerMoves DEF EndClaim, claimFrame, tickVars, ranOut
  <2>2. \A v \in Workers : cand'[v] \subseteq cand[v]
    BY <1>1, <2>1
  <2> QED
    BY <1>1, <2>1, <2>2, MoveShape DEF ClaimPlaces, WorkPlaces
<1> QED
  BY <1>2, <1>3, <1>4, <1>5

\* So does every step of a tick that is being processed.
LEMMA ProcessingShape ==
  ASSUME Shape, NEW w \in Workers, Processing(w) \/ Throws(w) \/ TickRejects(w) \/ Crash(w)
  PROVE  Shape'
<1>1. /\ cand \in [Workers -> SUBSET Ticks] /\ queue[w] \in SUBSET Ticks
      /\ cur[w] \in Ticks \cup {NoTick} /\ lock \in [Ticks -> BOOLEAN] /\ execs \in [Ticks -> Nat]
      /\ queue[w] \cup ({cur[w]} \cap Ticks) \subseteq Known(w)
      /\ queue[w] \cup ({NoTick} \cap Ticks) \subseteq Known(w)
      /\ lease \in [Ticks -> {"none", "held", "expired"}]
  BY DEF Shape, WorkerShape, TickShape, Known, NoTick, Ticks
<1>2. CASE LoadTick(w)
  <2>1. /\ UNCHANGED <<store, bucket, status, lease, planned, expiries, lockouts, lock, execs, cand>>
    BY <1>2 DEF LoadTick, tickFrame, ranOut
  <2>2. PICK t \in queue[w] : Moves(w, "loaded", queue[w], t)
    BY <1>2, WorkerMoves
  <2>3. t \in Ticks /\ queue[w] \cup ({t} \cap Ticks) \subseteq Known(w)
    BY <1>1, <2>2
  <2> QED
    BY <1>1, <2>1, <2>2, <2>3, MoveShape DEF ClaimPlaces, WorkPlaces
<1>3. CASE MissingAgent(w) \/ Skip(w) \/ Complete(w) \/ Fail(w)
  <2>1. pc[w] \in WorkPlaces
    BY <1>3 DEF MissingAgent, Skip, Complete, Fail, WorkPlaces
  <2>2. cur[w] \in Ticks
    BY <2>1 DEF Shape, WorkerShape
  <2>3. \E s \in Ended, l \in {"none", "held", "expired"} : Finish(w, s, l)
    BY <1>1, <1>3, <2>2 DEF MissingAgent, Skip, Complete, Fail, Ended
  <2> QED
    BY <2>1, <2>3, FinishShape
<1>4. ASSUME NEW p \in Past, Goto(w, p), pc[w] \in WorkPlaces, execs' \in [Ticks -> Nat]
      PROVE  Shape'
  <2>1. /\ UNCHANGED <<store, bucket, status, lease, planned, expiries, lockouts, lock, cand>>
        /\ Moves(w, p, queue[w], cur[w])
    BY <1>4, WorkerMoves DEF Goto, tickFrame, ranOut
  <2>2. cur[w] \in queue[w]
    BY <1>4 DEF Shape, WorkerShape
  <2> QED
    BY <1>1, <1>4, <2>1, <2>2, MoveShape DEF ClaimPlaces, WorkPlaces, Past
<1>5. CASE ContractInactive(w) \/ BudgetExhausted(w) \/ Throws(w)
  <2>1. \E p \in Past : Goto(w, p)
    BY <1>5 DEF ContractInactive, BudgetExhausted, Throws, Past
  <2>2. pc[w] \in WorkPlaces /\ execs' = execs
    BY <1>5 DEF ContractInactive, BudgetExhausted, Throws, WorkPlaces
  <2> QED
    BY <1>1, <1>4, <2>1, <2>2
<1>6. CASE Execute(w)
  <2>1. /\ Goto(w, "executed") /\ pc[w] \in WorkPlaces
        /\ execs' = [execs EXCEPT ![cur[w]] = @ + 1]
    BY <1>6 DEF Execute, WorkPlaces
  <2>2. execs' \in [Ticks -> Nat]
    <3>1. cur[w] \in Ticks
      BY <2>1 DEF Shape, WorkerShape
    <3>2. execs[cur[w]] + 1 \in Nat
      BY <1>1, <3>1
    <3> QED
      BY <1>1, <2>1, <3>2
  <2> QED
    BY <1>4, <2>1, <2>2 DEF Past
<1>7. CASE TickRejects(w) \/ Crash(w)
  <2>1. /\ UNCHANGED <<store, bucket, status, lease, planned, expiries, lockouts, lock, execs>>
        /\ Moves(w, "idle", {}, NoTick) /\ cand' = [cand EXCEPT ![w] = {}]
    BY <1>7, WorkerMoves DEF TickRejects, Crash, Reset, tickVars, ranOut
  <2>2. \A v \in Workers : cand'[v] \subseteq cand[v]
    BY <1>1, <2>1
  <2>3. {} \cup ({NoTick} \cap Ticks) \subseteq Known(w)
    BY <1>1
  <2> QED
    BY <1>1, <2>1, <2>2, <2>3, MoveShape DEF ClaimPlaces, WorkPlaces
<1> QED
  BY <1>2, <1>3, <1>5, <1>6, <1>7 DEF Processing

\* So does saving a tick.
LEMMA SaveTickShape ==
  ASSUME Shape, SaveTick
  PROVE  Shape'
<1>1. PICK t \in planned : /\ status' = [status EXCEPT ![t] = "SCHEDULED"]
                           /\ lease' = [lease EXCEPT ![t] = "none"]
  BY DEF SaveTick
<1>2. planned' = {} /\ WorkersRest /\ UNCHANGED <<store, bucket, expiries, lockouts, lock, execs, cand>>
  BY DEF SaveTick, WorkersRest, ranOut, claims
<1>3. TickShape'
  BY <1>1, <1>2 DEF Shape, TickShape
<1>4. \A u \in Ticks : status[u] # "none" => status'[u] # "none"
  BY <1>1 DEF Shape, TickShape
<1>5. WorkerShape' /\ KnownSaved'
  BY <1>2, <1>4, RestKeepsShape DEF Shape, WorkerShape
<1> QED
  BY <1>3, <1>5 DEF Shape

\* Clocks, administrators and the supervisor leave everything alone that is
\* known of a tick.
Quiet == UNCHANGED <<store, status, lease, expiries, lockouts, lock, execs, cand, pc, queue, cur>>

\* So do the steps that touch neither ticks nor workers.
LEMMA QuietShape ==
  ASSUME Shape, Quiet, bucket' \in 1..Buckets,
         planned' \subseteq Ticks, \A t \in planned' : t \in planned \/ status[t] = "none"
  PROVE  Shape'
<1>1. TickShape'
  BY DEF Shape, TickShape, Quiet
<1>2. WorkerShape' /\ KnownSaved'
  BY RestKeepsShape DEF Shape, WorkerShape, Quiet, WorkersRest
<1> QED
  BY <1>1, <1>2 DEF Shape

\* The steps that are quiet.
LEMMA QuietSteps ==
  ASSUME Shape, NextBucket \/ (\E a \in Agents : RemoveAgent(a) \/ PlanTick(a)) \/ UNCHANGED vars
  PROVE  Quiet /\ Shape'
<1>1. Quiet
  BY DEF Quiet, NextBucket, RemoveAgent, PlanTick, vars, tickVars, ranOut, claims
<1>2. bucket \in 1..Buckets /\ Buckets \in Nat /\ planned \subseteq Ticks
  BY HeartbeatAssumption DEF Shape, TickShape
<1>3. CASE NextBucket
  BY <1>1, <1>2, <1>3, QuietShape DEF NextBucket
<1>4. ASSUME NEW a \in Agents, RemoveAgent(a)
      PROVE  Shape'
  BY <1>1, <1>2, <1>4, QuietShape DEF RemoveAgent
<1>5. ASSUME NEW a \in Agents, PlanTick(a)
      PROVE  Shape'
  <2>1. planned' = {<<bucket, a>>} /\ status[<<bucket, a>>] = "none" /\ bucket' = bucket
    BY <1>5 DEF PlanTick
  <2>2. <<bucket, a>> \in Ticks
    BY <1>2 DEF Ticks
  <2> QED
    BY <1>1, <1>2, <2>1, <2>2, QuietShape
<1>6. CASE UNCHANGED vars
  BY <1>1, <1>2, <1>6, QuietShape DEF vars
<1> QED
  BY <1>1, <1>3, <1>4, <1>5, <1>6

\* A lease or a lock runs out.
LEMMA ExpiryShape ==
  ASSUME Shape, LeaseExpires \/ LockExpires
  PROVE  Shape'
<1>1. WorkersRest /\ UNCHANGED <<store, bucket, planned, status, execs, cand>>
  BY DEF LeaseExpires, LockExpires, WorkersRest, claims
<1>2. /\ lease' \in [Ticks -> {"none", "held", "expired"}] /\ lock' \in [Ticks -> BOOLEAN]
      /\ expiries' \in [Ticks -> Nat] /\ lockouts' \in [Ticks -> Nat]
  <2>1. /\ lease \in [Ticks -> {"none", "held", "expired"}] /\ lock \in [Ticks -> BOOLEAN]
        /\ expiries \in [Ticks -> Nat] /\ lockouts \in [Ticks -> Nat]
    BY DEF Shape, TickShape
  <2>2. CASE LeaseExpires
    <3>1. /\ \E t \in Ticks : /\ lease' = [lease EXCEPT ![t] = "expired"]
                              /\ expiries' = [expiries EXCEPT ![t] = @ + 1]
          /\ UNCHANGED <<lockouts, lock>>
      BY <2>2 DEF LeaseExpires, claims
    <3> QED
      BY <2>1, <3>1
  <2>3. CASE LockExpires
    <3>1. /\ \E t \in Ticks : /\ lock' = [lock EXCEPT ![t] = FALSE]
                              /\ lockouts' = [lockouts EXCEPT ![t] = @ + 1]
          /\ UNCHANGED <<lease, expiries>>
      BY <2>3 DEF LockExpires
    <3> QED
      BY <2>1, <3>1
  <2> QED
    BY <2>2, <2>3
<1>3. TickShape'
  BY <1>1, <1>2 DEF Shape, TickShape
<1>4. WorkerShape' /\ KnownSaved'
  BY <1>1, RestKeepsShape DEF Shape, WorkerShape
<1> QED
  BY <1>3, <1>4 DEF Shape

\* Every step keeps the state well-formed.
LEMMA ShapeStep == Shape /\ [Next]_vars => Shape'
<1> SUFFICES ASSUME Shape, [Next]_vars
             PROVE  Shape'
  OBVIOUS
<1>1. CASE NextBucket \/ (\E a \in Agents : RemoveAgent(a) \/ PlanTick(a)) \/ UNCHANGED vars
  BY <1>1, QuietSteps
<1>2. CASE SaveTick
  BY <1>2, SaveTickShape
<1>3. CASE LeaseExpires \/ LockExpires
  BY <1>3, ExpiryShape
<1>4. ASSUME NEW w \in Workers, Claiming(w)
      PROVE  Shape'
  BY <1>4, ClaimInMemoryShape, ClaimingShape, LeaseLockedShape DEF Claiming
<1>5. ASSUME NEW w \in Workers, Processing(w) \/ Throws(w) \/ TickRejects(w) \/ Crash(w)
      PROVE  Shape'
  BY <1>5, ProcessingShape
<1> QED
  BY <1>1, <1>2, <1>3, <1>4, <1>5 DEF Next, WorkerStep

-----------------------------------------------------------------------------
(* Counting. *)

\* The workers between the lock of a tick and its release, the ones among them
\* that have looked again, and the ones that may still execute the tick.
Holders(t) == {w \in Workers : cur[w] = t /\ pc[w] \in {"locked", "leasing"}}
Leasing(t) == {w \in Workers : cur[w] = t /\ pc[w] = "leasing"}
Pending(t) == {w \in Workers : t \in queue[w] /\ ~(cur[w] = t /\ pc[w] \in Past)}

\* What may be claimed, now or once it is saved.
Available(t) == status[t] = "none" \/ Claimable(t)

Low(t)  == expiries[t] * (1 + lockouts[t])
High(t) == (1 + expiries[t]) * (1 + lockouts[t])

\* A lock that runs out lets one more worker in, for good.
LockCount(t) == /\ lock[t] => Cardinality(Holders(t)) <= lockouts[t] + 1
                /\ ~lock[t] => Cardinality(Holders(t)) <= lockouts[t]

\* A lease that runs out makes room for as many executions as there may be
\* workers behind the lock; what can be claimed has that room left.
ExecCount(t) ==
  /\ execs[t] + Cardinality(Pending(t)) + Cardinality(Leasing(t)) <= High(t)
  /\ Available(t) => execs[t] + Cardinality(Pending(t)) <= Low(t)

Counts == \A t \in Ticks : LockCount(t) /\ ExecCount(t)

\* The arithmetic of the bounds.
LEMMA Products ==
  \A e, x \in Nat : /\ e * (1 + x) \in Nat /\ (1 + e) * (1 + x) \in Nat
                    /\ (1 + e) * (1 + x) = e * (1 + x) + 1 + x
                    /\ e * (1 + (x + 1)) = e * (1 + x) + e
                    /\ (1 + e) * (1 + (x + 1)) = (1 + e) * (1 + x) + 1 + e
                    /\ (e + 1) * (1 + x) = (1 + e) * (1 + x)
                    /\ (1 + (e + 1)) * (1 + x) = (1 + e) * (1 + x) + 1 + x
OBVIOUS

\* Sets of workers are finite.
LEMMA FiniteTeams ==
  \A S \in SUBSET Workers : IsFiniteSet(S) /\ Cardinality(S) \in Nat
BY HeartbeatAssumption, FS_Subset, FS_CardinalityType

\* The sets that are counted are finite, now and in the next state.
LEMMA Finite ==
  ASSUME NEW t
  PROVE  /\ IsFiniteSet(Holders(t)) /\ IsFiniteSet(Leasing(t)) /\ IsFiniteSet(Pending(t))
         /\ Cardinality(Holders(t)) \in Nat /\ Cardinality(Leasing(t)) \in Nat
         /\ Cardinality(Pending(t)) \in Nat
         /\ Cardinality(Holders(t)') \in Nat /\ Cardinality(Leasing(t)') \in Nat
         /\ Cardinality(Pending(t)') \in Nat
         /\ Cardinality(Leasing(t)) <= Cardinality(Holders(t))
         /\ Cardinality(Leasing(t)') <= Cardinality(Holders(t)')
<1>1. /\ Holders(t) \in SUBSET Workers /\ Pending(t) \in SUBSET Workers
      /\ Leasing(t) \in SUBSET Workers /\ Leasing(t) \in SUBSET Holders(t)
  BY DEF Holders, Leasing, Pending
<1>2. /\ Holders(t)' \in SUBSET Workers /\ Pending(t)' \in SUBSET Workers
      /\ Leasing(t)' \in SUBSET Workers /\ Leasing(t)' \in SUBSET Holders(t)'
  BY DEF Holders, Leasing, Pending
<1>3. /\ Cardinality(Leasing(t)) <= Cardinality(Holders(t))
      /\ Cardinality(Leasing(t)') <= Cardinality(Holders(t)')
  BY <1>1, <1>2, FiniteTeams, FS_Subset
<1> QED
  BY <1>1, <1>2, <1>3, FiniteTeams

\* Sets that differ in one element at most.
LEMMA OneMore ==
  ASSUME NEW S, NEW T, NEW x, IsFiniteSet(S), S \ {x} = T \ {x}
  PROVE  /\ Cardinality(S) \in Nat /\ Cardinality(T) \in Nat
         /\ Cardinality(T) <= Cardinality(S) + 1
         /\ (x \in T => x \in S) => Cardinality(T) <= Cardinality(S)
         /\ x \in S /\ x \notin T => Cardinality(T) + 1 = Cardinality(S)
         /\ x \notin S /\ x \in T => Cardinality(T) = Cardinality(S) + 1
<1> DEFINE R == S \ {x}
<1>1. IsFiniteSet(R) /\ Cardinality(R) \in Nat
  BY FS_RemoveElement, FS_CardinalityType
<1>2. Cardinality(R \cup {x}) = Cardinality(R) + 1
  BY <1>1, FS_AddElement
<1>3. /\ x \in S => S = R \cup {x}
      /\ x \notin S => S = R
      /\ x \in T => T = R \cup {x}
      /\ x \notin T => T = R
  OBVIOUS
<1> HIDE DEF R
<1>4. /\ x \in S => Cardinality(S) = Cardinality(R) + 1
      /\ x \notin S => Cardinality(S) = Cardinality(R)
      /\ x \in T => Cardinality(T) = Cardinality(R) + 1
      /\ x \notin T => Cardinality(T) = Cardinality(R)
  BY <1>2, <1>3
<1> QED
  BY <1>1, <1>4

\* What a move of one worker does to the sets.
LEMMA MoveCounts ==
  ASSUME Shape, NEW w \in Workers, NEW p, NEW q, NEW c, Moves(w, p, q, c), NEW t \in Ticks
  PROVE  /\ Holders(t) \ {w} = Holders(t)' \ {w}
         /\ Leasing(t) \ {w} = Leasing(t)' \ {w}
         /\ Pending(t) \ {w} = Pending(t)' \ {w}
         /\ w \in Holders(t)' <=> c = t /\ p \in {"locked", "leasing"}
         /\ w \in Leasing(t)' <=> c = t /\ p = "leasing"
         /\ w \in Pending(t)' <=> t \in q /\ ~(c = t /\ p \in Past)
<1>1. /\ pc'[w] = p /\ queue'[w] = q /\ cur'[w] = c
      /\ \A v \in Workers \ {w} : pc'[v] = pc[v] /\ queue'[v] = queue[v] /\ cur'[v] = cur[v]
  BY DEF Moves, Shape, WorkerShape
<1> QED
  BY <1>1 DEF Holders, Leasing, Pending

\* Steps after which nobody has gained anything.
LEMMA NoGain ==
  ASSUME Shape, Shape', NEW t \in Ticks, LockCount(t) /\ ExecCount(t),
         lock'[t] = lock[t], expiries'[t] = expiries[t], lockouts'[t] = lockouts[t],
         Cardinality(Holders(t)') <= Cardinality(Holders(t)),
         Cardinality(Leasing(t)') <= Cardinality(Leasing(t)),
         execs'[t] + Cardinality(Pending(t)') <= execs[t] + Cardinality(Pending(t)),
         Available(t)' => Available(t)
  PROVE  LockCount(t)' /\ ExecCount(t)'
<1>1. /\ expiries[t] \in Nat /\ lockouts[t] \in Nat /\ execs[t] \in Nat /\ execs'[t] \in Nat
  BY DEF Shape, TickShape
<1>2. /\ Cardinality(Holders(t)) \in Nat /\ Cardinality(Leasing(t)) \in Nat
      /\ Cardinality(Pending(t)) \in Nat
  BY Finite
<1>3. /\ Cardinality(Holders(t)') \in Nat /\ Cardinality(Leasing(t)') \in Nat
      /\ Cardinality(Pending(t)') \in Nat
  BY Finite
<1>4. Low(t) \in Nat /\ High(t) \in Nat /\ Low(t)' = Low(t) /\ High(t)' = High(t)
  BY <1>1, Products DEF Low, High
<1>5. LockCount(t)'
  BY <1>1, <1>2, <1>3 DEF LockCount
<1>6. ExecCount(t)'
  BY <1>1, <1>2, <1>3, <1>4 DEF ExecCount
<1> QED
  BY <1>5, <1>6

\* A move of one worker after which it holds, leases and awaits nothing new.
LEMMA CountsMove ==
  ASSUME Shape, Shape', Counts, NEW w \in Workers, NEW p, NEW q, NEW c, Moves(w, p, q, c),
         UNCHANGED <<lock, expiries, lockouts, execs>>,
         \A t \in Ticks :
           /\ Available(t)' => Available(t)
           /\ c = t /\ p \in {"locked", "leasing"} => w \in Holders(t)
           /\ c = t /\ p = "leasing" => w \in Leasing(t)
           /\ t \in q /\ ~(c = t /\ p \in Past) => w \in Pending(t)
  PROVE  Counts'
<1> SUFFICES ASSUME NEW t \in Ticks
             PROVE  LockCount(t)' /\ ExecCount(t)'
  BY DEF Counts
<1>1. /\ IsFiniteSet(Holders(t)) /\ IsFiniteSet(Leasing(t)) /\ IsFiniteSet(Pending(t))
      /\ Cardinality(Pending(t)) \in Nat /\ Cardinality(Pending(t)') \in Nat
  BY Finite
<1>2. /\ Holders(t) \ {w} = Holders(t)' \ {w} /\ (w \in Holders(t)' => w \in Holders(t))
      /\ Leasing(t) \ {w} = Leasing(t)' \ {w} /\ (w \in Leasing(t)' => w \in Leasing(t))
      /\ Pending(t) \ {w} = Pending(t)' \ {w} /\ (w \in Pending(t)' => w \in Pending(t))
  BY MoveCounts
<1>3. /\ Cardinality(Holders(t)') <= Cardinality(Holders(t))
      /\ Cardinality(Leasing(t)') <= Cardinality(Leasing(t))
      /\ Cardinality(Pending(t)') <= Cardinality(Pending(t))
  BY <1>1, <1>2, OneMore
<1>4. execs[t] \in Nat
  BY DEF Shape, TickShape
<1>5. execs'[t] + Cardinality(Pending(t)') <= execs[t] + Cardinality(Pending(t))
  BY <1>1, <1>3, <1>4
<1> QED
  BY <1>3, <1>5, NoGain DEF Counts

\* Nothing happens to the workers, and nothing becomes available.
LEMMA CountsRest ==
  ASSUME Shape, Shape', Counts, WorkersRest, UNCHANGED <<lock, expiries, lockouts, execs>>,
         \A t \in Ticks : Available(t)' => Available(t)
  PROVE  Counts'
<1> SUFFICES ASSUME NEW t \in Ticks
             PROVE  LockCount(t)' /\ ExecCount(t)'
  BY DEF Counts
<1>1. Holders(t)' = Holders(t) /\ Leasing(t)' = Leasing(t) /\ Pending(t)' = Pending(t)
  BY DEF WorkersRest, Holders, Leasing, Pending
<1>2. /\ Cardinality(Holders(t)) \in Nat /\ Cardinality(Leasing(t)) \in Nat
      /\ Cardinality(Pending(t)) \in Nat /\ execs[t] \in Nat
  BY Finite DEF Shape, TickShape
<1> QED
  BY <1>1, <1>2, NoGain DEF Counts

\* Processing a tick keeps the counts of claims and locks.
LEMMA CountsProcessing ==
  ASSUME Shape, Shape', Counts, NEW w \in Workers,
         \/ ListTicks(w) \/ EndClaim(w) \/ LoadTick(w)
         \/ MissingAgent(w) \/ Skip(w) \/ Complete(w) \/ Fail(w)
         \/ ContractInactive(w) \/ BudgetExhausted(w) \/ Throws(w)
         \/ TickRejects(w) \/ Crash(w)
  PROVE  Counts'
<1>0. NoTick \notin Ticks
  BY DEF NoTick, Ticks
<1>1. CASE ListTicks(w) \/ EndClaim(w) \/ LoadTick(w)
  <2>1. /\ UNCHANGED <<lock, expiries, lockouts, execs, status, lease>>
        /\ pc[w] \in {"idle", "claiming"}
    BY <1>1 DEF ListTicks, EndClaim, LoadTick, Free, claimFrame, tickFrame, tickVars, ranOut
  <2>2. PICK p, c : p \in {"idle", "claiming", "loaded"} /\ Moves(w, p, queue[w], c)
    <3>1. \/ Moves(w, "claiming", queue[w], cur[w]) \/ Moves(w, "idle", queue[w], cur[w])
          \/ \E c \in queue[w] : Moves(w, "loaded", queue[w], c)
      BY <1>1, WorkerMoves
    <3> QED
      BY <3>1
  <2>3. \A t \in Ticks : /\ Available(t)' => Available(t)
                         /\ t \in queue[w] => w \in Pending(t)
    BY <2>1 DEF Available, Claimable, Pending, Past
  <2>4. p \notin {"locked", "leasing"}
    BY <2>2
  <2> QED
    BY <2>1, <2>2, <2>3, <2>4, CountsMove
<1>2. CASE MissingAgent(w) \/ Skip(w) \/ Complete(w) \/ Fail(w)
  <2>1. PICK s, l : s \in Ended /\ Finish(w, s, l)
    BY <1>2 DEF MissingAgent, Skip, Complete, Fail, Ended
  <2>2. pc[w] \in WorkPlaces
    BY <1>2 DEF MissingAgent, Skip, Complete, Fail, WorkPlaces
  <2>3. cur[w] \in Ticks
    BY <2>2 DEF Shape, WorkerShape
  <2>4. /\ UNCHANGED <<lock, expiries, lockouts, execs>>
        /\ Moves(w, "idle", queue[w] \ {cur[w]}, NoTick)
    BY <2>1, WorkerMoves DEF Finish, tickFrame, ranOut
  <2>5. \A t \in Ticks : /\ status'[t] = IF t = cur[w] THEN s ELSE status[t]
                         /\ t # cur[w] => lease'[t] = lease[t]
    BY <2>1, <2>3 DEF Finish, Shape, TickShape
  <2>6. \A t \in Ticks : Available(t)' => Available(t)
    BY <2>1, <2>5 DEF Available, Claimable, Ended
  <2>7. \A t \in Ticks : t \in queue[w] \ {cur[w]} => w \in Pending(t)
    BY DEF Pending
  <2> QED
    BY <1>0, <2>4, <2>6, <2>7, CountsMove
<1>3. CASE ContractInactive(w) \/ BudgetExhausted(w) \/ Throws(w)
  <2>1. PICK p \in Past : Goto(w, p)
    BY <1>3 DEF ContractInactive, BudgetExhausted, Throws, Past
  <2>2. execs' = execs
    BY <1>3 DEF ContractInactive, BudgetExhausted, Throws
  <2>3. /\ UNCHANGED <<lock, expiries, lockouts, status, lease>>
        /\ Moves(w, p, queue[w], cur[w])
    BY <2>1, WorkerMoves DEF Goto, tickFrame, ranOut
  <2>4. \A t \in Ticks : /\ Available(t)' => Available(t)
                         /\ t \in queue[w] /\ cur[w] # t => w \in Pending(t)
    BY <2>3 DEF Available, Claimable, Pending
  <2>5. p \notin {"locked", "leasing"}
    BY <2>1 DEF Past
  <2> QED
    BY <2>1, <2>2, <2>3, <2>4, <2>5, CountsMove
<1>4. CASE TickRejects(w) \/ Crash(w)
  <2>1. /\ UNCHANGED <<lock, expiries, lockouts, execs, status, lease>>
        /\ Moves(w, "idle", {}, NoTick)
    BY <1>4, WorkerMoves DEF TickRejects, Crash, Reset, tickVars, ranOut
  <2>2. \A t \in Ticks : Available(t)' => Available(t)
    BY <2>1 DEF Available, Claimable
  <2> QED
    BY <1>0, <2>1, <2>2, CountsMove
<1> QED
  BY <1>1, <1>2, <1>3, <1>4

\* Executing a tick is paid for by a claim that has been counted.
LEMMA CountsExecute ==
  ASSUME Shape, Shape', Counts, NEW w \in Workers, Execute(w)
  PROVE  Counts'
<1> SUFFICES ASSUME NEW t \in Ticks
             PROVE  LockCount(t)' /\ ExecCount(t)'
  BY DEF Counts
<1>1. /\ UNCHANGED <<lock, expiries, lockouts, status, lease>> /\ pc[w] = "loaded"
      /\ Moves(w, "executed", queue[w], cur[w])
      /\ execs' = [execs EXCEPT ![cur[w]] = @ + 1]
  BY WorkerMoves DEF Execute, Goto, tickFrame, ranOut
<1>2. cur[w] \in queue[w] /\ cur[w] \in Ticks /\ execs \in [Ticks -> Nat]
  BY <1>1 DEF Shape, WorkerShape, TickShape, WorkPlaces
<1>3. /\ IsFiniteSet(Holders(t)) /\ IsFiniteSet(Leasing(t)) /\ IsFiniteSet(Pending(t))
  BY Finite
<1>4. /\ Holders(t) \ {w} = Holders(t)' \ {w} /\ w \notin Holders(t)'
      /\ Leasing(t) \ {w} = Leasing(t)' \ {w} /\ w \notin Leasing(t)'
      /\ Pending(t) \ {w} = Pending(t)' \ {w} /\ (w \in Pending(t)' <=> t \in queue[w] /\ cur[w] # t)
      /\ (w \in Pending(t) <=> t \in queue[w])
  <2>1. "executed" \notin {"locked", "leasing"} /\ "executed" \in Past /\ "loaded" \notin Past
    BY DEF Past
  <2>2. w \in Pending(t) <=> t \in queue[w]
    BY <1>1, <2>1 DEF Pending
  <2> QED
    BY <1>1, <2>1, <2>2, MoveCounts
<1>5. /\ Cardinality(Holders(t)') <= Cardinality(Holders(t))
      /\ Cardinality(Leasing(t)') <= Cardinality(Leasing(t))
  BY <1>3, <1>4, OneMore
<1>6. execs'[t] + Cardinality(Pending(t)') <= execs[t] + Cardinality(Pending(t))
  <2>1. CASE t = cur[w]
    <3>1. /\ Cardinality(Pending(t)') + 1 = Cardinality(Pending(t))
          /\ Cardinality(Pending(t)') \in Nat
      BY <1>2, <1>3, <1>4, <2>1, OneMore
    <3> QED
      BY <1>1, <1>2, <2>1, <3>1
  <2>2. CASE t # cur[w]
    <3>1. /\ Cardinality(Pending(t)') <= Cardinality(Pending(t))
          /\ Cardinality(Pending(t)') \in Nat /\ Cardinality(Pending(t)) \in Nat
      BY <1>3, <1>4, <2>2, OneMore
    <3> QED
      BY <1>1, <1>2, <2>2, <3>1
  <2> QED
    BY <2>1, <2>2
<1>7. Available(t)' => Available(t)
  BY <1>1 DEF Available, Claimable
<1> QED
  BY <1>1, <1>5, <1>6, <1>7, NoGain DEF Counts

\* A claim in the in-memory store is paid for by the end of the last lease.
LEMMA CountsClaimInMemory ==
  ASSUME Shape, Shape', Counts, NEW w \in Workers, ClaimInMemory(w)
  PROVE  Counts'
<1> SUFFICES ASSUME NEW t \in Ticks
             PROVE  LockCount(t)' /\ ExecCount(t)'
  BY DEF Counts
<1>1. PICK S \in SUBSET {u \in Ticks : Claimable(u)} :
        Lease(S) /\ queue' = [queue EXCEPT ![w] = S]
  BY DEF ClaimInMemory
<1>2. /\ UNCHANGED <<store, bucket, planned, execs, pc, cand, cur, lock, expiries, lockouts>>
      /\ pc[w] = "idle" /\ store = "memory" /\ queue[w] = {}
  BY <1>1 DEF ClaimInMemory, claimFrame, Free, Lease, ranOut
<1>3. /\ status'[t] = IF t \in S THEN "IN_PROGRESS" ELSE status[t]
      /\ lease'[t] = IF t \in S THEN "held" ELSE lease[t]
  BY <1>1 DEF Lease
<1>4. Moves(w, "idle", S, cur[w])
  BY <1>1, <1>2 DEF Moves, Shape, WorkerShape
<1>5. /\ Holders(t) = {} /\ Leasing(t) = {} /\ Holders(t)' = {} /\ Leasing(t)' = {}
  <2>1. \A v \in Workers : pc[v] \notin {"locked", "leasing"} /\ pc'[v] \notin {"locked", "leasing"}
    BY <1>2 DEF Shape, WorkerShape, ClaimPlaces
  <2> QED
    BY <2>1 DEF Holders, Leasing
<1>6. Pending(t) \ {w} = Pending(t)' \ {w} /\ w \notin Pending(t) /\ (w \in Pending(t)' => t \in S)
  BY <1>2, <1>4, MoveCounts DEF Pending
<1>7. /\ IsFiniteSet(Pending(t)) /\ Cardinality(Pending(t)) \in Nat /\ Cardinality(Pending(t)') \in Nat
      /\ Cardinality({}) = 0
  BY Finite, FS_EmptySet
<1>8. CASE t \notin S
  <2>1. Cardinality(Pending(t)') <= Cardinality(Pending(t))
    BY <1>6, <1>7, <1>8, OneMore
  <2>2. Available(t)' => Available(t)
    BY <1>3, <1>8 DEF Available, Claimable
  <2>3. execs[t] \in Nat
    BY DEF Shape, TickShape
  <2>4. execs'[t] + Cardinality(Pending(t)') <= execs[t] + Cardinality(Pending(t))
    BY <1>2, <1>7, <2>1, <2>3
  <2>5. /\ Cardinality(Holders(t)') <= Cardinality(Holders(t))
        /\ Cardinality(Leasing(t)') <= Cardinality(Leasing(t))
    BY <1>5, <1>7
  <2> QED
    BY <1>2, <2>2, <2>4, <2>5, NoGain DEF Counts
<1>9. CASE t \in S
  <2>1. Cardinality(Pending(t)') <= Cardinality(Pending(t)) + 1
    BY <1>6, <1>7, OneMore
  <2>2. Available(t) /\ ~Available(t)'
    BY <1>1, <1>3, <1>9 DEF Available, Claimable
  <2>3. execs[t] + Cardinality(Pending(t)) <= Low(t)
    BY <2>2 DEF Counts, ExecCount
  <2>4. expiries[t] \in Nat /\ lockouts[t] \in Nat /\ execs[t] \in Nat /\ execs'[t] = execs[t]
    BY <1>2 DEF Shape, TickShape
  <2>5. /\ Low(t) \in Nat /\ High(t) \in Nat /\ High(t) = Low(t) + 1 + lockouts[t]
        /\ High(t)' = High(t)
    BY <1>2, <2>4, Products DEF Low, High
  <2>6. execs'[t] + Cardinality(Pending(t)') + Cardinality(Leasing(t)') <= High(t)'
    BY <1>5, <1>7, <2>1, <2>3, <2>4, <2>5
  <2>7. LockCount(t)'
    BY <1>2, <1>5 DEF Counts, LockCount
  <2> QED
    BY <2>2, <2>6, <2>7 DEF ExecCount
<1> QED
  BY <1>8, <1>9

\* A worker takes a lock that is free.
LEMMA CountsLockTick ==
  ASSUME Shape, Shape', Counts, NEW w \in Workers, LockTick(w)
  PROVE  Counts'
<1>1. /\ UNCHANGED <<status, lease, expiries, lockouts, execs, queue>> /\ pc[w] = "claiming"
  BY DEF LockTick, claimFrame, tickVars, ranOut
<1>2. PICK u \in cand[w] :
        \/ lock[u] /\ UNCHANGED <<pc, cur, lock>>
        \/ /\ ~lock[u] /\ lock' = [lock EXCEPT ![u] = TRUE]
           /\ cur' = [cur EXCEPT ![w] = u] /\ pc' = [pc EXCEPT ![w] = "locked"]
  BY DEF LockTick, Earliest
<1>3. \A t \in Ticks : Available(t)' => Available(t)
  BY <1>1 DEF Available, Claimable
<1>4. CASE UNCHANGED <<pc, cur, lock>>
  BY <1>1, <1>3, <1>4, CountsRest DEF WorkersRest
<1>5. CASE /\ ~lock[u] /\ lock' = [lock EXCEPT ![u] = TRUE]
           /\ cur' = [cur EXCEPT ![w] = u] /\ pc' = [pc EXCEPT ![w] = "locked"]
  <2> SUFFICES ASSUME NEW t \in Ticks
               PROVE  LockCount(t)' /\ ExecCount(t)'
    BY DEF Counts
  <2>1. Moves(w, "locked", queue[w], u)
    BY <1>1, <1>5 DEF Moves, Shape, WorkerShape
  <2>2. u \in Ticks /\ lock \in [Ticks -> BOOLEAN] /\ lockouts[t] \in Nat /\ execs[t] \in Nat
        /\ expiries[t] \in Nat
    BY <1>2 DEF Shape, WorkerShape, TickShape
  <2>3. /\ IsFiniteSet(Holders(t)) /\ IsFiniteSet(Leasing(t)) /\ IsFiniteSet(Pending(t))
        /\ Cardinality(Holders(t)) \in Nat /\ Cardinality(Holders(t)') \in Nat
        /\ Cardinality(Pending(t)) \in Nat /\ Cardinality(Pending(t)') \in Nat
    BY Finite
  <2>4. /\ Holders(t) \ {w} = Holders(t)' \ {w} /\ (w \in Holders(t)' => t = u)
        /\ Leasing(t) \ {w} = Leasing(t)' \ {w} /\ w \notin Leasing(t)'
        /\ Pending(t) \ {w} = Pending(t)' \ {w}
        /\ (w \in Pending(t)' => t \in queue[w])
    BY <2>1, MoveCounts
  <2>5. t \in queue[w] => w \in Pending(t)
    BY <1>1 DEF Pending, Past
  <2>6. /\ Cardinality(Leasing(t)') <= Cardinality(Leasing(t))
        /\ Cardinality(Pending(t)') <= Cardinality(Pending(t))
        /\ Cardinality(Holders(t)') <= Cardinality(Holders(t)) + 1
    BY <2>3, <2>4, <2>5, OneMore
  <2>7. execs'[t] + Cardinality(Pending(t)') <= execs[t] + Cardinality(Pending(t))
    BY <1>1, <2>2, <2>3, <2>6
  <2>8. CASE t # u
    <3>1. lock'[t] = lock[t] /\ Cardinality(Holders(t)') <= Cardinality(Holders(t))
      BY <1>5, <2>2, <2>3, <2>4, <2>8, OneMore
    <3> QED
      BY <1>1, <1>3, <2>6, <2>7, <3>1, NoGain DEF Counts
  <2>9. CASE t = u
    <3>1. lock'[t] = TRUE /\ Cardinality(Holders(t)) <= lockouts[t]
      BY <1>5, <2>2, <2>9 DEF Counts, LockCount
    <3>2. LockCount(t)'
      BY <1>1, <2>2, <2>3, <2>6, <3>1 DEF LockCount
    <3>3. ExecCount(t)'
      <4>1. /\ Low(t) \in Nat /\ High(t) \in Nat /\ Low(t)' = Low(t) /\ High(t)' = High(t)
        BY <1>1, <2>2, Products DEF Low, High
      <4>2. Cardinality(Leasing(t)) \in Nat /\ Cardinality(Leasing(t)') \in Nat
        BY Finite
      <4> QED
        BY <1>1, <1>3, <2>2, <2>3, <2>6, <2>7, <4>1, <4>2 DEF Counts, ExecCount
    <3> QED
      BY <3>2, <3>3
  <2> QED
    BY <2>8, <2>9
<1> QED
  BY <1>2, <1>4, <1>5

\* A worker looks again, and goes on if the tick can still be claimed.
LEMMA CountsLookAgain ==
  ASSUME Shape, Shape', Counts, NEW w \in Workers, LookAgain(w)
  PROVE  Counts'
<1> SUFFICES ASSUME NEW t \in Ticks
             PROVE  LockCount(t)' /\ ExecCount(t)'
  BY DEF Counts
<1> DEFINE u == cur[w]
<1>1. /\ UNCHANGED <<status, lease, expiries, lockouts, execs, queue>> /\ pc[w] = "locked"
  BY DEF LookAgain, claimFrame, tickVars, ranOut
<1>2. /\ u \in Ticks /\ lock \in [Ticks -> BOOLEAN] /\ lockouts[t] \in Nat /\ execs[t] \in Nat
      /\ expiries[t] \in Nat
  BY <1>1 DEF Shape, WorkerShape, TickShape
<1>3. Available(t)' => Available(t)
  BY <1>1 DEF Available, Claimable
<1>4. /\ IsFiniteSet(Holders(t)) /\ IsFiniteSet(Leasing(t)) /\ IsFiniteSet(Pending(t))
      /\ Cardinality(Holders(t)) \in Nat /\ Cardinality(Holders(t)') \in Nat
      /\ Cardinality(Leasing(t)) \in Nat /\ Cardinality(Leasing(t)') \in Nat
      /\ Cardinality(Pending(t)) \in Nat /\ Cardinality(Pending(t)') \in Nat
      /\ Cardinality(Leasing(t)') <= Cardinality(Holders(t)')
  BY Finite
<1>5. /\ w \in Holders(t) <=> t = u
      /\ w \notin Leasing(t)
      /\ w \in Pending(t) <=> t \in queue[w]
  BY <1>1 DEF Holders, Leasing, Pending, Past
<1>6. /\ Low(t) \in Nat /\ High(t) \in Nat /\ Low(t)' = Low(t) /\ High(t)' = High(t)
      /\ High(t) = Low(t) + 1 + lockouts[t]
  BY <1>1, <1>2, Products DEF Low, High
<1>7. CASE Claimable(u) /\ pc' = [pc EXCEPT ![w] = "leasing"] /\ UNCHANGED <<cur, lock>>
  <2>1. Moves(w, "leasing", queue[w], u)
    BY <1>1, <1>7 DEF Moves, Shape, WorkerShape
  <2>2. /\ Holders(t) \ {w} = Holders(t)' \ {w} /\ (w \in Holders(t)' <=> t = u)
        /\ Leasing(t) \ {w} = Leasing(t)' \ {w} /\ (w \in Leasing(t)' <=> t = u)
        /\ Pending(t) \ {w} = Pending(t)' \ {w} /\ (w \in Pending(t)' => t \in queue[w])
    BY <2>1, MoveCounts
  <2>3. /\ Cardinality(Holders(t)') <= Cardinality(Holders(t))
        /\ Cardinality(Pending(t)') <= Cardinality(Pending(t))
    BY <1>4, <1>5, <2>2, OneMore
  <2>4. LockCount(t)'
    BY <1>1, <1>2, <1>4, <1>7, <2>3 DEF Counts, LockCount
  <2>5. CASE t # u
    <3>1. Cardinality(Leasing(t)') <= Cardinality(Leasing(t))
      BY <1>4, <2>2, <2>5, OneMore
    <3>2. ExecCount(t)'
      BY <1>1, <1>2, <1>3, <1>4, <1>6, <2>3, <3>1 DEF Counts, ExecCount
    <3> QED
      BY <2>4, <3>2
  <2>6. CASE t = u
    <3>1. execs[t] + Cardinality(Pending(t)) <= Low(t)
      BY <1>7, <2>6 DEF Counts, ExecCount, Available
    <3>2. Cardinality(Holders(t)') <= lockouts[t] + 1
      <4>1. lock[t] \/ ~lock[t]
        OBVIOUS
      <4>2. lock[t] => Cardinality(Holders(t)) <= lockouts[t] + 1
        BY DEF Counts, LockCount
      <4>3. ~lock[t] => Cardinality(Holders(t)) <= lockouts[t]
        BY DEF Counts, LockCount
      <4> QED
        BY <1>2, <1>4, <2>3, <4>1, <4>2, <4>3
    <3>3. execs'[t] + Cardinality(Pending(t)') + Cardinality(Leasing(t)') <= High(t)'
      BY <1>1, <1>2, <1>4, <1>6, <2>3, <3>1, <3>2
    <3>4. execs'[t] + Cardinality(Pending(t)') <= Low(t)'
      BY <1>1, <1>2, <1>4, <1>6, <2>3, <3>1
    <3> QED
      BY <2>4, <3>3, <3>4 DEF ExecCount
  <2> QED
    BY <2>5, <2>6
<1>8. CASE Unlock(w)
  <2>1. Moves(w, "claiming", queue[w], NoTick)
    BY <1>1, <1>8 DEF Unlock, Moves, Shape, WorkerShape
  <2>2. /\ Holders(t) \ {w} = Holders(t)' \ {w} /\ w \notin Holders(t)'
        /\ Leasing(t) \ {w} = Leasing(t)' \ {w} /\ w \notin Leasing(t)'
        /\ Pending(t) \ {w} = Pending(t)' \ {w} /\ (w \in Pending(t)' => t \in queue[w])
    BY <2>1, MoveCounts
  <2>3. /\ Cardinality(Leasing(t)') <= Cardinality(Leasing(t))
        /\ Cardinality(Pending(t)') <= Cardinality(Pending(t))
        /\ Cardinality(Holders(t)') <= Cardinality(Holders(t))
    BY <1>4, <1>5, <2>2, OneMore
  <2>4. ExecCount(t)'
    BY <1>1, <1>2, <1>3, <1>4, <1>6, <2>3 DEF Counts, ExecCount
  <2>5. CASE t # u
    <3>1. lock'[t] = lock[t]
      BY <1>2, <1>8, <2>5 DEF Unlock
    <3>2. LockCount(t)'
      BY <1>1, <1>2, <1>4, <2>3, <3>1 DEF Counts, LockCount
    <3> QED
      BY <2>4, <3>2
  <2>6. CASE t = u
    <3>1. lock'[t] = FALSE /\ Cardinality(Holders(t)') + 1 = Cardinality(Holders(t))
      BY <1>2, <1>4, <1>5, <1>8, <2>2, <2>6, OneMore DEF Unlock
    <3>2. Cardinality(Holders(t)) <= lockouts[t] + 1
      <4>1. lock[t] => Cardinality(Holders(t)) <= lockouts[t] + 1
        BY DEF Counts, LockCount
      <4>2. ~lock[t] => Cardinality(Holders(t)) <= lockouts[t]
        BY DEF Counts, LockCount
      <4> QED
        BY <1>2, <1>4, <4>1, <4>2
    <3>3. LockCount(t)'
      BY <1>1, <1>2, <1>4, <3>1, <3>2 DEF LockCount
    <3> QED
      BY <2>4, <3>3
  <2> QED
    BY <2>5, <2>6
<1> QED
  BY <1>7, <1>8 DEF LookAgain

\* A worker leases the tick and gives the lock away.
LEMMA CountsLeaseLocked ==
  ASSUME Shape, Shape', Counts, NEW w \in Workers, LeaseLocked(w)
  PROVE  Counts'
<1> SUFFICES ASSUME NEW t \in Ticks
             PROVE  LockCount(t)' /\ ExecCount(t)'
  BY DEF Counts
<1> DEFINE u == cur[w]
<1>1. /\ UNCHANGED <<expiries, lockouts, execs>> /\ pc[w] = "leasing" /\ Lease({u})
      /\ lock' = [lock EXCEPT ![u] = FALSE]
      /\ Moves(w, "claiming", queue[w] \cup {u}, NoTick)
  BY WorkerMoves DEF LeaseLocked, Unlock, Lease, claimFrame, ranOut
<1>2. /\ u \in Ticks /\ lock \in [Ticks -> BOOLEAN] /\ lockouts[t] \in Nat /\ execs[t] \in Nat
      /\ expiries[t] \in Nat
  BY <1>1 DEF Shape, WorkerShape, TickShape
<1>3. /\ status'[t] = IF t = u THEN "IN_PROGRESS" ELSE status[t]
      /\ lease'[t] = IF t = u THEN "held" ELSE lease[t]
  BY <1>1 DEF Lease
<1>4. /\ IsFiniteSet(Holders(t)) /\ IsFiniteSet(Leasing(t)) /\ IsFiniteSet(Pending(t))
      /\ Cardinality(Holders(t)) \in Nat /\ Cardinality(Holders(t)') \in Nat
      /\ Cardinality(Leasing(t)) \in Nat /\ Cardinality(Leasing(t)') \in Nat
      /\ Cardinality(Pending(t)) \in Nat /\ Cardinality(Pending(t)') \in Nat
  BY Finite
<1>5. /\ w \in Holders(t) <=> t = u
      /\ w \in Leasing(t) <=> t = u
      /\ w \in Pending(t) <=> t \in queue[w]
  BY <1>1 DEF Holders, Leasing, Pending, Past
<1>6. /\ Holders(t) \ {w} = Holders(t)' \ {w} /\ w \notin Holders(t)'
      /\ Leasing(t) \ {w} = Leasing(t)' \ {w} /\ w \notin Leasing(t)'
      /\ Pending(t) \ {w} = Pending(t)' \ {w} /\ (w \in Pending(t)' => t \in queue[w] \/ t = u)
  BY <1>1, MoveCounts
<1>7. /\ Low(t) \in Nat /\ High(t) \in Nat /\ Low(t)' = Low(t) /\ High(t)' = High(t)
  BY <1>1, <1>2, Products DEF Low, High
<1>8. CASE t # u
  <2>1. /\ Cardinality(Holders(t)') <= Cardinality(Holders(t))
        /\ Cardinality(Leasing(t)') <= Cardinality(Leasing(t))
        /\ Cardinality(Pending(t)') <= Cardinality(Pending(t))
    BY <1>4, <1>5, <1>6, <1>8, OneMore
  <2>2. lock'[t] = lock[t] /\ (Available(t)' => Available(t))
    BY <1>1, <1>2, <1>3, <1>8 DEF Available, Claimable
  <2>3. execs'[t] + Cardinality(Pending(t)') <= execs[t] + Cardinality(Pending(t))
    BY <1>1, <1>2, <1>4, <2>1
  <2> QED
    BY <1>1, <2>1, <2>2, <2>3, NoGain DEF Counts
<1>9. CASE t = u
  <2>1. /\ Cardinality(Holders(t)') + 1 = Cardinality(Holders(t))
        /\ Cardinality(Leasing(t)') + 1 = Cardinality(Leasing(t))
        /\ Cardinality(Pending(t)') <= Cardinality(Pending(t)) + 1
    BY <1>4, <1>5, <1>6, <1>9, OneMore
  <2>2. lock'[t] = FALSE /\ ~Available(t)'
    BY <1>1, <1>2, <1>3, <1>9 DEF Available, Claimable
  <2>3. Cardinality(Holders(t)) <= lockouts[t] + 1
    <3>1. lock[t] => Cardinality(Holders(t)) <= lockouts[t] + 1
      BY DEF Counts, LockCount
    <3>2. ~lock[t] => Cardinality(Holders(t)) <= lockouts[t]
      BY DEF Counts, LockCount
    <3> QED
      BY <1>2, <1>4, <3>1, <3>2
  <2>4. LockCount(t)'
    BY <1>1, <1>2, <1>4, <2>1, <2>2, <2>3 DEF LockCount
  <2>5. execs[t] + Cardinality(Pending(t)) + Cardinality(Leasing(t)) <= High(t)
    BY DEF Counts, ExecCount
  <2>6. execs'[t] + Cardinality(Pending(t)') + Cardinality(Leasing(t)') <= High(t)'
    BY <1>1, <1>2, <1>4, <1>7, <2>1, <2>5
  <2> QED
    BY <2>2, <2>4, <2>6 DEF ExecCount
<1> QED
  BY <1>8, <1>9

\* A lease or a lock runs out.
LEMMA CountsExpiry ==
  ASSUME Shape, Shape', Counts, LeaseExpires \/ LockExpires
  PROVE  Counts'
<1> SUFFICES ASSUME NEW t \in Ticks
             PROVE  LockCount(t)' /\ ExecCount(t)'
  BY DEF Counts
<1>1. WorkersRest /\ UNCHANGED <<status, execs>>
  BY DEF LeaseExpires, LockExpires, WorkersRest, claims
<1>2. Holders(t)' = Holders(t) /\ Leasing(t)' = Leasing(t) /\ Pending(t)' = Pending(t)
  BY <1>1 DEF WorkersRest, Holders, Leasing, Pending
<1>3. /\ Cardinality(Holders(t)) \in Nat /\ Cardinality(Leasing(t)) \in Nat
      /\ Cardinality(Pending(t)) \in Nat
  BY Finite
<1>4. /\ expiries \in [Ticks -> Nat] /\ lockouts \in [Ticks -> Nat] /\ execs[t] \in Nat
      /\ lock \in [Ticks -> BOOLEAN] /\ lease \in [Ticks -> {"none", "held", "expired"}]
      /\ expiries[t] \in Nat /\ lockouts[t] \in Nat
  BY DEF Shape, TickShape
<1>5. /\ Low(t) \in Nat /\ High(t) \in Nat /\ Low(t) <= High(t)
  BY <1>4, Products DEF Low, High
<1>6. /\ execs[t] + Cardinality(Pending(t)) + Cardinality(Leasing(t)) <= High(t)
      /\ Available(t) => execs[t] + Cardinality(Pending(t)) <= Low(t)
  BY DEF Counts, ExecCount
<1>7. CASE LeaseExpires
  <2>1. PICK u \in Ticks : /\ lease' = [lease EXCEPT ![u] = "expired"]
                           /\ expiries' = [expiries EXCEPT ![u] = @ + 1]
    BY <1>7 DEF LeaseExpires
  <2>2. UNCHANGED <<lockouts, lock>>
    BY <1>7 DEF LeaseExpires, claims
  <2>3. LockCount(t)'
    BY <1>2, <2>2 DEF Counts, LockCount
  <2>4. CASE t = u
    <3>1. expiries'[t] = expiries[t] + 1
      BY <1>4, <2>1, <2>4
    <3>2. Low(t)' = High(t)
      BY <1>4, <2>2, <3>1, Products DEF Low, High
    <3>3. High(t)' = High(t) + 1 + lockouts[t]
      BY <1>4, <2>2, <3>1, Products DEF High
    <3>4. execs'[t] + Cardinality(Pending(t)') + Cardinality(Leasing(t)') <= High(t)'
      BY <1>1, <1>2, <1>3, <1>4, <1>5, <1>6, <3>3
    <3>5. execs'[t] + Cardinality(Pending(t)') <= Low(t)'
      BY <1>1, <1>2, <1>3, <1>4, <1>5, <1>6, <3>2
    <3> QED
      BY <2>3, <3>4, <3>5 DEF ExecCount
  <2>5. CASE t # u
    <3>1. expiries'[t] = expiries[t] /\ lease'[t] = lease[t]
      BY <1>4, <2>1, <2>5
    <3>2. Low(t)' = Low(t) /\ High(t)' = High(t) /\ (Available(t)' => Available(t))
      BY <1>1, <2>2, <3>1 DEF Low, High, Available, Claimable
    <3> QED
      BY <1>1, <1>2, <1>6, <2>3, <3>2 DEF ExecCount
  <2> QED
    BY <2>4, <2>5
<1>8. CASE LockExpires
  <2>1. PICK u \in Ticks : /\ lock[u] /\ lock' = [lock EXCEPT ![u] = FALSE]
                           /\ lockouts' = [lockouts EXCEPT ![u] = @ + 1]
    BY <1>8 DEF LockExpires
  <2>2. UNCHANGED <<lease, expiries>>
    BY <1>8 DEF LockExpires
  <2>3. Available(t)' => Available(t)
    BY <1>1, <2>2 DEF Available, Claimable
  <2>4. CASE t = u
    <3>1. lockouts'[t] = lockouts[t] + 1 /\ lock'[t] = FALSE /\ lock[t]
      BY <1>4, <2>1, <2>4
    <3>2. Low(t)' = Low(t) + expiries[t] /\ High(t)' = High(t) + 1 + expiries[t]
      BY <1>4, <2>2, <3>1, Products DEF Low, High
    <3>3. LockCount(t)'
      BY <1>2, <1>3, <1>4, <3>1 DEF Counts, LockCount
    <3>4. execs'[t] + Cardinality(Pending(t)') + Cardinality(Leasing(t)') <= High(t)'
      BY <1>1, <1>2, <1>3, <1>4, <1>5, <1>6, <3>2
    <3>5. Available(t)' => execs'[t] + Cardinality(Pending(t)') <= Low(t)'
      BY <1>1, <1>2, <1>3, <1>4, <1>5, <1>6, <2>3, <3>2
    <3> QED
      BY <3>3, <3>4, <3>5 DEF ExecCount
  <2>5. CASE t # u
    <3>1. lockouts'[t] = lockouts[t] /\ lock'[t] = lock[t]
      BY <1>4, <2>1, <2>5
    <3>2. Low(t)' = Low(t) /\ High(t)' = High(t)
      BY <2>2, <3>1 DEF Low, High
    <3>3. LockCount(t)'
      BY <1>2, <3>1 DEF Counts, LockCount
    <3> QED
      BY <1>1, <1>2, <1>6, <2>3, <3>2, <3>3 DEF ExecCount
  <2> QED
    BY <2>4, <2>5
<1> QED
  BY <1>7, <1>8

\* Saving a tick keeps the counts.
LEMMA CountsSaveTick ==
  ASSUME Shape, Shape', Counts, SaveTick
  PROVE  Counts'
<1>1. PICK u \in planned : /\ status' = [status EXCEPT ![u] = "SCHEDULED"]
                           /\ lease' = [lease EXCEPT ![u] = "none"]
  BY DEF SaveTick
<1>2. WorkersRest /\ UNCHANGED <<expiries, lockouts, lock, execs>>
  BY DEF SaveTick, WorkersRest, ranOut, claims
<1>3. u \in Ticks /\ status[u] = "none"
  BY <1>1 DEF Shape, TickShape
<1>4. \A t \in Ticks : Available(t)' => Available(t)
  BY <1>1, <1>3 DEF Available, Claimable, Shape, TickShape
<1> QED
  BY <1>2, <1>4, CountsRest

\* The counts hold initially.
LEMMA CountsInit == Init => Counts
<1> SUFFICES ASSUME Init, NEW t \in Ticks
             PROVE  LockCount(t) /\ ExecCount(t)
  BY DEF Counts
<1>1. Holders(t) = {} /\ Leasing(t) = {} /\ Pending(t) = {}
  BY DEF Init, Holders, Leasing, Pending
<1>2. Cardinality({}) = 0
  BY FS_EmptySet
<1>3. lockouts[t] = 0 /\ expiries[t] = 0 /\ execs[t] = 0
  BY DEF Init
<1>4. Low(t) = 0 /\ High(t) = 1
  BY <1>3 DEF Low, High
<1> QED
  BY <1>1, <1>2, <1>3, <1>4 DEF LockCount, ExecCount

\* Every step keeps the counts.
LEMMA CountsStep == Shape /\ Counts /\ [Next]_vars => Counts'
<1> SUFFICES ASSUME Shape, Counts, [Next]_vars
             PROVE  Counts'
  OBVIOUS
<1>0. Shape'
  BY ShapeStep
<1>1. CASE NextBucket \/ (\E a \in Agents : RemoveAgent(a) \/ PlanTick(a)) \/ UNCHANGED vars
  <2>1. Quiet
    BY <1>1, QuietSteps
  <2>2. \A t \in Ticks : Available(t)' => Available(t)
    BY <2>1 DEF Quiet, Available, Claimable
  <2> QED
    BY <1>0, <2>1, <2>2, CountsRest DEF Quiet, WorkersRest
<1>2. CASE SaveTick
  BY <1>0, <1>2, CountsSaveTick
<1>3. CASE LeaseExpires \/ LockExpires
  BY <1>0, <1>3, CountsExpiry
<1>4. ASSUME NEW w \in Workers, Claiming(w)
      PROVE  Counts'
  BY <1>0, <1>4, CountsClaimInMemory, CountsProcessing, CountsLockTick, CountsLookAgain,
     CountsLeaseLocked DEF Claiming
<1>5. ASSUME NEW w \in Workers, Processing(w) \/ Throws(w) \/ TickRejects(w) \/ Crash(w)
      PROVE  Counts'
  BY <1>0, <1>5, CountsProcessing, CountsExecute DEF Processing
<1> QED
  BY <1>1, <1>2, <1>3, <1>4, <1>5 DEF Next, WorkerStep

\* With either store, any number of workers and whatever crashes, the action
\* of a tick is executed at most once, times the leases and the locks of the
\* tick that ran out (claimNextTicks and processClaimedTick).
THEOREM ExecutionsSafe == Spec => []ExecutionsBounded
<1>1. Shape /\ Counts => ExecutionsBounded
  <2> SUFFICES ASSUME Shape, Counts, NEW t \in Ticks
               PROVE  execs[t] <= (1 + expiries[t]) * (1 + lockouts[t])
    BY DEF ExecutionsBounded
  <2>1. /\ expiries[t] \in Nat /\ lockouts[t] \in Nat /\ execs[t] \in Nat
        /\ Cardinality(Pending(t)) \in Nat /\ Cardinality(Leasing(t)) \in Nat
    BY Finite DEF Shape, TickShape
  <2>2. High(t) \in Nat
    BY <2>1, Products DEF High
  <2>3. execs[t] <= High(t)
    BY <2>1, <2>2 DEF Counts, ExecCount
  <2> QED
    BY <2>3 DEF High
<1> QED
  BY <1>1, ShapeInit, ShapeStep, CountsInit, CountsStep, PTL DEF Spec

-----------------------------------------------------------------------------
(* Ticks that have ended. *)

\* As long as no lease and no lock of a tick has run out, a worker that is
\* about to lease it can still claim it, and nobody has claimed it before.
Exclusive ==
  \A t \in Ticks : expiries[t] = 0 /\ lockouts[t] = 0 =>
    /\ Leasing(t) # {} => Claimable(t)
    /\ \A w \in Workers : t \in queue[w] => ~Claimable(t)

\* While no lock of a tick has run out, one worker at most is behind it.
LEMMA OneHolder ==
  ASSUME Shape, Counts, NEW t \in Ticks, lockouts[t] = 0,
         NEW v \in Holders(t), NEW w \in Holders(t)
  PROVE  v = w
<1>1. IsFiniteSet(Holders(t)) /\ Cardinality(Holders(t)) \in Nat /\ lock[t] \in BOOLEAN
  BY Finite DEF Shape, TickShape
<1>2. Cardinality(Holders(t)) <= 1
  <2>1. lock[t] => Cardinality(Holders(t)) <= 1
    BY DEF Counts, LockCount
  <2>2. ~lock[t] => Cardinality(Holders(t)) <= 0
    BY DEF Counts, LockCount
  <2> QED
    BY <1>1, <2>1, <2>2
<1>3. IsFiniteSet(Holders(t) \ {w}) /\ Cardinality(Holders(t) \ {w}) = Cardinality(Holders(t)) - 1
  BY <1>1, FS_RemoveElement
<1>4. Cardinality(Holders(t) \ {w}) \in Nat
  BY <1>3, FS_CardinalityType
<1>5. Cardinality(Holders(t) \ {w}) = 0
  BY <1>1, <1>2, <1>3, <1>4
<1>6. Holders(t) \ {w} = {}
  BY <1>3, <1>5, FS_EmptySet
<1> QED
  BY <1>6

\* A move that leases nothing and claims nothing, and leaves what can be
\* claimed as it is.
LEMMA ExclusiveMove ==
  ASSUME Shape, Exclusive, NEW w \in Workers, NEW p, NEW q, NEW c, Moves(w, p, q, c),
         UNCHANGED <<expiries, lockouts>>, p # "leasing", q \subseteq queue[w],
         \A t \in Ticks : Claimable(t)' => Claimable(t),
         \A t \in Ticks : expiries[t] = 0 /\ lockouts[t] = 0 /\ Leasing(t) # {} =>
                            (Claimable(t) => Claimable(t)')
  PROVE  Exclusive'
<1> SUFFICES ASSUME NEW t \in Ticks, expiries[t] = 0, lockouts[t] = 0
             PROVE  /\ Leasing(t)' # {} => Claimable(t)'
                    /\ \A v \in Workers : t \in queue'[v] => ~Claimable(t)'
  BY DEF Exclusive
<1>1. Leasing(t)' \subseteq Leasing(t)
  <2>1. Leasing(t) \ {w} = Leasing(t)' \ {w} /\ w \notin Leasing(t)'
    BY MoveCounts
  <2> QED
    BY <2>1
<1>2. \A v \in Workers : queue'[v] \subseteq queue[v]
  BY DEF Moves, Shape, WorkerShape
<1> QED
  BY <1>1, <1>2 DEF Exclusive

\* A claim finds no other worker with the tick unless a lease or a lock has run
\* out.
LEMMA ExclusiveClaim ==
  ASSUME Shape, Counts, Exclusive, NEW w \in Workers, Claiming(w)
  PROVE  Exclusive'
<1>1. CASE ListTicks(w) \/ EndClaim(w)
  <2>1. UNCHANGED <<expiries, lockouts, status, lease>>
    BY <1>1 DEF ListTicks, EndClaim, claimFrame, tickVars, ranOut
  <2>2. PICK p \in {"idle", "claiming"} : Moves(w, p, queue[w], cur[w])
    BY <1>1, WorkerMoves
  <2>3. \A t \in Ticks : Claimable(t)' <=> Claimable(t)
    BY <2>1 DEF Claimable
  <2> QED
    BY <2>1, <2>2, <2>3, ExclusiveMove
<1>2. CASE LockTick(w)
  <2>1. UNCHANGED <<expiries, lockouts, status, lease, queue>>
    BY <1>2 DEF LockTick, claimFrame, tickVars, ranOut
  <2>2. PICK u \in cand[w] :
          \/ UNCHANGED <<pc, cur>>
          \/ cur' = [cur EXCEPT ![w] = u] /\ pc' = [pc EXCEPT ![w] = "locked"]
    BY <1>2 DEF LockTick, Earliest
  <2>3. \A t \in Ticks : Claimable(t)' <=> Claimable(t)
    BY <2>1 DEF Claimable
  <2>4. CASE UNCHANGED <<pc, cur>>
    BY <2>1, <2>3, <2>4 DEF Exclusive, Leasing
  <2>5. CASE cur' = [cur EXCEPT ![w] = u] /\ pc' = [pc EXCEPT ![w] = "locked"]
    <3>1. Moves(w, "locked", queue[w], u)
      BY <2>1, <2>5 DEF Moves, Shape, WorkerShape
    <3> QED
      BY <2>1, <2>3, <3>1, ExclusiveMove
  <2> QED
    BY <2>2, <2>4, <2>5
<1>3. CASE LookAgain(w)
  <2>1. UNCHANGED <<expiries, lockouts, status, lease, queue>>
    BY <1>3 DEF LookAgain, claimFrame, tickVars, ranOut
  <2>2. \A t \in Ticks : Claimable(t)' <=> Claimable(t)
    BY <2>1 DEF Claimable
  <2>3. CASE Claimable(cur[w]) /\ pc' = [pc EXCEPT ![w] = "leasing"] /\ UNCHANGED cur
    <3>1. Moves(w, "leasing", queue[w], cur[w])
      BY <2>1, <2>3 DEF Moves, Shape, WorkerShape
    <3>2. \A t \in Ticks : Leasing(t) \ {w} = Leasing(t)' \ {w} /\ (w \in Leasing(t)' => cur[w] = t)
      BY <3>1, MoveCounts
    <3>3. \A t \in Ticks : Leasing(t)' # {} => Leasing(t) # {} \/ cur[w] = t
      BY <3>2
    <3> QED
      BY <2>1, <2>2, <2>3, <3>3 DEF Exclusive
  <2>4. CASE Unlock(w)
    <3>1. Moves(w, "claiming", queue[w], NoTick)
      BY <2>1, <2>4 DEF Unlock, Moves, Shape, WorkerShape
    <3> QED
      BY <2>1, <2>2, <3>1, ExclusiveMove
  <2> QED
    BY <1>3, <2>3, <2>4 DEF LookAgain
<1>4. CASE LeaseLocked(w)
  <2>1. /\ UNCHANGED <<expiries, lockouts>> /\ pc[w] = "leasing" /\ Lease({cur[w]})
        /\ Moves(w, "claiming", queue[w] \cup {cur[w]}, NoTick)
    BY <1>4, WorkerMoves DEF LeaseLocked, Lease, claimFrame, ranOut
  <2>2. cur[w] \in Ticks
    BY <2>1 DEF Shape, WorkerShape
  <2> SUFFICES ASSUME NEW t \in Ticks, expiries[t] = 0, lockouts[t] = 0
               PROVE  /\ Leasing(t)' # {} => Claimable(t)'
                      /\ \A v \in Workers : t \in queue'[v] => ~Claimable(t)'
    BY <2>1 DEF Exclusive
  <2>3. /\ status'[t] = IF t = cur[w] THEN "IN_PROGRESS" ELSE status[t]
        /\ lease'[t] = IF t = cur[w] THEN "held" ELSE lease[t]
    BY <2>1 DEF Lease
  <2>4. Leasing(t) \ {w} = Leasing(t)' \ {w} /\ w \notin Leasing(t)'
    BY <2>1, MoveCounts
  <2>5. \A v \in Workers : queue'[v] \subseteq queue[v] \cup {cur[w]}
    BY <2>1 DEF Moves, Shape, WorkerShape
  <2>6. CASE t = cur[w]
    <3>1. ~Claimable(t)'
      BY <2>3, <2>6 DEF Claimable
    <3>2. Leasing(t)' = {}
      <4>1. w \in Holders(t)
        BY <2>1, <2>6 DEF Holders
      <4>2. \A v \in Leasing(t) : v \in Holders(t)
        BY DEF Leasing, Holders
      <4>3. \A v \in Leasing(t) : v = w
        BY <4>1, <4>2, OneHolder
      <4> QED
        BY <2>4, <4>3
    <3> QED
      BY <3>1, <3>2
  <2>7. CASE t # cur[w]
    <3>1. Claimable(t)' <=> Claimable(t)
      BY <2>3, <2>7 DEF Claimable
    <3> QED
      BY <2>4, <2>5, <2>7, <3>1 DEF Exclusive
  <2> QED
    BY <2>6, <2>7
<1>5. CASE ClaimInMemory(w)
  <2>1. PICK S \in SUBSET {u \in Ticks : Claimable(u)} :
          Lease(S) /\ queue' = [queue EXCEPT ![w] = S]
    BY <1>5 DEF ClaimInMemory
  <2>2. UNCHANGED <<pc, cur, expiries, lockouts>> /\ store = "memory" /\ queue \in [Workers -> SUBSET Ticks]
    BY <1>5, <2>1 DEF ClaimInMemory, Lease, ranOut, Shape, WorkerShape
  <2> SUFFICES ASSUME NEW t \in Ticks, expiries[t] = 0, lockouts[t] = 0
               PROVE  /\ Leasing(t)' # {} => Claimable(t)'
                      /\ \A v \in Workers : t \in queue'[v] => ~Claimable(t)'
    BY <2>2 DEF Exclusive
  <2>3. /\ status'[t] = IF t \in S THEN "IN_PROGRESS" ELSE status[t]
        /\ lease'[t] = IF t \in S THEN "held" ELSE lease[t]
    BY <2>1 DEF Lease
  <2>4. Leasing(t)' = {}
    BY <2>2 DEF Leasing, Shape, WorkerShape, ClaimPlaces
  <2>5. \A v \in Workers : t \in queue'[v] => t \in queue[v] \/ t \in S
    BY <2>1, <2>2
  <2>6. /\ t \in S => ~Claimable(t)'
        /\ t \notin S => (Claimable(t)' <=> Claimable(t))
    BY <2>3 DEF Claimable
  <2> QED
    BY <2>4, <2>5, <2>6 DEF Exclusive
<1> QED
  BY <1>1, <1>2, <1>3, <1>4, <1>5 DEF Claiming

\* Processing a tick gives it to no other worker.
LEMMA ExclusiveProcessing ==
  ASSUME Shape, Exclusive, NEW w \in Workers,
         Processing(w) \/ Throws(w) \/ TickRejects(w) \/ Crash(w)
  PROVE  Exclusive'
<1>1. CASE MissingAgent(w) \/ Skip(w) \/ Complete(w) \/ Fail(w)
  <2>1. PICK s, l : s \in Ended /\ Finish(w, s, l)
    BY <1>1 DEF MissingAgent, Skip, Complete, Fail, Ended
  <2>2. pc[w] \in WorkPlaces
    BY <1>1 DEF MissingAgent, Skip, Complete, Fail, WorkPlaces
  <2>3. cur[w] \in Ticks /\ cur[w] \in queue[w]
    BY <2>2 DEF Shape, WorkerShape
  <2>4. UNCHANGED <<expiries, lockouts>> /\ Moves(w, "idle", queue[w] \ {cur[w]}, NoTick)
    BY <2>1, WorkerMoves DEF Finish, tickFrame, ranOut
  <2>5. \A t \in Ticks : /\ status'[t] = IF t = cur[w] THEN s ELSE status[t]
                         /\ t # cur[w] => lease'[t] = lease[t]
    BY <2>1, <2>3 DEF Finish, Shape, TickShape
  <2>6. /\ \A t \in Ticks : Claimable(t)' => Claimable(t)
        /\ \A t \in Ticks : t # cur[w] => (Claimable(t) => Claimable(t)')
    BY <2>1, <2>5 DEF Claimable, Ended
  <2>7. \A t \in Ticks : expiries[t] = 0 /\ lockouts[t] = 0 /\ Leasing(t) # {} =>
                            (Claimable(t) => Claimable(t)')
    BY <2>3, <2>6 DEF Exclusive
  <2> QED
    BY <2>4, <2>6, <2>7, ExclusiveMove
<1>2. CASE ~(MissingAgent(w) \/ Skip(w) \/ Complete(w) \/ Fail(w))
  <2>1. UNCHANGED <<expiries, lockouts, status, lease>>
    BY <1>2 DEF Processing, LoadTick, ContractInactive, BudgetExhausted, Execute, Throws,
                TickRejects, Crash, Reset, Goto, tickFrame, tickVars, ranOut
  <2>2. \E p, q, c : Moves(w, p, q, c) /\ p # "leasing" /\ q \subseteq queue[w]
    <3>1. CASE LoadTick(w)
      BY <3>1, WorkerMoves
    <3>2. CASE ContractInactive(w) \/ BudgetExhausted(w) \/ Execute(w) \/ Throws(w)
      <4>1. \E p \in Past : Goto(w, p)
        BY <3>2 DEF ContractInactive, BudgetExhausted, Execute, Throws, Past
      <4> QED
        BY <4>1, WorkerMoves DEF Past
    <3>3. CASE TickRejects(w) \/ Crash(w)
      <4>1. Reset(w)
        BY <3>3 DEF TickRejects, Crash
      <4>2. Moves(w, "idle", {}, NoTick)
        BY <4>1, WorkerMoves
      <4>3. "idle" # "leasing" /\ {} \subseteq queue[w]
        OBVIOUS
      <4> QED
        BY <4>2, <4>3
    <3> QED
      BY <1>2, <3>1, <3>2, <3>3 DEF Processing
  <2>3. \A t \in Ticks : Claimable(t)' <=> Claimable(t)
    BY <2>1 DEF Claimable
  <2> QED
    BY <2>1, <2>2, <2>3, ExclusiveMove
<1> QED
  BY <1>1, <1>2

\* Every step keeps a tick with one worker as long as nothing has run out.
LEMMA ExclusiveStep == Shape /\ Counts /\ Exclusive /\ [Next]_vars => Exclusive'
<1> SUFFICES ASSUME Shape, Counts, Exclusive, [Next]_vars
             PROVE  Exclusive'
  OBVIOUS
<1>1. CASE NextBucket \/ (\E a \in Agents : RemoveAgent(a) \/ PlanTick(a)) \/ UNCHANGED vars
  BY <1>1, QuietSteps DEF Quiet, Exclusive, Leasing, Claimable
<1>2. CASE SaveTick
  <2>1. PICK u \in planned : /\ status' = [status EXCEPT ![u] = "SCHEDULED"]
                             /\ lease' = [lease EXCEPT ![u] = "none"]
    BY <1>2 DEF SaveTick
  <2>2. UNCHANGED <<expiries, lockouts, pc, queue, cur>>
    BY <1>2 DEF SaveTick, ranOut, claims
  <2>3. u \in Ticks /\ status[u] = "none"
    BY <2>1 DEF Shape, TickShape
  <2>4. \A w \in Workers : u \notin queue[w] /\ cur[w] # u
    BY <2>3 DEF Shape, KnownSaved, Known
  <2>5. \A t \in Ticks : t # u => (Claimable(t)' <=> Claimable(t))
    BY <2>1 DEF Claimable, Shape, TickShape
  <2>6. \A t \in Ticks : Leasing(t)' = Leasing(t)
    BY <2>2 DEF Leasing
  <2>7. Leasing(u) = {}
    BY <2>4 DEF Leasing
  <2> QED
    BY <2>2, <2>3, <2>4, <2>5, <2>6, <2>7 DEF Exclusive
<1>3. CASE LeaseExpires
  <2>1. PICK u \in Ticks : /\ lease' = [lease EXCEPT ![u] = "expired"]
                           /\ expiries' = [expiries EXCEPT ![u] = @ + 1]
    BY <1>3 DEF LeaseExpires
  <2>2. UNCHANGED <<lockouts, status, pc, queue, cur>>
    BY <1>3 DEF LeaseExpires, claims
  <2>3. expiries \in [Ticks -> Nat] /\ lease \in [Ticks -> {"none", "held", "expired"}]
    BY DEF Shape, TickShape
  <2>4. \A t \in Ticks : expiries'[t] = 0 => t # u /\ expiries[t] = 0 /\ lease'[t] = lease[t]
    BY <2>1, <2>3
  <2> QED
    BY <2>2, <2>4 DEF Exclusive, Leasing, Claimable
<1>4. CASE LockExpires
  <2>1. PICK u \in Ticks : lockouts' = [lockouts EXCEPT ![u] = @ + 1]
    BY <1>4 DEF LockExpires
  <2>2. UNCHANGED <<expiries, lease, status, pc, queue, cur>>
    BY <1>4 DEF LockExpires
  <2>3. \A t \in Ticks : lockouts'[t] = 0 => lockouts[t] = 0
    BY <2>1 DEF Shape, TickShape
  <2> QED
    BY <2>2, <2>3 DEF Exclusive, Leasing, Claimable
<1>5. ASSUME NEW w \in Workers, Claiming(w)
      PROVE  Exclusive'
  BY <1>5, ExclusiveClaim
<1>6. ASSUME NEW w \in Workers, Processing(w) \/ Throws(w) \/ TickRejects(w) \/ Crash(w)
      PROVE  Exclusive'
  BY <1>6, ExclusiveProcessing
<1> QED
  BY <1>1, <1>2, <1>3, <1>4, <1>5, <1>6 DEF Next, WorkerStep

\* Only the steps that save, claim or finish ticks change their status, and
\* only a claim in Redis can take a tick that has ended meanwhile.
LEMMA TakenUp ==
  ASSUME Shape, Exclusive, [Next]_vars, NEW t \in Ticks,
         status[t] \in Ended, status'[t] \notin Ended
  PROVE  store = "redis" /\ expiries[t] + lockouts[t] > 0
<1>1. ~Claimable(t) /\ status[t] # "none"
  BY DEF Claimable, Ended
<1>2. CASE \E w \in Workers : LeaseLocked(w) /\ cur[w] = t
  <2>1. PICK w \in Workers : LeaseLocked(w) /\ cur[w] = t
    BY <1>2
  <2>2. pc[w] = "leasing" /\ store = "redis"
    BY <2>1 DEF LeaseLocked, Shape, WorkerShape, ClaimPlaces
  <2>3. Leasing(t) # {}
    BY <2>1, <2>2 DEF Leasing
  <2>4. ~(expiries[t] = 0 /\ lockouts[t] = 0)
    BY <1>1, <2>3 DEF Exclusive
  <2>5. expiries[t] \in Nat /\ lockouts[t] \in Nat
    BY DEF Shape, TickShape
  <2> QED
    BY <2>2, <2>4, <2>5
<1>3. CASE ~ \E w \in Workers : LeaseLocked(w) /\ cur[w] = t
  <2> SUFFICES status'[t] \in {status[t]} \cup Ended
    OBVIOUS
  <2>0. status \in [Ticks -> {"none", "SCHEDULED", "IN_PROGRESS"} \cup Ended]
    BY DEF Shape, TickShape
  <2>1. CASE NextBucket \/ (\E a \in Agents : RemoveAgent(a) \/ PlanTick(a)) \/ UNCHANGED vars
    BY <2>1, QuietSteps DEF Quiet
  <2>2. CASE SaveTick
    <3>1. PICK u \in planned : status' = [status EXCEPT ![u] = "SCHEDULED"]
      BY <2>2 DEF SaveTick
    <3>2. status[u] = "none"
      BY <3>1 DEF Shape, TickShape
    <3> QED
      BY <1>1, <2>0, <3>1, <3>2
  <2>3. CASE LeaseExpires \/ LockExpires
    BY <2>3 DEF LeaseExpires, LockExpires
  <2>4. ASSUME NEW w \in Workers, Claiming(w)
        PROVE  status'[t] \in {status[t]} \cup Ended
    <3>1. CASE ListTicks(w) \/ EndClaim(w) \/ LockTick(w) \/ LookAgain(w)
      BY <3>1 DEF ListTicks, EndClaim, LockTick, LookAgain, tickVars
    <3>2. CASE LeaseLocked(w)
      BY <1>3, <3>2 DEF LeaseLocked, Lease
    <3>3. CASE ClaimInMemory(w)
      <4>1. PICK S \in SUBSET {u \in Ticks : Claimable(u)} : Lease(S)
        BY <3>3 DEF ClaimInMemory
      <4> QED
        BY <1>1, <4>1 DEF Lease
    <3> QED
      BY <2>4, <3>1, <3>2, <3>3 DEF Claiming
  <2>5. ASSUME NEW w \in Workers, Processing(w) \/ Throws(w) \/ TickRejects(w) \/ Crash(w)
        PROVE  status'[t] \in {status[t]} \cup Ended
    <3>1. CASE \E s, l : s \in Ended /\ Finish(w, s, l)
      BY <2>0, <3>1 DEF Finish
    <3>2. CASE status' = status
      BY <3>2
    <3>3. (\E s, l : s \in Ended /\ Finish(w, s, l)) \/ status' = status
      BY <2>5 DEF Processing, LoadTick, MissingAgent, ContractInactive, BudgetExhausted, Skip,
                  Execute, Complete, Fail, Throws, TickRejects, Crash, Reset, Goto, tickVars, Ended
    <3> QED
      BY <3>1, <3>2, <3>3
  <2> QED
    BY <2>1, <2>2, <2>3, <2>4, <2>5 DEF Next, WorkerStep
<1> QED
  BY <1>2, <1>3

\* A tick that is COMPLETED, SKIPPED or FAILED stays so, whoever crashes and
\* however claims overlap; only in Redis, after a lease or a lock of the tick
\* has run out, can a claim that was looked at before take it up again.
THEOREM EndedSafe == Spec => EndedStays
<1> DEFINE Inv == Shape /\ Counts /\ Exclusive
           Taken == \A t \in Ticks : status[t] \in Ended /\ status'[t] \notin Ended =>
                      store = "redis" /\ expiries[t] + lockouts[t] > 0
<1>1. Init => Exclusive
  BY DEF Init, Exclusive, Leasing
<1>2. Init => Inv
  BY <1>1, ShapeInit, CountsInit
<1>3. Inv /\ [Next]_vars => Inv'
  BY ShapeStep, CountsStep, ExclusiveStep
<1>4. Inv /\ [Next]_vars => [Taken]_vars
  BY TakenUp
<1> QED
  BY <1>2, <1>3, <1>4, PTL DEF Spec, EndedStays
=============================================================================
