---------------------------- MODULE WorkflowRuns ----------------------------
(***************************************************************************)
(* The life of the runs of one workflow definition in DefaultWorkflowEngine: *)
(* startRun with its concurrency limit, the queue of buffered runs and its   *)
(* drain, the executors (executeRun), pauses, the durable sleep scheduler,   *)
(* resumeRun and cancelRun.                                                  *)
(*                                                                           *)
(* The run repository hands out and stores clones, so each thread works on   *)
(* its own copy of a run and only `repo' is shared.  An action is the code   *)
(* between two awaits of a shared store.  What a step of a workflow does is  *)
(* abstracted to its effect on the run: continue, pause, complete or fail.   *)
(* Child runs, the rate limiter and the engine's run cache are left out.     *)
(***************************************************************************)
EXTENDS Integers, FiniteSets

CONSTANTS
  Runs,               \* the runs callers start; a run is also the thread of its startRun or drain
  Tickers,            \* overlapping calls of DurableSleepScheduler.tick
  Resumers,           \* external callers of resumeRun
  Cancellers,         \* callers of cancelRun, one call each
  MaxConcurrentRuns,  \* policy.maxConcurrentRuns
  Buffering,          \* whether a runQueue is configured
  Priority,           \* opts.priority of each run
  WaitKinds,          \* subset of {TRUE, FALSE}: pauses with, and without, wakeAfterMs
  StoreFaults,        \* whether sleepStore.schedule may throw
  MaxPauses,          \* bound: pauses of one run
  NoRun

Threads == Runs \cup Tickers \cup Resumers \cup Cancellers

ASSUME WorkflowRunsAssumption ==
  /\ IsFiniteSet(Runs) /\ MaxConcurrentRuns \in Nat \ {0}
  /\ MaxPauses \in Nat
  /\ Buffering \in BOOLEAN /\ StoreFaults \in BOOLEAN
  /\ WaitKinds \subseteq BOOLEAN
  /\ Priority \in [Runs -> 0..9]
  /\ NoRun \notin Runs
  /\ Tickers \cap Runs = {}
  /\ Resumers \cap (Runs \cup Tickers) = {}
  /\ Cancellers \cap (Runs \cup Tickers \cup Resumers) = {}

VARIABLES
  repo,     \* the status of each run in the repository, "none" before its row exists
  queue,    \* the runs with an entry in the runQueue
  queuedAt, \* when an entry was made, as its place among all entries; 0 before
  drains,   \* calls of drainQueue that have not dequeued yet
  pc,       \* where each thread is
  on,       \* the run a thread works on
  obj,      \* the status of the thread's own copy of the run
  drained,  \* runs started by drainQueue: their executor's result is saved once more
  pauses,   \* how many times a run has paused
  sleep,    \* the runs with a record in the sleep store, which keeps one for each run
  elapsed,  \* the runs whose record's wakeAt has passed
  due       \* the runs whose records a tick has collected and not yet handled

vars == <<repo, queue, queuedAt, drains, pc, on, obj, drained, pauses, sleep, elapsed, due>>
sleepVars == <<sleep, elapsed, due>>
queueVars == <<queue, queuedAt, drains>>

Status == {"pending", "running", "paused", "completed", "failed", "cancelled"}
Terminal == {"completed", "failed", "cancelled"}

Places == {"idle", "free", "full", "enqueuing", "parked", "drawn", "starting", "executing",
           "scheduling", "closing", "resaving", "waking", "reading", "resuming", "cancelling", "done"}

TypeOK ==
  /\ repo \in [Runs -> Status \cup {"none"}]
  /\ queue \subseteq Runs
  /\ queuedAt \in [Runs -> Nat]
  /\ drains \in Nat
  /\ pc \in [Threads -> Places]
  /\ on \in [Threads -> Runs \cup {NoRun}]
  /\ obj \in [Threads -> Status]
  /\ drained \subseteq Runs
  /\ pauses \in [Runs -> 0..MaxPauses]
  /\ sleep \subseteq Runs /\ elapsed \subseteq Runs
  /\ due \in [Tickers -> SUBSET Runs]

Init ==
  /\ repo = [r \in Runs |-> "none"]
  /\ queue = {} /\ queuedAt = [r \in Runs |-> 0] /\ drains = 0
  /\ pc = [t \in Threads |-> "idle"]
  /\ on = [t \in Threads |-> IF t \in Runs THEN t ELSE NoRun]
  /\ obj = [t \in Threads |-> "pending"]
  /\ drained = {}
  /\ pauses = [r \in Runs |-> 0]
  /\ sleep = {} /\ elapsed = {}
  /\ due = [k \in Tickers |-> {}]

Goto(t, place) == pc' = [pc EXCEPT ![t] = place]
Save(r, status) == repo' = [repo EXCEPT ![r] = status]
Own(t, status) == obj' = [obj EXCEPT ![t] = status]

\* countActive: the runs that hold capacity.
Active == {r \in Runs : repo[r] \in {"running", "paused"}}

(***************************************************************************)
(* startRun: count, then create the run, or buffer it, or reject it.        *)
(***************************************************************************)
CountActive(r) ==
  /\ pc[r] = "idle"
  /\ Goto(r, IF Cardinality(Active) < MaxConcurrentRuns THEN "free"
             ELSE IF Buffering THEN "full" ELSE "done")
  /\ UNCHANGED <<repo, on, obj, drained, pauses, queueVars, sleepVars>>

StartRun(r) ==
  /\ pc[r] = "free"
  /\ Save(r, "running") /\ Own(r, "running") /\ Goto(r, "executing")
  /\ UNCHANGED <<on, drained, pauses, queueVars, sleepVars>>

SavePending(r) ==
  /\ pc[r] = "full"
  /\ Save(r, "pending") /\ Goto(r, "enqueuing")
  /\ UNCHANGED <<on, obj, drained, pauses, queueVars, sleepVars>>

\* Mutant of Enqueue: the pending run is returned without a queue entry.
EnqueueForgets(r) ==
  /\ pc[r] = "enqueuing"
  /\ Goto(r, "parked")
  /\ UNCHANGED <<repo, on, obj, drained, pauses, queueVars, sleepVars>>

Enqueue(r) ==
  /\ pc[r] = "enqueuing"
  /\ queue' = queue \cup {r}
  /\ queuedAt' = [queuedAt EXCEPT ![r] = 1 + Cardinality({q \in Runs : queuedAt[q] > 0})]
  /\ Goto(r, "parked")
  /\ UNCHANGED <<repo, on, obj, drained, pauses, drains, sleepVars>>

(***************************************************************************)
(* drainQueue: one call for every run that ends.  dequeue takes the entry   *)
(* of the highest priority, the oldest of those.                            *)
(***************************************************************************)
Foremost(r) ==
  /\ r \in queue
  /\ \A q \in queue : \/ Priority[q] < Priority[r]
                      \/ Priority[q] = Priority[r] /\ queuedAt[r] <= queuedAt[q]

DequeueNothing ==
  /\ drains > 0 /\ queue = {}
  /\ drains' = drains - 1
  /\ UNCHANGED <<repo, queue, queuedAt, pc, on, obj, drained, pauses, sleepVars>>

Dequeue(r) ==
  /\ drains > 0 /\ Foremost(r)
  /\ drains' = drains - 1
  /\ queue' = queue \ {r}
  /\ Goto(r, "drawn")
  /\ UNCHANGED <<repo, queuedAt, on, obj, drained, pauses, sleepVars>>

DrainCheck(r) ==
  /\ pc[r] = "drawn"
  /\ Goto(r, IF repo[r] = "pending" THEN "starting" ELSE "done")
  /\ UNCHANGED <<repo, on, obj, drained, pauses, queueVars, sleepVars>>

DrainStart(r) ==
  /\ pc[r] = "starting"
  /\ Save(r, "running") /\ Own(r, "running") /\ Goto(r, "executing")
  /\ drained' = drained \cup {r}
  /\ UNCHANGED <<on, pauses, queueVars, sleepVars>>

(***************************************************************************)
(* executeRun, as seen from outside.  A thread never looks at the           *)
(* repository again: its own copy decides whether the loop goes on.         *)
(***************************************************************************)
\* Mutant of Returned: every launch saves its result once more.
ReturnedResaves(t) ==
  IF t \in Runs THEN "resaving"
  ELSE IF t \in Tickers /\ due[t] # {} THEN "waking" ELSE "idle"

\* Where a thread goes when executeRun returns: drainQueue saves the result
\* once more, a tick handles its next record, the others are done.
Returned(t) ==
  IF t \in drained THEN "resaving"
  ELSE IF t \in Tickers /\ due[t] # {} THEN "waking"
  ELSE IF t \in Runs THEN "done" ELSE "idle"

\* Mutant of Pause: the loop is not left after the run is saved as paused.
PauseStays(t, timed) ==
  LET r == on[t] IN
  /\ pc[t] = "executing" /\ pauses[r] < MaxPauses
  /\ pauses' = [pauses EXCEPT ![r] = @ + 1]
  /\ Save(r, "paused")
  /\ sleep' = sleep \cup {r}
  /\ UNCHANGED <<pc, on, obj, drained, elapsed, due, queueVars>>

\* Mutant of Pause: the sleep is scheduled before the run is saved as paused.
PauseSchedulesFirst(t, timed) ==
  LET r == on[t] IN
  /\ pc[t] = "executing" /\ pauses[r] < MaxPauses
  /\ pauses' = [pauses EXCEPT ![r] = @ + 1]
  /\ sleep' = sleep \cup {r}
  /\ Own(t, "paused") /\ Goto(t, "closing")
  /\ UNCHANGED <<repo, on, drained, elapsed, due, queueVars>>

\* A wait step, timed or not, or a human task.
Pause(t, timed) ==
  LET r == on[t] IN
  /\ pc[t] = "executing" /\ pauses[r] < MaxPauses
  /\ pauses' = [pauses EXCEPT ![r] = @ + 1]
  /\ Save(r, "paused") /\ Own(t, "paused")
  /\ Goto(t, IF timed THEN "scheduling" ELSE Returned(t))
  /\ UNCHANGED <<on, drained, queueVars, sleepVars>>

Schedule(t) ==
  LET r == on[t] IN
  /\ pc[t] = "scheduling"
  /\ sleep' = sleep \cup {r}
  /\ elapsed' = elapsed \ {r}
  /\ Goto(t, Returned(t))
  /\ UNCHANGED <<repo, on, obj, drained, pauses, due, queueVars>>

\* A store error is swallowed, and the run stays paused without a record.
ScheduleFails(t) ==
  /\ pc[t] = "scheduling" /\ StoreFaults
  /\ Goto(t, Returned(t))
  /\ UNCHANGED <<repo, on, obj, drained, pauses, queueVars, sleepVars>>

\* completeRun and failRun change the thread's copy and call drainQueue.
Finish(t, status) ==
  /\ pc[t] = "executing"
  /\ Own(t, status)
  /\ drains' = IF Buffering THEN drains + 1 ELSE drains
  /\ Goto(t, "closing")
  /\ UNCHANGED <<repo, queue, queuedAt, on, drained, pauses, sleepVars>>

\* Mutant of FinalSave: a failed run is not saved.
FinalSaveSkipsFailed(t) ==
  /\ pc[t] = "closing"
  /\ IF obj[t] = "failed" THEN UNCHANGED repo ELSE Save(on[t], obj[t])
  /\ Goto(t, Returned(t))
  /\ UNCHANGED <<on, obj, drained, pauses, queueVars, sleepVars>>

FinalSave(t) ==
  /\ pc[t] = "closing"
  /\ Save(on[t], obj[t])
  /\ Goto(t, Returned(t))
  /\ UNCHANGED <<on, obj, drained, pauses, queueVars, sleepVars>>

\* A dynamic step persists the spliced graph in the middle of the loop.
SpliceSave(t) ==
  /\ pc[t] = "executing"
  /\ Save(on[t], obj[t])
  /\ UNCHANGED <<pc, on, obj, drained, pauses, queueVars, sleepVars>>

Resave(r) ==
  /\ pc[r] = "resaving"
  /\ Save(r, obj[r])
  /\ Goto(r, "done")
  /\ UNCHANGED <<on, obj, drained, pauses, queueVars, sleepVars>>

(***************************************************************************)
(* resumeRun, for an external caller and for the sleep scheduler.  A run    *)
(* that is not paused makes it throw, which a tick swallows.                *)
(***************************************************************************)
ResumeRun(t, r) ==
  /\ repo[r] = "paused"
  /\ Goto(t, "resuming")
  /\ on' = [on EXCEPT ![t] = r]

ExternalResume(t, r) ==
  /\ pc[t] = "idle"
  /\ ResumeRun(t, r)
  /\ UNCHANGED <<repo, obj, drained, pauses, queueVars, sleepVars>>

ResumeSave(t) ==
  /\ pc[t] = "resuming"
  /\ Save(on[t], "running") /\ Own(t, "running") /\ Goto(t, "executing")
  /\ UNCHANGED <<on, drained, pauses, queueVars, sleepVars>>

(***************************************************************************)
(* DurableSleepScheduler.tick                                               *)
(***************************************************************************)
WakeAtPasses(r) ==
  /\ r \in sleep \ elapsed
  /\ elapsed' = elapsed \cup {r}
  /\ UNCHANGED <<repo, pc, on, obj, drained, pauses, sleep, due, queueVars>>

GetDue(k) ==
  /\ pc[k] = "idle" /\ elapsed # {}
  /\ due' = [due EXCEPT ![k] = elapsed]
  /\ Goto(k, "waking")
  /\ UNCHANGED <<repo, on, obj, drained, pauses, sleep, elapsed, queueVars>>

\* The record of the run is deleted, whichever record that is by now.
TickCancel(k, r) ==
  /\ pc[k] = "waking" /\ r \in due[k]
  /\ due' = [due EXCEPT ![k] = @ \ {r}]
  /\ sleep' = sleep \ {r}
  /\ elapsed' = elapsed \ {r}
  /\ on' = [on EXCEPT ![k] = r]
  /\ Goto(k, "reading")
  /\ UNCHANGED <<repo, obj, drained, pauses, queueVars>>

TickResume(k) ==
  /\ pc[k] = "reading"
  /\ ResumeRun(k, on[k])
  /\ UNCHANGED <<repo, obj, drained, pauses, queueVars, sleepVars>>

TickGivesUp(k) ==
  /\ pc[k] = "reading" /\ repo[on[k]] # "paused"
  /\ Goto(k, Returned(k))
  /\ UNCHANGED <<repo, on, obj, drained, pauses, queueVars, sleepVars>>

(***************************************************************************)
(* cancelRun: whatever the status it read, the run is saved as cancelled.   *)
(***************************************************************************)
CancelRead(c, r) ==
  /\ pc[c] = "idle" /\ repo[r] # "none"
  /\ Goto(c, "cancelling")
  /\ on' = [on EXCEPT ![c] = r]
  /\ UNCHANGED <<repo, obj, drained, pauses, queueVars, sleepVars>>

CancelSave(c) ==
  /\ pc[c] = "cancelling"
  /\ Save(on[c], "cancelled")
  /\ drains' = IF Buffering THEN drains + 1 ELSE drains
  /\ Goto(c, "done")
  /\ UNCHANGED <<queue, queuedAt, on, obj, drained, pauses, sleepVars>>

Executors == Threads \ Cancellers

Execute(t) ==
  \/ \E timed \in WaitKinds : Pause(t, timed)
  \/ \E status \in {"completed", "failed"} : Finish(t, status)

Proceed(t) ==
  \/ Execute(t) \/ Schedule(t) \/ ScheduleFails(t) \/ FinalSave(t) \/ ResumeSave(t)

Launch(r) ==
  \/ StartRun(r) \/ SavePending(r) \/ Enqueue(r)
  \/ DrainCheck(r) \/ DrainStart(r) \/ Resave(r)

Tick(k) ==
  \/ GetDue(k)
  \/ \E r \in Runs : TickCancel(k, r)
  \/ TickResume(k) \/ TickGivesUp(k)

Drain == DequeueNothing \/ \E r \in Runs : Dequeue(r)

Next ==
  \/ \E r \in Runs : CountActive(r) \/ Launch(r) \/ WakeAtPasses(r)
  \/ Drain
  \/ \E t \in Executors : Proceed(t) \/ SpliceSave(t)
  \/ \E k \in Tickers : Tick(k)
  \/ \E t \in Resumers, r \in Runs : ExternalResume(t, r)
  \/ \E c \in Cancellers : CancelSave(c) \/ \E r \in Runs : CancelRead(c, r)

Spec == Init /\ [][Next]_vars

\* Every await settles: stores answer, step handlers return, the interval
\* timer keeps ticking and time passes.  Nobody has to start, resume or
\* cancel a run.
Fairness ==
  /\ \A r \in Runs : WF_vars(Launch(r)) /\ WF_vars(WakeAtPasses(r))
  /\ WF_vars(Drain)
  /\ \A t \in Executors : WF_vars(Proceed(t))
  /\ \A k \in Tickers : WF_vars(Tick(k))
  /\ \A c \in Cancellers : WF_vars(CancelSave(c))

FairSpec == Spec /\ Fairness

-----------------------------------------------------------------------------
\* A run saved as pending is never lost: either the queue holds it, or the
\* startRun that is about to enqueue it, or the drain that took it out; and
\* what the queue holds is held by nobody else (startRun, drainQueue).
PendingOwned ==
  /\ \A r \in Runs : repo[r] = "pending" =>
        r \in queue \/ pc[r] \in {"enqueuing", "drawn", "starting"}
  /\ \A r \in queue : pc[r] = "parked" /\ repo[r] \in {"pending", "cancelled"}

\* A run the repository calls running has a thread that executes it and will
\* save what becomes of it, whoever else resumed, cancelled or re-saved it.
RunningHasExecutor ==
  \A r \in Runs : repo[r] = "running" =>
    \E t \in Executors : on[t] = r /\ pc[t] \in {"executing", "closing"}

\* No two threads execute the same run at the same time.
SoleExecutor ==
  \A t, u \in Executors :
    (pc[t] = "executing" /\ pc[u] = "executing" /\ on[t] = on[u]) => t = u

\* A run that has ended keeps its status.
TerminalFinal ==
  [][\A r \in Runs : repo[r] \in Terminal => repo'[r] = repo[r]]_vars

\* A buffered run is started, or cancelled, in the end.
QueuedRunsStart == \A r \in Runs : repo[r] = "pending" ~> repo[r] # "pending"

\* A run paused by a timed wait leaves that pause without an external resume
\* (for instances in which every wait is timed).
SleepersWake == \A r \in Runs : repo[r] = "paused" ~> repo[r] # "paused"
=============================================================================
