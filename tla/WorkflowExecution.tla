-------------------------- MODULE WorkflowExecution --------------------------
(***************************************************************************)
(* One run of one workflow definition through DefaultWorkflowEngine: the    *)
(* loop of executeRun with skips, idempotency replays, step locks, retries, *)
(* the fallback handler, error boundaries, compensation, the cost ceiling   *)
(* and pauses; the durable stores it writes on the way; process crashes,    *)
(* and recoverRun, resumeRun and tickRun after them.                        *)
(*                                                                           *)
(* An action is the code up to the next write of a durable store, so that   *)
(* a crash can fall between any two of them.  Handlers are external: they   *)
(* succeed or fail at will.  Variables, outputs and timing are abstracted;  *)
(* `executed' and `undone' record what the handlers did to the world.       *)
(***************************************************************************)
EXTENDS Integers, Sequences, FiniteSets, SequencesExt

CONSTANTS
  Steps, NoStep,
  EntryStep,     \* def.entryStepId
  NextStep,      \* resolveNextStep on a truthy output, NoStep at the end
  AltStep,       \* resolveNextStep on a falsy output (NextStep[s] unless s branches)
  Explicit,      \* the steps that declare `next', the others fall back to declaration order
  OnError,       \* step.onError, NoStep without one
  Retries,       \* step.retries
  Budgeted,      \* steps with globalTimeoutMs
  Fallback,      \* steps with a fallbackHandler
  Skippable,     \* steps with skipIf
  Keyed,         \* steps with an idempotencyKey (one value of the key, a store configured)
  Checked,       \* steps with an outputSchema and outputSchemaAction = 'fail'
  Waits,         \* wait and human-task steps
  Compensable,   \* steps with a registered compensation
  Locking,       \* whether a stepLockStore is configured
  DurableRepo,   \* whether the run repository survives a crash
  CostCeiling,   \* policy.costCeiling in executions of a handler, 0 for none
  MaxSteps,      \* policy.maxSteps
  MaxCrashes, MaxResumes,  \* bounds: crashes, and calls of resumeRun and tickRun
  MaxTies                  \* bound: saves in a row that latest() passes over

ASSUME WorkflowExecutionAssumption ==
  /\ IsFiniteSet(Steps) /\ NoStep \notin Steps /\ EntryStep \in Steps
  /\ NextStep \in [Steps -> Steps \cup {NoStep}]
  /\ AltStep \in [Steps -> Steps \cup {NoStep}]
  /\ OnError \in [Steps -> Steps \cup {NoStep}]
  /\ Retries \in [Steps -> Nat]
  /\ Waits \cap (Checked \cup Keyed) = {}
  /\ Locking \in BOOLEAN /\ DurableRepo \in BOOLEAN
  /\ CostCeiling \in Nat /\ MaxSteps \in Nat \ {0, 1}
  /\ MaxCrashes \in Nat /\ MaxResumes \in Nat /\ MaxTies \in Nat

VARIABLES
  pc,        \* where executeRun is; "off" when no call is in progress, "down" after a crash
  run,       \* the run in memory: status, current step, history
  repo,      \* the row of the repository, NoRow without one
  ckpt,      \* the state of the checkpoint that latest() returns, NoState without one
  hidden,    \* how many saves of this process are newer than it
  lock,      \* the step lock records of the run
  cached,    \* steps with an output in the idempotency store
  left,      \* retries left for the current step
  taken,     \* stepsExecuted of this call of executeRun
  limit,     \* maxSteps of this call: 1 for tickRun
  final,     \* finalFailedResult.status
  toUndo,    \* results whose compensation has still to run
  cost,      \* costMeter.total(run.id)
  executed,  \* how often a handler of each step has succeeded
  undone,    \* compensations that have run, in their order
  crashes, resumes,
  lost       \* saves that were hidden when a crash came

vars == <<pc, run, repo, ckpt, hidden, lock, cached, left, taken, limit, final, toUndo, cost,
          executed, undone, crashes, resumes, lost>>

NoState == [at |-> NoStep, history |-> <<>>]
NoRow == [status |-> "none", at |-> NoStep, history |-> <<>>]
StateOf(r) == [at |-> r.at, history |-> r.history]
At == run.at

Init ==
  /\ pc = "off" /\ run = NoRow /\ repo = NoRow /\ ckpt = NoState
  /\ lock = [s \in Steps |-> "none"] /\ cached = {}
  /\ left = 0 /\ taken = 0 /\ limit = MaxSteps /\ final = "failed"
  /\ toUndo = <<>> /\ undone = <<>> /\ cost = 0
  /\ executed = [s \in Steps |-> 0]
  /\ crashes = 0 /\ resumes = 0 /\ hidden = 0 /\ lost = 0

loopVars == <<left, taken, limit, final, toUndo>>
worldVars == <<executed, undone>>
boundVars == <<crashes, resumes, lost>>
stored == <<ckpt, hidden>>

\* What the calls of executeRun start from.
Enter(r, steps) ==
  /\ run' = r /\ pc' = "head" /\ taken' = 0 /\ limit' = steps
  /\ UNCHANGED <<left, final, toUndo>>

(***************************************************************************)
(* The routes of the loop: append a result, move on, save the checkpoint.   *)
(***************************************************************************)
Result(status) == [step |-> At, status |-> status]

\* advanceState: without a next step the run stays where it is.
Advanced(status, next) ==
  [run EXCEPT !.history = Append(@, Result(status)),
              !.at = IF next = NoStep THEN @ ELSE next]

\* Of two checkpoints with the same millisecond in createdAt, latest() goes on
\* returning the older one.
Save(state) ==
  \/ ckpt' = state /\ hidden' = 0
  \/ ckpt # NoState /\ hidden < MaxTies /\ ckpt' = ckpt /\ hidden' = hidden + 1

\* Mutant of AdvanceTo: only the last step is checkpointed.
AdvanceUnsaved(status, next, place) ==
  /\ run' = Advanced(status, next)
  /\ IF place = "completing" \/ ckpt = NoState THEN Save(StateOf(run')) ELSE UNCHANGED stored
  /\ pc' = place

AdvanceTo(status, next, place) ==
  /\ run' = Advanced(status, next)
  /\ Save(StateOf(run'))
  /\ pc' = place

\* The route after a result: to the branch its output selects, or the end.
Advance(status) ==
  \E next \in {NextStep[At], AltStep[At]} :
    AdvanceTo(status, next, IF next = NoStep THEN "completing" ELSE "head")

\* failRun: the status changes in memory, the lock records are cleared.
FailRun ==
  /\ run' = [run EXCEPT !.status = "failed"]
  /\ lock' = [s \in Steps |-> "none"]
  /\ pc' = "final"

MarkDone == lock' = IF Locking THEN [lock EXCEPT ![At] = "done"] ELSE lock
Cache == cached' = IF At \in Keyed THEN cached \cup {At} ELSE cached

(***************************************************************************)
(* The head of the loop.                                                    *)
(***************************************************************************)
WithinSteps == pc = "head" /\ run.status = "running" /\ taken < limit

OutOfSteps ==
  /\ pc = "head" /\ taken >= limit
  /\ taken' = taken + 1
  /\ IF limit = MaxSteps THEN FailRun ELSE pc' = "final" /\ UNCHANGED <<run, lock>>
  /\ UNCHANGED <<repo, stored, cached, left, limit, final, toUndo, cost, worldVars, boundVars>>

SkipStep ==
  /\ WithinSteps /\ At \in Skippable
  /\ taken' = taken + 1
  /\ Advance("skipped")
  /\ UNCHANGED <<repo, lock, cached, left, limit, final, toUndo, cost, worldVars, boundVars>>

\* The idempotency store, then the step locks, may hold the step's output.
Replayable == At \in cached \/ (Locking /\ lock[At] = "done")

ReplayStep ==
  /\ WithinSteps /\ Replayable
  /\ taken' = taken + 1
  /\ Advance("completed")
  /\ UNCHANGED <<repo, lock, cached, left, limit, final, toUndo, cost, worldVars, boundVars>>

LockStep ==
  /\ WithinSteps /\ ~Replayable
  /\ taken' = taken + 1
  /\ lock' = IF Locking THEN [lock EXCEPT ![At] = "locked"] ELSE lock
  /\ left' = Retries[At]
  /\ pc' = "handler"
  /\ UNCHANGED <<run, repo, stored, cached, limit, final, toUndo, cost, worldVars, boundVars>>

(***************************************************************************)
(* The handler and its retries.  The executors of wait and human-task steps *)
(* call no handler and cannot fail.                                         *)
(***************************************************************************)
FirstAttempt == left = Retries[At]

\* The handler acts on the world; postProcessSuccess may reject its output.
HandlerSucceeds(rejected) ==
  /\ pc = "handler"
  /\ rejected => At \in Checked
  /\ pc' = CASE FirstAttempt /\ ~rejected -> "succeeded"
             [] FirstAttempt /\ rejected -> "rejected"
             [] ~FirstAttempt /\ ~rejected -> "recovered"
             [] OTHER -> "failed"
  /\ final' = "completed"   \* finalFailedResult = retryResult, after the rejection
  /\ executed' = IF At \in Waits THEN executed ELSE [executed EXCEPT ![At] = @ + 1]
  /\ cost' = IF At \in Waits THEN cost ELSE cost + 1
  /\ UNCHANGED <<run, repo, stored, lock, cached, left, taken, limit, toUndo, undone, boundVars>>

HandlerFails ==
  /\ pc = "handler" /\ At \notin Waits
  /\ \/ left > 0 /\ left' = left - 1 /\ pc' = pc
     \/ (left = 0 \/ At \in Budgeted) /\ left' = left /\ pc' = "failed"
  /\ final' = "failed"
  /\ UNCHANGED <<run, repo, stored, lock, cached, taken, limit, toUndo, cost, worldVars, boundVars>>

(***************************************************************************)
(* Success at the first attempt: mark, check the ceiling, pause or advance. *)
(* markDone and the idempotency write are one step here, either of them     *)
(* being enough for a replay.                                               *)
(***************************************************************************)
\* Mutant of MarkStepDone: a step is marked although its turn has not come.
MarkNextDone ==
  /\ pc = "succeeded"
  /\ lock' = IF Locking /\ NextStep[At] \in Steps THEN [lock EXCEPT ![NextStep[At]] = "done"] ELSE lock
  /\ Cache /\ pc' = "done"
  /\ UNCHANGED <<run, repo, stored, loopVars, cost, worldVars, boundVars>>

MarkStepDone ==
  /\ pc = "succeeded"
  /\ MarkDone /\ Cache /\ pc' = "done"
  /\ UNCHANGED <<run, repo, stored, loopVars, cost, worldVars, boundVars>>

OverCeiling == CostCeiling > 0 /\ cost > CostCeiling

CostExceeded ==
  /\ pc = "done" /\ OverCeiling
  /\ FailRun
  /\ UNCHANGED <<repo, stored, cached, loopVars, cost, worldVars, boundVars>>

\* The row is saved first, the checkpoint after it.
PauseRun ==
  /\ pc = "done" /\ ~OverCeiling /\ At \in Waits
  /\ run' = [run EXCEPT !.status = "paused", !.history = Append(@, Result("completed"))]
  /\ repo' = run'
  /\ pc' = "pausing"
  /\ UNCHANGED <<stored, lock, cached, loopVars, cost, worldVars, boundVars>>

PauseCheckpoint ==
  /\ pc = "pausing"
  /\ Save(StateOf(run))
  /\ pc' = "off"
  /\ UNCHANGED <<run, repo, lock, cached, loopVars, cost, worldVars, boundVars>>

AdvanceStep ==
  /\ \/ pc = "done" /\ ~OverCeiling /\ At \notin Waits
     \/ pc = "advancing"
  /\ Advance("completed")
  /\ UNCHANGED <<repo, lock, cached, loopVars, cost, worldVars, boundVars>>

\* A retry or the fallback succeeded: no ceiling and no pause on this path.
MarkRecovered ==
  /\ pc = "recovered"
  /\ MarkDone /\ Cache /\ pc' = "advancing"
  /\ UNCHANGED <<run, repo, stored, loopVars, cost, worldVars, boundVars>>

(***************************************************************************)
(* Failure: fallback, error boundary, compensation.                         *)
(***************************************************************************)
FallbackSucceeds ==
  /\ pc = "failed" /\ At \in Fallback
  /\ executed' = [executed EXCEPT ![At] = @ + 1] /\ cost' = cost + 1
  /\ pc' = "recovered"
  /\ UNCHANGED <<run, repo, stored, lock, cached, loopVars, undone, boundVars>>

FallbackFails ==
  /\ pc = "failed" /\ At \in Fallback
  /\ pc' = "boundary"
  /\ UNCHANGED <<run, repo, stored, lock, cached, loopVars, cost, worldVars, boundVars>>

Unrecovered == pc = "boundary" \/ (pc = "failed" /\ At \notin Fallback)

ErrorBoundary ==
  /\ Unrecovered /\ OnError[At] # NoStep
  /\ AdvanceTo(final, OnError[At], "head")
  /\ UNCHANGED <<repo, lock, cached, loopVars, cost, worldVars, boundVars>>

\* The completed steps with a compensation, the latest first.
Completed(history) == {i \in 1..Len(history) :
                         history[i].status = "completed" /\ history[i].step \in Compensable}
Undoable(history) ==
  LET done == Completed(history)
      nth(n) == CHOOSE i \in done : Cardinality({j \in done : j >= i}) = n
  IN  [n \in 1..Cardinality(done) |-> history[nth(n)].step]

\* Mutant of StartCompensation: in order of completion.
CompensateForward ==
  /\ Unrecovered /\ OnError[At] = NoStep
  /\ toUndo' = Reverse(Undoable(run.history))
  /\ pc' = "compensating"
  /\ UNCHANGED <<run, repo, stored, lock, cached, left, taken, limit, final, cost, worldVars, boundVars>>

StartCompensation ==
  /\ Unrecovered /\ OnError[At] = NoStep
  /\ toUndo' = Undoable(run.history)
  /\ pc' = "compensating"
  /\ UNCHANGED <<run, repo, stored, lock, cached, left, taken, limit, final, cost, worldVars, boundVars>>

\* A compensation that throws is recorded, and the next one runs all the same.
Compensate ==
  /\ pc = "compensating" /\ toUndo # <<>>
  /\ undone' = Append(undone, Head(toUndo))
  /\ toUndo' = Tail(toUndo)
  /\ UNCHANGED <<pc, run, repo, stored, lock, cached, left, taken, limit, final, cost, executed, boundVars>>

CompensationEnds ==
  /\ pc = "compensating" /\ toUndo = <<>>
  /\ FailRun
  /\ UNCHANGED <<repo, stored, cached, loopVars, cost, worldVars, boundVars>>

\* A first attempt whose output the schema rejects is neither retried, nor
\* replaced by the fallback, nor compensated.
OutputRejected ==
  /\ pc = "rejected"
  /\ IF OnError[At] # NoStep
     THEN AdvanceTo("failed", OnError[At], "head") /\ UNCHANGED lock
     ELSE FailRun /\ UNCHANGED stored
  /\ UNCHANGED <<repo, cached, loopVars, cost, worldVars, boundVars>>

(***************************************************************************)
(* The end of the loop.  The lock records go before the row is saved.       *)
(***************************************************************************)
CompleteRun ==
  /\ pc = "completing"
  /\ run' = [run EXCEPT !.status = "completed"]
  /\ lock' = [s \in Steps |-> "none"]
  /\ pc' = "final"
  /\ UNCHANGED <<repo, stored, cached, loopVars, cost, worldVars, boundVars>>

\* Mutant of FinalSave: a failed run is not saved.
FinalSaveSkipsFailed ==
  /\ pc = "final"
  /\ repo' = IF run.status = "failed" THEN repo ELSE run
  /\ pc' = "off"
  /\ UNCHANGED <<run, stored, lock, cached, loopVars, cost, worldVars, boundVars>>

FinalSave ==
  /\ pc = "final"
  /\ repo' = run
  /\ pc' = "off"
  /\ UNCHANGED <<run, stored, lock, cached, loopVars, cost, worldVars, boundVars>>

(***************************************************************************)
(* The callers, and the crash.                                              *)
(***************************************************************************)
StartRun ==
  /\ pc = "off" /\ run = NoRow /\ crashes = 0
  /\ Enter([status |-> "running", at |-> EntryStep, history |-> <<>>], MaxSteps)
  /\ repo' = run'
  /\ UNCHANGED <<stored, lock, cached, cost, worldVars, boundVars>>

\* resolveResumeNextId: only a declared next moves a resumed run on.
ResumeTargets(s) == IF s \in Explicit THEN {IF t = NoStep THEN s ELSE t : t \in {NextStep[s], AltStep[s]}}
                                      ELSE {s}

ResumeRun ==
  /\ pc = "off" /\ repo.status = "paused" /\ resumes < MaxResumes
  /\ \E s \in ResumeTargets(repo.at) :
        Enter([repo EXCEPT !.status = "running", !.at = s], MaxSteps)
  /\ repo' = [repo EXCEPT !.status = "running"]
  /\ resumes' = resumes + 1
  /\ UNCHANGED <<stored, lock, cached, cost, worldVars, crashes, lost>>

TickRun ==
  /\ pc = "off" /\ run.status = "running" /\ resumes < MaxResumes
  /\ Enter(run, 1)
  /\ resumes' = resumes + 1
  /\ UNCHANGED <<repo, stored, lock, cached, cost, worldVars, crashes, lost>>

Crash ==
  /\ pc # "down" /\ repo # NoRow /\ crashes < MaxCrashes
  /\ crashes' = crashes + 1
  /\ pc' = "down" /\ run' = NoRow /\ cost' = 0
  /\ repo' = IF DurableRepo THEN repo ELSE NoRow
  /\ left' = 0 /\ taken' = 0 /\ limit' = MaxSteps /\ final' = "failed" /\ toUndo' = <<>>
  /\ lost' = lost + hidden /\ hidden' = 0
  /\ UNCHANGED <<ckpt, lock, cached, worldVars, resumes>>

\* Mutant of Recover: the current step of the checkpoint is ignored.
RecoverRestarts ==
  /\ pc = "down"
  /\ Enter([status |-> "running", at |-> EntryStep, history |-> ckpt.history], MaxSteps)
  /\ repo' = run'
  /\ UNCHANGED <<stored, lock, cached, cost, worldVars, boundVars>>

\* Mutant of Recover: the step of the checkpoint counts as done.
RecoverBehind ==
  /\ pc = "down"
  /\ IF repo = NoRow /\ ckpt # NoState /\ NextStep[ckpt.at] # NoStep
     THEN Enter([status |-> "running", at |-> NextStep[ckpt.at], history |-> ckpt.history], MaxSteps)
          /\ repo' = run'
     ELSE pc' = "off" /\ run' = repo /\ UNCHANGED <<repo, loopVars>>
  /\ UNCHANGED <<stored, lock, cached, cost, worldVars, boundVars>>

\* recoverRun: a row is returned as it is, only a checkpoint is executed.
Recover ==
  /\ pc = "down"
  /\ IF repo = NoRow /\ ckpt # NoState
     THEN Enter([status |-> "running", at |-> ckpt.at, history |-> ckpt.history], MaxSteps)
          /\ repo' = run'
     ELSE pc' = "off" /\ run' = repo /\ UNCHANGED <<repo, loopVars>>
  /\ UNCHANGED <<stored, lock, cached, cost, worldVars, boundVars>>

Loop ==
  \/ OutOfSteps \/ SkipStep \/ ReplayStep \/ LockStep
  \/ \E rejected \in BOOLEAN : HandlerSucceeds(rejected)
  \/ HandlerFails \/ MarkStepDone \/ CostExceeded \/ PauseRun \/ PauseCheckpoint
  \/ AdvanceStep \/ MarkRecovered \/ FallbackSucceeds \/ FallbackFails \/ ErrorBoundary
  \/ StartCompensation \/ Compensate \/ CompensationEnds \/ OutputRejected
  \/ CompleteRun \/ FinalSave

Next == Loop \/ StartRun \/ ResumeRun \/ TickRun \/ Crash \/ Recover

Spec == Init /\ [][Next]_vars

\* Stores answer, handlers return, and a crashed run is recovered.  Nobody
\* has to start, resume or tick a run.
FairSpec == Spec /\ WF_vars(Loop) /\ WF_vars(Recover)

-----------------------------------------------------------------------------
RecordedIn(state, s) == \E i \in 1..Len(state.history) :
                          state.history[i] = [step |-> s, status |-> "completed"]

\* A step is recorded as completed only if its handler or fallback has
\* succeeded, through every replay and recovery (advanceState, isDone).
RecordedWasExecuted ==
  \A s \in Steps \ Waits : RecordedIn(run, s) \/ RecordedIn(ckpt, s) => executed[s] > 0

\* The history is a walk through the definition from its entry step to the
\* current step: whatever was skipped, replayed, retried, paused, resumed or
\* recovered, also from a checkpoint that is not the newest, no step is passed
\* over (resolveNextStep, recoverRun).  A step may be there twice in a row: the
\* last one, recovered after the end, or a wait resumed without a `next'.
Successors(s) == {s, NextStep[s], AltStep[s], OnError[s]}

HistoryIsWalk ==
  LET walk == [i \in 1..Len(run.history) |-> run.history[i].step] \o <<run.at>>
  IN  run # NoRow =>
        /\ walk[1] = EntryStep
        /\ \A i \in 1..Len(walk) - 1 : walk[i + 1] \in Successors(walk[i])

\* No handler succeeds more than once more for each crash; and the handlers
\* that succeed again are, for each crash, the one it cut off and those whose
\* checkpoints latest() has passed over (acyclic definitions, recovery from
\* checkpoints).
Repeated == {s \in Steps : executed[s] > 1}

CrashRepeats ==
  /\ Cardinality(Repeated) <= crashes + lost
  /\ \A s \in Steps : executed[s] <= 1 + crashes

\* A wait or human-task step holds the run until resumeRun is called: no
\* replay and no recovery gets past it.
Passed == {w \in Waits : \E i, j \in 1..Len(run.history) :
             i < j /\ run.history[i].step = w /\ run.history[j].step \notin Waits}

GatesHold == Cardinality(Passed) <= resumes

\* A failed run has compensated every completed step that can be, latest
\* first (acyclic definitions, no cost ceiling).
SagaUnwound ==
  run.status = "failed" => IsSuffix(Undoable(run.history), undone)

\* A crash has given the run back to its caller.
HandedBack ==
  /\ pc = "off" /\ crashes > 0
  /\ IF DurableRepo THEN run.status = "running" ELSE ckpt = NoState

\* Whatever the graph, cycles included, and although the process crashes, a
\* run ends or pauses with its row saved, unless a crash has given it back to
\* its caller: recoverRun executes nothing when the row has survived, and has
\* nothing to execute before the first checkpoint.
RunsEnd ==
  run.status = "running" ~>
    repo.status \in {"completed", "failed", "paused"} \/ HandedBack
=============================================================================
