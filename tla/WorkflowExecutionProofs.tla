----------------------- MODULE WorkflowExecutionProofs -----------------------
(***************************************************************************)
(* Proofs about the execution of a run, for every workflow definition (any  *)
(* graph, branches and cycles included), any handlers that fail and succeed *)
(* at will, any number of retries, crashes and resumptions, and every       *)
(* choice of stores: the history is a walk through the definition, and what *)
(* it records as completed was executed.  For the definitions and stores    *)
(* that allow them: gates hold, a saga is unwound, and a crash repeats no   *)
(* more than the step it cuts off and those whose saves are passed over.    *)
(***************************************************************************)
EXTENDS WorkflowExecution, FiniteSetTheorems, SequenceTheorems, TLAPS

-----------------------------------------------------------------------------
(* Types and control. *)

Results == [step : Steps, status : {"completed", "skipped", "failed"}]
States == [at : Steps, history : Seq(Results)]
Rows == [status : {"running", "paused", "completed", "failed"}, at : Steps, history : Seq(Results)]

\* Where executeRun is while a step fails, and while it acts at all.
Failing == {"failed", "boundary", "compensating"}
Acting == {"head", "handler", "succeeded", "rejected", "done", "recovered", "advancing",
           "completing"} \cup Failing

\* The type invariant.
Shape ==
  /\ pc \in Acting \cup {"off", "down", "pausing", "final"}
  /\ run \in Rows \cup {NoRow} /\ repo \in Rows \cup {NoRow} /\ ckpt \in States \cup {NoState}
  /\ lock \in [Steps -> {"none", "locked", "done"}] /\ cached \subseteq Steps \cap Keyed
  /\ left \in Nat /\ taken \in Nat /\ limit \in {1, MaxSteps} /\ final \in {"completed", "failed"}
  /\ executed \in [Steps -> Nat] /\ cost \in Nat /\ crashes \in Nat /\ resumes \in Nat
  /\ hidden \in Nat /\ lost \in Nat

\* Where the run is, between its callers and its stores.
Control ==
  /\ pc \in Acting => run \in Rows /\ run.status = "running"
  /\ pc = "pausing" => run \in Rows /\ run.status = "paused"
  /\ pc = "final" => run \in Rows /\ run.status # "paused"
  /\ pc \in {"off", "pausing"} => run = repo
  /\ pc = "down" => run = NoRow

\* The executor of a wait succeeds at its first attempt.
WaitsSucceed ==
  /\ pc \in Failing \cup {"rejected", "recovered", "advancing"} => run.at \notin Waits
  /\ pc = "handler" /\ run.at \in Waits => left = Retries[run.at]

\* A result that was rejected is that of a checked step.
RejectedChecked == pc = "rejected" \/ (pc \in Failing /\ final = "completed") => run.at \in Checked

-----------------------------------------------------------------------------
(* What the steps do to the run and its copies. *)

Recorded(status, t) == [status |-> run.status, at |-> t, history |-> Append(run.history, Result(status))]

aside == <<executed, undone, toUndo, crashes, resumes, lost, lock, cached, left, limit, final, cost>>

\* What lets a step be recorded as completed.
Grounded == \/ Replayable \/ pc \in {"done", "advancing"}
            \/ pc \in Failing /\ final = "completed"

\* A result is recorded, checkpointed, and the run moves on to t.
Moves(status, t) ==
  /\ pc \in Acting /\ run \in Rows /\ run.status = "running" /\ At \in Steps
  /\ run' = Recorded(status, t) /\ Save(StateOf(run')) /\ repo' = repo
  /\ t \in Steps /\ t \in Successors(At)
  /\ \/ pc' = "head" /\ t \in {NextStep[At], AltStep[At], OnError[At]}
     \/ pc' = "completing" /\ t = At
  /\ status \in {"completed", "skipped", "failed"} /\ (status = "completed" => Grounded)
  /\ UNCHANGED aside

\* The run ends: with a status, or because a tick has made its step.
Ends(status) ==
  /\ pc \in Acting /\ run \in Rows /\ run.status = "running"
  /\ run' = [run EXCEPT !.status = status] /\ UNCHANGED <<repo, stored>>
  /\ pc' = "final" /\ status \in {"running", "completed", "failed"}
  /\ lock' \in {lock, [s \in Steps |-> "none"]}
  /\ UNCHANGED <<executed, undone, toUndo, crashes, resumes, lost, cached, left, limit, final, cost>>

\* The current step goes on.
Works ==
  /\ pc \in Acting /\ pc' \in Acting \ {"head", "completing"}
  /\ UNCHANGED <<run, repo, stored, limit, crashes, resumes, lost>>

WorkSteps ==
  \/ LockStep \/ \E rejected \in BOOLEAN : HandlerSucceeds(rejected)
  \/ HandlerFails \/ MarkStepDone \/ MarkRecovered \/ FallbackSucceeds \/ FallbackFails
  \/ StartCompensation \/ Compensate

MoveSteps == \/ SkipStep \/ ReplayStep \/ AdvanceStep \/ ErrorBoundary
             \/ (OutputRejected /\ OnError[At] # NoStep)

EndSteps == \/ OutOfSteps \/ CostExceeded \/ CompensationEnds \/ CompleteRun
            \/ (OutputRejected /\ OnError[At] = NoStep)

CallSteps == StartRun \/ ResumeRun \/ TickRun

\* Every step is of one of these kinds.
LEMMA Kinds == Next => \/ WorkSteps \/ MoveSteps \/ EndSteps \/ CallSteps \/ PauseRun
                       \/ PauseCheckpoint \/ FinalSave \/ Crash \/ Recover
BY DEF Next, Loop, WorkSteps, MoveSteps, EndSteps, CallSteps

\* The current step of a run that acts.
LEMMA Current == ASSUME Shape, Control, pc \in Acting
                 PROVE  /\ run \in Rows /\ run.status = "running" /\ At \in Steps
                        /\ run.history \in Seq(Results)
                        /\ {NextStep[At], AltStep[At], OnError[At]} \subseteq Steps \cup {NoStep}
                        /\ Retries[At] \in Nat
BY WorkflowExecutionAssumption DEF Control, Rows, At

\* Work on the current step leaves the run and its copies alone.
LEMMA WorkEffect == ASSUME Shape, Control, WorkSteps PROVE Works
BY DEF WorkSteps, Works, Acting, Failing, LockStep, WithinSteps, HandlerSucceeds, HandlerFails,
       MarkStepDone, MarkRecovered, FallbackSucceeds, FallbackFails, StartCompensation, Compensate,
       Unrecovered, loopVars, worldVars, boundVars

\* Recording a result and moving on.
LEMMA Moving ==
  ASSUME Shape, Control, pc \in Acting, NEW status \in {"completed", "skipped", "failed"},
         NEW next \in {NextStep[At], AltStep[At], OnError[At]},
         NEW place, AdvanceTo(status, next, place), UNCHANGED repo, UNCHANGED aside,
         status = "completed" => Grounded,
         \/ place = "head" /\ next # NoStep
         \/ place = "completing" /\ next = NoStep
  PROVE  \E t : Moves(status, t)
<1> DEFINE t == IF next = NoStep THEN At ELSE next
<1>1. /\ run \in Rows /\ run.status = "running" /\ At \in Steps /\ run.history \in Seq(Results)
      /\ next \in Steps \cup {NoStep}
  BY Current
<1>2. t \in Steps /\ t \in Successors(At)
  BY <1>1 DEF Successors
<1>3. run' = Recorded(status, t)
  BY <1>1 DEF AdvanceTo, Advanced, Recorded, Rows, At
<1>4. \/ pc' = "head" /\ t \in {NextStep[At], AltStep[At], OnError[At]}
      \/ pc' = "completing" /\ t = At
  BY DEF AdvanceTo
<1>5. Save(StateOf(run'))
  BY DEF AdvanceTo
<1> HIDE DEF t
<1>6. Moves(status, t)
  BY <1>1, <1>2, <1>3, <1>4, <1>5 DEF Moves
<1> QED
  BY <1>6

\* Every route of the loop records a result and checkpoints it.
LEMMA MoveEffect == ASSUME Shape, Control, MoveSteps
                    PROVE  \E status, t : Moves(status, t)
<1>1. CASE SkipStep \/ ReplayStep \/ AdvanceStep
  <2>1. PICK status \in {"completed", "skipped"} : Advance(status) /\ (status = "completed" => Grounded)
    BY <1>1 DEF SkipStep, ReplayStep, AdvanceStep, Grounded
  <2>2. PICK next \in {NextStep[At], AltStep[At]} :
           AdvanceTo(status, next, IF next = NoStep THEN "completing" ELSE "head")
    BY <2>1 DEF Advance
  <2>3. pc \in Acting /\ UNCHANGED repo /\ UNCHANGED aside
    BY <1>1 DEF SkipStep, ReplayStep, AdvanceStep, WithinSteps, Acting, aside, loopVars, worldVars,
                boundVars
  <2> QED
    BY <2>1, <2>2, <2>3, Moving
<1>2. CASE ErrorBoundary
  <2>1. pc \in Acting /\ UNCHANGED repo /\ UNCHANGED aside
    BY <1>2 DEF ErrorBoundary, Unrecovered, Acting, Failing, aside, loopVars, worldVars, boundVars
  <2>2. AdvanceTo(final, OnError[At], "head") /\ OnError[At] # NoStep
        /\ final \in {"completed", "skipped", "failed"} /\ (final = "completed" => Grounded)
    BY <1>2 DEF ErrorBoundary, Shape, Unrecovered, Grounded, Failing
  <2> QED
    BY <2>1, <2>2, Moving
<1>3. CASE OutputRejected /\ OnError[At] # NoStep
  <2>1. pc \in Acting /\ UNCHANGED repo /\ UNCHANGED aside
    BY <1>3 DEF OutputRejected, Acting, aside, loopVars, worldVars, boundVars
  <2>2. AdvanceTo("failed", OnError[At], "head")
    BY <1>3 DEF OutputRejected
  <2> QED
    BY <1>3, <2>1, <2>2, Moving
<1> QED
  BY <1>1, <1>2, <1>3 DEF MoveSteps

\* A run that ends keeps its step and its history.
LEMMA EndEffect == ASSUME Shape, Control, EndSteps
                   PROVE  \E status : Ends(status)
<1>1. pc \in Acting /\ pc' = "final"
  BY DEF EndSteps, OutOfSteps, CostExceeded, CompensationEnds, CompleteRun, OutputRejected, FailRun,
         Acting, Failing
<1>2. /\ run \in Rows /\ run.status = "running"
  BY <1>1, Current
<1>3. /\ UNCHANGED <<repo, stored>> /\ lock' \in {lock, [s \in Steps |-> "none"]}
      /\ UNCHANGED <<executed, undone, toUndo, crashes, resumes, lost, cached, left, limit, final, cost>>
  BY DEF EndSteps, OutOfSteps, CostExceeded, CompensationEnds, CompleteRun, OutputRejected, FailRun,
         loopVars, worldVars, boundVars
<1>4. \E status \in {"running", "completed", "failed"} : run' = [run EXCEPT !.status = status]
  <2>1. CASE run' = run
    <3>1. run' = [run EXCEPT !.status = "running"]
      BY <1>2, <2>1 DEF Rows
    <3> QED
      BY <3>1
  <2>2. CASE run' = [run EXCEPT !.status = "failed"] \/ run' = [run EXCEPT !.status = "completed"]
    BY <2>2
  <2> QED
    BY <2>1, <2>2 DEF EndSteps, OutOfSteps, CostExceeded, CompensationEnds, CompleteRun,
                      OutputRejected, FailRun
<1> QED
  BY <1>1, <1>2, <1>3, <1>4 DEF Ends

\* Rows and states keep their types.
LEMMA RowTypes ==
  /\ \A r \in Rows : /\ StateOf(r) \in States /\ r # NoRow
                     /\ \A s \in {"running", "paused", "completed", "failed"} :
                           /\ [r EXCEPT !.status = s] \in Rows
                           /\ [r EXCEPT !.status = s].status = s
                           /\ [r EXCEPT !.status = s].at = r.at
                           /\ [r EXCEPT !.status = s].history = r.history
  /\ NoRow \notin Rows /\ NoState \notin States
BY WorkflowExecutionAssumption DEF Rows, States, StateOf, NoRow, NoState

\* A result can be recorded in a row.
LEMMA RecordedType ==
  ASSUME NEW status \in {"completed", "skipped", "failed"}, NEW t \in Steps,
         run \in Rows, At \in Steps
  PROVE  /\ Recorded(status, t) \in Rows /\ Recorded(status, t).status = run.status
         /\ Recorded(status, t).at = t
         /\ Recorded(status, t).history = Append(run.history, Result(status))
         /\ Result(status) \in Results
<1>1. Result(status) \in Results
  BY DEF Result, Results
<1>2. run.status \in {"running", "paused", "completed", "failed"} /\ run.history \in Seq(Results)
  BY DEF Rows
<1>3. Append(run.history, Result(status)) \in Seq(Results)
  BY <1>1, <1>2
<1> QED
  BY <1>1, <1>2, <1>3 DEF Recorded, Rows

\* What a save leaves: the new state, or the old one with a save hidden.
LEMMA Saves ==
  ASSUME Shape, NEW r \in Rows, Save(StateOf(r))
  PROVE  /\ ckpt' \in States /\ ckpt' # NoState /\ hidden' \in Nat
         /\ \/ ckpt'.at = r.at /\ ckpt'.history = r.history /\ hidden' = 0
            \/ ckpt' = ckpt /\ hidden' = hidden + 1
<1>1. /\ StateOf(r) \in States /\ StateOf(r) # NoState
      /\ StateOf(r).at = r.at /\ StateOf(r).history = r.history
  BY RowTypes DEF StateOf
<1>2. \/ ckpt' = StateOf(r) /\ hidden' = 0
      \/ ckpt # NoState /\ ckpt' = ckpt /\ hidden' = hidden + 1
  BY DEF Save
<1> HIDE DEF StateOf
<1> QED
  BY <1>1, <1>2 DEF Shape

\* The save of a result, and that of a pause.
LEMMA SaveEffect ==
  ASSUME Shape, Control,
         \/ PauseCheckpoint
         \/ \E status, t : Moves(status, t)
  PROVE  /\ run' \in Rows /\ ckpt' \in States /\ ckpt' # NoState /\ hidden' \in Nat
         /\ \/ ckpt'.at = run'.at /\ ckpt'.history = run'.history /\ hidden' = 0
            \/ ckpt' = ckpt /\ hidden' = hidden + 1
<1>1. run' \in Rows /\ Save(StateOf(run'))
  <2>1. CASE PauseCheckpoint
    BY <2>1 DEF PauseCheckpoint, Control
  <2>2. ASSUME NEW status, NEW t, Moves(status, t)
        PROVE  run' \in Rows /\ Save(StateOf(run'))
    BY <2>2, RecordedType DEF Moves
  <2> QED
    BY <2>1, <2>2
<1>2. PICK r \in Rows : r = run'
  BY <1>1
<1>3. Save(StateOf(r))
  BY <1>1, <1>2
<1> QED
  BY <1>2, <1>3, Saves

\* A pause records the gate in the run and in the row.
LEMMA Pausing ==
  ASSUME Shape, Control, PauseRun
  PROVE  /\ run \in Rows /\ run.status = "running" /\ At \in Steps /\ At \in Waits
         /\ run' \in Rows /\ run'.status = "paused" /\ run'.at = At /\ repo' = run'
         /\ run'.history = Append(run.history, Result("completed")) /\ run.history \in Seq(Results)
         /\ UNCHANGED <<stored, lock, cached, loopVars, cost, worldVars, boundVars>>
         /\ pc = "done" /\ pc' = "pausing"
<1>1. run \in Rows /\ run.status = "running" /\ At \in Steps /\ run.history \in Seq(Results)
  BY Current DEF PauseRun, Acting
<1>2. Append(run.history, Result("completed")) \in Seq(Results)
  <2>1. Result("completed") \in Results
    BY <1>1, RecordedType
  <2> QED
    BY <1>1, <2>1
<1>3. run' = [run EXCEPT !.status = "paused", !.history = Append(@, Result("completed"))]
  BY DEF PauseRun
<1>4. /\ run' \in Rows /\ run'.status = "paused" /\ run'.at = run.at
      /\ run'.history = Append(run.history, Result("completed"))
  BY <1>1, <1>2, <1>3 DEF Rows
<1> QED
  BY <1>1, <1>4 DEF PauseRun, At

\* Types and control hold at first.
LEMMA InitControl == Init => Shape /\ Control
BY WorkflowExecutionAssumption
   DEF Init, Shape, Control, Acting, Failing, NoRow, NoState

\* What the work on a step changes.
LEMMA WorkTypes == ASSUME Shape, Control, WorkSteps PROVE Shape'
<1>1. Works /\ At \in Steps /\ Retries[At] \in Nat
  <2>1. Works
    BY WorkEffect
  <2> QED
    BY <2>1, Current DEF Works
<1>2. /\ run' \in Rows \cup {NoRow} /\ repo' \in Rows \cup {NoRow} /\ ckpt' \in States \cup {NoState}
      /\ pc' \in Acting \cup {"off", "down", "pausing", "final"}
      /\ limit' \in {1, MaxSteps} /\ crashes' \in Nat /\ resumes' \in Nat
      /\ hidden' \in Nat /\ lost' \in Nat
  BY <1>1 DEF Works, Shape, stored
<1>3. lock' \in [Steps -> {"none", "locked", "done"}] /\ cached' \subseteq Steps \cap Keyed
  BY <1>1 DEF WorkSteps, LockStep, HandlerSucceeds, HandlerFails, MarkStepDone, MarkRecovered,
              FallbackSucceeds, FallbackFails, StartCompensation, Compensate, MarkDone, Cache, Shape
<1>4. left' \in Nat /\ taken' \in Nat /\ final' \in {"completed", "failed"}
  BY <1>1 DEF WorkSteps, LockStep, HandlerSucceeds, HandlerFails, MarkStepDone, MarkRecovered,
              FallbackSucceeds, FallbackFails, StartCompensation, Compensate, Shape, loopVars
<1>5. executed' \in [Steps -> Nat] /\ cost' \in Nat
  BY <1>1 DEF WorkSteps, LockStep, HandlerSucceeds, HandlerFails, MarkStepDone, MarkRecovered,
              FallbackSucceeds, FallbackFails, StartCompensation, Compensate, Shape, worldVars
<1> QED
  BY <1>2, <1>3, <1>4, <1>5 DEF Shape

\* What the callers put the run into.
Entered(r, steps) ==
  /\ r \in Rows /\ r.status = "running" /\ run' = r /\ pc' = "head" /\ taken' = 0 /\ limit' = steps
  /\ steps \in {1, MaxSteps} /\ pc \in {"off", "down"}
  /\ UNCHANGED <<stored, lock, cached, cost, left, final, toUndo, executed, undone, crashes, lost>>

\* startRun enters the loop at the entry step.
LEMMA Starting == ASSUME Shape, Control, StartRun
                  PROVE  LET r == [status |-> "running", at |-> EntryStep, history |-> <<>>]
                         IN  Entered(r, MaxSteps) /\ repo' = r /\ resumes' = resumes /\ run = NoRow
                             /\ crashes = 0
<1>1. [status |-> "running", at |-> EntryStep, history |-> <<>>] \in Rows
  BY WorkflowExecutionAssumption DEF Rows
<1> QED
  BY <1>1 DEF StartRun, Enter, Entered, worldVars, boundVars

\* resumeRun enters the loop at a successor of the gate.
LEMMA Resuming ==
  ASSUME Shape, Control, ResumeRun
  PROVE  /\ repo \in Rows /\ repo.status = "paused" /\ repo.at \in Steps /\ pc = "off" /\ run = repo
         /\ repo' = [repo EXCEPT !.status = "running"] /\ resumes' = resumes + 1
         /\ \E s \in Steps : /\ s \in Successors(repo.at)
                             /\ Entered([repo EXCEPT !.status = "running", !.at = s], MaxSteps)
                             /\ [repo EXCEPT !.status = "running", !.at = s].at = s
                             /\ [repo EXCEPT !.status = "running", !.at = s].history = repo.history
<1>1. repo \in Rows /\ repo.status = "paused" /\ repo.at \in Steps /\ pc = "off" /\ run = repo
  BY DEF ResumeRun, Shape, Control, Rows, NoRow
<1>2. PICK s \in ResumeTargets(repo.at) : Enter([repo EXCEPT !.status = "running", !.at = s], MaxSteps)
  BY DEF ResumeRun
<1>3. s \in Steps /\ s \in Successors(repo.at)
  BY <1>1, WorkflowExecutionAssumption DEF ResumeTargets, Successors
<1> DEFINE r == [repo EXCEPT !.status = "running", !.at = s]
<1>4. r \in Rows /\ r.status = "running" /\ r.at = s /\ r.history = repo.history
  BY <1>1, <1>3 DEF Rows
<1>5. Enter(r, MaxSteps)
  BY <1>2
<1> HIDE DEF r
<1>6. Entered(r, MaxSteps)
  BY <1>1, <1>4, <1>5 DEF ResumeRun, Enter, Entered, worldVars
<1>7. repo' = [repo EXCEPT !.status = "running"] /\ resumes' = resumes + 1
  BY DEF ResumeRun
<1>8. /\ Entered([repo EXCEPT !.status = "running", !.at = s], MaxSteps)
      /\ [repo EXCEPT !.status = "running", !.at = s].at = s
      /\ [repo EXCEPT !.status = "running", !.at = s].history = repo.history
  BY <1>4, <1>6 DEF r
<1> QED
  BY <1>1, <1>3, <1>7, <1>8

\* tickRun enters the loop where the run is.
LEMMA Ticking == ASSUME Shape, Control, TickRun
                 PROVE  Entered(run, 1) /\ repo' = repo /\ resumes' = resumes + 1 /\ run = repo /\ pc = "off"
<1>1. run \in Rows
  BY DEF TickRun, Shape, NoRow
<1> QED
  BY <1>1 DEF TickRun, Enter, Entered, Control, worldVars

\* A recovery executes the checkpoint, or returns the row.
LEMMA Recovering ==
  ASSUME Shape, Control, Recover
  PROVE  /\ pc = "down" /\ resumes' = resumes
         /\ \/ /\ ckpt \in States /\ repo = NoRow
               /\ LET r == [status |-> "running", at |-> ckpt.at, history |-> ckpt.history]
                  IN  Entered(r, MaxSteps) /\ repo' = r
            \/ /\ repo # NoRow \/ ckpt = NoState
               /\ pc' = "off" /\ run' = repo
               /\ UNCHANGED <<repo, stored, lock, cached, cost, loopVars, worldVars, boundVars>>
<1>1. CASE repo = NoRow /\ ckpt # NoState
  <2>1. ckpt \in States
    BY <1>1 DEF Shape
  <2>2. [status |-> "running", at |-> ckpt.at, history |-> ckpt.history] \in Rows
    BY <2>1 DEF States, Rows
  <2> QED
    BY <1>1, <2>1, <2>2 DEF Recover, Enter, Entered, worldVars, boundVars
<1>2. CASE ~(repo = NoRow /\ ckpt # NoState)
  BY <1>2 DEF Recover, boundVars
<1> QED
  BY <1>1, <1>2

\* Types and control hold after a call has entered the loop.
LEMMA EnteredControl ==
  ASSUME Shape, Control, NEW r, NEW steps, Entered(r, steps), repo' \in Rows \cup {NoRow}, resumes' \in Nat
  PROVE  Shape' /\ Control'
<1>1. Shape'
  BY WorkflowExecutionAssumption DEF Entered, Shape, Acting, stored
<1>2. Control'
  BY RowTypes DEF Entered, Control, Acting, Failing
<1> QED
  BY <1>1, <1>2

\* Every step preserves types and control.
LEMMA ControlStep == Shape /\ Control /\ [Next]_vars => Shape' /\ Control'
<1> SUFFICES ASSUME Shape, Control, [Next]_vars
             PROVE  Shape' /\ Control'
  OBVIOUS
<1>1. CASE WorkSteps
  <2>1. Works /\ run \in Rows /\ run.status = "running"
    <3>1. Works
      BY <1>1, WorkEffect
    <3> QED
      BY <3>1, Current DEF Works
  <2>2. Control'
    BY <2>1 DEF Works, Control, Acting, Failing
  <2> QED
    BY <1>1, <2>2, WorkTypes
<1>2. CASE MoveSteps
  <2>1. PICK status, t : Moves(status, t)
    BY <1>2, MoveEffect
  <2>2. run' \in Rows /\ run'.status = "running" /\ ckpt' \in States \cup {NoState} /\ hidden' \in Nat
    BY <2>1, RecordedType, SaveEffect DEF Moves
  <2>3. taken' \in Nat
    BY <1>2 DEF MoveSteps, SkipStep, ReplayStep, AdvanceStep, ErrorBoundary, OutputRejected, loopVars, Shape
  <2>4. Shape'
    BY <2>1, <2>2, <2>3 DEF Moves, Shape, aside, Acting, stored
  <2>5. Control'
    BY <2>1, <2>2 DEF Moves, Control, Acting, Failing
  <2> QED
    BY <2>4, <2>5
<1>3. CASE EndSteps
  <2>1. PICK status : Ends(status)
    BY <1>3, EndEffect
  <2>2. run' \in Rows /\ run'.status # "paused"
    BY <2>1, RowTypes DEF Ends
  <2>3. taken' \in Nat
    BY <1>3 DEF EndSteps, OutOfSteps, CostExceeded, CompensationEnds, CompleteRun, OutputRejected,
                loopVars, Shape
  <2>4. lock' \in [Steps -> {"none", "locked", "done"}]
    BY <2>1 DEF Ends, Shape
  <2>5. Shape'
    BY <2>1, <2>2, <2>3, <2>4 DEF Ends, Shape, stored
  <2>6. Control'
    BY <2>1, <2>2 DEF Ends, Control, Acting, Failing
  <2> QED
    BY <2>5, <2>6
<1>4. CASE PauseRun
  <2>3. run' \in Rows /\ run'.status = "paused" /\ repo' = run'
    BY <1>4, Pausing
  <2>4. Shape'
    BY <1>4, <2>3 DEF PauseRun, Shape, loopVars, worldVars, boundVars, stored
  <2>5. Control'
    BY <1>4, <2>3 DEF PauseRun, Control, Acting, Failing
  <2> QED
    BY <2>4, <2>5
<1>5. CASE PauseCheckpoint
  <2>1. ckpt' \in States \cup {NoState} /\ hidden' \in Nat
    BY <1>5, SaveEffect
  <2> QED
    BY <1>5, <2>1 DEF PauseCheckpoint, Shape, Control, Acting, Failing, loopVars, worldVars, boundVars, stored
<1>6. CASE FinalSave
  BY <1>6 DEF FinalSave, Shape, Control, Acting, Failing, loopVars, worldVars, boundVars, stored
<1>7. CASE CallSteps
  <2>1. \E r, steps : Entered(r, steps)
    BY <1>7, Starting, Resuming, Ticking DEF CallSteps
  <2>2. repo' \in Rows \cup {NoRow} /\ resumes' \in Nat
    <3>1. CASE StartRun
      BY <3>1, Starting DEF Entered, Shape
    <3>2. CASE ResumeRun
      <4>1. repo \in Rows /\ repo' = [repo EXCEPT !.status = "running"] /\ resumes' = resumes + 1
        BY <3>2, Resuming
      <4>2. repo' \in Rows
        BY <4>1 DEF Rows
      <4> QED
        BY <4>1, <4>2 DEF Shape
    <3>3. CASE TickRun
      BY <3>3, Ticking DEF Shape
    <3> QED
      BY <1>7, <3>1, <3>2, <3>3 DEF CallSteps
  <2> QED
    BY <2>1, <2>2, EnteredControl
<1>8. CASE Crash
  <2>1. run' = NoRow /\ repo' \in Rows \cup {NoRow}
    BY <1>8 DEF Crash, Shape
  <2> QED
    BY <1>8, <2>1 DEF Crash, Shape, Control, Acting, Failing, worldVars
<1>9. CASE Recover
  <2>1. CASE \E r : Entered(r, MaxSteps) /\ repo' = r
    <3>1. repo' \in Rows \cup {NoRow} /\ resumes' \in Nat
      BY <1>9, <2>1, Recovering DEF Entered, Shape
    <3> QED
      BY <2>1, <3>1, EnteredControl
  <2>2. CASE /\ pc' = "off" /\ run' = repo
             /\ UNCHANGED <<repo, stored, lock, cached, cost, loopVars, worldVars, boundVars>>
    BY <2>2 DEF Shape, Control, Acting, Failing, loopVars, worldVars, boundVars, stored
  <2> QED
    BY <1>9, <2>1, <2>2, Recovering
<1>10. CASE UNCHANGED vars
  BY <1>10 DEF vars, Shape, Control
<1> QED
  BY <1>1, <1>2, <1>3, <1>4, <1>5, <1>6, <1>7, <1>8, <1>9, <1>10, Kinds

-----------------------------------------------------------------------------
(* The history is a walk. *)

\* A history leads from the entry step to a successor of its last step.
Walks(h, at) ==
  /\ h # <<>> => h[1].step = EntryStep /\ at \in Successors(h[Len(h)].step)
  /\ h = <<>> => at = EntryStep
  /\ \A i \in 1..Len(h) - 1 : h[i + 1].step \in Successors(h[i].step)

\* A paused row stands at the gate it has recorded.
AtGate(r) == r.status = "paused" => r.history # <<>> /\ r.history[Len(r.history)].step = r.at

WalkInv ==
  /\ run # NoRow => Walks(run.history, run.at)
  /\ repo # NoRow => Walks(repo.history, repo.at) /\ AtGate(repo)
  /\ ckpt # NoState => Walks(ckpt.history, ckpt.at)

\* A walk goes on to a successor of the step it has come to.
LEMMA WalkGoesOn ==
  ASSUME NEW h \in Seq(Results), NEW at, NEW r \in Results, r.step = at,
         NEW t \in Successors(at), Walks(h, at)
  PROVE  Walks(Append(h, r), t)
<1> DEFINE g == Append(h, r)
<1>1. /\ g # <<>> /\ Len(g) = Len(h) + 1 /\ g[Len(g)] = r /\ Len(h) \in Nat
      /\ \A i \in 1..Len(h) : g[i] = h[i]
  OBVIOUS
<1> HIDE DEF g
<1>2. g[1].step = EntryStep
  <2>1. CASE h = <<>>
    <3>1. Len(h) = 0
      BY <2>1
    <3> QED
      BY <1>1, <2>1, <3>1 DEF Walks
  <2>2. CASE h # <<>>
    <3>1. 1 \in 1..Len(h)
      BY <1>1, <2>2, EmptySeq
    <3> QED
      BY <1>1, <2>2, <3>1 DEF Walks
  <2> QED
    BY <2>1, <2>2
<1>3. \A i \in 1..Len(g) - 1 : g[i + 1].step \in Successors(g[i].step)
  <2> SUFFICES ASSUME NEW i \in 1..Len(g) - 1
               PROVE  g[i + 1].step \in Successors(g[i].step)
    OBVIOUS
  <2>1. CASE i = Len(h)
    <3>1. h # <<>> /\ g[i] = h[Len(h)] /\ g[i + 1] = r
      BY <1>1, <2>1
    <3> QED
      BY <3>1 DEF Walks
  <2>2. CASE i # Len(h)
    <3>1. i \in 1..Len(h) - 1 /\ g[i] = h[i] /\ g[i + 1] = h[i + 1]
      BY <1>1, <2>2
    <3> QED
      BY <3>1 DEF Walks
  <2> QED
    BY <2>1, <2>2
<1>4. t \in Successors(g[Len(g)].step)
  BY <1>1
<1>5. Walks(g, t)
  BY <1>1, <1>2, <1>3, <1>4 DEF Walks
<1> QED
  BY <1>5 DEF g

\* There is no walk at first.
LEMMA WalkInit == Init => WalkInv
BY DEF Init, WalkInv

\* Every step goes on with the walk, or takes that of a copy.
LEMMA WalkStep == Shape /\ Control /\ WalkInv /\ [Next]_vars => WalkInv'
<1> SUFFICES ASSUME Shape, Control, WalkInv, [Next]_vars
             PROVE  WalkInv'
  OBVIOUS
<1>1. CASE WorkSteps \/ UNCHANGED vars
  <2>1. UNCHANGED <<run, repo, ckpt>>
    BY <1>1, WorkEffect DEF Works, vars, stored
  <2> QED
    BY <2>1 DEF WalkInv
<1>2. CASE MoveSteps
  <2>1. PICK status, t : Moves(status, t)
    BY <1>2, MoveEffect
  <2>2. /\ run'.history = Append(run.history, Result(status)) /\ run'.at = t
        /\ Result(status) \in Results /\ run.history \in Seq(Results) /\ run # NoRow
    BY <2>1, RecordedType, RowTypes DEF Moves, Rows
  <2>3. Result(status).step = run.at /\ t \in Successors(run.at)
    BY <2>1 DEF Moves, Result, At
  <2>4. Walks(run.history, run.at)
    BY <2>2 DEF WalkInv
  <2>5. Walks(run'.history, run'.at)
    BY <2>2, <2>3, <2>4, WalkGoesOn
  <2>6. (ckpt' = ckpt \/ (ckpt'.history = run'.history /\ ckpt'.at = run'.at)) /\ repo' = repo
    BY <2>1, SaveEffect DEF Moves
  <2> QED
    BY <2>5, <2>6 DEF WalkInv
<1>3. CASE EndSteps
  <2>1. PICK status : Ends(status)
    BY <1>3, EndEffect
  <2>2. run # NoRow /\ run'.history = run.history /\ run'.at = run.at /\ UNCHANGED <<repo, ckpt>>
    BY <2>1, RowTypes DEF Ends, stored
  <2> QED
    BY <2>2 DEF WalkInv
<1>4. CASE PauseRun
  <2>1. /\ run \in Rows /\ run'.at = run.at /\ repo' = run' /\ ckpt' = ckpt /\ At \in Steps
        /\ run'.history = Append(run.history, Result("completed")) /\ run.history \in Seq(Results)
    BY <1>4, Pausing DEF At, stored
  <2>2. Result("completed") \in Results /\ Result("completed").step = run.at
    BY <2>1 DEF Result, Results, At
  <2>3. Walks(run'.history, run'.at)
    <3>1. Walks(run.history, run.at)
      BY <2>1, RowTypes DEF WalkInv
    <3> QED
      BY <2>1, <2>2, <3>1, WalkGoesOn DEF Successors
  <2>4. AtGate(repo')
    <3> DEFINE g == Append(run.history, Result("completed"))
    <3>1. g # <<>> /\ g[Len(g)] = Result("completed")
      BY <2>1, <2>2
    <3> QED
      BY <2>1, <2>2, <3>1 DEF AtGate
  <2> QED
    BY <2>1, <2>3, <2>4 DEF WalkInv
<1>5. CASE PauseCheckpoint
  <2>1. run \in Rows /\ (ckpt' = ckpt \/ (ckpt'.history = run.history /\ ckpt'.at = run.at)) /\ UNCHANGED <<run, repo>>
    BY <1>5, SaveEffect DEF PauseCheckpoint, Control
  <2> QED
    BY <2>1, RowTypes DEF WalkInv
<1>6. CASE FinalSave
  <2>1. run \in Rows /\ run.status # "paused" /\ repo' = run /\ UNCHANGED <<run, ckpt>>
    BY <1>6 DEF FinalSave, Control, stored
  <2> QED
    BY <2>1 DEF WalkInv, AtGate
<1>7. CASE StartRun
  <2> DEFINE r == [status |-> "running", at |-> EntryStep, history |-> <<>>]
  <2>1. run' = r /\ repo' = r /\ ckpt' = ckpt
    BY <1>7, Starting DEF Entered, stored
  <2>2. r.at = EntryStep /\ r.history = <<>> /\ r.status = "running" /\ Len(r.history) = 0
    OBVIOUS
  <2> HIDE DEF r
  <2>3. Walks(r.history, r.at) /\ AtGate(r)
    BY <2>2 DEF Walks, AtGate
  <2> QED
    BY <2>1, <2>3 DEF WalkInv
<1>8. CASE ResumeRun
  <2>1. /\ repo \in Rows /\ repo.status = "paused" /\ repo' = [repo EXCEPT !.status = "running"]
        /\ \E s \in Steps : /\ s \in Successors(repo.at)
                            /\ Entered([repo EXCEPT !.status = "running", !.at = s], MaxSteps)
                            /\ [repo EXCEPT !.status = "running", !.at = s].at = s
                            /\ [repo EXCEPT !.status = "running", !.at = s].history = repo.history
    BY <1>8, Resuming
  <2>2. run'.at \in Successors(repo.at) /\ run'.history = repo.history /\ ckpt' = ckpt
    BY <2>1 DEF Entered, stored
  <2>3. repo'.at = repo.at /\ repo'.history = repo.history /\ repo'.status = "running"
    BY <2>1 DEF Rows
  <2>4. /\ Walks(repo.history, repo.at) /\ repo.history # <<>>
        /\ repo.history[Len(repo.history)].step = repo.at
    BY <2>1, RowTypes DEF WalkInv, AtGate
  <2>5. Walks(run'.history, run'.at)
    BY <2>2, <2>4 DEF Walks
  <2>6. Walks(repo'.history, repo'.at) /\ AtGate(repo')
    BY <2>3, <2>4 DEF AtGate
  <2> QED
    BY <2>2, <2>5, <2>6 DEF WalkInv
<1>9. CASE TickRun
  <2>1. UNCHANGED <<run, repo, ckpt>>
    BY <1>9, Ticking DEF Entered, stored
  <2> QED
    BY <2>1 DEF WalkInv
<1>10. CASE Crash
  <2>1. run' = NoRow /\ repo' \in {repo, NoRow} /\ ckpt' = ckpt
    BY <1>10 DEF Crash
  <2> QED
    BY <2>1 DEF WalkInv
<1>11. CASE Recover
  <2>1. CASE ckpt \in States /\ repo' = [status |-> "running", at |-> ckpt.at, history |-> ckpt.history]
             /\ run' = repo' /\ ckpt' = ckpt
    <3>1. repo'.at = ckpt.at /\ repo'.history = ckpt.history /\ repo'.status = "running"
      BY <2>1
    <3> QED
      BY <2>1, <3>1, RowTypes DEF WalkInv, AtGate
  <2>2. CASE run' = repo /\ UNCHANGED <<repo, ckpt>>
    BY <2>2 DEF WalkInv
  <2> QED
    BY <1>11, <2>1, <2>2, Recovering DEF Entered, stored
<1> QED
  BY <1>1, <1>2, <1>3, <1>4, <1>5, <1>6, <1>7, <1>8, <1>9, <1>10, <1>11, Kinds DEF CallSteps

\* The invariant means what HistoryIsWalk says.
LEMMA WalkShown == Shape /\ WalkInv => HistoryIsWalk
<1> SUFFICES ASSUME Shape, WalkInv, run # NoRow
             PROVE  LET walk == [i \in 1..Len(run.history) |-> run.history[i].step] \o <<run.at>>
                    IN  /\ walk[1] = EntryStep
                        /\ \A i \in 1..Len(walk) - 1 : walk[i + 1] \in Successors(walk[i])
  BY DEF HistoryIsWalk
<1> DEFINE h == run.history
           at == run.at
           s == [i \in 1..Len(h) |-> h[i].step]
           walk == s \o <<at>>
<1>1. h \in Seq(Results) /\ at \in Steps /\ Walks(h, at)
  BY DEF Shape, Rows, WalkInv
<1> HIDE DEF h, at
<1>2. Len(h) \in Nat /\ (h = <<>> => Len(h) = 0) /\ (h # <<>> => Len(h) > 0)
  BY <1>1, EmptySeq
<1>3. s \in Seq(Steps) /\ Len(s) = Len(h) /\ \A i \in 1..Len(h) : s[i] = h[i].step
  <2>1. \A i \in 1..Len(h) : h[i] \in Results
    BY <1>1
  <2>2. \A i \in 1..Len(h) : h[i].step \in Steps
    BY <2>1 DEF Results
  <2> QED
    BY <1>2, <2>2
<1> HIDE DEF s
<1>4. /\ Len(walk) = Len(h) + 1 /\ walk[Len(h) + 1] = at
      /\ \A i \in 1..Len(h) : walk[i] = h[i].step
  BY <1>1, <1>2, <1>3
<1> HIDE DEF walk
<1>5. walk[1] = EntryStep
  BY <1>1, <1>2, <1>4 DEF Walks
<1>6. \A i \in 1..Len(walk) - 1 : walk[i + 1] \in Successors(walk[i])
  <2> SUFFICES ASSUME NEW i \in 1..Len(walk) - 1
               PROVE  walk[i + 1] \in Successors(walk[i])
    OBVIOUS
  <2>1. CASE i = Len(h)
    BY <1>1, <1>2, <1>4, <2>1 DEF Walks
  <2>2. CASE i # Len(h)
    <3>1. i \in 1..Len(h) - 1 /\ i + 1 \in 1..Len(h) /\ i \in 1..Len(h)
      BY <1>2, <1>4, <2>2
    <3> QED
      BY <1>1, <1>4, <3>1 DEF Walks
  <2> QED
    BY <2>1, <2>2
<1> QED
  BY <1>5, <1>6 DEF walk, s, h, at

\* For every definition, whatever is skipped, replayed, retried, paused,
\* resumed or recovered, the history leads from the entry step to the current
\* one, and no step is passed over.
THEOREM WalkSafe == Spec => []HistoryIsWalk
<1>1. Init => Shape /\ Control /\ WalkInv
  BY InitControl, WalkInit
<1>2. Shape /\ Control /\ WalkInv /\ [Next]_vars => Shape' /\ Control' /\ WalkInv'
  BY ControlStep, WalkStep
<1>3. Shape /\ WalkInv => HistoryIsWalk
  BY WalkShown
<1> QED
  BY <1>1, <1>2, <1>3, PTL DEF Spec

-----------------------------------------------------------------------------
(* What is recorded was executed. *)

\* What x, the successes of handlers, says of a step and of a history.
Succeeded(x, s) == s \in Waits \/ x[s] > 0
Backed(x, h) == \A i \in 1..Len(h) : h[i].status = "completed" => Succeeded(x, h[i].step)

ExecutedInv ==
  /\ Backed(executed, run.history) /\ Backed(executed, repo.history) /\ Backed(executed, ckpt.history)
  /\ \A s \in Steps : lock[s] = "done" \/ s \in cached => Succeeded(executed, s)
  /\ pc \in {"succeeded", "done", "recovered", "advancing"} => Succeeded(executed, run.at)
  /\ pc \in Failing /\ final = "completed" => Succeeded(executed, run.at)

\* Nothing is recorded at first.
LEMMA ExecutedInit == Init => ExecutedInv
BY DEF Init, ExecutedInv, Backed, NoRow, NoState, Failing

\* What a handler has done is never taken back.
LEMMA ExecutedGrows ==
  ASSUME Shape, Control, [Next]_vars
  PROVE  \A s \in Steps : executed'[s] >= executed[s]
<1>1. CASE \E rejected \in BOOLEAN : HandlerSucceeds(rejected)
  <2>1. At \in Steps
    BY <1>1, Current DEF HandlerSucceeds, Acting
  <2> QED
    BY <1>1, <2>1 DEF HandlerSucceeds, Shape
<1>2. CASE FallbackSucceeds
  <2>1. At \in Steps
    BY <1>2, Current DEF FallbackSucceeds, Acting, Failing
  <2> QED
    BY <1>2, <2>1 DEF FallbackSucceeds, Shape
<1>3. CASE executed' = executed
  BY <1>3 DEF Shape
<1>4. CASE WorkSteps
  BY <1>1, <1>2, <1>3, <1>4 DEF WorkSteps, LockStep, HandlerFails, MarkStepDone, MarkRecovered,
           FallbackFails, StartCompensation, Compensate, worldVars
<1>5. CASE MoveSteps \/ EndSteps
  BY <1>3, <1>5, MoveEffect, EndEffect DEF Moves, Ends, aside
<1>6. CASE CallSteps
  BY <1>3, <1>6, Starting, Resuming, Ticking DEF CallSteps, Entered
<1>7. CASE PauseRun \/ PauseCheckpoint \/ FinalSave \/ Crash \/ Recover \/ UNCHANGED vars
  BY <1>3, <1>7 DEF PauseRun, PauseCheckpoint, FinalSave, Crash, Recover, worldVars, vars
<1> QED
  BY <1>4, <1>5, <1>6, <1>7, Kinds

\* What backed a history still does, and a result that is backed can join it.
LEMMA StillBacked ==
  ASSUME NEW x \in [Steps -> Nat], NEW y \in [Steps -> Nat], \A s \in Steps : y[s] >= x[s]
  PROVE  /\ \A s \in Steps : Succeeded(x, s) => Succeeded(y, s)
         /\ \A h \in Seq(Results) : Backed(x, h) => Backed(y, h)
<1>1. \A s \in Steps : Succeeded(x, s) => Succeeded(y, s)
  BY DEF Succeeded
<1>2. ASSUME NEW h \in Seq(Results), Backed(x, h) PROVE Backed(y, h)
  <2>1. \A i \in 1..Len(h) : h[i] \in Results
    OBVIOUS
  <2>2. \A i \in 1..Len(h) : h[i].step \in Steps
    BY <2>1 DEF Results
  <2> QED
    BY <1>1, <1>2, <2>2 DEF Backed
<1> QED
  BY <1>1, <1>2

\* A backed result joins a backed history.
LEMMA BackedAppend ==
  ASSUME NEW x, NEW h \in Seq(Results), NEW r \in Results, Backed(x, h),
         r.status = "completed" => Succeeded(x, r.step)
  PROVE  Backed(x, Append(h, r))
<1> DEFINE g == Append(h, r)
<1>1. Len(g) = Len(h) + 1 /\ g[Len(h) + 1] = r /\ Len(h) \in Nat /\ \A i \in 1..Len(h) : g[i] = h[i]
  OBVIOUS
<1> HIDE DEF g
<1>2. Backed(x, g)
  BY <1>1 DEF Backed
<1> QED
  BY <1>2 DEF g

\* Histories are sequences of results.
LEMMA HistoryTypes == ASSUME Shape
                      PROVE  /\ run.history \in Seq(Results) /\ repo.history \in Seq(Results)
                             /\ ckpt.history \in Seq(Results)
<1>1. NoRow.history \in Seq(Results) /\ NoState.history \in Seq(Results)
  BY DEF NoRow, NoState
<1>2. /\ \A r \in Rows : r.history \in Seq(Results)
      /\ \A c \in States : c.history \in Seq(Results)
  BY DEF Rows, States
<1> QED
  BY <1>1, <1>2 DEF Shape

\* What has a step recorded as completed has had it executed.
LEMMA GroundedSucceeded == ASSUME Shape, Control, ExecutedInv, Grounded, pc \in Acting
                           PROVE  Succeeded(executed, At)
<1>1. At \in Steps
  BY Current
<1> QED
  BY <1>1 DEF Grounded, Replayable, ExecutedInv, At

\* Histories are only moved between the run and its copies, or grow by a
\* result that is backed.
LEMMA HistoriesBacked ==
  ASSUME Shape, Control, ExecutedInv, Next
  PROVE  \A h \in {run'.history, repo'.history, ckpt'.history} :
            \/ h \in {run.history, repo.history, ckpt.history} \/ h = <<>>
            \/ \E r \in Results : /\ h = Append(run.history, r) /\ r.step = At
                                  /\ r.status = "completed" => Succeeded(executed, At)
<1>1. CASE WorkSteps
  <2>1. UNCHANGED <<run, repo, ckpt>>
    BY <1>1, WorkEffect DEF Works, stored
  <2> QED
    BY <2>1
<1>2. CASE MoveSteps
  <2>1. PICK status, t : Moves(status, t)
    BY <1>2, MoveEffect
  <2>2. /\ run'.history = Append(run.history, Result(status)) /\ ckpt'.history \in {ckpt.history, run'.history}
        /\ Result(status) \in Results /\ repo' = repo
    BY <2>1, RecordedType DEF Moves, Save, StateOf
  <2>3. Result(status).step = At /\ Result(status).status = status
    BY DEF Result
  <2>4. status = "completed" => Succeeded(executed, At)
    BY <2>1, GroundedSucceeded DEF Moves
  <2> QED
    BY <2>2, <2>3, <2>4
<1>3. CASE EndSteps
  <2>1. PICK status : Ends(status)
    BY <1>3, EndEffect
  <2>2. run'.history = run.history /\ UNCHANGED <<repo, ckpt>>
    BY <2>1, RowTypes DEF Ends, stored
  <2> QED
    BY <2>2
<1>4. CASE PauseRun
  <2>1. /\ run'.history = Append(run.history, Result("completed")) /\ repo' = run' /\ ckpt' = ckpt
        /\ At \in Steps /\ At \in Waits
    BY <1>4, Pausing DEF stored
  <2>2. Result("completed") \in Results /\ Result("completed").step = At
    BY <2>1 DEF Result, Results
  <2>3. Succeeded(executed, At)
    BY <2>1 DEF Succeeded
  <2> QED
    BY <2>1, <2>2, <2>3
<1>5. CASE PauseCheckpoint \/ FinalSave
  <2>1. run' = run /\ repo' \in {run, repo} /\ ckpt'.history \in {run.history, ckpt.history}
    BY <1>5 DEF PauseCheckpoint, FinalSave, Save, StateOf, stored
  <2> QED
    BY <2>1
<1>6. CASE StartRun
  <2>1. run'.history = <<>> /\ repo'.history = <<>> /\ ckpt' = ckpt
    BY <1>6, Starting DEF Entered, stored
  <2> QED
    BY <2>1
<1>7. CASE ResumeRun
  <2>1. run'.history = repo.history /\ ckpt' = ckpt
    BY <1>7, Resuming DEF Entered, stored
  <2>2. repo \in Rows /\ repo' = [repo EXCEPT !.status = "running"]
    BY <1>7, Resuming
  <2>3. repo'.history = repo.history
    BY <2>2 DEF Rows
  <2> QED
    BY <2>1, <2>3
<1>8. CASE TickRun
  <2>1. UNCHANGED <<run, repo, ckpt>>
    BY <1>8, Ticking DEF Entered, stored
  <2> QED
    BY <2>1
<1>9. CASE Crash
  <2>1. run'.history = <<>> /\ (repo' = repo \/ repo'.history = <<>>) /\ ckpt' = ckpt
    BY <1>9 DEF Crash, NoRow
  <2> QED
    BY <2>1
<1>10. CASE Recover
  <2>1. \/ run'.history = ckpt.history /\ repo'.history = ckpt.history /\ ckpt' = ckpt
        \/ run' = repo /\ UNCHANGED <<repo, ckpt>>
    BY <1>10, Recovering DEF Entered, stored
  <2> QED
    BY <2>1
<1> QED
  BY <1>1, <1>2, <1>3, <1>4, <1>5, <1>6, <1>7, <1>8, <1>9, <1>10, Kinds DEF CallSteps

\* Every step preserves that what is recorded was executed.
LEMMA ExecutedStep == Shape /\ Control /\ ExecutedInv /\ [Next]_vars => ExecutedInv'
<1> SUFFICES ASSUME Shape, Control, ExecutedInv, Next
             PROVE  ExecutedInv'
  BY DEF vars, ExecutedInv
<1>1. Shape' /\ Control' /\ executed \in [Steps -> Nat] /\ executed' \in [Steps -> Nat]
  BY ControlStep DEF Shape
<1>2. \A s \in Steps : executed'[s] >= executed[s]
  BY ExecutedGrows
<1>3. /\ \A s \in Steps : Succeeded(executed, s) => Succeeded(executed', s)
      /\ \A h \in Seq(Results) : Backed(executed, h) => Backed(executed', h)
  BY <1>1, <1>2, StillBacked
<1>4. \A h \in {run'.history, repo'.history, ckpt'.history} : Backed(executed', h)
  <2> SUFFICES ASSUME NEW h \in {run'.history, repo'.history, ckpt'.history}
               PROVE  Backed(executed', h)
    OBVIOUS
  <2>1. CASE h \in {run.history, repo.history, ckpt.history}
    BY <1>3, <2>1, HistoryTypes DEF ExecutedInv
  <2>2. CASE h = <<>>
    BY <2>2 DEF Backed
  <2>3. ASSUME NEW r \in Results, h = Append(run.history, r), r.step = At,
               r.status = "completed" => Succeeded(executed, At)
        PROVE  Backed(executed', h)
    <3>1. At \in Steps
      BY <2>3 DEF Results
    <3>2. Backed(executed', run.history) /\ run.history \in Seq(Results)
      BY <1>3, HistoryTypes DEF ExecutedInv
    <3> QED
      BY <1>3, <2>3, <3>1, <3>2, BackedAppend
  <2> QED
    BY <2>1, <2>2, <2>3, HistoriesBacked
<1>5. \A s \in Steps : lock'[s] = "done" \/ s \in cached' => Succeeded(executed', s)
  <2>1. CASE MarkStepDone \/ MarkRecovered
    <3>1. At \in Steps /\ Succeeded(executed, At)
      BY <2>1, Current DEF MarkStepDone, MarkRecovered, ExecutedInv, Acting, At
    <3>2. \A s \in Steps : lock'[s] = "done" \/ s \in cached' => lock[s] = "done" \/ s \in cached \/ s = At
      BY <2>1, <3>1 DEF MarkStepDone, MarkRecovered, MarkDone, Cache, Shape
    <3> QED
      BY <1>3, <3>1, <3>2 DEF ExecutedInv
  <2>2. CASE ~(MarkStepDone \/ MarkRecovered)
    <3>1. \A s \in Steps : lock'[s] = "done" \/ s \in cached' => lock[s] = "done" \/ s \in cached
      <4>1. CASE WorkSteps
        <5>1. cached' = cached /\ (lock' = lock \/ lock' = [lock EXCEPT ![At] = "locked"])
          BY <2>2, <4>1 DEF WorkSteps, LockStep, HandlerSucceeds, HandlerFails, FallbackSucceeds,
                            FallbackFails, StartCompensation, Compensate
        <5> QED
          BY <5>1 DEF Shape
      <4>2. CASE MoveSteps \/ EndSteps
        BY <4>2, MoveEffect, EndEffect DEF Moves, Ends, aside
      <4>3. CASE ~(WorkSteps \/ MoveSteps \/ EndSteps)
        <5>1. UNCHANGED <<lock, cached>>
          BY <4>3, Kinds, Starting, Resuming, Ticking DEF CallSteps, Entered, PauseRun, PauseCheckpoint,
                FinalSave, Crash, Recover
        <5> QED
          BY <5>1
      <4> QED
        BY <4>1, <4>2, <4>3
    <3> QED
      BY <1>3, <3>1 DEF ExecutedInv
  <2> QED
    BY <2>1, <2>2
<1>6. /\ pc' \in {"succeeded", "done", "recovered", "advancing"} => Succeeded(executed', run'.at)
      /\ pc' \in Failing /\ final' = "completed" => Succeeded(executed', run'.at)
  <2>1. CASE WorkSteps
    <3>1. pc \in Acting /\ run' = run /\ At \in Steps
      BY <2>1, WorkEffect, Current DEF Works
    <3>2. CASE (\E rejected \in BOOLEAN : HandlerSucceeds(rejected)) \/ FallbackSucceeds
      <4>1. At \in Waits \/ executed'[At] = executed[At] + 1
        BY <1>1, <3>1, <3>2 DEF HandlerSucceeds, FallbackSucceeds
      <4>2. executed[At] \in Nat
        BY <1>1, <3>1
      <4>3. Succeeded(executed', At)
        BY <4>1, <4>2 DEF Succeeded
      <4> QED
        BY <3>1, <4>3 DEF At
    <3>3. CASE LockStep \/ HandlerFails
      BY <3>3 DEF LockStep, HandlerFails, Failing
    <3>4. CASE MarkStepDone \/ MarkRecovered \/ FallbackFails \/ StartCompensation \/ Compensate
      <4>1. /\ pc \in {"succeeded", "done", "recovered", "advancing"}
                 \/ (pc' \notin {"succeeded", "done", "recovered", "advancing"} /\ pc \in Failing)
            /\ final' = final
        BY <3>4 DEF MarkStepDone, MarkRecovered, FallbackFails, StartCompensation, Compensate,
                    Unrecovered, Failing, loopVars
      <4>2. pc \in {"succeeded", "done", "recovered", "advancing"} \/ final' = "completed" =>
               Succeeded(executed, run.at) \/ pc' \notin Failing \cup {"succeeded", "done", "recovered", "advancing"}
        BY <4>1 DEF ExecutedInv
      <4> QED
        BY <1>3, <3>1, <4>1, <4>2 DEF At
    <3> QED
      BY <2>1, <3>2, <3>3, <3>4 DEF WorkSteps
  <2>2. CASE MoveSteps \/ EndSteps
    BY <2>2, MoveEffect, EndEffect DEF Moves, Ends, Failing
  <2>3. CASE ~(WorkSteps \/ MoveSteps \/ EndSteps)
    <3>1. pc' \in {"head", "pausing", "off", "down"}
      BY <2>3, Kinds, Starting, Resuming, Ticking, Recovering
         DEF CallSteps, Entered, PauseRun, PauseCheckpoint, FinalSave, Crash
    <3> QED
      BY <3>1 DEF Failing
  <2> QED
    BY <2>1, <2>2, <2>3
<1> QED
  BY <1>4, <1>5, <1>6 DEF ExecutedInv

\* A history that is backed records what was executed.
LEMMA ExecutedShown == Shape /\ ExecutedInv => RecordedWasExecuted
<1> SUFFICES ASSUME Shape, ExecutedInv, NEW s \in Steps \ Waits,
                    RecordedIn(run, s) \/ RecordedIn(ckpt, s)
             PROVE  executed[s] > 0
  BY DEF RecordedWasExecuted
<1>1. \E h \in {run.history, ckpt.history} : \E i \in 1..Len(h) : h[i] = [step |-> s, status |-> "completed"]
  BY DEF RecordedIn
<1>2. PICK h \in {run.history, ckpt.history} :
         \E i \in 1..Len(h) : h[i] = [step |-> s, status |-> "completed"]
  BY <1>1
<1>3. PICK i \in 1..Len(h) : h[i] = [step |-> s, status |-> "completed"]
  BY <1>2
<1>4. Backed(executed, h)
  BY <1>2 DEF ExecutedInv
<1>5. h[i].status = "completed" /\ h[i].step = s
  BY <1>3
<1> QED
  BY <1>4, <1>5 DEF Backed, Succeeded

\* For every definition and every choice of stores, a step is recorded as
\* completed only if its handler or its fallback has succeeded.
THEOREM ExecutedSafe == Spec => []RecordedWasExecuted
<1>1. Init => Shape /\ Control /\ ExecutedInv
  BY InitControl, ExecutedInit
<1>2. Shape /\ Control /\ ExecutedInv /\ [Next]_vars => Shape' /\ Control' /\ ExecutedInv'
  BY ControlStep, ExecutedStep
<1>3. Shape /\ ExecutedInv => RecordedWasExecuted
  BY ExecutedShown
<1> QED
  BY <1>1, <1>2, <1>3, PTL DEF Spec

-----------------------------------------------------------------------------
(* Waits and rejections. *)

\* Nothing waits or is rejected at first.
LEMMA WaitsInit == Init => WaitsSucceed /\ RejectedChecked
BY DEF Init, WaitsSucceed, RejectedChecked, Failing

\* Every step preserves that waits succeed and that rejections are of checked steps.
LEMMA WaitsStep ==
  Shape /\ Control /\ WaitsSucceed /\ RejectedChecked /\ [Next]_vars => WaitsSucceed' /\ RejectedChecked'
<1> SUFFICES ASSUME Shape, Control, WaitsSucceed, RejectedChecked, [Next]_vars
             PROVE  WaitsSucceed' /\ RejectedChecked'
  OBVIOUS
<1>1. CASE WorkSteps
  <2>1. pc \in Acting /\ run' = run /\ At \in Steps
    BY <1>1, WorkEffect, Current DEF Works
  <2>2. CASE LockStep
    BY <2>1, <2>2 DEF LockStep, WaitsSucceed, RejectedChecked, Failing, At
  <2>3. ASSUME NEW rejected \in BOOLEAN, HandlerSucceeds(rejected)
        PROVE  WaitsSucceed' /\ RejectedChecked'
    <3>1. At \in Waits => At \notin Checked
      BY WorkflowExecutionAssumption
    <3>2. At \in Waits => pc' = "succeeded"
      BY <2>3, <3>1 DEF HandlerSucceeds, FirstAttempt, WaitsSucceed, At
    <3>3. pc' \in Failing \cup {"rejected"} => At \in Checked
      BY <2>3 DEF HandlerSucceeds, Failing
    <3>4. pc' # "handler"
      BY <2>3 DEF HandlerSucceeds
    <3> QED
      BY <2>1, <3>2, <3>3, <3>4 DEF WaitsSucceed, RejectedChecked, Failing, At
  <2>4. CASE HandlerFails
    BY <2>1, <2>4 DEF HandlerFails, WaitsSucceed, RejectedChecked, Failing, At
  <2>5. CASE MarkStepDone \/ MarkRecovered \/ FallbackSucceeds
    BY <2>1, <2>5 DEF MarkStepDone, MarkRecovered, FallbackSucceeds, WaitsSucceed, RejectedChecked,
                      Failing, At
  <2>6. CASE FallbackFails \/ StartCompensation \/ Compensate
    BY <2>1, <2>6 DEF FallbackFails, StartCompensation, Compensate, Unrecovered, WaitsSucceed,
                      RejectedChecked, Failing, At, loopVars
  <2> QED
    BY <1>1, <2>2, <2>3, <2>4, <2>5, <2>6 DEF WorkSteps
<1>2. CASE MoveSteps \/ EndSteps
  BY <1>2, MoveEffect, EndEffect DEF Moves, Ends, WaitsSucceed, RejectedChecked, Failing
<1>3. CASE ~(WorkSteps \/ MoveSteps \/ EndSteps) /\ Next
  <2>1. pc' \in {"head", "pausing", "off", "down"}
    BY <1>3, Kinds, Starting, Resuming, Ticking, Recovering
       DEF CallSteps, Entered, PauseRun, PauseCheckpoint, FinalSave, Crash
  <2> QED
    BY <2>1 DEF WaitsSucceed, RejectedChecked, Failing
<1>4. CASE UNCHANGED vars
  BY <1>4 DEF vars, WaitsSucceed, RejectedChecked
<1> QED
  BY <1>1, <1>2, <1>3, <1>4

-----------------------------------------------------------------------------
(* Gates. *)

\* The gates a history has recorded, and those it has gone past.
WaitsIn(h) == {w \in Waits : \E i \in 1..Len(h) : h[i].step = w}
PassedIn(h) == {w \in Waits : \E i, j \in 1..Len(h) :
                  i < j /\ h[i].step = w /\ h[j].step \notin Waits}

\* What n resumptions may have opened.
Held(n, h, at) == /\ Cardinality(WaitsIn(h) \ {at}) <= n
                  /\ Cardinality(PassedIn(h)) <= n

GateInv == /\ Held(resumes, run.history, run.at) /\ Held(resumes, repo.history, repo.at)
           /\ Held(resumes, ckpt.history, ckpt.at)

\* The sets of steps that are counted are finite.
LEMMA FiniteSteps ==
  ASSUME NEW S \in SUBSET Steps
  PROVE  /\ IsFiniteSet(S) /\ Cardinality(S) \in Nat
         /\ \A T \in SUBSET S : Cardinality(T) \in Nat /\ Cardinality(T) <= Cardinality(S)
         /\ \A s \in Steps : Cardinality(S \cup {s}) <= Cardinality(S) + 1
<1>1. \A T \in SUBSET Steps : IsFiniteSet(T) /\ Cardinality(T) \in Nat
  BY WorkflowExecutionAssumption, FS_Subset, FS_CardinalityType
<1>2. \A T \in SUBSET S : Cardinality(T) <= Cardinality(S)
  BY <1>1, FS_Subset
<1>3. \A s \in Steps : Cardinality(S \cup {s}) <= Cardinality(S) + 1
  BY <1>1, FS_AddElement
<1> QED
  BY <1>1, <1>2, <1>3

\* Gates are steps of the definition.
LEMMA GateSets ==
  ASSUME NEW h \in Seq(Results)
  PROVE  WaitsIn(h) \in SUBSET Steps /\ PassedIn(h) \in SUBSET WaitsIn(h)
<1>1. \A i \in 1..Len(h) : h[i] \in Results
  OBVIOUS
<1>2. \A i \in 1..Len(h) : h[i].step \in Steps
  BY <1>1 DEF Results
<1> QED
  BY <1>2 DEF WaitsIn, PassedIn

\* A step that is no gate can be recorded, and the run moves on.
LEMMA HeldMove ==
  ASSUME NEW h \in Seq(Results), NEW r \in Results, NEW n \in Nat, NEW t,
         r.step \notin Waits, Held(n, h, r.step)
  PROVE  Held(n, Append(h, r), t)
<1> DEFINE g == Append(h, r)
<1>1. /\ Len(g) = Len(h) + 1 /\ g[Len(h) + 1] = r /\ Len(h) \in Nat
      /\ \A i \in 1..Len(h) : g[i] = h[i] /\ g \in Seq(Results)
  OBVIOUS
<1> HIDE DEF g
<1>2. WaitsIn(g) \ {t} \subseteq WaitsIn(h) \ {r.step}
  BY <1>1 DEF WaitsIn
<1>3. PassedIn(g) \subseteq WaitsIn(h) \ {r.step}
  BY <1>1 DEF WaitsIn, PassedIn
<1>4. WaitsIn(h) \ {r.step} \in SUBSET Steps
  BY GateSets
<1>5. /\ Cardinality(WaitsIn(g) \ {t}) <= Cardinality(WaitsIn(h) \ {r.step})
      /\ Cardinality(PassedIn(g)) <= Cardinality(WaitsIn(h) \ {r.step})
      /\ Cardinality(WaitsIn(g) \ {t}) \in Nat /\ Cardinality(PassedIn(g)) \in Nat
      /\ Cardinality(WaitsIn(h) \ {r.step}) \in Nat
  BY <1>2, <1>3, <1>4, FiniteSteps
<1>6. Held(n, g, t)
  BY <1>5 DEF Held
<1> QED
  BY <1>6 DEF g

\* A gate can be recorded as long as the run stays there.
LEMMA HeldPause ==
  ASSUME NEW h \in Seq(Results), NEW r \in Results, NEW n \in Nat,
         r.step \in Waits, Held(n, h, r.step)
  PROVE  Held(n, Append(h, r), r.step)
<1> DEFINE g == Append(h, r)
<1>1. /\ Len(g) = Len(h) + 1 /\ g[Len(h) + 1] = r /\ Len(h) \in Nat
      /\ \A i \in 1..Len(h) : g[i] = h[i]
  OBVIOUS
<1> HIDE DEF g
<1>2. WaitsIn(g) \ {r.step} \subseteq WaitsIn(h) \ {r.step}
  BY <1>1 DEF WaitsIn
<1>3. PassedIn(g) \subseteq PassedIn(h)
  BY <1>1 DEF PassedIn
<1>4. WaitsIn(h) \ {r.step} \in SUBSET Steps /\ PassedIn(h) \in SUBSET Steps
  BY GateSets
<1>5. /\ Cardinality(WaitsIn(g) \ {r.step}) <= Cardinality(WaitsIn(h) \ {r.step})
      /\ Cardinality(PassedIn(g)) <= Cardinality(PassedIn(h))
      /\ Cardinality(WaitsIn(g) \ {r.step}) \in Nat /\ Cardinality(PassedIn(g)) \in Nat
      /\ Cardinality(WaitsIn(h) \ {r.step}) \in Nat /\ Cardinality(PassedIn(h)) \in Nat
  BY <1>2, <1>3, <1>4, FiniteSteps
<1>6. Held(n, g, r.step)
  BY <1>5 DEF Held
<1> QED
  BY <1>6 DEF g

\* A resumption opens one gate, and keeps what was held.
LEMMA HeldResume ==
  ASSUME NEW h \in Seq(Results), NEW n \in Nat, NEW at \in Steps, NEW t, Held(n, h, at)
  PROVE  Held(n + 1, h, t)
<1>1. WaitsIn(h) \ {t} \in SUBSET ((WaitsIn(h) \ {at}) \cup {at})
  OBVIOUS
<1>2. /\ WaitsIn(h) \ {at} \in SUBSET Steps /\ (WaitsIn(h) \ {at}) \cup {at} \in SUBSET Steps
      /\ PassedIn(h) \in SUBSET Steps
  BY GateSets
<1>3. /\ Cardinality(WaitsIn(h) \ {t}) <= Cardinality((WaitsIn(h) \ {at}) \cup {at})
      /\ Cardinality(WaitsIn(h) \ {t}) \in Nat /\ Cardinality((WaitsIn(h) \ {at}) \cup {at}) \in Nat
  BY <1>1, <1>2, FiniteSteps
<1>4. /\ Cardinality((WaitsIn(h) \ {at}) \cup {at}) <= Cardinality(WaitsIn(h) \ {at}) + 1
      /\ Cardinality(WaitsIn(h) \ {at}) \in Nat /\ Cardinality(PassedIn(h)) \in Nat
  BY <1>2, FiniteSteps
<1> QED
  BY <1>3, <1>4 DEF Held

\* What was held stays so.
LEMMA HeldLater ==
  ASSUME NEW h \in Seq(Results), NEW n \in Nat, NEW at, Held(n, h, at)
  PROVE  Held(n + 1, h, at)
<1>1. WaitsIn(h) \ {at} \in SUBSET Steps /\ PassedIn(h) \in SUBSET Steps
  BY GateSets
<1>2. Cardinality(WaitsIn(h) \ {at}) \in Nat /\ Cardinality(PassedIn(h)) \in Nat
  BY <1>1, FiniteSteps
<1> QED
  BY <1>2 DEF Held

\* A run without results has passed no gate.
LEMMA HeldEmpty == \A n \in Nat : \A at : Held(n, <<>>, at)
<1>1. WaitsIn(<<>>) = {} /\ PassedIn(<<>>) = {}
  BY DEF WaitsIn, PassedIn
<1> QED
  <2>1. \A at : WaitsIn(<<>>) \ {at} = {}
    BY <1>1
  <2> QED
    BY <1>1, <2>1, FS_EmptySet DEF Held

\* No result of a gate is recorded by a step that goes on.
LEMMA GatesStop ==
  ASSUME Shape, Control, WaitsSucceed, ~Locking, Waits \cap Skippable = {}, MoveSteps
  PROVE  At \notin Waits
<1>1. Waits \cap cached = {}
  BY WorkflowExecutionAssumption DEF Shape
<1> QED
  BY <1>1 DEF MoveSteps, SkipStep, ReplayStep, Replayable, AdvanceStep, ErrorBoundary, Unrecovered,
              OutputRejected, WaitsSucceed, Failing, At

\* No gate is passed at first.
LEMMA GateInit == Init => GateInv
<1> SUFFICES ASSUME Init
             PROVE  GateInv
  OBVIOUS
<1>1. resumes \in Nat /\ run.history = <<>> /\ repo.history = <<>> /\ ckpt.history = <<>>
  BY DEF Init, NoRow, NoState
<1> QED
  BY <1>1, HeldEmpty DEF GateInv

\* Every step holds the gates.
LEMMA GateStep ==
  ASSUME ~Locking, Waits \cap Skippable = {}
  PROVE  Shape /\ Control /\ WaitsSucceed /\ GateInv /\ [Next]_vars => GateInv'
<1> SUFFICES ASSUME Shape, Control, WaitsSucceed, GateInv, [Next]_vars
             PROVE  GateInv'
  OBVIOUS
<1>0. resumes \in Nat
  BY DEF Shape
<1>1. CASE WorkSteps \/ UNCHANGED vars
  <2>1. UNCHANGED <<run, repo, ckpt, resumes>>
    BY <1>1, WorkEffect DEF Works, vars, stored
  <2> QED
    BY <2>1 DEF GateInv
<1>2. CASE MoveSteps
  <2>1. PICK status, t : Moves(status, t)
    BY <1>2, MoveEffect
  <2>2. /\ run'.history = Append(run.history, Result(status)) /\ run'.at = t
        /\ Result(status) \in Results /\ run.history \in Seq(Results)
    BY <2>1, RecordedType DEF Moves, Rows
  <2>3. Result(status).step = run.at /\ run.at \notin Waits
    BY <1>2, GatesStop DEF Result, At
  <2>4. Held(resumes, run'.history, run'.at)
    BY <1>0, <2>2, <2>3, HeldMove DEF GateInv
  <2>5. (ckpt' = ckpt \/ (ckpt'.history = run'.history /\ ckpt'.at = run'.at)) /\ repo' = repo /\ resumes' = resumes
    BY <2>1, SaveEffect DEF Moves, aside
  <2> QED
    BY <2>4, <2>5 DEF GateInv
<1>3. CASE EndSteps
  <2>1. PICK status : Ends(status)
    BY <1>3, EndEffect
  <2>2. run'.history = run.history /\ run'.at = run.at /\ UNCHANGED <<repo, ckpt, resumes>>
    BY <2>1, RowTypes DEF Ends, stored
  <2> QED
    BY <2>2 DEF GateInv
<1>4. CASE PauseRun
  <2>1. /\ run'.at = run.at /\ repo' = run' /\ ckpt' = ckpt /\ At \in Steps /\ run.at \in Waits
        /\ run'.history = Append(run.history, Result("completed")) /\ run.history \in Seq(Results)
        /\ resumes' = resumes
    BY <1>4, Pausing DEF At, boundVars, stored
  <2>2. Result("completed") \in Results /\ Result("completed").step = run.at
    BY <2>1 DEF Result, Results, At
  <2>3. Held(resumes, run'.history, run'.at)
    BY <1>0, <2>1, <2>2, HeldPause DEF GateInv
  <2> QED
    BY <2>1, <2>3 DEF GateInv
<1>5. CASE PauseCheckpoint
  <2>1. (ckpt' = ckpt \/ (ckpt'.history = run.history /\ ckpt'.at = run.at)) /\ UNCHANGED <<run, repo, resumes>>
    BY <1>5, SaveEffect DEF PauseCheckpoint, boundVars
  <2> QED
    BY <2>1 DEF GateInv
<1>6. CASE FinalSave
  <2>1. repo' = run /\ UNCHANGED <<run, ckpt, resumes>>
    BY <1>6 DEF FinalSave, boundVars, stored
  <2> QED
    BY <2>1 DEF GateInv
<1>7. CASE StartRun
  <2>1. run'.history = <<>> /\ repo'.history = <<>> /\ UNCHANGED <<ckpt, resumes>>
    BY <1>7, Starting DEF Entered, stored
  <2> QED
    BY <1>0, <2>1, HeldEmpty DEF GateInv
<1>8. CASE ResumeRun
  <2>1. /\ repo \in Rows /\ repo.at \in Steps /\ run'.history = repo.history /\ ckpt' = ckpt
        /\ repo' = [repo EXCEPT !.status = "running"] /\ resumes' = resumes + 1
    BY <1>8, Resuming DEF Entered, stored
  <2>2. repo'.history = repo.history /\ repo'.at = repo.at
    BY <2>1 DEF Rows
  <2>3. repo.history \in Seq(Results) /\ ckpt.history \in Seq(Results)
    BY HistoryTypes
  <2>4. Held(resumes + 1, run'.history, run'.at)
    BY <1>0, <2>1, <2>3, HeldResume DEF GateInv
  <2>5. Held(resumes + 1, repo.history, repo.at) /\ Held(resumes + 1, ckpt.history, ckpt.at)
    BY <1>0, <2>3, HeldLater DEF GateInv
  <2> QED
    BY <2>1, <2>2, <2>4, <2>5 DEF GateInv
<1>9. CASE TickRun
  <2>1. UNCHANGED <<run, repo, ckpt>> /\ resumes' = resumes + 1
    BY <1>9, Ticking DEF Entered, stored
  <2>2. /\ Held(resumes + 1, run.history, run.at) /\ Held(resumes + 1, repo.history, repo.at)
        /\ Held(resumes + 1, ckpt.history, ckpt.at)
    BY <1>0, HistoryTypes, HeldLater DEF GateInv
  <2> QED
    BY <2>1, <2>2 DEF GateInv
<1>10. CASE Crash
  <2>1. run' = NoRow /\ repo' \in {repo, NoRow} /\ UNCHANGED <<ckpt, resumes>> /\ NoRow.history = <<>>
    BY <1>10 DEF Crash, NoRow
  <2> QED
    BY <1>0, <2>1, HeldEmpty DEF GateInv
<1>11. CASE Recover
  <2>1. CASE /\ repo' = [status |-> "running", at |-> ckpt.at, history |-> ckpt.history]
             /\ run' = repo' /\ UNCHANGED <<ckpt, resumes>>
    <3>1. repo'.at = ckpt.at /\ repo'.history = ckpt.history
      BY <2>1
    <3> QED
      BY <2>1, <3>1 DEF GateInv
  <2>2. CASE run' = repo /\ UNCHANGED <<repo, ckpt, resumes>>
    BY <2>2 DEF GateInv
  <2> QED
    BY <1>11, <2>1, <2>2, Recovering DEF Entered, stored
<1> QED
  BY <1>1, <1>2, <1>3, <1>4, <1>5, <1>6, <1>7, <1>8, <1>9, <1>10, <1>11, Kinds DEF CallSteps

\* Without step locks, and when no gate has a skipIf, a run gets past at most
\* as many gates as there were calls of resumeRun and tickRun, whatever the
\* graph, the crashes and the recoveries.
THEOREM GatesSafe == ~Locking /\ Waits \cap Skippable = {} => (Spec => []GatesHold)
<1> SUFFICES ASSUME ~Locking, Waits \cap Skippable = {}
             PROVE  Spec => []GatesHold
  OBVIOUS
<1>1. Init => Shape /\ Control /\ WaitsSucceed /\ RejectedChecked /\ GateInv
  BY InitControl, WaitsInit, GateInit
<1>2. Shape /\ Control /\ WaitsSucceed /\ RejectedChecked /\ GateInv /\ [Next]_vars =>
         Shape' /\ Control' /\ WaitsSucceed' /\ RejectedChecked' /\ GateInv'
  BY ControlStep, WaitsStep, GateStep
<1>3. GateInv => GatesHold
  BY DEF GateInv, Held, PassedIn, Passed, GatesHold
<1> QED
  BY <1>1, <1>2, <1>3, PTL DEF Spec

-----------------------------------------------------------------------------
(* Sagas. *)

\* A definition without cycles, of no more steps than a call may take.
Ranked(rank) ==
  /\ rank \in [Steps -> 0..MaxSteps - 1]
  /\ \A s \in Steps : \A t \in {NextStep[s], AltStep[s], OnError[s]} \ {NoStep} : rank[s] < rank[t]

\* The steps taken are no more than the rank of the current one.
StepsBounded(rank) == /\ pc = "head" => taken <= rank[run.at]
                      /\ pc \in Acting => taken <= rank[run.at] + 1

\* The first k compensations of u have run, the others will.
Unwinding(todo, done, u, k) ==
  /\ Len(todo) = Len(u) - k /\ \A j \in 1..Len(u) - k : todo[j] = u[k + j]
  /\ k <= Len(done) /\ \A i \in 1..k : u[i] = done[Len(done) - k + i]

\* The compensations are a sequence.
UndoSeqs == \E T : toUndo \in Seq(T) /\ undone \in Seq(T)

\* What a failed run leaves behind, and its row.
SagaInv ==
  /\ pc = "compensating" => \E k \in 0..Len(Undoable(run.history)) :
                               Unwinding(toUndo, undone, Undoable(run.history), k)
  /\ run.status = "failed" => IsSuffix(Undoable(run.history), undone)
  /\ repo.status = "failed" => /\ IsSuffix(Undoable(repo.history), undone)
                               /\ pc \in {"off", "down"}

\* The steps of an acyclic definition never reach the limit of a call.
LEMMA BoundInit == ASSUME NEW rank PROVE Init => StepsBounded(rank)
BY DEF Init, StepsBounded, Acting, Failing

\* Every step preserves the bound on steps.
LEMMA BoundStep ==
  ASSUME NEW rank, Ranked(rank)
  PROVE  Shape /\ Control /\ StepsBounded(rank) /\ [Next]_vars => StepsBounded(rank)'
<1> SUFFICES ASSUME Shape, Control, StepsBounded(rank), [Next]_vars
             PROVE  StepsBounded(rank)'
  OBVIOUS
<1>0. taken \in Nat
  BY DEF Shape
<1>1. CASE WorkSteps
  <2>1. pc \in Acting /\ pc' # "head" /\ run' = run /\ At \in Steps
    BY <1>1, WorkEffect, Current DEF Works
  <2>2. rank[run.at] \in Nat
    BY <2>1 DEF Ranked, At
  <2>3. taken' = taken \/ (pc = "head" /\ taken' = taken + 1)
    BY <1>1 DEF WorkSteps, LockStep, WithinSteps, HandlerSucceeds, HandlerFails, MarkStepDone,
             MarkRecovered, FallbackSucceeds, FallbackFails, StartCompensation, Compensate, loopVars
  <2> QED
    BY <1>0, <2>1, <2>2, <2>3 DEF StepsBounded
<1>2. CASE MoveSteps
  <2>1. PICK status, t : Moves(status, t)
    BY <1>2, MoveEffect
  <2>2. run'.at = t /\ t \in Steps /\ At \in Steps
    BY <2>1, RecordedType DEF Moves
  <2>3. rank[run.at] \in Nat /\ rank[t] \in Nat
    BY <2>2 DEF Ranked, At
  <2>4. taken' <= rank[run.at] + 1
    <3>1. taken' = taken \/ (pc = "head" /\ taken' = taken + 1)
      BY <1>2 DEF MoveSteps, SkipStep, ReplayStep, WithinSteps, AdvanceStep, ErrorBoundary,
                  OutputRejected, loopVars
    <3> QED
      BY <1>0, <2>1, <2>3, <3>1 DEF Moves, StepsBounded
  <2>5. taken' \in Nat
    BY ControlStep DEF Shape
  <2>6. CASE pc' = "head"
    <3>1. t \in {NextStep[At], AltStep[At], OnError[At]} \ {NoStep}
      BY <2>1, <2>6, WorkflowExecutionAssumption DEF Moves
    <3>2. rank[run.at] < rank[t]
      BY <2>2, <3>1 DEF Ranked, At
    <3> QED
      BY <2>2, <2>3, <2>4, <2>5, <3>2 DEF StepsBounded
  <2>7. CASE pc' # "head"
    <3>1. t = run.at
      BY <2>1, <2>7 DEF Moves, At
    <3> QED
      BY <2>2, <2>4, <2>7, <3>1 DEF StepsBounded
  <2> QED
    BY <2>6, <2>7
<1>3. CASE EndSteps
  BY <1>3, EndEffect DEF Ends, StepsBounded, Acting, Failing
<1>4. CASE \E r, steps : Entered(r, steps)
  <2>1. run' \in Rows /\ taken' = 0
    BY <1>4 DEF Entered
  <2>2. rank[run'.at] \in Nat
    BY <2>1 DEF Rows, Ranked
  <2> QED
    BY <2>1, <2>2 DEF StepsBounded
<1>5. CASE pc' \in {"pausing", "off", "down"}
  BY <1>5 DEF StepsBounded, Acting, Failing
<1>6. CASE UNCHANGED vars
  BY <1>6 DEF vars, StepsBounded
<1>7. CASE CallSteps \/ Recover
  BY <1>4, <1>5, <1>7, Starting, Resuming, Ticking, Recovering DEF CallSteps
<1>8. CASE PauseRun \/ PauseCheckpoint \/ FinalSave \/ Crash
  BY <1>5, <1>8 DEF PauseRun, PauseCheckpoint, FinalSave, Crash
<1> QED
  BY <1>1, <1>2, <1>3, <1>6, <1>7, <1>8, Kinds

\* A sequence whose elements end another one is a suffix of it.
LEMMA SuffixOf ==
  ASSUME NEW T, NEW u \in Seq(T), NEW d \in Seq(T), Len(u) <= Len(d),
         \A i \in 1..Len(u) : u[i] = d[Len(d) - Len(u) + i]
  PROVE  IsSuffix(u, d)
<1> DEFINE m == Len(u)
           n == Len(d)
           ru == [i \in 1..m |-> u[(m - i) + 1]]
           rd == [i \in 1..n |-> d[(n - i) + 1]]
<1>1. m \in Nat /\ n \in Nat /\ m <= n
  OBVIOUS
<1>2. /\ \A i \in 1..m : u[i] \in T
      /\ \A i \in 1..n : d[i] \in T
  OBVIOUS
<1>3. \A i \in 1..m : u[i] = d[n - m + i]
  OBVIOUS
<1>4. Reverse(u) = ru /\ Reverse(d) = rd
  BY DEF Reverse
<1> HIDE DEF m, n
<1>5. ru \in Seq(T) /\ Len(ru) = m
  <2>1. \A i \in 1..m : (m - i) + 1 \in 1..m
    BY <1>1
  <2>2. \A i \in 1..m : u[(m - i) + 1] \in T
    BY <1>2, <2>1
  <2> QED
    BY <1>1, <2>2
<1>6. rd \in Seq(T) /\ Len(rd) = n
  <2>1. \A i \in 1..n : (n - i) + 1 \in 1..n
    BY <1>1
  <2>2. \A i \in 1..n : d[(n - i) + 1] \in T
    BY <1>2, <2>1
  <2> QED
    BY <1>1, <2>2
<1>7. \A i \in 1..m : ru[i] = rd[i]
  <2> SUFFICES ASSUME NEW i \in 1..m
               PROVE  ru[i] = rd[i]
    OBVIOUS
  <2>1. (m - i) + 1 \in 1..m /\ n - m + ((m - i) + 1) = (n - i) + 1 /\ i \in 1..n
    BY <1>1
  <2>2. u[(m - i) + 1] = d[(n - i) + 1]
    BY <1>3, <2>1
  <2> QED
    BY <2>1, <2>2
<1> HIDE DEF ru, rd
<1>8. /\ SubSeq(ru, 1, m) \in Seq(T) /\ Len(SubSeq(ru, 1, m)) = m
      /\ SubSeq(rd, 1, m) \in Seq(T) /\ Len(SubSeq(rd, 1, m)) = m
      /\ \A i \in 1..m : SubSeq(ru, 1, m)[i] = ru[i] /\ SubSeq(rd, 1, m)[i] = rd[i]
  BY <1>1, <1>5, <1>6
<1>9. SubSeq(ru, 1, m) = SubSeq(rd, 1, m)
  BY <1>7, <1>8, SeqEqual
<1> QED
  BY <1>1, <1>4, <1>5, <1>6, <1>9 DEF IsSuffix, IsPrefix

\* What can be undone is a sequence.
LEMMA UndoableSeq == ASSUME NEW h \in Seq(Results)
                     PROVE  \E T : Undoable(h) \in Seq(T)
<1>1. Completed(h) \in SUBSET (1..Len(h)) /\ Len(h) \in Nat
  BY DEF Completed
<1>2. Cardinality(Completed(h)) \in Nat
  <2>1. IsFiniteSet(1..Len(h))
    BY <1>1, FS_Interval
  <2>2. IsFiniteSet(Completed(h))
    BY <1>1, <2>1, FS_Subset
  <2> QED
    BY <2>2, FS_CardinalityType
<1> DEFINE u == Undoable(h)
           n == Cardinality(Completed(h))
           T == {u[i] : i \in 1..n}
<1>3. \E e : u = [i \in 1..n |-> e[i]]
  <2> DEFINE e == [i \in 1..n |-> h[CHOOSE j \in Completed(h) :
                                      Cardinality({k \in Completed(h) : k >= j}) = i].step]
  <2>1. u = e
    BY DEF Undoable
  <2>2. e = [i \in 1..n |-> e[i]]
    OBVIOUS
  <2> QED
    BY <2>1, <2>2
<1> HIDE DEF u, n
<1>4. u \in [1..n -> T] /\ n \in Nat
  BY <1>2, <1>3 DEF n
<1>5. u \in Seq(T)
  BY <1>4
<1> QED
  BY <1>5 DEF u

\* One more compensation.
LEMMA Unwinds ==
  ASSUME NEW T, NEW todo \in Seq(T), NEW done \in Seq(T), NEW u \in Seq(T), NEW k \in 0..Len(u),
         Unwinding(todo, done, u, k), todo # <<>>
  PROVE  k + 1 \in 0..Len(u) /\ Unwinding(Tail(todo), Append(done, Head(todo)), u, k + 1)
<1> DEFINE n == Len(done)
<1>1. Len(u) \in Nat /\ n \in Nat /\ Len(todo) \in Nat /\ Len(todo) > 0 /\ k \in Nat
  BY EmptySeq
<1>2. /\ Len(Tail(todo)) = Len(todo) - 1 /\ Head(todo) = todo[1]
      /\ \A j \in 1..Len(todo) - 1 : Tail(todo)[j] = todo[j + 1]
  BY <1>1
<1>3. Len(Append(done, Head(todo))) = n + 1 /\ Append(done, Head(todo))[n + 1] = Head(todo) /\ \A i \in 1..n : Append(done, Head(todo))[i] = done[i]
  BY <1>1
<1>4. /\ Len(todo) = Len(u) - k /\ (\A j \in 1..Len(u) - k : todo[j] = u[k + j])
      /\ k <= n /\ \A i \in 1..k : u[i] = done[n - k + i]
  BY DEF Unwinding
<1> HIDE DEF n
<1>5. k + 1 \in 0..Len(u) /\ k + 1 <= n + 1 /\ Len(Tail(todo)) = Len(u) - (k + 1)
  BY <1>1, <1>2, <1>4
<1>6. \A j \in 1..Len(u) - (k + 1) : Tail(todo)[j] = u[(k + 1) + j]
  <2> SUFFICES ASSUME NEW j \in 1..Len(u) - (k + 1)
               PROVE  Tail(todo)[j] = u[(k + 1) + j]
    OBVIOUS
  <2>1. j \in Nat /\ k \in Nat /\ Len(u) \in Nat /\ 1 <= j /\ j <= Len(u) - (k + 1)
    BY <1>1
  <2>2. j \in 1..Len(u) - k - 1 /\ j + 1 \in 1..Len(u) - k /\ k + (j + 1) = (k + 1) + j
    BY <2>1
  <2>3. j \in 1..Len(todo) - 1
    BY <1>4, <2>2
  <2>4. Tail(todo)[j] = todo[j + 1] /\ todo[j + 1] = u[k + (j + 1)]
    BY <1>2, <1>4, <2>2, <2>3
  <2> QED
    BY <2>2, <2>4
<1>7. \A i \in 1..k + 1 : u[i] = Append(done, Head(todo))[(n + 1) - (k + 1) + i]
  <2> SUFFICES ASSUME NEW i \in 1..k + 1
               PROVE  u[i] = Append(done, Head(todo))[(n + 1) - (k + 1) + i]
    OBVIOUS
  <2>1. CASE i = k + 1
    <3>1. (n + 1) - (k + 1) + i = n + 1 /\ 1 \in 1..Len(u) - k /\ u[k + 1] = todo[1]
      BY <1>1, <1>4, <2>1
    <3> QED
      BY <1>2, <1>3, <2>1, <3>1
  <2>2. CASE i # k + 1
    <3>1. i \in 1..k /\ (n + 1) - (k + 1) + i = n - k + i /\ n - k + i \in 1..n
      BY <1>1, <1>4, <2>2
    <3> QED
      BY <1>3, <1>4, <3>1
  <2> QED
    BY <2>1, <2>2
<1> QED
  BY <1>3, <1>5, <1>6, <1>7 DEF Unwinding

\* Neither a ceiling nor a rejection nor the limit of steps ends a run of such
\* a definition before its compensations have run.
Unwindable(rank) == /\ Ranked(rank) /\ CostCeiling = 0
                    /\ \A s \in Checked \cap Steps : OnError[s] # NoStep

\* A run fails only when its compensations have run.
LEMMA OnlyUndoneFail ==
  ASSUME NEW rank, Unwindable(rank), Shape, Control, RejectedChecked, StepsBounded(rank), EndSteps,
         ~CompensationEnds
  PROVE  run'.status # "failed"
<1>1. At \in Steps /\ run \in Rows /\ run.status = "running"
  BY EndEffect, Current DEF Ends
<1>2. CASE OutOfSteps
  <2>1. rank[run.at] \in 0..MaxSteps - 1 /\ taken \in Nat /\ MaxSteps \in Nat
    BY <1>1, WorkflowExecutionAssumption DEF Unwindable, Ranked, Shape, At
  <2>2. limit # MaxSteps
    BY <1>2, <2>1 DEF OutOfSteps, StepsBounded
  <2> QED
    BY <1>1, <1>2, <2>2 DEF OutOfSteps
<1>3. ~CostExceeded
  BY DEF CostExceeded, OverCeiling, Unwindable
<1>4. ~(OutputRejected /\ OnError[At] = NoStep)
  BY <1>1 DEF OutputRejected, Unwindable, RejectedChecked, At
<1>5. CASE CompleteRun
  BY <1>1, <1>5 DEF CompleteRun, Rows
<1> QED
  BY <1>2, <1>3, <1>4, <1>5 DEF EndSteps

\* The compensations stay a sequence.
LEMMA UndoSeqsStep == ASSUME Shape, Control, UndoSeqs, [Next]_vars PROVE UndoSeqs'
<1>1. PICK T : toUndo \in Seq(T) /\ undone \in Seq(T)
  BY DEF UndoSeqs
<1>2. CASE StartCompensation
  <2>1. PICK U : Undoable(run.history) \in Seq(U)
    BY HistoryTypes, UndoableSeq
  <2>2. undone \in Seq(T \cup U) /\ Undoable(run.history) \in Seq(T \cup U)
    BY <1>1, <2>1, SeqMonotonic
  <2>3. toUndo' = Undoable(run.history) /\ undone' = undone
    BY <1>2 DEF StartCompensation, worldVars
  <2> QED
    BY <2>2, <2>3 DEF UndoSeqs
<1>3. CASE Compensate
  <2>1. toUndo # <<>> /\ undone' = Append(undone, Head(toUndo)) /\ toUndo' = Tail(toUndo)
    BY <1>3 DEF Compensate
  <2>2. undone' \in Seq(T) /\ toUndo' \in Seq(T)
    BY <1>1, <2>1
  <2> QED
    BY <2>2 DEF UndoSeqs
<1>4. CASE Crash
  <2>1. toUndo' = <<>> /\ undone' = undone
    BY <1>4 DEF Crash, worldVars
  <2>2. toUndo' \in Seq(T)
    BY <2>1
  <2> QED
    BY <1>1, <2>1, <2>2 DEF UndoSeqs
<1>5. CASE ~(StartCompensation \/ Compensate \/ Crash)
  <2>1. UNCHANGED <<toUndo, undone>>
    <3>1. CASE WorkSteps
      BY <1>5, <3>1 DEF WorkSteps, LockStep, HandlerSucceeds, HandlerFails, MarkStepDone, MarkRecovered,
           FallbackSucceeds, FallbackFails, worldVars, loopVars
    <3>2. CASE MoveSteps \/ EndSteps
      BY <3>2, MoveEffect, EndEffect DEF Moves, Ends, aside
    <3>3. CASE CallSteps \/ PauseRun \/ PauseCheckpoint \/ FinalSave \/ Recover \/ UNCHANGED vars
      BY <3>3, Starting, Resuming, Ticking DEF CallSteps, Entered, PauseRun, PauseCheckpoint, FinalSave,
           Recover, Enter, worldVars, loopVars, vars
    <3> QED
      BY <1>5, <3>1, <3>2, <3>3, Kinds
  <2> QED
    BY <2>1 DEF UndoSeqs
<1> QED
  BY <1>2, <1>3, <1>4, <1>5

\* Every step preserves that a failed run is unwound.
LEMMA SagaStep ==
  ASSUME NEW rank, Unwindable(rank)
  PROVE  Shape /\ Control /\ RejectedChecked /\ StepsBounded(rank) /\ UndoSeqs /\ SagaInv /\ [Next]_vars
            => SagaInv'
<1> SUFFICES ASSUME Shape, Control, RejectedChecked, StepsBounded(rank), UndoSeqs, SagaInv, [Next]_vars
             PROVE  SagaInv'
  OBVIOUS
<1>1. PICK T : toUndo \in Seq(T) /\ undone \in Seq(T)
  BY DEF UndoSeqs
<1>2. PICK U : Undoable(run.history) \in Seq(U)
  BY HistoryTypes, UndoableSeq
<1> DEFINE u == Undoable(run.history)
           V == T \cup U
<1>3. u \in Seq(V) /\ toUndo \in Seq(V) /\ undone \in Seq(V) /\ Len(u) \in Nat /\ Len(undone) \in Nat
  BY <1>1, <1>2, SeqMonotonic
<1>4. pc \in Acting \cup {"pausing", "final"} => repo.status # "failed"
  BY DEF SagaInv, Acting, Failing
<1> HIDE DEF u, V
<1>5. CASE StartCompensation
  <2>1. /\ toUndo' = u /\ undone' = undone /\ pc' = "compensating" /\ UNCHANGED <<run, repo>>
        /\ pc \in Acting
    BY <1>5 DEF StartCompensation, worldVars, u, Unrecovered, Acting, Failing
  <2>2. Unwinding(u, undone, u, 0) /\ 0 \in 0..Len(u)
    BY <1>3 DEF Unwinding
  <2>3. run.status = "running"
    BY <2>1, Current
  <2> QED
    BY <1>4, <2>1, <2>2, <2>3 DEF SagaInv, u
<1>6. CASE Compensate
  <2>1. /\ toUndo # <<>> /\ undone' = Append(undone, Head(toUndo)) /\ toUndo' = Tail(toUndo)
        /\ UNCHANGED <<run, repo>> /\ pc = "compensating" /\ pc' = pc
    BY <1>6 DEF Compensate
  <2>2. PICK k \in 0..Len(u) : Unwinding(toUndo, undone, u, k)
    BY <2>1 DEF SagaInv, u
  <2>3. k + 1 \in 0..Len(u) /\ Unwinding(toUndo', undone', u, k + 1)
    BY <1>3, <2>1, <2>2, Unwinds
  <2>4. run.status = "running" /\ repo.status # "failed"
    BY <1>4, <2>1, Current DEF Acting, Failing
  <2> QED
    BY <2>1, <2>3, <2>4 DEF SagaInv, u
<1>7. CASE CompensationEnds
  <2>1. /\ toUndo = <<>> /\ undone' = undone /\ pc = "compensating" /\ pc' = "final" /\ repo' = repo
        /\ run' = [run EXCEPT !.status = "failed"]
    BY <1>7 DEF CompensationEnds, FailRun, worldVars
  <2>2. run \in Rows
    BY <2>1, Current DEF Acting, Failing
  <2>3. run'.history = run.history
    BY <2>1, <2>2 DEF Rows
  <2>4. PICK k \in 0..Len(u) : Unwinding(toUndo, undone, u, k)
    BY <2>1 DEF SagaInv, u
  <2>5. Len(toUndo) = 0
    BY <2>1
  <2>6. k = Len(u)
    BY <1>3, <2>4, <2>5 DEF Unwinding
  <2>7. IsSuffix(u, undone)
    BY <1>3, <2>4, <2>6, SuffixOf DEF Unwinding
  <2>8. repo.status # "failed"
    BY <1>4, <2>1 DEF Acting, Failing
  <2> QED
    BY <2>1, <2>3, <2>7, <2>8 DEF SagaInv, u
<1>8. CASE WorkSteps /\ ~StartCompensation /\ ~Compensate
  <2>1. pc \in Acting /\ UNCHANGED <<run, repo>>
    BY <1>8, WorkEffect DEF Works
  <2>2. pc' # "compensating"
    BY <1>8 DEF WorkSteps, LockStep, HandlerSucceeds, HandlerFails, MarkStepDone, MarkRecovered,
                FallbackSucceeds, FallbackFails
  <2>3. run.status = "running" /\ repo.status # "failed"
    BY <1>4, <2>1, Current
  <2> QED
    BY <2>1, <2>2, <2>3 DEF SagaInv
<1>9. CASE MoveSteps
  <2>1. PICK status, t : Moves(status, t)
    BY <1>9, MoveEffect
  <2>2. run'.status = "running" /\ repo' = repo /\ pc \in Acting /\ pc' # "compensating"
    BY <2>1, RecordedType DEF Moves
  <2> QED
    BY <1>4, <2>2 DEF SagaInv
<1>10. CASE EndSteps /\ ~CompensationEnds
  <2>1. run'.status # "failed"
    BY <1>10, OnlyUndoneFail
  <2>2. pc \in Acting /\ pc' = "final" /\ repo' = repo
    BY <1>10, EndEffect DEF Ends
  <2> QED
    BY <1>4, <2>1, <2>2 DEF SagaInv
<1>11. CASE PauseRun
  <2>1. run'.status = "paused" /\ repo' = run' /\ pc' = "pausing"
    BY <1>11, Pausing
  <2> QED
    BY <2>1 DEF SagaInv
<1>12. CASE PauseCheckpoint \/ FinalSave
  <2>1. /\ pc \in {"pausing", "final"} /\ pc' = "off" /\ run' = run /\ repo' \in {run, repo}
        /\ undone' = undone
    BY <1>12 DEF PauseCheckpoint, FinalSave, worldVars
  <2> QED
    BY <1>4, <2>1 DEF SagaInv
<1>13. CASE StartRun
  <2>1. pc' = "head" /\ run'.status = "running" /\ repo'.status = "running"
    BY <1>13, Starting DEF Entered
  <2> QED
    BY <2>1 DEF SagaInv
<1>14. CASE ResumeRun
  <2>1. /\ pc' = "head" /\ run'.status = "running"
        /\ repo \in Rows /\ repo' = [repo EXCEPT !.status = "running"]
    BY <1>14, Resuming DEF Entered
  <2>2. repo'.status = "running"
    BY <2>1 DEF Rows
  <2> QED
    BY <2>1, <2>2 DEF SagaInv
<1>15. CASE TickRun
  <2>1. pc' = "head" /\ run'.status = "running" /\ repo' = run'
    BY <1>15, Ticking DEF Entered
  <2> QED
    BY <2>1 DEF SagaInv
<1>16. CASE Crash
  <2>1. run' = NoRow /\ NoRow.status = "none" /\ repo' \in {repo, NoRow} /\ pc' = "down" /\ undone' = undone
    BY <1>16 DEF Crash, NoRow, worldVars
  <2> QED
    BY <2>1 DEF SagaInv
<1>17. CASE Recover
  <2>1. CASE pc' = "head" /\ run'.status = "running" /\ repo' = run'
    BY <2>1 DEF SagaInv
  <2>2. CASE pc' = "off" /\ run' = repo /\ repo' = repo /\ undone' = undone
    BY <2>2 DEF SagaInv
  <2> QED
    BY <1>17, <2>1, <2>2, Recovering DEF Entered, worldVars
<1>18. CASE UNCHANGED vars
  BY <1>18 DEF vars, SagaInv
<1> QED
  BY <1>5, <1>6, <1>7, <1>8, <1>9, <1>10, <1>11, <1>12, <1>13, <1>14, <1>15, <1>16, <1>17, <1>18,
     Kinds DEF CallSteps

\* A definition without cycles, of no more steps than a call may take, in which
\* a step whose output can be rejected has an error boundary: under no cost
\* ceiling, a run that has failed has compensated every completed step that
\* can be, the latest first, through crashes and recoveries.
THEOREM SagaSafe == (\E rank : Unwindable(rank)) => (Spec => []SagaUnwound)
<1> SUFFICES ASSUME NEW rank, Unwindable(rank)
             PROVE  Spec => []SagaUnwound
  OBVIOUS
<1> DEFINE Inv == /\ Shape /\ Control /\ WaitsSucceed /\ RejectedChecked /\ StepsBounded(rank)
                  /\ UndoSeqs /\ SagaInv
<1>1. Init => Inv
  <2>1. Init => UndoSeqs
    <3>1. <<>> \in Seq(Steps)
      OBVIOUS
    <3> QED
      BY <3>1 DEF Init, UndoSeqs
  <2>2. Init => SagaInv
    BY DEF Init, SagaInv, NoRow
  <2> QED
    BY <2>1, <2>2, InitControl, WaitsInit, BoundInit
<1>2. Inv /\ [Next]_vars => Inv'
  <2>1. Ranked(rank)
    BY DEF Unwindable
  <2> SUFFICES ASSUME Inv, [Next]_vars
               PROVE  Inv'
    OBVIOUS
  <2>2. Shape' /\ Control'
    BY ControlStep
  <2>3. WaitsSucceed' /\ RejectedChecked'
    BY WaitsStep
  <2>4. StepsBounded(rank)'
    BY <2>1, BoundStep
  <2>5. UndoSeqs'
    BY UndoSeqsStep
  <2>6. SagaInv'
    BY SagaStep
  <2> QED
    BY <2>2, <2>3, <2>4, <2>5, <2>6
<1>3. Inv => SagaUnwound
  BY DEF SagaInv, SagaUnwound
<1> HIDE DEF Inv
<1> QED
  BY <1>1, <1>2, <1>3, PTL DEF Spec

-----------------------------------------------------------------------------
(* What a crash repeats. *)

\* Where a recovery would begin, and where the run is, or would be after one.
Base == IF ckpt = NoState THEN EntryStep ELSE ckpt.at
Here == IF run = NoRow THEN Base ELSE run.at
\* The current step, if its handler has succeeded since the run came to it.
Fresh == IF \/ pc \in {"succeeded", "rejected", "done", "recovered", "advancing", "completing"}
            \/ pc \in Failing /\ final = "completed"
            \/ pc \in {"final", "off"} /\ run.status \in {"completed", "failed"}
         THEN {run.at} ELSE {}
\* The steps whose handlers have succeeded and which lie ahead of the run, and
\* ahead of a recovery.
AheadOfRun(rank) == {s \in Steps : executed[s] > 0 /\ rank[s] >= rank[Here]}
AheadOfBase(rank) == {s \in Steps : executed[s] > 0 /\ rank[s] >= rank[Base]}
\* What is counted: the steps whose handlers have succeeded twice, and those
\* whose handlers will have if the run comes to them, now or after a crash.
Due(rank) == Repeated \cup (AheadOfRun(rank) \ Fresh)
Exposed(rank) == Repeated \cup (AheadOfBase(rank) \ Fresh)

DueInv(rank) ==
  /\ Cardinality(Due(rank)) <= crashes + lost
  /\ \A s \in Steps : executed[s] <= 1 + crashes
  /\ \A s \in AheadOfRun(rank) \ Fresh : executed[s] <= crashes
  /\ \A w \in Waits \cap Steps : executed[w] = 0

\* A hidden save exposes one step more to a crash.
ExposedInv(rank) == Cardinality(Exposed(rank)) <= crashes + lost + hidden

\* A run without a durable row is never behind its checkpoint.
Onward(rank) ==
  /\ run # NoRow => rank[Base] <= rank[run.at]
  /\ ckpt = NoState /\ run # NoRow => run.at = EntryStep
  /\ pc = "down" => repo = NoRow
  /\ pc = "off" /\ run = NoRow => ckpt = NoState
  /\ pc = "off" /\ run.status = "paused" => ckpt # NoState

\* What is counted are steps of the definition.
LEMMA CountedSteps ==
  ASSUME NEW rank
  PROVE  /\ Repeated \in SUBSET Steps /\ AheadOfRun(rank) \in SUBSET Steps
         /\ AheadOfBase(rank) \in SUBSET Steps
         /\ Due(rank) \in SUBSET Steps /\ Due(rank)' \in SUBSET Steps
         /\ Exposed(rank) \in SUBSET Steps /\ Exposed(rank)' \in SUBSET Steps
BY DEF Repeated, AheadOfRun, AheadOfBase, Due, Exposed

\* Where the run and a recovery stand.
LEMMA Places ==
  ASSUME NEW rank, Shape, Onward(rank), Ranked(rank)
  PROVE  /\ Base \in Steps /\ Here \in Steps /\ rank[Base] <= rank[Here]
         /\ AheadOfRun(rank) \subseteq AheadOfBase(rank) /\ Due(rank) \in SUBSET Exposed(rank)
<1>1. Base \in Steps
  BY WorkflowExecutionAssumption DEF Base, Shape, States
<1>2. Here \in Steps /\ rank[Base] <= rank[Here]
  BY <1>1 DEF Here, Shape, Rows, Onward, Ranked
<1>3. AheadOfRun(rank) \subseteq AheadOfBase(rank)
  <2>1. \A s \in Steps : rank[s] >= rank[Here] => rank[s] >= rank[Base]
    BY <1>1, <1>2 DEF Ranked
  <2> QED
    BY <2>1 DEF AheadOfRun, AheadOfBase
<1> QED
  BY <1>1, <1>2, <1>3 DEF Due, Exposed

\* Fewer steps ahead of the run, or fresh ones that stay so.
LEMMA DueLess ==
  ASSUME NEW rank, Shape, DueInv(rank), UNCHANGED <<executed, crashes, lost>>,
         AheadOfRun(rank)' \ Fresh' \subseteq AheadOfRun(rank) \ Fresh
  PROVE  DueInv(rank)'
<1>1. Repeated' = Repeated
  BY DEF Repeated
<1>2. Due(rank)' \in SUBSET Due(rank)
  BY <1>1 DEF Due
<1>3. /\ Cardinality(Due(rank)') <= Cardinality(Due(rank)) /\ Cardinality(Due(rank)') \in Nat
      /\ Cardinality(Due(rank)) \in Nat
  BY <1>2, CountedSteps, FiniteSteps
<1>4. Cardinality(Due(rank)') <= crashes + lost
  BY <1>3 DEF DueInv, Shape
<1> QED
  BY <1>4 DEF DueInv

\* Fewer steps exposed to a crash, whatever the saves are.
LEMMA ExposedLess ==
  ASSUME NEW rank, Shape, ExposedInv(rank), UNCHANGED <<crashes, lost, hidden>>,
         Exposed(rank)' \in SUBSET Exposed(rank)
  PROVE  ExposedInv(rank)'
<1>1. /\ Cardinality(Exposed(rank)') <= Cardinality(Exposed(rank)) /\ Cardinality(Exposed(rank)') \in Nat
      /\ Cardinality(Exposed(rank)) \in Nat
  BY CountedSteps, FiniteSteps
<1> QED
  BY <1>1 DEF ExposedInv, Shape

\* A save that latest() returns exposes no more than what lies ahead of the run.
LEMMA ExposedSaved ==
  ASSUME NEW rank, Shape, DueInv(rank), UNCHANGED <<crashes, lost>>, hidden' \in Nat,
         Exposed(rank)' \in SUBSET Due(rank)
  PROVE  ExposedInv(rank)'
<1>1. /\ Cardinality(Exposed(rank)') <= Cardinality(Due(rank)) /\ Cardinality(Exposed(rank)') \in Nat
      /\ Cardinality(Due(rank)) \in Nat
  BY CountedSteps, FiniteSteps
<1> QED
  BY <1>1 DEF ExposedInv, DueInv, Shape

\* One step more.
LEMMA OneMore ==
  ASSUME NEW S \in SUBSET Steps, NEW T \in SUBSET Steps, NEW s, T \in SUBSET (S \cup {s})
  PROVE  /\ Cardinality(T) <= Cardinality(S) + 1
         /\ Cardinality(T) \in Nat /\ Cardinality(S) \in Nat
<1>1. CASE s \in Steps
  <2>1. S \cup {s} \in SUBSET Steps
    BY <1>1
  <2>2. /\ Cardinality(T) <= Cardinality(S \cup {s})
        /\ Cardinality(T) \in Nat /\ Cardinality(S \cup {s}) \in Nat
    BY <2>1, FiniteSteps
  <2>3. Cardinality(S \cup {s}) <= Cardinality(S) + 1 /\ Cardinality(S) \in Nat
    BY <1>1, FiniteSteps
  <2> QED
    BY <2>2, <2>3
<1>2. CASE s \notin Steps
  <2>1. T \in SUBSET S
    BY <1>2
  <2>2. Cardinality(T) <= Cardinality(S) /\ Cardinality(T) \in Nat /\ Cardinality(S) \in Nat
    BY <2>1, FiniteSteps
  <2> QED
    BY <2>2
<1> QED
  BY <1>1, <1>2

\* A handler that succeeds, while its step is not fresh.
LEMMA RepeatOnce ==
  ASSUME NEW rank, Shape, DueInv(rank), ExposedInv(rank), Onward(rank), run \in Rows, At \in Steps,
         Ranked(rank), Fresh = {}, Fresh' = {At}, At \notin Waits,
         executed' = [executed EXCEPT ![At] = @ + 1], UNCHANGED <<run, stored, crashes, lost>>
  PROVE  DueInv(rank)' /\ ExposedInv(rank)'
<1>1. executed \in [Steps -> Nat] /\ crashes \in Nat /\ lost \in Nat /\ hidden \in Nat
  BY DEF Shape
<1>2. executed'[At] = executed[At] + 1 /\ \A s \in Steps : s # At => executed'[s] = executed[s]
  BY <1>1
<1>3. Base' = Base /\ Here' = Here /\ Here = At
  BY RowTypes DEF Base, Here, stored, At
<1>4. executed[At] > 0 => At \in AheadOfRun(rank)
  BY <1>3 DEF AheadOfRun, Ranked
<1>5. executed[At] <= crashes
  <2>1. CASE executed[At] > 0
    BY <1>4, <2>1 DEF DueInv
  <2>2. CASE ~(executed[At] > 0)
    BY <1>1, <2>2
  <2> QED
    BY <2>1, <2>2
<1>6. /\ AheadOfRun(rank)' \ Fresh' \subseteq AheadOfRun(rank)
      /\ AheadOfBase(rank)' \ Fresh' \subseteq AheadOfBase(rank)
  BY <1>2, <1>3 DEF AheadOfRun, AheadOfBase
<1>7. Repeated' \subseteq Repeated \cup AheadOfRun(rank)
  BY <1>1, <1>2, <1>4 DEF Repeated
<1>8. Due(rank)' \in SUBSET Due(rank) /\ Exposed(rank)' \in SUBSET Exposed(rank)
  <2>1. AheadOfRun(rank) \subseteq AheadOfBase(rank)
    BY Places
  <2> QED
    BY <1>6, <1>7, <2>1 DEF Due, Exposed
<1>9. /\ Cardinality(Due(rank)') <= Cardinality(Due(rank)) /\ Cardinality(Due(rank)') \in Nat
      /\ Cardinality(Due(rank)) \in Nat
  BY <1>8, CountedSteps, FiniteSteps
<1>10. Cardinality(Due(rank)') <= crashes' + lost'
  BY <1>1, <1>9 DEF DueInv
<1>11. \A s \in Steps : executed'[s] <= 1 + crashes'
  BY <1>1, <1>2, <1>5 DEF DueInv
<1>12. \A s \in AheadOfRun(rank)' \ Fresh' : executed'[s] <= crashes'
  <2>1. \A s \in AheadOfRun(rank)' \ Fresh' : s \in Steps /\ s # At /\ s \in AheadOfRun(rank) \ Fresh
    BY <1>6, CountedSteps
  <2> QED
    BY <1>2, <2>1 DEF DueInv
<1>13. \A w \in Waits \cap Steps : executed'[w] = 0
  BY <1>2 DEF DueInv
<1>14. ExposedInv(rank)'
  BY <1>8, ExposedLess DEF stored
<1> QED
  BY <1>10, <1>11, <1>12, <1>13, <1>14 DEF DueInv

\* After a crash, what was exposed is due, and with it the step that was fresh.
LEMMA RepeatCrash ==
  ASSUME NEW rank, Shape, DueInv(rank), ExposedInv(rank), Crash
  PROVE  DueInv(rank)' /\ ExposedInv(rank)'
<1>1. /\ executed' = executed /\ crashes' = crashes + 1 /\ ckpt' = ckpt /\ run' = NoRow /\ pc' = "down"
      /\ lost' = lost + hidden /\ hidden' = 0
  BY DEF Crash, worldVars
<1>2. executed \in [Steps -> Nat] /\ crashes \in Nat /\ lost \in Nat /\ hidden \in Nat
  BY DEF Shape
<1>3. Base' = Base /\ Here' = Base /\ Repeated' = Repeated
  BY <1>1 DEF Base, Here, Repeated
<1>4. AheadOfRun(rank)' = AheadOfBase(rank) /\ AheadOfBase(rank)' = AheadOfBase(rank)
  BY <1>1, <1>3 DEF AheadOfRun, AheadOfBase
<1>5. PICK s : Fresh \in SUBSET {s}
  BY DEF Fresh
<1>6. /\ Due(rank)' \in SUBSET (Exposed(rank) \cup {s})
      /\ Exposed(rank)' \in SUBSET (Exposed(rank) \cup {s})
  BY <1>3, <1>4, <1>5 DEF Due, Exposed
<1>7. /\ Cardinality(Due(rank)') <= Cardinality(Exposed(rank)) + 1
      /\ Cardinality(Exposed(rank)') <= Cardinality(Exposed(rank)) + 1
      /\ Cardinality(Due(rank)') \in Nat /\ Cardinality(Exposed(rank)') \in Nat
      /\ Cardinality(Exposed(rank)) \in Nat
  BY <1>6, CountedSteps, OneMore
<1>8. Cardinality(Due(rank)') <= crashes' + lost' /\ Cardinality(Exposed(rank)') <= crashes' + lost' + hidden'
  BY <1>1, <1>2, <1>7 DEF ExposedInv
<1>9. \A x \in Steps : executed'[x] <= crashes'
  BY <1>1, <1>2 DEF DueInv
<1>10. \A x \in Steps : executed'[x] <= 1 + crashes'
  BY <1>1, <1>2, <1>9
<1>11. \A x \in AheadOfRun(rank)' \ Fresh' : executed'[x] <= crashes'
  BY <1>4, <1>9, CountedSteps
<1> QED
  BY <1>1, <1>8, <1>10, <1>11 DEF DueInv, ExposedInv

\* Every step preserves that the run is not behind its checkpoint.
LEMMA OnwardStep ==
  ASSUME NEW rank, Ranked(rank), ~DurableRepo
  PROVE  Shape /\ Control /\ Onward(rank) /\ [Next]_vars => Onward(rank)'
<1> SUFFICES ASSUME Shape, Control, Onward(rank), [Next]_vars
             PROVE  Onward(rank)'
  OBVIOUS
<1>1. /\ \A s \in Steps : rank[s] \in Nat
      /\ \A s, t \in Steps : t \in Successors(s) => rank[s] <= rank[t]
  BY WorkflowExecutionAssumption DEF Ranked, Successors
<1>2. Base \in Steps
  BY WorkflowExecutionAssumption DEF Base, Shape, States
<1>3. CASE WorkSteps
  <2>1. Works /\ pc' \notin {"down", "off"}
    BY <1>3, WorkEffect DEF Works, Acting, Failing
  <2> QED
    BY <2>1 DEF Works, Onward, Base, stored
<1>4. CASE MoveSteps
  <2>1. PICK status, t : Moves(status, t)
    BY <1>4, MoveEffect
  <2>2. /\ run'.at = t /\ ckpt' # NoState /\ t \in Steps /\ At \in Steps
        /\ ckpt' = ckpt \/ ckpt'.at = t
    BY <2>1, RecordedType, SaveEffect DEF Moves
  <2>4. rank[Base] <= rank[t]
    BY <1>1, <1>2, <2>1, <2>2, RowTypes DEF Moves, Onward, At
  <2>3. pc' \in {"head", "completing"}
    BY <2>1 DEF Moves
  <2> QED
    BY <1>1, <2>2, <2>3, <2>4 DEF Onward, Base
<1>5. CASE EndSteps
  <2>1. PICK status : Ends(status)
    BY <1>5, EndEffect
  <2>2. run'.at = run.at /\ run # NoRow /\ ckpt' = ckpt /\ pc' = "final"
    BY <2>1, RowTypes DEF Ends, stored
  <2> QED
    BY <2>2 DEF Onward, Base
<1>6. CASE PauseRun
  <2>1. run'.at = run.at /\ run # NoRow /\ ckpt' = ckpt /\ pc' = "pausing"
    BY <1>6, Pausing, RowTypes DEF At, stored
  <2> QED
    BY <2>1 DEF Onward, Base
<1>7. CASE PauseCheckpoint
  <2>1. /\ run \in Rows /\ run' = run /\ pc' = "off" /\ run.at \in Steps /\ run # NoRow
        /\ ckpt' # NoState /\ (ckpt' = ckpt \/ ckpt'.at = run.at)
    <3>1. run \in Rows /\ run' = run /\ pc' = "off"
      BY <1>7 DEF PauseCheckpoint, Control
    <3> QED
      BY <1>7, <3>1, SaveEffect, RowTypes DEF Rows
  <2>2. rank[Base] <= rank[run.at]
    BY <2>1 DEF Onward
  <2> QED
    BY <1>1, <2>1, <2>2 DEF Onward, Base
<1>8. CASE FinalSave
  <2>1. run \in Rows /\ run.status # "paused" /\ UNCHANGED <<run, ckpt>> /\ pc' = "off"
    BY <1>8 DEF FinalSave, Control, stored
  <2> QED
    BY <2>1, RowTypes DEF Onward, Base
<1>9. CASE StartRun
  <2>1. run = NoRow /\ pc = "off" /\ pc' = "head" /\ ckpt' = ckpt /\ run'.at = EntryStep
    BY <1>9, Starting DEF Entered, StartRun, stored
  <2>2. ckpt = NoState
    BY <2>1 DEF Onward
  <2> QED
    BY <1>1, <2>1, <2>2, WorkflowExecutionAssumption DEF Onward, Base
<1>10. CASE ResumeRun
  <2>1. /\ run = repo /\ repo \in Rows /\ repo.status = "paused" /\ repo.at \in Steps /\ pc = "off"
        /\ pc' = "head" /\ ckpt' = ckpt /\ run'.at \in Steps /\ run'.at \in Successors(repo.at)
    BY <1>10, Resuming DEF Entered, stored
  <2>2. ckpt # NoState /\ rank[Base] <= rank[run.at]
    BY <2>1, RowTypes DEF Onward
  <2>3. rank[run.at] <= rank[run'.at]
    BY <1>1, <2>1
  <2>4. rank[Base] <= rank[run'.at] /\ Base' = Base
    BY <1>1, <1>2, <2>1, <2>2, <2>3 DEF Base
  <2> QED
    BY <2>1, <2>2, <2>4 DEF Onward
<1>11. CASE TickRun
  <2>1. UNCHANGED <<run, ckpt>> /\ pc' = "head"
    BY <1>11, Ticking DEF Entered, stored
  <2> QED
    BY <2>1 DEF Onward, Base
<1>12. CASE Crash
  <2>1. run' = NoRow /\ repo' = NoRow /\ pc' = "down"
    BY <1>12 DEF Crash
  <2> QED
    BY <2>1 DEF Onward
<1>13. CASE Recover
  <2>1. pc = "down" /\ repo = NoRow
    BY <1>13, Recovering DEF Onward
  <2>2. CASE ckpt \in States /\ run'.at = ckpt.at /\ ckpt' = ckpt /\ pc' = "head"
    <3>1. ckpt' # NoState /\ Base' = ckpt.at /\ ckpt.at \in Steps
      BY <2>2, RowTypes DEF Base, States
    <3> QED
      BY <1>1, <2>2, <3>1 DEF Onward
  <2>3. CASE ckpt = NoState /\ ckpt' = ckpt /\ run' = NoRow /\ pc' = "off"
    BY <2>3 DEF Onward, NoRow
  <2> QED
    BY <1>13, <2>1, <2>2, <2>3, Recovering DEF Entered, stored
<1>14. CASE UNCHANGED vars
  BY <1>14 DEF vars, Onward, Base
<1> QED
  BY <1>3, <1>4, <1>5, <1>6, <1>7, <1>8, <1>9, <1>10, <1>11, <1>12, <1>13, <1>14, Kinds DEF CallSteps

\* Where nothing that counts has changed, but steps may have become fresh.
LEMMA RepeatSame ==
  ASSUME NEW rank, Shape, Onward(rank), Ranked(rank), DueInv(rank), ExposedInv(rank),
         UNCHANGED <<executed, crashes, lost, stored>>, Here' = Here,
         Fresh \cap AheadOfBase(rank) \subseteq Fresh'
  PROVE  DueInv(rank)' /\ ExposedInv(rank)'
<1>1. Base' = Base /\ hidden' = hidden /\ Repeated' = Repeated
  BY DEF Base, stored, Repeated
<1>2. AheadOfRun(rank)' = AheadOfRun(rank) /\ AheadOfBase(rank)' = AheadOfBase(rank)
  BY <1>1 DEF AheadOfRun, AheadOfBase
<1>3. AheadOfRun(rank) \subseteq AheadOfBase(rank)
  BY Places
<1>4. DueInv(rank)'
  BY <1>2, <1>3, DueLess
<1>5. Exposed(rank)' \in SUBSET Exposed(rank)
  BY <1>1, <1>2 DEF Exposed
<1>6. ExposedInv(rank)'
  BY <1>1, <1>5, ExposedLess
<1> QED
  BY <1>4, <1>6

\* Where the run moves on without a save.
LEMMA RepeatOnward ==
  ASSUME NEW rank, Shape, Ranked(rank), DueInv(rank), ExposedInv(rank),
         UNCHANGED <<executed, crashes, lost, stored>>, Fresh = {}, Here \in Steps, Here' \in Steps,
         rank[Here] <= rank[Here']
  PROVE  DueInv(rank)' /\ ExposedInv(rank)'
<1>1. Base' = Base /\ hidden' = hidden /\ Repeated' = Repeated
  BY DEF Base, stored, Repeated
<1>2. \A s \in Steps : rank[s] >= rank[Here'] => rank[s] >= rank[Here]
  BY DEF Ranked
<1>3. AheadOfRun(rank)' \subseteq AheadOfRun(rank) /\ AheadOfBase(rank)' = AheadOfBase(rank)
  BY <1>1, <1>2 DEF AheadOfRun, AheadOfBase
<1>4. DueInv(rank)'
  BY <1>3, DueLess
<1>5. Exposed(rank)' \in SUBSET Exposed(rank)
  BY <1>1, <1>3 DEF Exposed
<1>6. ExposedInv(rank)'
  BY <1>1, <1>5, ExposedLess
<1> QED
  BY <1>4, <1>6

\* Recording a result.
LEMMA RepeatMove ==
  ASSUME NEW rank, Ranked(rank), Shape, Control, Onward(rank), DueInv(rank), ExposedInv(rank),
         NEW status, NEW t, Moves(status, t)
  PROVE  DueInv(rank)' /\ ExposedInv(rank)'
<1>1. /\ run' \in Rows /\ run'.at = t /\ t \in Steps /\ At \in Steps /\ ckpt' # NoState
      /\ \/ ckpt'.at = t /\ hidden' = 0
         \/ ckpt' = ckpt /\ hidden' = hidden + 1
  BY RecordedType, SaveEffect DEF Moves
<1>2. /\ UNCHANGED <<executed, crashes, lost>> /\ Here = At /\ Here' = t /\ Repeated' = Repeated
  BY <1>1, RowTypes DEF Moves, aside, Here, At, Repeated
<1>3. Fresh \subseteq {At} /\ \A s \in Steps : rank[s] \in Nat
  BY DEF Fresh, At, Ranked
<1>4. AheadOfRun(rank)' \ Fresh' \subseteq AheadOfRun(rank) \ Fresh
  <2>1. CASE pc' = "head"
    <3>1. t \in {NextStep[At], AltStep[At], OnError[At]} \ {NoStep}
      BY <1>1, <2>1, WorkflowExecutionAssumption DEF Moves
    <3>2. rank[At] < rank[t]
      BY <1>1, <3>1 DEF Ranked
    <3>3. \A s \in Steps : rank[s] >= rank[t] => rank[s] >= rank[At] /\ s # At
      BY <1>1, <1>3, <3>2
    <3>4. AheadOfRun(rank)' \subseteq AheadOfRun(rank) \ {At}
      BY <1>2, <3>3 DEF AheadOfRun
    <3> QED
      BY <1>3, <3>4
  <2>2. CASE pc' = "completing"
    <3>1. t = At
      BY <1>1, <2>2, WorkflowExecutionAssumption DEF Moves
    <3>2. AheadOfRun(rank)' = AheadOfRun(rank)
      BY <1>2, <3>1 DEF AheadOfRun
    <3>3. Fresh' = {At}
      BY <1>1, <2>2, <3>1 DEF Fresh
    <3> QED
      BY <1>3, <3>2, <3>3
  <2> QED
    BY <2>1, <2>2 DEF Moves
<1>5. DueInv(rank)'
  BY <1>2, <1>4, DueLess
<1>6. ExposedInv(rank)'
  <2>1. CASE ckpt'.at = t /\ hidden' = 0
    <3>1. Base' = t
      BY <1>1, <2>1 DEF Base
    <3>2. AheadOfBase(rank)' = AheadOfRun(rank)'
      BY <1>2, <3>1 DEF AheadOfBase, AheadOfRun
    <3>3. Exposed(rank)' \in SUBSET Due(rank)
      BY <1>2, <1>4, <3>2 DEF Exposed, Due
    <3> QED
      BY <1>2, <2>1, <3>3, ExposedSaved
  <2>2. CASE ckpt' = ckpt /\ hidden' = hidden + 1
    <3>1. AheadOfBase(rank)' = AheadOfBase(rank)
      BY <1>2, <2>2 DEF AheadOfBase, Base
    <3>2. Exposed(rank)' \in SUBSET (Exposed(rank) \cup {At})
      BY <1>2, <1>3, <3>1 DEF Exposed
    <3>3. /\ Cardinality(Exposed(rank)') <= Cardinality(Exposed(rank)) + 1
          /\ Cardinality(Exposed(rank)') \in Nat /\ Cardinality(Exposed(rank)) \in Nat
      BY <3>2, CountedSteps, OneMore
    <3> QED
      BY <1>2, <2>2, <3>3 DEF ExposedInv, Shape
  <2> QED
    BY <1>1, <2>1, <2>2
<1> QED
  BY <1>5, <1>6

\* Every step preserves what crashes may have repeated.
LEMMA RepeatStep ==
  ASSUME NEW rank, Ranked(rank), ~DurableRepo, Checked \cap Fallback = {}
  PROVE  Shape /\ Control /\ WaitsSucceed /\ RejectedChecked /\ Onward(rank) /\ DueInv(rank)
         /\ ExposedInv(rank) /\ [Next]_vars => DueInv(rank)' /\ ExposedInv(rank)'
<1> SUFFICES ASSUME Shape, Control, WaitsSucceed, RejectedChecked, Onward(rank), DueInv(rank),
                    ExposedInv(rank), [Next]_vars
             PROVE  DueInv(rank)' /\ ExposedInv(rank)'
  OBVIOUS
<1>2. Fresh \subseteq {run.at}
  BY DEF Fresh
<1>3. ASSUME UNCHANGED <<executed, crashes, lost, stored>>, run \in Rows, run' \in Rows, run'.at = run.at,
             Fresh \cap AheadOfBase(rank) \subseteq Fresh'
      PROVE  DueInv(rank)' /\ ExposedInv(rank)'
  <2>1. Here' = Here
    BY <1>3, RowTypes DEF Here
  <2> QED
    BY <1>3, <2>1, RepeatSame
<1>4. CASE WorkSteps
  <2>1. /\ pc \in Acting /\ UNCHANGED <<run, repo, stored, crashes, lost>> /\ At \in Steps /\ run \in Rows
        /\ run.status = "running"
    BY <1>4, WorkEffect, Current DEF Works
  <2>2. CASE LockStep \/ HandlerFails
    <3>1. Fresh = {} /\ executed' = executed
      BY <2>2 DEF LockStep, WithinSteps, HandlerFails, Fresh, Failing, worldVars
    <3> QED
      BY <1>3, <2>1, <3>1
  <2>3. CASE MarkStepDone \/ MarkRecovered
    <3>1. Fresh' = {run.at} /\ executed' = executed
      BY <2>1, <2>3 DEF MarkStepDone, MarkRecovered, Fresh, worldVars
    <3> QED
      BY <1>2, <1>3, <2>1, <3>1
  <2>4. CASE FallbackFails \/ StartCompensation \/ Compensate
    <3>1. pc \in Failing /\ pc' \in Failing /\ final' = final /\ executed' = executed
      BY <2>4 DEF FallbackFails, StartCompensation, Compensate, Unrecovered, Failing, loopVars, worldVars
    <3>2. Fresh' = Fresh
      BY <2>1, <3>1 DEF Fresh, Failing
    <3> QED
      BY <1>3, <2>1, <3>1, <3>2
  <2>5. ASSUME NEW rejected \in BOOLEAN, HandlerSucceeds(rejected)
        PROVE  DueInv(rank)' /\ ExposedInv(rank)'
    <3>1. Fresh = {}
      BY <2>5 DEF HandlerSucceeds, Fresh, Failing
    <3>2. CASE At \in Waits
      <4>1. executed' = executed
        BY <2>5, <3>2 DEF HandlerSucceeds
      <4> QED
        BY <1>3, <2>1, <3>1, <4>1
    <3>3. CASE At \notin Waits
      <4>1. executed' = [executed EXCEPT ![At] = @ + 1]
        BY <2>5, <3>3 DEF HandlerSucceeds
      <4>2. final' = "completed" /\ pc' \in {"succeeded", "rejected", "recovered", "failed"}
        BY <2>5 DEF HandlerSucceeds
      <4>3. Fresh' = {At}
        BY <2>1, <4>2 DEF Fresh, Failing, At
      <4> QED
        BY <2>1, <3>1, <3>3, <4>1, <4>3, RepeatOnce
    <3> QED
      BY <3>2, <3>3
  <2>6. CASE FallbackSucceeds
    <3>1. final # "completed" /\ At \notin Waits /\ pc = "failed"
      BY <2>6 DEF FallbackSucceeds, RejectedChecked, WaitsSucceed, Failing, At
    <3>2. Fresh = {}
      BY <3>1 DEF Fresh
    <3>3. executed' = [executed EXCEPT ![At] = @ + 1] /\ pc' = "recovered"
      BY <2>6 DEF FallbackSucceeds
    <3>4. Fresh' = {At}
      BY <2>1, <3>3 DEF Fresh, At
    <3> QED
      BY <2>1, <3>1, <3>2, <3>3, <3>4, RepeatOnce
  <2> QED
    BY <1>4, <2>2, <2>3, <2>4, <2>5, <2>6 DEF WorkSteps
<1>5. CASE MoveSteps
  BY <1>5, MoveEffect, RepeatMove
<1>6. CASE EndSteps
  <2>1. PICK status : Ends(status)
    BY <1>6, EndEffect
  <2>2. /\ run'.at = run.at /\ run'.status = status /\ run \in Rows /\ run' \in Rows
    <3>1. /\ run \in Rows /\ run' = [run EXCEPT !.status = status]
          /\ status \in {"running", "completed", "failed"}
      BY <2>1 DEF Ends
    <3>2. PICK r \in Rows : r = run
      BY <3>1
    <3>3. status \in {"running", "paused", "completed", "failed"}
      BY <3>1
    <3>4. /\ [r EXCEPT !.status = status] \in Rows /\ [r EXCEPT !.status = status].status = status
          /\ [r EXCEPT !.status = status].at = r.at
      BY <3>3, RowTypes, Zenon
    <3> QED
      BY <3>1, <3>2, <3>4, Zenon
  <2>4. pc' = "final" /\ UNCHANGED <<executed, crashes, lost, stored>>
    BY <2>1 DEF Ends
  <2>3. Fresh \subseteq Fresh'
    <3>1. CASE status \in {"completed", "failed"}
      BY <1>2, <2>2, <2>4, <3>1 DEF Fresh
    <3>2. CASE status \notin {"completed", "failed"}
      <4>1. pc = "head"
        <5>1. CASE pc # "head"
          <6>1. run' = [run EXCEPT !.status = "failed"] \/ run' = [run EXCEPT !.status = "completed"]
            BY <1>6, <5>1 DEF EndSteps, OutOfSteps, CostExceeded, CompensationEnds, CompleteRun,
                              OutputRejected, FailRun
          <6> QED
            BY <2>2, <3>2, <6>1 DEF Rows
        <5> QED
          BY <5>1
      <4> QED
        BY <4>1 DEF Fresh, Failing
    <3> QED
      BY <3>1, <3>2
  <2> QED
    BY <1>3, <2>2, <2>3, <2>4
<1>7. CASE PauseRun
  <2>1. /\ At \in Steps /\ At \in Waits /\ UNCHANGED <<executed, crashes, lost, stored>>
        /\ run \in Rows /\ run' \in Rows /\ run'.at = run.at
    BY <1>7, Pausing DEF worldVars, boundVars, At
  <2>2. At \notin AheadOfBase(rank)
    BY <2>1 DEF AheadOfBase, DueInv
  <2> QED
    BY <1>2, <1>3, <2>1, <2>2 DEF At
<1>8. CASE PauseCheckpoint
  <2>1. /\ run \in Rows /\ run.status = "paused" /\ run' = run /\ Save(StateOf(run)) /\ pc = "pausing"
        /\ pc' = "off" /\ UNCHANGED <<executed, crashes, lost>>
    BY <1>8 DEF PauseCheckpoint, Control, worldVars, boundVars
  <2>2. Fresh = {} /\ Repeated' = Repeated /\ Here = run.at /\ Here' = run.at
    BY <2>1, RowTypes DEF Fresh, Failing, Repeated, Here
  <2>3. AheadOfRun(rank)' = AheadOfRun(rank)
    BY <2>1, <2>2 DEF AheadOfRun
  <2>4. DueInv(rank)'
    BY <2>1, <2>2, <2>3, DueLess
  <2>5. \/ ckpt' = StateOf(run) /\ hidden' = 0
        \/ ckpt' = ckpt /\ hidden' = hidden + 1
    BY <2>1 DEF Save
  <2>6. CASE ckpt' = StateOf(run) /\ hidden' = 0
    <3>1. Base' = run.at
      BY <2>1, <2>6, RowTypes DEF Base, StateOf
    <3>2. AheadOfBase(rank)' = AheadOfRun(rank)
      BY <2>1, <2>2, <3>1 DEF AheadOfBase, AheadOfRun
    <3>3. Exposed(rank)' \in SUBSET Due(rank)
      BY <2>2, <3>2 DEF Exposed, Due
    <3> QED
      BY <2>1, <2>4, <2>6, <3>3, ExposedSaved
  <2>7. CASE ckpt' = ckpt /\ hidden' = hidden + 1
    <3>1. AheadOfBase(rank)' = AheadOfBase(rank)
      BY <2>1, <2>7 DEF AheadOfBase, Base
    <3>2. Exposed(rank)' \in SUBSET Exposed(rank)
      BY <2>2, <3>1 DEF Exposed
    <3>3. /\ Cardinality(Exposed(rank)') <= Cardinality(Exposed(rank))
          /\ Cardinality(Exposed(rank)') \in Nat /\ Cardinality(Exposed(rank)) \in Nat
      BY <3>2, CountedSteps, FiniteSteps
    <3>4. ExposedInv(rank)'
      BY <2>1, <2>7, <3>3 DEF ExposedInv, Shape
    <3> QED
      BY <2>4, <3>4
  <2> QED
    BY <2>4, <2>5, <2>6, <2>7
<1>9. CASE FinalSave
  <2>1. UNCHANGED <<run, executed, crashes, lost, stored>> /\ pc = "final" /\ pc' = "off" /\ run \in Rows
    BY <1>9 DEF FinalSave, Control, worldVars, boundVars
  <2>2. Fresh \subseteq Fresh'
    BY <2>1 DEF Fresh, Failing
  <2> QED
    BY <1>3, <2>1, <2>2
<1>10. CASE CallSteps
  <2>1. /\ UNCHANGED <<executed, crashes, lost, stored>> /\ pc = "off"
        /\ run.status \notin {"completed", "failed"}
    <3>1. CASE StartRun
      BY <3>1 DEF StartRun, NoRow, worldVars, boundVars
    <3>2. CASE ResumeRun
      BY <3>2, Resuming DEF Entered
    <3>3. CASE TickRun
      BY <3>3 DEF TickRun, worldVars
    <3> QED
      BY <1>10, <3>1, <3>2, <3>3 DEF CallSteps
  <2>2. Fresh = {}
    BY <2>1 DEF Fresh, Failing
  <2>3. Here \in Steps /\ Here' \in Steps /\ rank[Here] <= rank[Here']
    <3>1. CASE StartRun
      <4>1. run = NoRow /\ pc = "off" /\ run' \in Rows /\ run'.at = EntryStep
        BY <3>1, Starting DEF Entered, StartRun
      <4>2. Here = EntryStep /\ Here' = EntryStep
        BY <4>1, RowTypes DEF Here, Base, Onward
      <4> QED
        BY <4>2, WorkflowExecutionAssumption DEF Ranked
    <3>2. CASE ResumeRun
      <4>1. /\ run \in Rows /\ run.at \in Steps /\ run' \in Rows
            /\ run'.at \in Steps /\ run'.at \in Successors(run.at)
        BY <3>2, Resuming DEF Entered
      <4>2. rank[run.at] <= rank[run'.at]
        BY <4>1, WorkflowExecutionAssumption DEF Ranked, Successors
      <4> QED
        BY <4>1, <4>2, RowTypes DEF Here
    <3>3. CASE TickRun
      <4>1. run \in Rows /\ run' = run
        BY <3>3, Ticking DEF Entered
      <4> QED
        BY <4>1, RowTypes DEF Here, Rows, Ranked
    <3> QED
      BY <1>10, <3>1, <3>2, <3>3 DEF CallSteps
  <2> QED
    BY <2>1, <2>2, <2>3, RepeatOnward
<1>11. CASE Crash
  BY <1>11, RepeatCrash
<1>12. CASE Recover
  <2>1. UNCHANGED <<executed, crashes, lost, stored>> /\ pc = "down" /\ run = NoRow /\ repo = NoRow
    BY <1>12 DEF Recover, worldVars, boundVars, Control, Onward
  <2>2. Fresh = {}
    BY <2>1 DEF Fresh, Failing
  <2>3. Here' = Here
    <3>1. CASE ckpt \in States /\ run' \in Rows /\ run'.at = ckpt.at
      BY <2>1, <3>1, RowTypes DEF Here, Base
    <3>2. CASE run' = NoRow
      BY <2>1, <3>2 DEF Here, Base, stored
    <3> QED
      BY <1>12, <2>1, <3>1, <3>2, Recovering DEF Entered
  <2> QED
    BY <2>1, <2>2, <2>3, RepeatSame
<1>13. CASE UNCHANGED vars
  <2>1. /\ UNCHANGED <<executed, crashes, lost, stored>> /\ Here' = Here /\ Fresh' = Fresh
    BY <1>13 DEF vars, stored, Here, Base, Fresh
  <2> QED
    BY <2>1, RepeatSame
<1> QED
  BY <1>4, <1>5, <1>6, <1>7, <1>8, <1>9, <1>10, <1>11, <1>12, <1>13, Kinds

\* An acyclic definition in which no step with a fallback has its output
\* checked, recovered from checkpoints, also where a save is not later than the
\* last one: however the process crashes, each crash makes at most the handler
\* it cut off succeed again, and those whose saves latest() has passed over,
\* and each of them once.
THEOREM RepeatsSafe ==
  ~DurableRepo /\ Checked \cap Fallback = {} /\ (\E rank : Ranked(rank)) => (Spec => []CrashRepeats)
<1> SUFFICES ASSUME NEW rank, Ranked(rank), ~DurableRepo, Checked \cap Fallback = {}
             PROVE  Spec => []CrashRepeats
  OBVIOUS
<1> DEFINE Inv == /\ Shape /\ Control /\ WaitsSucceed /\ RejectedChecked /\ Onward(rank)
                  /\ DueInv(rank) /\ ExposedInv(rank)
<1>1. Init => Inv
  <2>1. Init => Onward(rank)
    BY DEF Init, Onward, NoRow
  <2>2. Init => DueInv(rank) /\ ExposedInv(rank)
    <3> SUFFICES ASSUME Init
                 PROVE  DueInv(rank) /\ ExposedInv(rank)
      OBVIOUS
    <3>1. \A s \in Steps : executed[s] = 0
      BY DEF Init
    <3>2. Due(rank) = {} /\ Exposed(rank) = {} /\ AheadOfRun(rank) = {}
      BY <3>1 DEF Repeated, Due, Exposed, AheadOfRun, AheadOfBase
    <3>3. crashes = 0 /\ lost = 0 /\ hidden = 0
      BY DEF Init
    <3> QED
      BY <3>1, <3>2, <3>3, FS_EmptySet DEF DueInv, ExposedInv
  <2> QED
    BY <2>1, <2>2, InitControl, WaitsInit
<1>2. Inv /\ [Next]_vars => Inv'
  <2> SUFFICES ASSUME Inv, [Next]_vars
               PROVE  Inv'
    OBVIOUS
  <2>1. Shape' /\ Control'
    BY ControlStep
  <2>2. WaitsSucceed' /\ RejectedChecked'
    BY WaitsStep
  <2>3. Onward(rank)'
    BY OnwardStep
  <2>4. DueInv(rank)' /\ ExposedInv(rank)'
    BY RepeatStep
  <2> QED
    BY <2>1, <2>2, <2>3, <2>4
<1>3. Inv => CrashRepeats
  <2> SUFFICES ASSUME Inv
               PROVE  CrashRepeats
    OBVIOUS
  <2>1. Repeated \in SUBSET Due(rank)
    BY DEF Due
  <2>2. /\ Cardinality(Repeated) <= Cardinality(Due(rank)) /\ Cardinality(Repeated) \in Nat
        /\ Cardinality(Due(rank)) \in Nat
    BY <2>1, CountedSteps, FiniteSteps
  <2>3. Cardinality(Repeated) <= crashes + lost
    BY <2>2 DEF DueInv, Shape
  <2> QED
    BY <2>3 DEF DueInv, CrashRepeats
<1> HIDE DEF Inv
<1> QED
  BY <1>1, <1>2, <1>3, PTL DEF Spec
=============================================================================
