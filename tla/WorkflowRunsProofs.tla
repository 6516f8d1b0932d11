------------------------- MODULE WorkflowRunsProofs -------------------------
(***************************************************************************)
(* Proofs about WorkflowRuns, for any number of runs, ticks, resumers and   *)
(* cancellers: no buffered run is lost, and a row that says running has a   *)
(* thread that will save its end. With one thread that resumes runs, no run *)
(* has two executors; without a queue and cancellers, an ended run keeps    *)
(* its status.                                                              *)
(***************************************************************************)
EXTENDS WorkflowRuns, FiniteSetTheorems, TLAPS

-----------------------------------------------------------------------------
\* The thread of a startRun or a drain works on its own run.
OnSelf == \A r \in Runs : on[r] = r

Working == {"resuming", "executing", "scheduling", "closing"}

\* A thread in the middle of a call has a run.
Engaged == \A t \in Threads : pc[t] \in Working \cup {"reading", "cancelling"} => on[t] \in Runs

\* The copy of a thread says what the thread has done.
CopyFits == \A t \in Threads :
  /\ pc[t] = "executing" => obj[t] = "running"
  /\ pc[t] = "scheduling" => obj[t] = "paused"
  /\ pc[t] = "closing" => obj[t] \in {"completed", "failed"}
  /\ pc[t] = "resaving" => obj[t] \in {"paused", "completed", "failed"}

Unsaved == {"idle", "free", "full"}
Waiting == {"enqueuing", "parked", "drawn", "starting"}

\* A run that has not begun has no row, or one that only a cancellation has touched.
RowFits == \A r \in Runs :
  /\ pc[r] \in Unsaved => repo[r] = "none"
  /\ pc[r] \in Waiting => repo[r] \in {"pending", "cancelled"}

\* Whoever works on a run came after its first executor.
WorkBegun == \A t \in Threads : pc[t] \in Working => pc[on[t]] \notin Unsaved \cup Waiting

\* cancelRun has found a row.
CancelSees == \A c \in Threads : pc[c] = "cancelling" => repo[on[c]] # "none"

QueueParked == \A r \in queue : pc[r] = "parked"

PendingHeld == \A r \in Runs : repo[r] = "pending" =>
  r \in queue \/ pc[r] \in {"enqueuing", "drawn", "starting"}

IInv ==
  /\ TypeOK /\ OnSelf /\ Engaged /\ CopyFits /\ RowFits /\ WorkBegun /\ CancelSees
  /\ QueueParked /\ PendingHeld /\ RunningHasExecutor

(***************************************************************************)
(* Each action preserves the inductive invariant.                           *)
(***************************************************************************)

\* CountActive: startRun counts the active runs; nothing is saved.
LEMMA CountActiveKeeps ==
  ASSUME IInv, NEW r \in Runs, CountActive(r)
  PROVE  IInv'
<1> USE DEF CountActive, Goto, queueVars, sleepVars
<1>1. TypeOK'
  BY DEF IInv, TypeOK, Places
<1>2. OnSelf' /\ Engaged' /\ CopyFits'
  BY WorkflowRunsAssumption DEF IInv, OnSelf, Engaged, CopyFits
<1>3. RowFits' /\ WorkBegun' /\ CancelSees'
  BY DEF IInv, RowFits, WorkBegun, CancelSees, Working, Unsaved, Waiting
<1>4. QueueParked' /\ PendingHeld'
  BY DEF IInv, QueueParked, PendingHeld
<1>5. RunningHasExecutor'
  BY DEF IInv, RunningHasExecutor
<1> QED
  BY <1>1, <1>2, <1>3, <1>4, <1>5 DEF IInv

\* StartRun: startRun saves the run as running and executes it.
LEMMA StartRunKeeps ==
  ASSUME IInv, NEW r \in Runs, StartRun(r)
  PROVE  IInv'
<1> USE DEF StartRun, Goto, Save, Own, queueVars, sleepVars
<1>1. TypeOK'
  BY DEF IInv, TypeOK, Status, Places
<1>2. OnSelf' /\ Engaged' /\ CopyFits'
  BY WorkflowRunsAssumption DEF IInv, TypeOK, OnSelf, Engaged, CopyFits
<1>3. RowFits' /\ WorkBegun' /\ CancelSees'
  BY DEF IInv, Threads, TypeOK, OnSelf, RowFits, WorkBegun, CancelSees, Unsaved, Waiting
<1>4. QueueParked' /\ PendingHeld'
  BY DEF IInv, QueueParked, PendingHeld
<1>5. RunningHasExecutor'
  BY WorkflowRunsAssumption DEF IInv, Threads, Executors, TypeOK, OnSelf, RunningHasExecutor
<1> QED
  BY <1>1, <1>2, <1>3, <1>4, <1>5 DEF IInv

\* SavePending: startRun saves the row of a buffered run, which its thread holds.
LEMMA SavePendingKeeps ==
  ASSUME IInv, NEW r \in Runs, SavePending(r)
  PROVE  IInv'
<1> USE DEF SavePending, Goto, Save, queueVars, sleepVars
<1>1. TypeOK'
  BY DEF IInv, TypeOK, Status, Places
<1>2. OnSelf' /\ Engaged' /\ CopyFits'
  BY WorkflowRunsAssumption DEF IInv, OnSelf, Engaged, CopyFits
<1>3. RowFits' /\ WorkBegun' /\ CancelSees'
  BY DEF IInv, Threads, TypeOK, RowFits, WorkBegun, CancelSees, Working, Unsaved
<1>4. QueueParked' /\ PendingHeld'
  BY DEF IInv, Threads, TypeOK, QueueParked, PendingHeld
<1>5. RunningHasExecutor'
  BY DEF IInv, RunningHasExecutor
<1> QED
  BY <1>1, <1>2, <1>3, <1>4, <1>5 DEF IInv

\* Enqueue: the queue takes the buffered run over from its thread.
LEMMA EnqueueKeeps ==
  ASSUME IInv, NEW r \in Runs, Enqueue(r)
  PROVE  IInv'
<1> USE DEF Enqueue, Goto, sleepVars
<1>1. TypeOK'
  <2>1. Cardinality({q \in Runs : queuedAt[q] > 0}) \in Nat
    BY WorkflowRunsAssumption, FS_Subset, FS_CardinalityType
  <2> QED
    BY <2>1 DEF IInv, TypeOK, Places, Status, Threads
<1>2. OnSelf' /\ Engaged' /\ CopyFits'
  BY WorkflowRunsAssumption DEF IInv, OnSelf, Engaged, CopyFits
<1>3. RowFits' /\ WorkBegun' /\ CancelSees'
  BY DEF IInv, RowFits, WorkBegun, CancelSees, Working, Unsaved, Waiting
<1>4. QueueParked' /\ PendingHeld'
  BY DEF IInv, Threads, TypeOK, QueueParked, PendingHeld
<1>5. RunningHasExecutor'
  BY DEF IInv, RunningHasExecutor
<1> QED
  BY <1>1, <1>2, <1>3, <1>4, <1>5 DEF IInv

\* Dequeue: drainQueue takes an entry; the queue keeps parked runs only.
LEMMA DequeueKeeps ==
  ASSUME IInv, NEW r \in Runs, Dequeue(r)
  PROVE  IInv'
<1> USE DEF Dequeue, Goto, Foremost, sleepVars
<1>1. TypeOK'
  BY DEF IInv, Threads, TypeOK, Places
<1>2. OnSelf' /\ Engaged' /\ CopyFits'
  BY WorkflowRunsAssumption DEF IInv, OnSelf, Engaged, CopyFits
<1>3. RowFits' /\ WorkBegun' /\ CancelSees'
  BY DEF IInv, QueueParked, RowFits, WorkBegun, CancelSees, Working, Unsaved, Waiting
<1>4. QueueParked' /\ PendingHeld'
  BY DEF IInv, Threads, TypeOK, QueueParked, PendingHeld
<1>5. RunningHasExecutor'
  BY DEF IInv, QueueParked, RunningHasExecutor
<1> QED
  BY <1>1, <1>2, <1>3, <1>4, <1>5 DEF IInv

\* DrainCheck: drainQueue gives up a run that is no longer pending.
LEMMA DrainCheckKeeps ==
  ASSUME IInv, NEW r \in Runs, DrainCheck(r)
  PROVE  IInv'
<1> USE DEF DrainCheck, Goto, queueVars, sleepVars
<1>1. TypeOK'
  BY DEF IInv, TypeOK, Places
<1>2. OnSelf' /\ Engaged' /\ CopyFits'
  BY WorkflowRunsAssumption DEF IInv, OnSelf, Engaged, CopyFits
<1>3. RowFits' /\ WorkBegun' /\ CancelSees'
  BY DEF IInv, RowFits, WorkBegun, CancelSees, Working, Unsaved, Waiting
<1>4. QueueParked' /\ PendingHeld'
  BY DEF IInv, QueueParked, PendingHeld
<1>5. RunningHasExecutor'
  BY DEF IInv, RunningHasExecutor
<1> QED
  BY <1>1, <1>2, <1>3, <1>4, <1>5 DEF IInv

\* DrainStart: drainQueue saves the run as running and executes it.
LEMMA DrainStartKeeps ==
  ASSUME IInv, NEW r \in Runs, DrainStart(r)
  PROVE  IInv'
<1> USE DEF DrainStart, Goto, Save, Own, queueVars, sleepVars
<1>1. TypeOK'
  BY DEF IInv, TypeOK, Status, Places
<1>2. OnSelf' /\ Engaged' /\ CopyFits'
  BY WorkflowRunsAssumption DEF IInv, TypeOK, OnSelf, Engaged, CopyFits
<1>3. RowFits' /\ WorkBegun' /\ CancelSees'
  BY DEF IInv, Threads, TypeOK, OnSelf, RowFits, WorkBegun, CancelSees, Unsaved, Waiting
<1>4. QueueParked' /\ PendingHeld'
  BY DEF IInv, TypeOK, QueueParked, PendingHeld
<1>5. RunningHasExecutor'
  BY WorkflowRunsAssumption DEF IInv, Threads, Executors, TypeOK, OnSelf, RunningHasExecutor
<1> QED
  BY <1>1, <1>2, <1>3, <1>4, <1>5 DEF IInv

\* Pause: the executor leaves, and the row is not running any more.
LEMMA PauseKeeps ==
  ASSUME IInv, NEW t \in Executors, NEW timed \in BOOLEAN, Pause(t, timed)
  PROVE  IInv'
<1> USE DEF Pause, Goto, Save, Own, Returned, queueVars, sleepVars
<1>1. TypeOK'
  BY WorkflowRunsAssumption DEF IInv, Executors, TypeOK, Engaged, Working, Status, Places
<1>2. OnSelf' /\ Engaged' /\ CopyFits'
  BY WorkflowRunsAssumption DEF IInv, TypeOK, OnSelf, Engaged, CopyFits, Working
<1>3. RowFits' /\ WorkBegun' /\ CancelSees'
  BY DEF IInv, Executors, Engaged, RowFits, WorkBegun, CancelSees, Working, Unsaved, Waiting
<1>4. QueueParked' /\ PendingHeld'
  BY DEF IInv, QueueParked, PendingHeld
<1>5. RunningHasExecutor'
  BY DEF IInv, TypeOK, RunningHasExecutor
<1> QED
  BY <1>1, <1>2, <1>3, <1>4, <1>5 DEF IInv

\* Schedule: the sleep record is written; the run is paused.
LEMMA ScheduleKeeps ==
  ASSUME IInv, NEW t \in Executors, Schedule(t)
  PROVE  IInv'
<1> USE DEF Schedule, Goto, Returned, queueVars
<1>1. TypeOK'
  BY DEF IInv, Executors, TypeOK, Engaged, Working, Places
<1>2. OnSelf' /\ Engaged' /\ CopyFits'
  BY WorkflowRunsAssumption DEF IInv, OnSelf, Engaged, CopyFits, Working
<1>3. RowFits' /\ WorkBegun' /\ CancelSees'
  BY DEF IInv, Engaged, RowFits, WorkBegun, CancelSees, Working, Unsaved, Waiting
<1>4. QueueParked' /\ PendingHeld'
  BY DEF IInv, QueueParked, PendingHeld
<1>5. RunningHasExecutor'
  BY DEF IInv, RunningHasExecutor
<1> QED
  BY <1>1, <1>2, <1>3, <1>4, <1>5 DEF IInv

\* ScheduleFails: a store error changes nothing.
LEMMA ScheduleFailsKeeps ==
  ASSUME IInv, NEW t \in Executors, ScheduleFails(t)
  PROVE  IInv'
<1> USE DEF ScheduleFails, Goto, Returned, queueVars, sleepVars
<1>1. TypeOK'
  BY DEF IInv, TypeOK, Places
<1>2. OnSelf' /\ Engaged' /\ CopyFits'
  BY WorkflowRunsAssumption DEF IInv, OnSelf, Engaged, CopyFits, Working
<1>3. RowFits' /\ WorkBegun' /\ CancelSees'
  BY DEF IInv, Engaged, RowFits, WorkBegun, CancelSees, Working, Unsaved, Waiting
<1>4. QueueParked' /\ PendingHeld'
  BY DEF IInv, QueueParked, PendingHeld
<1>5. RunningHasExecutor'
  BY DEF IInv, RunningHasExecutor
<1> QED
  BY <1>1, <1>2, <1>3, <1>4, <1>5 DEF IInv

\* Finish: the copy ends, the row is still running and its thread is closing.
LEMMA FinishKeeps ==
  ASSUME IInv, NEW t \in Executors, NEW status \in {"completed", "failed"}, Finish(t, status)
  PROVE  IInv'
<1> USE DEF Finish, Goto, Own, sleepVars
<1>1. TypeOK'
  BY DEF IInv, Executors, TypeOK, Status, Places
<1>2. OnSelf' /\ Engaged' /\ CopyFits'
  BY WorkflowRunsAssumption DEF IInv, TypeOK, OnSelf, Engaged, CopyFits, Working
<1>3. RowFits' /\ WorkBegun' /\ CancelSees'
  BY DEF IInv, RowFits, WorkBegun, CancelSees, Working, Unsaved, Waiting
<1>4. QueueParked' /\ PendingHeld'
  BY DEF IInv, QueueParked, PendingHeld
<1>5. RunningHasExecutor'
  BY DEF IInv, RunningHasExecutor
<1> QED
  BY <1>1, <1>2, <1>3, <1>4, <1>5 DEF IInv

\* FinalSave: the copy that is saved has ended.
LEMMA FinalSaveKeeps ==
  ASSUME IInv, NEW t \in Executors, FinalSave(t)
  PROVE  IInv'
<1> USE DEF FinalSave, Goto, Save, Returned, queueVars, sleepVars
<1>1. TypeOK'
  BY DEF IInv, Executors, TypeOK, Places
<1>2. OnSelf' /\ Engaged' /\ CopyFits'
  BY WorkflowRunsAssumption DEF IInv, OnSelf, Engaged, CopyFits, Working
<1>3. RowFits' /\ WorkBegun' /\ CancelSees'
  BY DEF IInv, Executors, Engaged, CopyFits, RowFits, WorkBegun, CancelSees, Working,
         Unsaved, Waiting
<1>4. QueueParked' /\ PendingHeld'
  BY DEF IInv, Executors, CopyFits, QueueParked, PendingHeld
<1>5. RunningHasExecutor'
  BY DEF IInv, TypeOK, CopyFits, RunningHasExecutor
<1> QED
  BY <1>1, <1>2, <1>3, <1>4, <1>5 DEF IInv

\* SpliceSave: the copy of an executing thread is running.
LEMMA SpliceSaveKeeps ==
  ASSUME IInv, NEW t \in Executors, SpliceSave(t)
  PROVE  IInv'
<1> USE DEF SpliceSave, Save, queueVars, sleepVars
<1>1. TypeOK'
  BY DEF IInv, Executors, TypeOK, Places
<1>2. OnSelf' /\ Engaged' /\ CopyFits'
  BY WorkflowRunsAssumption DEF IInv, OnSelf, Engaged, CopyFits
<1>3. RowFits' /\ WorkBegun' /\ CancelSees'
  BY DEF IInv, Executors, CopyFits, RowFits, WorkBegun, CancelSees, Working
<1>4. QueueParked' /\ PendingHeld'
  BY DEF IInv, Executors, CopyFits, QueueParked, PendingHeld
<1>5. RunningHasExecutor'
  BY DEF IInv, RunningHasExecutor
<1> QED
  BY <1>1, <1>2, <1>3, <1>4, <1>5 DEF IInv

\* Resave: the copy that is saved again is not running.
LEMMA ResaveKeeps ==
  ASSUME IInv, NEW r \in Runs, Resave(r)
  PROVE  IInv'
<1> USE DEF Resave, Goto, Save, queueVars, sleepVars
<1>1. TypeOK'
  BY DEF IInv, Threads, TypeOK, Places
<1>2. OnSelf' /\ Engaged' /\ CopyFits'
  BY WorkflowRunsAssumption DEF IInv, OnSelf, Engaged, CopyFits
<1>3. RowFits' /\ WorkBegun' /\ CancelSees'
  BY DEF IInv, Threads, CopyFits, RowFits, WorkBegun, CancelSees, Working, Unsaved, Waiting
<1>4. QueueParked' /\ PendingHeld'
  BY DEF IInv, Threads, CopyFits, QueueParked, PendingHeld
<1>5. RunningHasExecutor'
  BY DEF IInv, Threads, CopyFits, RunningHasExecutor
<1> QED
  BY <1>1, <1>2, <1>3, <1>4, <1>5 DEF IInv

\* ExternalResume: a caller finds a paused row, whose run has begun.
LEMMA ExternalResumeKeeps ==
  ASSUME IInv, NEW t \in Resumers, NEW r \in Runs, ExternalResume(t, r)
  PROVE  IInv'
<1> USE DEF ExternalResume, Goto, ResumeRun, queueVars, sleepVars
<1>1. TypeOK'
  BY DEF IInv, TypeOK, Places
<1>2. OnSelf' /\ Engaged' /\ CopyFits'
  BY WorkflowRunsAssumption DEF IInv, TypeOK, OnSelf, Engaged, CopyFits
<1>3. RowFits' /\ WorkBegun' /\ CancelSees'
  BY DEF IInv, TypeOK, RowFits, WorkBegun, CancelSees, Unsaved, Waiting
<1>4. QueueParked' /\ PendingHeld'
  BY DEF IInv, QueueParked, PendingHeld
<1>5. RunningHasExecutor'
  BY DEF IInv, RunningHasExecutor
<1> QED
  BY <1>1, <1>2, <1>3, <1>4, <1>5 DEF IInv

\* ResumeSave: the row is running again and its thread executes.
LEMMA ResumeSaveKeeps ==
  ASSUME IInv, NEW t \in Executors, ResumeSave(t)
  PROVE  IInv'
<1> USE DEF ResumeSave, Goto, Save, Own, queueVars, sleepVars
<1>1. TypeOK'
  BY DEF IInv, TypeOK, Status, Places
<1>2. OnSelf' /\ Engaged' /\ CopyFits'
  BY WorkflowRunsAssumption DEF IInv, TypeOK, OnSelf, Engaged, CopyFits, Working
<1>3. RowFits' /\ WorkBegun' /\ CancelSees'
  BY DEF IInv, Executors, RowFits, WorkBegun, CancelSees, Working, Unsaved, Waiting
<1>4. QueueParked' /\ PendingHeld'
  BY DEF IInv, QueueParked, PendingHeld
<1>5. RunningHasExecutor'
  BY DEF IInv, Executors, TypeOK, RunningHasExecutor
<1> QED
  BY <1>1, <1>2, <1>3, <1>4, <1>5 DEF IInv

\* GetDue: a tick collects records.
LEMMA GetDueKeeps ==
  ASSUME IInv, NEW k \in Tickers, GetDue(k)
  PROVE  IInv'
<1> USE DEF GetDue, Goto, queueVars
<1>1. TypeOK'
  BY DEF IInv, TypeOK, Places
<1>2. OnSelf' /\ Engaged' /\ CopyFits'
  BY WorkflowRunsAssumption DEF IInv, OnSelf, Engaged, CopyFits, Working
<1>3. RowFits' /\ WorkBegun' /\ CancelSees'
  BY DEF IInv, RowFits, WorkBegun, CancelSees, Working, Unsaved, Waiting
<1>4. QueueParked' /\ PendingHeld'
  BY DEF IInv, QueueParked, PendingHeld
<1>5. RunningHasExecutor'
  BY DEF IInv, RunningHasExecutor
<1> QED
  BY <1>1, <1>2, <1>3, <1>4, <1>5 DEF IInv

\* TickCancel: a tick deletes a record.
LEMMA TickCancelKeeps ==
  ASSUME IInv, NEW k \in Tickers, NEW r \in Runs, TickCancel(k, r)
  PROVE  IInv'
<1> USE DEF TickCancel, Goto, queueVars
<1>1. TypeOK'
  BY DEF IInv, TypeOK, Places
<1>2. OnSelf' /\ Engaged' /\ CopyFits'
  BY WorkflowRunsAssumption DEF IInv, TypeOK, OnSelf, Engaged, CopyFits
<1>3. RowFits' /\ WorkBegun' /\ CancelSees'
  BY DEF IInv, RowFits, WorkBegun, CancelSees, Working, Unsaved, Waiting
<1>4. QueueParked' /\ PendingHeld'
  BY DEF IInv, QueueParked, PendingHeld
<1>5. RunningHasExecutor'
  BY DEF IInv, RunningHasExecutor
<1> QED
  BY <1>1, <1>2, <1>3, <1>4, <1>5 DEF IInv

\* TickResume: a tick finds a paused row, whose run has begun.
LEMMA TickResumeKeeps ==
  ASSUME IInv, NEW k \in Tickers, TickResume(k)
  PROVE  IInv'
<1> USE DEF TickResume, Goto, ResumeRun, queueVars, sleepVars
<1>1. TypeOK'
  BY DEF IInv, TypeOK, Places
<1>2. OnSelf' /\ Engaged' /\ CopyFits'
  BY WorkflowRunsAssumption DEF IInv, OnSelf, Engaged, CopyFits
<1>3. RowFits' /\ WorkBegun' /\ CancelSees'
  BY DEF IInv, Engaged, RowFits, WorkBegun, CancelSees, Unsaved, Waiting
<1>4. QueueParked' /\ PendingHeld'
  BY DEF IInv, QueueParked, PendingHeld
<1>5. RunningHasExecutor'
  BY DEF IInv, RunningHasExecutor
<1> QED
  BY <1>1, <1>2, <1>3, <1>4, <1>5 DEF IInv

\* TickGivesUp: a tick goes on to its next record.
LEMMA TickGivesUpKeeps ==
  ASSUME IInv, NEW k \in Tickers, TickGivesUp(k)
  PROVE  IInv'
<1> USE DEF TickGivesUp, Goto, Returned, queueVars, sleepVars
<1>1. TypeOK'
  BY DEF IInv, TypeOK, Places
<1>2. OnSelf' /\ Engaged' /\ CopyFits'
  BY WorkflowRunsAssumption DEF IInv, TypeOK, OnSelf, Engaged, CopyFits
<1>3. RowFits' /\ WorkBegun' /\ CancelSees'
  BY DEF IInv, Engaged, RowFits, WorkBegun, CancelSees, Working, Unsaved, Waiting
<1>4. QueueParked' /\ PendingHeld'
  BY DEF IInv, QueueParked, PendingHeld
<1>5. RunningHasExecutor'
  BY DEF IInv, RunningHasExecutor
<1> QED
  BY <1>1, <1>2, <1>3, <1>4, <1>5 DEF IInv

\* CancelRead: cancelRun finds a row.
LEMMA CancelReadKeeps ==
  ASSUME IInv, NEW c \in Cancellers, NEW r \in Runs, CancelRead(c, r)
  PROVE  IInv'
<1> USE DEF CancelRead, Goto, queueVars, sleepVars
<1>1. TypeOK'
  BY DEF IInv, TypeOK, Places
<1>2. OnSelf' /\ Engaged' /\ CopyFits'
  BY WorkflowRunsAssumption DEF IInv, TypeOK, OnSelf, Engaged, CopyFits
<1>3. RowFits' /\ WorkBegun' /\ CancelSees'
  BY DEF IInv, TypeOK, RowFits, WorkBegun, CancelSees, Working, Unsaved, Waiting
<1>4. QueueParked' /\ PendingHeld'
  BY DEF IInv, QueueParked, PendingHeld
<1>5. RunningHasExecutor'
  BY DEF IInv, RunningHasExecutor
<1> QED
  BY <1>1, <1>2, <1>3, <1>4, <1>5 DEF IInv

\* CancelSave: a run that has a row is saved as cancelled.
LEMMA CancelSaveKeeps ==
  ASSUME IInv, NEW c \in Cancellers, CancelSave(c)
  PROVE  IInv'
<1> USE DEF CancelSave, Goto, Save, sleepVars
<1>1. TypeOK'
  BY DEF IInv, Threads, TypeOK, Engaged, Status, Places
<1>2. OnSelf' /\ Engaged' /\ CopyFits'
  BY WorkflowRunsAssumption DEF IInv, OnSelf, Engaged, CopyFits
<1>3. RowFits' /\ WorkBegun' /\ CancelSees'
  BY DEF IInv, Threads, RowFits, WorkBegun, CancelSees, Working, Unsaved, Waiting
<1>4. QueueParked' /\ PendingHeld'
  BY DEF IInv, QueueParked, PendingHeld
<1>5. RunningHasExecutor'
  BY DEF IInv, RunningHasExecutor
<1> QED
  BY <1>1, <1>2, <1>3, <1>4, <1>5 DEF IInv

\* WakeAtPasses and an empty dequeue: no run is touched.
LEMMA QuietKeeps ==
  ASSUME IInv,
         \/ UNCHANGED vars
         \/ DequeueNothing
         \/ \E r \in Runs : WakeAtPasses(r)
  PROVE  IInv'
<1>1. UNCHANGED <<repo, queue, pc, on, obj>>
  BY DEF vars, DequeueNothing, WakeAtPasses, sleepVars, queueVars
<1>2. TypeOK'
  BY DEF IInv, TypeOK, vars, DequeueNothing, WakeAtPasses, sleepVars, queueVars
<1> QED
  BY <1>1, <1>2
     DEF IInv, OnSelf, Engaged, CopyFits, RowFits, WorkBegun, CancelSees, QueueParked,
         PendingHeld, RunningHasExecutor

-----------------------------------------------------------------------------
\* In the initial state nothing has been started.
LEMMA InitInv == Init => IInv
BY WorkflowRunsAssumption
   DEF Init, IInv, TypeOK, OnSelf, Engaged, CopyFits, RowFits, WorkBegun, CancelSees,
       QueueParked, PendingHeld, RunningHasExecutor, Working, Unsaved, Waiting, Threads,
       Status, Places

\* Every step of the engine, the scheduler and the callers preserves IInv.
LEMMA NextInv == IInv /\ [Next]_vars => IInv'
<1> SUFFICES ASSUME IInv, [Next]_vars PROVE IInv'
  OBVIOUS
<1>1. ASSUME NEW r \in Runs, CountActive(r) \/ Launch(r) \/ WakeAtPasses(r) PROVE IInv'
  BY <1>1, CountActiveKeeps, StartRunKeeps, SavePendingKeeps, EnqueueKeeps, DrainCheckKeeps,
     DrainStartKeeps, ResaveKeeps, QuietKeeps DEF Launch
<1>2. CASE Drain
  BY <1>2, QuietKeeps, DequeueKeeps DEF Drain
<1>3. ASSUME NEW t \in Executors, Proceed(t) \/ SpliceSave(t) PROVE IInv'
  BY <1>3, WorkflowRunsAssumption, PauseKeeps, FinishKeeps, ScheduleKeeps, ScheduleFailsKeeps,
     FinalSaveKeeps, ResumeSaveKeeps, SpliceSaveKeeps DEF Proceed, Execute
<1>4. ASSUME NEW k \in Tickers, Tick(k) PROVE IInv'
  BY <1>4, GetDueKeeps, TickCancelKeeps, TickResumeKeeps, TickGivesUpKeeps DEF Tick
<1>5. ASSUME NEW t \in Resumers, NEW r \in Runs, ExternalResume(t, r) PROVE IInv'
  BY <1>5, ExternalResumeKeeps
<1>6. ASSUME NEW c \in Cancellers, CancelSave(c) \/ \E r \in Runs : CancelRead(c, r) PROVE IInv'
  BY <1>6, CancelSaveKeeps, CancelReadKeeps
<1>7. CASE UNCHANGED vars
  BY <1>7, QuietKeeps
<1> QED
  BY <1>1, <1>2, <1>3, <1>4, <1>5, <1>6, <1>7 DEF Next

\* The inductive invariant holds in every reachable state, for any number of
\* runs, ticks, resumers and cancellers.
THEOREM Inductive == Spec => []IInv
<1> QED
  BY InitInv, NextInv, PTL DEF Spec

\* Every variable keeps its type (startRun, executeRun, the stores and tick).
THEOREM TypeCorrect == Spec => []TypeOK
<1>1. IInv => TypeOK
  BY DEF IInv
<1> QED
  BY <1>1, Inductive, PTL

\* A run saved as pending is held by the queue, or by the startRun or the
\* drain that moves it, and what the queue holds nobody else does.
THEOREM NoPendingRunLost == Spec => []PendingOwned
<1>1. IInv => PendingOwned
  BY DEF IInv, TypeOK, PendingHeld, QueueParked, RowFits, Waiting, PendingOwned
<1> QED
  BY <1>1, Inductive, PTL

\* A row that says running has a thread that executes the run or is about to
\* save its end, whoever else resumes, cancels or saves it.
THEOREM NoRunAbandoned == Spec => []RunningHasExecutor
<1>1. IInv => RunningHasExecutor
  BY DEF IInv
<1> QED
  BY <1>1, Inductive, PTL

-----------------------------------------------------------------------------
(* One executor at a time. *)

\* Where the thread of a run is that has given its run up or is about to.
Left == {"scheduling", "resaving", "done"}
Acting == {"resuming", "executing", "closing"}

\* A paused run has been given up by its own thread.
Yielded == \A r \in Runs : repo[r] = "paused" => pc[r] \in Left

\* Ticks and callers work on runs that their own threads have given up.
Late == \A t \in Threads \ Runs : pc[t] \in Acting \cup {"scheduling"} => pc[on[t]] \in Left

LateInv == Yielded /\ Late

\* The thread of a run does not come back to it.
LEMMA LeftForGood ==
  ASSUME IInv, Next, NEW r \in Runs, pc[r] \in Left
  PROVE  pc'[r] \in Left
<1> USE DEF IInv, TypeOK, Goto, Left, Threads
<1>1. ASSUME NEW q \in Runs, CountActive(q) \/ WakeAtPasses(q) PROVE pc'[r] \in Left
  BY <1>1 DEF CountActive, WakeAtPasses
<1>2. ASSUME NEW q \in Runs, Launch(q) PROVE pc'[r] \in Left
  BY <1>2 DEF Launch, StartRun, SavePending, Enqueue, DrainCheck, DrainStart, Resave
<1>3. CASE Drain
  BY <1>3 DEF Drain, DequeueNothing, Dequeue, Foremost, QueueParked
<1>4. ASSUME NEW t \in Executors, Proceed(t) \/ SpliceSave(t) PROVE pc'[r] \in Left
  <2>1. CASE Execute(t) \/ FinalSave(t) \/ ResumeSave(t) \/ SpliceSave(t)
    BY <2>1 DEF Execute, Pause, Finish, FinalSave, ResumeSave, SpliceSave
  <2>2. CASE Schedule(t) \/ ScheduleFails(t)
    BY <2>2, WorkflowRunsAssumption DEF Schedule, ScheduleFails, Returned
  <2> QED
    BY <1>4, <2>1, <2>2 DEF Proceed
<1>5. ASSUME NEW k \in Tickers, Tick(k) PROVE pc'[r] \in Left
  BY <1>5, WorkflowRunsAssumption DEF Tick, GetDue, TickCancel, TickResume, TickGivesUp, ResumeRun
<1>6. ASSUME NEW t \in Resumers, NEW q \in Runs, ExternalResume(t, q) PROVE pc'[r] \in Left
  BY <1>6, WorkflowRunsAssumption DEF ExternalResume, ResumeRun
<1>7. ASSUME NEW c \in Cancellers, CancelSave(c) \/ \E q \in Runs : CancelRead(c, q)
      PROVE  pc'[r] \in Left
  BY <1>7, WorkflowRunsAssumption DEF CancelSave, CancelRead
<1> QED
  BY <1>1, <1>2, <1>3, <1>4, <1>5, <1>6, <1>7 DEF Next

\* Only the steps of an executor, and the second save of a drain, can make a
\* row paused.
LEMMA WhoPauses ==
  ASSUME IInv, LateInv, Next, NEW r \in Runs, repo[r] # "paused", repo'[r] = "paused"
  PROVE  pc'[r] \in Left
<1> USE DEF IInv, TypeOK, Goto, Save, Left, Threads
<1>1. ASSUME NEW q \in Runs, CountActive(q) \/ Launch(q) \/ WakeAtPasses(q) PROVE pc'[r] \in Left
  BY <1>1 DEF CountActive, WakeAtPasses, Launch, StartRun, SavePending, Enqueue, DrainCheck, DrainStart,
              Resave
<1>2. CASE Drain
  BY <1>2 DEF Drain, DequeueNothing, Dequeue
<1>3. ASSUME NEW t \in Executors, NEW timed \in BOOLEAN, Pause(t, timed) PROVE pc'[r] \in Left
  <2>1. on[t] = r /\ pc[t] = "executing"
    BY <1>3 DEF Pause
  <2>2. CASE t \in Runs
    <3>1. t = r
      BY <2>1, <2>2 DEF OnSelf
    <3> QED
      BY <1>3, <2>2, <3>1, WorkflowRunsAssumption DEF Pause, Returned
  <2>3. CASE t \notin Runs
    BY <2>1, <2>3, LeftForGood DEF LateInv, Late, Acting, Executors
  <2> QED
    BY <2>2, <2>3
<1>4. ASSUME NEW t \in Executors, Proceed(t) \/ SpliceSave(t), \A timed \in BOOLEAN : ~Pause(t, timed)
      PROVE  pc'[r] \in Left
  <2>1. \/ \E status \in {"completed", "failed"} : Finish(t, status)
        \/ Schedule(t) \/ ScheduleFails(t) \/ FinalSave(t) \/ ResumeSave(t) \/ SpliceSave(t)
    BY <1>4, WorkflowRunsAssumption DEF Proceed, Execute
  <2> QED
    BY <2>1 DEF Finish, Schedule, ScheduleFails, FinalSave, ResumeSave, SpliceSave, CopyFits, Executors
<1>5. ASSUME NEW k \in Tickers, Tick(k) PROVE pc'[r] \in Left
  BY <1>5 DEF Tick, GetDue, TickCancel, TickResume, TickGivesUp, ResumeRun
<1>6. ASSUME NEW t \in Resumers, NEW q \in Runs, ExternalResume(t, q) PROVE pc'[r] \in Left
  BY <1>6 DEF ExternalResume
<1>7. ASSUME NEW c \in Cancellers, CancelSave(c) \/ \E q \in Runs : CancelRead(c, q)
      PROVE  pc'[r] \in Left
  BY <1>7 DEF CancelSave, CancelRead
<1> QED
  BY <1>1, <1>2, <1>3, <1>4, <1>5, <1>6, <1>7 DEF Next

\* A tick or a caller comes to a run by finding it paused.
LEMMA WhoActs ==
  ASSUME IInv, Next, NEW t \in Threads \ Runs, pc'[t] \in Acting \cup {"scheduling"}
  PROVE  \/ pc[t] \in Acting \cup {"scheduling"} /\ on'[t] = on[t] /\ on[t] \in Runs
         \/ on'[t] \in Runs /\ repo[on'[t]] = "paused"
<1> DEFINE Goal == \/ pc[t] \in Acting \cup {"scheduling"} /\ on'[t] = on[t] /\ on[t] \in Runs
                   \/ on'[t] \in Runs /\ repo[on'[t]] = "paused"
<1>0. /\ pc \in [Threads -> Places] /\ t \notin Runs /\ t \in Threads /\ on[t] \in Runs \cup {NoRun}
      /\ (pc[t] \in Acting \cup {"scheduling"} => on[t] \in Runs)
  BY DEF IInv, TypeOK, Engaged, Working, Acting
<1> USE DEF Goto, Acting
<1>1. ASSUME NEW q \in Runs, CountActive(q) \/ Launch(q) \/ WakeAtPasses(q) PROVE Goal
  BY <1>0, <1>1 DEF CountActive, WakeAtPasses, Launch, StartRun, SavePending, Enqueue, DrainCheck,
                    DrainStart, Resave
<1>2. CASE Drain
  BY <1>0, <1>2 DEF Drain, DequeueNothing, Dequeue
<1>3. ASSUME NEW u \in Executors, Proceed(u) \/ SpliceSave(u) PROVE Goal
  <2>1. on' = on
    BY <1>3 DEF Proceed, Execute, Pause, Finish, Schedule, ScheduleFails, FinalSave, ResumeSave, SpliceSave
  <2>2. pc' = pc \/ (pc[u] \in Acting \cup {"scheduling"} /\ \E p : pc' = [pc EXCEPT ![u] = p])
    BY <1>3 DEF Proceed, Execute, Pause, Finish, Schedule, ScheduleFails, FinalSave, ResumeSave, SpliceSave
  <2> QED
    BY <1>0, <2>1, <2>2
<1>4. ASSUME NEW k \in Tickers, Tick(k) PROVE Goal
  <2>1. CASE GetDue(k) \/ (\E q \in Runs : TickCancel(k, q)) \/ TickGivesUp(k)
    BY <1>0, <2>1 DEF GetDue, TickCancel, TickGivesUp, Returned, IInv, TypeOK, Threads
  <2>2. CASE TickResume(k)
    <3>1. on' = on /\ repo[on[k]] = "paused" /\ pc' = [pc EXCEPT ![k] = "resuming"] /\ on[k] \in Runs
      BY <2>2 DEF TickResume, ResumeRun, IInv, Engaged, TypeOK, Threads
    <3> QED
      BY <1>0, <3>1
  <2> QED
    BY <1>4, <2>1, <2>2 DEF Tick
<1>5. ASSUME NEW u \in Resumers, NEW q \in Runs, ExternalResume(u, q) PROVE Goal
  BY <1>0, <1>5 DEF ExternalResume, ResumeRun, IInv, TypeOK, Threads
<1>6. ASSUME NEW c \in Cancellers, CancelSave(c) \/ \E q \in Runs : CancelRead(c, q) PROVE Goal
  BY <1>0, <1>6 DEF CancelSave, CancelRead, IInv, TypeOK, Threads
<1> QED
  BY <1>1, <1>2, <1>3, <1>4, <1>5, <1>6 DEF Next

\* Every step keeps ticks and callers behind the runs' own threads.
LEMMA LateStep == IInv /\ LateInv /\ [Next]_vars => LateInv'
<1> SUFFICES ASSUME IInv, LateInv, [Next]_vars PROVE LateInv'
  OBVIOUS
<1>1. CASE UNCHANGED vars
  BY <1>1 DEF vars, LateInv, Yielded, Late
<1>2. CASE Next
  <2>1. Yielded'
    <3>1. ASSUME NEW r \in Runs, repo'[r] = "paused" PROVE pc'[r] \in Left
      BY <1>2, <3>1, LeftForGood, WhoPauses DEF LateInv, Yielded
    <3> QED
      BY <3>1 DEF Yielded
  <2>2. Late'
    <3>1. ASSUME NEW t \in Threads \ Runs, pc'[t] \in Acting \cup {"scheduling"} PROVE pc'[on'[t]] \in Left
      <4>1. PICK r \in Runs : on'[t] = r /\ pc[r] \in Left
        BY <1>2, <3>1, WhoActs DEF LateInv, Late, Yielded
      <4>2. pc'[r] \in Left
        BY <1>2, <4>1, LeftForGood
      <4> QED
        BY <4>1, <4>2
    <3> QED
      BY <3>1 DEF Late
  <2> QED
    BY <2>1, <2>2 DEF LateInv
<1> QED
  BY <1>1, <1>2

\* The threads that resume runs are at most one: a tick that is shorter than
\* its period and no other caller of resumeRun, or one caller and no ticks.
OneWaker == \A t, u \in Tickers \cup Resumers : t = u

\* Two threads that act on one run are one thread.
LEMMA SoleActor ==
  ASSUME OneWaker, IInv, LateInv, NEW t \in Executors, NEW u \in Executors,
         pc[t] \in Acting, pc[u] \in Acting, on[t] = on[u]
  PROVE  t = u
<1>1. \A v \in Executors : v \in Runs \/ v \in Tickers \cup Resumers
  BY DEF Executors, Threads
<1>2. \A v \in Runs : on[v] = v
  BY DEF IInv, OnSelf
<1>3. \A v \in Tickers \cup Resumers : pc[v] \in Acting => pc[on[v]] \in Left
  BY WorkflowRunsAssumption DEF LateInv, Late, Threads
<1>4. CASE t \in Runs /\ u \in Runs
  BY <1>2, <1>4
<1>5. CASE t \in Runs /\ u \in Tickers \cup Resumers
  BY <1>2, <1>3, <1>5 DEF Acting, Left
<1>6. CASE t \in Tickers \cup Resumers /\ u \in Runs
  BY <1>2, <1>3, <1>6 DEF Acting, Left
<1>7. CASE t \in Tickers \cup Resumers /\ u \in Tickers \cup Resumers
  BY <1>7 DEF OneWaker
<1> QED
  BY <1>1, <1>4, <1>5, <1>6, <1>7

\* Ticks and callers act behind the runs' own threads in every reachable state.
LEMMA LateSpec == Spec => []LateInv
<1>1. Init => LateInv
  <2> SUFFICES ASSUME Init PROVE LateInv
    OBVIOUS
  <2>1. \A r \in Runs : repo[r] # "paused"
    BY DEF Init
  <2>2. \A t \in Threads : pc[t] = "idle"
    BY DEF Init
  <2> QED
    BY <2>1, <2>2 DEF LateInv, Yielded, Late, Acting
<1> QED
  BY <1>1, LateStep, Inductive, PTL DEF Spec

\* With one thread at a time that resumes runs, no run has two executors,
\* whatever is cancelled, drained or saved twice beside it (executeRun,
\* resumeRun, DurableSleepScheduler.tick).
THEOREM OneExecutor == OneWaker => (Spec => []SoleExecutor)
<1> SUFFICES ASSUME OneWaker PROVE Spec => []SoleExecutor
  OBVIOUS
<1>1. IInv /\ LateInv => SoleExecutor
  BY SoleActor DEF SoleExecutor, Acting
<1> QED
  BY <1>1, Inductive, LateSpec, PTL

-----------------------------------------------------------------------------
(* An ended run keeps its status. *)

\* Besides the one thread that resumes runs, nobody saves the row of a run
\* but its executor: no queue is configured and nobody cancels.
Undisturbed == OneWaker /\ ~Buffering /\ Cancellers = {}

\* No run goes through the queue, and none is saved a second time.
Direct ==
  /\ queue = {} /\ drained = {}
  /\ \A r \in Runs : pc[r] \notin {"full", "enqueuing", "drawn", "starting", "resaving"}

\* The row of a run says what its executor is doing.
RowKept == \A t \in Executors : /\ pc[t] \in {"executing", "closing"} => repo[on[t]] = "running"
                                /\ pc[t] = "resuming" => repo[on[t]] = "paused"

\* Without a queue runs are started directly.
LEMMA DirectStep ==
  ASSUME Undisturbed, IInv, Direct, Next
  PROVE  Direct'
<1> USE DEF IInv, TypeOK, Goto, Direct, Threads, Undisturbed
<1>1. ASSUME NEW q \in Runs, CountActive(q) \/ Launch(q) \/ WakeAtPasses(q) PROVE Direct'
  BY <1>1 DEF CountActive, WakeAtPasses, Launch, StartRun, SavePending, Enqueue, DrainCheck, DrainStart,
              Resave, queueVars
<1>2. CASE Drain
  BY <1>2 DEF Drain, DequeueNothing, Dequeue, Foremost
<1>3. ASSUME NEW t \in Executors, Proceed(t) \/ SpliceSave(t) PROVE Direct'
  <2>1. queue' = queue /\ drained' = drained
    BY <1>3 DEF Proceed, Execute, Pause, Finish, Schedule, ScheduleFails, FinalSave, ResumeSave,
                SpliceSave, queueVars
  <2>2. pc' = pc \/ \E p \in {"executing", "scheduling", "closing", Returned(t)} : pc' = [pc EXCEPT ![t] = p]
    BY <1>3 DEF Proceed, Execute, Pause, Finish, Schedule, ScheduleFails, FinalSave, ResumeSave, SpliceSave
  <2>3. Returned(t) \in {"waking", "done", "idle"}
    BY DEF Returned
  <2> QED
    BY <2>1, <2>2, <2>3
<1>4. ASSUME NEW k \in Tickers, Tick(k) PROVE Direct'
  BY <1>4, WorkflowRunsAssumption DEF Tick, GetDue, TickCancel, TickResume, TickGivesUp, ResumeRun, queueVars
<1>5. ASSUME NEW t \in Resumers, NEW q \in Runs, ExternalResume(t, q) PROVE Direct'
  BY <1>5, WorkflowRunsAssumption DEF ExternalResume, ResumeRun, queueVars
<1> QED
  BY <1>1, <1>2, <1>3, <1>4, <1>5 DEF Next

\* Every save of a row is a move of its one actor.
Saves(t) == \/ /\ t \in Runs /\ StartRun(t)
            \/ (\E timed \in BOOLEAN : Pause(t, timed)) \/ FinalSave(t) \/ SpliceSave(t) \/ ResumeSave(t)

\* The other steps leave the rows alone.
LEMMA WhoSaves ==
  ASSUME Undisturbed, IInv, Direct, Next
  PROVE  (\E t \in Executors : Saves(t)) \/ repo' = repo
<1> USE DEF Undisturbed, Direct
<1>1. ASSUME NEW q \in Runs, CountActive(q) \/ Launch(q) \/ WakeAtPasses(q)
      PROVE  Saves(q) \/ repo' = repo
  BY <1>1 DEF CountActive, WakeAtPasses, Launch, SavePending, Enqueue, DrainCheck, DrainStart, Resave, Saves
<1>2. CASE Drain
  BY <1>2 DEF Drain, DequeueNothing, Dequeue
<1>3. ASSUME NEW t \in Executors, Proceed(t) \/ SpliceSave(t) PROVE Saves(t) \/ repo' = repo
  BY <1>3, WorkflowRunsAssumption DEF Proceed, Execute, Finish, Schedule, ScheduleFails, Saves
<1>4. ASSUME NEW k \in Tickers, Tick(k) PROVE repo' = repo
  BY <1>4 DEF Tick, GetDue, TickCancel, TickResume, TickGivesUp
<1>5. ASSUME NEW t \in Resumers, NEW q \in Runs, ExternalResume(t, q) PROVE repo' = repo
  BY <1>5 DEF ExternalResume
<1>6. Runs \subseteq Executors
  BY WorkflowRunsAssumption DEF Executors, Threads
<1> QED
  BY <1>1, <1>2, <1>3, <1>4, <1>5, <1>6 DEF Next

\* What a save does: the row was not one of an ended run, and it says
\* afterwards what the saving thread is doing.
LEMMA SaveEffect ==
  ASSUME IInv, Direct, RowKept, NEW t \in Executors, Saves(t)
  PROVE  /\ on[t] \in Runs /\ on' = on /\ repo[on[t]] \notin Terminal
         /\ \E s \in Status : repo' = [repo EXCEPT ![on[t]] = s]
         /\ \E p : pc' = [pc EXCEPT ![t] = p]
         /\ pc[t] \in Acting \/ (t \in Runs /\ pc[t] = "free")
         /\ pc'[t] \in {"executing", "closing"} => repo'[on[t]] = "running"
         /\ pc'[t] # "resuming"
<1> USE DEF IInv, TypeOK, Goto, Save, Executors, Acting, Status, Terminal
<1>1. CASE t \in Runs /\ StartRun(t)
  BY <1>1 DEF StartRun, OnSelf, RowFits, Unsaved
<1>2. ASSUME NEW timed \in BOOLEAN, Pause(t, timed), on[t] \in Runs
      PROVE  /\ on' = on /\ repo[on[t]] = "running" /\ pc[t] \in Acting
             /\ repo' = [repo EXCEPT ![on[t]] = "paused"]
             /\ \E p : pc' = [pc EXCEPT ![t] = p]
             /\ pc'[t] \notin {"executing", "closing", "resuming"}
  BY <1>2 DEF Pause, Returned, RowKept
<1>3. CASE FinalSave(t) /\ on[t] \in Runs
  BY <1>3 DEF FinalSave, Returned, RowKept
<1>4. CASE SpliceSave(t) /\ on[t] \in Runs
  <2>1. pc = [pc EXCEPT ![t] = pc[t]]
    OBVIOUS
  <2> QED
    BY <1>4, <2>1 DEF SpliceSave, RowKept, CopyFits
<1>5. CASE ResumeSave(t) /\ on[t] \in Runs
  BY <1>5 DEF ResumeSave, RowKept
<1>6. CASE (\E timed \in BOOLEAN : Pause(t, timed)) /\ on[t] \in Runs
  BY <1>2, <1>6
<1>7. CASE on[t] \notin Runs
  BY <1>1, <1>7 DEF Saves, Pause, FinalSave, SpliceSave, ResumeSave, Engaged, Working
<1> QED
  BY <1>1, <1>3, <1>4, <1>5, <1>6, <1>7 DEF Saves

\* A thread that begins to act without a save has found a paused row; one
\* that goes on acting stays with its run.
LEMMA ActsUnsaved ==
  ASSUME Undisturbed, IInv, Direct, Next, repo' = repo, \A t \in Executors : ~Saves(t),
         NEW u \in Executors
  PROVE  /\ pc'[u] \in {"executing", "closing"} =>
              pc[u] \in {"executing", "closing"} /\ on'[u] = on[u]
         /\ pc'[u] = "resuming" => \/ pc[u] = "resuming" /\ on'[u] = on[u]
                                   \/ repo[on'[u]] = "paused"
<1> DEFINE Goal == /\ pc'[u] \in {"executing", "closing"} =>
                        pc[u] \in {"executing", "closing"} /\ on'[u] = on[u]
                   /\ pc'[u] = "resuming" => \/ pc[u] = "resuming" /\ on'[u] = on[u]
                                             \/ repo[on'[u]] = "paused"
<1>0. pc \in [Threads -> Places] /\ on \in [Threads -> Runs \cup {NoRun}] /\ u \in Threads
  BY DEF IInv, TypeOK, Executors
<1> USE DEF Undisturbed, Direct, Goto
<1>1. ASSUME NEW q \in Runs, CountActive(q) \/ Launch(q) \/ WakeAtPasses(q) PROVE Goal
  <2>1. ~StartRun(q)
    BY WorkflowRunsAssumption DEF Saves, Executors, Threads
  <2> QED
    BY <1>0, <1>1, <2>1 DEF CountActive, WakeAtPasses, Launch, SavePending, Enqueue, DrainCheck,
                            DrainStart, Resave
<1>2. CASE Drain
  BY <1>0, <1>2 DEF Drain, DequeueNothing, Dequeue, Foremost
<1>3. ASSUME NEW t \in Executors, Proceed(t) \/ SpliceSave(t) PROVE Goal
  <2>1. (\E status \in {"completed", "failed"} : Finish(t, status)) \/ Schedule(t) \/ ScheduleFails(t)
    BY <1>3, WorkflowRunsAssumption DEF Proceed, Execute, Saves
  <2> QED
    BY <1>0, <2>1 DEF Finish, Schedule, ScheduleFails, Returned
<1>4. ASSUME NEW k \in Tickers, Tick(k) PROVE Goal
  BY <1>0, <1>4 DEF Tick, GetDue, TickCancel, TickResume, TickGivesUp, ResumeRun, Returned
<1>5. ASSUME NEW t \in Resumers, NEW q \in Runs, ExternalResume(t, q) PROVE Goal
  BY <1>0, <1>5 DEF ExternalResume, ResumeRun, Threads
<1> QED
  BY <1>1, <1>2, <1>3, <1>4, <1>5 DEF Next

\* Every step keeps the rows in agreement with their executors.
LEMMA RowKeptStep ==
  ASSUME Undisturbed, IInv, LateInv, Direct, RowKept, Next
  PROVE  RowKept'
<1>1. CASE \E t \in Executors : Saves(t)
  <2>1. PICK t \in Executors : Saves(t)
    BY <1>1
  <2>2. /\ on[t] \in Runs /\ on' = on
        /\ \E s \in Status : repo' = [repo EXCEPT ![on[t]] = s]
        /\ \E p : pc' = [pc EXCEPT ![t] = p]
        /\ pc[t] \in Acting \/ (t \in Runs /\ pc[t] = "free")
        /\ pc'[t] \in {"executing", "closing"} => repo'[on[t]] = "running"
        /\ pc'[t] # "resuming"
    BY <2>1, SaveEffect
  <2>3. ASSUME NEW u \in Executors, u # t, pc[u] \in Acting PROVE on[u] # on[t]
    <3>1. CASE pc[t] \in Acting
      BY <2>3, <3>1, SoleActor DEF Undisturbed
    <3>2. CASE t \in Runs /\ pc[t] = "free"
      <4>1. on[t] = t /\ pc[on[u]] \notin Unsaved
        BY <2>3, <3>2 DEF IInv, OnSelf, WorkBegun, Working, Acting, Executors
      <4> QED
        BY <3>2, <4>1 DEF Unsaved
    <3> QED
      BY <2>2, <3>1, <3>2
  <2>4. pc \in [Threads -> Places] /\ repo \in [Runs -> Status \cup {"none"}] /\ Executors \subseteq Threads
    BY DEF IInv, TypeOK, Executors
  <2>5. ASSUME NEW u \in Executors, u # t, pc'[u] \in Acting
        PROVE  pc'[u] = pc[u] /\ repo'[on'[u]] = repo[on[u]]
    <3>1. pc'[u] = pc[u]
      BY <2>2, <2>4, <2>5
    <3>2. on[u] # on[t] /\ on[u] \in Runs
      BY <2>3, <2>5, <3>1 DEF IInv, Engaged, Working, Acting, Executors
    <3> QED
      BY <2>2, <2>4, <3>1, <3>2
  <2> QED
    BY <2>2, <2>5 DEF RowKept, Acting
<1>2. CASE ~(\E t \in Executors : Saves(t))
  <2>1. repo' = repo
    BY <1>2, WhoSaves
  <2> QED
    BY <1>2, <2>1, ActsUnsaved DEF RowKept
<1> QED
  BY <1>1, <1>2

\* Undisturbed runs are started directly and agree with their executors.
LEMMA RowKeptSpec == Undisturbed => (Spec => [](Direct /\ RowKept))
<1> SUFFICES ASSUME Undisturbed PROVE Spec => [](Direct /\ RowKept)
  OBVIOUS
<1>1. Init => Direct /\ RowKept
  BY DEF Init, Direct, RowKept, Executors, Threads
<1>2. IInv /\ LateInv /\ (Direct /\ RowKept) /\ [Next]_vars => (Direct /\ RowKept)'
  <2> SUFFICES ASSUME IInv, LateInv, Direct, RowKept, [Next]_vars PROVE Direct' /\ RowKept'
    OBVIOUS
  <2>1. CASE UNCHANGED vars
    BY <2>1 DEF vars, Direct, RowKept
  <2> QED
    BY <2>1, DirectStep, RowKeptStep
<1> QED
  BY <1>1, <1>2, Inductive, LateSpec, PTL DEF Spec

\* Without a queue, a canceller and a second thread that resumes, a run that
\* has ended keeps its status: no executor, tick or resumption saves its row
\* again (completeRun, failRun, executeRun's final save, resumeRun).
THEOREM EndedForGood == Undisturbed => (Spec => TerminalFinal)
<1> SUFFICES ASSUME Undisturbed PROVE Spec => TerminalFinal
  OBVIOUS
<1>1. IInv /\ (Direct /\ RowKept) /\ [Next]_vars =>
        [\A r \in Runs : repo[r] \in Terminal => repo'[r] = repo[r]]_vars
  <2> SUFFICES ASSUME IInv, Direct, RowKept, Next
               PROVE  \A r \in Runs : repo[r] \in Terminal => repo'[r] = repo[r]
    OBVIOUS
  <2>1. ASSUME NEW t \in Executors, Saves(t), NEW r \in Runs, repo[r] \in Terminal
        PROVE  repo'[r] = repo[r]
    <3>1. on[t] \in Runs /\ repo[on[t]] \notin Terminal /\ \E s \in Status : repo' = [repo EXCEPT ![on[t]] = s]
      BY <2>1, SaveEffect
    <3>2. r # on[t] /\ repo \in [Runs -> Status \cup {"none"}]
      BY <2>1, <3>1 DEF IInv, TypeOK
    <3> QED
      BY <3>1, <3>2
  <2> QED
    BY <2>1, WhoSaves
<1> QED
  BY <1>1, Inductive, RowKeptSpec, PTL DEF Spec, TerminalFinal
=============================================================================
