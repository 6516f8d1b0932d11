------------------------------ MODULE AgentLoop ------------------------------
(***************************************************************************)
(* The tool-calling agent of packages/agents/src/agent.ts: the loop of run  *)
(* and of runStream, tool calls with their gates, retries and handoffs,     *)
(* the checks of a terminal response, checkpoints, crashes and              *)
(* resumeFromCheckpoint, and the delegate tool of a supervisor.             *)
(*                                                                          *)
(* The answers of the model, of tools, of guardrails and of humans are free *)
(* choices.  A tool call is <<n, i>>: the i-th call of the n-th step, where *)
(* the steps of a resumed agent count on.  Memory and the cost governor are *)
(* left out.                                                                *)
(***************************************************************************)
EXTENDS Conversation

CONSTANTS MaxSteps,            \* config.maxSteps
          ToolAttempts,        \* toolRetry.maxAttempts
          SchemaRetries,       \* structuredOutputRetries
          VerifyAttempts,      \* verify.maxAttempts
          MaxRevisions,        \* reflect.maxRevisions
          CheckpointInterval,  \* checkpoint.intervalSteps
          MaxDelegations,      \* of the supervisor
          Setups,              \* configurations <<mode, parallel, strategy>>
          MaxCalls,            \* bound on the tool calls in one answer
          MaxCrashes, MaxSaveFailures, MaxFeedback   \* bounds on the environment

ASSUME LoopAssumption ==
  /\ {MaxSteps, ToolAttempts, CheckpointInterval, MaxCalls} \subseteq Nat \ {0}
  /\ {SchemaRetries, VerifyAttempts, MaxRevisions, MaxDelegations, MaxCrashes,
      MaxSaveFailures, MaxFeedback} \subseteq Nat
  /\ Setups \subseteq ({"run", "stream"} \X BOOLEAN
                         \X {"trim_oldest", "sliding_window", "summarize"})

VARIABLES setup,        \* the configuration
          pc,           \* where the loop stands
          stepIdx,
          messages,
          spent,        \* the tokens used have reached maxTokenBudget
          retries,      \* structured output retries, verify attempts, revisions
          denied,       \* streamGuardrailDenied
          batch,        \* calls of the latest answer -> their progress
          feedback,     \* pendingHandoffFeedback.length
          delegated,    \* delegationResults.length
          expired,      \* isExpired(ctx)
          status,       \* of the result
          checkpoint,   \* the messages in the store, <<>> if none was saved
          crashes, saveFailures,   \* how often the environment has failed
          unsaved,      \* history: steps with tool effects that no checkpoint shows
          draftDenied   \* history: the guardrails denied the latest draft

env      == <<setup, expired, crashes>>
store    == <<checkpoint, saveFailures>>
counters == <<stepIdx, spent, retries, denied>>
calls    == <<batch, delegated, feedback>>
vars == <<env, store, unsaved, counters, calls, pc, messages, status, draftDenied>>

Mode == setup[1]
Parallel == setup[2]
Strategy == setup[3]

\* The number of the step, over all lives of the agent.
Step == crashes * MaxSteps + stepIdx

NoRetries == [schema |-> 0, verify |-> 0, reflect |-> 0]

\* The progress of a call: Waiting at its gates, in its n-th attempt (n > 0),
\* Delegating to a worker, Ended.
Waiting == 0
Delegating == -1
Ended == -2

-----------------------------------------------------------------------------
(* Beginning, checkpoints and returning. *)

Init == /\ setup \in Setups
        /\ pc = "head" /\ stepIdx = 0 /\ messages = <<SystemPrompt, UserMessage>>
        /\ spent = FALSE /\ retries = NoRetries /\ denied = FALSE
        /\ batch = <<>> /\ feedback = 0 /\ delegated = 0
        /\ expired = FALSE /\ status = "none"
        /\ checkpoint = <<>> /\ crashes = 0 /\ saveFailures = 0
        /\ unsaved = {} /\ draftDenied = FALSE

\* The conversation is saved, or the store fails and the error is swallowed.
SaveCheckpoint(ms) ==
  \/ /\ checkpoint' = ms
     /\ unsaved' = {n \in unsaved : \A id \in Answered(ms) : n > id[1]}
     /\ UNCHANGED saveFailures
  \/ /\ saveFailures < MaxSaveFailures /\ saveFailures' = saveFailures + 1
     /\ UNCHANGED <<checkpoint, unsaved>>

Leave(s) == pc' = "returned" /\ status' = s

\* A return without a checkpoint.
ReturnUnsaved(s) == Leave(s) /\ UNCHANGED <<store, unsaved>>

\* run() saves a last checkpoint with these statuses, runStream() none at all.
Return(s) ==
  IF Mode = "run" /\ s \in {"completed", "failed", "cancelled", "budget_exceeded"}
  THEN Leave(s) /\ SaveCheckpoint(messages) ELSE ReturnUnsaved(s)

\* The next iteration of the loop, with ms added to the conversation.
Continue(ms) == /\ pc' = "head" /\ stepIdx' = stepIdx + 1
                /\ messages' = messages \o ms

-----------------------------------------------------------------------------
(* The head of the loop. *)

\* How the loop may go on: by stopping with a status, or not at all ("none").
\* runStream has no policy and reports every stop as failed.
StopReasons ==
  IF stepIdx >= MaxSteps THEN {"failed"}
  ELSE IF expired THEN {"cancelled"}
  ELSE IF spent THEN {"budget_exceeded"}
  ELSE IF Mode = "run" THEN {"cancelled", "none"} ELSE {"none"}

HeadStops ==
  /\ pc = "head"
  /\ \E s \in StopReasons \ {"none"} : Return(IF Mode = "run" THEN s ELSE "failed")
  /\ UNCHANGED <<env, counters, calls, messages, draftDenied>>

\* Feedback of human reviewers goes into the conversation, which is then
\* compressed for good.
HeadContinues ==
  /\ pc = "head" /\ "none" \in StopReasons /\ pc' = "model"
  /\ messages' = ApplyContextManagement(messages \o [i \in 1..feedback |-> UserMessage],
                                        Strategy)
  /\ feedback' = 0
  /\ UNCHANGED <<env, store, unsaved, counters, batch, delegated, status, draftDenied>>

-----------------------------------------------------------------------------
(* The model call. *)

ModelAsksForTools ==
  /\ pc = "model" /\ pc' = "tools"
  /\ \E n \in 1..MaxCalls :
       LET ids == [i \in 1..n |-> <<Step, i>>]
       IN  /\ messages' = Append(messages, Assistant(ids))
           /\ batch' = [c \in Range(ids) |-> Waiting]
  /\ spent' \in {spent, TRUE}
  /\ UNCHANGED <<env, store, unsaved, stepIdx, retries, denied, feedback, delegated,
                 status, draftDenied>>

ModelAnswers ==
  /\ pc = "model" /\ pc' = "terminal" /\ spent' \in {spent, TRUE}
  /\ UNCHANGED <<env, store, unsaved, stepIdx, retries, denied, calls, messages, status,
                 draftDenied>>

\* The policy, the model, a summary, the critic or the memory throws.
Throws ==
  /\ pc \in {"head", "model", "terminal"} /\ (pc = "head" => "none" \in StopReasons)
  /\ ReturnUnsaved("threw")
  /\ UNCHANGED <<env, counters, calls, messages, draftDenied>>

-----------------------------------------------------------------------------
(* Tool calls.  In parallel mode a call that has begun goes on when the loop *)
(* has been left by a handoff or an exception of another one.                *)

Active(id) ==
  /\ id \in DOMAIN batch
  /\ Parallel \/ /\ pc = "tools"
                 /\ \A c \in DOMAIN batch : c[2] < id[2] => batch[c] = Ended

toolFrame == <<env, store, counters, messages, draftDenied>>

Progress(id, p) == batch' = [batch EXCEPT ![id] = p] /\ UNCHANGED toolFrame

Goes == UNCHANGED <<pc, status>>

\* An exception leaves the loop unless another one has done so before.
Escapes(place, s) == IF pc = "tools" THEN pc' = place /\ status' = s ELSE Goes

\* An unknown tool, unparsable arguments, or a denial by guardrails, consent
\* or policy: the result is an error text.
CallDenied(id) ==
  /\ Active(id) /\ batch[id] = Waiting /\ Progress(id, Ended)
  /\ Goes /\ UNCHANGED <<delegated, feedback, unsaved>>

\* policy.approveToolCall is not guarded by a try.
PolicyThrows(id) ==
  /\ Active(id) /\ batch[id] = Waiting /\ Progress(id, Ended)
  /\ Escapes("returned", "threw") /\ UNCHANGED <<delegated, feedback, unsaved>>

\* A human reviewer rejects the call, with feedback.
CallRejected(id) ==
  /\ Active(id) /\ batch[id] = Waiting /\ Progress(id, Ended)
  /\ feedback < MaxFeedback /\ feedback' = feedback + 1
  /\ Goes /\ UNCHANGED <<delegated, unsaved>>

\* All gates passed, perhaps with feedback of a reviewer: the tool is invoked.
CallApproved(id) ==
  /\ Active(id) /\ batch[id] = Waiting /\ Progress(id, 1)
  /\ feedback' \in {feedback, feedback + 1} \cap 0..MaxFeedback
  /\ unsaved' = unsaved \cup {id[1]}
  /\ Goes /\ UNCHANGED delegated

\* The tool returns, with or without an error, or fails for good.
ToolReturns(id) ==
  /\ Active(id) /\ batch[id] > 0 /\ Progress(id, Ended)
  /\ Goes /\ UNCHANGED <<delegated, feedback, unsaved>>

TransientError(id) ==
  /\ Active(id) /\ batch[id] \in 1..ToolAttempts - 1 /\ Progress(id, batch[id] + 1)
  /\ Goes /\ UNCHANGED <<delegated, feedback, unsaved>>

\* Mutant: the signal is awaited with the other results, and nobody takes it.
HandoffAwaited(id) ==
  /\ Active(id) /\ batch[id] > 0 /\ Progress(id, -3)
  /\ Goes /\ UNCHANGED <<delegated, feedback, unsaved>>

\* A transfer tool throws the handoff signal, which is never swallowed.
HandoffSignal(id) ==
  /\ Active(id) /\ batch[id] > 0 /\ Progress(id, Ended)
  /\ Escapes("handoff", status) /\ UNCHANGED <<delegated, feedback, unsaved>>

\* The delegate tool looks at the limit, and then runs the worker.
Delegate(id) ==
  /\ Active(id) /\ batch[id] > 0
  /\ delegated < MaxDelegations /\ Progress(id, Delegating)
  /\ Goes /\ UNCHANGED <<delegated, feedback, unsaved>>

WorkerReturns(id) ==
  /\ Active(id) /\ batch[id] = Delegating /\ Progress(id, Ended)
  /\ delegated' = delegated + 1
  /\ Goes /\ UNCHANGED <<feedback, unsaved>>

CallStep(id) == \/ CallDenied(id) \/ PolicyThrows(id) \/ CallRejected(id)
                \/ CallApproved(id) \/ ToolReturns(id) \/ TransientError(id)
                \/ HandoffSignal(id) \/ Delegate(id) \/ WorkerReturns(id)

\* The results in the order of the calls.
Results == [i \in 1..Cardinality(DOMAIN batch) |-> ToolResult(<<Step, i>>)]

\* Mutant: the checkpoint is saved in front of the results.
AllReturnedSavesEarly ==
  /\ pc = "tools" /\ \A c \in DOMAIN batch : batch[c] = Ended
  /\ \E screenshots \in (IF Mode = "run" THEN {<<>>, <<UserMessage>>} ELSE {<<>>}) :
       Continue(Results \o screenshots)
  /\ IF Mode = "run" /\ stepIdx % CheckpointInterval = 0
     THEN SaveCheckpoint(messages) ELSE UNCHANGED <<store, unsaved>>
  /\ UNCHANGED <<env, spent, retries, denied, delegated, feedback, status, draftDenied>>
  /\ batch' = <<>>

\* All calls have ended: their results, and in run() what the vision loop
\* adds, go into the conversation, which run() saves every few steps.
AllReturned ==
  /\ pc = "tools" /\ \A c \in DOMAIN batch : batch[c] = Ended
  /\ \E screenshots \in (IF Mode = "run" THEN {<<>>, <<UserMessage>>} ELSE {<<>>}) :
       Continue(Results \o screenshots)
  /\ IF Mode = "run" /\ stepIdx % CheckpointInterval = 0
     THEN SaveCheckpoint(messages') ELSE UNCHANGED <<store, unsaved>>
  /\ UNCHANGED <<env, spent, retries, denied, delegated, feedback, status, draftDenied>>
  /\ batch' = <<>>

HandoffReturns ==
  /\ pc = "handoff" /\ \E s \in {"handed_off", "threw"} : ReturnUnsaved(s)
  /\ UNCHANGED <<env, counters, calls, messages, draftDenied>>

-----------------------------------------------------------------------------
(* A terminal response.  run() consults the guardrails before the schema and *)
(* returns a denial at once; runStream() validates the schema first, marks a *)
(* denial and lets the blocked text go through verification and reflection.  *)

terminalFrame == <<env, spent, calls>>

GuardrailDenies ==
  /\ pc = "terminal" /\ Mode = "run" /\ ReturnUnsaved("guardrail_denied")
  /\ draftDenied' = TRUE
  /\ UNCHANGED <<terminalFrame, stepIdx, retries, denied, messages>>

\* The draft and a request for another one.
Again == <<Assistant(<<>>), UserMessage>>

\* The decision of the guardrails on the draft.
Check == \E d \in (IF Mode = "run" THEN {FALSE} ELSE BOOLEAN) :
           draftDenied' = d /\ denied' = (denied \/ d)

SchemaRetry ==
  /\ pc = "terminal" /\ ~expired /\ retries.schema < SchemaRetries
  /\ retries' = [retries EXCEPT !.schema = @ + 1]
  /\ Continue(Again)
  /\ UNCHANGED <<terminalFrame, store, unsaved, denied, status, draftDenied>>

VerifyFails ==
  /\ pc = "terminal" /\ ~expired /\ retries.verify < VerifyAttempts /\ Check
  /\ retries' = [retries EXCEPT !.verify = @ + 1]
  /\ Continue(Again)
  /\ UNCHANGED <<terminalFrame, store, unsaved, status>>

CriticRevises ==
  /\ pc = "terminal" /\ ~expired /\ retries.reflect < MaxRevisions /\ Check
  /\ retries' = [retries EXCEPT !.reflect = @ + 1]
  /\ Continue(Again)
  /\ UNCHANGED <<terminalFrame, store, unsaved, status>>

\* Mutant: the stream forgets the denial of the draft.
AcceptedForgetful ==
  /\ pc = "terminal" /\ Check
  /\ Return("completed")
  /\ UNCHANGED <<terminalFrame, stepIdx, retries, messages>>

Accepted ==
  /\ pc = "terminal" /\ Check
  /\ Return(IF denied' THEN "guardrail_denied" ELSE "completed")
  /\ UNCHANGED <<terminalFrame, stepIdx, retries, messages>>

-----------------------------------------------------------------------------
(* The environment: cancellation, crashes and resumption. *)

Expire == /\ ~expired /\ pc \notin {"returned", "down"} /\ expired' = TRUE
          /\ UNCHANGED <<setup, crashes, store, unsaved, counters, calls, pc, messages, status,
                         draftDenied>>

Crash == /\ Mode = "run" /\ pc \notin {"returned", "down"} /\ crashes < MaxCrashes
         /\ pc' = "down" /\ crashes' = crashes + 1
         /\ batch' = <<>>
         /\ UNCHANGED <<setup, expired, store, unsaved, counters, messages, delegated,
                        feedback, status, draftDenied>>

\* The history of the checkpoint behind the prompt of the new agent.
Resumed == IF checkpoint = <<>> THEN <<SystemPrompt, UserMessage>>
           ELSE <<SystemPrompt>> \o IF checkpoint[1] = SystemPrompt THEN Tail(checkpoint)
                                    ELSE checkpoint

\* The new agent starts with counters of its own, in a new context; the
\* caller may add an input.
ResumeFromCheckpoint ==
  /\ pc = "down" /\ pc' = "head"
  /\ \E input \in {<<>>, <<UserMessage>>} : messages' = Resumed \o input
  /\ stepIdx' = 0 /\ spent' = FALSE /\ retries' = NoRetries /\ denied' = FALSE
  /\ feedback' = 0 /\ delegated' = 0 /\ expired' = FALSE /\ unsaved' = {}
  /\ UNCHANGED <<setup, crashes, store, batch, status, draftDenied>>

LoopStep == \/ HeadStops \/ HeadContinues
            \/ ModelAsksForTools \/ ModelAnswers \/ Throws
            \/ AllReturned \/ HandoffReturns
            \/ GuardrailDenies \/ SchemaRetry \/ VerifyFails \/ CriticRevises \/ Accepted
            \/ ResumeFromCheckpoint

Next == \/ LoopStep
        \/ \E id \in DOMAIN batch : CallStep(id)
        \/ Expire \/ Crash

Spec == Init /\ [][Next]_vars

\* Models, tools and reviewers answer in the end, and a crashed agent is
\* resumed.
FairSpec == Spec /\ WF_vars(LoopStep \/ \E id \in DOMAIN batch : CallStep(id))

-----------------------------------------------------------------------------
(* Properties. *)

\* Whatever order tool calls end in, whatever is trimmed, summarised, fed back
\* or resumed: each model call gets a conversation with one system prompt in
\* which every tool call is directly followed by its result.
ConversationPaired == pc = "model" => WellPaired(messages)

\* With a checkpoint after every step a crash forgets the tool effects of one
\* batch, and of one more for each save that failed.
EffectsRecorded ==
  Mode = "run" /\ pc # "returned" => Cardinality(unsaved) <= 1 + saveFailures

\* The draft of a run that completes is not one the guardrails have denied.
DeniedNotCompleted == status = "completed" => ~draftDenied

\* Every run returns.
Returns == <>(pc = "returned")
=============================================================================
