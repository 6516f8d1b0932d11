------------------------------ MODULE RunSession ------------------------------
(***************************************************************************)
(* The session of a user interface over one run at a time                   *)
(* (packages/client/src/run-session.ts), the event stream it attaches to,   *)
(* with reconnects and deduplication (run-client.ts), the persisted cursor  *)
(* that makes a run resumable after a page refresh (cursor.ts), and the     *)
(* capped journal of the run's events (packages/core/src/run-journal.ts).   *)
(*                                                                          *)
(* The r-th start call creates run r.  Its journal is the events 1..head[r];*)
(* the last one is terminal once the run has ended.  Calls of the session    *)
(* that await an answer are separate steps.  The view is the range of the    *)
(* events of a run it was made of, and of run 0 if they do not follow one    *)
(* another.  A stream that is aborted or over is Detached, and its slot is   *)
(* used again.  A disposed session is not called any more.                  *)
(*                                                                          *)
(* What fails around the session: the cursor store rejects a call, which    *)
(* the session swallows; a subscriber throws out of a notification; a call  *)
(* or a connection is never answered.                                       *)
(***************************************************************************)
EXTENDS Integers, Sequences, FiniteSets, FiniteSetsExt, SequencesExt

CONSTANTS MaxRuns,         \* bound on start calls
          Length,          \* run -> events of a run that is not cancelled
          Cap,             \* events of a run the journal retains
          MaxReconnects,   \* reconnects without progress
          MaxStreams,      \* bound on streams at a time
          MaxStops,        \* bound on stop calls of a run that await an answer
          MaxFaults        \* bound on refreshes, revocations, presence events and exceptions
                           \* that are taken for malformed events

ASSUME SessionAssumption ==
  /\ {MaxRuns, Cap, MaxStreams} \subseteq Nat \ {0}
  /\ {MaxReconnects, MaxStops, MaxFaults} \subseteq Nat
  /\ Length \in [1..MaxRuns -> Nat \ {0}]

VARIABLES head, ended,     \* run -> length of its journal, whether it has ended
          call,            \* run -> its start call: none, pending, returned, or lost
          stream,          \* slot -> attached stream
          status, runId, view, controller, disposed,   \* the session
          resuming,        \* runs whose cursor a resume call is reading
          stopping,        \* run -> stop calls that await cancelRun
          cursor,          \* runs with a persisted cursor
          faults,
          owner,           \* history: the call the session belongs to
          crossed,         \* history: calls whose answers met a session that had moved on
          unstored,        \* history: the last cursor call for the session's run was rejected
          thrown           \* history: the session's stream has survived its settlement

journal == <<head, ended>>
calls == <<call, resuming, stopping>>
session == <<status, runId, view, controller, disposed, cursor>>
history == <<owner, crossed, unstored, thrown>>
vars == <<journal, calls, stream, session, faults, history>>

Runs == 1..MaxRuns
Slots == 1..MaxStreams
Busy == {"submitted", "streaming"}
NoOwner == 0
Stopper == -1
Resumer == -2
Stranded == -3   \* owner of a session whose call or stream is lost to a fault

\* A stream is open, or waits for a connection that is never answered, or it has
\* outlived the settlement of its session.
StreamOf(r, n, k, p) == [run |-> r, lastSeq |-> n, reconnects |-> k, phase |-> p]

Detached == StreamOf(0, 0, 0, "open")
Empty == [run |-> 0, first |-> 0, last |-> 0]
Live == {s \in Slots : stream[s] # Detached}

Init == /\ head = [r \in Runs |-> 0] /\ ended = [r \in Runs |-> FALSE]
        /\ call = [r \in Runs |-> "none"] /\ resuming = {}
        /\ stopping = [r \in Runs |-> 0] /\ stream = [s \in Slots |-> Detached]
        /\ status = "idle" /\ runId = 0 /\ view = Empty /\ controller = 0
        /\ disposed = FALSE /\ cursor = {} /\ faults = 0
        /\ owner = NoOwner /\ crossed = {} /\ unstored = FALSE /\ thrown = FALSE

-----------------------------------------------------------------------------
(* The journal. *)

\* append keeps the last Cap events.
Oldest(r) == Max({1, head[r] - Cap + 1})

\* Mutant: a reader behind the oldest event gets what is left.
TooOldNever(r, after) == FALSE

\* readAfter refuses a reader that has missed events, but not one that starts.
TooOld(r, after) == after > 0 /\ Oldest(r) > 1 /\ after < Oldest(r) - 1

ReadAfter(r, after) == Max({after + 1, Oldest(r)})..head[r]

AppendEvent(r) ==
  /\ call[r] \in {"pending", "returned"} /\ ~ended[r]
  /\ head' = [head EXCEPT ![r] = @ + 1]
  /\ ended' = [ended EXCEPT ![r] = head[r] + 1 = Length[r]]
  /\ UNCHANGED <<calls, stream, session, faults, history>>

IsTerminal(r, n) == ended[r] /\ n = head[r]

-----------------------------------------------------------------------------
(* The session. *)

\* The cursors once an event has persisted the one of the session's run.
Persisted == IF runId = 0 THEN cursor ELSE cursor \cup {runId}

Persist == \/ cursor' = Persisted /\ unstored' = FALSE
           \/ runId # 0 /\ UNCHANGED cursor /\ unstored' = TRUE

\* Mutant: the cursor of the run is left behind.
FinalizeKeepsCursor(st, id, c) == status' = st /\ cursor' = c /\ UNCHANGED unstored

\* The session settles, and clears the cursor of run id from the cursors c.
Finalize(st, id, c) ==
  /\ status' = st
  /\ \/ cursor' = c \ {id} /\ unstored' = FALSE
     \/ id # 0 /\ cursor' = c /\ unstored' = TRUE

Crosses(c, b) == crossed' = IF b THEN crossed \cup {c} ELSE crossed

\* Mutant: the former stream is not aborted.
WithoutControllerLeaks == stream

WithoutController ==
  [s \in Slots |-> IF s = controller THEN Detached ELSE stream[s]]

\* The session turns to run id from the beginning, and says so.
Begins(id) == /\ stream' = WithoutController /\ controller' = 0
              /\ view' = Empty /\ runId' = id /\ status' = "submitted"
              /\ unstored' = FALSE /\ thrown' = FALSE

\* A stream of run r from the beginning takes a free slot of st; whoever was
\* the controller is forgotten.  No timeout guards its first connection.
BeginAttach(r, st) ==
  LET free == {s \in Slots : st[s] = Detached}
  IN  /\ free # {} /\ controller' = Min(free)
      /\ \E p \in {"open", "hung"} :
           /\ stream' = [st EXCEPT ![Min(free)] = StreamOf(r, 0, 0, p)]
           /\ owner' = IF p = "open" THEN r ELSE Stranded

\* start and regenerate.
Start(r) ==
  /\ call[r] = "none" /\ \A q \in Runs : q < r => call[q] # "none"
  /\ ~disposed /\ status \notin Busy
  /\ call' = [call EXCEPT ![r] = "pending"]
  /\ Begins(0) /\ owner' = r
  /\ UNCHANGED <<journal, resuming, stopping, disposed, cursor, faults, crossed>>

\* A subscriber throws when it is told, and no call is made.
StartThrows ==
  /\ ~disposed /\ status \notin Busy
  /\ Begins(0) /\ owner' = Stranded
  /\ UNCHANGED <<journal, calls, disposed, cursor, faults, crossed>>

StartReturns(r, c) == /\ call[r] = "pending" /\ call' = [call EXCEPT ![r] = c]
                      /\ UNCHANGED <<resuming, stopping, view, disposed, faults, thrown>>

\* Mutant: the failure of the call does not settle the session.
StartFailsSilently(r) ==
  /\ StartReturns(r, "lost")
  /\ UNCHANGED <<journal, stream, status, runId, controller, cursor, owner, crossed, unstored>>

StartFails(r) ==
  /\ StartReturns(r, "lost") /\ Finalize("error", runId, cursor)
  /\ owner' = NoOwner /\ Crosses(r, owner # r)
  /\ UNCHANGED <<journal, stream, runId, controller>>

\* The run had ended when it was created.
StartSettles(r) ==
  /\ StartReturns(r, "returned") /\ ~disposed /\ ended[r] /\ runId' = r
  /\ \E st \in {"ready", "error"} : Finalize(st, r, cursor)
  /\ owner' = NoOwner /\ Crosses(r, owner # r)
  /\ UNCHANGED <<journal, stream, controller>>

\* The session attaches, whatever has become of it since the call.
StartAttaches(r) ==
  /\ StartReturns(r, "returned") /\ ~disposed /\ runId' = r /\ BeginAttach(r, stream)
  /\ Crosses(r, owner # r)
  /\ UNCHANGED <<journal, status, cursor, unstored>>

\* A subscriber throws when it is told of the run's id, and there is no stream.
StartAttachThrows(r) ==
  /\ StartReturns(r, "returned") /\ ~disposed /\ runId' = r
  /\ owner' = (IF owner = r THEN Stranded ELSE owner) /\ Crosses(r, owner # r)
  /\ UNCHANGED <<journal, stream, controller, status, cursor, unstored>>

StartDisposed(r) ==
  /\ StartReturns(r, "lost") /\ disposed
  /\ UNCHANGED <<journal, stream, status, runId, controller, cursor, owner, crossed, unstored>>

\* The call is never answered: it has no timeout.
StartHangs(r) ==
  /\ StartReturns(r, "lost") /\ owner' = IF owner = r THEN Stranded ELSE owner
  /\ UNCHANGED <<journal, stream, status, runId, controller, cursor, crossed, unstored>>

\* resume looks at the status before it reads the cursor, not after.
Resume(r) ==
  /\ ~disposed /\ status \notin Busy
  /\ r \in cursor /\ resuming' = resuming \cup {r}
  /\ UNCHANGED <<journal, call, stopping, stream, session, faults, history>>

\* The cursor cannot be read or is gone, or it is too old and is cleared, or is
\* not because the store rejects that.
ResumeRefused(r) ==
  /\ r \in resuming /\ resuming' = resuming \ {r} /\ cursor' \in {cursor, cursor \ {r}}
  /\ UNCHANGED <<journal, call, stopping, stream, status, runId, view, controller, disposed,
                 faults, history>>

\* The cursor that was read may be gone by now.
ResumeReturns(r) ==
  /\ r \in resuming /\ resuming' = resuming \ {r}
  /\ Crosses(Resumer, disposed \/ status \in Busy)
  /\ UNCHANGED <<journal, call, stopping, disposed, cursor, faults>>

ResumeAttaches(r) ==
  /\ ResumeReturns(r) /\ BeginAttach(r, WithoutController)
  /\ view' = Empty /\ runId' = r /\ status' = "submitted"
  /\ unstored' = FALSE /\ thrown' = FALSE

\* A subscriber throws when it is told; a disposed session has none.
ResumeThrows(r) == ResumeReturns(r) /\ ~disposed /\ Begins(r) /\ owner' = Stranded

\* stop without a run id settles at once, and does not reach the pending start.
Stop ==
  /\ ~disposed /\ status \in Busy /\ stream' = WithoutController /\ controller' = 0
  /\ \/ /\ runId = 0 /\ Finalize("ready", runId, cursor) /\ owner' = NoOwner
        /\ UNCHANGED stopping
     \/ /\ runId # 0 /\ stopping[runId] < MaxStops
        /\ stopping' = [stopping EXCEPT ![runId] = @ + 1] /\ owner' = Stopper
        /\ UNCHANGED <<status, cursor, unstored>>
  /\ UNCHANGED <<journal, call, resuming, runId, view, disposed, faults, crossed, thrown>>

\* cancelRun has ended the run, or has failed; the session as it now is settles.
StopReturns(r) ==
  /\ stopping[r] > 0 /\ stopping' = [stopping EXCEPT ![r] = @ - 1]
  /\ \/ UNCHANGED journal
     \/ /\ ~ended[r] /\ ended' = [ended EXCEPT ![r] = TRUE]
        /\ head' = [head EXCEPT ![r] = @ + 1]
  /\ Finalize("ready", runId, cursor)
  /\ owner' = NoOwner /\ Crosses(Stopper, owner \notin {Stopper, NoOwner})
  /\ UNCHANGED <<call, resuming, stream, runId, view, controller, disposed, faults, thrown>>

\* cancelRun is never answered.
StopHangs(r) ==
  /\ stopping[r] > 0 /\ stopping' = [stopping EXCEPT ![r] = @ - 1]
  /\ owner' = IF owner = Stopper /\ \A q \in Runs : stopping'[q] = 0 THEN Stranded ELSE owner
  /\ UNCHANGED <<journal, call, resuming, stream, session, faults, crossed, unstored, thrown>>

Reset ==
  /\ ~disposed /\ stream' = WithoutController /\ controller' = 0
  /\ status' = "idle" /\ cursor' \in {cursor, cursor \ {runId}}
  /\ view' = Empty /\ runId' = 0 /\ owner' = NoOwner /\ unstored' = FALSE /\ thrown' = FALSE
  /\ UNCHANGED <<journal, calls, disposed, faults, crossed>>

Dispose ==
  /\ ~disposed /\ disposed' = TRUE /\ owner' = NoOwner
  /\ stream' = WithoutController /\ controller' = 0
  /\ UNCHANGED <<journal, calls, status, runId, view, cursor, faults, crossed, unstored, thrown>>

\* A refresh of the page: a new session, and the cursors of the old one.
Refresh ==
  /\ faults < MaxFaults /\ faults' = faults + 1
  /\ call' = [r \in Runs |-> IF call[r] = "pending" THEN "lost" ELSE call[r]]
  /\ resuming' = {} /\ stopping' = [r \in Runs |-> 0]
  /\ stream' = [s \in Slots |-> Detached]
  /\ status' = "idle" /\ runId' = 0 /\ view' = Empty /\ controller' = 0
  /\ disposed' = FALSE /\ owner' = NoOwner /\ crossed' = {} /\ unstored' = FALSE /\ thrown' = FALSE
  /\ UNCHANGED <<journal, cursor>>

-----------------------------------------------------------------------------
(* The attached streams. *)

streamFrame == <<journal, calls, runId, disposed>>

\* The reducer drops what is not newer than the view.
Applied(r, n) ==
  CASE n <= view.last -> view
    [] view = Empty -> [run |-> r, first |-> n, last |-> n]
    [] view.run = r /\ n = view.last + 1 -> [view EXCEPT !.last = n]
    [] OTHER -> [run |-> 0, first |-> 0, last |-> n]

\* onEvent of the session: the event is applied and the cursor of the session's
\* run is persisted.
OnEvent(r, n) ==
  /\ view' = Applied(r, n)
  /\ status' = IF status = "submitted" THEN "streaming" ELSE status
  /\ Persist

Over(s) == /\ stream' = [stream EXCEPT ![s] = Detached]
           /\ controller' = IF controller = s THEN 0 ELSE controller

\* onComplete or onError, by a stream that may not be the session's.
Settle(s) == Over(s) /\ owner' = NoOwner /\ UNCHANGED <<crossed, thrown>>

\* onComplete with a subscriber that throws: the stream is not aborted, and goes
\* on until its connection ends.
SettleThrows(s, n) ==
  /\ stream' = [stream EXCEPT ![s] = StreamOf(@.run, n, 0, "done")]
  /\ owner' = NoOwner /\ thrown' = TRUE /\ UNCHANGED <<controller, crossed>>

\* A connection reads behind the last event of its stream; an event that is
\* not newer is dropped and changes nothing.
NextEvent(s) == Min(ReadAfter(stream[s].run, stream[s].lastSeq))
Connected(s) == s \in Live /\ stream[s].phase # "hung"
Receives(s) == /\ Connected(s) /\ ~TooOld(stream[s].run, stream[s].lastSeq)
               /\ ReadAfter(stream[s].run, stream[s].lastSeq) # {}

Progress(s) == stream' = [stream EXCEPT ![s] = StreamOf(@.run, NextEvent(s), 0, @.phase)]

New(s) ==
  /\ Receives(s) /\ ~IsTerminal(stream[s].run, NextEvent(s))
  /\ OnEvent(stream[s].run, NextEvent(s)) /\ Progress(s)
  /\ UNCHANGED <<streamFrame, controller, faults, owner, crossed, thrown>>

\* Which status the session settles with depends on the kind of the event.
\* The event is persisted before.
Completes(s) ==
  /\ Receives(s) /\ IsTerminal(stream[s].run, NextEvent(s))
  /\ view' = Applied(stream[s].run, NextEvent(s))
  /\ \E st \in {"ready", "error"}, c \in {cursor, Persisted} : Finalize(st, runId, c)
  /\ UNCHANGED <<streamFrame, faults>>

Terminal(s) == Completes(s) /\ Settle(s)
TerminalThrows(s) == Completes(s) /\ SettleThrows(s, NextEvent(s))

Fault == faults < MaxFaults /\ faults' = faults + 1

\* A subscriber throws while it is told of the terminal event: the exception is
\* taken for a malformed event, and the stream goes on.
ListenerThrows(s) ==
  /\ Receives(s) /\ IsTerminal(stream[s].run, NextEvent(s)) /\ Fault
  /\ OnEvent(stream[s].run, NextEvent(s)) /\ Progress(s)
  /\ UNCHANGED <<streamFrame, controller, owner, crossed, thrown>>

\* Events outside the journal.
Presence(s) ==
  /\ Connected(s) /\ Fault
  /\ stream' = [stream EXCEPT ![s] = StreamOf(@.run, @.lastSeq, 0, @.phase)]
  /\ status' = IF status = "submitted" THEN "streaming" ELSE status
  /\ Persist
  /\ UNCHANGED <<streamFrame, view, controller, owner, crossed, thrown>>

Revokes(s) ==
  /\ Connected(s) /\ Fault
  /\ \E c \in {cursor, Persisted} : Finalize("ready", runId, c)
  /\ UNCHANGED <<streamFrame, view>>

AccessRevoked(s) == Revokes(s) /\ Settle(s)
RevokedThrows(s) == Revokes(s) /\ SettleThrows(s, stream[s].lastSeq)

\* Mutant: the stream gives up and nobody is told.
ClosesSilently(s) ==
  /\ s \in Live /\ stream[s].phase = "open" /\ Over(s)
  /\ UNCHANGED <<streamFrame, status, view, cursor, faults, history>>

\* The connection ends and was refused for good, or there have been too many
\* of them without progress.
Closes(s) ==
  /\ s \in Live /\ stream[s].phase = "open"
  /\ Finalize("error", runId, cursor) /\ Settle(s)
  /\ UNCHANGED <<streamFrame, view, faults>>

\* The connection ends and is tried again.  The wait for it cannot be told from
\* a slow connection; but it may never be answered: the token is asked for
\* outside the try block, and the request has no timeout.
Drops(s) ==
  /\ s \in Live /\ stream[s].phase = "open" /\ stream[s].reconnects < MaxReconnects
  /\ \E p \in {"open", "hung"} :
       /\ stream' = [stream EXCEPT ![s] = StreamOf(@.run, @.lastSeq, @.reconnects + 1, p)]
       /\ owner' = IF p = "hung" /\ s = controller THEN Stranded ELSE owner
  /\ UNCHANGED <<streamFrame, status, view, controller, cursor, faults, crossed, unstored, thrown>>

\* The connection of a stream that has outlived its session ends.
Ends(s) ==
  /\ s \in Live /\ stream[s].phase = "done" /\ Over(s)
  /\ UNCHANGED <<streamFrame, status, view, cursor, faults, history>>

-----------------------------------------------------------------------------

Answer(r) == StartFails(r) \/ StartSettles(r) \/ StartAttaches(r) \/ StartDisposed(r) \/ StopReturns(r)

StreamStep(s) == New(s) \/ Terminal(s) \/ Closes(s) \/ Drops(s) \/ Ends(s)

\* The user, and what is never answered or fails.
RunAction(r) == \/ Start(r) \/ Resume(r) \/ ResumeRefused(r) \/ ResumeAttaches(r) \/ ResumeThrows(r)
                \/ StartAttachThrows(r) \/ StartHangs(r) \/ StopHangs(r)

Next == \/ \E r \in Runs : AppendEvent(r) \/ Answer(r) \/ RunAction(r)
        \/ \E s \in Slots : \/ StreamStep(s) \/ TerminalThrows(s) \/ ListenerThrows(s)
                            \/ Presence(s) \/ AccessRevoked(s) \/ RevokedThrows(s)
        \/ StartThrows \/ Stop \/ Reset \/ Dispose \/ Refresh

Spec == Init /\ [][Next]_vars

\* Runs go on; a call that is not one of those never answered is answered; an
\* open connection delivers what there is, or ends by the stall timeout of the
\* transport or otherwise, and is tried again by a timer.  Nothing is assumed of
\* the user, of the cursor store or of the faults.
SystemStep == \/ \E r \in Runs : AppendEvent(r) \/ Answer(r)
              \/ \E s \in Slots : StreamStep(s)

FairSpec == Spec /\ WF_vars(SystemStep)

-----------------------------------------------------------------------------
(* Properties. *)

\* What the user sees is the journal of the session's run, event by event and
\* in order, through drops, reconnects and refreshes: nothing twice, and no gap
\* even when the journal is capped under a slow reader.  It may begin late only
\* if the journal had been capped.  This holds as long as no answer has met a
\* session that had moved on.
ViewComplete ==
  crossed = {} /\ view # Empty =>
    /\ view.run = runId /\ view.first \in 1..Oldest(runId)
    /\ controller # 0 => stream[controller].lastSeq = view.last

\* Each start whose answer meets a session that has moved on costs at most one
\* stream that nobody can abort; otherwise the session's own stream is the only
\* one, and a disposed session has none unless it was being resumed.
LeakBounded ==
  /\ Cardinality(Live \ {controller}) <= Cardinality(crossed \cap Runs)
  /\ disposed /\ Resumer \notin crossed => controller = 0

\* A run that streams can be resumed after a refresh, and a run that has
\* settled is not offered for it, as long as no answer has met a session that
\* had moved on.  Of the failures around the session only these are an excuse:
\* the store rejected the last cursor call for the run, so that the next event
\* sets it right; and, for a settled run, a subscriber threw out of the
\* settlement, so that its stream could go on and persist the cursor again.
CursorExact ==
  crossed = {} => /\ status = "streaming" => runId \in cursor \/ unstored
                  /\ status \in {"ready", "error"} /\ runId \in cursor => unstored \/ thrown

\* A busy session waits for its own start call, for a stop, or for a connection
\* that is open: except when a subscriber has thrown out of start or resume or
\* when what it waits for is never answered, there is always something that
\* will settle it, also after answers that have crossed it.
Attended ==
  status \in Busy /\ ~disposed /\ owner # Stranded =>
    \/ owner \in Runs /\ call[owner] = "pending"
    \/ owner = Stopper /\ \E r \in Runs : stopping[r] > 0
    \/ controller # 0 /\ stream[controller].phase = "open"

\* A session that has submitted or streams a run settles or is disposed of,
\* unless a fault strands it.
SessionSettles == status \in Busy ~> (status \notin Busy \/ disposed \/ owner = Stranded)
=============================================================================
