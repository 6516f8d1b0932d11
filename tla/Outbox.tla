------------------------------- MODULE Outbox -------------------------------
(***************************************************************************)
(* The offline outbox of the client (packages/client/src/outbox.ts): run    *)
(* starts and events wait in a storage that outlives the page, and flush    *)
(* replays them until the server takes them or the attempts are used up.    *)
(* Flushes overlap (attachAutoFlush starts one for every online event), the *)
(* page can be closed between any two operations on the storage, answers    *)
(* get lost and the storage fails.                                          *)
(*                                                                          *)
(* Items are numbered in the order of enqueuedAt.  Of nextAttemptAt the     *)
(* model keeps whether it lies in the future.                               *)
(***************************************************************************)
EXTENDS Integers

CONSTANTS NItems,        \* items that are ever enqueued
          Flushers,      \* flushes that may be under way at a time
          MaxAttempts,
          MaxFaults      \* bound on crashes and storage failures

ASSUME OutboxAssumption ==
  NItems \in Nat /\ MaxAttempts \in Nat \ {0} /\ MaxFaults \in Nat

VARIABLES count,       \* items enqueued so far
          pending,     \* item -> attempts in its entry, or Absent
          waiting,     \* items with an entry whose backoff has not elapsed
          dead,        \* items in the dead-letter queue
          pc,          \* flush -> idle, loop, sending, sent, failed, burying
          toRead,      \* flush -> keys that readAll has still to read
          copy,        \* flush -> item -> attempts in its copy, or Absent
          cur,         \* flush -> the item it is busy with
          accepted,    \* items the server has taken
          faults,      \* crashes and storage failures so far
          cleared,     \* history: items the user has cleared
          overlapped,  \* history: two flushes have been under way at once
          sends        \* history: item -> requests for it, while that is false

storage == <<pending, waiting, dead>>
history == <<sends, overlapped>>
vars == <<count, storage, pc, toRead, copy, cur, cleared, accepted, faults, history>>

Items  == 1..NItems
Absent == -1
Stored == {i \in Items : pending[i] # Absent}
Copied(f) == {i \in Items : copy[f][i] # Absent}

Init == /\ count = 0 /\ pending = [i \in Items |-> Absent] /\ waiting = {} /\ dead = {}
        /\ pc = [f \in Flushers |-> "idle"] /\ toRead = [f \in Flushers |-> {}]
        /\ copy = [f \in Flushers |-> [i \in Items |-> Absent]]
        /\ cur = [f \in Flushers |-> 0]
        /\ accepted = {} /\ faults = 0
        /\ cleared = {} /\ sends = [i \in Items |-> 0] /\ overlapped = FALSE

-----------------------------------------------------------------------------
(* enqueue, enqueueEvent and the clock. *)

Enqueue ==
  /\ count < NItems /\ count' = count + 1
  /\ pending' = [pending EXCEPT ![count + 1] = 0]
  /\ UNCHANGED <<waiting, dead, pc, toRead, copy, cur, cleared, accepted, faults, history>>

Elapse ==
  /\ \E i \in waiting : waiting' = waiting \ {i}
  /\ UNCHANGED <<count, pending, dead, pc, toRead, copy, cur, cleared, accepted, faults,
                 history>>

-----------------------------------------------------------------------------
(* flush. *)

\* The keys are listed first.
Flush(f) ==
  /\ pc[f] = "idle" /\ Stored # {} /\ pc' = [pc EXCEPT ![f] = "loop"]
  /\ toRead' = [toRead EXCEPT ![f] = Stored]
  /\ overlapped' = (overlapped \/ \E g \in Flushers \ {f} : pc[g] # "idle")
  /\ sends' = IF overlapped' THEN [i \in Items |-> 0] ELSE sends
  /\ UNCHANGED <<count, storage, copy, cur, cleared, accepted, faults>>

\* Then each entry is read that is still there.  One whose backoff lies ahead
\* is deferred: the loop will skip the copy.
ReadItem(f) ==
  /\ pc[f] = "loop"
  /\ \E i \in toRead[f] :
       /\ toRead' = [toRead EXCEPT ![f] = @ \ {i}]
       /\ copy' = IF i \in waiting THEN copy ELSE [copy EXCEPT ![f][i] = pending[i]]
  /\ UNCHANGED <<count, storage, pc, cur, cleared, accepted, faults, history>>

\* The oldest copy is taken, its attempt counted and the request made.
Send(f) ==
  /\ pc[f] = "loop" /\ toRead[f] = {}
  /\ \E i \in Copied(f) :
       /\ \A j \in Copied(f) : i <= j
       /\ cur' = [cur EXCEPT ![f] = i]
       /\ copy' = [copy EXCEPT ![f][i] = @ + 1]
       /\ sends' = IF overlapped THEN sends ELSE [sends EXCEPT ![i] = @ + 1]
  /\ pc' = [pc EXCEPT ![f] = "sending"]
  /\ UNCHANGED <<count, storage, toRead, cleared, accepted, faults, overlapped>>

Return(f) ==
  /\ pc[f] = "loop" /\ toRead[f] = {} /\ Copied(f) = {} /\ pc' = [pc EXCEPT ![f] = "idle"]
  /\ UNCHANGED <<count, storage, toRead, copy, cur, cleared, accepted, faults, history>>

Succeeds(f) ==
  /\ pc[f] = "sending" /\ pc' = [pc EXCEPT ![f] = "sent"]
  /\ accepted' = accepted \cup {cur[f]}
  /\ UNCHANGED <<count, storage, toRead, copy, cur, cleared, faults, history>>

\* The request or its answer is lost.
Fails(f) ==
  /\ pc[f] = "sending" /\ pc' = [pc EXCEPT ![f] = "failed"]
  /\ accepted' \in {accepted, accepted \cup {cur[f]}}
  /\ UNCHANGED <<count, storage, toRead, copy, cur, cleared, faults, history>>

\* The loop goes on with the next copy.
NextItem(f) == /\ pc' = [pc EXCEPT ![f] = "loop"]
               /\ copy' = [copy EXCEPT ![f][cur[f]] = Absent]
               /\ cur' = [cur EXCEPT ![f] = 0]
               /\ UNCHANGED <<count, toRead, cleared, accepted, faults, history>>

RemoveEntry(i) == pending' = [pending EXCEPT ![i] = Absent] /\ waiting' = waiting \ {i}

RemoveItem(f) ==
  /\ pc[f] = "sent" /\ RemoveEntry(cur[f]) /\ NextItem(f) /\ UNCHANGED dead

\* Mutant: the last attempt is written back as well.
WriteItemOffByOne(f) ==
  /\ pc[f] = "failed" /\ copy[f][cur[f]] <= MaxAttempts
  /\ pending' = [pending EXCEPT ![cur[f]] = copy[f][cur[f]]]
  /\ waiting' = waiting \cup {cur[f]} /\ NextItem(f) /\ UNCHANGED dead

\* Mutant: the entry keeps its old count.
WriteItemUncounted(f) ==
  /\ pc[f] = "failed" /\ copy[f][cur[f]] < MaxAttempts
  /\ pending' = [pending EXCEPT ![cur[f]] = copy[f][cur[f]] - 1]
  /\ waiting' = waiting \cup {cur[f]} /\ NextItem(f) /\ UNCHANGED dead

WriteItem(f) ==
  /\ pc[f] = "failed" /\ copy[f][cur[f]] < MaxAttempts
  /\ pending' = [pending EXCEPT ![cur[f]] = copy[f][cur[f]]]
  /\ waiting' = waiting \cup {cur[f]} /\ NextItem(f) /\ UNCHANGED dead

\* Mutant: the entry is removed before the dead letter is written.
DeadLetterAfterRemoval(f) ==
  /\ pc[f] = "failed" /\ copy[f][cur[f]] >= MaxAttempts
  /\ RemoveEntry(cur[f]) /\ pc' = [pc EXCEPT ![f] = "burying"]
  /\ UNCHANGED <<dead, count, toRead, copy, cur, cleared, accepted, faults, history>>

DeadLetter(f) ==
  /\ pc[f] = "failed" /\ copy[f][cur[f]] >= MaxAttempts
  /\ dead' = dead \cup {cur[f]} /\ pc' = [pc EXCEPT ![f] = "burying"]
  /\ UNCHANGED <<pending, waiting, count, toRead, copy, cur, cleared, accepted, faults, history>>

RemoveDead(f) ==
  /\ pc[f] = "burying" /\ RemoveEntry(cur[f]) /\ NextItem(f) /\ UNCHANGED dead

FlushStep(f) == \/ Flush(f) \/ ReadItem(f) \/ Send(f) \/ Return(f) \/ Succeeds(f) \/ Fails(f)
                \/ RemoveItem(f) \/ WriteItem(f) \/ DeadLetter(f) \/ RemoveDead(f)

-----------------------------------------------------------------------------
(* clear and clearDeadLetter remove one entry after the other, and anything *)
(* can happen in between: one action for each removal.                       *)

ClearItem ==
  /\ \E i \in Stored : RemoveEntry(i) /\ cleared' = cleared \cup {i}
  /\ UNCHANGED <<count, dead, pc, toRead, copy, cur, accepted, faults, history>>

ClearDeadItem ==
  /\ \E i \in dead : dead' = dead \ {i} /\ cleared' = cleared \cup {i}
  /\ UNCHANGED <<count, pending, waiting, pc, toRead, copy, cur, accepted, faults, history>>

-----------------------------------------------------------------------------
(* Faults. *)

\* The storage refuses an operation.  Behind a successful request that counts
\* as a failed attempt; elsewhere the flush is abandoned.
StorageFails(f) ==
  /\ faults < MaxFaults /\ faults' = faults + 1
  /\ \/ pc[f] = "sent" /\ pc' = [pc EXCEPT ![f] = "failed"] /\ UNCHANGED <<copy, cur>>
     \/ /\ pc[f] \in {"failed", "burying"} /\ pc' = [pc EXCEPT ![f] = "idle"]
        /\ copy' = [copy EXCEPT ![f] = [i \in Items |-> Absent]]
        /\ cur' = [cur EXCEPT ![f] = 0]
  /\ UNCHANGED <<count, storage, toRead, cleared, accepted, history>>

\* The page is closed: the storage stays.
Crash ==
  /\ faults < MaxFaults /\ faults' = faults + 1
  /\ pc' = [f \in Flushers |-> "idle"] /\ toRead' = [f \in Flushers |-> {}]
  /\ copy' = [f \in Flushers |-> [i \in Items |-> Absent]]
  /\ cur' = [f \in Flushers |-> 0]
  /\ UNCHANGED <<count, storage, cleared, accepted, history>>

Next == \/ Enqueue \/ Elapse
        \/ \E f \in Flushers : FlushStep(f)
        \/ ClearItem \/ ClearDeadItem
        \/ \E f \in Flushers : StorageFails(f)
        \/ Crash

Spec == Init /\ [][Next]_vars

\* Backoffs elapse, requests are answered or time out, and flush is called
\* again and again while there are items (the application, or the next online
\* event).
FairSpec == /\ Spec /\ WF_vars(Elapse)
            /\ \A f \in Flushers : WF_vars(FlushStep(f))

-----------------------------------------------------------------------------
(* Properties. *)

TypeOK ==
  /\ count \in 0..NItems /\ faults \in 0..MaxFaults /\ overlapped \in BOOLEAN
  /\ pending \in [Items -> Absent..MaxAttempts - 1]
  /\ waiting \subseteq Items /\ dead \subseteq Items
  /\ pc \in [Flushers -> {"idle", "loop", "sending", "sent", "failed", "burying"}]
  /\ toRead \in [Flushers -> SUBSET Items]
  /\ copy \in [Flushers -> [Items -> Absent..MaxAttempts]]
  /\ cur \in [Flushers -> 0..NItems]
  /\ accepted \subseteq Items /\ cleared \subseteq Items /\ sends \in [Items -> Nat]

\* Whatever overlaps, fails or crashes: an item that was enqueued has reached
\* the server, waits in the outbox, lies in the dead-letter queue, or was
\* cleared by the user.
NothingLost ==
  \A i \in 1..count : i \in Stored \cup dead \cup accepted \cup cleared

\* Flushes that never overlap make at most MaxAttempts requests for an item,
\* and one more for each crash or storage failure.
AttemptsBounded ==
  ~overlapped => \A i \in Items : sends[i] <= MaxAttempts + faults

\* The outbox empties for good.
Drains == <>[](Stored = {})
=============================================================================
