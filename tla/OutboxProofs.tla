---------------------------- MODULE OutboxProofs ----------------------------
(***************************************************************************)
(* Proofs about the offline outbox for any number of items, flushes,        *)
(* attempts and faults.  The invariant comes in three layers, each resting  *)
(* on the ones before: what the locals of a flush look like, where an item  *)
(* may be, and what the attempt counters say of the requests made.          *)
(***************************************************************************)
EXTENDS Outbox, TLAPS

Working == {"sending", "sent", "failed", "burying"}

\* A flush that works on an item has a copy of it with the attempt counted.
WorkHasCopy == \A f \in Flushers : pc[f] \in Working =>
  cur[f] \in Items /\ copy[f][cur[f]] >= 1

\* Only the copy that is being worked on can have all its attempts used up.
LastAttempt == \A f \in Flushers : \A i \in Items :
  copy[f][i] = MaxAttempts => pc[f] \in Working /\ cur[f] = i

\* A flush that is not under way has no copies.
IdleEmpty == \A f \in Flushers : pc[f] = "idle" => \A i \in Items : copy[f][i] = Absent

Shape == TypeOK /\ WorkHasCopy /\ LastAttempt /\ IdleEmpty

\* An item whose entry is about to be removed is safe elsewhere: the server
\* has it, or it is a dead letter unless the user has cleared that by now.
SentAccepted == \A f \in Flushers : pc[f] = "sent" => cur[f] \in accepted

BuriedDead == \A f \in Flushers : pc[f] = "burying" => cur[f] \in dead \cup cleared

Fate == SentAccepted /\ BuriedDead /\ NothingLost

\* Nothing is known of an item that has not been enqueued.
Unknown == \A i \in Items : i > count =>
  /\ sends[i] = 0 /\ pending[i] = Absent
  /\ \A f \in Flushers : i \notin toRead[f] /\ copy[f][i] = Absent

OneActive == ~overlapped =>
  \A f, g \in Flushers : pc[f] # "idle" /\ pc[g] # "idle" => f = g

\* A copy counts all requests but those a fault has made it forget.
CopyCounts == ~overlapped => \A f \in Flushers : \A i \in Items :
  copy[f][i] # Absent => sends[i] <= copy[f][i] + faults

\* An entry counts all requests but those and the one that is being made.
EntryCounts == ~overlapped => \A i \in Items : pending[i] # Absent =>
  \/ sends[i] <= pending[i] + faults
  \/ /\ sends[i] <= pending[i] + faults + 1
     /\ \E f \in Flushers : pc[f] \in Working /\ cur[f] = i

Counts == Unknown /\ OneActive /\ CopyCounts /\ EntryCounts /\ AttemptsBounded

IInv == Shape /\ Fate /\ Counts

-----------------------------------------------------------------------------
(* What each step of a flush does, one flush and one item at a time. *)

\* The locals of every flush but f stay as they are.
OthersKept(f) == \A g \in Flushers \ {f} :
  /\ pc'[g] = pc[g] /\ cur'[g] = cur[g] /\ toRead'[g] = toRead[g]
  /\ \A j \in Items : copy'[g][j] = copy[g][j]

\* The locals of f after a step.
Now(f, place, item) == pc'[f] = place /\ cur'[f] = item

\* One copy of one flush is overwritten.
LEMMA CopySet ==
  ASSUME TypeOK, NEW f \in Flushers, NEW i \in Items, NEW v \in Absent..MaxAttempts,
         copy' = [copy EXCEPT ![f][i] = v]
  PROVE  /\ copy' \in [Flushers -> [Items -> Absent..MaxAttempts]]
         /\ \A g \in Flushers \ {f}, j \in Items : copy'[g][j] = copy[g][j]
         /\ \A j \in Items : copy'[f][j] = IF j = i THEN v ELSE copy[f][j]
<1>1. copy \in [Flushers -> [Items -> Absent..MaxAttempts]]
  BY DEF TypeOK
<1>2. [copy[f] EXCEPT ![i] = v] \in [Items -> Absent..MaxAttempts]
  BY <1>1
<1>3. copy' = [copy EXCEPT ![f] = [copy[f] EXCEPT ![i] = v]]
  BY <1>1
<1> QED
  BY <1>1, <1>2, <1>3

\* Flush lists the keys.
LEMMA FlushEffect ==
  ASSUME TypeOK, NEW f \in Flushers, Flush(f)
  PROVE  /\ TypeOK' /\ OthersKept(f)
         /\ Now(f, "loop", cur[f]) /\ toRead'[f] = Stored
         /\ \A j \in Items : copy'[f][j] = copy[f][j]
<1>1. Stored \in SUBSET Items
  BY DEF Stored
<1>2. sends' \in [Items -> Nat] /\ overlapped' \in BOOLEAN
  BY DEF Flush, TypeOK
<1>3. TypeOK'
  BY <1>1, <1>2 DEF Flush, TypeOK, storage
<1> QED
  BY <1>3 DEF Flush, TypeOK, OthersKept, Now

\* A copy that is read carries the attempts of the entry.
LEMMA ReadEffect ==
  ASSUME TypeOK, NEW f \in Flushers, ReadItem(f)
  PROVE  /\ TypeOK' /\ OthersKept(f)
         /\ Now(f, "loop", cur[f]) /\ toRead'[f] \subseteq toRead[f]
         /\ \A j \in Items : \/ copy'[f][j] = copy[f][j]
                             \/ j \in toRead[f] /\ copy'[f][j] = pending[j]
<1>1. PICK i \in toRead[f] :
        /\ toRead' = [toRead EXCEPT ![f] = @ \ {i}]
        /\ copy' = IF i \in waiting THEN copy ELSE [copy EXCEPT ![f][i] = pending[i]]
  BY DEF ReadItem
<1>2. i \in Items /\ pending[i] \in Absent..MaxAttempts
  BY <1>1, OutboxAssumption DEF TypeOK, Absent
<1>3. /\ copy' \in [Flushers -> [Items -> Absent..MaxAttempts]]
      /\ \A g \in Flushers \ {f}, j \in Items : copy'[g][j] = copy[g][j]
      /\ \A j \in Items : \/ copy'[f][j] = copy[f][j]
                          \/ j \in toRead[f] /\ copy'[f][j] = pending[j]
  <2>1. CASE i \in waiting
    BY <1>1, <2>1 DEF TypeOK
  <2>2. CASE i \notin waiting
    BY <1>1, <1>2, <2>2, CopySet
  <2> QED
    BY <2>1, <2>2
<1>4. TypeOK'
  BY <1>1, <1>3 DEF ReadItem, TypeOK, storage, history
<1> QED
  BY <1>1, <1>3, <1>4 DEF ReadItem, TypeOK, OthersKept, Now

\* A request counts in the copy, and in the history while flushes do not
\* overlap.
LEMMA SendEffect ==
  ASSUME Shape, NEW f \in Flushers, Send(f)
  PROVE  /\ TypeOK' /\ OthersKept(f) /\ toRead'[f] = toRead[f]
         /\ \E i \in Items :
              /\ Now(f, "sending", i)
              /\ copy[f][i] >= 0 /\ copy'[f][i] = copy[f][i] + 1 /\ copy[f][i] < MaxAttempts
              /\ \A j \in Items \ {i} : copy'[f][j] = copy[f][j] /\ sends'[j] = sends[j]
              /\ sends'[i] = IF overlapped THEN sends[i] ELSE sends[i] + 1
<1>1. PICK i \in Copied(f) :
        /\ cur' = [cur EXCEPT ![f] = i]
        /\ copy' = [copy EXCEPT ![f][i] = @ + 1]
        /\ sends' = IF overlapped THEN sends ELSE [sends EXCEPT ![i] = @ + 1]
  BY DEF Send
<1>2. i \in Items /\ copy[f][i] \in Absent..MaxAttempts /\ copy[f][i] # Absent
  BY <1>1 DEF Copied, Shape, TypeOK
<1>3. copy[f][i] # MaxAttempts
  BY <1>2 DEF Send, Shape, LastAttempt, Working
<1>4. copy[f][i] \in Int /\ copy[f][i] >= 0 /\ copy[f][i] < MaxAttempts
  BY <1>2, <1>3, OutboxAssumption DEF Absent
<1>5. copy[f][i] + 1 \in Absent..MaxAttempts
  BY <1>4, OutboxAssumption DEF Absent
<1>6. copy' = [copy EXCEPT ![f][i] = copy[f][i] + 1]
  BY <1>1
<1>7. /\ copy' \in [Flushers -> [Items -> Absent..MaxAttempts]]
      /\ \A g \in Flushers \ {f}, j \in Items : copy'[g][j] = copy[g][j]
      /\ \A j \in Items : copy'[f][j] = IF j = i THEN copy[f][i] + 1 ELSE copy[f][j]
  BY <1>2, <1>5, <1>6, CopySet DEF Shape
<1>8. cur' \in [Flushers -> 0..NItems] /\ sends' \in [Items -> Nat]
  <2>1. i \in 0..NItems
    BY <1>2, OutboxAssumption DEF Items
  <2>2. cur' \in [Flushers -> 0..NItems]
    BY <1>1, <2>1 DEF Shape, TypeOK
  <2>3. sends' \in [Items -> Nat]
    BY <1>1, <1>2 DEF Shape, TypeOK
  <2> QED
    BY <2>2, <2>3
<1>9. TypeOK'
  BY <1>7, <1>8 DEF Send, Shape, TypeOK, storage
<1>10. OthersKept(f) /\ Now(f, "sending", i) /\ toRead'[f] = toRead[f]
  BY <1>1, <1>7 DEF Send, Shape, TypeOK, OthersKept, Now
<1>11. /\ \A j \in Items \ {i} : sends'[j] = sends[j]
       /\ sends'[i] = IF overlapped THEN sends[i] ELSE sends[i] + 1
  BY <1>1, <1>2 DEF Shape, TypeOK
<1> QED
  BY <1>2, <1>4, <1>7, <1>9, <1>10, <1>11

\* The answers, the dead letter and the end of the loop only move the flush.
LEMMA AnswerEffect ==
  ASSUME Shape, NEW f \in Flushers,
         Return(f) \/ Succeeds(f) \/ Fails(f) \/ DeadLetter(f)
  PROVE  /\ TypeOK' /\ OthersKept(f)
         /\ cur'[f] = cur[f] /\ toRead'[f] = toRead[f]
         /\ \A j \in Items : copy'[f][j] = copy[f][j]
<1>1. pc[f] # "loop" => cur[f] \in Items
  BY DEF Return, Succeeds, Fails, DeadLetter, Shape, WorkHasCopy, Working
<1>2. accepted' \subseteq Items /\ dead' \subseteq Items
  BY <1>1 DEF Return, Succeeds, Fails, DeadLetter, Shape, TypeOK, storage
<1>3. /\ pc' \in [Flushers -> {"idle", "loop", "sending", "sent", "failed", "burying"}]
      /\ \A g \in Flushers \ {f} : pc'[g] = pc[g]
  BY DEF Return, Succeeds, Fails, DeadLetter, Shape, TypeOK
<1>4. UNCHANGED <<count, pending, waiting, toRead, copy, cur, cleared, faults, history>>
  BY DEF Return, Succeeds, Fails, DeadLetter, storage
<1> QED
  BY <1>2, <1>3, <1>4 DEF Shape, TypeOK, OthersKept, history

\* Done with its item, a flush has no copy of it any more.
LEMMA DoneEffect ==
  ASSUME Shape, NEW f \in Flushers,
         RemoveItem(f) \/ WriteItem(f) \/ RemoveDead(f)
  PROVE  /\ TypeOK' /\ OthersKept(f)
         /\ cur[f] \in Items /\ Now(f, "loop", 0) /\ toRead'[f] = toRead[f]
         /\ \A j \in Items : copy'[f][j] = IF j = cur[f] THEN Absent ELSE copy[f][j]
         /\ \A j \in Items \ {cur[f]} : pending'[j] = pending[j]
         /\ pending'[cur[f]] = IF WriteItem(f) THEN copy[f][cur[f]] ELSE Absent
<1>1. pc[f] \in Working /\ NextItem(f) /\ UNCHANGED dead
  BY DEF RemoveItem, WriteItem, RemoveDead, Working
<1>2. cur[f] \in Items /\ Absent \in Absent..MaxAttempts /\ copy[f][cur[f]] >= 1
  BY <1>1, OutboxAssumption DEF Shape, WorkHasCopy, Absent
<1>3. /\ copy' \in [Flushers -> [Items -> Absent..MaxAttempts]]
      /\ \A g \in Flushers \ {f}, j \in Items : copy'[g][j] = copy[g][j]
      /\ \A j \in Items : copy'[f][j] = IF j = cur[f] THEN Absent ELSE copy[f][j]
  BY <1>1, <1>2, CopySet DEF NextItem, Shape
<1>4. /\ pending' \in [Items -> Absent..MaxAttempts - 1] /\ waiting' \subseteq Items
      /\ \A j \in Items \ {cur[f]} : pending'[j] = pending[j]
      /\ pending'[cur[f]] = IF WriteItem(f) THEN copy[f][cur[f]] ELSE Absent
  <2>1. CASE WriteItem(f)
    <3>1. copy[f][cur[f]] \in Absent..MaxAttempts - 1
      BY <1>2, <2>1, OutboxAssumption DEF WriteItem, Shape, TypeOK, Absent
    <3> QED
      BY <1>2, <2>1, <3>1 DEF WriteItem, Shape, TypeOK
  <2>2. CASE ~WriteItem(f)
    <3>1. Absent \in Absent..MaxAttempts - 1
      BY OutboxAssumption DEF Absent
    <3>2. RemoveEntry(cur[f])
      BY <2>2 DEF RemoveItem, RemoveDead
    <3> QED
      BY <1>2, <2>2, <3>1, <3>2 DEF RemoveEntry, Shape, TypeOK
  <2> QED
    BY <2>1, <2>2
<1>5. 0 \in 0..NItems
  BY OutboxAssumption
<1>6. TypeOK'
  BY <1>1, <1>3, <1>4, <1>5 DEF NextItem, Shape, TypeOK, history
<1> QED
  BY <1>1, <1>2, <1>3, <1>4, <1>6 DEF NextItem, Shape, TypeOK, OthersKept, Now

\* A refused write abandons the flush, or fails the attempt behind a request
\* that succeeded.
LEMMA StorageFailsEffect ==
  ASSUME Shape, NEW f \in Flushers, StorageFails(f)
  PROVE  /\ TypeOK' /\ OthersKept(f) /\ toRead'[f] = toRead[f] /\ faults' = faults + 1
         /\ \/ /\ pc[f] = "sent" /\ Now(f, "failed", cur[f])
               /\ \A j \in Items : copy'[f][j] = copy[f][j]
            \/ Now(f, "idle", 0) /\ \A j \in Items : copy'[f][j] = Absent
<1>1. UNCHANGED <<count, pending, waiting, dead, toRead, accepted, cleared, history>>
  BY DEF StorageFails, storage
<1>2. faults' = faults + 1 /\ faults' \in 0..MaxFaults
  BY OutboxAssumption DEF StorageFails, Shape, TypeOK
<1>3. CASE pc[f] = "sent" /\ pc' = [pc EXCEPT ![f] = "failed"] /\ UNCHANGED <<copy, cur>>
  BY <1>1, <1>2, <1>3 DEF Shape, TypeOK, OthersKept, Now, history
<1>4. CASE /\ pc' = [pc EXCEPT ![f] = "idle"]
           /\ copy' = [copy EXCEPT ![f] = [i \in Items |-> Absent]]
           /\ cur' = [cur EXCEPT ![f] = 0]
  <2>1. 0 \in 0..NItems /\ Absent \in Absent..MaxAttempts
    BY OutboxAssumption DEF Absent
  <2>2. [i \in Items |-> Absent] \in [Items -> Absent..MaxAttempts]
    BY <2>1
  <2>3. TypeOK'
    BY <1>1, <1>2, <1>4, <2>1, <2>2 DEF Shape, TypeOK, history
  <2> QED
    BY <1>1, <1>2, <1>4, <2>3 DEF Shape, TypeOK, OthersKept, Now
<1> QED
  BY <1>3, <1>4 DEF StorageFails

-----------------------------------------------------------------------------
(* The shape of the state. *)

\* A step of one flush keeps the shape when it does so for its own locals.
LEMMA LocalShape ==
  ASSUME Shape, TypeOK', NEW f \in Flushers, OthersKept(f),
         pc'[f] \in Working => cur'[f] \in Items /\ copy'[f][cur'[f]] >= 1,
         \A i \in Items : copy'[f][i] = MaxAttempts => pc'[f] \in Working /\ cur'[f] = i,
         pc'[f] = "idle" => \A i \in Items : copy'[f][i] = Absent
  PROVE  Shape'
<1>1. WorkHasCopy'
  <2>1. ASSUME NEW g \in Flushers, g # f, pc'[g] \in Working
        PROVE  cur'[g] \in Items /\ copy'[g][cur'[g]] >= 1
    BY <2>1 DEF Shape, WorkHasCopy, OthersKept
  <2> QED
    BY <2>1 DEF WorkHasCopy
<1>2. LastAttempt'
  <2>1. ASSUME NEW g \in Flushers, g # f, NEW i \in Items, copy'[g][i] = MaxAttempts
        PROVE  pc'[g] \in Working /\ cur'[g] = i
    BY <2>1 DEF Shape, LastAttempt, OthersKept
  <2> QED
    BY <2>1 DEF LastAttempt
<1>3. IdleEmpty'
  BY DEF Shape, IdleEmpty, OthersKept
<1> QED
  BY <1>1, <1>2, <1>3 DEF Shape

\* Every step keeps the state well typed and no copy more than one attempt
\* ahead of the entry it was read from.
LEMMA ShapeKept ==
  ASSUME Shape, [Next]_vars
  PROVE  Shape'
<1>1. ASSUME NEW f \in Flushers, Flush(f)
      PROVE  Shape'
  BY <1>1, FlushEffect, LocalShape DEF Flush, Shape, LastAttempt, Now, Working
<1>2. ASSUME NEW f \in Flushers, ReadItem(f)
      PROVE  Shape'
  <2>1. \A j \in Items : pending[j] # MaxAttempts
    BY OutboxAssumption DEF Shape, TypeOK, Absent
  <2>2. \A j \in Items : copy[f][j] # MaxAttempts
    BY <1>2 DEF ReadItem, Shape, LastAttempt, Working
  <2>3. \A j \in Items : copy'[f][j] # MaxAttempts
    BY <1>2, <2>1, <2>2, ReadEffect DEF Shape
  <2> QED
    BY <1>2, <2>3, ReadEffect, LocalShape DEF Shape, Now, Working
<1>3. ASSUME NEW f \in Flushers, Send(f)
      PROVE  Shape'
  <2>1. PICK i \in Items :
          /\ TypeOK' /\ OthersKept(f) /\ Now(f, "sending", i)
          /\ copy[f][i] >= 0 /\ copy'[f][i] = copy[f][i] + 1
          /\ \A j \in Items \ {i} : copy'[f][j] = copy[f][j]
    BY <1>3, SendEffect
  <2>2. copy'[f][i] >= 1
    BY <2>1 DEF Shape, TypeOK, Absent
  <2>3. \A j \in Items \ {i} : copy'[f][j] # MaxAttempts
    BY <1>3, <2>1 DEF Send, Shape, LastAttempt, Working
  <2> QED
    BY <2>1, <2>2, <2>3, LocalShape DEF Now, Working
<1>4. ASSUME NEW f \in Flushers, Return(f)
      PROVE  Shape'
  <2>1. pc[f] = "loop" /\ pc'[f] = "idle" /\ \A i \in Items : copy[f][i] = Absent
    BY <1>4 DEF Return, Copied, Shape, TypeOK
  <2> QED
    BY <1>4, <2>1, AnswerEffect, LocalShape DEF Shape, LastAttempt, Working
<1>5. ASSUME NEW f \in Flushers, Succeeds(f) \/ Fails(f) \/ DeadLetter(f)
      PROVE  Shape'
  <2>1. pc[f] \in Working /\ pc'[f] \in Working /\ pc'[f] # "idle"
    BY <1>5 DEF Succeeds, Fails, DeadLetter, Shape, TypeOK, Working
  <2> QED
    BY <1>5, <2>1, AnswerEffect, LocalShape DEF Shape, WorkHasCopy, LastAttempt
<1>6. ASSUME NEW f \in Flushers, RemoveItem(f) \/ WriteItem(f) \/ RemoveDead(f)
      PROVE  Shape'
  <2>1. Absent # MaxAttempts
    BY OutboxAssumption DEF Absent
  <2> QED
    BY <1>6, <2>1, DoneEffect, LocalShape DEF Shape, LastAttempt, Now, Working
<1>7. ASSUME NEW f \in Flushers, StorageFails(f)
      PROVE  Shape'
  <2>1. Absent # MaxAttempts
    BY OutboxAssumption DEF Absent
  <2>2. TypeOK' /\ OthersKept(f)
    BY <1>7, StorageFailsEffect
  <2>3. CASE /\ pc[f] = "sent" /\ Now(f, "failed", cur[f])
             /\ \A j \in Items : copy'[f][j] = copy[f][j]
    BY <2>2, <2>3, LocalShape DEF Shape, WorkHasCopy, LastAttempt, Now, Working
  <2>4. CASE Now(f, "idle", 0) /\ \A j \in Items : copy'[f][j] = Absent
    BY <2>1, <2>2, <2>4, LocalShape DEF Now, Working
  <2> QED
    BY <1>7, <2>3, <2>4, StorageFailsEffect
<1>8. CASE Crash
  <2>1. Absent # MaxAttempts /\ Absent \in Absent..MaxAttempts /\ 0 \in 0..NItems
    BY OutboxAssumption DEF Absent
  <2>2. TypeOK'
    BY <1>8, <2>1, OutboxAssumption DEF Crash, Shape, TypeOK, storage, history
  <2>3. \A g \in Flushers : pc'[g] = "idle" /\ \A j \in Items : copy'[g][j] = Absent
    BY <1>8 DEF Crash
  <2> QED
    BY <2>1, <2>2, <2>3 DEF Shape, WorkHasCopy, LastAttempt, IdleEmpty, Working
<1>9. CASE Enqueue \/ Elapse \/ ClearItem \/ ClearDeadItem \/ UNCHANGED vars
  <2>1. UNCHANGED <<pc, copy, cur, toRead, accepted, faults, history>>
    BY <1>9 DEF Enqueue, Elapse, ClearItem, ClearDeadItem, vars
  <2>2. /\ count' \in 0..NItems /\ pending' \in [Items -> Absent..MaxAttempts - 1]
        /\ waiting' \subseteq Items /\ dead' \subseteq Items /\ cleared' \subseteq Items
    <3>1. 0 \in Absent..MaxAttempts - 1 /\ Absent \in Absent..MaxAttempts - 1
      BY OutboxAssumption DEF Absent
    <3>2. CASE Enqueue
      <4>1. count + 1 \in Items /\ count + 1 \in 0..NItems
        BY <3>2, OutboxAssumption DEF Enqueue, Shape, TypeOK, Items
      <4> QED
        BY <3>1, <3>2, <4>1 DEF Enqueue, Shape, TypeOK
    <3>3. CASE Elapse
      BY <3>3 DEF Elapse, Shape, TypeOK
    <3>4. CASE ClearItem
      BY <3>1, <3>4 DEF ClearItem, RemoveEntry, Stored, Shape, TypeOK
    <3>5. CASE ClearDeadItem
      BY <3>5 DEF ClearDeadItem, Shape, TypeOK
    <3>6. CASE UNCHANGED vars
      BY <3>6 DEF vars, storage, Shape, TypeOK
    <3> QED
      BY <1>9, <3>2, <3>3, <3>4, <3>5, <3>6
  <2> QED
    BY <2>1, <2>2 DEF Shape, TypeOK, WorkHasCopy, LastAttempt, IdleEmpty, history
<1> QED
  BY <1>1, <1>2, <1>3, <1>4, <1>5, <1>6, <1>7, <1>8, <1>9 DEF Next, FlushStep

-----------------------------------------------------------------------------
(* Where an item may be. *)

\* A step after which everything an item could be found in holds at least
\* what it held, cleared letters included, loses no item.
LEMMA NoneLost ==
  ASSUME NothingLost, UNCHANGED count, accepted \subseteq accepted', cleared \subseteq cleared',
         dead \subseteq dead' \cup cleared',
         \A i \in Stored : i \in Stored' \cup dead' \cup accepted' \cup cleared'
  PROVE  NothingLost'
<1> SUFFICES ASSUME NEW i \in 1..count
             PROVE  i \in Stored' \cup dead' \cup accepted' \cup cleared'
  BY DEF NothingLost
<1>1. i \in Stored \cup dead \cup accepted \cup cleared
  BY DEF NothingLost
<1> QED
  BY <1>1

\* A step of one flush that loses nothing keeps the promises about what may
\* be removed when it does so for its own item.
LEMMA LocalFate ==
  ASSUME Fate, NEW f \in Flushers, OthersKept(f), NothingLost',
         accepted \subseteq accepted', dead \cup cleared \subseteq dead' \cup cleared',
         pc'[f] = "sent" => cur'[f] \in accepted',
         pc'[f] = "burying" => cur'[f] \in dead' \cup cleared'
  PROVE  Fate'
<1>1. SentAccepted'
  BY DEF Fate, SentAccepted, OthersKept
<1>2. BuriedDead'
  BY DEF Fate, BuriedDead, OthersKept
<1> QED
  BY <1>1, <1>2 DEF Fate

\* No step loses an item: an entry is removed only after the server has the
\* item, a dead letter for it has been written, or the user clears it.
LEMMA FateKept ==
  ASSUME Shape, Fate, [Next]_vars
  PROVE  Fate'
<1>1. ASSUME NEW f \in Flushers, Flush(f) \/ ReadItem(f) \/ Send(f)
      PROVE  Fate'
  <2>1. UNCHANGED <<count, pending, dead, accepted, cleared>>
    BY <1>1 DEF Flush, ReadItem, Send, storage
  <2>2. NothingLost'
    BY <2>1, NoneLost DEF Fate, Stored
  <2>3. OthersKept(f) /\ pc'[f] \in {"loop", "sending"}
    BY <1>1, FlushEffect, ReadEffect, SendEffect DEF Shape, Now
  <2> QED
    BY <2>1, <2>2, <2>3, LocalFate
<1>2. ASSUME NEW f \in Flushers, Return(f) \/ Succeeds(f) \/ Fails(f) \/ DeadLetter(f)
      PROVE  Fate'
  <2>1. /\ UNCHANGED <<count, pending, cleared>>
        /\ accepted \subseteq accepted' /\ dead \subseteq dead'
    BY <1>2 DEF Return, Succeeds, Fails, DeadLetter, storage
  <2>2. NothingLost'
    BY <2>1, NoneLost DEF Fate, Stored
  <2>3. OthersKept(f) /\ cur'[f] = cur[f]
    BY <1>2, AnswerEffect
  <2>4. /\ pc'[f] = "sent" => cur[f] \in accepted'
        /\ pc'[f] = "burying" => cur[f] \in dead'
    BY <1>2 DEF Return, Succeeds, Fails, DeadLetter, Shape, TypeOK
  <2> QED
    BY <2>1, <2>2, <2>3, <2>4, LocalFate
<1>3. ASSUME NEW f \in Flushers, RemoveItem(f) \/ WriteItem(f) \/ RemoveDead(f)
      PROVE  Fate'
  <2>1. UNCHANGED <<count, dead, accepted, cleared>>
    BY <1>3 DEF RemoveItem, WriteItem, RemoveDead, NextItem
  <2>2. cur[f] \in Items /\ OthersKept(f) /\ pc'[f] = "loop"
    BY <1>3, DoneEffect DEF Now
  <2>3. \A i \in Stored \ {cur[f]} : i \in Stored'
    BY <1>3, DoneEffect DEF Stored
  <2>4. cur[f] \in Stored' \cup dead \cup accepted \cup cleared
    <3>1. CASE WriteItem(f)
      <4>1. copy[f][cur[f]] # Absent
        BY <3>1, OutboxAssumption DEF WriteItem, Shape, TypeOK, WorkHasCopy, Working, Absent
      <4> QED
        BY <2>2, <3>1, <4>1, DoneEffect DEF Stored
    <3>2. CASE RemoveItem(f) \/ RemoveDead(f)
      BY <3>2 DEF RemoveItem, RemoveDead, Fate, SentAccepted, BuriedDead
    <3> QED
      BY <1>3, <3>1, <3>2
  <2>5. NothingLost'
    BY <2>1, <2>3, <2>4, NoneLost DEF Fate
  <2> QED
    BY <2>1, <2>2, <2>5, LocalFate
<1>4. ASSUME NEW f \in Flushers, StorageFails(f)
      PROVE  Fate'
  <2>1. UNCHANGED <<count, pending, dead, accepted, cleared>>
    BY <1>4 DEF StorageFails, storage
  <2>2. NothingLost'
    BY <2>1, NoneLost DEF Fate, Stored
  <2>3. OthersKept(f) /\ pc'[f] \in {"failed", "idle"}
    BY <1>4, StorageFailsEffect DEF Now
  <2> QED
    BY <2>1, <2>2, <2>3, LocalFate
<1>5. CASE Crash
  <2>1. UNCHANGED <<count, pending, dead, accepted, cleared>>
    BY <1>5 DEF Crash, storage
  <2>2. NothingLost'
    BY <2>1, NoneLost DEF Fate, Stored
  <2> QED
    BY <1>5, <2>2 DEF Crash, Fate, SentAccepted, BuriedDead
<1>6. CASE Enqueue
  <2>1. count \in Nat /\ count + 1 \in Items
    BY <1>6, OutboxAssumption DEF Enqueue, Shape, TypeOK, Items
  <2>2. Stored' = Stored \cup {count + 1}
    BY <1>6, <2>1 DEF Enqueue, Stored, Shape, TypeOK, Absent
  <2>3. NothingLost'
    BY <1>6, <2>1, <2>2 DEF Enqueue, Fate, NothingLost
  <2> QED
    BY <1>6, <2>3 DEF Enqueue, Fate, SentAccepted, BuriedDead
<1>7. CASE Elapse \/ UNCHANGED vars
  BY <1>7 DEF Elapse, vars, storage, Fate, SentAccepted, BuriedDead, NothingLost, Stored
<1>8. CASE ClearItem
  <2>1. PICK i \in Stored : RemoveEntry(i) /\ cleared' = cleared \cup {i}
    BY <1>8 DEF ClearItem
  <2>2. \A j \in Stored : j = i \/ j \in Stored'
    BY <2>1 DEF RemoveEntry, Stored, Shape, TypeOK
  <2>3. UNCHANGED <<count, dead, accepted, pc, cur>>
    BY <1>8 DEF ClearItem
  <2>4. NothingLost'
    BY <2>1, <2>2, <2>3, NoneLost DEF Fate
  <2> QED
    BY <2>1, <2>3, <2>4 DEF Fate, SentAccepted, BuriedDead
<1>9. CASE ClearDeadItem
  <2>1. PICK i \in dead : dead' = dead \ {i} /\ cleared' = cleared \cup {i}
    BY <1>9 DEF ClearDeadItem
  <2>2. UNCHANGED <<count, pending, accepted, pc, cur>>
    BY <1>9 DEF ClearDeadItem
  <2>3. NothingLost'
    BY <2>1, <2>2, NoneLost DEF Fate, Stored
  <2> QED
    BY <2>1, <2>2, <2>3 DEF Fate, SentAccepted, BuriedDead
<1> QED
  BY <1>1, <1>2, <1>3, <1>4, <1>5, <1>6, <1>7, <1>8, <1>9 DEF Next, FlushStep

-----------------------------------------------------------------------------
(* What the counters say of the requests made. *)

\* While flushes do not overlap, a flush under way is alone: nobody else
\* works on an item.
LEMMA Alone ==
  ASSUME Counts, ~overlapped, NEW f \in Flushers, pc[f] # "idle",
         NEW g \in Flushers, pc[g] \in Working
  PROVE  g = f
BY DEF Counts, OneActive, Working

\* A step of f that starts no flush keeps flushes apart.
LEMMA StillAlone ==
  ASSUME Counts, NEW f \in Flushers, OthersKept(f), pc[f] # "idle", UNCHANGED overlapped
  PROVE  OneActive'
BY DEF Counts, OneActive, OthersKept

\* A step of f that reads nothing new keeps the items unknown that are so.
LEMMA StillUnknown ==
  ASSUME Counts, NEW f \in Flushers, OthersKept(f), UNCHANGED <<count, sends>>,
         toRead'[f] \subseteq toRead[f],
         \A j \in Items : copy'[f][j] \in {copy[f][j], Absent},
         \A j \in Items : pending[j] = Absent /\ copy[f][j] = Absent => pending'[j] = Absent
  PROVE  Unknown'
<1> SUFFICES ASSUME NEW i \in Items, i > count
             PROVE  /\ sends[i] = 0 /\ pending'[i] = Absent
                    /\ \A g \in Flushers : i \notin toRead'[g] /\ copy'[g][i] = Absent
  BY DEF Unknown
<1>1. /\ sends[i] = 0 /\ pending[i] = Absent
      /\ \A g \in Flushers : i \notin toRead[g] /\ copy[g][i] = Absent
  BY DEF Counts, Unknown
<1> QED
  BY <1>1 DEF OthersKept

\* A step that makes no request and touches no copy or entry but to forget it
\* keeps the counts, as long as a flush that works on an item goes on with it
\* or the step is a fault.
LEMMA StillCounted ==
  ASSUME Shape, Counts, faults' \in {faults, faults + 1}, UNCHANGED <<overlapped, sends>>,
         \A g \in Flushers, j \in Items : copy'[g][j] \in {copy[g][j], Absent},
         \A j \in Items : pending'[j] \in {pending[j], Absent},
         \/ faults' = faults + 1
         \/ \A g \in Flushers : pc[g] \in Working => pc'[g] \in Working /\ cur'[g] = cur[g]
  PROVE  CopyCounts' /\ EntryCounts' /\ AttemptsBounded'
<1>1. faults \in Nat /\ \A j \in Items : sends[j] \in Nat /\ pending[j] \in Int
  BY OutboxAssumption DEF Shape, TypeOK, Absent
<1>2. \A g \in Flushers, j \in Items : copy[g][j] \in Int
  BY OutboxAssumption DEF Shape, TypeOK, Absent
<1>3. CopyCounts'
  BY <1>1, <1>2 DEF Counts, CopyCounts
<1>4. EntryCounts'
  <2> SUFFICES ASSUME ~overlapped, NEW i \in Items, pending'[i] # Absent
               PROVE  \/ sends[i] <= pending'[i] + faults'
                      \/ /\ sends[i] <= pending'[i] + faults' + 1
                         /\ \E g \in Flushers : pc'[g] \in Working /\ cur'[g] = i
    BY DEF EntryCounts
  <2>1. /\ pending'[i] = pending[i]
        /\ \/ sends[i] <= pending[i] + faults
           \/ /\ sends[i] <= pending[i] + faults + 1
              /\ \E g \in Flushers : pc[g] \in Working /\ cur[g] = i
    BY DEF Counts, EntryCounts
  <2>2. CASE faults' = faults + 1
    BY <1>1, <2>1, <2>2
  <2>3. CASE /\ faults' = faults
             /\ \A g \in Flushers : pc[g] \in Working => pc'[g] \in Working /\ cur'[g] = cur[g]
    BY <2>1, <2>3
  <2> QED
    BY <2>2, <2>3
<1>5. AttemptsBounded'
  BY <1>1, OutboxAssumption DEF Counts, AttemptsBounded
<1> QED
  BY <1>3, <1>4, <1>5

\* Every step keeps the counts: an attempt is counted in the copy before the
\* request, in the entry after it, and only a fault makes them forget one.
LEMMA CountsKept ==
  ASSUME Shape, Counts, [Next]_vars
  PROVE  Counts'
<1>1. ASSUME NEW f \in Flushers, Flush(f)
      PROVE  Counts'
  <2>1. /\ OthersKept(f) /\ Now(f, "loop", cur[f]) /\ toRead'[f] = Stored
        /\ \A j \in Items : copy'[f][j] = copy[f][j]
    BY <1>1, FlushEffect DEF Shape
  <2>2. /\ UNCHANGED <<count, pending, faults, copy>>
        /\ ~overlapped' => ~overlapped /\ sends' = sends /\ \A g \in Flushers \ {f} : pc[g] = "idle"
        /\ \A j \in Items : sends'[j] = 0 \/ sends' = sends
    BY <1>1 DEF Flush, storage
  <2>3. Unknown'
    BY <2>1, <2>2 DEF Counts, Unknown, OthersKept, Stored
  <2>4. OneActive'
    BY <2>1, <2>2 DEF OneActive, OthersKept
  <2>5. CASE overlapped'
    BY <2>3, <2>4, <2>5 DEF Counts, CopyCounts, EntryCounts, AttemptsBounded
  <2>6. CASE ~overlapped'
    <3>1. \A g \in Flushers : pc[g] \in Working => pc'[g] \in Working /\ cur'[g] = cur[g]
      BY <1>1, <2>1 DEF Flush, Working, OthersKept
    <3>2. overlapped' \in BOOLEAN /\ overlapped \in BOOLEAN
      BY <1>1, FlushEffect DEF Shape, TypeOK
    <3>3. UNCHANGED overlapped
      BY <2>2, <2>6, <3>2
    <3>4. CopyCounts' /\ EntryCounts' /\ AttemptsBounded'
      BY <2>2, <2>6, <3>1, <3>3, StillCounted
    <3> QED
      BY <2>3, <2>4, <3>4 DEF Counts
  <2> QED
    BY <2>5, <2>6
<1>2. ASSUME NEW f \in Flushers, ReadItem(f)
      PROVE  Counts'
  <2>1. /\ OthersKept(f) /\ Now(f, "loop", cur[f]) /\ toRead'[f] \subseteq toRead[f]
        /\ \A j \in Items : \/ copy'[f][j] = copy[f][j]
                            \/ j \in toRead[f] /\ copy'[f][j] = pending[j]
    BY <1>2, ReadEffect DEF Shape
  <2>2. UNCHANGED <<count, pending, faults, pc, cur, overlapped, sends>> /\ pc[f] = "loop"
    BY <1>2 DEF ReadItem, storage, history
  <2>3. Unknown'
    BY <2>1, <2>2 DEF Counts, Unknown, OthersKept
  <2>4. ~overlapped => \A g \in Flushers : pc[g] \notin Working
    BY <2>2, Alone DEF Working
  <2>5. CopyCounts'
    <3> SUFFICES ASSUME ~overlapped, NEW g \in Flushers, NEW j \in Items, copy'[g][j] # Absent
                 PROVE  sends[j] <= copy'[g][j] + faults
      BY <2>2 DEF CopyCounts
    <3>1. CASE copy'[g][j] = copy[g][j]
      BY <3>1 DEF Counts, CopyCounts
    <3>2. CASE copy'[g][j] = pending[j]
      BY <2>4, <3>2 DEF Counts, EntryCounts
    <3> QED
      BY <2>1, <3>1, <3>2 DEF OthersKept
  <2>6. OneActive' /\ EntryCounts' /\ AttemptsBounded'
    BY <2>2 DEF Counts, OneActive, EntryCounts, AttemptsBounded
  <2> QED
    BY <2>3, <2>5, <2>6 DEF Counts
<1>3. ASSUME NEW f \in Flushers, Send(f)
      PROVE  Counts'
  <2>1. OthersKept(f) /\ toRead'[f] = toRead[f] /\ TypeOK'
    BY <1>3, SendEffect
  <2>2. PICK i \in Items :
          /\ Now(f, "sending", i)
          /\ copy[f][i] >= 0 /\ copy'[f][i] = copy[f][i] + 1 /\ copy[f][i] < MaxAttempts
          /\ \A j \in Items \ {i} : copy'[f][j] = copy[f][j] /\ sends'[j] = sends[j]
          /\ sends'[i] = IF overlapped THEN sends[i] ELSE sends[i] + 1
    BY <1>3, SendEffect
  <2>3. UNCHANGED <<count, pending, faults, overlapped>> /\ pc[f] = "loop"
    BY <1>3 DEF Send, storage
  <2>4. faults \in Nat /\ sends[i] \in Nat /\ copy[f][i] \in Nat /\ copy[f][i] # Absent
    BY <2>2, OutboxAssumption DEF Shape, TypeOK, Absent
  <2>5. Unknown'
    BY <2>1, <2>2, <2>3, <2>4 DEF Counts, Unknown, OthersKept
  <2>6. OneActive'
    BY <2>1, <2>3, StillAlone
  <2>7. ~overlapped => \A g \in Flushers : pc[g] \notin Working
    BY <2>3, Alone DEF Working
  <2>8. CopyCounts'
    <3> SUFFICES ASSUME ~overlapped, NEW g \in Flushers, NEW j \in Items, copy'[g][j] # Absent
                 PROVE  sends'[j] <= copy'[g][j] + faults
      BY <2>3 DEF CopyCounts
    <3>1. g = f
      BY <2>1, <2>3 DEF Counts, OneActive, OthersKept, Shape, IdleEmpty
    <3>2. copy[f][j] # Absent => sends[j] <= copy[f][j] + faults
      BY DEF Counts, CopyCounts
    <3> QED
      BY <2>2, <2>4, <3>1, <3>2
  <2>9. EntryCounts'
    <3> SUFFICES ASSUME ~overlapped, NEW j \in Items, pending[j] # Absent
                 PROVE  \/ sends'[j] <= pending[j] + faults
                        \/ /\ sends'[j] <= pending[j] + faults + 1
                           /\ pc'[f] \in Working /\ cur'[f] = j
      BY <2>3 DEF EntryCounts
    <3>1. sends[j] <= pending[j] + faults
      BY <2>7 DEF Counts, EntryCounts
    <3>2. pending[j] \in Int
      BY OutboxAssumption DEF Shape, TypeOK, Absent
    <3> QED
      BY <2>2, <2>4, <3>1, <3>2 DEF Now, Working
  <2>10. AttemptsBounded'
    <3> SUFFICES ASSUME ~overlapped, NEW j \in Items
                 PROVE  sends'[j] <= MaxAttempts + faults
      BY <2>3 DEF AttemptsBounded
    <3>1. sends[j] <= MaxAttempts + faults
      BY DEF Counts, AttemptsBounded
    <3>2. sends[i] <= copy[f][i] + faults
      BY <2>4 DEF Counts, CopyCounts
    <3> QED
      BY <2>2, <2>4, <3>1, <3>2, OutboxAssumption
  <2> QED
    BY <2>5, <2>6, <2>8, <2>9, <2>10 DEF Counts
<1>4. ASSUME NEW f \in Flushers, Return(f) \/ Succeeds(f) \/ Fails(f) \/ DeadLetter(f)
      PROVE  Counts'
  <2>1. OthersKept(f) /\ cur'[f] = cur[f] /\ toRead'[f] = toRead[f]
    BY <1>4, AnswerEffect
  <2>2. UNCHANGED <<count, pending, faults, copy, overlapped, sends>> /\ pc[f] # "idle"
    BY <1>4 DEF Return, Succeeds, Fails, DeadLetter, storage, history
  <2>3. pc[f] \in Working => pc'[f] \in Working
    BY <1>4 DEF Return, Succeeds, Fails, DeadLetter, Shape, TypeOK, Working
  <2>4. \A g \in Flushers : pc[g] \in Working => pc'[g] \in Working /\ cur'[g] = cur[g]
    BY <2>1, <2>3 DEF OthersKept
  <2>5. Unknown'
    BY <2>1, <2>2, StillUnknown
  <2>6. CopyCounts' /\ EntryCounts' /\ AttemptsBounded'
    BY <2>2, <2>4, StillCounted
  <2> QED
    BY <2>1, <2>2, <2>5, <2>6, StillAlone DEF Counts
<1>5. ASSUME NEW f \in Flushers, RemoveItem(f) \/ WriteItem(f) \/ RemoveDead(f)
      PROVE  Counts'
  <2>1. /\ OthersKept(f) /\ cur[f] \in Items /\ Now(f, "loop", 0) /\ toRead'[f] = toRead[f]
        /\ \A j \in Items : copy'[f][j] = IF j = cur[f] THEN Absent ELSE copy[f][j]
        /\ \A j \in Items \ {cur[f]} : pending'[j] = pending[j]
        /\ pending'[cur[f]] = IF WriteItem(f) THEN copy[f][cur[f]] ELSE Absent
    BY <1>5, DoneEffect
  <2>2. UNCHANGED <<count, faults, overlapped, sends>> /\ pc[f] \in Working
    BY <1>5 DEF RemoveItem, WriteItem, RemoveDead, NextItem, history, Working
  <2>3. \A g \in Flushers, j \in Items : copy'[g][j] \in {copy[g][j], Absent}
    BY <2>1 DEF OthersKept
  <2>4. Unknown'
    BY <2>1, <2>2, <2>3, StillUnknown
  <2>5. OneActive'
    BY <2>1, <2>2, StillAlone DEF Working
  <2>6. CopyCounts' /\ AttemptsBounded'
    BY <2>2, <2>3 DEF Counts, CopyCounts, AttemptsBounded
  <2>7. EntryCounts'
    <3> SUFFICES ASSUME ~overlapped, NEW j \in Items, pending'[j] # Absent
                 PROVE  sends[j] <= pending'[j] + faults
      BY <2>2 DEF EntryCounts
    <3>1. CASE j = cur[f]
      BY <2>1, <3>1 DEF Counts, CopyCounts
    <3>2. CASE j # cur[f]
      <4>1. ~ \E g \in Flushers : pc[g] \in Working /\ cur[g] = j
        BY <2>2, <3>2, Alone DEF Working
      <4> QED
        BY <2>1, <3>2, <4>1 DEF Counts, EntryCounts
    <3> QED
      BY <3>1, <3>2
  <2> QED
    BY <2>4, <2>5, <2>6, <2>7 DEF Counts
<1>6. ASSUME NEW f \in Flushers, StorageFails(f)
      PROVE  Counts'
  <2>1. /\ OthersKept(f) /\ toRead'[f] = toRead[f] /\ faults' = faults + 1
        /\ \A j \in Items : copy'[f][j] \in {copy[f][j], Absent}
    BY <1>6, StorageFailsEffect
  <2>2. UNCHANGED <<count, pending, overlapped, sends>> /\ pc[f] # "idle"
    BY <1>6 DEF StorageFails, storage, history
  <2>3. \A g \in Flushers, j \in Items : copy'[g][j] \in {copy[g][j], Absent}
    BY <2>1 DEF OthersKept
  <2>4. Unknown'
    BY <2>1, <2>2, StillUnknown
  <2>5. CopyCounts' /\ EntryCounts' /\ AttemptsBounded'
    BY <2>1, <2>2, <2>3, StillCounted
  <2> QED
    BY <2>1, <2>2, <2>4, <2>5, StillAlone DEF Counts
<1>7. CASE Crash
  <2>1. /\ \A g \in Flushers : pc'[g] = "idle" /\ toRead'[g] = {}
        /\ \A g \in Flushers, j \in Items : copy'[g][j] = Absent
    BY <1>7 DEF Crash
  <2>2. UNCHANGED <<count, pending, overlapped, sends>> /\ faults' = faults + 1
    BY <1>7 DEF Crash, storage, history
  <2>3. Unknown' /\ OneActive'
    BY <2>1, <2>2 DEF Counts, Unknown, OneActive
  <2>4. CopyCounts' /\ EntryCounts' /\ AttemptsBounded'
    BY <2>1, <2>2, StillCounted
  <2> QED
    BY <2>3, <2>4 DEF Counts
<1>8. CASE Enqueue
  <2>1. count \in Nat /\ count + 1 \in Items /\ count' = count + 1
    BY <1>8, OutboxAssumption DEF Enqueue, Shape, TypeOK, Items
  <2>2. /\ UNCHANGED <<pc, toRead, copy, cur, faults, overlapped, sends>>
        /\ pending'[count + 1] = 0 /\ \A j \in Items \ {count + 1} : pending'[j] = pending[j]
    BY <1>8, <2>1 DEF Enqueue, history, Shape, TypeOK
  <2>3. sends[count + 1] = 0 /\ faults \in Nat
    BY <2>1 DEF Counts, Unknown, Shape, TypeOK
  <2>4. Unknown'
    <3>1. \A i \in Items : i > count + 1 => i > count /\ i # count + 1
      BY <2>1 DEF Items
    <3> QED
      BY <2>1, <2>2, <3>1 DEF Counts, Unknown
  <2>5. EntryCounts'
    <3> SUFFICES ASSUME ~overlapped, NEW j \in Items, pending'[j] # Absent
                 PROVE  \/ sends[j] <= pending'[j] + faults
                        \/ /\ sends[j] <= pending'[j] + faults + 1
                           /\ \E g \in Flushers : pc[g] \in Working /\ cur[g] = j
      BY <2>2 DEF EntryCounts
    <3>1. CASE j = count + 1
      BY <2>2, <2>3, <3>1
    <3>2. CASE j # count + 1
      BY <2>2, <3>2 DEF Counts, EntryCounts
    <3> QED
      BY <3>1, <3>2
  <2>6. OneActive' /\ CopyCounts' /\ AttemptsBounded'
    BY <2>2 DEF Counts, OneActive, CopyCounts, AttemptsBounded
  <2> QED
    BY <2>4, <2>5, <2>6 DEF Counts
<1>9. CASE Elapse \/ ClearItem \/ ClearDeadItem \/ UNCHANGED vars
  <2>1. UNCHANGED <<count, pc, toRead, copy, cur, faults, overlapped, sends>>
    BY <1>9 DEF Elapse, ClearItem, ClearDeadItem, vars, history
  <2>2. \A j \in Items : pending'[j] \in {pending[j], Absent}
    <3>1. CASE ClearItem
      BY <3>1 DEF ClearItem, RemoveEntry, Stored, Shape, TypeOK
    <3>2. CASE Elapse \/ ClearDeadItem \/ UNCHANGED vars
      BY <3>2 DEF Elapse, ClearDeadItem, vars, storage
    <3> QED
      BY <1>9, <3>1, <3>2
  <2>3. Unknown' /\ OneActive'
    BY <2>1, <2>2 DEF Counts, Unknown, OneActive
  <2>4. CopyCounts' /\ EntryCounts' /\ AttemptsBounded'
    BY <2>1, <2>2, StillCounted
  <2> QED
    BY <2>3, <2>4 DEF Counts
<1> QED
  BY <1>1, <1>2, <1>3, <1>4, <1>5, <1>6, <1>7, <1>8, <1>9 DEF Next, FlushStep

-----------------------------------------------------------------------------
(* The theorems. *)

\* The empty outbox satisfies the invariant.
LEMMA InitHolds == Init => IInv
<1> SUFFICES ASSUME Init PROVE IInv
  OBVIOUS
<1>1. Absent \in Absent..MaxAttempts - 1 /\ Absent \in Absent..MaxAttempts /\ Absent # MaxAttempts
  BY OutboxAssumption DEF Absent
<1>2. TypeOK
  <2>1. count \in 0..NItems /\ faults \in 0..MaxFaults
    BY OutboxAssumption DEF Init
  <2>2. pending \in [Items -> Absent..MaxAttempts - 1]
    BY <1>1 DEF Init
  <2>3. cur \in [Flushers -> 0..NItems]
    BY OutboxAssumption DEF Init
  <2>4. copy \in [Flushers -> [Items -> Absent..MaxAttempts]]
    BY <1>1 DEF Init
  <2> QED
    BY <2>1, <2>2, <2>3, <2>4 DEF Init, TypeOK
<1>3. Shape
  BY <1>1, <1>2 DEF Init, Shape, WorkHasCopy, LastAttempt, IdleEmpty, Working
<1>4. Fate
  BY DEF Init, Fate, SentAccepted, BuriedDead, NothingLost
<1>5. Counts
  BY OutboxAssumption DEF Init, Counts, Unknown, OneActive, CopyCounts, EntryCounts, AttemptsBounded
<1> QED
  BY <1>3, <1>4, <1>5 DEF IInv

\* The invariant holds throughout.
LEMMA Invariant == Spec => []IInv
<1>1. IInv /\ [Next]_vars => IInv'
  BY ShapeKept, FateKept, CountsKept DEF IInv
<1> QED
  BY <1>1, InitHolds, PTL DEF Spec

\* The state of the outbox is always well typed: in particular no entry is
\* ever written back with its attempts used up.
THEOREM TypeCorrect == Spec => []TypeOK
<1>1. IInv => TypeOK
  BY DEF IInv, Shape
<1> QED
  BY <1>1, Invariant, PTL

\* However flushes overlap, and whatever fails between two operations on the
\* storage, no item is lost.
THEOREM NoItemLost == Spec => []NothingLost
<1>1. IInv => NothingLost
  BY DEF IInv, Fate
<1> QED
  BY <1>1, Invariant, PTL

\* Flushes that do not overlap make at most MaxAttempts requests for an item,
\* and one more for each fault.
THEOREM RequestsBounded == Spec => []AttemptsBounded
<1>1. IInv => AttemptsBounded
  BY DEF IInv, Counts
<1> QED
  BY <1>1, Invariant, PTL
=============================================================================
