--------------------------- MODULE RunSessionProofs ---------------------------
(***************************************************************************)
(* Proofs about the run session, for any number of runs, streams, stops,    *)
(* reconnects and faults, any length of a journal and any cap: streams that *)
(* nobody can abort are paid for by answers that came too late; as long as  *)
(* none did, the view is the journal without a gap, and the cursor is there *)
(* when it must be; and a busy session always waits for something that will *)
(* settle it, unless a fault has stranded it.                               *)
(***************************************************************************)
EXTENDS RunSession, FiniteSetTheorems, WellFoundedInduction, TLAPS

-----------------------------------------------------------------------------
(* Types. *)

\* The runs whose start calls have been answered.
Answered == {r \in Runs : call[r] \in {"returned", "lost"}}

Phases == {"open", "hung", "done"}

Streams == [run : Nat, lastSeq : Nat, reconnects : Nat, phase : Phases]

JournalShape == head \in [Runs -> Nat] /\ ended \in [Runs -> BOOLEAN]

\* Only runs that have been answered are known to the session, to its cursors
\* and to its streams, and only their calls have crossed it.
CallShape ==
  /\ call \in [Runs -> {"none", "pending", "returned", "lost"}]
  /\ stopping \in [Runs -> Nat]
  /\ runId \in {0} \cup Answered
  /\ resuming \subseteq Answered /\ cursor \subseteq Answered
  /\ crossed \cap Runs \subseteq Answered
  /\ owner \in {NoOwner, Stopper, Stranded} \cup Runs

SessionShape ==
  /\ status \in {"idle", "submitted", "streaming", "ready", "error"}
  /\ view \in [run : Nat, first : Nat, last : Nat] /\ disposed \in BOOLEAN

StreamShape ==
  /\ stream \in [Slots -> Streams]
  /\ controller \in {0} \cup Slots
  /\ \A s \in Slots : stream[s] # Detached => stream[s].run \in Answered

Shape == JournalShape /\ CallShape /\ SessionShape /\ StreamShape

\* Runs and slots are numbered from 1.
LEMMA Numbers == /\ 0 \notin Runs /\ 0 \notin Slots /\ Runs \subseteq Nat /\ Slots \subseteq Nat
                 /\ Stopper \notin Runs /\ Resumer \notin Runs /\ NoOwner \notin Runs
                 /\ Stranded \notin Runs /\ Stranded \notin {NoOwner, Stopper}
                 /\ MaxRuns \in Nat /\ MaxStreams \in Nat /\ Cap \in Nat /\ Cap >= 1
                 /\ IsFiniteSet(Runs) /\ IsFiniteSet(Slots)
<1>1. MaxRuns \in Nat /\ MaxStreams \in Nat /\ Cap \in Nat /\ Cap >= 1
  BY SessionAssumption
<1>2. IsFiniteSet(1..MaxRuns) /\ IsFiniteSet(1..MaxStreams)
  BY <1>1, FS_Interval
<1> QED
  BY <1>1, <1>2 DEF Runs, Slots, Stopper, Resumer, NoOwner, Stranded

\* Every set of natural numbers that has an element has a least one, and Min
\* finds it.
LEMMA MinIsLeast ==
  ASSUME NEW T, T \subseteq Nat, T # {}
  PROVE  Min(T) \in T /\ \A y \in T : Min(T) <= y
<1> DEFINE Less == {p \in Nat \X Nat : p[1] < p[2]}
<1>1. IsWellFoundedOn(OpToRel(<, Nat), Nat)
  BY NatLessThanWellFounded
<1>2. OpToRel(<, Nat) = Less
  BY Zenon DEF OpToRel
<1>3. \E x \in T : \A y \in T : ~(<<y, x>> \in Less)
  BY <1>1, <1>2, WFMin, Zenon
<1>4. PICK x \in T : \A y \in T : ~(<<y, x>> \in Less)
  BY <1>3
<1>5. \A y \in T : ~(y < x)
  BY <1>4
<1>6. \A y \in T : x <= y
  BY <1>5
<1> QED
  BY <1>6 DEF Min

\* The larger of two numbers.
LEMMA MaxOfTwo == ASSUME NEW a \in Int, NEW b \in Int
                  PROVE  Max({a, b}) = IF a >= b THEN a ELSE b
<1>1. \E x \in {a, b} : \A y \in {a, b} : x >= y
  OBVIOUS
<1>2. Max({a, b}) \in {a, b} /\ \A y \in {a, b} : Max({a, b}) >= y
  BY <1>1 DEF Max
<1> QED
  BY <1>2

\* The oldest event the journal retains, and the first one a reader gets.
LEMMA Retained ==
  ASSUME JournalShape, NEW r \in Runs
  PROVE  /\ Oldest(r) \in Nat /\ Oldest(r) >= 1 /\ head[r] \in Nat
         /\ Oldest(r) = IF head[r] <= Cap THEN 1 ELSE head[r] - Cap + 1
<1>1. head[r] \in Nat /\ Cap \in Nat /\ head[r] - Cap + 1 \in Int
  BY Numbers DEF JournalShape
<1>2. Max({1, head[r] - Cap + 1}) = IF 1 >= head[r] - Cap + 1 THEN 1 ELSE head[r] - Cap + 1
  BY <1>1, MaxOfTwo
<1> QED
  BY <1>1, <1>2 DEF Oldest

\* A reader gets the event behind its last one, or the oldest retained one.
LEMMA FirstRead ==
  ASSUME JournalShape, NEW r \in Runs, NEW after \in Nat, ReadAfter(r, after) # {}
  PROVE  LET n == Min(ReadAfter(r, after))
         IN  n \in Nat /\ n <= head[r] /\ n = IF after + 1 >= Oldest(r) THEN after + 1 ELSE Oldest(r)
<1> DEFINE low == IF after + 1 >= Oldest(r) THEN after + 1 ELSE Oldest(r)
<1>1. Oldest(r) \in Nat /\ head[r] \in Nat
  BY Retained
<1>2. ReadAfter(r, after) = low..head[r] /\ low \in Nat
  BY <1>1, MaxOfTwo DEF ReadAfter
<1> HIDE DEF low
<1>3. low \in low..head[r] /\ low..head[r] \subseteq Nat
  BY <1>1, <1>2
<1>4. Min(low..head[r]) \in low..head[r] /\ \A y \in low..head[r] : Min(low..head[r]) <= y
  BY <1>3, MinIsLeast
<1>5. Min(low..head[r]) = low
  BY <1>1, <1>2, <1>3, <1>4
<1> QED
  BY <1>1, <1>2, <1>3, <1>5 DEF low

-----------------------------------------------------------------------------
(* What the steps do to the streams. *)

\* The session aborts its stream.
Aborts == /\ controller' = 0
          /\ stream' = [s \in Slots |-> IF s = controller THEN Detached ELSE stream[s]]

\* A stream of run r is attached in slot c of st.
Attaches(c, r, st) == /\ c \in Slots /\ st[c] = Detached /\ controller' = c
                      /\ \E p \in {"open", "hung"} :
                           /\ stream' = [st EXCEPT ![c] = StreamOf(r, 0, 0, p)]
                           /\ owner' = IF p = "open" THEN r ELSE Stranded

\* An attachment takes a free slot.
LEMMA Attaching ==
  ASSUME NEW r, NEW st, BeginAttach(r, st)
  PROVE  \E c : Attaches(c, r, st)
<1> DEFINE free == {s \in Slots : st[s] = Detached}
<1>1. free \subseteq Nat /\ free # {}
  BY Numbers DEF BeginAttach
<1>2. Min(free) \in free
  BY <1>1, MinIsLeast
<1>4. controller' = Min(free) /\ Min(free) \in Slots /\ st[Min(free)] = Detached
  BY <1>2 DEF BeginAttach
<1>5. PICK p \in {"open", "hung"} :
        /\ stream' = [st EXCEPT ![Min(free)] = StreamOf(r, 0, 0, p)]
        /\ owner' = IF p = "open" THEN r ELSE Stranded
  BY DEF BeginAttach
<1>6. Attaches(Min(free), r, st)
  BY <1>4, <1>5 DEF Attaches
<1> QED
  BY <1>6

\* The session's streams stay as they are.
Rests == UNCHANGED <<stream, controller>>

\* A live stream goes on.
Goes(s) == /\ s \in Live /\ controller' = controller
           /\ \E n, k \in Nat, p \in Phases : stream' = [stream EXCEPT ![s] = StreamOf(stream[s].run, n, k, p)]

AbortSteps == \/ \E r \in Runs : Start(r) \/ ResumeThrows(r)
              \/ StartThrows \/ Stop \/ Reset \/ Dispose
RestSteps == \E r \in Runs : \/ AppendEvent(r) \/ StartFails(r) \/ StartSettles(r) \/ StartDisposed(r)
                             \/ StartAttachThrows(r) \/ StartHangs(r) \/ Resume(r) \/ ResumeRefused(r)
                             \/ StopReturns(r) \/ StopHangs(r)
ReadSteps(s) == New(s) \/ ListenerThrows(s) \/ Presence(s)
ThrowSteps(s) == TerminalThrows(s) \/ RevokedThrows(s)
GoSteps == \E s \in Slots : ReadSteps(s) \/ ThrowSteps(s) \/ Drops(s)
SettleSteps(s) == Terminal(s) \/ AccessRevoked(s) \/ Closes(s)
OverSteps == \E s \in Slots : SettleSteps(s) \/ Ends(s)
AttachSteps == \E r \in Runs : StartAttaches(r) \/ ResumeAttaches(r)

\* Every step is one of these.
LEMMA Kinds == Next => AbortSteps \/ RestSteps \/ GoSteps \/ OverSteps \/ AttachSteps \/ Refresh
BY DEF Next, Answer, RunAction, StreamStep, AbortSteps, RestSteps, GoSteps, ReadSteps, ThrowSteps,
       OverSteps, SettleSteps, AttachSteps

\* What the steps that abort the session's stream do to the streams.
LEMMA AbortEffect == AbortSteps => Aborts
BY DEF AbortSteps, Aborts, Start, StartThrows, ResumeThrows, Begins, Stop, Reset, Dispose,
       WithoutController

\* These leave the streams alone.
LEMMA RestEffect == RestSteps => Rests
BY DEF RestSteps, Rests, AppendEvent, StartFails, StartSettles, StartDisposed, StartAttachThrows,
       StartHangs, Resume, ResumeRefused, StopReturns, StopHangs, StartReturns, session

\* What a live stream reads.
LEMMA Reading ==
  ASSUME Shape, NEW s \in Slots, Receives(s)
  PROVE  /\ s \in Live /\ stream[s].run \in Runs /\ stream[s].lastSeq \in Nat
         /\ NextEvent(s) \in Nat \ {0} /\ NextEvent(s) <= head[stream[s].run]
         /\ NextEvent(s) = IF stream[s].lastSeq + 1 >= Oldest(stream[s].run)
                           THEN stream[s].lastSeq + 1 ELSE Oldest(stream[s].run)
         /\ ~TooOld(stream[s].run, stream[s].lastSeq)
<1>1. s \in Live /\ stream[s] # Detached
  BY DEF Receives, Connected, Live
<1>2. stream[s] \in Streams /\ stream[s].run \in Runs
  BY <1>1 DEF Shape, StreamShape, Answered
<1>3. stream[s].lastSeq \in Nat
  BY <1>2 DEF Streams
<1>4. Oldest(stream[s].run) >= 1 /\ Oldest(stream[s].run) \in Nat
  BY <1>2, Retained DEF Shape
<1> QED
  BY <1>1, <1>2, <1>3, <1>4, FirstRead DEF Receives, NextEvent, Shape

\* A live stream that goes on stays where it is, or reads the next event.
Reads(s, n) == /\ s \in Live /\ controller' = controller
               /\ \E k \in Nat, p \in Phases : stream' = [stream EXCEPT ![s] = StreamOf(stream[s].run, n, k, p)]

\* Where the steps of a live stream that goes on leave it.
LEMMA GoReads ==
  ASSUME Shape, NEW s \in Slots
  PROVE  /\ New(s) \/ ListenerThrows(s) \/ TerminalThrows(s) =>
              Receives(s) /\ Reads(s, NextEvent(s)) /\ NextEvent(s) \in Nat
         /\ Presence(s) \/ RevokedThrows(s) \/ Drops(s) =>
              Reads(s, stream[s].lastSeq) /\ stream[s].lastSeq \in Nat
<1>1. /\ stream[s].lastSeq \in Nat /\ stream[s].reconnects + 1 \in Nat /\ stream[s].phase \in Phases
      /\ 0 \in Nat /\ "done" \in Phases /\ "open" \in Phases /\ "hung" \in Phases
  BY DEF Shape, StreamShape, Streams, Phases
<1>2. Receives(s) => s \in Live /\ NextEvent(s) \in Nat
  BY Reading
<1>3. New(s) \/ ListenerThrows(s) => Receives(s) /\ Reads(s, NextEvent(s))
  BY <1>1, <1>2 DEF New, ListenerThrows, Progress, Reads
<1>4. TerminalThrows(s) => Receives(s) /\ Reads(s, NextEvent(s))
  BY <1>1, <1>2 DEF TerminalThrows, Completes, SettleThrows, Reads
<1>5. RevokedThrows(s) => Reads(s, stream[s].lastSeq)
  BY <1>1 DEF RevokedThrows, Revokes, Connected, SettleThrows, Reads
<1>6. Presence(s) => Reads(s, stream[s].lastSeq)
  BY <1>1 DEF Presence, Connected, Reads
<1>7. Drops(s) => Reads(s, stream[s].lastSeq)
  BY <1>1 DEF Drops, Reads
<1> QED
  BY <1>1, <1>2, <1>3, <1>4, <1>5, <1>6, <1>7

\* In these a live stream goes on.
LEMMA GoEffect == ASSUME Shape, GoSteps PROVE \E s \in Slots : Goes(s)
<1>1. PICK s \in Slots : ReadSteps(s) \/ ThrowSteps(s) \/ Drops(s)
  BY DEF GoSteps
<1>2. \E n \in Nat : Reads(s, n)
  BY <1>1, GoReads DEF ReadSteps, ThrowSteps
<1> QED
  BY <1>2 DEF Reads, Goes

\* In these a live stream is over.
LEMMA OverEffect == OverSteps => \E s \in Live : Over(s)
BY DEF OverSteps, SettleSteps, Terminal, Completes, Receives, Connected, AccessRevoked, Revokes, Closes,
       Ends, Settle

-----------------------------------------------------------------------------
(* The types are kept. *)

\* Only events and cancellations append to a journal.
JournalSteps == \E r \in Runs : AppendEvent(r) \/ StopReturns(r)

\* The other steps leave the journals alone.
LEMMA OtherJournal == Next => JournalSteps \/ UNCHANGED journal
<1>1. AbortSteps => UNCHANGED journal
  BY DEF AbortSteps, Start, StartThrows, ResumeThrows, ResumeReturns, Stop, Reset, Dispose
<1>2. RestSteps => JournalSteps \/ UNCHANGED journal
  BY DEF RestSteps, JournalSteps, StartFails, StartSettles, StartDisposed, StartAttachThrows, StartHangs,
         Resume, ResumeRefused, StopHangs
<1>3. GoSteps \/ OverSteps => UNCHANGED journal
  BY DEF GoSteps, ReadSteps, ThrowSteps, New, ListenerThrows, Presence, TerminalThrows, RevokedThrows, Drops,
         OverSteps, SettleSteps, Terminal, Completes, AccessRevoked, Revokes, Closes, Ends, streamFrame
<1>4. AttachSteps \/ Refresh => UNCHANGED journal
  BY DEF AttachSteps, StartAttaches, ResumeAttaches, ResumeReturns, Refresh
<1> QED
  BY <1>1, <1>2, <1>3, <1>4, Kinds

\* The journals stay well-formed.
LEMMA JournalStep == ASSUME JournalShape, Next PROVE JournalShape'
<1>1. CASE UNCHANGED journal
  BY <1>1 DEF JournalShape, journal
<1>2. ASSUME NEW r \in Runs, AppendEvent(r) PROVE JournalShape'
  BY <1>2 DEF AppendEvent, JournalShape
<1>3. ASSUME NEW r \in Runs, StopReturns(r) PROVE JournalShape'
  <2>1. \/ UNCHANGED <<head, ended>>
        \/ head' = [head EXCEPT ![r] = @ + 1] /\ ended' = [ended EXCEPT ![r] = TRUE]
    BY <1>3 DEF StopReturns, journal
  <2>2. CASE UNCHANGED <<head, ended>>
    BY <2>2 DEF JournalShape
  <2>3. CASE head' = [head EXCEPT ![r] = @ + 1] /\ ended' = [ended EXCEPT ![r] = TRUE]
    BY <2>3 DEF JournalShape
  <2> QED
    BY <2>1, <2>2, <2>3
<1> QED
  BY <1>1, <1>2, <1>3, OtherJournal DEF JournalSteps

\* A call that has been answered stays so, and only Start makes one pending.
LEMMA CallsMove ==
  ASSUME CallShape, Next
  PROVE  /\ call' \in [Runs -> {"none", "pending", "returned", "lost"}]
         /\ Answered \subseteq Answered'
         /\ (\A r \in Runs : ~Start(r)) => \A q \in Runs : call'[q] = "pending" => call[q] = "pending"
<1> DEFINE Goal == /\ call' \in [Runs -> {"none", "pending", "returned", "lost"}]
                   /\ Answered \subseteq Answered'
                   /\ (\A r \in Runs : ~Start(r)) =>
                        \A q \in Runs : call'[q] = "pending" => call[q] = "pending"
<1>1. CASE UNCHANGED call
  BY <1>1 DEF CallShape, Answered
<1>2. ASSUME NEW r \in Runs, Start(r) PROVE Goal
  BY <1>2 DEF Start, CallShape, Answered
<1>3. ASSUME NEW r \in Runs, NEW c \in {"returned", "lost"}, StartReturns(r, c) PROVE Goal
  BY <1>3 DEF StartReturns, CallShape, Answered
<1>4. CASE Refresh
  BY <1>4 DEF Refresh, CallShape, Answered
<1>5. AbortSteps => UNCHANGED call \/ \E r \in Runs : Start(r)
  BY DEF AbortSteps, StartThrows, ResumeThrows, ResumeReturns, Stop, Reset, Dispose, calls
<1>6. RestSteps => UNCHANGED call \/ \E r \in Runs, c \in {"returned", "lost"} : StartReturns(r, c)
  BY DEF RestSteps, AppendEvent, StartFails, StartSettles, StartDisposed, StartAttachThrows, StartHangs,
         Resume, ResumeRefused, StopReturns, StopHangs, calls
<1>7. GoSteps \/ OverSteps => UNCHANGED call
  BY DEF GoSteps, ReadSteps, ThrowSteps, New, ListenerThrows, Presence, TerminalThrows, RevokedThrows, Drops,
         OverSteps, SettleSteps, Terminal, Completes, AccessRevoked, Revokes, Closes, Ends, streamFrame, calls
<1>8. AttachSteps => UNCHANGED call \/ \E r \in Runs, c \in {"returned", "lost"} : StartReturns(r, c)
  BY DEF AttachSteps, StartAttaches, ResumeAttaches, ResumeReturns
<1> HIDE DEF Goal
<1>9. Goal
  BY <1>1, <1>2, <1>3, <1>4, <1>5, <1>6, <1>7, <1>8, Kinds DEF Goal
<1> QED
  BY <1>9 DEF Goal

\* The rest of the session's bookkeeping, step by step.
LEMMA CallStep == ASSUME CallShape, Next PROVE CallShape'
<1>1. /\ call' \in [Runs -> {"none", "pending", "returned", "lost"}]
      /\ Answered \subseteq Answered'
  BY CallsMove
<1> DEFINE Rest == /\ stopping' \in [Runs -> Nat]
                   /\ runId' \in {0} \cup Answered'
                   /\ resuming' \subseteq Answered' /\ cursor' \subseteq Answered'
                   /\ crossed' \cap Runs \subseteq Answered'
                   /\ owner' \in {NoOwner, Stopper, Stranded} \cup Runs
<1> SUFFICES Rest
  BY <1>1 DEF CallShape
<1>2. CASE AbortSteps
  <2>1. ASSUME NEW r \in Runs, Start(r) PROVE Rest
    BY <1>1, <2>1 DEF Start, Begins, CallShape
  <2>2. CASE StartThrows
    BY <1>1, <2>2 DEF StartThrows, Begins, CallShape, calls
  <2>3. ASSUME NEW r \in Runs, ResumeThrows(r) PROVE Rest
    <3>1. /\ r \in Answered /\ UNCHANGED <<stopping, cursor>> /\ owner' = Stranded /\ runId' = r
          /\ resuming' \subseteq resuming
      BY <2>3 DEF ResumeThrows, ResumeReturns, Begins, CallShape
    <3>2. crossed' \subseteq crossed \cup {Resumer}
      BY <2>3 DEF ResumeThrows, ResumeReturns, Crosses
    <3> QED
      BY <1>1, <3>1, <3>2, Numbers DEF CallShape
  <2>4. CASE Stop
    BY <1>1, <2>4 DEF Stop, CallShape, Finalize
  <2>5. CASE Reset \/ Dispose
    BY <1>1, <2>5 DEF Reset, Dispose, CallShape, calls
  <2> QED
    BY <1>2, <2>1, <2>2, <2>3, <2>4, <2>5 DEF AbortSteps
<1>3. CASE RestSteps
  <2>1. ASSUME NEW r \in Runs, AppendEvent(r) \/ Resume(r) \/ ResumeRefused(r) PROVE Rest
    BY <1>1, <2>1 DEF AppendEvent, Resume, ResumeRefused, CallShape, calls, session, history
  <2>2. ASSUME NEW r \in Runs, StopReturns(r) \/ StopHangs(r) PROVE Rest
    <3>1. stopping' \in [Runs -> Nat]
      BY <2>2 DEF StopReturns, StopHangs, CallShape
    <3>2. crossed' \cap Runs \subseteq Answered'
      BY <1>1, <2>2, Numbers DEF StopReturns, StopHangs, Crosses, CallShape
    <3>3. /\ UNCHANGED <<runId, resuming>> /\ cursor' \subseteq cursor
          /\ owner' \in {owner, NoOwner, Stranded}
      BY <2>2 DEF StopReturns, StopHangs, Finalize, session
    <3> QED
      BY <1>1, <3>1, <3>2, <3>3 DEF CallShape
  <2>3. ASSUME NEW r \in Runs,
               StartFails(r) \/ StartSettles(r) \/ StartDisposed(r) \/ StartAttachThrows(r) \/ StartHangs(r)
        PROVE  Rest
    <3>1. r \in Answered' /\ UNCHANGED <<stopping, resuming>>
      BY <2>3 DEF StartFails, StartSettles, StartDisposed, StartAttachThrows, StartHangs, StartReturns,
                  Answered, CallShape
    <3>2. cursor' \subseteq cursor /\ runId' \in {runId, r} /\ owner' \in {owner, NoOwner, Stranded}
      BY <2>3 DEF StartFails, StartSettles, StartDisposed, StartAttachThrows, StartHangs, Finalize
    <3>3. crossed' \subseteq crossed \cup {r}
      BY <2>3 DEF StartFails, StartSettles, StartDisposed, StartAttachThrows, StartHangs, Crosses
    <3> QED
      BY <1>1, <3>1, <3>2, <3>3 DEF CallShape
  <2> QED
    BY <1>3, <2>1, <2>2, <2>3 DEF RestSteps
<1>4. CASE GoSteps \/ OverSteps
  <2>1. UNCHANGED <<stopping, resuming, runId, crossed>> /\ owner' \in {owner, NoOwner, Stranded}
    <3>1. GoSteps => UNCHANGED <<stopping, resuming, runId, crossed>> /\ owner' \in {owner, NoOwner, Stranded}
      BY DEF GoSteps, ReadSteps, ThrowSteps, New, ListenerThrows, Presence, TerminalThrows, RevokedThrows, Drops,
             Completes, Revokes, SettleThrows, streamFrame, calls
    <3>2. OverSteps => UNCHANGED <<stopping, resuming, runId, crossed>> /\ owner' \in {owner, NoOwner}
      BY DEF OverSteps, SettleSteps, Terminal, Completes, AccessRevoked, Revokes, Closes, Ends, Settle,
             streamFrame, calls, history
    <3> QED
      BY <1>4, <3>1, <3>2
  <2>2. cursor' \subseteq cursor \/ (runId # 0 /\ cursor' \subseteq cursor \cup {runId})
    <3>1. Persisted = cursor \/ (runId # 0 /\ Persisted = cursor \cup {runId})
      BY DEF Persisted
    <3>2. GoSteps => cursor' \in {cursor, Persisted} \/ cursor' \subseteq Persisted
      BY DEF GoSteps, ReadSteps, ThrowSteps, New, ListenerThrows, Presence, TerminalThrows, RevokedThrows, Drops,
             OnEvent, Persist, Completes, Revokes, Finalize, Persisted
    <3>3. OverSteps => cursor' \subseteq cursor \/ cursor' \subseteq Persisted
      BY DEF OverSteps, SettleSteps, Terminal, Completes, AccessRevoked, Revokes, Closes, Ends, Finalize, Persisted
    <3> QED
      BY <1>4, <3>1, <3>2, <3>3
  <2> QED
    BY <1>1, <2>1, <2>2 DEF CallShape
<1>5. CASE AttachSteps
  <2>1. PICK r \in Runs : StartAttaches(r) \/ ResumeAttaches(r)
    BY <1>5 DEF AttachSteps
  <2>2. CASE StartAttaches(r)
    <3>1. /\ r \in Answered' /\ UNCHANGED <<stopping, resuming, cursor>> /\ owner' \in {r, Stranded}
          /\ runId' = r
      BY <2>2 DEF StartAttaches, StartReturns, BeginAttach, Answered, CallShape
    <3>2. crossed' \subseteq crossed \cup {r}
      BY <2>2 DEF StartAttaches, Crosses
    <3> QED
      BY <1>1, <3>1, <3>2 DEF CallShape
  <2>3. CASE ResumeAttaches(r)
    <3>1. /\ r \in Answered /\ UNCHANGED <<stopping, cursor>> /\ owner' \in {r, Stranded} /\ runId' = r
          /\ resuming' \subseteq resuming
      BY <2>3 DEF ResumeAttaches, ResumeReturns, BeginAttach, CallShape
    <3>2. crossed' \subseteq crossed \cup {Resumer}
      BY <2>3 DEF ResumeAttaches, ResumeReturns, Crosses
    <3> QED
      BY <1>1, <3>1, <3>2, Numbers DEF CallShape
  <2> QED
    BY <2>1, <2>2, <2>3
<1>6. CASE Refresh
  BY <1>1, <1>6 DEF Refresh, CallShape
<1> QED
  BY <1>2, <1>3, <1>4, <1>5, <1>6, Kinds

Views == [run : Nat, first : Nat, last : Nat]

\* What the reducer makes of an event.
LEMMA ApplyingEvent ==
  ASSUME view \in Views, NEW r \in Nat \ {0}, NEW n \in Nat \ {0}
  PROVE  /\ Applied(r, n) \in Views
         /\ n <= view.last => Applied(r, n) = view
         /\ n > view.last /\ view = Empty => Applied(r, n) = [run |-> r, first |-> n, last |-> n]
         /\ n = view.last + 1 /\ view # Empty /\ view.run = r =>
              Applied(r, n) = [run |-> r, first |-> view.first, last |-> n]
<1>1. view.last \in Nat /\ view.run \in Nat /\ view.first \in Nat
  BY DEF Views
<1>2. view = [run |-> view.run, first |-> view.first, last |-> view.last]
  BY DEF Views
<1>3. [view EXCEPT !.last = n] = [run |-> view.run, first |-> view.first, last |-> n]
  BY <1>2
<1>4. Applied(r, n) = IF n <= view.last THEN view
                      ELSE IF view = Empty THEN [run |-> r, first |-> n, last |-> n]
                      ELSE IF view.run = r /\ n = view.last + 1
                           THEN [run |-> view.run, first |-> view.first, last |-> n]
                           ELSE [run |-> 0, first |-> 0, last |-> n]
  <2>1. view = Empty => view.last = 0 /\ view.run = 0
    BY DEF Empty
  <2> QED
    BY <1>1, <1>3, <2>1 DEF Applied
<1>5. /\ [run |-> r, first |-> n, last |-> n] \in Views
      /\ [run |-> view.run, first |-> view.first, last |-> n] \in Views
      /\ [run |-> 0, first |-> 0, last |-> n] \in Views
  BY <1>1 DEF Views
<1>6. Applied(r, n) \in Views
  BY <1>4, <1>5
<1> QED
  BY <1>1, <1>4, <1>6

\* Only the user disposes of a session, and only a refresh replaces it.
LEMMA DisposedStays == RestSteps \/ AttachSteps \/ GoSteps \/ OverSteps => disposed' = disposed
<1>1. RestSteps \/ AttachSteps => disposed' = disposed
  BY DEF RestSteps, AppendEvent, StartFails, StartSettles, StartDisposed, StartAttachThrows, StartHangs,
         Resume, ResumeRefused, StopReturns, StopHangs, StartReturns, AttachSteps, StartAttaches,
         ResumeAttaches, ResumeReturns, session
<1>2. GoSteps \/ OverSteps => disposed' = disposed
  BY DEF GoSteps, ReadSteps, ThrowSteps, New, ListenerThrows, Presence, TerminalThrows, RevokedThrows, Drops,
         OverSteps, SettleSteps, Terminal, Completes, AccessRevoked, Revokes, Closes, Ends, streamFrame
<1> QED
  BY <1>1, <1>2

\* The session stays well-formed.
LEMMA SessionKept == ASSUME Shape, Next PROVE SessionShape'
<1> USE DEF Shape
<1>1. view \in Views /\ Empty \in Views
  BY DEF SessionShape, Views, Empty
<1>2. ASSUME NEW s \in Slots, Receives(s)
      PROVE  Applied(stream[s].run, NextEvent(s)) \in Views
  BY <1>1, <1>2, Reading, ApplyingEvent, Numbers
<1>3. status' \in {"idle", "submitted", "streaming", "ready", "error"}
  <2>1. AbortSteps => status' \in {status, "submitted", "ready", "idle"}
    BY DEF AbortSteps, Start, StartThrows, ResumeThrows, Begins, Stop, Reset, Dispose, Finalize
  <2>2. RestSteps => status' \in {status, "error", "ready"}
    BY DEF RestSteps, AppendEvent, StartFails, StartSettles, StartDisposed, StartAttachThrows, StartHangs,
           Resume, ResumeRefused, StopReturns, StopHangs, Finalize, session
  <2>3. GoSteps => status' \in {status, "streaming", "ready", "error"}
    BY DEF GoSteps, ReadSteps, ThrowSteps, New, ListenerThrows, Presence, TerminalThrows, RevokedThrows, Drops,
           OnEvent, Completes, Revokes, Finalize
  <2>4. OverSteps => status' \in {status, "ready", "error"}
    BY DEF OverSteps, SettleSteps, Terminal, Completes, AccessRevoked, Revokes, Closes, Ends, Finalize
  <2>5. AttachSteps \/ Refresh => status' \in {status, "submitted", "idle"}
    BY DEF AttachSteps, StartAttaches, ResumeAttaches, Refresh
  <2> QED
    BY <2>1, <2>2, <2>3, <2>4, <2>5, Kinds DEF SessionShape
<1>4. view' \in Views
  <2>1. AbortSteps => view' \in {view, Empty}
    BY DEF AbortSteps, Start, StartThrows, ResumeThrows, Begins, Stop, Reset, Dispose
  <2>2. RestSteps => view' = view
    BY DEF RestSteps, AppendEvent, StartFails, StartSettles, StartDisposed, StartAttachThrows, StartHangs,
           Resume, ResumeRefused, StopReturns, StopHangs, StartReturns, session
  <2>3. GoSteps \/ OverSteps =>
          view' = view \/ \E s \in Slots : Receives(s) /\ view' = Applied(stream[s].run, NextEvent(s))
    BY DEF GoSteps, ReadSteps, ThrowSteps, New, ListenerThrows, Presence, TerminalThrows, RevokedThrows, Drops, Revokes,
           OnEvent, OverSteps, SettleSteps, Terminal, Completes, AccessRevoked, Revokes, Closes, Ends
  <2>4. AttachSteps \/ Refresh => view' \in {view, Empty}
    BY DEF AttachSteps, StartAttaches, ResumeAttaches, Refresh, StartReturns
  <2> QED
    BY <1>1, <1>2, <2>1, <2>2, <2>3, <2>4, Kinds
<1>5. disposed' \in BOOLEAN
  <2>1. AbortSteps \/ Refresh => disposed' \in {disposed, TRUE, FALSE}
    BY DEF AbortSteps, Start, StartThrows, ResumeThrows, ResumeReturns, Stop, Reset, Dispose, Refresh
  <2>2. RestSteps \/ AttachSteps \/ GoSteps \/ OverSteps => disposed' = disposed
    BY DisposedStays
  <2> QED
    BY <2>1, <2>2, Kinds DEF SessionShape
<1> QED
  BY <1>3, <1>4, <1>5 DEF SessionShape, Views

\* A fresh stream, and one that goes on, is not a detached one.
LEMMA Attached ==
  ASSUME NEW r \in Runs, NEW n \in Nat, NEW k \in Nat, NEW p \in Phases
  PROVE  /\ StreamOf(r, n, k, p) \in Streams /\ StreamOf(r, n, k, p) # Detached
         /\ StreamOf(r, n, k, p).run = r /\ StreamOf(r, n, k, p).lastSeq = n
         /\ StreamOf(r, n, k, p).phase = p
         /\ Detached \in Streams
BY Numbers DEF Streams, Detached, StreamOf, Phases

\* The streams stay well-formed.
LEMMA StreamKept == ASSUME Shape, Next PROVE StreamShape'
<1>1. Answered \subseteq Answered' /\ Answered \subseteq Runs
  BY CallsMove DEF Shape, Answered
<1>2. /\ stream \in [Slots -> Streams] /\ controller \in {0} \cup Slots
      /\ \A s \in Slots : stream[s] # Detached => stream[s].run \in Answered
  BY DEF Shape, StreamShape
<1>3. Detached \in Streams
  BY DEF Detached, Streams, StreamOf, Phases
<1>4. CASE AbortSteps
  BY <1>1, <1>2, <1>3, <1>4, AbortEffect DEF Aborts, StreamShape
<1>5. CASE RestSteps
  BY <1>1, <1>2, <1>5, RestEffect DEF Rests, StreamShape
<1>6. CASE GoSteps
  <2>1. PICK s \in Slots : Goes(s)
    BY <1>6, GoEffect
  <2>2. PICK n \in Nat, k \in Nat, p \in Phases : stream' = [stream EXCEPT ![s] = StreamOf(stream[s].run, n, k, p)]
    BY <2>1 DEF Goes
  <2>3. stream[s].run \in Answered /\ controller' = controller
    BY <1>2, <2>1 DEF Goes, Live
  <2>4. PICK new : new = StreamOf(stream[s].run, n, k, p)
    OBVIOUS
  <2>5. new \in Streams /\ new.run \in Answered'
    BY <1>1, <2>3, <2>4, Attached
  <2>6. stream' = [stream EXCEPT ![s] = new]
    BY <2>2, <2>4
  <2> QED
    BY <1>1, <1>2, <2>3, <2>5, <2>6 DEF StreamShape
<1>7. CASE OverSteps
  <2>1. PICK s \in Live : Over(s)
    BY <1>7, OverEffect
  <2> QED
    BY <1>1, <1>2, <1>3, <2>1 DEF Over, StreamShape
<1>8. CASE AttachSteps
  <2>1. PICK r \in Runs : StartAttaches(r) \/ ResumeAttaches(r)
    BY <1>8 DEF AttachSteps
  <2>2. r \in Answered'
    BY <1>1, <2>1 DEF StartAttaches, StartReturns, ResumeAttaches, ResumeReturns, Answered, Shape, CallShape
  <2>3. PICK st \in [Slots -> Streams] :
          /\ BeginAttach(r, st)
          /\ \A s \in Slots : st[s] # Detached => st[s].run \in Answered
    <3>1. WithoutController \in [Slots -> Streams] /\ stream \in [Slots -> Streams]
      BY <1>2, <1>3 DEF WithoutController
    <3>2. \A s \in Slots : WithoutController[s] # Detached => WithoutController[s].run \in Answered
      BY <1>2 DEF WithoutController
    <3>3. BeginAttach(r, stream) \/ BeginAttach(r, WithoutController)
      BY <2>1 DEF StartAttaches, ResumeAttaches
    <3> QED
      BY <1>2, <3>1, <3>2, <3>3
  <2>4. PICK c : Attaches(c, r, st)
    BY <2>3, Attaching
  <2>5. PICK p \in {"open", "hung"} : stream' = [st EXCEPT ![c] = StreamOf(r, 0, 0, p)]
    BY <2>4 DEF Attaches
  <2>6. PICK new : new = StreamOf(r, 0, 0, p)
    OBVIOUS
  <2>7. new \in Streams /\ new.run \in Answered'
    BY <2>2, <2>5, <2>6, Attached DEF Phases
  <2>8. c \in Slots /\ controller' = c /\ stream' = [st EXCEPT ![c] = new]
    BY <2>4, <2>5, <2>6 DEF Attaches
  <2> QED
    BY <1>1, <2>3, <2>7, <2>8 DEF StreamShape
<1>9. CASE Refresh
  BY <1>3, <1>9 DEF Refresh, StreamShape
<1> QED
  BY <1>4, <1>5, <1>6, <1>7, <1>8, <1>9, Kinds

\* The initial state is well-formed.
LEMMA ShapeInit == Init => Shape
<1> SUFFICES ASSUME Init PROVE Shape
  OBVIOUS
<1>1. JournalShape
  BY DEF Init, JournalShape
<1>2. CallShape
  BY DEF Init, CallShape
<1>3. SessionShape
  BY DEF Init, SessionShape, Empty
<1>4. StreamShape
  BY DEF Init, StreamShape, Streams, StreamOf, Detached, Phases
<1> QED
  BY <1>1, <1>2, <1>3, <1>4 DEF Shape

\* Every step keeps the state well-formed.
LEMMA ShapeStep == ASSUME Shape, [Next]_vars PROVE Shape'
<1>1. CASE UNCHANGED vars
  BY <1>1 DEF vars, journal, calls, session, history, Shape, JournalShape, CallShape, SessionShape,
              StreamShape, Answered
<1>2. CASE Next
  BY <1>2, JournalStep, CallStep, SessionKept, StreamKept DEF Shape
<1> QED
  BY <1>1, <1>2

-----------------------------------------------------------------------------
(* Streams that nobody can abort. *)

\* While the session waits for the answer to its own start, it has no stream.
Waiting == owner \in Runs /\ call[owner] = "pending" => controller = 0

Orphans == Live \ {controller}

LeakInv == Waiting /\ LeakBounded

\* Besides Attach steps, no step gives the session a stream; besides Start and
\* Attach steps, none makes a call its owner.
LEMMA NoNewOwner ==
  ASSUME Shape, Next, ~AttachSteps
  PROVE  /\ controller' \in {controller, 0}
         /\ (AbortSteps \/ Refresh) => controller' = 0
         /\ ~(AbortSteps \/ Refresh) => owner' \in {owner, NoOwner, Stranded}
<1>1. AbortSteps \/ Refresh => controller' = 0
  BY AbortEffect DEF Aborts, Refresh
<1>2. RestSteps => controller' = controller
  BY RestEffect DEF Rests
<1>3. RestSteps => owner' \in {owner, NoOwner, Stranded}
  BY DEF RestSteps, AppendEvent, StartFails, StartSettles, StartDisposed, StartAttachThrows, StartHangs,
         Resume, ResumeRefused, StopReturns, StopHangs, history
<1>4. GoSteps => controller' = controller /\ owner' \in {owner, NoOwner, Stranded}
  BY DEF GoSteps, ReadSteps, ThrowSteps, New, ListenerThrows, Presence, TerminalThrows, RevokedThrows, Drops,
         SettleThrows
<1>5. OverSteps => controller' \in {controller, 0} /\ owner' \in {owner, NoOwner}
  BY DEF OverSteps, SettleSteps, Terminal, Completes, AccessRevoked, Revokes, Closes, Ends, Settle, Over, history
<1> QED
  BY <1>1, <1>2, <1>3, <1>4, <1>5, Kinds

\* A session that waits for its start does not get a stream by another step.
LEMMA WaitingStep == ASSUME Shape, Waiting, Next PROVE Waiting'
<1>1. CASE AttachSteps
  <2>1. PICK r \in Runs : StartAttaches(r) \/ ResumeAttaches(r)
    BY <1>1 DEF AttachSteps
  <2>2. owner' \in {r, Stranded} /\ call'[r] \in {"returned", "lost"}
    BY <2>1 DEF StartAttaches, StartReturns, ResumeAttaches, ResumeReturns, BeginAttach, Shape, CallShape,
                Answered
  <2> QED
    BY <2>2, Numbers DEF Waiting
<1>2. CASE ~AttachSteps /\ (AbortSteps \/ Refresh)
  BY <1>2, NoNewOwner DEF Waiting
<1>3. CASE ~AttachSteps /\ ~(AbortSteps \/ Refresh)
  <2>1. controller' \in {controller, 0} /\ owner' \in {owner, NoOwner, Stranded}
    BY <1>3, NoNewOwner
  <2>2. \A q \in Runs : call'[q] = "pending" => call[q] = "pending"
    BY <1>3, CallsMove DEF AbortSteps, Shape
  <2> QED
    BY <2>1, <2>2, Numbers DEF Waiting
<1> QED
  BY <1>1, <1>2, <1>3

\* The calls of runs that have crossed the session.
LEMMA CrossedGrows ==
  ASSUME Shape, Next, ~Refresh
  PROVE  crossed \subseteq crossed'
<1>1. GoSteps \/ OverSteps => crossed' = crossed
  BY DEF GoSteps, ReadSteps, ThrowSteps, New, ListenerThrows, Presence, TerminalThrows, RevokedThrows, Drops,
         SettleThrows, OverSteps, SettleSteps, Terminal, Completes, AccessRevoked, Revokes, Closes, Ends,
         Settle, history
<1>2. AbortSteps => crossed' = crossed \/ \E c : crossed' = crossed \cup {c}
  BY DEF AbortSteps, Start, StartThrows, ResumeThrows, ResumeReturns, Stop, Reset, Dispose, Crosses
<1>3. RestSteps \/ AttachSteps => crossed' = crossed \/ \E c : crossed' = crossed \cup {c}
  BY DEF RestSteps, AppendEvent, StartFails, StartSettles, StartDisposed, StartAttachThrows, StartHangs,
         Resume, ResumeRefused, StopReturns, StopHangs,
         AttachSteps, StartAttaches, ResumeAttaches, ResumeReturns, Crosses, history
<1> QED
  BY <1>1, <1>2, <1>3, Kinds

\* Every step but the attachment of a start leaves no more streams behind than
\* there were.
LEMMA OrphansStay ==
  ASSUME Shape, Next, \A r \in Runs : ~StartAttaches(r)
  PROVE  Orphans' \subseteq Orphans
<1>0. 0 \notin Slots /\ stream \in [Slots -> Streams] /\ Live \subseteq Slots
  BY Numbers DEF Shape, StreamShape, Live
<1>1. CASE AbortSteps
  <2>1. Aborts
    BY <1>1, AbortEffect
  <2> QED
    BY <2>1 DEF Aborts, Orphans, Live
<1>2. CASE RestSteps
  BY <1>2, RestEffect DEF Rests, Orphans, Live
<1>3. CASE GoSteps
  <2>1. PICK s \in Slots : Goes(s)
    BY <1>3, GoEffect
  <2>2. s \in Live /\ controller' = controller
    BY <2>1 DEF Goes
  <2>3. \A q \in Slots : q # s => stream'[q] = stream[q]
    BY <1>0, <2>1 DEF Goes
  <2> QED
    BY <2>2, <2>3 DEF Orphans, Live
<1>4. CASE OverSteps
  <2>1. PICK s \in Live : Over(s)
    BY <1>4, OverEffect
  <2>2. s \in Slots /\ stream' = [stream EXCEPT ![s] = Detached]
        /\ controller' = IF controller = s THEN 0 ELSE controller
    BY <2>1 DEF Over, Live
  <2>3. stream'[s] = Detached /\ \A q \in Slots : q # s => stream'[q] = stream[q]
    BY <1>0, <2>2
  <2> QED
    BY <2>2, <2>3 DEF Orphans, Live
<1>5. CASE AttachSteps
  <2>1. PICK r \in Runs : ResumeAttaches(r)
    BY <1>5 DEF AttachSteps
  <2>2. PICK c : Attaches(c, r, WithoutController)
    BY <2>1, Attaching DEF ResumeAttaches
  <2>3. /\ controller' = c
        /\ \E p \in {"open", "hung"} : stream' = [WithoutController EXCEPT ![c] = StreamOf(r, 0, 0, p)]
    BY <2>2 DEF Attaches
  <2>4. \A q \in Slots : q # c => stream'[q] = IF q = controller THEN Detached ELSE stream[q]
    BY <2>3 DEF WithoutController
  <2> QED
    BY <2>3, <2>4 DEF Orphans, Live
<1>6. CASE Refresh
  BY <1>6 DEF Refresh, Orphans, Live
<1> QED
  BY <1>1, <1>2, <1>3, <1>4, <1>5, <1>6, Kinds

\* The answer to the session's own start leaves none behind either, and another
\* one at most the stream the session had.
LEMMA OrphansGrow ==
  ASSUME Shape, Waiting, NEW r \in Runs, StartAttaches(r)
  PROVE  /\ owner = r => Orphans' \subseteq Orphans
         /\ Orphans' \subseteq Orphans \cup {controller}
         /\ call[r] = "pending" /\ r \notin crossed
<1>1. PICK c : Attaches(c, r, stream)
  BY Attaching DEF StartAttaches
<1>2. controller' = c /\ \A q \in Slots : q # c => stream'[q] = stream[q]
  BY <1>1 DEF Attaches, Shape, StreamShape
<1>3. call[r] = "pending"
  BY DEF StartAttaches, StartReturns
<1>4. owner = r => controller = 0
  BY <1>3 DEF Waiting
<1>5. r \notin crossed
  BY <1>3 DEF Shape, CallShape, Answered
<1>6. Orphans' \subseteq Live
  BY <1>2 DEF Orphans, Live
<1>7. Live \subseteq Orphans \cup {controller} /\ 0 \notin Live
  BY Numbers DEF Orphans, Live
<1> QED
  BY <1>3, <1>4, <1>5, <1>6, <1>7

\* A stream is left behind only by an answer that is counted as crossed.
LEMMA LeakStep == ASSUME Shape, LeakInv, Next PROVE LeakInv'
<1>1. Waiting'
  BY WaitingStep DEF LeakInv
<1>2. /\ IsFiniteSet(Orphans) /\ IsFiniteSet(Orphans') /\ IsFiniteSet(crossed \cap Runs)
      /\ IsFiniteSet(crossed' \cap Runs)
  <2>1. Orphans \subseteq Slots /\ Orphans' \subseteq Slots
    BY DEF Orphans, Live
  <2> QED
    BY <2>1, Numbers, FS_Subset
<1>3. Cardinality(Orphans) <= Cardinality(crossed \cap Runs)
  BY DEF LeakInv, LeakBounded, Orphans
<1>4. /\ Cardinality(Orphans) \in Nat /\ Cardinality(Orphans') \in Nat
      /\ Cardinality(crossed \cap Runs) \in Nat /\ Cardinality(crossed' \cap Runs) \in Nat
  BY <1>2, FS_CardinalityType
<1>5. Cardinality(Orphans') <= Cardinality(crossed' \cap Runs)
  <2>1. CASE Refresh
    <3>1. Orphans' = {}
      BY <2>1 DEF Refresh, Orphans, Live
    <3> QED
      BY <1>4, <3>1, FS_EmptySet
  <2>2. CASE ~Refresh /\ \A r \in Runs : ~StartAttaches(r)
    <3>1. Orphans' \subseteq Orphans /\ crossed \cap Runs \subseteq crossed' \cap Runs
      BY <2>2, OrphansStay, CrossedGrows
    <3>2. /\ Cardinality(Orphans') <= Cardinality(Orphans)
          /\ Cardinality(crossed \cap Runs) <= Cardinality(crossed' \cap Runs)
      BY <1>2, <3>1, FS_Subset
    <3> QED
      BY <1>3, <1>4, <3>2
  <2>3. ASSUME NEW r \in Runs, StartAttaches(r)
        PROVE  Cardinality(Orphans') <= Cardinality(crossed' \cap Runs)
    <3>1. /\ owner = r => Orphans' \subseteq Orphans
          /\ Orphans' \subseteq Orphans \cup {controller}
          /\ r \notin crossed
      BY <2>3, OrphansGrow DEF LeakInv
    <3>2. crossed' = IF owner # r THEN crossed \cup {r} ELSE crossed
      BY <2>3 DEF StartAttaches, Crosses
    <3>3. CASE owner = r
      <4>1. Cardinality(Orphans') <= Cardinality(Orphans)
        BY <1>2, <3>1, <3>3, FS_Subset
      <4> QED
        BY <1>3, <1>4, <3>2, <3>3, <4>1
    <3>4. CASE owner # r
      <4>1. crossed' \cap Runs = (crossed \cap Runs) \cup {r} /\ r \notin crossed \cap Runs
        BY <3>1, <3>2, <3>4
      <4>2. Cardinality(crossed' \cap Runs) = Cardinality(crossed \cap Runs) + 1
        BY <1>2, <4>1, FS_AddElement
      <4>3. /\ IsFiniteSet(Orphans \cup {controller})
            /\ Cardinality(Orphans \cup {controller}) <= Cardinality(Orphans) + 1
        <5>1. /\ IsFiniteSet(Orphans \cup {controller})
              /\ Cardinality(Orphans \cup {controller}) =
                   IF controller \in Orphans THEN Cardinality(Orphans) ELSE Cardinality(Orphans) + 1
          BY <1>2, FS_AddElement, Zenon
        <5> QED
          BY <1>4, <5>1
      <4>4. Cardinality(Orphans') <= Cardinality(Orphans \cup {controller})
        BY <3>1, <4>3, FS_Subset
      <4>5. Cardinality(Orphans \cup {controller}) \in Nat
        BY <4>3, FS_CardinalityType
      <4> QED
        BY <1>3, <1>4, <4>2, <4>3, <4>4, <4>5
    <3> QED
      BY <3>3, <3>4
  <2> QED
    BY <2>1, <2>2, <2>3
<1>6. disposed' /\ Resumer \notin crossed' => controller' = 0
  <2>1. CASE AttachSteps
    <3>1. PICK r \in Runs : StartAttaches(r) \/ ResumeAttaches(r)
      BY <2>1 DEF AttachSteps
    <3>2. StartAttaches(r) => ~disposed'
      BY DEF StartAttaches, StartReturns
    <3>3. ResumeAttaches(r) => disposed' = disposed /\ (disposed => Resumer \in crossed')
      BY DEF ResumeAttaches, ResumeReturns, Crosses
    <3> QED
      BY <3>1, <3>2, <3>3
  <2>2. CASE ~AttachSteps /\ (AbortSteps \/ Refresh)
    BY <2>2, NoNewOwner
  <2>3. CASE ~AttachSteps /\ ~(AbortSteps \/ Refresh)
    <3>1. controller' \in {controller, 0} /\ crossed \subseteq crossed'
      BY <2>3, NoNewOwner, CrossedGrows
    <3>2. disposed' = disposed
      BY <2>3, DisposedStays, Kinds
    <3>3. disposed /\ Resumer \notin crossed => controller = 0
      BY DEF LeakInv, LeakBounded
    <3> QED
      BY <3>1, <3>2, <3>3
  <2> QED
    BY <2>1, <2>2, <2>3
<1> QED
  BY <1>1, <1>5, <1>6 DEF LeakInv, LeakBounded, Orphans

\* Streams that the session cannot abort any more number at most the starts
\* whose answers met a session that had moved on, and a disposed session that
\* was not being resumed has no stream (run-session.ts start, stop, reset,
\* dispose, resume).
THEOREM LeaksSafe == Spec => []LeakBounded
<1> DEFINE IInv == Shape /\ LeakInv
<1>1. Init => IInv
  <2> SUFFICES ASSUME Init PROVE IInv
    OBVIOUS
  <2>1. Live = {}
    BY DEF Init, Live
  <2>2. Live \ {controller} = {} /\ crossed \cap Runs = {}
    BY <2>1 DEF Init
  <2>3. LeakBounded
    BY <2>2, FS_EmptySet DEF LeakBounded, Init
  <2> QED
    BY <2>3, ShapeInit, Numbers DEF LeakInv, Waiting, Init
<1>2. IInv /\ [Next]_vars => IInv'
  <2> SUFFICES ASSUME IInv, [Next]_vars PROVE IInv'
    OBVIOUS
  <2>1. CASE UNCHANGED vars
    BY <2>1, ShapeStep DEF vars, calls, session, history, LeakInv, Waiting, LeakBounded, Live
  <2> QED
    BY <2>1, ShapeStep, LeakStep
<1>3. IInv => LeakBounded
  BY DEF LeakInv
<1> QED
  BY <1>1, <1>2, <1>3, PTL DEF Spec

-----------------------------------------------------------------------------
(* The session that no answer has crossed. *)

\* Its stream is the only one, of its run; once the session has settled, it goes
\* on only if a subscriber has thrown.
OwnStream ==
  /\ Live \subseteq {controller}
  /\ controller # 0 => /\ controller \in Live /\ stream[controller].run = runId
                       /\ \/ status \in Busy /\ owner \notin {NoOwner, Stopper}
                          \/ status \in {"ready", "error"} /\ thrown

\* Its start call is the only one it waits for, and no cursor of the run it is
\* busy with is being read.
OwnCall ==
  /\ owner \in Runs /\ call[owner] = "pending" => status = "submitted" /\ runId = 0 /\ view = Empty
  /\ status \in Busy => runId \notin resuming

OwnCursor ==
  /\ status = "streaming" => runId \in cursor \/ unstored
  /\ status \in {"ready", "error"} /\ runId \in cursor => unstored \/ thrown

\* Its view is of its run, and what its stream has read of the journal.
ViewOfRun ==
  view # Empty => /\ view.run = runId /\ runId \in Runs /\ view.first \in 1..Oldest(runId)
                  /\ view.first <= view.last

OwnView == ViewOfRun /\ (controller # 0 => stream[controller].lastSeq = view.last)

Quiet == OwnStream /\ OwnCall /\ OwnCursor /\ OwnView

QuietInv == crossed = {} => Quiet

\* A live stream is of a run, at a position of its journal.
LEMMA Positions == ASSUME Shape, NEW s \in Live
                   PROVE  /\ s \in Slots /\ s # 0 /\ stream[s].run \in Runs /\ stream[s].run # 0
                          /\ stream[s].lastSeq \in Nat /\ stream[s] \in Streams
<1>1. s \in Slots /\ stream[s] # Detached
  BY DEF Live
<1>2. stream[s] \in Streams /\ stream[s].run \in Runs
  BY <1>1 DEF Shape, StreamShape, Answered
<1> QED
  BY <1>1, <1>2, Numbers DEF Streams

\* No event is ever dropped from a journal, so the oldest retained one only moves on.
LEMMA OldestGrows ==
  ASSUME Shape, Next, NEW r \in Runs
  PROVE  Oldest(r) \in Nat /\ Oldest(r)' \in Nat /\ Oldest(r) <= Oldest(r)'
<1>1. JournalShape /\ JournalShape'
  BY JournalStep DEF Shape
<1>2. head'[r] \in Nat /\ head[r] \in Nat /\ Cap \in Nat /\ Cap >= 1
  BY <1>1, Numbers DEF JournalShape
<1>3. head[r] <= head'[r]
  <2>1. CASE UNCHANGED journal
    BY <1>2, <2>1 DEF journal
  <2>2. CASE JournalSteps
    <3>1. PICK q \in Runs : head' = head \/ head' = [head EXCEPT ![q] = @ + 1]
      BY <2>2 DEF JournalSteps, AppendEvent, StopReturns, journal
    <3>2. head \in [Runs -> Nat]
      BY DEF Shape, JournalShape
    <3> QED
      BY <1>2, <3>1, <3>2
  <2> QED
    BY <2>1, <2>2, OtherJournal
<1>4. head'[r] - Cap + 1 \in Int /\ head[r] - Cap + 1 \in Int
  BY <1>2
<1>5. /\ Oldest(r) = IF 1 >= head[r] - Cap + 1 THEN 1 ELSE head[r] - Cap + 1
      /\ Oldest(r)' = IF 1 >= head'[r] - Cap + 1 THEN 1 ELSE head'[r] - Cap + 1
  BY <1>4, MaxOfTwo DEF Oldest
<1> QED
  BY <1>2, <1>3, <1>5

\* A view that stays where it is stays a view of the journal.
LEMMA ViewStays ==
  ASSUME Shape, Next, ViewOfRun, UNCHANGED <<view, runId>> \/ view' = Empty
  PROVE  ViewOfRun'
<1>1. CASE view' = Empty
  BY <1>1 DEF ViewOfRun
<1>2. CASE view' # Empty
  <2>1. view' = view /\ runId' = runId /\ view # Empty
    BY <1>2
  <2>2. view.run = runId /\ runId \in Runs /\ view.first \in 1..Oldest(runId) /\ view.first <= view.last
    BY <2>1 DEF ViewOfRun
  <2>3. PICK r \in Runs : r = runId
    BY <2>2
  <2>4. Oldest(r) \in Nat /\ Oldest(r)' \in Nat /\ Oldest(r) <= Oldest(r)'
    BY OldestGrows
  <2>5. view.first \in 1..Oldest(r)'
    BY <2>2, <2>3, <2>4
  <2>6. Oldest(r)' = Max({1, head'[r] - Cap + 1})
    BY DEF Oldest
  <2>7. view'.first \in 1..Max({1, head'[runId'] - Cap + 1})
    BY <2>1, <2>3, <2>5, <2>6
  <2> QED
    BY <2>1, <2>2, <2>7 DEF ViewOfRun, Oldest
<1> QED
  BY <1>1, <1>2

\* A session that aborts its stream stays quiet.
LEMMA QuietAbort == ASSUME Shape, Quiet, Next, AbortSteps PROVE Quiet'
<1>1. Aborts
  BY AbortEffect
<1>2. controller' = 0 /\ Live' = {}
  BY <1>1 DEF Aborts, Quiet, OwnStream, Live
<1>3. OwnStream'
  BY <1>2 DEF OwnStream
<1>4. UNCHANGED <<view, runId>> \/ view' = Empty
  BY DEF AbortSteps, Start, StartThrows, ResumeThrows, Begins, Stop, Reset, Dispose
<1>5. OwnView'
  BY <1>2, <1>4, ViewStays DEF OwnView, Quiet
<1>6. OwnCall' /\ OwnCursor'
  <2>1. CASE StartThrows \/ \E r \in Runs : Start(r)
    <3>1. 0 \notin resuming
      BY Numbers DEF Shape, CallShape, Answered
    <3>2. status' = "submitted" /\ runId' = 0 /\ view' = Empty /\ resuming' = resuming
      BY <2>1 DEF Start, StartThrows, Begins, calls
    <3> QED
      BY <3>1, <3>2 DEF OwnCall, OwnCursor
  <2>2. ASSUME NEW r \in Runs, ResumeThrows(r) PROVE OwnCall' /\ OwnCursor'
    <3>1. /\ status' = "submitted" /\ runId' = r /\ owner' = Stranded /\ r \notin resuming'
      BY <2>2 DEF ResumeThrows, ResumeReturns, Begins
    <3> QED
      BY <3>1, Numbers DEF OwnCall, OwnCursor
  <2>3. CASE Stop
    <3>1. owner' \notin Runs /\ runId' = runId /\ resuming' = resuming /\ thrown' = thrown
      BY <2>3, Numbers DEF Stop
    <3>2. \/ status' = "ready" /\ (runId \notin cursor' \/ unstored')
          \/ UNCHANGED <<status, cursor, unstored>>
      BY <2>3 DEF Stop, Finalize
    <3> QED
      BY <3>1, <3>2 DEF Quiet, OwnCall, OwnCursor, Busy
  <2>4. CASE Reset \/ Dispose
    <3>1. owner' \notin Runs /\ resuming' = resuming
      BY <2>4, Numbers DEF Reset, Dispose, calls
    <3>2. status' = "idle" \/ UNCHANGED <<status, cursor, runId, unstored, thrown>>
      BY <2>4 DEF Reset, Dispose
    <3> QED
      BY <3>1, <3>2 DEF Quiet, OwnCall, OwnCursor, Busy
  <2> QED
    BY <2>1, <2>2, <2>3, <2>4 DEF AbortSteps
<1> QED
  BY <1>3, <1>5, <1>6 DEF Quiet

\* An answer that settles the session finds it without a stream, or settled.
LEMMA QuietRest ==
  ASSUME Shape, Waiting, Quiet, Next, RestSteps, crossed' = {}
  PROVE  Quiet'
<1>0. stream' = stream /\ controller' = controller /\ Live' = Live
  BY RestEffect DEF Rests, Live
<1>1. PICK r \in Runs : \/ AppendEvent(r) \/ StartFails(r) \/ StartSettles(r) \/ StartDisposed(r)
                        \/ StartAttachThrows(r) \/ StartHangs(r) \/ Resume(r) \/ ResumeRefused(r)
                        \/ StopReturns(r) \/ StopHangs(r)
  BY DEF RestSteps
<1>2. CASE StartFails(r) \/ StartSettles(r) \/ StopReturns(r)
  <2>1. /\ controller = 0 \/ (runId' = runId /\ thrown)
        /\ (UNCHANGED <<view, runId>> \/ view' = Empty) /\ (view' = view)
        /\ status' \in {"ready", "error"} /\ (runId' \notin cursor' \/ unstored')
        /\ owner' = NoOwner /\ thrown' = thrown
    <3>1. CASE StopReturns(r)
      <4>1. owner \in {Stopper, NoOwner}
        BY <3>1 DEF StopReturns, Crosses
      <4> QED
        BY <3>1, <4>1 DEF Quiet, OwnStream, StopReturns, Finalize
    <3>2. CASE StartFails(r) \/ StartSettles(r)
      <4>1. owner = r /\ call[r] = "pending"
        BY <3>2 DEF StartFails, StartSettles, StartReturns, Crosses
      <4>2. controller = 0 /\ view = Empty
        BY <4>1 DEF Waiting, Quiet, OwnCall
      <4> QED
        BY <3>2, <4>2 DEF StartFails, StartSettles, StartReturns, Finalize
    <3> QED
      BY <1>2, <3>1, <3>2
  <2>2. ViewOfRun'
    BY <2>1, ViewStays DEF Quiet, OwnView
  <2>3. OwnStream' /\ OwnView'
    BY <1>0, <2>1, <2>2 DEF Quiet, OwnStream, OwnView
  <2> QED
    BY <2>1, <2>3, Numbers DEF Quiet, OwnCall, OwnCursor, Busy
<1>3. CASE StartAttachThrows(r)
  <2>1. owner = r /\ call[r] = "pending"
    BY <1>3 DEF StartAttachThrows, StartReturns, Crosses
  <2>2. controller = 0 /\ view = Empty /\ status = "submitted"
    BY <2>1 DEF Waiting, Quiet, OwnCall
  <2>3. /\ runId' = r /\ owner' = Stranded
        /\ UNCHANGED <<view, status, resuming>>
    BY <1>3, <2>1 DEF StartAttachThrows, StartReturns
  <2>4. r \notin resuming
    BY <2>1 DEF Shape, CallShape, Answered
  <2>5. ViewOfRun'
    BY <2>2, <2>3 DEF ViewOfRun
  <2> QED
    BY <1>0, <2>2, <2>3, <2>4, <2>5, Numbers DEF Quiet, OwnStream, OwnCall, OwnCursor, OwnView
<1>4. CASE \/ AppendEvent(r) \/ StartDisposed(r) \/ StartHangs(r) \/ Resume(r) \/ ResumeRefused(r)
           \/ StopHangs(r)
  <2>1. UNCHANGED <<view, runId, status, unstored, thrown>> /\ owner' \in {owner, Stranded}
    BY <1>4 DEF AppendEvent, StartDisposed, StartHangs, StartReturns, Resume, ResumeRefused, StopHangs,
                session, history
  <2>2. ViewOfRun'
    BY <2>1, ViewStays DEF Quiet, OwnView
  <2>3. OwnStream' /\ OwnView'
    BY <1>0, <2>1, <2>2, Numbers DEF Quiet, OwnStream, OwnView
  <2>4. \A q \in Runs : call'[q] = "pending" => call[q] = "pending"
    BY <1>4 DEF AppendEvent, StartDisposed, StartHangs, StartReturns, Resume, ResumeRefused, StopHangs,
                calls, Shape, CallShape
  <2>5. status \in Busy => runId \notin resuming'
    BY <1>4 DEF AppendEvent, StartDisposed, StartHangs, StartReturns, Resume, ResumeRefused, StopHangs,
                calls, Quiet, OwnCall
  <2>6. OwnCall'
    BY <2>1, <2>4, <2>5, Numbers DEF Quiet, OwnCall
  <2>7. OwnCursor'
    <3>1. /\ cursor' \subseteq cursor
          /\ cursor' # cursor => r \in resuming /\ cursor' = cursor \ {r}
      BY <1>4 DEF AppendEvent, StartDisposed, StartHangs, Resume, ResumeRefused, StopHangs, session
    <3> QED
      BY <2>1, <3>1 DEF Quiet, OwnCall, OwnCursor, Busy
  <2> QED
    BY <2>3, <2>6, <2>7 DEF Quiet
<1> QED
  BY <1>1, <1>2, <1>3, <1>4

\* The session's stream reads on where its view ends.
LEMMA QuietReads ==
  ASSUME Shape, Quiet, NEW s \in Slots, Receives(s),
         view' = Applied(stream[s].run, NextEvent(s)), UNCHANGED <<head, runId>>
  PROVE  s = controller /\ view'.last = NextEvent(s) /\ ViewOfRun'
<1>1. /\ s \in Live /\ stream[s].run \in Runs /\ stream[s].lastSeq \in Nat
      /\ NextEvent(s) \in Nat \ {0}
      /\ NextEvent(s) = IF stream[s].lastSeq + 1 >= Oldest(stream[s].run)
                        THEN stream[s].lastSeq + 1 ELSE Oldest(stream[s].run)
      /\ ~TooOld(stream[s].run, stream[s].lastSeq)
  BY Reading
<1>2. s = controller /\ controller # 0
  BY <1>1, Numbers DEF Quiet, OwnStream, Live
<1>3. stream[s].run = runId /\ stream[s].lastSeq = view.last
  BY <1>2 DEF Quiet, OwnStream, OwnView
<1>4. PICK r \in Runs : r = runId
  BY <1>1, <1>3
<1>5. PICK n \in Nat \ {0} : n = NextEvent(s)
  BY <1>1
<1>6. Oldest(r) \in Nat /\ Oldest(r) >= 1
  BY Retained DEF Shape
<1>7. view \in Views /\ view.last \in Nat /\ view.first \in Nat
  BY DEF Shape, SessionShape, Views
<1>8. n = IF view.last + 1 >= Oldest(r) THEN view.last + 1 ELSE Oldest(r)
  BY <1>1, <1>3, <1>4, <1>5
<1>9. view.last > 0 /\ Oldest(r) > 1 => view.last >= Oldest(r) - 1
  BY <1>1, <1>3, <1>4, <1>6, <1>7 DEF TooOld
<1>10. r \in Nat \ {0} /\ view' = Applied(r, n)
  BY <1>3, <1>4, <1>5, Numbers
<1>11. /\ n > view.last /\ view = Empty => view' = [run |-> r, first |-> n, last |-> n]
       /\ n = view.last + 1 /\ view # Empty /\ view.run = r =>
            view' = [run |-> r, first |-> view.first, last |-> n]
  BY <1>7, <1>10, ApplyingEvent
<1>12. Oldest(runId)' = Oldest(r) /\ runId' = r
  BY <1>4 DEF Oldest
<1>13. CASE view = Empty
  <2>1. view.last = 0
    BY <1>13 DEF Empty
  <2>2. n = Oldest(r) /\ view' = [run |-> r, first |-> n, last |-> n]
    BY <1>6, <1>8, <1>11, <1>13, <2>1
  <2>3. view'.run = r /\ view'.first = n /\ view'.last = n
    BY <2>2
  <2>4. ViewOfRun'
    BY <1>6, <1>12, <2>2, <2>3 DEF ViewOfRun
  <2> QED
    BY <1>2, <1>5, <2>3, <2>4
<1>14. CASE view # Empty
  <2>1. view.run = r /\ view.first \in 1..Oldest(r) /\ view.first <= view.last
    BY <1>4, <1>14 DEF Quiet, OwnView, ViewOfRun
  <2>2. view.last > 0
    BY <1>6, <1>7, <2>1
  <2>3. n = view.last + 1
    BY <1>6, <1>7, <1>8, <1>9, <2>2
  <2>4. view' = [run |-> r, first |-> view.first, last |-> n]
    BY <1>11, <1>14, <2>1, <2>3
  <2>5. view'.run = r /\ view'.first = view.first /\ view'.last = n
    BY <2>4
  <2>6. view'.first <= view'.last
    BY <1>7, <2>1, <2>3, <2>5
  <2>7. ViewOfRun'
    BY <1>12, <2>1, <2>5, <2>6 DEF ViewOfRun
  <2> QED
    BY <1>2, <1>5, <2>5, <2>7
<1> QED
  BY <1>13, <1>14

\* What the steps of a live stream that goes on do to the session.
LEMMA GoSession ==
  ASSUME NEW s \in Slots, ReadSteps(s) \/ ThrowSteps(s) \/ Drops(s)
  PROVE  /\ UNCHANGED <<head, call, resuming, runId, controller>>
         /\ owner' \in {owner, NoOwner, Stranded}
         /\ ReadSteps(s) => /\ owner' = owner /\ thrown' = thrown
                            /\ status' = IF status = "submitted" THEN "streaming" ELSE status
                            /\ runId # 0 => runId \in cursor' \/ unstored'
         /\ Drops(s) => UNCHANGED <<status, cursor, unstored, thrown>> /\ owner' \in {owner, Stranded}
         /\ ThrowSteps(s) => status' \in {"ready", "error"} /\ thrown'
<1>1. ReadSteps(s) => /\ UNCHANGED <<head, call, resuming, runId, controller, owner, thrown>>
                      /\ status' = IF status = "submitted" THEN "streaming" ELSE status
                      /\ runId # 0 => runId \in cursor' \/ unstored'
  BY DEF ReadSteps, New, ListenerThrows, Presence, OnEvent, Persist, Persisted, streamFrame, journal, calls
<1>2. Drops(s) => /\ UNCHANGED <<head, call, resuming, runId, controller, status, cursor, unstored, thrown>>
                  /\ owner' \in {owner, Stranded}
  BY DEF Drops, streamFrame, journal, calls
<1>3. ThrowSteps(s) => /\ UNCHANGED <<head, call, resuming, runId, controller>>
                       /\ status' \in {"ready", "error"} /\ thrown' /\ owner' = NoOwner
  BY DEF ThrowSteps, TerminalThrows, RevokedThrows, Completes, Revokes, Finalize, SettleThrows, streamFrame,
         journal, calls
<1> QED
  BY <1>1, <1>2, <1>3

\* A stream that goes on keeps the session quiet: the event it reads is the
\* next one of the view.
LEMMA QuietGo == ASSUME Shape, Waiting, Quiet, Next, GoSteps PROVE Quiet'
<1>1. PICK s \in Slots : ReadSteps(s) \/ ThrowSteps(s) \/ Drops(s)
  BY DEF GoSteps
<1>2. PICK n \in Nat : Reads(s, n) /\ ViewOfRun' /\ n = view'.last
  <2>1. UNCHANGED <<head, runId>>
    BY <1>1, GoSession
  <2>2. CASE New(s) \/ ListenerThrows(s) \/ TerminalThrows(s)
    <3>1. Receives(s) /\ Reads(s, NextEvent(s)) /\ NextEvent(s) \in Nat
      BY <2>2, GoReads
    <3>2. view' = Applied(stream[s].run, NextEvent(s))
      BY <2>2 DEF New, ListenerThrows, OnEvent, TerminalThrows, Completes
    <3>3. view'.last = NextEvent(s) /\ ViewOfRun'
      BY <2>1, <3>1, <3>2, QuietReads
    <3> QED
      BY <3>1, <3>3
  <2>3. CASE Presence(s) \/ RevokedThrows(s) \/ Drops(s)
    <3>1. Reads(s, stream[s].lastSeq) /\ stream[s].lastSeq \in Nat
      BY <2>3, GoReads
    <3>2. view' = view
      BY <2>3 DEF Presence, RevokedThrows, Revokes, Drops
    <3>3. ViewOfRun'
      BY <2>1, <3>2, ViewStays DEF Quiet, OwnView
    <3>4. stream[s].lastSeq = view.last
      BY <3>1, Positions DEF Reads, Quiet, OwnStream, OwnView
    <3> QED
      BY <3>1, <3>2, <3>3, <3>4
  <2> QED
    BY <1>1, <2>2, <2>3 DEF ReadSteps, ThrowSteps
<1>3. s \in Live /\ s = controller /\ controller # 0 /\ runId # 0 /\ runId \in Runs
  BY <1>2, Positions, Numbers DEF Reads, Quiet, OwnStream
<1>4. /\ UNCHANGED <<call, resuming, runId, controller>> /\ owner' \in {owner, NoOwner, Stranded}
  BY <1>1, GoSession
<1>5. owner \in Runs => call[owner] # "pending"
  BY <1>3 DEF Waiting
<1>6. \/ status \in Busy /\ owner \notin {NoOwner, Stopper}
      \/ status \in {"ready", "error"} /\ thrown
  BY <1>3 DEF Quiet, OwnStream
<1>7. PICK k \in Nat, p \in Phases : stream' = [stream EXCEPT ![s] = StreamOf(stream[s].run, n, k, p)]
  BY <1>2 DEF Reads
<1>8. PICK new : new = StreamOf(stream[s].run, n, k, p)
  OBVIOUS
<1>9. new.run = runId /\ new.lastSeq = n /\ new # Detached
  <2>1. stream[s].run = runId
    BY <1>3 DEF Quiet, OwnStream
  <2> QED
    BY <1>3, <1>8, <2>1, Attached
<1>10. stream'[s] = new /\ \A q \in Slots : q # s => stream'[q] = stream[q]
  BY <1>7, <1>8 DEF Shape, StreamShape
<1>11. Live' = Live
  BY <1>3, <1>9, <1>10 DEF Live
<1>12. /\ \/ status' \in Busy /\ owner' \notin {NoOwner, Stopper}
          \/ status' \in {"ready", "error"} /\ thrown'
       /\ OwnCursor'
  <2>1. CASE ReadSteps(s)
    <3>1. /\ owner' = owner /\ thrown' = thrown
          /\ status' = IF status = "submitted" THEN "streaming" ELSE status
          /\ runId' \in cursor' \/ unstored'
      BY <1>3, <1>4, <2>1, GoSession
    <3> QED
      BY <1>6, <3>1 DEF Busy, OwnCursor
  <2>2. CASE Drops(s)
    <3>1. UNCHANGED <<status, cursor, unstored, thrown>> /\ owner' \in {owner, Stranded}
      BY <2>2, GoSession
    <3> QED
      BY <1>4, <1>6, <3>1, Numbers DEF Quiet, OwnCursor
  <2>3. CASE ThrowSteps(s)
    <3>1. status' \in {"ready", "error"} /\ thrown'
      BY <2>3, GoSession
    <3> QED
      BY <3>1 DEF OwnCursor
  <2> QED
    BY <1>1, <2>1, <2>2, <2>3
<1>13. OwnStream'
  <2>1. controller' = s /\ s \in Live' /\ Live' \subseteq {s} /\ stream'[s].run = runId'
    BY <1>3, <1>4, <1>9, <1>10, <1>11 DEF Quiet, OwnStream
  <2> QED
    BY <1>12, <2>1 DEF OwnStream
<1>14. OwnView'
  BY <1>2, <1>3, <1>4, <1>9, <1>10 DEF OwnView
<1>15. OwnCall'
  <2>1. status' \in Busy => status \in Busy
    BY <1>1, GoSession DEF Busy
  <2> QED
    BY <1>4, <1>5, <2>1, Numbers DEF Quiet, OwnCall
<1> QED
  BY <1>12, <1>13, <1>14, <1>15 DEF Quiet

\* So does a stream that is over: the session settles, or it had settled.
LEMMA QuietOver == ASSUME Shape, Waiting, Quiet, Next, OverSteps PROVE Quiet'
<1>1. PICK s \in Slots : SettleSteps(s) \/ Ends(s)
  BY DEF OverSteps
<1>2. s \in Live /\ Over(s) /\ UNCHANGED <<head, call, resuming, runId, thrown>>
  BY <1>1 DEF SettleSteps, Terminal, Completes, AccessRevoked, Revokes, Closes, Ends, Receives, Connected,
              Settle, streamFrame, journal, calls, history
<1>3. s = controller /\ controller # 0 /\ Live \subseteq {s}
  BY <1>2, Positions DEF Quiet, OwnStream
<1>4. controller' = 0 /\ stream' = [stream EXCEPT ![s] = Detached]
  BY <1>2, <1>3 DEF Over
<1>5. Live' = {}
  BY <1>3, <1>4 DEF Live, Shape, StreamShape
<1>6. ViewOfRun'
  <2>1. CASE Terminal(s)
    <3>1. Receives(s) /\ view' = Applied(stream[s].run, NextEvent(s))
      BY <2>1 DEF Terminal, Completes
    <3> QED
      BY <1>2, <3>1, QuietReads
  <2>2. CASE AccessRevoked(s) \/ Closes(s) \/ Ends(s)
    <3>1. view' = view
      BY <2>2 DEF AccessRevoked, Revokes, Closes, Ends
    <3> QED
      BY <1>2, <3>1, ViewStays DEF Quiet, OwnView
  <2> QED
    BY <1>1, <2>1, <2>2 DEF SettleSteps
<1>7. OwnStream' /\ OwnView'
  BY <1>4, <1>5, <1>6 DEF OwnStream, OwnView
<1>8. OwnCall' /\ OwnCursor'
  <2>1. CASE SettleSteps(s)
    <3>1. owner' = NoOwner /\ status' \in {"ready", "error"} /\ (runId \notin cursor' \/ unstored')
      BY <2>1 DEF SettleSteps, Terminal, Completes, AccessRevoked, Revokes, Closes, Settle, Finalize
    <3> QED
      BY <1>2, <3>1, Numbers DEF OwnCall, OwnCursor, Busy
  <2>2. CASE Ends(s)
    <3>1. UNCHANGED <<status, cursor, owner, unstored>>
      BY <2>2 DEF Ends, history
    <3>2. owner \in Runs => call[owner] # "pending"
      BY <1>3 DEF Waiting
    <3> QED
      BY <1>2, <3>1, <3>2 DEF Quiet, OwnCall, OwnCursor
  <2> QED
    BY <1>1, <2>1, <2>2
<1> QED
  BY <1>7, <1>8 DEF Quiet

\* So does an attachment that finds the session waiting for it, or idle.
LEMMA QuietAttach ==
  ASSUME Shape, Waiting, Quiet, Next, AttachSteps, crossed' = {}
  PROVE  Quiet'
<1>1. PICK r \in Runs : StartAttaches(r) \/ ResumeAttaches(r)
  BY DEF AttachSteps
<1>2. PICK st : /\ BeginAttach(r, st) /\ st \in [Slots -> Streams]
                /\ \A q \in Slots : st[q] = Detached
                /\ runId' = r /\ view' = Empty /\ status' = "submitted"
                /\ r \notin resuming'
                /\ call'[r] # "pending"
  <2>1. CASE StartAttaches(r)
    <3>1. owner = r /\ call[r] = "pending"
      BY <2>1 DEF StartAttaches, StartReturns, Crosses
    <3>2. controller = 0 /\ view = Empty /\ status = "submitted"
      BY <3>1 DEF Waiting, Quiet, OwnCall
    <3>3. \A q \in Slots : stream[q] = Detached
      BY <3>2, Numbers DEF Quiet, OwnStream, Live
    <3>4. r \notin resuming
      BY <3>1 DEF Shape, CallShape, Answered
    <3>5. /\ BeginAttach(r, stream) /\ runId' = r /\ view' = view /\ status' = status
          /\ resuming' = resuming /\ call'[r] = "returned"
      BY <2>1 DEF StartAttaches, StartReturns, Shape, CallShape
    <3>6. stream \in [Slots -> Streams]
      BY DEF Shape, StreamShape
    <3> QED
      BY <3>2, <3>3, <3>4, <3>5, <3>6
  <2>2. CASE ResumeAttaches(r)
    <3>1. \A q \in Slots : WithoutController[q] = Detached
      BY DEF WithoutController, Quiet, OwnStream, Live
    <3>2. /\ BeginAttach(r, WithoutController) /\ runId' = r /\ view' = Empty
          /\ status' = "submitted" /\ r \notin resuming' /\ call'[r] # "pending"
      BY <2>2 DEF ResumeAttaches, ResumeReturns, Shape, CallShape, Answered
    <3>3. WithoutController \in [Slots -> Streams]
      BY DEF WithoutController, Shape, StreamShape, Streams, StreamOf, Detached, Phases
    <3> QED
      BY <3>1, <3>2, <3>3
  <2> QED
    BY <1>1, <2>1, <2>2
<1>3. PICK c : Attaches(c, r, st)
  BY <1>2, Attaching
<1>4. PICK p \in {"open", "hung"} : /\ stream' = [st EXCEPT ![c] = StreamOf(r, 0, 0, p)]
                                   /\ owner' = IF p = "open" THEN r ELSE Stranded
  BY <1>3 DEF Attaches
<1>5. PICK new : new = StreamOf(r, 0, 0, p)
  OBVIOUS
<1>6. new.run = r /\ new.lastSeq = 0 /\ new # Detached
  BY <1>4, <1>5, Attached DEF Phases
<1>7. /\ c \in Slots /\ c # 0 /\ controller' = c /\ stream'[c] = new
      /\ \A q \in Slots : q # c => stream'[q] = Detached
  BY <1>2, <1>3, <1>4, <1>5, Numbers DEF Attaches
<1>8. Live' = {c}
  BY <1>6, <1>7 DEF Live
<1>9. owner' \in {r, Stranded} /\ owner' \notin {NoOwner, Stopper}
  BY <1>4, Numbers
<1>10. OwnStream'
  BY <1>2, <1>6, <1>7, <1>8, <1>9 DEF OwnStream, Busy
<1>11. OwnCall' /\ OwnCursor'
  BY <1>2, <1>9, Numbers DEF OwnCall, OwnCursor
<1>12. OwnView'
  BY <1>2, <1>6, <1>7 DEF OwnView, ViewOfRun, Empty
<1> QED
  BY <1>10, <1>11, <1>12 DEF Quiet

\* Every step keeps a session that no answer has crossed quiet.
LEMMA QuietStep == ASSUME Shape, Waiting, QuietInv, Next PROVE QuietInv'
<1> SUFFICES ASSUME crossed' = {} PROVE Quiet'
  BY DEF QuietInv
<1>1. CASE Refresh
  <2>1. /\ Live' = {} /\ controller' = 0 /\ status' = "idle" /\ view' = Empty /\ owner' = NoOwner
    BY <1>1 DEF Refresh, Live
  <2> QED
    BY <2>1, Numbers DEF Quiet, OwnStream, OwnCall, OwnCursor, OwnView, ViewOfRun, Busy
<1>2. CASE ~Refresh
  <2>1. Quiet
    BY <1>2, CrossedGrows DEF QuietInv
  <2> QED
    BY <1>2, <2>1, Kinds, QuietAbort, QuietRest, QuietGo, QuietOver, QuietAttach
<1> QED
  BY <1>1, <1>2

\* The inductive invariant of the uncrossed session.
LEMMA QuietSpec == Spec => [](Shape /\ Waiting /\ QuietInv)
<1> DEFINE IInv == Shape /\ Waiting /\ QuietInv
<1>1. Init => IInv
  <2> SUFFICES ASSUME Init PROVE IInv
    OBVIOUS
  <2>1. Live = {}
    BY DEF Init, Live
  <2>2. Quiet
    BY <2>1, Numbers DEF Init, Quiet, OwnStream, OwnCall, OwnCursor, OwnView, ViewOfRun, Busy
  <2> QED
    BY <2>2, ShapeInit, Numbers DEF QuietInv, Waiting, Init
<1>2. IInv /\ [Next]_vars => IInv'
  <2> SUFFICES ASSUME IInv, [Next]_vars PROVE IInv'
    OBVIOUS
  <2>1. CASE UNCHANGED vars
    <3>1. Waiting' /\ QuietInv'
      BY <2>1 DEF vars, journal, calls, session, history, Waiting, QuietInv, Quiet, OwnStream, OwnCall,
                  OwnCursor, OwnView, ViewOfRun, Live, Oldest
    <3> QED
      BY <3>1, ShapeStep
  <2> QED
    BY <2>1, ShapeStep, WaitingStep, QuietStep
<1> QED
  BY <1>1, <1>2, PTL DEF Spec

\* As long as no answer has crossed the session, the user's view is the journal
\* of the session's run from its first retained event on, without a gap or a
\* repetition, and ends where the session's stream reads on (run-session.ts
\* attach, run-client.ts stream, run-journal.ts readAfter).
THEOREM ViewSafe == Spec => []ViewComplete
<1>1. Shape /\ Waiting /\ QuietInv => ViewComplete
  BY DEF QuietInv, Quiet, OwnView, ViewOfRun, ViewComplete
<1> QED
  BY <1>1, QuietSpec, PTL

\* As long as no answer has crossed the session, a run that streams has its
\* cursor persisted unless the store rejected the last call, and a run that has
\* settled has not unless the store rejected that or a subscriber threw out of
\* the settlement (run-session.ts persistCursor, clearCursor, finalize).
THEOREM CursorSafe == Spec => []CursorExact
<1>1. Shape /\ Waiting /\ QuietInv => CursorExact
  BY DEF QuietInv, Quiet, OwnCursor, CursorExact
<1> QED
  BY <1>1, QuietSpec, PTL

-----------------------------------------------------------------------------
(* A busy session that no fault has stranded. *)

\* The answers of the session's calls.
LEMMA AttendedRest == ASSUME Shape, Attended, Next, RestSteps PROVE Attended'
<1>0. stream' = stream /\ controller' = controller
  BY RestEffect DEF Rests
<1>00. disposed' = disposed
  BY DisposedStays
<1>1. PICK r \in Runs : \/ AppendEvent(r) \/ StartFails(r) \/ StartSettles(r) \/ StartDisposed(r)
                        \/ StartAttachThrows(r) \/ StartHangs(r) \/ Resume(r) \/ ResumeRefused(r)
                        \/ StopReturns(r) \/ StopHangs(r)
  BY DEF RestSteps
<1>2. CASE StartFails(r) \/ StartSettles(r) \/ StopReturns(r)
  <2>1. status' \notin Busy
    BY <1>2 DEF StartFails, StartSettles, StopReturns, Finalize, Busy
  <2> QED
    BY <2>1 DEF Attended
<1>3. CASE StartDisposed(r)
  BY <1>00, <1>3 DEF StartDisposed, Attended
<1>4. CASE StartAttachThrows(r) \/ StartHangs(r)
  <2>1. UNCHANGED <<status, stopping>> /\ owner' = IF owner = r THEN Stranded ELSE owner
    BY <1>4 DEF StartAttachThrows, StartHangs, StartReturns
  <2>2. \A q \in Runs : q # r => call'[q] = call[q]
    BY <1>4 DEF StartAttachThrows, StartHangs, StartReturns, Shape, CallShape
  <2> QED
    BY <1>0, <1>00, <2>1, <2>2 DEF Attended
<1>5. CASE AppendEvent(r) \/ Resume(r) \/ ResumeRefused(r)
  <2>1. UNCHANGED <<status, owner, call, stopping>>
    BY <1>5 DEF AppendEvent, Resume, ResumeRefused, calls, session, history
  <2> QED
    BY <1>0, <1>00, <2>1 DEF Attended
<1>6. CASE StopHangs(r)
  <2>1. /\ UNCHANGED <<status, call>>
        /\ owner' = IF owner = Stopper /\ \A q \in Runs : stopping'[q] = 0 THEN Stranded ELSE owner
    BY <1>6 DEF StopHangs, session
  <2>2. CASE owner = Stopper
    <3>1. stopping' \in [Runs -> Nat]
      BY CallStep DEF Shape, CallShape
    <3>2. owner' = Stranded \/ \E q \in Runs : stopping'[q] > 0
      BY <2>1, <2>2, <3>1
    <3>3. owner' \in {Stopper, Stranded}
      BY <2>1, <2>2
    <3> QED
      BY <3>2, <3>3 DEF Attended
  <2>3. CASE owner # Stopper
    BY <1>0, <1>00, <2>1, <2>3 DEF Attended
  <2> QED
    BY <2>2, <2>3
<1> QED
  BY <1>1, <1>2, <1>3, <1>4, <1>5, <1>6

\* The steps of the streams.
LEMMA AttendedStreams == ASSUME Shape, Attended, Next, GoSteps \/ OverSteps PROVE Attended'
<1>0. stream \in [Slots -> Streams] /\ 0 \notin Slots /\ controller \in {0} \cup Slots
  BY Numbers DEF Shape, StreamShape
<1>1. PICK s \in Slots : ReadSteps(s) \/ ThrowSteps(s) \/ Drops(s) \/ SettleSteps(s) \/ Ends(s)
  BY DEF GoSteps, OverSteps
<1>2. UNCHANGED <<disposed, call, stopping>>
  <2>1. disposed' = disposed
    BY DisposedStays
  <2> QED
    BY <1>1, <2>1 DEF ReadSteps, ThrowSteps, SettleSteps, New, ListenerThrows, Presence, TerminalThrows,
                      RevokedThrows, Drops, Terminal, Completes, AccessRevoked, Revokes, Closes, Ends,
                      streamFrame, calls
<1>3. CASE ThrowSteps(s) \/ SettleSteps(s)
  <2>1. status' \notin Busy
    BY <1>3 DEF ThrowSteps, SettleSteps, TerminalThrows, RevokedThrows, Terminal, Completes, AccessRevoked,
                Revokes, Closes, Finalize, Busy
  <2> QED
    BY <2>1 DEF Attended
<1>4. CASE ReadSteps(s)
  <2>1. /\ owner' = owner /\ controller' = controller
        /\ status' = IF status = "submitted" THEN "streaming" ELSE status
    BY <1>4 DEF ReadSteps, New, ListenerThrows, Presence, OnEvent
  <2>2. \E n, k : stream' = [stream EXCEPT ![s] = StreamOf(stream[s].run, n, k, stream[s].phase)]
    BY <1>4 DEF ReadSteps, New, ListenerThrows, Presence, Progress
  <2>3. \A q \in Slots : stream'[q].phase = stream[q].phase
    BY <1>0, <2>2 DEF StreamOf
  <2>4. status' \in Busy => status \in Busy
    BY <2>1 DEF Busy
  <2> QED
    BY <1>0, <1>2, <2>1, <2>3, <2>4 DEF Attended
<1>5. CASE Drops(s)
  <2>1. PICK p \in {"open", "hung"} :
          /\ stream' = [stream EXCEPT ![s] = StreamOf(stream[s].run, stream[s].lastSeq,
                                                      stream[s].reconnects + 1, p)]
          /\ owner' = IF p = "hung" /\ s = controller THEN Stranded ELSE owner
    BY <1>5 DEF Drops
  <2>2. controller' = controller /\ status' = status
    BY <1>5 DEF Drops
  <2>3. stream'[s].phase = p /\ \A q \in Slots : q # s => stream'[q] = stream[q]
    BY <1>0, <2>1 DEF StreamOf
  <2>4. CASE p = "hung" /\ s = controller
    BY <2>1, <2>4 DEF Attended
  <2>5. CASE ~(p = "hung" /\ s = controller)
    <3>1. owner' = owner
      BY <2>1, <2>5
    <3>2. controller # 0 /\ stream[controller].phase = "open" => stream'[controller].phase = "open"
      BY <1>0, <2>1, <2>3, <2>5
    <3> QED
      BY <1>2, <2>2, <3>1, <3>2 DEF Attended
  <2> QED
    BY <2>4, <2>5
<1>6. CASE Ends(s)
  <2>1. /\ stream[s].phase = "done" /\ stream' = [stream EXCEPT ![s] = Detached]
        /\ controller' = IF controller = s THEN 0 ELSE controller
        /\ UNCHANGED <<status, owner>>
    BY <1>6 DEF Ends, Over, history
  <2>2. controller # 0 /\ stream[controller].phase = "open" =>
          controller' = controller /\ stream'[controller] = stream[controller]
    BY <1>0, <2>1
  <2> QED
    BY <1>2, <2>1, <2>2 DEF Attended
<1> QED
  BY <1>1, <1>3, <1>4, <1>5, <1>6

\* Every step keeps a busy session attended.
LEMMA AttendedStep == ASSUME Shape, Attended, Next PROVE Attended'
<1>1. CASE AbortSteps
  <2>1. ASSUME NEW r \in Runs, Start(r) PROVE Attended'
    <3>1. owner' = r /\ call'[r] = "pending"
      BY <2>1 DEF Start, Shape, CallShape
    <3> QED
      BY <3>1 DEF Attended
  <2>2. CASE StartThrows \/ \E r \in Runs : ResumeThrows(r)
    <3>1. owner' = Stranded
      BY <2>2 DEF StartThrows, ResumeThrows
    <3> QED
      BY <3>1 DEF Attended
  <2>3. CASE Stop
    <3>1. CASE status' \notin Busy
      BY <3>1 DEF Attended
    <3>2. CASE status' \in Busy
      <4>1. runId # 0 /\ stopping' = [stopping EXCEPT ![runId] = @ + 1] /\ owner' = Stopper
        BY <2>3, <3>2 DEF Stop, Finalize, Busy
      <4>2. runId \in Runs /\ stopping \in [Runs -> Nat]
        BY <4>1 DEF Shape, CallShape, Answered
      <4>3. stopping'[runId] > 0
        BY <4>1, <4>2
      <4> QED
        BY <4>1, <4>2, <4>3 DEF Attended
    <3> QED
      BY <3>1, <3>2
  <2>4. CASE Reset
    BY <2>4 DEF Reset, Attended, Busy
  <2>5. CASE Dispose
    BY <2>5 DEF Dispose, Attended
  <2> QED
    BY <1>1, <2>1, <2>2, <2>3, <2>4, <2>5 DEF AbortSteps
<1>2. CASE AttachSteps
  <2>1. PICK r \in Runs, st \in [Slots -> Streams] : BeginAttach(r, st)
    <3>1. WithoutController \in [Slots -> Streams] /\ stream \in [Slots -> Streams]
      BY DEF WithoutController, Shape, StreamShape, Streams, StreamOf, Detached, Phases
    <3> QED
      BY <1>2, <3>1 DEF AttachSteps, StartAttaches, ResumeAttaches
  <2>2. PICK c : Attaches(c, r, st)
    BY <2>1, Attaching
  <2>3. PICK p \in {"open", "hung"} : /\ stream' = [st EXCEPT ![c] = StreamOf(r, 0, 0, p)]
                                     /\ owner' = IF p = "open" THEN r ELSE Stranded
    BY <2>2 DEF Attaches
  <2>4. c \in Slots /\ c # 0 /\ controller' = c
    BY <2>2, Numbers DEF Attaches
  <2>5. stream'[c].phase = p
    BY <2>1, <2>3, <2>4 DEF StreamOf
  <2> QED
    BY <2>3, <2>4, <2>5 DEF Attended
<1>3. CASE Refresh
  BY <1>3 DEF Refresh, Attended, Busy
<1> QED
  BY <1>1, <1>2, <1>3, Kinds, AttendedRest, AttendedStreams

\* A busy session that no fault has stranded waits for its start call, for a
\* stop or for an open connection, whatever answers have crossed it: nothing it
\* waits for goes without settling it (run-session.ts start, resume, stop,
\* finalize; run-client.ts attach).
THEOREM AttendedSafe == Spec => []Attended
<1> DEFINE IInv == Shape /\ Attended
<1>1. Init => IInv
  BY ShapeInit DEF Init, Attended, Busy
<1>2. IInv /\ [Next]_vars => IInv'
  <2> SUFFICES ASSUME IInv, [Next]_vars PROVE IInv'
    OBVIOUS
  <2>1. CASE UNCHANGED vars
    BY <2>1, ShapeStep DEF vars, calls, session, history, Attended
  <2> QED
    BY <2>1, ShapeStep, AttendedStep
<1> QED
  BY <1>1, <1>2, PTL DEF Spec
=============================================================================
