--------------------------- MODULE FifoSemaphore ---------------------------
(***************************************************************************)
(* What the repository's in-process limiters promise: at most Slots        *)
(* holders, waiters served in arrival order, nobody overtaking a waiter,   *)
(* and a slot given up goes straight to the oldest waiter.                 *)
(***************************************************************************)
EXTENDS Naturals, Sequences, FiniteSets

CONSTANTS Clients, Slots, QueueLimit

VARIABLES holders, queue

semVars == <<holders, queue>>

Queued == {queue[i] : i \in DOMAIN queue}

SemInit == holders = {} /\ queue = <<>>

Enter(c) == /\ c \notin holders \cup Queued
            /\ queue = <<>>
            /\ Cardinality(holders) < Slots
            /\ holders' = holders \cup {c}
            /\ UNCHANGED queue

Wait(c) == /\ c \notin holders \cup Queued
           /\ Cardinality(holders) = Slots
           /\ Len(queue) < QueueLimit
           /\ queue' = Append(queue, c)
           /\ UNCHANGED holders

Leave(c) == /\ c \in holders
            /\ \/ queue = <<>> /\ holders' = holders \ {c} /\ UNCHANGED queue
               \/ /\ queue # <<>>
                  /\ holders' = (holders \ {c}) \cup {Head(queue)}
                  /\ queue' = Tail(queue)

SemNext == \E c \in Clients : Enter(c) \/ Wait(c) \/ Leave(c)

SemSpec == SemInit /\ [][SemNext]_semVars
=============================================================================
