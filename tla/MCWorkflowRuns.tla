--------------------------- MODULE MCWorkflowRuns ---------------------------
(***************************************************************************)
(* Small instances of WorkflowRuns; who takes part in each of them is in    *)
(* the MCWorkflowRuns_*.cfg files.                                          *)
(***************************************************************************)
EXTENDS WorkflowRuns

CONSTANTS r1, r2, r3, k1, u1, x1

\* Two priorities, so that the queue is not only a FIFO.
Prio == [r \in Runs |-> IF r = r3 THEN 5 ELSE 0]
=============================================================================
