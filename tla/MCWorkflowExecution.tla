------------------------- MODULE MCWorkflowExecution -------------------------
(***************************************************************************)
(* Small workflow definitions for WorkflowExecution: sequences of three and *)
(* of four steps with a wait after the first, and a loop of two steps that  *)
(* a branch or an error boundary may take again.                            *)
(***************************************************************************)
EXTENDS WorkflowExecution

CONSTANTS s1, s2, s3, s4, w1

After(order) == [s \in Steps |->
  LET later == {i \in 1..Len(order) - 1 : order[i] = s}
  IN  IF later = {} THEN NoStep ELSE order[1 + CHOOSE i \in later : TRUE]]

Gated == After(<<s1, w1, s2, s3>>)
Saga == After(<<s1, w1, s2, s3, s4>>)

Cycle == [s \in Steps |-> IF s = s1 THEN s2 ELSE s1]
CycleExit == [s \in Steps |-> IF s = s1 THEN s2 ELSE NoStep]

NoHandler == [s \in Steps |-> NoStep]
BackTo1 == [s \in Steps |-> IF s = s2 THEN s1 ELSE NoStep]

NoRetries == [s \in Steps |-> 0]
Retry2 == [s \in Steps |-> IF s = s2 THEN 1 ELSE 0]
=============================================================================
