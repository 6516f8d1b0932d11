-------------------------- MODULE MCCoeditReplicas --------------------------
(***************************************************************************)
(* Two founders and a joiner.  A block document loaded from a snapshot      *)
(* serves no deletes, so that only text documents are synced by state       *)
(* vectors.                                                                 *)
(***************************************************************************)
EXTENDS CoeditReplicas

Two == {1, 2}
AllKinds == {<<"text", "broadcast">>, <<"text", "sync">>, <<"block", "broadcast">>}
Edits == [text |-> 4, block |-> 3]
=============================================================================
