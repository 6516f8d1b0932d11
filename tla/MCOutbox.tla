------------------------------ MODULE MCOutbox ------------------------------
(***************************************************************************)
(* Two items, two flushes at a time and one fault.                          *)
(***************************************************************************)
EXTENDS Outbox

CONSTANTS f1, f2
=============================================================================
