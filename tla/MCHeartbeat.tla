---------------------------- MODULE MCHeartbeat ----------------------------
(***************************************************************************)
(* Two workers, one agent and two buckets, with either store.               *)
(***************************************************************************)
EXTENDS Heartbeat

CONSTANTS a1, w1, w2
=============================================================================
