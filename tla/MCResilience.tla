---------------------------- MODULE MCResilience ----------------------------
(***************************************************************************)
(* A small instance of the resilience pipeline with its history variables.  *)
(* The options of the endpoint and of its callers are in MCResilience.cfg.  *)
(***************************************************************************)
EXTENDS ResilienceAudit

CONSTANTS c1, c2, c3, c4
=============================================================================
