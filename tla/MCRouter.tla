------------------------------ MODULE MCRouter ------------------------------
(***************************************************************************)
(* Router on a pool of two members, with two callers that race each other  *)
(* for a member and with the probes of the health monitor. Thresholds of   *)
(* one and two keep "degraded" apart from "unhealthy", a success threshold *)
(* of two keeps the first good probe apart from recovery.                  *)
(***************************************************************************)
EXTENDS Router
=============================================================================
