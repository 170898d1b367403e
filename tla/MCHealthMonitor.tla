-------------------------- MODULE MCHealthMonitor ---------------------------
(***************************************************************************)
(* HealthMonitor with two callers, so that a start meets a stop at each of *)
(* its steps, two targets, so that a stop can fall within a round, and as  *)
(* many thread objects as can be referred to at once and one more.         *)
(***************************************************************************)
EXTENDS HealthMonitor
=============================================================================
