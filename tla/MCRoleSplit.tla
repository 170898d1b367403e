---------------------------- MODULE MCRoleSplit -----------------------------
(***************************************************************************)
(* RoleSplit with three roles on a pool of two threads, so that a call is  *)
(* still queued when others run or end, and up to one retry, so that a     *)
(* first and a last wave differ; every configuration is an initial state.  *)
(***************************************************************************)
EXTENDS RoleSplit
=============================================================================
