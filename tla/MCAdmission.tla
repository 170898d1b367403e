---------------------------- MODULE MCAdmission -----------------------------
(***************************************************************************)
(* Admission with two slots, a queue of one and five threads: two served,  *)
(* one waiting, one turned away by the full queue, and one that arrives    *)
(* between any two steps of the others.                                    *)
(***************************************************************************)
EXTENDS Admission
=============================================================================
