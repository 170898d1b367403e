----------------------------- MODULE MCAdapter ------------------------------
(***************************************************************************)
(* Adapter with streams of up to four lines: text, an early finish reason, *)
(* a usage and an end, in any order; echo cuts its answer into the two or  *)
(* three pieces that half of its length, rounded down, gives.              *)
(***************************************************************************)
EXTENDS Adapter

MCEchoPieces == {2, 3}
=============================================================================
