----------------------------- MODULE MCBatcher -----------------------------
(* A small instance of the batcher for TLC. *)
EXTENDS BatcherRefinement

CONSTANTS x1, x2, x3
=============================================================================
