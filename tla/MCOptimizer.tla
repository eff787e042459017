------------------------------ MODULE MCOptimizer -----------------------------
(***************************************************************************)
(* A small instance of index maintenance for TLC.                          *)
(***************************************************************************)
EXTENDS OptimizerProperties

CONSTANT episode
=============================================================================
