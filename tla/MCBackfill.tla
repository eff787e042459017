------------------------------ MODULE MCBackfill ------------------------------
(***************************************************************************)
(* Small instances of the backfill for TLC.                                *)
(***************************************************************************)
EXTENDS BackfillProperties, TLC

CONSTANTS i1, i2, case, poor, k

TwoRows    == {i1, i2}
OneSubject == {i1}
TwoCases   == {case, poor}
PoorCases  == {poor}
OneCluster == {k}
=============================================================================
