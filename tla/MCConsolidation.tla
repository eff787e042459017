--------------------------- MODULE MCConsolidation ---------------------------
(***************************************************************************)
(* Small instances of the consolidation for TLC.                           *)
(***************************************************************************)
EXTENDS ConsolidationProperties, TLC

CONSTANTS p1, p2, r1, c1, c2, c3, k1

TwoPipes     == {p1, p2}
OneReflector == {r1}
ThreeCells   == {c1, c2, c3}
OneCluster   == {k1}
Last         == {4}
Alike        == Permutations(TwoPipes) \cup Permutations(ThreeCells)
=============================================================================
