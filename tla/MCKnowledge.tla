------------------------------ MODULE MCKnowledge ------------------------------
(***************************************************************************)
(* Small instances of the knowledge service for TLC.                       *)
(***************************************************************************)
EXTENDS KnowledgeProperties, TLC

CONSTANTS a, b, old, new

TwoCategories == {a, b}
TwoTexts      == {old, new}
Alike         == Permutations(TwoCategories) \cup Permutations(TwoTexts)
=============================================================================
