------------------------------- MODULE MCIntake ------------------------------
(***************************************************************************)
(* Small instances of the intake for TLC.                                  *)
(***************************************************************************)
EXTENDS IntakeProperties

CONSTANTS r1, r2

TwoSlots == {r1, r2}
Days     == 0 .. MaxDay
NoClient == {}

\* One deferred call: a question of a hub and a tool row that chat mode drops.
Hub      ==
    LET Of(ts, role, body) == [session |-> 0, ts |-> ts, idx |-> 5, role |-> role, body |-> body]
    IN  {[deferred |-> TRUE, session |-> 0, messages |-> {Of(1, "user", 101), Of(2, "tool", 102)}]}
=============================================================================
