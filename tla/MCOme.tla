-------------------------------- MODULE MCOme ---------------------------------
(***************************************************************************)
(* Small instances of the OME engine for TLC.                              *)
(***************************************************************************)
EXTENDS OmeProperties

CONSTANTS server, backfill, facts, cluster, reflect

Both            == {server, backfill}
OnlyServer      == {server}
Strategies      == {facts, cluster, reflect}
FactsReflect    == {facts, reflect}
One             == <<facts>>
Two             == <<facts, cluster>>
Reflect         == <<reflect>>
FactsAndReflect == <<facts, reflect>>
Reflectors      == {reflect}
=============================================================================
