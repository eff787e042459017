----------------------------- MODULE MCIndexStore -----------------------------
(***************************************************************************)
(* A server and a command on a root with two tables and three columns.     *)
(***************************************************************************)
EXTENDS IndexStoreProperties

CONSTANTS command, episode, case, episode_tokens, intent_tokens,
          approach_tokens, w1, w2

Commands == {command}
Tables   == {episode, case}
Columns  == {episode_tokens, intent_tokens, approach_tokens}
FieldsOf == [t \in Tables |-> IF t = episode THEN {episode_tokens}
                              ELSE {intent_tokens, approach_tokens}]
Writers  == {w1, w2}
=============================================================================
