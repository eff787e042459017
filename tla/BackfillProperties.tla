-------------------------- MODULE BackfillProperties --------------------------
(***************************************************************************)
(* What a backfill has to keep.                                            *)
(***************************************************************************)
EXTENDS Backfill

Texts == 0 .. MaxText

(* Types of everything that is kept. *)
TypeOK ==
    /\ row \in [Rows -> [text : Texts \ {0}, vec : Texts, sub : Texts]]
    /\ members \in [Memories -> SUBSET Clusters]
    /\ queue \in [Work -> Nat] /\ orphans \in [Work -> Nat]
    /\ filing \cup dead \subseteq Memories /\ \A m \in filing : queue[File(m)] > 0
    /\ drained \in BOOLEAN
    /\ md \cup touched \cup claims \cup idx \subseteq Clusters
    /\ change \in [Clusters -> {"none", "pending", "processing", "failed", "parked", "done"}]
    /\ bf.exit \in {None, 0, 1, 3, 4, 130} /\ bf.failed <= 2 * Cardinality(Rows)

(* Exit 0 of a command means that every row whose primary vector the scan  *)
(* of phase 1 found missing has one ("automation must see a non-zero       *)
(* rows_failed", _backfill_table).                                         *)
PrimariesEmbedded ==
    bf.at = "off" /\ bf.exit = 0 =>
        \A i \in DOMAIN bf.rows : bf.rows[i].vec = 0 => row[i].vec # 0

(* Phase 1 changes vectors only: it never takes a row back to a text that  *)
(* the server has replaced while it was embedding.                         *)
TextsAdvance == [][\A i \in Rows : row'[i].text >= row[i].text]_vars

(* A command that ends well, and did not give up waiting for its engine,   *)
(* has filed every memory that phase 2 has seen, unless the memory is not  *)
(* worth it or its last attempt has raised: nothing that an earlier command *)
(* left behind or that sleeps between two attempts is taken for done.      *)
EventsKept ==
    bf.at = "off" /\ bf.exit \in {0, 4} /\ drained =>
        \A m \in bf.seen : members[m] # {} \/ m \in Poor \cup dead

(* A command that ends well leaves no SKILL.md out of the index in silence, *)
(* one that an earlier, interrupted command has written included: its row  *)
(* in the queue tells that a handler failed or was interrupted.  What a    *)
(* server writes beside it, the server indexes.                            *)
SkillsFindable ==
    bf.at = "off" /\ bf.exit \in {0, 4} /\ starts = 0 =>
        \A k \in md \ idx : change[k] \in {"failed", "parked", "processing"}
=============================================================================
