------------------------- MODULE IndexStoreProperties -------------------------
(***************************************************************************)
(* What the index promises to the processes that open it.                  *)
(***************************************************************************)
EXTENDS IndexStore

\* Every variable has the type its declaration states, and the lock of the
\* root has one holder at most.
TypeOK ==
    /\ at \in [Process -> [pc : Pc, todo : SUBSET Table, cols : SUBSET Column,
                           failed : BOOLEAN]]
    /\ root \subseteq Process /\ Cardinality(root) <= 1
    /\ mark \in [schema : BOOLEAN, fts : BOOLEAN]
    /\ table \in [Table -> [here : BOOLEAN, nullable : BOOLEAN,
                           drifted : BOOLEAN]]
    /\ idx \in [Column -> {"none", "old", "new"}]
    /\ line \in Seq(Task)
    /\ task \in [Task -> {"idle", "queued", "lookup", "body"}]
    /\ hung \subseteq Task
    /\ snap \in [Writer -> SUBSET Writer]
    /\ rows \subseteq Writer
    /\ acked \subseteq Writer

\* A version marker is believed by every later start, so it never promises what
\* a crash, a call that raised or a process beside has left undone: no table
\* with a NOT NULL vector once the schema is marked, and no index with
\* positions, which stops compaction and cleanup, once the indexes are.
MarkersTrue ==
    /\ mark.schema => \A t \in Table : table[t].nullable
    /\ mark.fts => \A t \in Table : \A c \in Fields[t] : idx[c] # "old"

\* A process that is up writes rows without a vector, and searches: whatever
\* starts beside it, is killed, migrates or rebuilds its indexes, every table
\* takes such a row and every text column keeps an index, without which a
\* search raises.
Serves ==
    \A p \in Process : at[p].pc = "up" =>
        /\ \A t \in Table : table[t].here /\ table[t].nullable
                                         /\ ~table[t].drifted
        /\ \A t \in Table : \A c \in Fields[t] : idx[c] = "new"

\* The row of an upsert that returned is in the table: merge_insert reads and
\* writes back, and two of them at once would lose a row of either.
Kept == acked \subseteq rows

\* An upsert is atomic (module Upserts) although it is a reading and a writing
\* that may hang in between: neither a task beside it, nor a deadline, nor a
\* crash gives away a row that was in the table, whether its caller knows of it
\* or not; only the drop of the table does, and nobody is at work on it then.
Contract == INSTANCE Upserts
            WITH calling <- {k \in Writer : task[k] # "idle"},
                 kept <- rows, told <- acked

Atomic == Contract!Spec

\* A LanceDB call that never returns takes no other task with it: whoever asks
\* for the lock of a table is done, or told that the store is busy, in the end,
\* so that the maintenance of a table, which skips one under way, goes on.
NoWedge == \A k \in Task : task[k] # "idle" ~> task[k] = "idle"
=============================================================================
