----------------------- MODULE ConsolidationProperties -----------------------
(***************************************************************************)
(* What the consolidation of episodes has to keep.                         *)
(***************************************************************************)
EXTENDS Consolidation

Bodies == [of : SUBSET Cells, merge : 0 .. MaxMerges]

(* Types of everything that is kept. *)
TypeOK ==
    /\ log.count \in 0 .. MaxEntries /\ Len(log.entries) <= MaxEntries
    /\ \A e \in EntriesOf(log) : e.id \in Ids /\ e.body \in Bodies
    /\ DOMAIN log.deprecated \subseteq Ids
    /\ holder \in [{"pipeline", "reflection"} -> Tasks \cup {None}]
    /\ \A i \in Ids : row[i].body \in Bodies \cup {None} /\ row[i].deprecated \in Ids \cup {0}
    /\ fact \in [Ids -> FactStates]
    /\ members \in [Clusters -> SUBSET Ids] /\ rows \subseteq Clusters
    /\ todo \in [Ids -> 0 .. MaxTries]
    /\ left \subseteq Cells /\ faults \in 0 .. MaxFaults /\ merges \in 0 .. MaxMerges

Live(file) == {e \in EntriesOf(file) : e.id \notin DOMAIN file.deprecated}

(* An episode whose append has returned is in the file once, under an id   *)
(* of its own (MarkdownWriter and BaseDailyWriter hold the lock of the     *)
(* path from the read to the write for this).                              *)
AppendsKept ==
    /\ \A t \in Tasks : task[t].at = "written" /\ task[t].body # None =>
          \E e \in EntriesOf(log) : e.id = task[t].id /\ e.body = task[t].body
    /\ \A i, j \in DOMAIN log.entries : log.entries[i].id = log.entries[j].id => i = j
    /\ \A i \in Ids : todo[i] > 0 => \E e \in EntriesOf(log) : e.id = i

(* Consolidation forgets nothing that it has told the model of: whatever   *)
(* cell the file has told of, some entry that is not deprecated tells of   *)
(* it still, but for the cells of a second merged episode in one update.   *)
NothingForgotten ==
    \A e \in EntriesOf(log) :
        e.body.of \subseteq omitted \cup UNION {l.body.of : l \in Live(log)}

(* When the cascade has handled the last change of the file, the index     *)
(* shows every deprecation of the file, whatever order the handler's       *)
(* writes and the reflection's own came in, but for a row whose            *)
(* deprecation the handler has failed to write.                            *)
DeprecationsArrive ==
    ~ dirty /\ sync.at = "idle" =>
        \A i \in (DOMAIN log.deprecated \cap Present) \ swallowed :
            row[i].deprecated = log.deprecated[i]

(* The file is a journal (module Journal): no step, of a pipeline beside a *)
(* cycle, of a second cycle or after a crash, takes an entry away or       *)
(* changes it, and each deprecated_by that is written leads to an entry    *)
(* that is live then and tells of what the deprecated one told, but for    *)
(* what an update was not told of.                                         *)
Contract == INSTANCE Journal
            WITH entries <- log.entries, replaced <- log.deprecated,
                 excused <- omitted

Journaled == Contract!Spec
=============================================================================
