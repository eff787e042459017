-------------------------- MODULE KnowledgeProperties --------------------------
(***************************************************************************)
(* What the knowledge service has to keep.                                 *)
(***************************************************************************)
EXTENDS Knowledge

Contents == [text : Texts, cat : Categories]
RowsOf   == [text : Texts \cup {None}, cat : Categories, at : Places]

\* None is no value of the program.
ASSUME NoneAssumption == None \notin Contents \cup RowsOf \cup Places

(* Types of the files, the rows and the queue. *)
TypeOK ==
    /\ dir \in [Places -> [index : Contents \cup {None}, topic : Contents \cup {None},
                           inner : SUBSET ((0..MaxDepth) \X Texts), made : BOOLEAN]]
    /\ {row, stored, found} \subseteq RowsOf \cup {None}
    /\ dirty \cup failed \subseteq Files
    /\ good \in Texts \cup {None}

(* No call is under way, the queue is empty, and the operator has had the  *)
(* failed files processed again.                                           *)
Quiet == call = NoCall /\ Settled /\ failed = {}

(* What the last acknowledged call left is whole in some directory, hidden *)
(* ones included, until it is replaced, deleted, or created anew           *)
(* (replace_document, "old data preserved on failure"): also when the      *)
(* process stops between two steps, when a writer raises and the backup is *)
(* moved back into what it left, and while the rows still lead to the      *)
(* backup.  The one step that can lose it is a writer that clears another  *)
(* directory than the one its call has backed up, which is possible after  *)
(* a replacement has been left half done: see the README.                  *)
NeverLost == good # None /\ ~spilt => \E p \in Places : \E e \in Kept(p) : e[2] = good

(* Once all is processed no row, of either store, is of a file that does   *)
(* not exist (handle_deleted): also of a backup that was indexed while a   *)
(* replacement was under way.                                              *)
NoGhosts == Quiet =>
    /\ row # None => Content(<<row.at, "index">>) # None
    /\ found # None => Content(<<found.at, "topic">>) # None
    /\ stored # None => Content(<<stored.at, "topic">>) # None

(* Once all is processed the search index shows what the topic's file      *)
(* says: no digest lets a stale row stand (KnowledgeTopicHandler).         *)
Truthful == Quiet /\ found # None =>
    Content(<<found.at, "topic">>) = Says(found.text, found.cat)

(* As long as documents are only created, patched and deleted, and nothing *)
(* fails, every topic file has its rows in both stores once all is         *)
(* processed, and the document's row leads to its directory: whatever the  *)
(* cascade read before, while and after a directory moved.                 *)
Findable == Quiet /\ clean => \A p \in Places :
    dir[p].topic # None =>
        /\ row = Row(dir[p].index, p)
        /\ found = Row(dir[p].topic, p)
        /\ stored = found

(* What the documentation says of replacements as well ("derived indexes   *)
(* built automatically by the cascade daemon", docs/knowledge.md): a topic *)
(* file of a document has a row in the search index.  The code does not    *)
(* keep it.                                                                *)
Searchable == Quiet => \A c \in Categories :
    dir[<<c, 0>>].topic # None => found # None
=============================================================================
