------------------------------- MODULE Knowledge -------------------------------
(***************************************************************************)
(* The knowledge service: one document id, its directory of markdown files *)
(* (index.md and topic files), and the rows the cascade derives from them: *)
(* the document row and the topic rows in SQLite, and the topic rows of    *)
(* the search index.  The calls of the API find the directory by the path  *)
(* in the document row, so they depend on what the cascade has processed.  *)
(* A replacement moves the directory to a hidden backup first, and moves   *)
(* the backup back when it fails; the cascade's globs match hidden names,  *)
(* so the backup is indexed like any other directory.                      *)
(*                                                                         *)
(* A directory's place is its category and how many times a backup was     *)
(* made of its name; an action is one step between two awaits.             *)
(***************************************************************************)
EXTENDS Integers, FiniteSets

CONSTANTS Categories,
          Texts,      \* what an extraction can say of the document
          Patient,    \* TRUE: a call begins only when the cascade is done
          MaxDepth,   \* bound: a backup of a backup of ...
          MaxCalls,   \* bound: calls that change something
          MaxFaults,  \* bound: raised errors and stops of the process
          None

ASSUME KnowledgeAssumption ==
    /\ None \notin Texts /\ None \notin Categories
    /\ Patient \in BOOLEAN
    /\ MaxDepth \in Nat \ {0} /\ MaxCalls \in Nat /\ MaxFaults \in Nat

VARIABLES
    dir,    \* place -> its files; inner: documents moved into the directory
    row,    \* the document row
    stored, \* the topic's row in SQLite
    found,  \* the topic's row in the search index
    dirty,  \* files whose change the queue has, or will have, a row for
    failed, \* files whose row of the queue is failed and not retryable
    task,   \* file -> the worker's _process_one
    call,   \* the call of the API
    good,   \* what the last acknowledged call left
    clean,  \* neither a replacement nor a fault so far
    spilt,  \* a writer has cleared another directory than the one backed up
    calls, faults

vars == <<dir, row, stored, found, dirty, failed, task, call, good, clean, spilt, calls,
          faults>>

rows    == <<row, stored, found>>
cascade == <<rows, failed, task>>
history == <<good, clean, spilt, calls, faults>>

-----------------------------------------------------------------------------
Places == Categories \X (0..MaxDepth)
Files  == Places \X {"index", "topic"}

Backup(p) == <<p[1], p[2] + 1>>      \* .<name>.backup in the same category

NoDir == [index |-> None, topic |-> None, inner |-> {}, made |-> FALSE]
IsDir(p) == dir[p].made

(* What a file says: the text and the category in its frontmatter.         *)
Content(f) == IF f[2] = "index" THEN dir[f[1]].index ELSE dir[f[1]].topic
Says(t, c) == [text |-> t, cat |-> c]

Row(x, p) == [text |-> x.text, cat |-> x.cat, at |-> p]

FilesOf(p) == {f \in Files : f[1] = p}

Whole(p, t) == /\ dir[p].index # None /\ dir[p].index.text = t
               /\ dir[p].topic # None /\ dir[p].topic.text = t

NoTask == [pc |-> "idle", says |-> None]
NoCall == [op |-> None, pc |-> "idle", text |-> None, cat |-> None, old |-> None,
           backup |-> None]

Settled == dirty = {} /\ \A f \in Files : task[f].pc = "idle"

Init == /\ dir = [p \in Places |-> NoDir]
        /\ row = None /\ stored = None /\ found = None
        /\ dirty = {} /\ failed = {}
        /\ task = [f \in Files |-> NoTask]
        /\ call = NoCall
        /\ good = None /\ clean = TRUE /\ spilt = FALSE
        /\ calls = 0 /\ faults = 0

Fault == /\ faults < MaxFaults /\ faults' = faults + 1 /\ clean' = FALSE

-----------------------------------------------------------------------------
(* Moves and removals of a directory, as shutil does them.                 *)

(* The documents that are whole in a directory, with the name each has.    *)
Kept(p) == dir[p].inner \cup {<<p[2], t>> : t \in {u \in Texts : Whole(p, u)}}

(* shutil.move into a directory that exists moves the source inside it,    *)
(* and refuses when there is one of that name already.                     *)
MayMove(src, dst) == /\ IsDir(src)
                     /\ \A e \in dir[dst].inner : e[1] # src[2]

Moved(src, dst) ==
    [dir EXCEPT ![src] = NoDir,
                ![dst] = IF IsDir(dst)
                         THEN [dir[dst] EXCEPT !.inner = dir[dst].inner \cup
                                 {<<src[2], e[2]>> : e \in Kept(src)}]
                         ELSE dir[src]]

Moves(src, dst) == /\ dir' = Moved(src, dst)
                   /\ dirty' = dirty \cup {f \in FilesOf(src) : Content(f) # None}
                          \cup {f \in FilesOf(dst) : ~IsDir(dst) /\ Content(<<src, f[2]>>) # None}

Removes(p) == /\ dir' = [dir EXCEPT ![p] = NoDir]
              /\ dirty' = dirty \cup {f \in FilesOf(p) : Content(f) # None}

Writes(p, kind, x) ==
    /\ dir' = [dir EXCEPT ![p] = IF kind = "index"
                                 THEN [@ EXCEPT !.index = x, !.made = TRUE]
                                 ELSE [@ EXCEPT !.topic = x, !.made = TRUE]]
    /\ dirty' = dirty \cup {<<p, kind>>}

-----------------------------------------------------------------------------
(* The calls.  One at a time: see the README.                              *)

Begins(op) == /\ call = NoCall /\ calls < MaxCalls /\ (Patient => Settled /\ failed = {})
              /\ calls' = calls + 1

Goes(pc)  == call' = [call EXCEPT !.pc = pc]
Returns   == call' = NoCall
Dest      == <<call.cat, 0>>     \* _resolve_doc_dir

(* create_document.  The route lets it mint the id, so that the id is in   *)
(* no other call before.                                                   *)
Create(t, c) ==
    /\ Begins("create") /\ calls = 0
    /\ call' = [NoCall EXCEPT !.op = "create", !.pc = "extract", !.text = t, !.cat = c]
    /\ UNCHANGED <<dir, dirty, cascade, good, clean, spilt, faults>>

(* Mutant: the old directory is only cleared by the writer. *)
Replace_NoBackup(t, c) ==
    /\ Begins("replace") /\ row # None
    /\ call' = [NoCall EXCEPT !.op = "replace", !.pc = "extract", !.text = t, !.cat = c,
                    !.old = row.at]
    /\ clean' = FALSE
    /\ UNCHANGED <<dir, dirty, cascade, good, spilt, faults>>

(* replace_document: get_by_doc_id, and _backup_doc_dir, which finds       *)
(* nothing to back up when the row's directory is not there.               *)
Replace(t, c) ==
    /\ Begins("replace") /\ row # None /\ row.at[2] < MaxDepth
    /\ call' = [NoCall EXCEPT !.op = "replace", !.text = t, !.cat = c, !.old = row.at,
                    !.pc = IF IsDir(row.at) THEN "backup" ELSE "extract"]
    /\ clean' = FALSE
    /\ UNCHANGED <<dir, dirty, cascade, good, spilt, faults>>

BackUp ==
    /\ call.pc = "backup"
    /\ IF MayMove(call.old, Backup(call.old))
       THEN /\ Moves(call.old, Backup(call.old))
            /\ call' = [call EXCEPT !.pc = "extract", !.backup = Backup(call.old)]
       ELSE Returns /\ UNCHANGED <<dir, dirty>>
    /\ UNCHANGED <<cascade, history>>

(* The extraction answers.  KnowledgeWriter.write: remove the directory,   *)
(* then index.md, then the topic files; no file is replaced atomically.    *)
Clear == /\ call.pc = "extract" /\ Removes(Dest) /\ Goes("index")
         /\ spilt' = (spilt \/ (IsDir(Dest) /\ Dest # call.old))
         /\ UNCHANGED <<cascade, good, clean, calls, faults>>

WriteIndex == /\ call.pc = "index"
              /\ Writes(Dest, "index", Says(call.text, call.cat)) /\ Goes("topic")
              /\ UNCHANGED <<cascade, history>>

WriteTopic == /\ call.pc = "topic"
              /\ Writes(Dest, "topic", Says(call.text, call.cat)) /\ Goes("written")
              /\ UNCHANGED <<cascade, history>>

(* The extractor, a write, or the copy of the original file raises.        *)
Raises ==
    /\ call.pc \in {"extract", "index", "topic", "written"}
    /\ Fault
    /\ IF call.backup = None THEN Returns ELSE Goes("restore")
    /\ UNCHANGED <<dir, dirty, cascade, good, spilt, calls>>

(* _restore_backup.  When the new directory is there already the backup    *)
(* ends up inside it.                                                      *)
Restore ==
    /\ call.pc = "restore"
    /\ IF MayMove(call.backup, call.old)
       THEN Moves(call.backup, call.old)
       ELSE UNCHANGED <<dir, dirty>>
    /\ Returns
    /\ UNCHANGED <<cascade, history>>

Acknowledged ==
    /\ call.pc = "written"
    /\ good' = call.text
    /\ IF call.backup = None THEN UNCHANGED <<dir, dirty>> ELSE Removes(call.backup)
    /\ Returns
    /\ UNCHANGED <<cascade, clean, spilt, calls, faults>>

(* delete_document: without a row there is nothing to delete.              *)
Delete ==
    /\ Begins("delete") /\ row # None
    /\ call' = [NoCall EXCEPT !.op = "delete", !.pc = "remove", !.old = row.at]
    /\ UNCHANGED <<dir, dirty, cascade, good, clean, spilt, faults>>

Remove ==
    /\ call.pc = "remove"
    /\ Removes(call.old) /\ Returns
    /\ good' = None
    /\ UNCHANGED <<cascade, clean, spilt, calls, faults>>

(* patch_document: a new title (the same category) or a new category.  The *)
(* document is the row's, or the one an index.md on disk tells of.         *)
Patch(c) ==
    /\ Begins("patch")
    /\ \E p \in Places :
          /\ IF row # None THEN p = row.at ELSE dir[p].index # None
          /\ call' = [NoCall EXCEPT !.op = "patch", !.pc = "front", !.old = p, !.cat = c,
                 !.text = IF row # None THEN row ELSE Row(Says(None, dir[p].index.cat), p)]
    /\ UNCHANGED <<dir, dirty, cascade, good, clean, spilt, faults>>

Moving == call.cat # call.text.cat

(* Mutant: the request's category, which a new title leaves out. *)
Front_Unset ==
    /\ call.pc = "front" /\ dir[call.old].index # None
    /\ Writes(call.old, "index",
              [dir[call.old].index EXCEPT !.cat = IF Moving THEN call.cat ELSE None])
    /\ Goes(IF Moving THEN "move" ELSE "row")
    /\ UNCHANGED <<cascade, history>>

Front ==
    /\ call.pc = "front"
    /\ LET x == dir[call.old].index
       IN IF x = None
          THEN Returns /\ UNCHANGED <<dir, dirty>>
          ELSE /\ Writes(call.old, "index", [x EXCEPT !.cat = call.cat])
               /\ Goes(IF Moving THEN "move" ELSE "row")
    /\ UNCHANGED <<cascade, history>>

Target == <<call.cat, call.old[2]>>

(* _move_doc_directory. *)
Move ==
    /\ call.pc = "move"
    /\ IF MayMove(call.old, Target) /\ Target # call.old
       THEN /\ Moves(call.old, Target)
            /\ call' = [call EXCEPT !.pc = "topics", !.old = Target]
       ELSE Returns /\ UNCHANGED <<dir, dirty>>
    /\ UNCHANGED <<cascade, history>>

(* Mutant: the move alone. *)
Topics_Left == /\ call.pc = "topics" /\ Goes("row")
               /\ UNCHANGED <<dir, dirty, cascade, history>>

(* _update_topics_category. *)
Topics ==
    /\ call.pc = "topics"
    /\ LET x == dir[call.old].topic
       IN IF x = None \/ x.cat = call.cat
          THEN UNCHANGED <<dir, dirty>>
          ELSE Writes(call.old, "topic", [x EXCEPT !.cat = call.cat])
    /\ Goes("row")
    /\ UNCHANGED <<cascade, history>>

(* The row the call began with, with the new category and path.            *)
PatchRow ==
    /\ call.pc = "row"
    /\ row' = Row(Says(call.text.text, call.cat), call.old)
    /\ Returns
    /\ UNCHANGED <<dir, dirty, stored, found, failed, task, history>>

PatchRaises ==
    /\ call.pc \in {"front", "move", "topics", "row"}
    /\ Fault /\ Returns
    /\ UNCHANGED <<dir, dirty, cascade, good, spilt, calls>>

-----------------------------------------------------------------------------
(* The cascade.  A batch is processed concurrently, the next one after it. *)

Step(f, pc, x) == task' = [task EXCEPT ![f] = [pc |-> pc, says |-> x]]
Done(f) == Step(f, "idle", None)

Batch(S) ==
    /\ S # {} /\ \A f \in Files : task[f].pc = "idle"
    /\ dirty' = dirty \ S
    /\ failed' = failed \ S
    /\ task' = [f \in Files |->
                  IF f \notin S THEN NoTask
                  ELSE [pc |-> IF Content(f) # None THEN "read" ELSE "gone",
                        says |-> None]]
    /\ UNCHANGED <<dir, rows, call, history>>

(* A file that has disappeared is folded into a deletion.                  *)
Read(f) ==
    /\ task[f].pc = "read"
    /\ IF Content(f) = None THEN Step(f, "gone", None)
       ELSE Step(f, IF f[2] = "index" THEN "upsert" ELSE "compare", Content(f))
    /\ UNCHANGED <<dir, rows, dirty, failed, call, history>>

(* KnowledgeDocumentHandler. *)
UpsertDocument(f) ==
    /\ task[f].pc = "upsert"
    /\ row' = Row(task[f].says, f[1])
    /\ Done(f)
    /\ UNCHANGED <<dir, stored, found, dirty, failed, call, history>>

(* KnowledgeTopicHandler: the digest leaves the path out.                  *)
SameDigest(x) == found # None /\ found.text = x.text /\ found.cat = x.cat

Compare(f) ==
    /\ task[f].pc = "compare"
    /\ IF SameDigest(task[f].says) THEN Done(f) ELSE Step(f, "embed", task[f].says)
    /\ UNCHANGED <<dir, rows, dirty, failed, call, history>>

IndexTopic(f) ==
    /\ task[f].pc = "embed"
    /\ found' = Row(task[f].says, f[1])
    /\ Step(f, "store", task[f].says)
    /\ UNCHANGED <<dir, row, stored, dirty, failed, call, history>>

StoreTopic(f) ==
    /\ task[f].pc = "store"
    /\ stored' = Row(task[f].says, f[1])
    /\ Done(f)
    /\ UNCHANGED <<dir, row, found, dirty, failed, call, history>>

(* handle_deleted: rows go by their path, the index before SQLite.         *)
Without(x, p) == IF x # None /\ x.at = p THEN None ELSE x

Gone(f) ==
    /\ task[f].pc = "gone"
    /\ IF f[2] = "index"
       THEN row' = Without(row, f[1]) /\ Done(f) /\ UNCHANGED found
       ELSE found' = Without(found, f[1]) /\ Step(f, "forget", None) /\ UNCHANGED row
    /\ UNCHANGED <<dir, stored, dirty, failed, call, history>>

(* Mutant: SQLite keeps the row. *)
Forget_Kept(f) == /\ task[f].pc = "forget" /\ Done(f)
                  /\ UNCHANGED <<dir, rows, dirty, failed, call, history>>

Forget(f) ==
    /\ task[f].pc = "forget"
    /\ stored' = Without(stored, f[1])
    /\ Done(f)
    /\ UNCHANGED <<dir, row, found, dirty, failed, call, history>>

(* Mutant: a file whose handler raised counts as processed. *)
TaskFails_Done(f) ==
    /\ task[f].pc \in {"upsert", "embed", "store"} /\ Fault
    /\ Done(f)
    /\ UNCHANGED <<dir, rows, dirty, failed, call, good, spilt, calls>>

(* Any other error than a service's: mark_failed(retryable=False).  The    *)
(* scanner asks again only for a file that is missing.                     *)
TaskFails(f) ==
    /\ task[f].pc \in {"upsert", "embed", "store", "gone", "forget"} /\ Fault
    /\ Done(f)
    /\ IF Content(f) = None
       THEN dirty' = dirty \cup {f} /\ UNCHANGED failed
       ELSE failed' = failed \cup {f} /\ UNCHANGED dirty
    /\ UNCHANGED <<dir, rows, call, good, spilt, calls>>

(* everos cascade fix --apply. *)
Fix == /\ failed # {} /\ call = NoCall
       /\ dirty' = dirty \cup failed /\ failed' = {}
       /\ UNCHANGED <<dir, rows, task, call, history>>

(* The process stops: claims are recovered, the call is gone.              *)
Stop == /\ call # NoCall \/ ~Settled
        /\ Fault
        /\ Returns
        /\ dirty' = dirty \cup {f \in Files : task[f].pc # "idle"}
        /\ task' = [f \in Files |-> NoTask]
        /\ UNCHANGED <<dir, rows, failed, good, spilt, calls>>

-----------------------------------------------------------------------------
CallStep == \/ \E c \in Categories : Patch(c) \/ \E t \in Texts : Create(t, c) \/ Replace(t, c)
            \/ BackUp \/ Clear \/ WriteIndex \/ WriteTopic
            \/ Raises \/ Restore \/ Acknowledged
            \/ Delete \/ Remove
            \/ Front \/ Move \/ Topics \/ PatchRow \/ PatchRaises

(* The changes of a directory reach the queue together. *)
CascadeStep == \/ \E P \in SUBSET {f[1] : f \in dirty} :
                     Batch({f \in dirty : f[1] \in P})
               \/ \E f \in Files :
                     \/ Read(f) \/ UpsertDocument(f) \/ Compare(f) \/ IndexTopic(f)
                     \/ StoreTopic(f) \/ Gone(f) \/ Forget(f) \/ TaskFails(f)
               \/ Fix \/ Stop

Next == CallStep \/ CascadeStep

Spec == Init /\ [][Next]_vars
=============================================================================
