----------------------------- MODULE Reconciler ------------------------------
(***************************************************************************)
(* reconcile(): the pure function that turns one sweep of the disk and one *)
(* snapshot of the queue into the upserts that make the queue catch up.    *)
(***************************************************************************)
EXTENDS MdChangeState

Decision(Path) == [path : Path, change : Change, mtime : Mtime]

\* Mutant: a row counts as up to date whatever its mtime.
UpToDate_AnyMtime(mtime, r) ==
    \/ r.status \in {"done", "pending", "processing"}
    \/ r.status = "failed" /\ r.retryable = "false"

\* The file is on disk with this mtime and its row needs no upsert.
UpToDate(mtime, r) ==
    /\ r.mtime = mtime
    /\ \/ r.status \in {"done", "pending", "processing"}
       \/ r.status = "failed" /\ r.retryable = "false"

\* The file is missing and its deletion has been carried out, or was never
\* due: the path has no row.
Gone(r) ==
    \/ r.status = "none"
    \/ r.status = "done" /\ r.change = "deleted"

\* seen: path -> mtime found by the walk (Absent: not found);
\* state: path -> row of the snapshot.
reconcile(Path, seen, state) ==
    {[path |-> p, change |-> "modified", mtime |-> seen[p]] :
        p \in {q \in Path : seen[q] # Absent /\ ~UpToDate(seen[q], state[q])}}
    \cup
    {[path |-> p, change |-> "deleted", mtime |-> state[p].mtime] :
        p \in {q \in Path : seen[q] = Absent /\ ~Gone(state[q])}}
=============================================================================
