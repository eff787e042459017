---------------------------- MODULE MdChangeState ----------------------------
(***************************************************************************)
(* The md_change_state row: the cascade work queue keeps one per markdown  *)
(* path.  Every writer (watcher, scanner, worker, CLI) goes through the    *)
(* repository modelled here, one SQL statement per operator.  An operator  *)
(* maps the row before the statement to the row after it; the state        *)
(* machine that decides who runs which statement when is module Cascade.   *)
(*                                                                         *)
(* A file's content and its mtime are one number, its version: 0 stands    *)
(* for "no such file" and for the mtime 0.0 the code stores when it has    *)
(* none.  Two versions of one path differ by more than the mtime tolerance.*)
(* "added" and "modified" are one change type: nothing in the code tells   *)
(* them apart.  The lsn is left out: it orders the claims of one batch.    *)
(***************************************************************************)
EXTENDS Naturals

CONSTANTS MaxVersion,   \* bound: versions one path goes through
          TotalRetries, \* _MAX_TOTAL_RETRIES, the cross-cycle retry budget
          InlineRetries \* worker_max_retry, retries within one claim

ASSUME QueueAssumption ==
    /\ MaxVersion \in Nat
    /\ TotalRetries \in Nat \ {0}
    /\ InlineRetries \in Nat

Absent    == 0
Version   == 1..MaxVersion
Mtime     == 0..MaxVersion
Change    == {"modified", "deleted"}
Status    == {"none", "pending", "processing", "done", "failed"}
Retryable == {"null", "true", "false"}

Row == [status : Status, change : Change, mtime : Mtime,
        retryable : Retryable, retries : Nat]

NoRow == [status |-> "none", change |-> "modified", mtime |-> 0,
          retryable |-> "null", retries |-> 0]

\* Mutant: an upsert leaves a claimed row claimed.
Upserted_KeepsClaim(r, c, m) ==
    [status |-> IF r.status = "processing" THEN r.status ELSE "pending",
     change |-> c, mtime |-> m, retryable |-> "null",
     retries |-> IF r.status = "failed" /\ r.mtime = m THEN r.retries ELSE 0]

\* upsert: (re-)enqueue with a fresh claim to be processed.  retry_count
\* survives only a re-enqueue of a failed row whose file did not change.
Upserted(r, c, m) ==
    [status |-> "pending", change |-> c, mtime |-> m, retryable |-> "null",
     retries |-> IF r.status = "failed" /\ r.mtime = m THEN r.retries ELSE 0]

\* Mutant: force_enqueue stamps the time of the call.
ForceEnqueued_Now(r) == Upserted(r, "modified", MaxVersion + 1)

\* force_enqueue: an upsert that no file event backs.
ForceEnqueued(r) == Upserted(r, "modified", 0)

\* The UPDATE of claim_pending_batch for one picked row.
Claimed(r) == [r EXCEPT !.status = "processing"]

\* Mutant: mark_done without WHERE status = 'processing'.
MarkedDone_Unguarded(r) == [r EXCEPT !.status = "done", !.retryable = "null"]

\* mark_done and mark_failed: no-ops unless the row is still processing.
MarkedDone(r) ==
    IF r.status = "processing"
    THEN [r EXCEPT !.status = "done", !.retryable = "null"]
    ELSE r

MarkedFailed(r, verdict, n) ==
    IF r.status = "processing"
    THEN [r EXCEPT !.status = "failed", !.retryable = verdict, !.retries = n]
    ELSE r

\* Mutant: boot leaves the claims of the previous life alone.
Recovered_Never(r) == r

\* recover_orphan_processing, run once when the daemon boots.
Recovered(r) ==
    IF r.status = "processing" THEN [r EXCEPT !.status = "pending"] ELSE r

\* reset_retryable_to_pending, the engine of `cascade fix --apply`.
IsRetryable(r) == r.status = "failed" /\ r.retryable = "true"

ResetRetryable(r) ==
    IF IsRetryable(r)
    THEN [r EXCEPT !.status = "pending", !.retryable = "null", !.retries = 0]
    ELSE r
=============================================================================
