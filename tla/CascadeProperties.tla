-------------------------- MODULE CascadeProperties ---------------------------
(***************************************************************************)
(* What the cascade promises.                                              *)
(***************************************************************************)
EXTENDS Cascade

\* Types of the queue, the index and the tasks.
TypeOK ==
    /\ disk \in [Path -> Mtime]
    /\ last \in [Path -> Mtime]
    /\ row \in [Path -> Row]
    /\ index \in [Path -> Shown]
    /\ notices \in [Path -> SUBSET Change]
    /\ inbox \subseteq Decision(Path)
    /\ mode \in [Process -> Mode]
    /\ scan \in [Process -> Sweep]
    /\ task \in [Lane -> [Path -> Task]]
    /\ draining \in [Lane -> BOOLEAN]
    /\ crashes \in Nat
    /\ faults \in Nat
    /\ crossed \subseteq Path

\* A done row is the scanner's licence never to look at the path again: if
\* its mtime is the one on disk then the index shows exactly that file, and
\* if it records a deletion the index shows nothing.  Interleavings of the
\* watcher, a sweep, the handler and a crash must not break it.
Truthful(p) ==
    row[p].status = "done" =>
        IF row[p].change = "deleted"
        THEN index[p] = Absent
        ELSE disk[p] # Absent /\ row[p].mtime = disk[p] => index[p] = disk[p]

DoneMeansIndexed == \A p \in Path : Truthful(p)

\* Two handlers never run on one path at a time ("each row lands in exactly
\* one batch"), whatever upserts and restarts happen in between.
OneHandlerPerPath ==
    \A p \in Path, k, l \in Lane : Handles(k, p) /\ Handles(l, p) => k = l

\* While the daemon is up, a claimed row has a live task: no row waits in
\* processing, where neither scanner nor claim looks, for work nobody does.
NoOrphanClaim ==
    mode[Server] = "up" =>
        \A p \in Path : row[p].status = "processing" =>
            \E l \in Lane : Holds(l, p)

\* The retry count of a row never exceeds the total budget by more than the
\* inline retries of one claim, across sweeps, restarts and re-enqueues.
RetryBudget ==
    \A p \in Path : row[p].retries < TotalRetries + InlineRetries

\* Whatever runs beside the daemon and whichever statement raises, a done row
\* lies only about a path that two batches have held at once: overlapping
\* batches, restarts of a scan and late verdicts do no damage elsewhere.
TrueUnlessCrossed == \A p \in Path \ crossed : Truthful(p)

-----------------------------------------------------------------------------
(* The abstract specification.                                             *)

\* What a done row says that the index shows.
Vouched(p) ==
    IF row[p].status # "done" THEN {}
    ELSE IF row[p].change = "deleted" THEN {Absent}
    ELSE {row[p].mtime} \ {Absent}

Contract == INSTANCE Projection
            WITH file <- disk, newest <- last, view <- index,
                 vouched <- [p \in Path |-> Vouched(p)]

\* The index is a projection of the files (module Projection): no step, of a
\* handler that has read long ago, of a rebuild or after a crash, changes the
\* index of a path that a done row vouches for, and no row is marked done that
\* says of the index what is not so.
Projects == Contract!Spec

-----------------------------------------------------------------------------
\* The index shows what is on disk.
Synced(p) == index[p] = disk[p]

\* The row is parked for the user to repair.
GaveUp(p) == row[p].status = "failed" /\ row[p].retryable = "false"

\* The scanner takes a deletion it recorded for the state of a live file.
Masked(p) ==
    /\ row[p].status = "done"
    /\ row[p].change = "deleted"
    /\ disk[p] # Absent
    /\ row[p].mtime = disk[p]

\* A handler run for the path has given up.
HandlerFails(p) == \E l \in Lane : task[l][p].pc = "fail"

\* The index comes to show the file for good; or the row is parked for good;
\* or the file is gone and its deletion fails again and again.
Settles(p) ==
    \/ <>[]Synced(p)
    \/ <>[]GaveUp(p)
    \/ <>[](disk[p] = Absent) /\ []<>HandlerFails(p)

\* Once edits end, every path settles.  The scanner is enough for this: it
\* needs no watcher event, and a crash only delays it.  What a watcher adds
\* is one more end, a deletion that masks a live file, and only that one.
Converges == \A p \in Path : Settles(p) \/ <>[]Masked(p)
=============================================================================
