------------------------------ MODULE Cascade --------------------------------
(***************************************************************************)
(* The cascade: markdown files under the memory root are the truth, the    *)
(* LanceDB tables are derived from them, and the md_change_state queue     *)
(* (module MdChangeState) connects the two.  The daemon runs a filesystem  *)
(* watcher, a periodic scanner and a worker as tasks of one process; the   *)
(* `everos cascade` commands run a scanner sweep and a worker drain in a   *)
(* process of their own.                                                   *)
(*                                                                         *)
(* An action is one step between two awaits: a stat, one SQL statement of  *)
(* the queue, one LanceDB call.  index[p] is the version of p whose        *)
(* entries the index shows: Absent for none, Torn when the rows of two     *)
(* versions are mixed.                                                     *)
(***************************************************************************)
EXTENDS Reconciler, FiniteSets

CONSTANTS
    Path,        \* markdown paths that match a registered kind
    Server,      \* the daemon
    Cli,         \* processes that run `everos cascade` commands
    Lane,        \* drain batches that can be live at once
    Owner,       \* lane -> the process whose worker runs the batch
    BatchSize,   \* worker_batch_size
    Watcher,     \* FALSE: EVEROS_DISABLE_CASCADE_WATCHER
    Commands,    \* the commands the operator uses
    Exclusive,   \* TRUE: the operator runs one process at a time
    StoreFaults, \* bound: queue statements that raise (database is locked)
    MaxCrashes   \* bound: process deaths and stops

Process == {Server} \cup Cli

ASSUME CascadeAssumption ==
    /\ Server \notin Cli
    /\ Owner \in [Lane -> Process]
    /\ BatchSize \in Nat \ {0}
    /\ Watcher \in BOOLEAN
    /\ Exclusive \in BOOLEAN
    /\ StoreFaults \in Nat
    /\ MaxCrashes \in Nat
    /\ Commands \subseteq {"sync", "path", "fix", "rebuild"}

VARIABLES
    disk,     \* path -> version on disk, or Absent
    last,     \* path -> latest version ever written
    row,      \* path -> its md_change_state row
    index,    \* path -> version the index shows
    notices,  \* path -> filesystem events the watcher has not seen yet
    inbox,    \* upserts the watcher handed to the event loop
    mode,     \* process -> what it is doing
    scan,     \* process -> its sweep
    task,     \* lane -> path -> the worker's _process_one
    draining, \* lane -> drain_once still awaits the batch
    crashes,  \* deaths so far
    faults,   \* statements that raised so far
    crossed   \* paths that two batches have held at the same time

vars == <<disk, last, row, index, notices, inbox, mode, scan, task, draining,
          crashes, faults, crossed>>

files   == <<disk, last>>
watcher == <<notices, inbox>>
worker  == <<task, draining>>
history == <<crashes, faults, crossed>>

-----------------------------------------------------------------------------
Torn  == MaxVersion + 1
Shown == 0..Torn

Mode == {"down", "up", "sync", "drain", "reset"}

Sweep == [pc : {"idle", "walked", "upsert"}, seen : [Path -> Mtime],
          todo : SUBSET Decision(Path)]

NoSweep == [pc |-> "idle", seen |-> [p \in Path |-> Absent], todo |-> {}]

TaskPc == {"idle", "picked", "taken", "claimed", "run", "fold", "embed", "prune",
           "mark", "fail"}

Task == [pc : TaskPc, change : Change, retries : Nat, attempt : Nat,
         read : Mtime, verdict : Retryable]

Idle == [pc |-> "idle", change |-> "modified", retries |-> 0, attempt |-> 0,
         read |-> Absent, verdict |-> "null"]

Busy(l, p) == task[l][p].pc # "idle"

\* The batch holds the path: it has claimed the row, or will report on it.
Holds(l, p) == task[l][p].pc \notin {"idle", "picked"}

\* A handler is at work on the path for the batch.
Handles(l, p) == Holds(l, p) /\ task[l][p].pc # "taken"

Init ==
    /\ disk = [p \in Path |-> Absent]
    /\ last = [p \in Path |-> 0]
    /\ row = [p \in Path |-> NoRow]
    /\ index = [p \in Path |-> Absent]
    /\ notices = [p \in Path |-> {}]
    /\ inbox = {}
    /\ mode = [q \in Process |-> "down"]
    /\ scan = [q \in Process |-> NoSweep]
    /\ task = [l \in Lane |-> [p \in Path |-> Idle]]
    /\ draining = [l \in Lane |-> FALSE]
    /\ crashes = 0
    /\ faults = 0
    /\ crossed = {}

-----------------------------------------------------------------------------
(* The memory root: files are written, replaced and unlinked by the        *)
(* strategies and by users' editors.                                       *)

\* Events reach a watcher that is running.
Notify(p, S) ==
    notices' = IF Watcher /\ mode[Server] = "up"
               THEN [notices EXCEPT ![p] = @ \cup S]
               ELSE notices

\* An atomic replace may also report the deletion of the old inode.
Write(p) ==
    /\ last[p] < MaxVersion
    /\ last' = [last EXCEPT ![p] = @ + 1]
    /\ disk' = [disk EXCEPT ![p] = last[p] + 1]
    /\ \/ Notify(p, {"modified"})
       \/ disk[p] # Absent /\ Notify(p, {"modified", "deleted"})
    /\ UNCHANGED <<row, index, inbox, mode, scan, task, draining, history>>

Unlink(p) ==
    /\ disk[p] # Absent
    /\ disk' = [disk EXCEPT ![p] = Absent]
    /\ Notify(p, {"deleted"})
    /\ UNCHANGED <<last, row, index, inbox, mode, scan, task, draining,
                   history>>

-----------------------------------------------------------------------------
(* The watcher.  A callback stats the file when it runs, not when the      *)
(* event happened; its upsert runs later, on the event loop.  No fairness  *)
(* is assumed of either, so that an event may be lost (a full inotify      *)
(* queue, an upsert that raises and is only logged).                       *)

WatcherCallback(p, c) ==
    /\ c \in notices[p]
    /\ notices' = [notices EXCEPT ![p] = @ \ {c}]
    /\ inbox' = IF c = "deleted" /\ disk[p] # Absent
                THEN inbox
                ELSE inbox \cup {[path |-> p, change |-> c, mtime |-> disk[p]]}
    /\ UNCHANGED <<files, row, index, mode, scan, worker, history>>

WatcherUpsert(e) ==
    /\ e \in inbox
    /\ inbox' = inbox \ {e}
    /\ row' = [row EXCEPT ![e.path] = Upserted(@, e.change, e.mtime)]
    /\ UNCHANGED <<files, index, notices, mode, scan, worker, history>>

-----------------------------------------------------------------------------
(* The scanner: the walk runs in a thread, the snapshot is read after it,  *)
(* and the upserts follow one by one.  A sweep that fails before its first *)
(* upsert changes nothing and is left out.                                 *)

MayScan(q) == mode[q] \in {"up", "sync"}

\* What the process does when its sweep is over.
AfterSweep(q) ==
    mode' = IF mode[q] = "sync" THEN [mode EXCEPT ![q] = "drain"] ELSE mode

Walk(q) ==
    /\ MayScan(q)
    /\ scan[q].pc = "idle"
    /\ scan' = [scan EXCEPT ![q].pc = "walked", ![q].seen = disk]
    /\ UNCHANGED <<files, row, index, watcher, mode, worker, history>>

Decide(q) ==
    /\ scan[q].pc = "walked"
    /\ LET todo == reconcile(Path, scan[q].seen, row)
       IN  IF todo = {}
           THEN /\ scan' = [scan EXCEPT ![q] = NoSweep]
                /\ AfterSweep(q)
           ELSE /\ scan' = [scan EXCEPT ![q] =
                              [NoSweep EXCEPT !.pc = "upsert", !.todo = todo]]
                /\ UNCHANGED mode
    /\ UNCHANGED <<files, row, index, watcher, worker, history>>

ScanUpsert(q, d) ==
    /\ scan[q].pc = "upsert"
    /\ d \in scan[q].todo
    /\ row' = [row EXCEPT ![d.path] = Upserted(@, d.change, d.mtime)]
    /\ IF scan[q].todo = {d}
       THEN /\ scan' = [scan EXCEPT ![q] = NoSweep]
            /\ AfterSweep(q)
       ELSE /\ scan' = [scan EXCEPT ![q].todo = @ \ {d}]
            /\ UNCHANGED mode
    /\ UNCHANGED <<files, index, watcher, worker, history>>

\* One more statement raises.
Raise ==
    /\ faults < StoreFaults
    /\ faults' = faults + 1
    /\ UNCHANGED <<crashes, crossed>>

\* An upsert raises: the daemon's sweep ends and the next one starts over.
ScanFails ==
    /\ Raise
    /\ scan[Server].pc = "upsert"
    /\ scan' = [scan EXCEPT ![Server] = NoSweep]
    /\ UNCHANGED <<files, row, index, watcher, mode, worker>>

-----------------------------------------------------------------------------
(* The worker.  drain_once claims a batch and gathers one _process_one per *)
(* claimed row; the next claim waits for the whole batch, unless a task    *)
(* raised: then gather returns at once and the other tasks run on.         *)

Pending == {p \in Path : row[p].status = "pending"}

\* Mutant: the claim does not wait for the batch before it.
MayDrain_Eager(l) ==
    /\ mode[Owner[l]] \in {"up", "drain"}
    /\ \A p \in Path : ~Busy(l, p)

MayDrain(l) ==
    /\ mode[Owner[l]] \in {"up", "drain"}
    /\ \A k \in Lane : Owner[k] = Owner[l] => ~draining[k]
    /\ \A p \in Path : ~Busy(l, p)

\* claim_pending_batch reads the paths it wants, claims those that are still
\* pending, and reads the claimed rows again; each statement commits.
Pick(l) ==
    /\ MayDrain(l)
    /\ \E S \in SUBSET Pending :
         /\ S # {}
         /\ \/ S = Pending /\ Cardinality(S) <= BatchSize
            \/ Cardinality(S) = BatchSize
         /\ task' = [task EXCEPT ![l] = [p \in Path |->
                       IF p \in S THEN [Idle EXCEPT !.pc = "picked"] ELSE Idle]]
    /\ draining' = [draining EXCEPT ![l] = TRUE]
    /\ UNCHANGED <<files, row, index, watcher, mode, scan, history>>

InBatch(l, pc) == {p \in Path : task[l][p].pc = pc}

\* The batch comes out empty: the drain is over, and with it a command.
EmptyBatch(l) ==
    /\ task' = [task EXCEPT ![l] = [p \in Path |-> Idle]]
    /\ draining' = [draining EXCEPT ![l] = FALSE]
    /\ mode' = IF mode[Owner[l]] = "drain"
               THEN [mode EXCEPT ![Owner[l]] = "down"] ELSE mode

\* The UPDATE, guarded by status = 'pending'.  A path that somebody else has
\* claimed meanwhile stays among the paths that are read again.
Take(l) ==
    LET S == InBatch(l, "picked")
        T == S \cap Pending
    IN  /\ S # {}
        /\ row' = [p \in Path |-> IF p \in T THEN Claimed(row[p]) ELSE row[p]]
        /\ IF T = {}
           THEN EmptyBatch(l) /\ UNCHANGED crossed
           ELSE /\ task' = [task EXCEPT ![l] = [p \in Path |->
                              IF p \in S THEN [Idle EXCEPT !.pc = "taken"]
                                         ELSE Idle]]
                /\ crossed' = crossed \cup
                     {p \in S : \E k \in Lane \ {l} : Holds(k, p)}
                /\ UNCHANGED <<mode, draining>>
        /\ UNCHANGED <<files, index, watcher, scan, crashes, faults>>

\* The second SELECT: the rows of the batch that are processing by now,
\* whoever claimed them.
Again(l) == {p \in InBatch(l, "taken") : row[p].status = "processing"}

Claim(l) ==
    /\ Again(l) # {}
    /\ task' = [task EXCEPT ![l] = [p \in Path |->
                  IF p \in Again(l)
                  THEN [Idle EXCEPT !.pc = "claimed", !.change = row[p].change,
                                    !.retries = row[p].retries]
                  ELSE Idle]]
    /\ UNCHANGED <<files, row, index, watcher, mode, scan, draining, history>>

\* All of them have been enqueued again since.
ClaimNothing(l) ==
    /\ InBatch(l, "taken") # {}
    /\ Again(l) = {}
    /\ EmptyBatch(l)
    /\ UNCHANGED <<files, row, index, watcher, scan, history>>

\* A statement of the daemon's claim raises: what it has committed stays.
ClaimFails(l) ==
    /\ Raise
    /\ Owner[l] = Server
    /\ InBatch(l, "picked") \cup InBatch(l, "taken") # {}
    /\ EmptyBatch(l)
    /\ UNCHANGED <<files, row, index, watcher, scan>>

\* The task moves on without touching the queue.
Go(l, p, t) ==
    /\ task' = [task EXCEPT ![l][p] = t]
    /\ UNCHANGED <<files, row, watcher, mode, scan, draining, history>>

\* Mutant: no entry check.
Enter_NoBudget(l, p) ==
    LET t == task[l][p] IN
    /\ t.pc = "claimed"
    /\ Go(l, p, [t EXCEPT !.pc = "run"])
    /\ UNCHANGED index

\* Entry check of _process_one: the budget may be spent already.
Enter(l, p) ==
    LET t == task[l][p] IN
    /\ t.pc = "claimed"
    /\ Go(l, p, IF t.retries >= TotalRetries
                THEN [t EXCEPT !.pc = "fail", !.verdict = "false"]
                ELSE [t EXCEPT !.pc = "run"])
    /\ UNCHANGED index

\* handle_deleted for a row that says so; the file is not looked at.
HandleDeleted(l, p) ==
    LET t == task[l][p] IN
    /\ t.pc = "run" /\ t.change = "deleted"
    /\ index' = [index EXCEPT ![p] = Absent]
    /\ Go(l, p, [t EXCEPT !.pc = "mark"])

\* handle_added_or_modified reads the file; FileNotFoundError folds the row
\* into a deletion, carried out one step later.
ReadMd(l, p) ==
    LET t == task[l][p] IN
    /\ t.pc = "run" /\ t.change # "deleted"
    /\ Go(l, p, [t EXCEPT !.pc = IF disk[p] = Absent THEN "fold" ELSE "embed",
                          !.read = disk[p]])
    /\ UNCHANGED index

FoldDelete(l, p) ==
    LET t == task[l][p] IN
    /\ t.pc = "fold"
    /\ index' = [index EXCEPT ![p] = Absent]
    /\ Go(l, p, [t EXCEPT !.pc = "mark"])

\* The diff against the indexed rows finds nothing to do, or the changed
\* entries are upserted and the vanished ones are deleted after them.
Reindex(l, p) ==
    LET t == task[l][p] IN
    /\ t.pc = "embed"
    /\ IF index[p] = t.read
       THEN /\ UNCHANGED index
            /\ Go(l, p, [t EXCEPT !.pc = "mark"])
       ELSE /\ index' = [index EXCEPT ![p] = Torn]
            /\ Go(l, p, [t EXCEPT !.pc = "prune"])

PruneEntries(l, p) ==
    LET t == task[l][p] IN
    /\ t.pc = "prune"
    /\ index' = [index EXCEPT ![p] = t.read]
    /\ Go(l, p, [t EXCEPT !.pc = "mark"])

InHandler(l, p) == task[l][p].pc \in {"run", "fold", "embed", "prune"}

\* ExternalServiceError: retried in place, then handed to the scanner.
ExternalError(l, p) ==
    LET t == task[l][p] IN
    /\ InHandler(l, p)
    /\ Go(l, p, IF t.attempt < InlineRetries
                THEN [t EXCEPT !.pc = "run", !.read = Absent,
                               !.attempt = @ + 1, !.retries = @ + 1]
                ELSE [t EXCEPT !.pc = "fail",
                               !.verdict = IF t.retries < TotalRetries
                                           THEN "true" ELSE "false"])
    /\ UNCHANGED index

\* Any other exception (malformed markdown, a schema error), or no handler.
Unrecoverable(l, p) ==
    LET t == task[l][p] IN
    /\ InHandler(l, p)
    /\ Go(l, p, [t EXCEPT !.pc = "fail", !.verdict = "false"])
    /\ UNCHANGED index

\* The task returns; the last one of an awaited batch ends the drain.
Return(l, p) ==
    /\ task' = [task EXCEPT ![l][p] = Idle]
    /\ draining' = [draining EXCEPT ![l] =
                      @ /\ \E r \in Path \ {p} : Busy(l, r)]

Mark(l, p) ==
    LET t == task[l][p] IN
    /\ \/ t.pc = "mark" /\ row' = [row EXCEPT ![p] = MarkedDone(@)]
       \/ t.pc = "fail" /\ row' = [row EXCEPT ![p] =
                                     MarkedFailed(@, t.verdict, t.retries)]
    /\ Return(l, p)
    /\ UNCHANGED <<files, index, watcher, mode, scan, history>>

\* The daemon's mark_done or mark_failed raises: the task dies, gather hands
\* the exception to _run_loop, the row stays processing.  (A command dies of
\* the exception: Die.)
MarkFails(l, p) ==
    /\ Raise
    /\ Owner[l] = Server
    /\ task[l][p].pc \in {"mark", "fail"}
    /\ task' = [task EXCEPT ![l][p] = Idle]
    /\ draining' = [draining EXCEPT ![l] = FALSE]
    /\ UNCHANGED <<files, row, index, watcher, mode, scan>>

-----------------------------------------------------------------------------
(* Processes.                                                              *)

MayStart(q) ==
    /\ mode[q] = "down"
    /\ Exclusive => \A r \in Process : mode[r] = "down"

Become(q, m) == mode' = [mode EXCEPT ![q] = m]

\* CascadeOrchestrator.start.  The operator keeps the daemon stopped while a
\* rebuild drops the tables, as its documentation demands.
ServerStart ==
    /\ MayStart(Server)
    /\ \A q \in Cli : mode[q] # "reset"
    /\ row' = [p \in Path |-> Recovered(row[p])]
    /\ Become(Server, "up")
    /\ UNCHANGED <<files, index, watcher, scan, worker, history>>

\* A crash, or a stop: every task is cancelled where it awaits.
Die(q) ==
    /\ mode[q] # "down"
    /\ crashes < MaxCrashes
    /\ crashes' = crashes + 1
    /\ UNCHANGED <<faults, crossed>>
    /\ Become(q, "down")
    /\ scan' = [scan EXCEPT ![q] = NoSweep]
    /\ task' = [l \in Lane |-> IF Owner[l] = q THEN [p \in Path |-> Idle]
                                               ELSE task[l]]
    /\ draining' = [l \in Lane |-> Owner[l] # q /\ draining[l]]
    /\ IF q = Server
       THEN notices' = [p \in Path |-> {}] /\ inbox' = {}
       ELSE UNCHANGED watcher
    /\ UNCHANGED <<files, row, index>>

\* everos cascade sync
CliSync(q) ==
    /\ "sync" \in Commands
    /\ MayStart(q)
    /\ Become(q, "sync")
    /\ UNCHANGED <<files, row, index, watcher, scan, worker, history>>

\* everos cascade sync PATH
CliSyncPath(q, p) ==
    /\ "path" \in Commands
    /\ MayStart(q)
    /\ row' = [row EXCEPT ![p] = ForceEnqueued(@)]
    /\ Become(q, "sync")
    /\ UNCHANGED <<files, index, watcher, scan, worker, history>>

\* everos cascade fix --apply
CliFix(q) ==
    /\ "fix" \in Commands
    /\ MayStart(q)
    /\ \E p \in Path : IsRetryable(row[p])
    /\ row' = [p \in Path |-> ResetRetryable(row[p])]
    /\ Become(q, "drain")
    /\ UNCHANGED <<files, index, watcher, scan, worker, history>>

\* Mutant: the tables are dropped before the queue is reset.
CliRebuild_DropFirst(q) ==
    /\ "rebuild" \in Commands
    /\ MayStart(q)
    /\ mode[Server] = "down"
    /\ index' = [p \in Path |-> Absent]
    /\ Become(q, "reset")
    /\ UNCHANGED <<files, row, watcher, scan, worker, history>>

\* everos cascade rebuild: reset_all first, then drop_business_tables.
CliRebuild(q) ==
    /\ "rebuild" \in Commands
    /\ MayStart(q)
    /\ mode[Server] = "down"
    /\ row' = [p \in Path |-> NoRow]
    /\ Become(q, "reset")
    /\ UNCHANGED <<files, index, watcher, scan, worker, history>>

DropTables(q) ==
    /\ mode[q] = "reset"
    /\ index' = [p \in Path |-> Absent]
    /\ Become(q, "sync")
    /\ UNCHANGED <<files, row, watcher, scan, worker, history>>

\* drain_until_empty found nothing pending: the command returns.
CliExit(q) ==
    /\ mode[q] = "drain"
    /\ Pending = {}
    /\ \A l \in Lane, p \in Path : Owner[l] = q => ~Busy(l, p)
    /\ Become(q, "down")
    /\ UNCHANGED <<files, row, index, watcher, scan, worker, history>>

-----------------------------------------------------------------------------
User == \E p \in Path : Write(p) \/ Unlink(p)

Watch ==
    \/ \E p \in Path, c \in Change : WatcherCallback(p, c)
    \/ \E e \in inbox : WatcherUpsert(e)

ScanStep(q) ==
    \/ Walk(q)
    \/ Decide(q)
    \/ \E d \in scan[q].todo : ScanUpsert(q, d)

ClaimStep(l) ==
    \/ Pick(l)
    \/ Take(l)
    \/ Claim(l)
    \/ ClaimNothing(l)
    \/ ClaimFails(l)

TaskStep(l, p) ==
    \/ Enter(l, p)
    \/ HandleDeleted(l, p)
    \/ ReadMd(l, p)
    \/ FoldDelete(l, p)
    \/ Reindex(l, p)
    \/ PruneEntries(l, p)
    \/ ExternalError(l, p)
    \/ Unrecoverable(l, p)
    \/ Mark(l, p)
    \/ MarkFails(l, p)

CliStep(q) ==
    \/ CliSync(q)
    \/ \E p \in Path : CliSyncPath(q, p)
    \/ CliFix(q)
    \/ CliRebuild(q)
    \/ DropTables(q)
    \/ CliExit(q)

Next ==
    \/ User
    \/ Watch
    \/ \E q \in Process : ScanStep(q)
    \/ ScanFails
    \/ \E l \in Lane : ClaimStep(l)
    \/ \E l \in Lane, p \in Path : TaskStep(l, p)
    \/ ServerStart
    \/ \E q \in Process : Die(q)
    \/ \E q \in Cli : CliStep(q)

Spec == Init /\ [][Next]_vars

(***************************************************************************)
(* The daemon is restarted when it is down; its scanner sweeps every       *)
(* interval, its worker polls, and every handler call returns or raises    *)
(* (LanceDB calls and HTTP clients carry deadlines).  A sweep may enqueue  *)
(* a row in the moment between the UPDATE and the SELECT of its claim, but *)
(* sweeps are an interval apart and do not hit that moment every time:     *)
(* Claim is strongly fair.  Commands and the watcher are left unfair:      *)
(* nobody has to run the ones, the other may miss events.                  *)
(***************************************************************************)
Fairness ==
    /\ WF_vars(ServerStart)
    /\ WF_vars(ScanStep(Server))
    /\ \A l \in Lane : WF_vars(ClaimStep(l)) /\ SF_vars(Claim(l))
    /\ \A l \in Lane : \A p \in Path : WF_vars(TaskStep(l, p))

FairSpec == Spec /\ Fairness
=============================================================================
