---------------------------- MODULE CascadeProofs ----------------------------
(***************************************************************************)
(* Proofs about the cascade, for any set of paths, any lanes and commands  *)
(* and any history.                                                         *)
(***************************************************************************)
EXTENDS CascadeProperties, TLAPS

\* An upsert maps a row to a row.
LEMMA UpsertType ==
    ASSUME NEW r \in Row, NEW c \in Change, NEW m \in Mtime
    PROVE  Upserted(r, c, m) \in Row
BY DEF Row, Status, Retryable, Upserted

\* So do a failure verdict and every other statement of the queue.
LEMMA FailType ==
    ASSUME NEW r \in Row, NEW v \in Retryable, NEW n \in Nat
    PROVE  MarkedFailed(r, v, n) \in Row
BY DEF Row, Status, MarkedFailed

LEMMA StatementType ==
    ASSUME NEW r \in Row
    PROVE  /\ NoRow \in Row
           /\ ForceEnqueued(r) \in Row
           /\ Claimed(r) \in Row
           /\ MarkedDone(r) \in Row
           /\ Recovered(r) \in Row
           /\ ResetRetryable(r) \in Row
<1> USE QueueAssumption DEF Row, Status, Retryable
<1>1. NoRow \in Row
    BY DEF NoRow, Change, Mtime
<1>2. ForceEnqueued(r) \in Row
    BY UpsertType DEF ForceEnqueued, Change, Mtime
<1>3. Claimed(r) \in Row
    BY DEF Claimed
<1>4. MarkedDone(r) \in Row
    BY DEF MarkedDone
<1>5. Recovered(r) \in Row
    BY DEF Recovered
<1>6. ResetRetryable(r) \in Row
    BY DEF ResetRetryable
<1> QED
    BY <1>1, <1>2, <1>3, <1>4, <1>5, <1>6

\* Every decision of reconcile is an upsert of a known path, with an mtime
\* that the sweep or the row carried.
LEMMA ReconcileType ==
    ASSUME NEW seen \in [Path -> Mtime], NEW state \in [Path -> Row],
           NEW d \in reconcile(Path, seen, state)
    PROVE  /\ d \in Decision(Path)
           /\ d.mtime \in {seen[d.path], state[d.path].mtime}
BY DEF reconcile, Decision, Row, Change

-----------------------------------------------------------------------------
(* Types.                                                                  *)

\* The constants of the task and sweep records have their types.
LEMMA Records ==
    /\ NoSweep \in Sweep
    /\ Idle \in Task
    /\ Absent \in Mtime
    /\ Absent \in Shown
    /\ Torn \in Shown
    /\ Mtime \subseteq Shown
BY QueueAssumption
   DEF NoSweep, Sweep, Idle, Task, TaskPc, Absent, Mtime, Shown, Torn, Change,
       Retryable

\* A step of the memory root or of the watcher keeps the types.
LEMMA TypeEnvironment ==
    TypeOK /\ (User \/ Watch) => TypeOK'
<1> SUFFICES ASSUME TypeOK, User \/ Watch PROVE TypeOK'
    OBVIOUS
<1> USE Records, QueueAssumption DEF TypeOK
<1>1. ASSUME NEW p \in Path, NEW S \in SUBSET Change, Notify(p, S)
      PROVE  notices' \in [Path -> SUBSET Change]
    BY <1>1 DEF Notify
<1>2. ASSUME NEW p \in Path, Write(p) PROVE TypeOK'
    BY <1>2, <1>1 DEF Write, Mtime, Change, history
<1>3. ASSUME NEW p \in Path, Unlink(p) PROVE TypeOK'
    BY <1>3, <1>1 DEF Unlink, Change, history
<1>4. ASSUME NEW p \in Path, NEW c \in Change, WatcherCallback(p, c)
      PROVE  TypeOK'
    BY <1>4 DEF WatcherCallback, files, worker, history, Decision
<1>5. ASSUME NEW e \in inbox, WatcherUpsert(e) PROVE TypeOK'
    <2>1. e.path \in Path /\ e.change \in Change /\ e.mtime \in Mtime
        BY DEF Decision
    <2>2. row' \in [Path -> Row]
        BY <1>5, <2>1, UpsertType DEF WatcherUpsert
    <2> QED
        BY <1>5, <2>2 DEF WatcherUpsert, files, worker, history
<1> QED
    BY <1>2, <1>3, <1>4, <1>5 DEF User, Watch

\* A step of a sweep keeps the types.
LEMMA TypeScan ==
    TypeOK /\ ((\E q \in Process : ScanStep(q)) \/ ScanFails) => TypeOK'
<1> SUFFICES ASSUME TypeOK, (\E q \in Process : ScanStep(q)) \/ ScanFails
             PROVE  TypeOK'
    OBVIOUS
<1> USE Records DEF TypeOK
<1>1. ASSUME NEW q \in Process, AfterSweep(q)
      PROVE  mode' \in [Process -> Mode]
    BY <1>1 DEF AfterSweep, Mode
<1>2. ASSUME NEW q \in Process, Walk(q) PROVE TypeOK'
    <2>1. scan' \in [Process -> Sweep]
        BY <1>2 DEF Walk, Sweep
    <2> QED
        BY <1>2, <2>1 DEF Walk, files, watcher, worker, history
<1>3. ASSUME NEW q \in Process, Decide(q) PROVE TypeOK'
    <2> DEFINE todo == reconcile(Path, scan[q].seen, row)
    <2>1. scan[q].seen \in [Path -> Mtime]
        BY DEF Sweep
    <2>2. todo \subseteq Decision(Path)
        BY <2>1, ReconcileType
    <2> HIDE DEF todo
    <2>3. [NoSweep EXCEPT !.pc = "upsert", !.todo = todo] \in Sweep
        BY <2>2 DEF Sweep, NoSweep
    <2>4. scan' \in [Process -> Sweep] /\ mode' \in [Process -> Mode]
        BY <1>3, <1>1, <2>3 DEF Decide, todo
    <2> QED
        BY <1>3, <2>4 DEF Decide, files, watcher, worker, history
<1>4. ASSUME NEW q \in Process, NEW d \in scan[q].todo, ScanUpsert(q, d)
      PROVE  TypeOK'
    <2>1. scan[q] \in Sweep
        OBVIOUS
    <2>2. d.path \in Path /\ d.change \in Change /\ d.mtime \in Mtime
        BY <2>1 DEF Sweep, Decision
    <2>3. row' \in [Path -> Row]
        BY <1>4, <2>2, UpsertType DEF ScanUpsert
    <2>4. [scan[q] EXCEPT !.todo = @ \ {d}] \in Sweep
        BY <2>1 DEF Sweep
    <2>5. scan' \in [Process -> Sweep] /\ mode' \in [Process -> Mode]
        BY <1>4, <1>1, <2>4 DEF ScanUpsert
    <2> QED
        BY <1>4, <2>3, <2>5 DEF ScanUpsert, files, watcher, worker, history
<1>5. CASE ScanFails
    <2>1. Server \in Process
        BY DEF Process
    <2> QED
        BY <1>5, <2>1 DEF ScanFails, Raise, files, watcher, worker
<1> QED
    BY <1>2, <1>3, <1>4, <1>5 DEF ScanStep

\* A step of the worker keeps the types.
LEMMA TypeWorker ==
    /\ TypeOK
    /\ \/ \E l \in Lane : ClaimStep(l)
       \/ \E l \in Lane, p \in Path : TaskStep(l, p)
    => TypeOK'
<1> SUFFICES ASSUME TypeOK, \/ \E l \in Lane : ClaimStep(l)
                            \/ \E l \in Lane, p \in Path : TaskStep(l, p)
             PROVE  TypeOK'
    OBVIOUS
<1> USE Records DEF TypeOK
<1>1. ASSUME NEW l \in Lane, ClaimStep(l) PROVE TypeOK'
    <2>1. /\ [Idle EXCEPT !.pc = "picked"] \in Task
          /\ [Idle EXCEPT !.pc = "taken"] \in Task
          /\ \A r \in Row :
                [Idle EXCEPT !.pc = "claimed", !.change = r.change,
                             !.retries = r.retries] \in Task
        BY DEF Idle, Task, TaskPc, Row
    <2>2. ASSUME EmptyBatch(l)
          PROVE  /\ task' \in [Lane -> [Path -> Task]]
                 /\ draining' \in [Lane -> BOOLEAN]
                 /\ mode' \in [Process -> Mode]
        BY <2>2 DEF EmptyBatch, Mode
    <2>3. CASE Pick(l)
        <3>1. PICK S : task' = [task EXCEPT ![l] = [p \in Path |->
                 IF p \in S THEN [Idle EXCEPT !.pc = "picked"] ELSE Idle]]
            BY <2>3 DEF Pick
        <3>2. task' \in [Lane -> [Path -> Task]]
            BY <2>1, <3>1
        <3> QED
            BY <2>3, <3>2 DEF Pick, files, watcher, history
    <2>4. CASE Take(l)
        <3>1. row' \in [Path -> Row]
            BY <2>4, StatementType DEF Take
        <3>2. /\ task' \in [Lane -> [Path -> Task]]
              /\ draining' \in [Lane -> BOOLEAN]
              /\ mode' \in [Process -> Mode]
              /\ crossed' \subseteq Path
            <4>1. CASE InBatch(l, "picked") \cap Pending = {}
                BY <2>2, <2>4, <4>1 DEF Take
            <4>2. CASE InBatch(l, "picked") \cap Pending # {}
                <5>1. /\ task' = [task EXCEPT ![l] = [p \in Path |->
                                    IF p \in InBatch(l, "picked")
                                    THEN [Idle EXCEPT !.pc = "taken"]
                                    ELSE Idle]]
                      /\ UNCHANGED <<mode, draining>>
                      /\ crossed' \subseteq
                            crossed \cup InBatch(l, "picked")
                    BY <2>4, <4>2 DEF Take
                <5>2. task' \in [Lane -> [Path -> Task]]
                    BY <2>1, <5>1
                <5> QED
                    BY <5>1, <5>2 DEF InBatch
            <4> QED
                BY <4>1, <4>2
        <3> QED
            BY <2>4, <3>1, <3>2 DEF Take, files, watcher
    <2>5. CASE Claim(l)
        <3>1. task' = [task EXCEPT ![l] = [p \in Path |->
                IF p \in Again(l)
                THEN [Idle EXCEPT !.pc = "claimed", !.change = row[p].change,
                                  !.retries = row[p].retries]
                ELSE Idle]]
            BY <2>5 DEF Claim
        <3>2. \A p \in Path : row[p] \in Row
            OBVIOUS
        <3>3. task' \in [Lane -> [Path -> Task]]
            BY <2>1, <3>1, <3>2
        <3> QED
            BY <2>5, <3>3 DEF Claim, files, watcher, history
    <2>6. CASE ClaimNothing(l)
        BY <2>2, <2>6 DEF ClaimNothing, files, watcher, history
    <2>7. CASE ClaimFails(l)
        BY <2>2, <2>7 DEF ClaimFails, Raise, files, watcher
    <2> QED
        BY <1>1, <2>3, <2>4, <2>5, <2>6, <2>7 DEF ClaimStep
<1>2. ASSUME NEW l \in Lane, NEW p \in Path, NEW t \in Task, Go(l, p, t),
             index' \in [Path -> Shown]
      PROVE  TypeOK'
    BY <1>2 DEF Go, files, watcher, history
<1>3. ASSUME NEW l \in Lane, NEW p \in Path, TaskStep(l, p) PROVE TypeOK'
    <2> DEFINE t == task[l][p]
    <2>0. t \in Task
        OBVIOUS
    <2> HIDE DEF t
    <2>1. CASE Enter(l, p)
        <3>1. /\ [t EXCEPT !.pc = "fail", !.verdict = "false"] \in Task
              /\ [t EXCEPT !.pc = "run"] \in Task
            BY <2>0 DEF Task, TaskPc, Retryable
        <3> QED
            BY <2>1, <3>1, <1>2 DEF Enter, t
    <2>2. CASE HandleDeleted(l, p) \/ FoldDelete(l, p)
        <3>1. [t EXCEPT !.pc = "mark"] \in Task
            BY <2>0 DEF Task, TaskPc
        <3> QED
            BY <2>2, <3>1, <1>2 DEF HandleDeleted, FoldDelete, t
    <2>3. CASE ReadMd(l, p)
        <3>1. [t EXCEPT !.pc = IF disk[p] = Absent THEN "fold" ELSE "embed",
                        !.read = disk[p]] \in Task
            BY <2>0 DEF Task, TaskPc
        <3> QED
            BY <2>3, <3>1, <1>2 DEF ReadMd, t
    <2>4. CASE Reindex(l, p) \/ PruneEntries(l, p)
        <3>1. /\ [t EXCEPT !.pc = "mark"] \in Task
              /\ [t EXCEPT !.pc = "prune"] \in Task
              /\ t.read \in Shown
            BY <2>0 DEF Task, TaskPc
        <3>2. CASE Reindex(l, p)
            <4>1. index' \in [Path -> Shown]
                BY <3>2 DEF Reindex
            <4> QED
                BY <3>1, <3>2, <4>1, <1>2 DEF Reindex, t
        <3>3. CASE PruneEntries(l, p)
            BY <3>1, <3>3, <1>2 DEF PruneEntries, t
        <3> QED
            BY <2>4, <3>2, <3>3
    <2>5. CASE ExternalError(l, p)
        <3>0. /\ t.attempt + 1 \in Nat
              /\ t.retries + 1 \in Nat
            BY <2>0 DEF Task
        <3>1. [t EXCEPT !.pc = "run", !.read = Absent,
                        !.attempt = @ + 1, !.retries = @ + 1] \in Task
            BY <2>0, <3>0, ZenonT(30) DEF Task, TaskPc
        <3>2. [t EXCEPT !.pc = "fail",
                        !.verdict = IF t.retries < TotalRetries
                                    THEN "true" ELSE "false"] \in Task
            BY <2>0 DEF Task, TaskPc, Retryable
        <3> QED
            BY <2>5, <3>1, <3>2, <1>2 DEF ExternalError, t
    <2>8. CASE Unrecoverable(l, p)
        <3>1. [t EXCEPT !.pc = "fail", !.verdict = "false"] \in Task
            BY <2>0 DEF Task, TaskPc, Retryable
        <3> QED
            BY <2>8, <3>1, <1>2 DEF Unrecoverable, t
    <2>6. CASE Mark(l, p)
        <3>1. t.verdict \in Retryable /\ t.retries \in Nat
            BY <2>0 DEF Task
        <3>2. row' \in [Path -> Row]
            <4>1. /\ MarkedDone(row[p]) \in Row
                  /\ MarkedFailed(row[p], t.verdict, t.retries) \in Row
                BY <3>1, StatementType, FailType
            <4> QED
                BY <2>6, <4>1 DEF Mark, t
        <3> QED
            BY <2>6, <3>2 DEF Mark, Return, files, watcher, history
    <2>7. CASE MarkFails(l, p)
        BY <2>7 DEF MarkFails, Raise, files, watcher
    <2> QED
        BY <1>3, <2>1, <2>2, <2>3, <2>4, <2>5, <2>6, <2>7, <2>8 DEF TaskStep
<1> QED
    BY <1>1, <1>3

\* A process that starts, changes what it does, or dies keeps the types.
LEMMA TypeProcess ==
    /\ TypeOK
    /\ \/ ServerStart
       \/ \E q \in Process : Die(q)
       \/ \E q \in Cli : CliStep(q)
    => TypeOK'
<1> SUFFICES ASSUME TypeOK, \/ ServerStart
                            \/ \E q \in Process : Die(q)
                            \/ \E q \in Cli : CliStep(q)
             PROVE  TypeOK'
    OBVIOUS
<1> USE Records DEF TypeOK
<1>1. ASSUME NEW q \in Process, NEW m \in Mode, Become(q, m)
      PROVE  mode' \in [Process -> Mode]
    BY <1>1 DEF Become
<1>2. {"down", "up", "sync", "drain", "reset"} \subseteq Mode
    BY DEF Mode
<1>3. Server \in Process /\ Cli \subseteq Process
    BY DEF Process
<1>4. CASE ServerStart
    <2>1. row' \in [Path -> Row]
        BY <1>4, StatementType DEF ServerStart
    <2> QED
        BY <1>4, <1>1, <1>2, <1>3, <2>1
        DEF ServerStart, files, watcher, worker, history
<1>5. ASSUME NEW q \in Process, Die(q) PROVE TypeOK'
    <2>1. /\ scan' \in [Process -> Sweep]
          /\ task' \in [Lane -> [Path -> Task]]
          /\ notices' \in [Path -> SUBSET Change]
          /\ inbox' \subseteq Decision(Path)
        BY <1>5 DEF Die, watcher
    <2>2. draining' \in [Lane -> BOOLEAN]
        BY <1>5, ZenonT(30) DEF Die
    <2> QED
        BY <1>5, <1>1, <1>2, <2>1, <2>2 DEF Die, files
<1>6. ASSUME NEW q \in Cli, CliStep(q) PROVE TypeOK'
    <2> USE DEF files, watcher, worker, history
    <2>1. CASE CliSync(q) \/ CliExit(q)
        BY <2>1, <1>1, <1>2, <1>3 DEF CliSync, CliExit
    <2>2. ASSUME NEW p \in Path, CliSyncPath(q, p) PROVE TypeOK'
        <3>1. ForceEnqueued(row[p]) \in Row
            BY StatementType
        <3> QED
            BY <2>2, <3>1, <1>1, <1>2, <1>3 DEF CliSyncPath
    <2>3. CASE CliFix(q)
        <3>1. \A p \in Path : ResetRetryable(row[p]) \in Row
            BY StatementType
        <3> QED
            BY <2>3, <3>1, <1>1, <1>2, <1>3 DEF CliFix
    <2>4. CASE CliRebuild(q)
        <3>1. NoRow \in Row
            BY QueueAssumption
            DEF NoRow, Row, Status, Change, Mtime, Retryable
        <3> QED
            BY <2>4, <3>1, <1>1, <1>2, <1>3 DEF CliRebuild
    <2>5. CASE DropTables(q)
        BY <2>5, <1>1, <1>2, <1>3 DEF DropTables
    <2> QED
        BY <1>6, <2>1, <2>2, <2>3, <2>4, <2>5 DEF CliStep
<1> QED
    BY <1>4, <1>5, <1>6

LEMMA TypeInit == Init => TypeOK
BY Records, QueueAssumption
   DEF Init, TypeOK, Mtime, Absent, Row, NoRow, Status, Retryable, Change,
       Shown, Mode, Decision

LEMMA TypeStep == TypeOK /\ [Next]_vars => TypeOK'
<1>1. TypeOK /\ UNCHANGED vars => TypeOK'
    BY DEF TypeOK, vars
<1> QED
    BY <1>1, TypeEnvironment, TypeScan, TypeWorker, TypeProcess DEF Next

\* The variables have their types in every reachable state.
THEOREM TypeCorrect == Spec => []TypeOK
BY TypeInit, TypeStep, PTL DEF Spec

-----------------------------------------------------------------------------
(* The retry budget.                                                       *)

\* A claim starts below the bound that a row respects, and a task that has
\* passed the entry check owes every retry beyond the budget to an attempt
\* of its own.
TaskBudget(t) ==
    /\ t.pc \in {"claimed", "fail"} =>
        t.retries < TotalRetries + InlineRetries
    /\ t.pc = "claimed" => t.attempt = 0
    /\ t.pc \in {"run", "fold", "embed", "prune", "mark"} =>
        /\ t.retries < TotalRetries + t.attempt
        /\ t.attempt <= InlineRetries

BudgetInv ==
    /\ TypeOK
    /\ RetryBudget
    /\ \A l \in Lane, p \in Path : TaskBudget(task[l][p])

\* Enqueueing, claiming and recovering never raise a retry count above the
\* bound; only a failure verdict writes one.
LEMMA RetriesOfStatement ==
    ASSUME NEW r \in Row, NEW c \in Change, NEW m \in Mtime,
           r.retries < TotalRetries + InlineRetries
    PROVE  /\ Upserted(r, c, m).retries < TotalRetries + InlineRetries
           /\ ForceEnqueued(r).retries < TotalRetries + InlineRetries
           /\ Claimed(r).retries < TotalRetries + InlineRetries
           /\ MarkedDone(r).retries < TotalRetries + InlineRetries
           /\ Recovered(r).retries < TotalRetries + InlineRetries
           /\ ResetRetryable(r).retries < TotalRetries + InlineRetries
           /\ NoRow.retries < TotalRetries + InlineRetries
<1>1. 0 < TotalRetries + InlineRetries
    BY QueueAssumption
<1>2. /\ Upserted(r, c, m).retries \in {0, r.retries}
      /\ ForceEnqueued(r).retries \in {0, r.retries}
    BY DEF Upserted, ForceEnqueued
<1>3. /\ Claimed(r).retries = r.retries
      /\ MarkedDone(r).retries = r.retries
      /\ Recovered(r).retries = r.retries
    BY DEF Row, Claimed, MarkedDone, Recovered
<1>4. ResetRetryable(r).retries \in {0, r.retries}
    BY DEF Row, ResetRetryable
<1>5. NoRow.retries = 0
    BY DEF NoRow
<1> QED
    BY <1>1, <1>2, <1>3, <1>4, <1>5

\* The steps that change no task keep every row within the bound.
LEMMA BudgetOfQueue ==
    /\ BudgetInv
    /\ \/ User \/ Watch
       \/ \E q \in Process : ScanStep(q)
       \/ ScanFails
       \/ ServerStart
       \/ \E q \in Cli : CliStep(q)
    => RetryBudget' /\ UNCHANGED task
<1> SUFFICES ASSUME BudgetInv,
                    \/ User \/ Watch
                    \/ \E q \in Process : ScanStep(q)
                    \/ ScanFails
                    \/ ServerStart
                    \/ \E q \in Cli : CliStep(q)
             PROVE  RetryBudget' /\ UNCHANGED task
    OBVIOUS
<1> USE DEF BudgetInv, TypeOK, RetryBudget
<1>0. "deleted" \in Change /\ 0 \in Mtime
    BY QueueAssumption DEF Change, Mtime
<1>1. CASE User
    BY <1>1 DEF User, Write, Unlink
<1>2. CASE Watch
    <2>1. ASSUME NEW p \in Path, NEW c \in Change, WatcherCallback(p, c)
          PROVE  RetryBudget' /\ UNCHANGED task
        BY <2>1 DEF WatcherCallback, worker
    <2>2. ASSUME NEW e \in inbox, WatcherUpsert(e)
          PROVE  RetryBudget' /\ UNCHANGED task
        <3>1. e.path \in Path /\ e.change \in Change /\ e.mtime \in Mtime
            BY DEF Decision
        <3>2. Upserted(row[e.path], e.change, e.mtime).retries
                < TotalRetries + InlineRetries
            BY <3>1, RetriesOfStatement
        <3> QED
            BY <2>2, <3>1, <3>2 DEF WatcherUpsert, worker
    <2> QED
        BY <1>2, <2>1, <2>2 DEF Watch
<1>3. ASSUME NEW q \in Process, ScanStep(q)
      PROVE  RetryBudget' /\ UNCHANGED task
    <2>1. CASE Walk(q) \/ Decide(q)
        BY <2>1 DEF Walk, Decide, worker
    <2>2. ASSUME NEW d \in scan[q].todo, ScanUpsert(q, d)
          PROVE  RetryBudget' /\ UNCHANGED task
        <3>1. d.path \in Path /\ d.change \in Change /\ d.mtime \in Mtime
            BY DEF Sweep, Decision
        <3>2. Upserted(row[d.path], d.change, d.mtime).retries
                < TotalRetries + InlineRetries
            BY <3>1, RetriesOfStatement
        <3> QED
            BY <2>2, <3>1, <3>2 DEF ScanUpsert, worker
    <2> QED
        BY <1>3, <2>1, <2>2 DEF ScanStep
<1>4. CASE ScanFails
    BY <1>4 DEF ScanFails, worker
<1>5. CASE ServerStart
    <2>1. \A p \in Path :
            Recovered(row[p]).retries < TotalRetries + InlineRetries
        BY <1>0, RetriesOfStatement
    <2> QED
        BY <1>5, <2>1 DEF ServerStart, worker
<1>6. ASSUME NEW q \in Cli, CliStep(q)
      PROVE  RetryBudget' /\ UNCHANGED task
    <2>1. \A p \in Path :
            /\ ForceEnqueued(row[p]).retries < TotalRetries + InlineRetries
            /\ ResetRetryable(row[p]).retries < TotalRetries + InlineRetries
            /\ NoRow.retries < TotalRetries + InlineRetries
        BY <1>0, RetriesOfStatement
    <2>2. CASE CliSync(q) \/ DropTables(q) \/ CliExit(q)
        BY <2>2 DEF CliSync, DropTables, CliExit, worker
    <2>3. ASSUME NEW p \in Path, CliSyncPath(q, p)
          PROVE  RetryBudget' /\ UNCHANGED task
        BY <2>1, <2>3 DEF CliSyncPath, worker
    <2>4. CASE CliFix(q)
        BY <2>1, <2>4 DEF CliFix, worker
    <2>5. CASE CliRebuild(q)
        BY <2>1, <2>5 DEF CliRebuild, worker
    <2> QED
        BY <1>6, <2>2, <2>3, <2>4, <2>5 DEF CliStep
<1> QED
    BY <1>1, <1>2, <1>3, <1>4, <1>5, <1>6

\* A task step keeps its own budget and writes a retry count within it.
LEMMA BudgetOfTask ==
    ASSUME BudgetInv, NEW l \in Lane, NEW p \in Path, TaskStep(l, p)
    PROVE  /\ RetryBudget'
           /\ \A k \in Lane, r \in Path : TaskBudget(task'[k][r])
<1> USE DEF BudgetInv, TypeOK, RetryBudget
<1> DEFINE t == task[l][p]
<1>1. t \in Task /\ TaskBudget(t)
    OBVIOUS
<1>2. TaskBudget(Idle)
    BY DEF TaskBudget, Idle
<1>3. ASSUME NEW u, Go(l, p, u), TaskBudget(u)
      PROVE  /\ RetryBudget'
           /\ \A k \in Lane, r \in Path : TaskBudget(task'[k][r])
    BY <1>3 DEF Go
<1> HIDE DEF t
<1>4. CASE Enter(l, p)
    <2>1. /\ t.pc = "claimed" => TaskBudget([t EXCEPT !.pc = "fail",
                                                      !.verdict = "false"])
          /\ t.pc = "claimed" /\ ~(t.retries >= TotalRetries)
             => TaskBudget([t EXCEPT !.pc = "run"])
        BY <1>1, QueueAssumption DEF TaskBudget, Task
    <2> QED
        BY <1>4, <2>1, <1>3 DEF Enter, t
<1>5. CASE HandleDeleted(l, p) \/ FoldDelete(l, p)
    <2>1. t.pc \in {"run", "fold"} => TaskBudget([t EXCEPT !.pc = "mark"])
        BY <1>1 DEF TaskBudget, Task
    <2> QED
        BY <1>5, <2>1, <1>3 DEF HandleDeleted, FoldDelete, t
<1>6. CASE ReadMd(l, p)
    <2>1. ASSUME t.pc = "run", NEW pc \in {"fold", "embed"}
          PROVE  TaskBudget([t EXCEPT !.pc = pc, !.read = disk[p]])
        BY <2>1, <1>1 DEF TaskBudget, Task
    <2> QED
        BY <1>6, <2>1, <1>3 DEF ReadMd, t
<1>7. CASE Reindex(l, p) \/ PruneEntries(l, p)
    <2>1. ASSUME t.pc \in {"embed", "prune"}, NEW pc \in {"prune", "mark"}
          PROVE  TaskBudget([t EXCEPT !.pc = pc])
        BY <2>1, <1>1 DEF TaskBudget, Task
    <2> QED
        BY <1>7, <2>1, <1>3 DEF Reindex, PruneEntries, t
<1>8. CASE ExternalError(l, p)
    <2>1. ASSUME InHandler(l, p), t.attempt < InlineRetries
          PROVE  TaskBudget([t EXCEPT !.pc = "run", !.read = Absent,
                                      !.attempt = @ + 1, !.retries = @ + 1])
        <3>1. t.retries + 1 < TotalRetries + (t.attempt + 1)
              /\ t.attempt + 1 <= InlineRetries
            BY <2>1, <1>1, QueueAssumption DEF TaskBudget, Task, InHandler, t
        <3> DEFINE u == [t EXCEPT !.pc = "run", !.read = Absent,
                                  !.attempt = @ + 1, !.retries = @ + 1]
        <3>2. /\ u.pc = "run"
              /\ u.retries = t.retries + 1
              /\ u.attempt = t.attempt + 1
            BY <1>1, ZenonT(30) DEF Task
        <3> QED
            BY <3>1, <3>2 DEF TaskBudget
    <2>2. ASSUME InHandler(l, p), NEW v
          PROVE  TaskBudget([t EXCEPT !.pc = "fail", !.verdict = v])
        BY <2>2, <1>1, QueueAssumption DEF TaskBudget, Task, InHandler, t
    <2> QED
        BY <1>8, <2>1, <2>2, <1>3 DEF ExternalError, t
<1>9. CASE Unrecoverable(l, p)
    <2>1. InHandler(l, p)
          => TaskBudget([t EXCEPT !.pc = "fail", !.verdict = "false"])
        BY <1>1, QueueAssumption DEF TaskBudget, Task, InHandler, t
    <2> QED
        BY <1>9, <2>1, <1>3 DEF Unrecoverable, t
<1>10. CASE Mark(l, p)
    <2>1. \A k \in Lane, r \in Path : TaskBudget(task'[k][r])
        BY <1>10, <1>2 DEF Mark, Return
    <2>2. MarkedDone(row[p]).retries = row[p].retries
        BY DEF MarkedDone, Row
    <2>3. MarkedFailed(row[p], t.verdict, t.retries).retries
            \in {row[p].retries, t.retries}
        BY DEF MarkedFailed, Row
    <2>4. t.pc = "fail" => t.retries < TotalRetries + InlineRetries
        BY <1>1 DEF TaskBudget
    <2>5. RetryBudget'
        BY <1>10, <2>2, <2>3, <2>4 DEF Mark, t
    <2> QED
        BY <2>1, <2>5
<1>11. CASE MarkFails(l, p)
    BY <1>11, <1>2 DEF MarkFails
<1> QED
    BY <1>4, <1>5, <1>6, <1>7, <1>8, <1>9, <1>10, <1>11 DEF TaskStep

LEMMA BudgetStep == BudgetInv /\ [Next]_vars => BudgetInv'
<1> SUFFICES ASSUME BudgetInv, [Next]_vars
             PROVE  RetryBudget' /\ \A k \in Lane, r \in Path :
                                        TaskBudget(task'[k][r])
    BY TypeStep DEF BudgetInv
<1>1. CASE \/ User \/ Watch
           \/ \E q \in Process : ScanStep(q)
           \/ ScanFails
           \/ ServerStart
           \/ \E q \in Cli : CliStep(q)
    BY <1>1, BudgetOfQueue DEF BudgetInv
<1>2. ASSUME NEW l \in Lane, ClaimStep(l)
      PROVE  RetryBudget' /\ \A k \in Lane, r \in Path :
                                TaskBudget(task'[k][r])
    <2> USE DEF BudgetInv, TypeOK, RetryBudget
    <2>1. /\ TaskBudget(Idle)
          /\ TaskBudget([Idle EXCEPT !.pc = "picked"])
          /\ TaskBudget([Idle EXCEPT !.pc = "taken"])
        BY DEF TaskBudget, Idle
    <2>2. \A p \in Path :
            TaskBudget([Idle EXCEPT !.pc = "claimed",
                                    !.change = row[p].change,
                                    !.retries = row[p].retries])
        BY DEF TaskBudget, Idle
    <2>3. \A p \in Path : Claimed(row[p]).retries = row[p].retries
        BY DEF Claimed, Row
    <2>4. RetryBudget'
        <3>1. \A p \in Path : row'[p] \in {row[p], Claimed(row[p])}
            BY <1>2 DEF ClaimStep, Pick, Take, Claim, ClaimNothing, ClaimFails
        <3> QED
            BY <2>3, <3>1
    <2>5. \A k \in Lane \ {l} : task'[k] = task[k]
        BY <1>2
        DEF ClaimStep, Pick, Take, Claim, ClaimNothing, ClaimFails, EmptyBatch
    <2>6. \A p \in Path : TaskBudget(task'[l][p])
        <3>1. CASE EmptyBatch(l)
            BY <2>1, <3>1 DEF EmptyBatch
        <3>2. CASE Pick(l)
            <4>1. PICK S : task' = [task EXCEPT ![l] = [p \in Path |->
                     IF p \in S THEN [Idle EXCEPT !.pc = "picked"] ELSE Idle]]
                BY <3>2 DEF Pick
            <4> QED
                BY <2>1, <4>1
        <3>3. CASE Take(l) /\ ~EmptyBatch(l)
            <4>1. task' = [task EXCEPT ![l] = [p \in Path |->
                                IF p \in InBatch(l, "picked")
                                THEN [Idle EXCEPT !.pc = "taken"] ELSE Idle]]
                BY <3>3 DEF Take
            <4> QED
                BY <2>1, <4>1
        <3>4. CASE Claim(l)
            <4>1. task' = [task EXCEPT ![l] = [p \in Path |->
                    IF p \in Again(l)
                    THEN [Idle EXCEPT !.pc = "claimed",
                                      !.change = row[p].change,
                                      !.retries = row[p].retries]
                    ELSE Idle]]
                BY <3>4 DEF Claim
            <4> QED
                BY <2>1, <2>2, <4>1
        <3> QED
            BY <1>2, <3>1, <3>2, <3>3, <3>4
            DEF ClaimStep, ClaimNothing, ClaimFails
    <2> QED
        BY <2>4, <2>5, <2>6
<1>3. ASSUME NEW q \in Process, Die(q)
      PROVE  RetryBudget' /\ \A k \in Lane, r \in Path :
                                TaskBudget(task'[k][r])
    <2>1. TaskBudget(Idle)
        BY DEF TaskBudget, Idle
    <2> QED
        BY <1>3, <2>1 DEF Die, BudgetInv, TypeOK, RetryBudget
<1>4. CASE UNCHANGED vars
    BY <1>4 DEF vars, BudgetInv, RetryBudget
<1> QED
    BY <1>1, <1>2, <1>3, <1>4, BudgetOfTask DEF Next

\* However often a row is re-enqueued, claimed, retried and recovered, its
\* retry count stays below the total budget plus the inline retries.
THEOREM RetryBudgetHolds == Spec => []RetryBudget
<1>1. Init => BudgetInv
    <2>1. Init => TypeOK
        BY TypeInit
    <2>2. Init => RetryBudget
        BY QueueAssumption DEF Init, RetryBudget, NoRow
    <2>3. Init => \A l \in Lane, p \in Path : TaskBudget(task[l][p])
        BY DEF Init, TaskBudget, Idle
    <2> QED
        BY <2>1, <2>2, <2>3 DEF BudgetInv
<1>2. BudgetInv => RetryBudget
    BY DEF BudgetInv
<1> QED
    BY <1>1, <1>2, BudgetStep, PTL DEF Spec

-----------------------------------------------------------------------------
(* A done row tells the truth about every path that no two batches have    *)
(* held at once; if the operator runs one process at a time and no queue   *)
(* statement raises, no path is such.                                      *)

\* No mtime the system remembers is younger than the latest version.
MtimesKnown ==
    /\ \A p \in Path :
        /\ disk[p] \in {Absent, last[p]}
        /\ row[p].mtime <= last[p]
        /\ \A q \in Process : scan[q].seen[p] <= last[p]
        /\ \A l \in Lane : task[l][p].read <= last[p]
    /\ \A q \in Process : \A d \in scan[q].todo : d.mtime <= last[d.path]
    /\ \A e \in inbox : e.mtime <= last[e.path]

\* One process is alive, only a live one has work, and at most one batch is
\* in flight.
OneProcess ==
    \A q, r \in Process : mode[q] # "down" /\ mode[r] # "down" => q = r

LiveSweeps ==
    /\ \A q \in Process : scan[q].pc # "idle" => mode[q] \in {"up", "sync"}
    /\ \A e \in inbox : mode[Server] = "up"
    /\ \A p \in Path : \A c \in notices[p] : mode[Server] = "up"

LiveBatches ==
    /\ \A l \in Lane : draining[l] <=> \E p \in Path : Busy(l, p)
    /\ \A l \in Lane : draining[l] => mode[Owner[l]] \in {"up", "drain"}
    /\ \A k, l \in Lane : draining[k] /\ draining[l] => k = l

OneWorker == OneProcess /\ LiveSweeps /\ LiveBatches

\* While a rebuild has yet to drop the tables, the queue is empty.
ResetIsEmpty ==
    \A q \in Process : mode[q] = "reset" =>
        \A p \in Path : row[p].status = "none"

\* The path has changed since its row was written, or is gone.
Moved(p) == disk[p] = Absent \/ row[p].mtime < disk[p]

\* What a task that still holds its claim has established so far.
HoldsClaim(t, p) ==
    /\ t.change = row[p].change
    /\ t.pc \in {"fold", "embed", "prune"} => t.change # "deleted"
    /\ t.pc = "fold" => Moved(p)
    /\ t.pc \in {"embed", "prune"} => t.read # Absent /\ row[p].mtime <= t.read
    /\ t.pc = "mark" =>
        IF t.change = "deleted"
        THEN index[p] = Absent
        ELSE \/ Moved(p)
             \/ index[p] = t.read /\ row[p].mtime <= t.read

ClaimKept(l, p) ==
    Handles(l, p) =>
        /\ row[p].status \in {"pending", "processing"}
        /\ row[p].status = "processing" => HoldsClaim(task[l][p], p)

\* One batch holds the path, and what it has claimed it keeps.
Sound(p) ==
    /\ \A k, l \in Lane : Holds(k, p) /\ Holds(l, p) => k = l
    /\ \A l \in Lane : ClaimKept(l, p)
    /\ Truthful(p)

Claims == \A p \in Path \ crossed : Sound(p)

\* Nobody rebuilds; or, if the operator runs one process at a time, a rebuild
\* finds no handler at work.
Quiet ==
    \/ /\ "rebuild" \notin Commands
       /\ \A q \in Process : mode[q] # "reset"
    \/ OneWorker /\ ResetIsEmpty /\ Exclusive

\* The tasks of a batch are claimed together.
OnePhase ==
    \A l \in Lane, p, r \in Path :
        task[l][p].pc \in {"picked", "taken"} =>
            task[l][r].pc \in {"idle", task[l][p].pc}

\* What holds whoever works beside the daemon.
CInv == TypeOK /\ MtimesKnown /\ Claims

IInv ==
    /\ CInv
    /\ OneWorker
    /\ ResetIsEmpty
    /\ OnePhase
    /\ crossed = {}

\* No statement raises under the bound 0.
LEMMA NothingRaises ==
    ASSUME TypeOK, StoreFaults = 0
    PROVE  ~Raise
BY DEF TypeOK, Raise

\* A batch in flight is the only one.
LEMMA OneBatch ==
    ASSUME OneWorker, NEW k \in Lane, NEW l \in Lane, NEW p \in Path,
           NEW r \in Path, Busy(k, p), Busy(l, r)
    PROVE  k = l
BY DEF OneWorker, OneProcess, LiveSweeps, LiveBatches

\* A worker that may claim finds no batch in flight, in any process.
LEMMA ClaimsAlone ==
    ASSUME TypeOK, OneWorker, NEW l \in Lane, MayDrain(l)
    PROVE  \A k \in Lane : ~draining[k] /\ \A p \in Path : ~Busy(k, p)
<1>1. mode[Owner[l]] # "down" /\ Owner[l] \in Process
    BY CascadeAssumption DEF MayDrain
<1>2. ASSUME NEW k \in Lane, draining[k] PROVE FALSE
    <2>1. mode[Owner[k]] # "down" /\ Owner[k] \in Process
        BY <1>2, CascadeAssumption
        DEF OneWorker, OneProcess, LiveSweeps, LiveBatches
    <2>2. Owner[k] = Owner[l]
        BY <1>1, <2>1 DEF OneWorker, OneProcess, LiveSweeps, LiveBatches
    <2> QED
        BY <1>2, <2>2 DEF MayDrain
<1> QED
    BY <1>2 DEF OneWorker, OneProcess, LiveSweeps, LiveBatches

\* A process that starts finds the others down and nothing left of their
\* sweeps, batches and events.
LEMMA StartsAlone ==
    ASSUME TypeOK, OneWorker, Exclusive, NEW q \in Process, MayStart(q)
    PROVE  /\ \A r \in Process : mode[r] = "down" /\ scan[r].pc = "idle"
           /\ \A l \in Lane : ~draining[l] /\ \A p \in Path : ~Busy(l, p)
           /\ inbox = {}
           /\ \A p \in Path : notices[p] = {}
<1>1. \A r \in Process : mode[r] = "down"
    BY DEF MayStart
<1>2. Server \in Process /\ \A l \in Lane : Owner[l] \in Process
    BY CascadeAssumption DEF Process
<1>3. \A l \in Lane : ~draining[l]
    BY <1>1, <1>2 DEF OneWorker, OneProcess, LiveSweeps, LiveBatches
<1>4. \A r \in Process : scan[r].pc = "idle"
    BY <1>1 DEF OneWorker, OneProcess, LiveSweeps, LiveBatches
<1>5. inbox = {} /\ \A p \in Path : notices[p] = {}
    BY <1>1, <1>2 DEF OneWorker, OneProcess, LiveSweeps, LiveBatches
<1> QED
    BY <1>1, <1>3, <1>4, <1>5
    DEF OneWorker, OneProcess, LiveSweeps, LiveBatches

\* The steps of a task before its verdict leave it busy and touch no row.
RunsOn(l, p) ==
    \/ Enter(l, p) \/ HandleDeleted(l, p) \/ ReadMd(l, p) \/ FoldDelete(l, p)
    \/ Reindex(l, p) \/ PruneEntries(l, p)
    \/ ExternalError(l, p) \/ Unrecoverable(l, p)

LEMMA StaysBusy ==
    ASSUME TypeOK, NEW l \in Lane, NEW p \in Path, RunsOn(l, p)
    PROVE  /\ UNCHANGED <<files, row, watcher, mode, scan, draining>>
           /\ \A k \in Lane, r \in Path :
                /\ Busy(k, r)' <=> Busy(k, r)
                /\ Holds(k, r)' <=> Holds(k, r)
                /\ Handles(k, r)' <=> Handles(k, r)
                /\ k # l \/ r # p => task'[k][r] = task[k][r]
           /\ \A r \in Path : r # p => index'[r] = index[r]
           /\ Busy(l, p) /\ Handles(l, p)
<1> USE DEF TypeOK
<1> DEFINE t == task[l][p]
<1> DEFINE Late == TaskPc \ {"idle", "picked", "taken"}
<1>1. ASSUME NEW u, u.pc \in Late, Go(l, p, u)
      PROVE  /\ UNCHANGED <<files, row, watcher, mode, scan, draining>>
             /\ task'[l][p] = u
             /\ \A k \in Lane, r \in Path :
                   k # l \/ r # p => task'[k][r] = task[k][r]
    BY <1>1 DEF Go
<1>2. \A r \in Path : r # p => index'[r] = index[r]
    BY DEF RunsOn, Enter, HandleDeleted, ReadMd, FoldDelete, Reindex,
           PruneEntries, ExternalError, Unrecoverable
<1>3. t \in Task
    OBVIOUS
<1>4. /\ t.pc \in Late
      /\ \E u : u.pc \in Late /\ Go(l, p, u)
    <2> HIDE DEF t
    <2>1. ASSUME NEW pc \in Late
          PROVE  [t EXCEPT !.pc = pc].pc \in Late
        BY <1>3 DEF Task
    <2>2. ASSUME NEW v
          PROVE  [t EXCEPT !.pc = "fail", !.verdict = v].pc \in Late
        BY <1>3 DEF Task, TaskPc
    <2>3. CASE Enter(l, p)
        BY <2>1, <2>2, <2>3 DEF Enter, TaskPc, t
    <2>4. CASE HandleDeleted(l, p) \/ FoldDelete(l, p)
        BY <2>1, <2>4 DEF HandleDeleted, FoldDelete, TaskPc, t
    <2>5. CASE ReadMd(l, p)
        <3>1. ASSUME NEW pc \in {"fold", "embed"}, NEW m
              PROVE  [t EXCEPT !.pc = pc, !.read = m].pc \in Late
            BY <1>3 DEF Task, TaskPc
        <3>2. t.pc \in Late
            BY <2>5 DEF ReadMd, t, TaskPc
        <3> QED
            BY <2>5, <3>1, <3>2 DEF ReadMd, t
    <2>6. CASE Reindex(l, p) \/ PruneEntries(l, p)
        BY <2>1, <2>6 DEF Reindex, PruneEntries, TaskPc, t
    <2>7. CASE ExternalError(l, p)
        <3>1. [t EXCEPT !.pc = "run", !.read = Absent, !.attempt = @ + 1,
                        !.retries = @ + 1].pc \in Late
            BY <1>3, ZenonT(30) DEF Task, TaskPc
        <3>2. t.pc \in Late
            BY <2>7 DEF ExternalError, InHandler, t, TaskPc
        <3> QED
            BY <2>2, <2>7, <3>1, <3>2 DEF ExternalError, t
    <2>8. CASE Unrecoverable(l, p)
        <3>1. t.pc \in Late
            BY <2>8 DEF Unrecoverable, InHandler, t, TaskPc
        <3> QED
            BY <2>2, <2>8, <3>1 DEF Unrecoverable, t
    <2> QED
        BY <2>3, <2>4, <2>5, <2>6, <2>7, <2>8 DEF RunsOn
<1> QED
    BY <1>1, <1>2, <1>4 DEF Busy, Holds, Handles

\* What a task step may read: nothing new but the file itself.
LEMMA TaskReads ==
    ASSUME TypeOK, NEW l \in Lane, NEW p \in Path, RunsOn(l, p)
    PROVE  task'[l][p].read \in {Absent, disk[p], task[l][p].read}
<1> USE DEF TypeOK, Go
<1> DEFINE t == task[l][p]
<1>1. t \in Task
    OBVIOUS
<1>2. ASSUME NEW u, Go(l, p, u) PROVE task'[l][p] = u
    BY <1>2
<1> HIDE DEF t
<1>3. CASE Enter(l, p)
    BY <1>1, <1>2, <1>3 DEF Enter, t, Task
<1>4. CASE HandleDeleted(l, p) \/ FoldDelete(l, p)
    BY <1>1, <1>2, <1>4 DEF HandleDeleted, FoldDelete, t, Task
<1>5. CASE ReadMd(l, p)
    BY <1>1, <1>2, <1>5 DEF ReadMd, t, Task
<1>6. CASE Reindex(l, p) \/ PruneEntries(l, p)
    BY <1>1, <1>2, <1>6 DEF Reindex, PruneEntries, t, Task
<1>7. CASE ExternalError(l, p)
    <2>1. [t EXCEPT !.pc = "run", !.read = Absent, !.attempt = @ + 1,
                    !.retries = @ + 1].read = Absent
        BY <1>1, ZenonT(30) DEF Task
    <2>2. ASSUME NEW v
          PROVE  [t EXCEPT !.pc = "fail", !.verdict = v].read = t.read
        BY <1>1 DEF Task
    <2> QED
        BY <1>2, <1>7, <2>1, <2>2 DEF ExternalError, t
<1>8. CASE Unrecoverable(l, p)
    BY <1>1, <1>2, <1>8 DEF Unrecoverable, t, Task
<1> QED
    BY <1>3, <1>4, <1>5, <1>6, <1>7, <1>8 DEF RunsOn

\* What the steps of a claim leave alone, and what they do to one path: the
\* batch has not begun on it, or gives it up, or goes on with it.
Dropped(l, p) ==
    task'[l][p] = Idle /\ row'[p] = row[p]

LEMMA ClaimFrames ==
    ASSUME TypeOK, NEW l \in Lane, ClaimStep(l)
    PROVE  /\ UNCHANGED <<files, index, watcher, scan>>
           /\ \A k \in Lane \ {l} : /\ task'[k] = task[k]
                                     /\ draining'[k] = draining[k]
           /\ \A p \in Path : task'[l][p].read = Absent
           /\ \A p \in Path : row'[p] \in {row[p], Claimed(row[p])}
<1> USE DEF TypeOK
<1>1. UNCHANGED <<files, index, watcher, scan>>
    BY DEF ClaimStep, Pick, Take, Claim, ClaimNothing, ClaimFails
<1>2. \A p \in Path : row'[p] \in {row[p], Claimed(row[p])}
    BY DEF ClaimStep, Pick, Take, Claim, ClaimNothing, ClaimFails
<1>3. \A k \in Lane \ {l} : /\ task'[k] = task[k]
                             /\ draining'[k] = draining[k]
    BY DEF ClaimStep, Pick, Take, Claim, ClaimNothing, ClaimFails, EmptyBatch
<1>4. ASSUME NEW pc, NEW c, NEW n
      PROVE  /\ Idle.read = Absent
             /\ [Idle EXCEPT !.pc = pc].read = Absent
             /\ [Idle EXCEPT !.pc = pc, !.change = c, !.retries = n].read
                  = Absent
    BY DEF Idle
<1>5. \A p \in Path : task'[l][p].read = Absent
    <2>1. CASE EmptyBatch(l)
        BY <1>4, <2>1 DEF EmptyBatch
    <2>2. CASE Pick(l)
        <3>1. PICK S : task' = [task EXCEPT ![l] = [p \in Path |->
                 IF p \in S THEN [Idle EXCEPT !.pc = "picked"] ELSE Idle]]
            BY <2>2 DEF Pick
        <3> QED BY <1>4, <3>1
    <2>3. CASE Take(l) /\ ~EmptyBatch(l)
        <3>1. task' = [task EXCEPT ![l] = [p \in Path |->
                            IF p \in InBatch(l, "picked")
                            THEN [Idle EXCEPT !.pc = "taken"] ELSE Idle]]
            BY <2>3 DEF Take
        <3> QED BY <1>4, <3>1
    <2>4. CASE Claim(l)
        <3>1. task' = [task EXCEPT ![l] = [p \in Path |->
                IF p \in Again(l)
                THEN [Idle EXCEPT !.pc = "claimed",
                                  !.change = row[p].change,
                                  !.retries = row[p].retries]
                ELSE Idle]]
            BY <2>4 DEF Claim
        <3>2. \A p \in Path :
                \/ task'[l][p] = Idle
                \/ task'[l][p] = [Idle EXCEPT !.pc = "claimed",
                                               !.change = row[p].change,
                                               !.retries = row[p].retries]
            BY <3>1
        <3>3. ASSUME NEW p \in Path
              PROVE  [Idle EXCEPT !.pc = "claimed", !.change = row[p].change,
                                  !.retries = row[p].retries].read = Absent
            BY <1>4
        <3> QED BY <1>4, <3>2, <3>3
    <2> QED
        BY <2>1, <2>2, <2>3, <2>4 DEF ClaimStep, ClaimNothing, ClaimFails
<1> QED
    BY <1>1, <1>2, <1>3, <1>5

\* The batch is picked: the lane was free, and no row changes.
LEMMA PickEffect ==
    ASSUME TypeOK, NEW l \in Lane, Pick(l)
    PROVE  /\ UNCHANGED <<row, mode, crossed>>
           /\ draining'[l]
           /\ \A p \in Path : /\ task'[l][p].pc \in {"idle", "picked"}
                              /\ ~Busy(l, p)
           /\ \E p \in Path : task'[l][p].pc = "picked"
<1> USE DEF TypeOK
<1>1. PICK S \in SUBSET Pending :
        /\ S # {}
        /\ task' = [task EXCEPT ![l] = [p \in Path |->
                      IF p \in S THEN [Idle EXCEPT !.pc = "picked"] ELSE Idle]]
    BY DEF Pick
<1>2. Idle.pc = "idle" /\ [Idle EXCEPT !.pc = "picked"].pc = "picked"
    BY DEF Idle
<1>3. \A p \in Path :
        task'[l][p] = IF p \in S THEN [Idle EXCEPT !.pc = "picked"] ELSE Idle
    BY <1>1
<1>4. S \subseteq Path
    BY DEF Pending
<1> QED
    BY <1>1, <1>2, <1>3, <1>4 DEF Pick, MayDrain, history

\* An empty batch leaves nothing behind but, with a command, its process.
LEMMA EmptyEffect ==
    ASSUME TypeOK, NEW l \in Lane, EmptyBatch(l)
    PROVE  /\ \A p \in Path : task'[l][p] = Idle
           /\ ~draining'[l]
           /\ \A q \in Process :
                \/ mode'[q] = mode[q]
                \/ q = Owner[l] /\ mode[q] = "drain" /\ mode'[q] = "down"
BY CascadeAssumption DEF EmptyBatch, TypeOK

\* The UPDATE claims picked rows that are still pending; if there are none,
\* nothing changes but that the batch is empty.
LEMMA TakeEffect ==
    ASSUME TypeOK, NEW l \in Lane, Take(l)
    PROVE  LET S == InBatch(l, "picked")
               T == S \cap Pending
           IN  /\ \A p \in Path : row'[p] = IF p \in T THEN Claimed(row[p])
                                                        ELSE row[p]
               /\ IF T = {}
                  THEN EmptyBatch(l) /\ UNCHANGED crossed
                  ELSE /\ UNCHANGED <<mode, draining>>
                       /\ \A p \in S : task'[l][p].pc = "taken"
                       /\ \A p \in Path \ S : task'[l][p] = Idle
                       /\ crossed' = crossed \cup
                            {p \in S : \E k \in Lane \ {l} : Holds(k, p)}
<1> DEFINE S == InBatch(l, "picked")
           T == S \cap Pending
<1>1. \A p \in Path : row'[p] = IF p \in T THEN Claimed(row[p]) ELSE row[p]
    BY DEF Take
<1>2. CASE T = {}
    BY <1>1, <1>2 DEF Take
<1>3. CASE T # {}
    <2>1. /\ task' = [task EXCEPT ![l] = [p \in Path |->
                        IF p \in S THEN [Idle EXCEPT !.pc = "taken"] ELSE Idle]]
          /\ UNCHANGED <<mode, draining>>
          /\ crossed' = crossed \cup
                {p \in S : \E k \in Lane \ {l} : Holds(k, p)}
        BY <1>3 DEF Take
    <2>2. [Idle EXCEPT !.pc = "taken"].pc = "taken"
        BY DEF Idle
    <2>3. S \subseteq Path
        BY DEF InBatch
    <2> HIDE DEF S, T
    <2>4. \A p \in Path : task'[l][p] =
            IF p \in S THEN [Idle EXCEPT !.pc = "taken"] ELSE Idle
        BY <2>1 DEF TypeOK
    <2>5. /\ \A p \in S : task'[l][p].pc = "taken"
          /\ \A p \in Path \ S : task'[l][p] = Idle
        BY <2>2, <2>3, <2>4
    <2> QED
        BY <1>1, <1>3, <2>1, <2>5 DEF S, T
<1> QED
    BY <1>2, <1>3

\* The second SELECT gives a handler to each row that is processing.
LEMMA ClaimEffect ==
    ASSUME TypeOK, NEW l \in Lane, Claim(l)
    PROVE  /\ UNCHANGED <<row, mode, draining, crossed>>
           /\ Again(l) # {} /\ Again(l) \subseteq Path
           /\ \A p \in Again(l) : /\ task[l][p].pc = "taken"
                                  /\ row[p].status = "processing"
                                  /\ task'[l][p].pc = "claimed"
                                  /\ task'[l][p].change = row[p].change
           /\ \A p \in Path \ Again(l) : task'[l][p] = Idle
<1>1. task' = [task EXCEPT ![l] = [p \in Path |->
                 IF p \in Again(l)
                 THEN [Idle EXCEPT !.pc = "claimed", !.change = row[p].change,
                                   !.retries = row[p].retries]
                 ELSE Idle]]
    BY DEF Claim
<1>2. ASSUME NEW c, NEW n
      PROVE  /\ [Idle EXCEPT !.pc = "claimed", !.change = c,
                           !.retries = n].pc = "claimed"
             /\ [Idle EXCEPT !.pc = "claimed", !.change = c,
                           !.retries = n].change = c
    BY DEF Idle
<1>3. \A p \in Path : task'[l][p] =
        IF p \in Again(l)
        THEN [Idle EXCEPT !.pc = "claimed", !.change = row[p].change,
                          !.retries = row[p].retries]
        ELSE Idle
    BY <1>1 DEF TypeOK
<1>4. /\ Again(l) \subseteq Path
      /\ \A p \in Again(l) : /\ task[l][p].pc = "taken"
                             /\ row[p].status = "processing"
    BY DEF Again, InBatch
<1>5. ASSUME NEW p \in Again(l)
      PROVE  /\ task'[l][p].pc = "claimed"
             /\ task'[l][p].change = row[p].change
    <2>1. task'[l][p] = [Idle EXCEPT !.pc = "claimed",
                                     !.change = row[p].change,
                                     !.retries = row[p].retries]
        BY <1>3, <1>4
    <2> QED
        BY <1>2, <2>1
<1> QED
    BY <1>3, <1>4, <1>5 DEF Claim, history

\* The version on disk is not younger than the latest one.
LEMMA DiskIsOld ==
    ASSUME TypeOK, MtimesKnown
    PROVE  \A p \in Path :
             last[p] \in Nat /\ 0 <= last[p] /\ disk[p] <= last[p]
<1> SUFFICES ASSUME NEW p \in Path
             PROVE  last[p] \in Nat /\ 0 <= last[p] /\ disk[p] <= last[p]
    OBVIOUS
<1>1. last[p] \in Nat /\ 0 <= last[p]
    BY QueueAssumption DEF TypeOK, Mtime
<1>2. disk[p] \in {0, last[p]}
    BY DEF MtimesKnown, Absent
<1> QED
    BY <1>1, <1>2

-----------------------------------------------------------------------------
LEMMA MtimesStep ==
    ASSUME TypeOK, MtimesKnown, [Next]_vars
    PROVE  MtimesKnown'
<1> USE DEF TypeOK, MtimesKnown
<1>1. /\ disk \in [Path -> Nat] /\ last \in [Path -> Nat]
      /\ \A p \in Path : row[p].mtime \in Nat
      /\ \A q \in Process : scan[q] \in Sweep
      /\ \A l \in Lane, p \in Path : task[l][p].read \in Nat
      /\ \A d \in Decision(Path) : d.path \in Path /\ d.mtime \in Nat
      /\ \A q \in Process : scan[q].todo \subseteq Decision(Path)
    BY QueueAssumption DEF Mtime, Row, Task, Decision, Sweep
<1>2. NoSweep.todo = {} /\ \A p \in Path : NoSweep.seen[p] = 0
    BY DEF NoSweep, Absent
<1>3. \A p \in Path : 0 <= last[p]
    BY DiskIsOld
<1>4. CASE User
    <2>1. ASSUME NEW p \in Path, Write(p) PROVE MtimesKnown'
        <3>1. /\ last' = [last EXCEPT ![p] = last[p] + 1]
              /\ disk' = [disk EXCEPT ![p] = last[p] + 1]
              /\ UNCHANGED <<row, scan, task, inbox>>
            BY <2>1 DEF Write
        <3>2. \A r \in Path : last[r] <= last'[r] /\ last'[r] \in Nat
            BY <1>1, <3>1
        <3>3. \A r \in Path : disk'[r] \in {Absent, last'[r]}
            BY <1>1, <3>1
        <3>4. \A m \in Nat, r \in Path : m <= last[r] => m <= last'[r]
            BY <1>1, <3>2
        <3>5. \A q \in Process, r \in Path : scan[q].seen[r] \in Nat
            BY QueueAssumption DEF Sweep, Mtime
        <3> QED
            BY <1>1, <3>1, <3>3, <3>4, <3>5
    <2>2. ASSUME NEW p \in Path, Unlink(p) PROVE MtimesKnown'
        BY <2>2 DEF Unlink
    <2> QED
        BY <1>4, <2>1, <2>2 DEF User
<1>5. CASE Watch
    <2>1. ASSUME NEW p \in Path, NEW c \in Change, WatcherCallback(p, c)
          PROVE  MtimesKnown'
        <3>1. disk[p] <= last[p]
            BY DiskIsOld
        <3> QED
            BY <2>1, <3>1 DEF WatcherCallback, files, worker
    <2>2. ASSUME NEW e \in inbox, WatcherUpsert(e) PROVE MtimesKnown'
        BY <1>1, <2>2 DEF WatcherUpsert, Upserted, files, worker
    <2> QED
        BY <1>5, <2>1, <2>2 DEF Watch
<1>6. ASSUME NEW q \in Process, ScanStep(q) PROVE MtimesKnown'
    <2>1. CASE Walk(q)
        <3>1. \A p \in Path : disk[p] <= last[p]
            BY DiskIsOld
        <3>2. \A r \in Process : /\ scan'[r].todo = scan[r].todo
                                 /\ scan'[r].seen \in {scan[r].seen, disk}
            BY <1>1, <2>1 DEF Walk, Sweep
        <3> QED
            BY <2>1, <3>1, <3>2 DEF Walk, files, worker, watcher
    <2>2. CASE Decide(q)
        <3> DEFINE todo == reconcile(Path, scan[q].seen, row)
        <3>1. scan[q].seen \in [Path -> Mtime]
            BY DEF Sweep
        <3>2. \A d \in todo : d.path \in Path /\ d.mtime <= last[d.path]
            BY <3>1, <1>1, ReconcileType
        <3> HIDE DEF todo
        <3>3. \A r \in Process :
                \/ scan'[r] = scan[r]
                \/ /\ scan'[r].seen = NoSweep.seen
                   /\ scan'[r].todo \in {{}, todo}
            <4>1. [NoSweep EXCEPT !.pc = "upsert", !.todo = todo].seen
                    = NoSweep.seen
                BY DEF NoSweep
            <4>2. [NoSweep EXCEPT !.pc = "upsert", !.todo = todo].todo = todo
                BY DEF NoSweep
            <4> QED
                BY <2>2, <1>2, <4>1, <4>2 DEF Decide, todo
        <3> QED
            BY ZenonT(40), <2>2, <1>2, <1>3, <3>2, <3>3
            DEF Decide, files, worker, watcher
    <2>3. ASSUME NEW d \in scan[q].todo, ScanUpsert(q, d) PROVE MtimesKnown'
        <3>1. d.path \in Path /\ d.mtime <= last[d.path]
            BY <1>1
        <3>2. \A p \in Path : row'[p].mtime <= last[p]
            BY <2>3, <3>1 DEF ScanUpsert, Upserted
        <3>3. \A r \in Process :
                \/ scan'[r] = NoSweep
                \/ /\ scan'[r].seen = scan[r].seen
                   /\ scan'[r].todo \subseteq scan[r].todo
            <4>1. [scan[q] EXCEPT !.todo = @ \ {d}].seen = scan[q].seen
                BY <1>1 DEF Sweep
            <4>2. [scan[q] EXCEPT !.todo = @ \ {d}].todo \subseteq scan[q].todo
                BY <1>1 DEF Sweep
            <4> QED
                BY <2>3, <4>1, <4>2 DEF ScanUpsert
        <3>4. UNCHANGED <<disk, last, task, inbox>>
            BY <2>3 DEF ScanUpsert, files, worker, watcher
        <3>5. \A r \in Process, p \in Path : scan'[r].seen[p] <= last[p]
            BY <1>2, <1>3, <3>3
        <3>6. \A r \in Process : \A e \in scan'[r].todo :
                e.mtime <= last[e.path]
            BY <1>2, <3>3
        <3> QED
            BY <3>2, <3>4, <3>5, <3>6
    <2> QED
        BY <1>6, <2>1, <2>2, <2>3 DEF ScanStep
<1>7. CASE ScanFails
    <2>1. \A r \in Process : scan'[r] \in {NoSweep, scan[r]}
        BY <1>7 DEF ScanFails
    <2>2. UNCHANGED <<disk, last, row, task, inbox>>
        BY <1>7 DEF ScanFails, files, watcher, worker
    <2>3. \A p \in Path, r \in Process : scan'[r].seen[p] <= last[p]
        BY <1>2, <1>3, <2>1
    <2>4. \A r \in Process : \A d \in scan'[r].todo : d.mtime <= last[d.path]
        BY <1>2, <2>1
    <2> QED
        BY <2>2, <2>3, <2>4
<1>8. ASSUME NEW l \in Lane, ClaimStep(l) PROVE MtimesKnown'
    <2>1. \A p \in Path : row'[p].mtime = row[p].mtime
        <3>1. \A p \in Path : Claimed(row[p]).mtime = row[p].mtime
            BY DEF Claimed, Row
        <3>2. \A p \in Path : row'[p] \in {row[p], Claimed(row[p])}
            BY <1>8, ClaimFrames
        <3> QED
            BY <3>1, <3>2
    <2>2. \A k \in Lane, p \in Path :
            task'[k][p].read \in {0, task[k][p].read}
        BY <1>8, ClaimFrames DEF Absent
    <2>3. UNCHANGED <<disk, last, scan, inbox>>
        BY <1>8, ClaimFrames DEF files, watcher
    <2> QED
        BY <1>3, <2>1, <2>2, <2>3
<1>9. ASSUME NEW l \in Lane, NEW p \in Path, TaskStep(l, p)
      PROVE  MtimesKnown'
    <2>1. CASE RunsOn(l, p)
        <3>1. \A k \in Lane, r \in Path :
                task'[k][r].read \in {Absent, disk[r], task[k][r].read}
            BY <2>1, StaysBusy, TaskReads
        <3>2. \A r \in Path : disk[r] <= last[r]
            BY DiskIsOld
        <3>3. UNCHANGED <<disk, last, row, scan, inbox>>
            BY <2>1, StaysBusy DEF files, watcher
        <3> QED
            BY <1>3, <3>1, <3>2, <3>3 DEF Absent
    <2>2. CASE Mark(l, p)
        <3>1. \A r \in Path : row'[r].mtime = row[r].mtime
            <4> DEFINE t == task[l][p]
            <4>1. MarkedDone(row[p]).mtime = row[p].mtime
                BY DEF MarkedDone, Row
            <4>2. MarkedFailed(row[p], t.verdict, t.retries).mtime
                    = row[p].mtime
                BY DEF MarkedFailed, Row
            <4> HIDE DEF t
            <4> QED
                BY <2>2, <4>1, <4>2 DEF Mark, t
        <3>2. \A k \in Lane, r \in Path :
                task'[k][r].read \in {0, task[k][r].read}
            BY <2>2 DEF Mark, Return, Idle, Absent
        <3> QED
            BY <2>2, <1>3, <3>1, <3>2 DEF Mark, files, watcher
    <2>3. CASE MarkFails(l, p)
        <3>1. \A k \in Lane, r \in Path :
                task'[k][r].read \in {0, task[k][r].read}
            BY <2>3 DEF MarkFails, Idle, Absent
        <3>2. UNCHANGED <<disk, last, row, scan, inbox>>
            BY <2>3 DEF MarkFails, files, watcher
        <3> QED
            BY <1>3, <3>1, <3>2
    <2> QED
        BY <1>9, <2>1, <2>2, <2>3 DEF TaskStep, RunsOn
<1>10. CASE ServerStart
    <2>1. \A p \in Path : row'[p].mtime = row[p].mtime
        BY <1>10 DEF ServerStart, Recovered, Row
    <2> QED
        BY <1>10, <2>1 DEF ServerStart, files, watcher, worker
<1>11. ASSUME NEW q \in Process, Die(q) PROVE MtimesKnown'
    <2>1. \A r \in Process : scan'[r] \in {NoSweep, scan[r]}
        BY <1>11 DEF Die
    <2>2. \A l \in Lane, p \in Path :
            task'[l][p].read \in {0, task[l][p].read}
        BY <1>11 DEF Die, Idle, Absent
    <2>3. inbox' \subseteq inbox
        BY <1>11 DEF Die, watcher
    <2> QED
        <3>1. UNCHANGED <<disk, last, row>>
            BY <1>11 DEF Die, files
        <3>2. \A p \in Path, r \in Process : scan'[r].seen[p] <= last'[p]
            BY <1>2, <1>3, <2>1, <3>1
        <3>3. \A p \in Path, l \in Lane : task'[l][p].read <= last'[p]
            BY <1>3, <2>2, <3>1
        <3>4. \A r \in Process : \A d \in scan'[r].todo :
                d.mtime <= last'[d.path]
            BY <1>2, <2>1, <3>1
        <3>5. \A e \in inbox' : e.mtime <= last'[e.path]
            BY <2>3, <3>1
        <3>6. \A p \in Path :
                disk'[p] \in {Absent, last'[p]} /\ row'[p].mtime <= last'[p]
            BY <3>1
        <3> HIDE DEF MtimesKnown
        <3> QED
            BY <3>2, <3>3, <3>4, <3>5, <3>6 DEF MtimesKnown
<1>12. ASSUME NEW q \in Cli, CliStep(q) PROVE MtimesKnown'
    <2>1. \A p \in Path : row'[p].mtime \in {0, row[p].mtime}
        <3>1. CASE CliSync(q) \/ DropTables(q) \/ CliExit(q)
            BY <3>1 DEF CliSync, DropTables, CliExit
        <3>2. ASSUME NEW p \in Path, CliSyncPath(q, p)
              PROVE  \A r \in Path : row'[r].mtime \in {0, row[r].mtime}
            BY <3>2 DEF CliSyncPath, ForceEnqueued, Upserted
        <3>3. CASE CliFix(q)
            BY <3>3 DEF CliFix, ResetRetryable, Row
        <3>4. CASE CliRebuild(q)
            BY <3>4 DEF CliRebuild, NoRow
        <3> QED
            BY <1>12, <3>1, <3>2, <3>3, <3>4 DEF CliStep
    <2>2. UNCHANGED <<disk, last, scan, task, inbox>>
        BY <1>12
        DEF CliStep, CliSync, CliSyncPath, CliFix, CliRebuild, DropTables,
            CliExit, files, watcher, worker
    <2> QED
        BY <1>3, <2>1, <2>2
<1>13. CASE UNCHANGED vars
    BY <1>13 DEF vars
<1> QED
    BY <1>4, <1>5, <1>6, <1>7, <1>8, <1>9, <1>10, <1>11, <1>12, <1>13 DEF Next

LEMMA OneWorkerStep ==
    ASSUME TypeOK, OneWorker, Exclusive, StoreFaults = 0, [Next]_vars
    PROVE  OneWorker'
<1> USE DEF TypeOK
<1>0. Server \in Process /\ \A l \in Lane : Owner[l] \in Process
    BY CascadeAssumption DEF Process
<1>1. CASE User
    BY <1>1 DEF User, Write, Unlink, Notify, OneWorker, OneProcess, LiveSweeps,
            LiveBatches, Busy
<1>2. CASE Watch
    BY <1>2
    DEF Watch, WatcherCallback, WatcherUpsert, worker, OneWorker, OneProcess,
        LiveSweeps, LiveBatches, Busy
<1>3. ASSUME NEW q \in Process, ScanStep(q) PROVE OneWorker'
    <2>1. /\ UNCHANGED <<inbox, notices, task, draining>>
          /\ \A r \in Process : r # q =>
                mode'[r] = mode[r] /\ scan'[r] = scan[r]
        BY <1>3 DEF ScanStep, Walk, Decide, ScanUpsert, AfterSweep, watcher,
                    worker
    <2>2. /\ mode[q] \in {"up", "sync"}
          /\ \/ mode'[q] = mode[q]
             \/ mode[q] = "sync" /\ mode'[q] = "drain" /\ scan'[q].pc = "idle"
        <3>1. CASE Walk(q)
            BY <3>1 DEF Walk, MayScan
        <3>2. CASE Decide(q)
            BY <3>2 DEF Decide, AfterSweep, NoSweep, OneWorker, LiveSweeps
        <3>3. ASSUME NEW d \in scan[q].todo, ScanUpsert(q, d)
              PROVE  <2>2!1 /\ <2>2!2
            BY <3>3 DEF ScanUpsert, AfterSweep, NoSweep, OneWorker, LiveSweeps
        <3> QED
            BY <1>3, <3>1, <3>2, <3>3 DEF ScanStep
    <2>3. OneProcess'
        BY <2>1, <2>2 DEF OneWorker, OneProcess
    <2>4. LiveSweeps'
        BY <1>0, <2>1, <2>2 DEF OneWorker, LiveSweeps
    <2>5. LiveBatches'
        <3>1. \A l \in Lane : mode[Owner[l]] \in {"up", "drain"}
                            => mode'[Owner[l]] \in {"up", "drain"}
            BY <1>0, <2>1, <2>2
        <3>2. \A l \in Lane, p \in Path : Busy(l, p)' <=> Busy(l, p)
            BY <2>1 DEF Busy
        <3> QED
            BY <2>1, <3>1, <3>2 DEF OneWorker, LiveBatches
    <2> QED
        BY <2>3, <2>4, <2>5 DEF OneWorker
<1>4. CASE ScanFails
    BY <1>4, NothingRaises DEF ScanFails
<1>5. ASSUME NEW l \in Lane, ClaimStep(l) PROVE OneWorker'
    <2>1. /\ UNCHANGED <<scan, inbox, notices>>
          /\ \A k \in Lane \ {l} : /\ draining'[k] = draining[k]
                                   /\ task'[k] = task[k]
        BY <1>5, ClaimFrames DEF watcher
    <2>2. \A k \in Lane \ {l}, p \in Path : Busy(k, p)' <=> Busy(k, p)
        BY <2>1 DEF Busy
    <2>3. ASSUME UNCHANGED mode, draining'[l],
                 mode[Owner[l]] \in {"up", "drain"},
                 \E p \in Path : Busy(l, p)',
                 \A k \in Lane \ {l} : ~draining[k]
          PROVE  OneWorker'
        <3>1. OneProcess' /\ LiveSweeps'
            BY <2>1, <2>3 DEF OneWorker, OneProcess, LiveSweeps
        <3>2. \A k \in Lane \ {l} :
                ~draining'[k] /\ \A p \in Path : ~Busy(k, p)'
            BY <2>1, <2>2, <2>3 DEF OneWorker, LiveBatches
        <3>3. LiveBatches'
            BY <2>3, <3>2 DEF LiveBatches
        <3> QED
            BY <3>1, <3>3 DEF OneWorker
    <2>4. ASSUME NEW p \in Path, Busy(l, p)
          PROVE  /\ draining[l] /\ mode[Owner[l]] \in {"up", "drain"}
                 /\ \A k \in Lane \ {l} : ~draining[k]
        BY <2>4 DEF OneWorker, LiveBatches
    <2>5. ASSUME NEW p \in Path, Busy(l, p), EmptyBatch(l) PROVE OneWorker'
        <3>1. /\ \A r \in Path : ~Busy(l, r)'
              /\ ~draining'[l]
              /\ \A q \in Process :
                   \/ mode'[q] = mode[q]
                   \/ mode[q] = "drain" /\ mode'[q] = "down"
            BY <2>5, EmptyEffect DEF Busy, Idle
        <3>2. \A k \in Lane : ~draining'[k] /\ \A r \in Path : ~Busy(k, r)'
            BY <2>1, <2>2, <2>4, <2>5, <3>1 DEF OneWorker, LiveBatches
        <3>3. OneProcess' /\ LiveSweeps'
            BY <1>0, <2>1, <3>1 DEF OneWorker, OneProcess, LiveSweeps
        <3> QED
            BY <3>2, <3>3 DEF OneWorker, LiveBatches
    <2>6. CASE Pick(l)
        <3>1. /\ \A k \in Lane : ~draining[k]
              /\ mode[Owner[l]] \in {"up", "drain"}
            BY <2>6, ClaimsAlone DEF Pick, MayDrain
        <3>2. UNCHANGED mode /\ draining'[l] /\ \E p \in Path : Busy(l, p)'
            BY <2>6, PickEffect DEF Busy
        <3> QED
            BY <2>3, <3>1, <3>2
    <2>7. CASE Take(l)
        <3>1. PICK p \in Path : task[l][p].pc = "picked"
            BY <2>7 DEF Take, InBatch
        <3>2. Busy(l, p) /\ p \in InBatch(l, "picked")
            BY <3>1 DEF Busy, InBatch
        <3>3. CASE InBatch(l, "picked") \cap Pending = {}
            BY <2>5, <2>7, <3>2, <3>3, TakeEffect
        <3>4. CASE InBatch(l, "picked") \cap Pending # {}
            <4>1. UNCHANGED <<mode, draining>> /\ Busy(l, p)'
                BY <2>7, <3>2, <3>4, TakeEffect DEF Busy
            <4> QED
                BY <2>3, <2>4, <3>2, <4>1
        <3> QED
            BY <3>3, <3>4
    <2>8. CASE Claim(l)
        <3>1. /\ UNCHANGED <<mode, draining>>
              /\ \E p \in Path : Busy(l, p) /\ Busy(l, p)'
            BY <2>8, ClaimEffect DEF Busy
        <3> QED
            BY <2>3, <2>4, <3>1
    <2>9. CASE ClaimNothing(l) \/ ClaimFails(l)
        <3>1. EmptyBatch(l) /\ \E p \in Path : Busy(l, p)
            BY <2>9 DEF ClaimNothing, ClaimFails, InBatch, Busy
        <3> QED
            BY <2>5, <3>1
    <2> QED
        BY <1>5, <2>6, <2>7, <2>8, <2>9 DEF ClaimStep
<1>6. ASSUME NEW l \in Lane, NEW p \in Path, TaskStep(l, p)
      PROVE  OneWorker'
    <2>1. CASE RunsOn(l, p)
        BY <2>1, StaysBusy
        DEF OneWorker, OneProcess, LiveSweeps, LiveBatches, watcher
    <2>2. CASE Mark(l, p)
        <3>1. UNCHANGED <<mode, scan, inbox, notices>>
            BY <2>2 DEF Mark, watcher
        <3>2. Busy(l, p) /\ draining[l]
            BY <2>2 DEF Mark, Busy, OneWorker, LiveBatches
        <3>3. \A k \in Lane, r \in Path :
                Busy(k, r)' <=> Busy(k, r) /\ (k # l \/ r # p)
            BY <2>2 DEF Mark, Return, Busy, Idle
        <3>4. /\ \A k \in Lane \ {l} : draining'[k] = draining[k]
              /\ draining'[l] <=> \E r \in Path \ {p} : Busy(l, r)
            BY <2>2, <3>2 DEF Mark, Return
        <3>5. \A k \in Lane : draining'[k] <=> \E r \in Path : Busy(k, r)'
            BY <3>3, <3>4 DEF OneWorker, OneProcess, LiveSweeps, LiveBatches
        <3>6. \A k \in Lane : draining'[k] => draining[k]
            BY <3>2, <3>4
        <3> QED
            BY <3>1, <3>5, <3>6
            DEF OneWorker, OneProcess, LiveSweeps, LiveBatches
    <2>3. CASE MarkFails(l, p)
        BY <2>3, NothingRaises DEF MarkFails
    <2> QED
        BY <1>6, <2>1, <2>2, <2>3 DEF TaskStep, RunsOn
<1>7. ASSUME NEW q \in Process, NEW m \in {"up", "sync", "drain", "reset"},
             MayStart(q), Become(q, m),
             UNCHANGED <<inbox, notices, scan, task, draining>>
      PROVE  OneWorker'
    <2>1. /\ \A r \in Process : mode[r] = "down" /\ scan[r].pc = "idle"
          /\ \A l \in Lane : ~draining[l] /\ \A p \in Path : ~Busy(l, p)
          /\ inbox = {}
          /\ \A p \in Path : notices[p] = {}
        BY <1>7, StartsAlone
    <2>2. \A r \in Process : mode'[r] # "down" => r = q
        BY <1>7, <2>1 DEF Become
    <2> QED
        BY <1>7, <2>1, <2>2
        DEF OneWorker, OneProcess, LiveSweeps, LiveBatches, Busy
<1>8. CASE ServerStart
    BY <1>8, <1>7, <1>0 DEF ServerStart, watcher, worker
<1>9. ASSUME NEW q \in Process, Die(q) PROVE OneWorker'
    <2>1. /\ mode' = [mode EXCEPT ![q] = "down"]
          /\ scan' = [scan EXCEPT ![q] = NoSweep]
          /\ \A l \in Lane : draining'[l] <=> Owner[l] # q /\ draining[l]
          /\ \A l \in Lane : IF Owner[l] = q
                              THEN \A p \in Path : task'[l][p].pc = "idle"
                              ELSE task'[l] = task[l]
          /\ inbox' \subseteq inbox
          /\ \A p \in Path : notices'[p] \subseteq notices[p]
          /\ q = Server => inbox' = {} /\ \A p \in Path : notices'[p] = {}
        BY <1>9 DEF Die, Become, watcher, Idle
    <2>2. NoSweep.pc = "idle"
        BY DEF NoSweep
    <2>3. OneProcess'
        BY <2>1 DEF OneWorker, OneProcess
    <2>4. LiveSweeps'
        BY <1>0, <2>1, <2>2 DEF OneWorker, LiveSweeps
    <2>5. LiveBatches'
        <3>1. \A l \in Lane : Owner[l] # q =>
                mode'[Owner[l]] = mode[Owner[l]]
            BY <1>0, <2>1
        <3>2. \A l \in Lane, p \in Path :
                Busy(l, p)' <=> Owner[l] # q /\ Busy(l, p)
            BY <2>1 DEF Busy
        <3>3. \A l \in Lane : draining'[l] => draining[l] /\ Owner[l] # q
            BY <2>1
        <3>4. \A l \in Lane : draining'[l] <=> \E p \in Path : Busy(l, p)'
            BY <2>1, <3>2 DEF OneWorker, LiveBatches
        <3> QED
            BY <3>1, <3>3, <3>4 DEF OneWorker, LiveBatches
    <2> QED
        BY <2>3, <2>4, <2>5 DEF OneWorker
<1>10. ASSUME NEW q \in Cli, CliStep(q) PROVE OneWorker'
    <2>0. q \in Process /\ q # Server
        BY CascadeAssumption DEF Process
    <2>1. ASSUME NEW p \in Path, CliSyncPath(q, p) PROVE OneWorker'
        BY <1>7, <2>0, <2>1 DEF CliSyncPath, watcher, worker
    <2>2. CASE CliSync(q) \/ CliFix(q) \/ CliRebuild(q)
        BY <1>7, <2>0, <2>2 DEF CliSync, CliFix, CliRebuild, watcher, worker
    <2>3. CASE DropTables(q)
        BY <1>0, <2>0, <2>3
        DEF DropTables, Become, watcher, worker, OneWorker, OneProcess,
            LiveSweeps, LiveBatches, Busy
    <2>4. CASE CliExit(q)
        BY <1>0, <2>0, <2>4
        DEF CliExit, Become, watcher, worker, OneWorker, OneProcess,
            LiveSweeps, LiveBatches, Busy
    <2> QED
        BY <1>10, <2>1, <2>2, <2>3, <2>4 DEF CliStep
<1>11. CASE UNCHANGED vars
    BY <1>11 DEF vars, OneWorker, OneProcess, LiveSweeps,
            LiveBatches, Busy
<1> QED
    BY <1>1, <1>2, <1>3, <1>4, <1>5, <1>6, <1>8, <1>9, <1>10, <1>11 DEF Next

-----------------------------------------------------------------------------
LEMMA ResetStep ==
    ASSUME TypeOK, OneWorker, ResetIsEmpty, Exclusive, StoreFaults = 0,
           [Next]_vars
    PROVE  ResetIsEmpty'
<1> USE DEF TypeOK
<1>0. Server \in Process /\ \A l \in Lane : Owner[l] \in Process
    BY CascadeAssumption DEF Process
<1>1. ASSUME NEW q \in Process, mode[q] \notin {"down", "reset"},
             \A r \in Process : mode'[r] = "reset" => mode[r] = "reset"
      PROVE  ResetIsEmpty'
    BY <1>1 DEF OneWorker, OneProcess, ResetIsEmpty
<1>2. ASSUME UNCHANGED row,
             \A r \in Process : mode'[r] = "reset" => mode[r] = "reset"
      PROVE  ResetIsEmpty'
    BY <1>2 DEF ResetIsEmpty
<1>3. CASE User
    BY <1>2, <1>3 DEF User, Write, Unlink
<1>4. CASE Watch
    <2>1. ASSUME NEW p \in Path, NEW c \in Change, WatcherCallback(p, c)
          PROVE  ResetIsEmpty'
        BY <1>2, <2>1 DEF WatcherCallback
    <2>2. ASSUME NEW e \in inbox, WatcherUpsert(e) PROVE ResetIsEmpty'
        <3>1. mode[Server] = "up"
            BY DEF OneWorker, LiveSweeps
        <3> QED
            BY <1>0, <1>1, <2>2, <3>1 DEF WatcherUpsert
    <2> QED
        BY <1>4, <2>1, <2>2 DEF Watch
<1>5. ASSUME NEW q \in Process, ScanStep(q) PROVE ResetIsEmpty'
    <2>1. mode[q] \in {"up", "sync"}
        BY <1>5 DEF ScanStep, Walk, Decide, ScanUpsert, MayScan, OneWorker,
                    LiveSweeps
    <2>2. \A r \in Process : mode'[r] = "reset" => mode[r] = "reset"
        BY <1>5 DEF ScanStep, Walk, Decide, ScanUpsert, AfterSweep
    <2> QED
        BY <1>1, <2>1, <2>2
<1>6. CASE ScanFails
    BY <1>6, NothingRaises DEF ScanFails
<1>7. ASSUME NEW l \in Lane, ClaimStep(l) PROVE ResetIsEmpty'
    <2>1. mode[Owner[l]] \in {"up", "drain"}
        <3>1. CASE Pick(l)
            BY <3>1 DEF Pick, MayDrain
        <3>2. CASE ~Pick(l)
            <4>1. PICK p \in Path : Busy(l, p)
                BY <1>7, <3>2
                DEF ClaimStep, Take, Claim, ClaimNothing, ClaimFails, Again,
                    InBatch, Busy
            <4> QED
                BY <4>1 DEF OneWorker, LiveBatches
        <3> QED
            BY <3>1, <3>2
    <2>2. \A r \in Process : mode'[r] = "reset" => mode[r] = "reset"
        BY <1>7 DEF ClaimStep, Pick, Take, Claim, ClaimNothing, ClaimFails,
                    EmptyBatch
    <2> QED
        BY <1>0, <1>1, <2>1, <2>2
<1>8. ASSUME NEW l \in Lane, NEW p \in Path, TaskStep(l, p)
      PROVE  ResetIsEmpty'
    <2>1. CASE RunsOn(l, p)
        BY <1>2, <2>1, StaysBusy
    <2>2. CASE Mark(l, p)
        <3>1. draining[l]
            BY <2>2 DEF Mark, Busy, OneWorker, LiveBatches
        <3>2. mode[Owner[l]] \in {"up", "drain"} /\ UNCHANGED mode
            BY <2>2, <3>1 DEF Mark, OneWorker, LiveBatches
        <3> QED
            BY <1>0, <1>1, <3>2
    <2>3. CASE MarkFails(l, p)
        BY <2>3, NothingRaises DEF MarkFails
    <2> QED
        BY <1>8, <2>1, <2>2, <2>3 DEF TaskStep, RunsOn
<1>9. ASSUME NEW q \in Process, NEW m \in {"up", "sync", "drain"},
             MayStart(q), Become(q, m)
      PROVE  ResetIsEmpty'
    <2>1. \A r \in Process : mode[r] = "down"
        BY <1>9, StartsAlone
    <2> QED
        BY <1>9, <2>1 DEF Become, ResetIsEmpty
<1>10. CASE ServerStart
    BY <1>0, <1>9, <1>10 DEF ServerStart
<1>11. ASSUME NEW q \in Process, Die(q) PROVE ResetIsEmpty'
    BY <1>2, <1>11 DEF Die, Become
<1>12. ASSUME NEW q \in Cli, CliStep(q) PROVE ResetIsEmpty'
    <2>0. q \in Process
        BY DEF Process
    <2>1. ASSUME NEW p \in Path, CliSyncPath(q, p) PROVE ResetIsEmpty'
        BY <1>9, <2>0, <2>1 DEF CliSyncPath
    <2>2. CASE CliSync(q) \/ CliFix(q)
        BY <1>9, <2>0, <2>2 DEF CliSync, CliFix
    <2>3. CASE CliRebuild(q)
        BY <2>3 DEF CliRebuild, NoRow, ResetIsEmpty
    <2>4. CASE DropTables(q) \/ CliExit(q)
        BY <1>2, <2>0, <2>4 DEF DropTables, CliExit, Become
    <2> QED
        BY <1>12, <2>1, <2>2, <2>3, <2>4 DEF CliStep
<1>13. CASE UNCHANGED vars
    BY <1>2, <1>13 DEF vars
<1> QED
    BY <1>3, <1>4, <1>5, <1>6, <1>7, <1>8, <1>10, <1>11, <1>12, <1>13 DEF Next

\* Without the command nobody is about to drop the tables.
LEMMA NoResetStep ==
    ASSUME TypeOK, "rebuild" \notin Commands, [Next]_vars,
           \A q \in Process : mode[q] # "reset"
    PROVE  \A q \in Process : mode'[q] # "reset"
<1> USE DEF TypeOK, Become
<1>1. CASE User \/ Watch \/ UNCHANGED vars
    BY <1>1 DEF User, Write, Unlink, Watch, WatcherCallback, WatcherUpsert, vars
<1>2. CASE (\E q \in Process : ScanStep(q)) \/ ScanFails
    BY <1>2 DEF ScanStep, Walk, Decide, ScanUpsert, AfterSweep, ScanFails
<1>3. ASSUME NEW l \in Lane, ClaimStep(l)
      PROVE  \A q \in Process : mode'[q] # "reset"
    BY <1>3 DEF ClaimStep, Pick, Take, Claim, ClaimNothing, ClaimFails,
                EmptyBatch
<1>4. ASSUME NEW l \in Lane, NEW p \in Path, TaskStep(l, p)
      PROVE  UNCHANGED mode
    BY <1>4
    DEF TaskStep, Enter, HandleDeleted, ReadMd, FoldDelete, Reindex,
        PruneEntries, ExternalError, Unrecoverable, Mark, MarkFails, Go
<1>5. CASE ServerStart \/ \E q \in Process : Die(q)
    BY <1>5 DEF ServerStart, Die
<1>6. CASE \E q \in Cli : CliStep(q)
    BY <1>6
    DEF CliStep, CliSync, CliSyncPath, CliFix, CliRebuild, DropTables, CliExit
<1> QED
    BY <1>1, <1>2, <1>3, <1>4, <1>5, <1>6 DEF Next

-----------------------------------------------------------------------------
\* The file of p stays as it is, disappears, or becomes younger than its row.
FileMovesOn(p) ==
    disk'[p] = disk[p] \/ disk'[p] = Absent \/ row[p].mtime < disk'[p]

\* A claim is kept by every step that leaves its task, its row and its
\* entries in the index alone, or that enqueues the row again.
LEMMA ClaimFrame ==
    ASSUME NEW l \in Lane, NEW p \in Path, ClaimKept(l, p), FileMovesOn(p),
           task'[l][p] = task[l][p], row'[p] = row[p], index'[p] = index[p]
    PROVE  ClaimKept(l, p)'
BY DEF ClaimKept, HoldsClaim, Moved, Holds, Handles, FileMovesOn

LEMMA ClaimLost ==
    ASSUME NEW l \in Lane, NEW p \in Path,
           row'[p].status = "pending" \/ ~Handles(l, p)'
    PROVE  ClaimKept(l, p)'
BY DEF ClaimKept

\* What is true of a done row stays true if neither the row nor the index
\* changes; a row that is not done says nothing.
LEMMA TruthFrame ==
    ASSUME TypeOK, TypeOK', NEW p \in Path, Truthful(p), FileMovesOn(p),
           row'[p] = row[p], index'[p] = index[p]
    PROVE  Truthful(p)'
<1>1. row[p].mtime \in Nat /\ disk'[p] \in Nat
    BY QueueAssumption DEF TypeOK, Row, Mtime
<1> QED
    BY <1>1 DEF Truthful, FileMovesOn

LEMMA TruthVacuous ==
    ASSUME NEW p \in Path, row'[p].status # "done"
    PROVE  Truthful(p)'
BY DEF Truthful

\* A task that runs on establishes what its next step relies on.
LEMMA ClaimRunsOn ==
    ASSUME TypeOK, MtimesKnown, NEW l \in Lane, NEW p \in Path,
           ClaimKept(l, p), RunsOn(l, p)
    PROVE  ClaimKept(l, p)'
<1> DEFINE t == task[l][p]
           u == task'[l][p]
<1>1. t \in Task /\ Handles(l, p)
    BY StaysBusy DEF TypeOK
<1>2. row'[p] = row[p] /\ disk'[p] = disk[p]
    BY StaysBusy DEF files
<1> SUFFICES ASSUME row[p].status = "processing"
             PROVE  HoldsClaim(task[l][p], p)'
    <2>1. /\ row'[p].status = row[p].status
          /\ row[p].status \in {"pending", "processing"}
        BY <1>1, <1>2 DEF ClaimKept
    <2> QED
        BY <2>1 DEF ClaimKept
<1>3. HoldsClaim(t, p)
    BY <1>1 DEF ClaimKept
<1>4. ASSUME NEW v, Go(l, p, v) PROVE u = v
    BY <1>4 DEF Go, TypeOK
<1> HIDE DEF t, u
<1>5. CASE Enter(l, p)
    <2>1. u.change = t.change /\ u.pc \in {"fail", "run"}
        BY <1>1, <1>4, <1>5 DEF Enter, t, Task
    <2> QED
        BY <1>2, <1>3, <2>1 DEF HoldsClaim, u
<1>6. CASE HandleDeleted(l, p)
    <2>1. u.change = t.change /\ u.pc = "mark" /\ t.change = "deleted"
        BY <1>1, <1>4, <1>6 DEF HandleDeleted, t, Task
    <2>2. index'[p] = Absent
        BY <1>6 DEF HandleDeleted, TypeOK
    <2> QED
        BY <1>2, <1>3, <2>1, <2>2 DEF HoldsClaim, u
<1>7. CASE ReadMd(l, p)
    <2>1. /\ u.change = t.change /\ t.change # "deleted"
          /\ u.pc = IF disk[p] = Absent THEN "fold" ELSE "embed"
          /\ u.read = disk[p]
        BY <1>1, <1>4, <1>7 DEF ReadMd, t, Task
    <2>2. disk[p] # Absent => row[p].mtime <= disk[p]
        BY DEF MtimesKnown
    <2> QED
        BY <1>2, <1>3, <2>1, <2>2 DEF HoldsClaim, Moved, u
<1>8. CASE FoldDelete(l, p)
    <2>1. u.change = t.change /\ u.pc = "mark" /\ t.pc = "fold"
        BY <1>1, <1>4, <1>8 DEF FoldDelete, t, Task
    <2> QED
        BY <1>2, <1>3, <2>1 DEF HoldsClaim, Moved, u
<1>9. CASE Reindex(l, p) \/ PruneEntries(l, p)
    <2>1. /\ u.change = t.change /\ u.read = t.read
          /\ t.pc \in {"embed", "prune"} /\ u.pc \in {"prune", "mark"}
        BY <1>1, <1>4, <1>9 DEF Reindex, PruneEntries, t, Task
    <2>2. u.pc = "mark" => index'[p] = t.read
        <3>1. CASE Reindex(l, p)
            BY <1>1, <1>4, <3>1 DEF Reindex, t, Task
        <3>2. CASE PruneEntries(l, p)
            BY <3>2 DEF PruneEntries, t, TypeOK
        <3> QED
            BY <1>9, <3>1, <3>2
    <2> QED
        BY <1>2, <1>3, <2>1, <2>2 DEF HoldsClaim, Moved, u
<1>10. CASE ExternalError(l, p) \/ Unrecoverable(l, p)
    <2>1. [t EXCEPT !.pc = "run", !.read = Absent, !.attempt = @ + 1,
                    !.retries = @ + 1].change = t.change
        BY <1>1, ZenonT(30) DEF Task
    <2>2. [t EXCEPT !.pc = "run", !.read = Absent, !.attempt = @ + 1,
                    !.retries = @ + 1].pc = "run"
        BY <1>1, ZenonT(30) DEF Task
    <2>3. ASSUME NEW v
          PROVE  /\ [t EXCEPT !.pc = "fail", !.verdict = v].change = t.change
                 /\ [t EXCEPT !.pc = "fail", !.verdict = v].pc = "fail"
        BY <1>1 DEF Task
    <2>4. u.change = t.change /\ u.pc \in {"run", "fail"}
        <3>1. CASE ExternalError(l, p)
            <4> DEFINE again == [t EXCEPT !.pc = "run", !.read = Absent,
                                          !.attempt = @ + 1,
                                          !.retries = @ + 1]
            <4>1. \/ Go(l, p, again)
                  \/ \E v : Go(l, p, [t EXCEPT !.pc = "fail", !.verdict = v])
                BY <3>1 DEF ExternalError, t
            <4>2. again.change = t.change /\ again.pc = "run"
                BY <2>1, <2>2
            <4> HIDE DEF again
            <4> QED
                BY <1>4, <2>3, <4>1, <4>2
        <3>2. CASE Unrecoverable(l, p)
            BY <1>4, <2>3, <3>2 DEF Unrecoverable, t
        <3> QED
            BY <1>10, <3>1, <3>2
    <2> QED
        BY <1>2, <1>3, <2>4 DEF HoldsClaim, u
<1> QED
    BY <1>5, <1>6, <1>7, <1>8, <1>9, <1>10 DEF RunsOn

\* A verdict on a row that has kept its claim makes a true done row.
LEMMA MarkIsTruthful ==
    ASSUME TypeOK, MtimesKnown, NEW l \in Lane, NEW p \in Path,
           ClaimKept(l, p), Mark(l, p)
    PROVE  Truthful(p)'
<1> DEFINE t == task[l][p]
<1>1. /\ row[p].mtime \in Nat /\ last[p] \in Nat
      /\ t.read \in Nat /\ row[p] \in Row
    BY QueueAssumption DEF TypeOK, Row, Mtime, Task
<1>2. /\ disk'[p] = disk[p] /\ index'[p] = index[p]
      /\ disk[p] \in {Absent, last[p]} /\ t.read <= last[p]
    BY DEF Mark, files, MtimesKnown
<1>3. Handles(l, p)
    BY DEF Mark, Holds, Handles
<1>4. CASE t.pc = "mark" /\ row[p].status = "processing"
    <2>1. /\ row'[p].status = "done" /\ row'[p].change = row[p].change
          /\ row'[p].mtime = row[p].mtime
        <3>1. row' = [row EXCEPT ![p] = MarkedDone(row[p])]
            BY <1>4 DEF Mark
        <3> QED
            BY <1>1, <1>4, <3>1 DEF MarkedDone, Row, TypeOK
    <2>2. HoldsClaim(t, p)
        BY <1>3, <1>4 DEF ClaimKept
    <2> HIDE DEF t
    <2>3. IF row[p].change = "deleted"
          THEN index[p] = Absent
          ELSE Moved(p) \/ (index[p] = t.read /\ row[p].mtime <= t.read)
        <3>1. t.change = row[p].change
            BY <2>2 DEF HoldsClaim
        <3>2. IF t.change = "deleted"
              THEN index[p] = Absent
              ELSE Moved(p) \/ (index[p] = t.read /\ row[p].mtime <= t.read)
            BY <1>4, <2>2 DEF HoldsClaim
        <3> QED
            BY <3>1, <3>2
    <2> QED
        BY <1>1, <1>2, <2>1, <2>3 DEF Truthful, Moved, Absent
<1>5. CASE ~(t.pc = "mark" /\ row[p].status = "processing")
    <2>1. row[p].status \in {"pending", "processing"}
        BY <1>3 DEF ClaimKept
    <2>2. row'[p].status # "done"
        <3>1. CASE t.pc = "mark"
            <4>1. row' = [row EXCEPT ![p] = MarkedDone(row[p])]
                BY <3>1 DEF Mark
            <4> QED
                BY <1>1, <1>5, <2>1, <3>1, <4>1 DEF MarkedDone, Row, TypeOK
        <3>2. CASE t.pc = "fail"
            <4>1. row' = [row EXCEPT ![p] =
                            MarkedFailed(row[p], t.verdict, t.retries)]
                BY <3>2 DEF Mark
            <4> QED
                BY <1>1, <2>1, <4>1 DEF MarkedFailed, Row, TypeOK
        <3> QED
            BY <3>1, <3>2 DEF Mark
    <2> QED
        BY <2>2, TruthVacuous
<1> QED
    BY <1>4, <1>5

\* A path whose row, file and entries a step leaves alone stays sound if no
\* batch comes to hold it.
LEMMA SoundFrame ==
    ASSUME TypeOK, TypeOK', NEW p \in Path, Sound(p), FileMovesOn(p),
           row'[p] = row[p], index'[p] = index[p],
           \A l \in Lane : task'[l][p] = task[l][p] \/ ~Holds(l, p)'
    PROVE  Sound(p)'
<1>1. \A l \in Lane : Holds(l, p)' => Holds(l, p)
    BY DEF Holds
<1>2. Truthful(p)'
    BY TruthFrame DEF Sound
<1>3. ASSUME NEW l \in Lane PROVE ClaimKept(l, p)'
    <2>1. CASE task'[l][p] = task[l][p]
        BY <2>1, ClaimFrame DEF Sound
    <2>2. CASE ~Holds(l, p)'
        BY <2>2, ClaimLost DEF Handles
    <2> QED
        BY <2>1, <2>2
<1> QED
    BY <1>1, <1>2, <1>3 DEF Sound

\* So does a path that is enqueued again, or whose row goes while no handler
\* is at work on it.
LEMMA SoundAgain ==
    ASSUME NEW p \in Path, Sound(p), row'[p].status # "done",
           \A l \in Lane : task'[l][p] = task[l][p],
           \/ row'[p].status = "pending"
           \/ \A l \in Lane : ~Handles(l, p)
    PROVE  Sound(p)'
<1>1. \A l \in Lane : (Holds(l, p)' <=> Holds(l, p))
                      /\ (Handles(l, p)' <=> Handles(l, p))
    BY DEF Holds, Handles
<1>2. \A l \in Lane : ClaimKept(l, p)'
    BY <1>1, ClaimLost
<1>3. Truthful(p)'
    BY TruthVacuous
<1> QED
    BY <1>1, <1>2, <1>3 DEF Sound

\* A claim, in each of its steps.
LEMMA SoundClaim ==
    ASSUME TypeOK, TypeOK', NEW l \in Lane, ClaimStep(l),
           NEW p \in Path \ crossed', Sound(p)
    PROVE  Sound(p)'
<1>1. /\ UNCHANGED <<disk, index>>
      /\ \A k \in Lane \ {l} : task'[k] = task[k]
    BY ClaimFrames DEF files
<1>2. FileMovesOn(p) /\ p \in Path
    BY <1>1 DEF FileMovesOn
<1>3. ASSUME row'[p] = row[p], ~Holds(l, p)' PROVE Sound(p)'
    BY <1>1, <1>2, <1>3, SoundFrame
<1>4. Idle.pc = "idle"
    BY DEF Idle
<1>5. CASE Pick(l)
    BY <1>2, <1>3, <1>5, PickEffect DEF Holds
<1>6. CASE Take(l)
    <2> DEFINE S == InBatch(l, "picked")
    <2>1. CASE S \cap Pending = {}
        <3>1. row'[p] = row[p] /\ task'[l][p] = Idle
            BY <1>2, <1>6, <2>1, TakeEffect, EmptyEffect
        <3> QED
            BY <1>3, <1>4, <3>1 DEF Holds
    <2>2. CASE S \cap Pending # {} /\ p \notin S
        <3>1. row'[p] = row[p] /\ task'[l][p] = Idle
            BY <1>2, <1>6, <2>2, TakeEffect
        <3> QED
            BY <1>3, <1>4, <3>1 DEF Holds
    <2>3. CASE S \cap Pending # {} /\ p \in S
        <3>1. /\ task'[l][p].pc = "taken"
              /\ row'[p] = row[p] \/ row'[p] = Claimed(row[p])
              /\ \A k \in Lane \ {l} : ~Holds(k, p)
            BY <1>2, <1>6, <2>3, TakeEffect
        <3>2. \A k \in Lane : Holds(k, p)' => k = l
            BY <1>1, <3>1 DEF Holds
        <3>3. \A k \in Lane : ~Handles(k, p)'
            BY <3>1, <3>2 DEF Handles
        <3>4. \A k \in Lane : ClaimKept(k, p)'
            BY <1>2, <3>3, ClaimLost
        <3>5. Claimed(row[p]).status = "processing"
            BY <1>2 DEF Claimed, TypeOK, Row
        <3>6. Truthful(p)'
            BY <1>1, <1>2, <3>1, <3>5, TruthFrame, TruthVacuous DEF Sound
        <3> QED
            BY <3>2, <3>4, <3>6 DEF Sound
    <2> QED
        BY <2>1, <2>2, <2>3
<1>7. CASE Claim(l)
    <2>1. row' = row
        BY <1>7, ClaimEffect
    <2>2. CASE p \notin Again(l)
        <3>1. task'[l][p] = Idle
            BY <1>2, <1>7, <2>2, ClaimEffect
        <3> QED
            BY <1>3, <1>4, <2>1, <3>1 DEF Holds
    <2>3. CASE p \in Again(l)
        <3>1. /\ task[l][p].pc = "taken"
              /\ row[p].status = "processing"
              /\ task'[l][p].pc = "claimed"
              /\ task'[l][p].change = row[p].change
            BY <1>7, <2>3, ClaimEffect
        <3>2. \A k \in Lane : Holds(k, p)' => k = l
            BY <1>1, <3>1 DEF Holds, Sound
        <3>3. ClaimKept(l, p)'
            BY <2>1, <3>1 DEF ClaimKept, HoldsClaim
        <3>4. \A k \in Lane : ClaimKept(k, p)'
            BY <1>2, <3>2, <3>3, ClaimLost DEF Handles
        <3>5. Truthful(p)'
            BY <1>2, <2>1, <3>1, TruthVacuous
        <3> QED
            BY <3>2, <3>4, <3>5 DEF Sound
    <2> QED
        BY <2>2, <2>3
<1>8. CASE ClaimNothing(l) \/ ClaimFails(l)
    <2>1. row' = row /\ task'[l][p] = Idle
        BY <1>2, <1>8, EmptyEffect DEF ClaimNothing, ClaimFails
    <2> QED
        BY <1>3, <1>4, <2>1 DEF Holds
<1> QED
    BY <1>5, <1>6, <1>7, <1>8 DEF ClaimStep

\* A step of a handler, or its verdict.
LEMMA SoundTask ==
    ASSUME TypeOK, TypeOK', MtimesKnown, NEW l \in Lane, NEW r \in Path,
           TaskStep(l, r), NEW p \in Path, Sound(p)
    PROVE  Sound(p)'
<1>1. CASE RunsOn(l, r)
    <2>1. UNCHANGED <<disk, row>>
        BY <1>1, StaysBusy DEF files
    <2>2. CASE r # p
        BY <1>1, <2>1, <2>2, StaysBusy, SoundFrame DEF FileMovesOn
    <2>3. CASE r = p
        <3>1. /\ Handles(l, p)
              /\ \A k \in Lane : /\ Holds(k, p)' <=> Holds(k, p)
                                 /\ Handles(k, p)' <=> Handles(k, p)
            BY <1>1, <2>3, StaysBusy
        <3>2. \A k \in Lane : Holds(k, p) => k = l
            BY <3>1 DEF Sound, Handles
        <3>3. ClaimKept(l, p)'
            BY <1>1, <2>3, ClaimRunsOn DEF Sound
        <3>4. \A k \in Lane : ClaimKept(k, p)'
            BY <3>1, <3>2, <3>3, ClaimLost DEF Handles
        <3>5. row'[p].status # "done"
            BY <2>1, <3>1 DEF Sound, ClaimKept
        <3>6. Truthful(p)'
            BY <3>5, TruthVacuous
        <3> QED
            BY <3>1, <3>4, <3>6 DEF Sound
    <2> QED
        BY <2>2, <2>3
<1>2. CASE Mark(l, r)
    <2>1. /\ UNCHANGED <<disk, index>>
          /\ \A q \in Path \ {r} : row'[q] = row[q]
          /\ \A k \in Lane, q \in Path :
                k # l \/ q # r => task'[k][q] = task[k][q]
          /\ task'[l][r] = Idle
        BY <1>2 DEF Mark, Return, files, TypeOK
    <2>2. CASE r # p
        BY <2>1, <2>2, SoundFrame DEF FileMovesOn
    <2>3. CASE r = p
        <3>1. Holds(l, p)
            BY <1>2, <2>3 DEF Mark, Holds
        <3>2. \A k \in Lane : ~Holds(k, p)'
            BY <2>1, <2>3, <3>1 DEF Sound, Holds, Idle
        <3>3. \A k \in Lane : ClaimKept(k, p)'
            BY <3>2, ClaimLost DEF Handles
        <3>4. Truthful(p)'
            BY <1>2, <2>3, MarkIsTruthful DEF Sound
        <3> QED
            BY <3>2, <3>3, <3>4 DEF Sound
    <2> QED
        BY <2>2, <2>3
<1>3. CASE MarkFails(l, r)
    <2>1. /\ UNCHANGED <<disk, row, index>>
          /\ \A k \in Lane : task'[k][p] \in {task[k][p], Idle}
        BY <1>3 DEF MarkFails, files, TypeOK
    <2>2. \A k \in Lane : task'[k][p] = task[k][p] \/ ~Holds(k, p)'
        BY <2>1 DEF Holds, Idle
    <2> QED
        BY <2>1, <2>2, SoundFrame DEF FileMovesOn
<1> QED
    BY <1>1, <1>2, <1>3 DEF TaskStep, RunsOn

\* Batches meet on a path when one of them takes it.
LEMMA OnlyTakeCrosses ==
    ASSUME [Next]_vars, \A l \in Lane : ~Take(l)
    PROVE  UNCHANGED crossed
<1>1. CASE User \/ Watch \/ UNCHANGED vars
    BY <1>1 DEF User, Write, Unlink, Watch, WatcherCallback, WatcherUpsert,
                history, vars
<1>2. CASE (\E q \in Process : ScanStep(q)) \/ ScanFails
    BY <1>2 DEF ScanStep, Walk, Decide, ScanUpsert, ScanFails, Raise, history
<1>3. ASSUME NEW l \in Lane, ClaimStep(l) PROVE UNCHANGED crossed
    BY <1>3 DEF ClaimStep, Pick, Claim, ClaimNothing, ClaimFails, Raise, history
<1>4. ASSUME NEW l \in Lane, NEW p \in Path, TaskStep(l, p)
      PROVE  UNCHANGED crossed
    BY <1>4
    DEF TaskStep, Enter, HandleDeleted, ReadMd, FoldDelete, Reindex,
        PruneEntries, ExternalError, Unrecoverable, Mark, MarkFails, Go, Raise,
        history
<1>5. CASE ServerStart \/ \E q \in Process : Die(q)
    BY <1>5 DEF ServerStart, Die, history
<1>6. CASE \E q \in Cli : CliStep(q)
    BY <1>6
    DEF CliStep, CliSync, CliSyncPath, CliFix, CliRebuild, DropTables, CliExit,
        history
<1> QED
    BY <1>1, <1>2, <1>3, <1>4, <1>5, <1>6 DEF Next

\* Every step keeps what holds of the paths that are not crossed.
LEMMA ClaimsStep ==
    ASSUME CInv, Quiet, TypeOK', [Next]_vars
    PROVE  Claims'
<1> USE DEF CInv, TypeOK
<1>0. Server \in Process /\ \A l \in Lane : Owner[l] \in Process
    BY CascadeAssumption DEF Process
<1>1. crossed \subseteq crossed'
    <2>1. ASSUME NEW l \in Lane, Take(l) PROVE crossed \subseteq crossed'
        BY <2>1 DEF Take
    <2> QED
        BY <2>1, OnlyTakeCrosses
<1> SUFFICES ASSUME NEW p \in Path \ crossed' PROVE Sound(p)'
    BY DEF Claims
<1>2. p \in Path /\ Sound(p)
    BY <1>1 DEF Claims
<1>3. ASSUME UNCHANGED <<disk, index, task>>,
             row'[p] = row[p] \/ row'[p].status = "pending"
      PROVE  Sound(p)'
    <2>1. CASE row'[p] = row[p]
        BY <1>2, <1>3, <2>1, SoundFrame DEF FileMovesOn
    <2>2. CASE row'[p].status = "pending"
        BY <1>2, <1>3, <2>2, SoundAgain
    <2> QED
        BY <1>3, <2>1, <2>2
<1>4. CASE User \/ UNCHANGED vars
    <2>1. UNCHANGED <<row, index, task>>
        BY <1>4 DEF User, Write, Unlink, vars
    <2>2. FileMovesOn(p)
        <3>1. ASSUME NEW r \in Path, Write(r) PROVE FileMovesOn(p)
            <4>1. row[p].mtime < last[p] + 1
                BY <1>2, QueueAssumption DEF MtimesKnown, Row, Mtime
            <4> QED
                BY <1>2, <3>1, <4>1 DEF Write, FileMovesOn
        <3>2. ASSUME NEW r \in Path, Unlink(r) PROVE FileMovesOn(p)
            BY <3>2 DEF Unlink, FileMovesOn
        <3> QED
            BY <1>4, <3>1, <3>2 DEF User, FileMovesOn, vars
    <2> QED
        BY <1>2, <2>1, <2>2, SoundFrame
<1>5. CASE Watch
    <2>1. UNCHANGED <<disk, index, task>>
        BY <1>5 DEF Watch, WatcherCallback, WatcherUpsert, files, worker
    <2>2. row'[p] = row[p] \/ row'[p].status = "pending"
        <3>1. ASSUME NEW r \in Path, NEW c \in Change, WatcherCallback(r, c)
              PROVE  UNCHANGED row
            BY <3>1 DEF WatcherCallback
        <3>2. ASSUME NEW e \in inbox, WatcherUpsert(e)
              PROVE  row'[p] = row[p] \/ row'[p].status = "pending"
            BY <1>2, <3>2 DEF WatcherUpsert, Upserted
        <3> QED
            BY <1>5, <3>1, <3>2 DEF Watch
    <2> QED
        BY <1>3, <2>1, <2>2
<1>6. ASSUME NEW q \in Process, ScanStep(q) PROVE Sound(p)'
    <2>1. UNCHANGED <<disk, index, task>>
        BY <1>6 DEF ScanStep, Walk, Decide, ScanUpsert, files, worker
    <2>2. row'[p] = row[p] \/ row'[p].status = "pending"
        <3>1. CASE Walk(q) \/ Decide(q)
            BY <3>1 DEF Walk, Decide
        <3>2. ASSUME NEW d \in scan[q].todo, ScanUpsert(q, d)
              PROVE  row'[p] = row[p] \/ row'[p].status = "pending"
            BY <1>2, <3>2 DEF ScanUpsert, Upserted
        <3> QED
            BY <1>6, <3>1, <3>2 DEF ScanStep
    <2> QED
        BY <1>3, <2>1, <2>2
<1>7. CASE ScanFails
    BY <1>3, <1>7 DEF ScanFails, files, worker
<1>8. CASE ServerStart
    <2>1. row'[p] = row[p] \/ row'[p].status = "pending"
        BY <1>2, <1>8 DEF ServerStart, Recovered, Row
    <2> QED
        BY <1>3, <1>8, <2>1 DEF ServerStart, files, worker
<1>9. ASSUME NEW q \in Process, Die(q) PROVE Sound(p)'
    <2>1. UNCHANGED <<disk, row, index>>
        BY <1>9 DEF Die, files
    <2>2. \A l \in Lane : task'[l][p] = task[l][p] \/ ~Holds(l, p)'
        BY <1>2, <1>9 DEF Die, Holds, Idle
    <2> QED
        BY <1>2, <2>1, <2>2, SoundFrame DEF FileMovesOn
<1>10. ASSUME NEW q \in Cli, CliStep(q) PROVE Sound(p)'
    <2>0. q \in Process
        BY DEF Process
    <2>1. ASSUME NEW r \in Path, CliSyncPath(q, r) PROVE Sound(p)'
        <3>1. row'[p] = row[p] \/ row'[p].status = "pending"
            BY <1>2, <2>1 DEF CliSyncPath, ForceEnqueued, Upserted
        <3> QED
            BY <1>3, <2>1, <3>1 DEF CliSyncPath, files, worker
    <2>2. CASE CliSync(q) \/ CliExit(q)
        BY <1>3, <2>2 DEF CliSync, CliExit, files, worker
    <2>3. CASE CliFix(q)
        <3>1. row'[p] = row[p] \/ row'[p].status = "pending"
            BY <1>2, <2>3 DEF CliFix, ResetRetryable, Row
        <3> QED
            BY <1>3, <2>3, <3>1 DEF CliFix, files, worker
    <2>4. CASE CliRebuild(q)
        <3>1. OneWorker /\ Exclusive /\ MayStart(q)
            BY <2>4 DEF Quiet, CliRebuild
        <3>2. \A l \in Lane : ~Busy(l, p)
            BY <1>2, <2>0, <3>1, StartsAlone
        <3>3. \A l \in Lane : ~Handles(l, p)
            BY <3>2 DEF Busy, Holds, Handles
        <3>4. row'[p].status # "done" /\ UNCHANGED task
            BY <1>2, <2>4 DEF CliRebuild, NoRow, worker
        <3> QED
            BY <1>2, <3>3, <3>4, SoundAgain
    <2>5. CASE DropTables(q)
        <3>1. mode[q] = "reset" /\ UNCHANGED <<row, task>>
            BY <2>5 DEF DropTables, worker
        <3>2. row[p].status = "none"
            BY <1>2, <2>0, <3>1 DEF Quiet, ResetIsEmpty
        <3>3. \A l \in Lane : ~Handles(l, p)
            BY <1>2, <3>2 DEF Sound, ClaimKept
        <3> QED
            BY <1>2, <3>1, <3>2, <3>3, SoundAgain
    <2> QED
        BY <1>10, <2>1, <2>2, <2>3, <2>4, <2>5 DEF CliStep
<1> QED
    BY <1>2, <1>4, <1>5, <1>6, <1>7, <1>8, <1>9, <1>10, SoundClaim, SoundTask
    DEF Next

-----------------------------------------------------------------------------
\* The tasks of a batch stay in one phase.
LEMMA PhaseStep ==
    ASSUME TypeOK, OnePhase, [Next]_vars
    PROVE  OnePhase'
<1> USE DEF TypeOK
<1>1. ASSUME \A k \in Lane, r \in Path : task'[k][r] \in {task[k][r], Idle}
      PROVE  OnePhase'
    <2>1. \A k \in Lane, r \in Path :
            task'[k][r].pc \in {task[k][r].pc, "idle"}
        BY <1>1 DEF Idle
    <2> QED
        BY <2>1 DEF OnePhase
<1>2. ASSUME NEW l \in Lane, \A k \in Lane \ {l} : task'[k] = task[k],
             \/ \A r \in Path : task'[l][r].pc \in {"idle", "picked"}
             \/ \A r \in Path : task'[l][r].pc \in {"idle", "taken"}
             \/ \A r \in Path : task'[l][r].pc \notin {"picked", "taken"}
      PROVE  OnePhase'
    BY <1>2 DEF OnePhase
<1>3. ASSUME NEW l \in Lane, ClaimStep(l) PROVE OnePhase'
    <2>1. \A k \in Lane \ {l} : task'[k] = task[k]
        BY <1>3, ClaimFrames
    <2>2. ASSUME EmptyBatch(l) PROVE OnePhase'
        BY <1>2, <2>1, <2>2, EmptyEffect DEF Idle
    <2>3. CASE Pick(l)
        BY <1>2, <2>1, <2>3, PickEffect
    <2>4. CASE Take(l)
        <3> DEFINE S == InBatch(l, "picked")
        <3>1. CASE S \cap Pending = {}
            BY <2>2, <2>4, <3>1, TakeEffect
        <3>2. CASE S \cap Pending # {}
            <4>1. /\ \A r \in S : task'[l][r].pc = "taken"
                  /\ \A r \in Path \ S : task'[l][r] = Idle
                BY <2>4, <3>2, TakeEffect
            <4>2. \A r \in Path : task'[l][r].pc \in {"idle", "taken"}
                BY <4>1 DEF Idle
            <4> QED
                BY <1>2, <2>1, <4>2
        <3> QED
            BY <3>1, <3>2
    <2>5. CASE Claim(l)
        <3>1. \A r \in Path : task'[l][r].pc \in {"claimed", "idle"}
            BY <2>5, ClaimEffect DEF Idle
        <3> QED
            BY <1>2, <2>1, <3>1
    <2>6. CASE ClaimNothing(l) \/ ClaimFails(l)
        BY <2>2, <2>6 DEF ClaimNothing, ClaimFails
    <2> QED
        BY <1>3, <2>3, <2>4, <2>5, <2>6 DEF ClaimStep
<1>4. ASSUME NEW l \in Lane, NEW p \in Path, RunsOn(l, p) PROVE OnePhase'
    <2>1. /\ Handles(l, p) /\ Handles(l, p)'
          /\ \A k \in Lane, r \in Path :
                k # l \/ r # p => task'[k][r] = task[k][r]
        BY <1>4, StaysBusy
    <2>2. \A r \in Path : task[l][r].pc \notin {"picked", "taken"}
        BY <2>1 DEF OnePhase, Holds, Handles
    <2>3. \A r \in Path : task'[l][r].pc \notin {"picked", "taken"}
        BY <2>1, <2>2 DEF Holds, Handles
    <2>4. \A k \in Lane \ {l} : task'[k] = task[k]
        BY <1>4
        DEF RunsOn, Enter, HandleDeleted, ReadMd, FoldDelete, Reindex,
            PruneEntries, ExternalError, Unrecoverable, Go
    <2> QED
        BY <1>2, <2>3, <2>4
<1>5. ASSUME NEW l \in Lane, NEW p \in Path, Mark(l, p) \/ MarkFails(l, p)
      PROVE  OnePhase'
    BY <1>1, <1>5 DEF Mark, MarkFails, Return
<1>6. ASSUME NEW q \in Process, Die(q) PROVE OnePhase'
    BY <1>1, <1>6 DEF Die
<1>7. ASSUME UNCHANGED task PROVE OnePhase'
    BY <1>1, <1>7
<1>8. CASE \/ User \/ Watch \/ (\E q \in Process : ScanStep(q)) \/ ScanFails
           \/ ServerStart \/ (\E q \in Cli : CliStep(q)) \/ UNCHANGED vars
    BY <1>7, <1>8
    DEF User, Write, Unlink, Watch, WatcherCallback, WatcherUpsert, ScanStep,
        Walk, Decide, ScanUpsert, ScanFails, ServerStart, CliStep, CliSync,
        CliSyncPath, CliFix, CliRebuild, DropTables, CliExit, worker, vars
<1> QED
    BY <1>3, <1>4, <1>5, <1>6, <1>8 DEF Next, TaskStep, RunsOn

\* With one batch in flight no two of them meet on a path.
LEMMA CrossedStep ==
    ASSUME TypeOK, OneWorker, crossed = {}, [Next]_vars
    PROVE  crossed' = {}
<1>1. ASSUME NEW l \in Lane, Take(l) PROVE crossed' = {}
    <2>1. ASSUME NEW k \in Lane \ {l}, NEW p \in InBatch(l, "picked"),
                 Holds(k, p)
          PROVE  FALSE
        <3>1. p \in Path /\ Busy(k, p) /\ Busy(l, p)
            BY <2>1 DEF InBatch, Holds, Busy
        <3> QED
            BY <3>1, OneBatch
    <2>2. \/ UNCHANGED crossed
          \/ crossed' = crossed \cup
               {p \in InBatch(l, "picked") : \E k \in Lane \ {l} : Holds(k, p)}
        BY <1>1 DEF Take
    <2> QED
        BY <2>1, <2>2
<1> QED
    BY <1>1, OnlyTakeCrosses

\* The invariants start true.
LEMMA IInvInit == Init => IInv
<1> SUFFICES ASSUME Init PROVE IInv
    OBVIOUS
<1>1. TypeOK
    BY TypeInit
<1>2. MtimesKnown
    BY DEF Init, MtimesKnown, NoRow, NoSweep, Idle, Absent
<1>3. OneWorker
    BY DEF Init, OneWorker, OneProcess, LiveSweeps, LiveBatches, NoSweep,
           Idle, Busy
<1>4. ResetIsEmpty
    BY DEF Init, ResetIsEmpty
<1>5. Claims
    BY DEF Init, Claims, Sound, ClaimKept, Holds, Handles, Idle, Truthful,
           NoRow
<1>6. OnePhase /\ crossed = {}
    BY DEF Init, OnePhase, Idle
<1> QED
    BY <1>1, <1>2, <1>3, <1>4, <1>5, <1>6 DEF IInv, CInv

\* Each is kept by every step.
LEMMA CInvStep ==
    ASSUME CInv, Quiet, [Next]_vars
    PROVE  CInv'
<1>1. TypeOK'
    BY TypeStep DEF CInv
<1>2. MtimesKnown'
    BY MtimesStep DEF CInv
<1>3. Claims'
    BY <1>1, ClaimsStep
<1> QED
    BY <1>1, <1>2, <1>3 DEF CInv

LEMMA IInvStep ==
    ASSUME Exclusive, StoreFaults = 0
    PROVE  IInv /\ [Next]_vars => IInv'
<1> SUFFICES ASSUME IInv, [Next]_vars PROVE IInv'
    OBVIOUS
<1> USE DEF IInv, CInv
<1>1. CInv'
    BY CInvStep DEF Quiet
<1>2. OneWorker'
    BY OneWorkerStep
<1>3. ResetIsEmpty'
    BY ResetStep
<1>4. OnePhase' /\ crossed' = {}
    BY PhaseStep, CrossedStep
<1> HIDE DEF CInv
<1> QED
    BY <1>1, <1>2, <1>3, <1>4

\* Whatever runs beside the daemon, and whichever statement raises, a done row
\* tells the truth about the index unless two batches have held its path at
\* the same time: overlapping claims, sweeps of two processes, verdicts that
\* come late and restarts do no other damage.  (A rebuild is left out: it
\* takes the rows away under a handler of another process.)
THEOREM OnlyCrossingsLie ==
    ASSUME "rebuild" \notin Commands
    PROVE  Spec => []TrueUnlessCrossed
<1> DEFINE NoReset == \A q \in Process : mode[q] # "reset"
<1>1. Init => CInv /\ NoReset
    BY IInvInit DEF IInv, Init
<1>2. CInv /\ NoReset /\ [Next]_vars => (CInv /\ NoReset)'
    <2> SUFFICES ASSUME CInv, NoReset, [Next]_vars PROVE (CInv /\ NoReset)'
        OBVIOUS
    <2>1. CInv'
        BY CInvStep DEF Quiet
    <2>2. NoReset'
        BY NoResetStep DEF CInv
    <2> QED
        BY <2>1, <2>2
<1>3. CInv => TrueUnlessCrossed
    BY DEF CInv, Claims, Sound, TrueUnlessCrossed
<1> HIDE DEF NoReset
<1> QED
    BY <1>1, <1>2, <1>3, PTL DEF Spec

\* If one process runs at a time and no queue statement raises, a done row
\* always tells the truth about the index: whatever the watcher, the sweeps,
\* the edits, the crashes and the rebuilds do in between, and however many
\* files, lanes and versions there are.
THEOREM DoneRowsAreTrue ==
    ASSUME Exclusive, StoreFaults = 0
    PROVE  Spec => []DoneMeansIndexed
<1>1. IInv => DoneMeansIndexed
    BY DEF IInv, CInv, Claims, Sound, DoneMeansIndexed
<1> QED
    BY IInvInit, IInvStep, <1>1, PTL DEF Spec

\* Under the same conditions no two handlers ever run on one path.
THEOREM HandlersExclude ==
    ASSUME Exclusive, StoreFaults = 0
    PROVE  Spec => []OneHandlerPerPath
<1>1. IInv => OneHandlerPerPath
    BY DEF IInv, CInv, Claims, Sound, Handles, OneHandlerPerPath
<1> QED
    BY IInvInit, IInvStep, <1>1, PTL DEF Spec

-----------------------------------------------------------------------------
(* No claim is orphaned.                                                   *)

LEMMA NoOrphanStep ==
    ASSUME IInv, NoOrphanClaim, Exclusive, StoreFaults = 0, [Next]_vars
    PROVE  NoOrphanClaim'
<1> USE DEF IInv, CInv, TypeOK
<1>0. Server \in Process
    BY DEF Process
<1> DEFINE Held(p) == \E l \in Lane : Holds(l, p)
<1>1. ASSUME mode'[Server] = "up" => mode[Server] = "up",
             \A p \in Path : row'[p].status = "processing" =>
                row[p].status = "processing" /\ (Held(p) => Held(p)')
      PROVE  NoOrphanClaim'
    BY <1>1 DEF NoOrphanClaim
<1>2. ASSUME mode'[Server] = "up" => mode[Server] = "up",
             UNCHANGED task,
             \A p \in Path : row'[p] = row[p] \/ row'[p].status = "pending"
      PROVE  NoOrphanClaim'
    BY <1>1, <1>2 DEF Holds
<1>3. CASE User \/ UNCHANGED vars
    BY <1>2, <1>3 DEF User, Write, Unlink, vars
<1>4. CASE Watch
    <2>1. ASSUME NEW p \in Path, NEW c \in Change, WatcherCallback(p, c)
          PROVE  NoOrphanClaim'
        BY <1>2, <2>1 DEF WatcherCallback, worker
    <2>2. ASSUME NEW e \in inbox, WatcherUpsert(e) PROVE NoOrphanClaim'
        <3>1. \A p \in Path : row'[p] = row[p] \/ row'[p].status = "pending"
            BY <2>2 DEF WatcherUpsert, Upserted
        <3> QED
            BY <1>2, <2>2, <3>1 DEF WatcherUpsert, worker
    <2> QED
        BY <1>4, <2>1, <2>2 DEF Watch
<1>5. ASSUME NEW q \in Process, ScanStep(q) PROVE NoOrphanClaim'
    <2>1. mode'[Server] = "up" => mode[Server] = "up"
        BY <1>0, <1>5 DEF ScanStep, Walk, Decide, ScanUpsert, AfterSweep
    <2>2. CASE Walk(q) \/ Decide(q)
        BY <1>2, <2>1, <2>2 DEF Walk, Decide, worker
    <2>3. ASSUME NEW d \in scan[q].todo, ScanUpsert(q, d)
          PROVE  NoOrphanClaim'
        <3>1. \A p \in Path : row'[p] = row[p] \/ row'[p].status = "pending"
            BY <2>3 DEF ScanUpsert, Upserted
        <3> QED
            BY <1>2, <2>1, <2>3, <3>1 DEF ScanUpsert, worker
    <2> QED
        BY <1>5, <2>2, <2>3 DEF ScanStep
<1>6. CASE ScanFails
    BY <1>6, NothingRaises DEF ScanFails
<1>7. ASSUME NEW l \in Lane, ClaimStep(l) PROVE NoOrphanClaim'
    <2>1. /\ \A k \in Lane \ {l} : task'[k] = task[k]
          /\ \A p \in Path : row'[p] \in {row[p], Claimed(row[p])}
        BY <1>7, ClaimFrames
    <2>2. \A k \in Lane \ {l}, p \in Path : Holds(k, p)' <=> Holds(k, p)
        BY <2>1 DEF Holds
    <2>3. mode'[Server] = "up" => mode[Server] = "up"
        BY <1>0, <1>7
        DEF ClaimStep, Pick, Take, Claim, ClaimNothing, ClaimFails, EmptyBatch
    <2>4. ASSUME NEW p \in Path, row'[p].status = "processing"
          PROVE  \/ Holds(l, p)'
                 \/ row[p].status = "processing" /\ ~Holds(l, p)
        <3>1. CASE Pick(l)
            BY <2>4, <3>1, PickEffect DEF Busy, Holds
        <3>2. CASE Take(l)
            <4> DEFINE S == InBatch(l, "picked")
            <4>1. PICK r \in Path : task[l][r].pc = "picked"
                BY <3>2 DEF Take, InBatch
            <4>2. ~Holds(l, p)
                BY <4>1 DEF OnePhase, Holds
            <4>3. CASE p \in S \cap Pending
                <5>1. task'[l][p].pc = "taken"
                    BY <3>2, <4>3, TakeEffect
                <5> QED
                    BY <5>1 DEF Holds
            <4>4. CASE p \notin S \cap Pending
                <5>1. row'[p] = row[p]
                    BY <3>2, <4>4, TakeEffect
                <5> QED
                    BY <2>4, <4>2, <5>1
            <4> QED
                BY <4>3, <4>4
        <3>3. CASE Claim(l) \/ ClaimNothing(l)
            <4>1. row' = row
                BY <3>3 DEF Claim, ClaimNothing
            <4>2. PICK r \in Path : task[l][r].pc = "taken"
                BY <3>3 DEF Claim, ClaimNothing, Again, InBatch
            <4>3. Holds(l, p) => p \in Again(l)
                BY <2>4, <4>1, <4>2 DEF OnePhase, Holds, Again, InBatch
            <4>4. CASE Claim(l)
                BY <2>4, <4>1, <4>3, <4>4, ClaimEffect DEF Holds
            <4>5. CASE ClaimNothing(l)
                BY <2>4, <4>1, <4>3, <4>5 DEF ClaimNothing
            <4> QED
                BY <3>3, <4>4, <4>5
        <3>4. CASE ClaimFails(l)
            BY <3>4, NothingRaises DEF ClaimFails
        <3> QED
            BY <1>7, <3>1, <3>2, <3>3, <3>4 DEF ClaimStep
    <2> HIDE DEF Held, IInv
    <2>5. ASSUME mode'[Server] = "up", NEW p \in Path,
                 row'[p].status = "processing"
          PROVE  \E k \in Lane : Holds(k, p)'
        <3>1. CASE Holds(l, p)'
            BY <3>1
        <3>2. CASE ~Holds(l, p)'
            <4>1. row[p].status = "processing" /\ ~Holds(l, p)
                BY <2>4, <2>5, <3>2
            <4>2. PICK k \in Lane : Holds(k, p)
                BY <2>3, <2>5, <4>1 DEF NoOrphanClaim
            <4> QED
                BY <2>2, <4>1, <4>2
        <3> QED
            BY <3>1, <3>2
    <2> QED
        BY <2>5 DEF NoOrphanClaim
<1>8. ASSUME NEW l \in Lane, NEW p \in Path, TaskStep(l, p)
      PROVE  NoOrphanClaim'
    <2>1. CASE RunsOn(l, p)
        BY <1>1, <2>1, StaysBusy
    <2>2. CASE Mark(l, p)
        <3>1. /\ UNCHANGED mode
              /\ \A r \in Path \ {p} : row'[r] = row[r]
              /\ \A k \in Lane, r \in Path \ {p} : task'[k][r] = task[k][r]
            BY <2>2 DEF Mark, Return
        <3>2. row'[p].status # "processing"
            <4> DEFINE t == task[l][p]
            <4>1. /\ MarkedDone(row[p]).status # "processing"
                  /\ MarkedFailed(row[p], t.verdict, t.retries).status
                        # "processing"
                BY DEF MarkedDone, MarkedFailed, Row
            <4> HIDE DEF t
            <4> QED
                BY <2>2, <4>1 DEF Mark, t
        <3>3. \A r \in Path \ {p} : Held(r) => Held(r)'
            BY <3>1 DEF Holds
        <3> QED
            BY <1>1, <3>1, <3>2, <3>3
    <2>3. CASE MarkFails(l, p)
        BY <2>3, NothingRaises DEF MarkFails
    <2> QED
        BY <1>8, <2>1, <2>2, <2>3 DEF TaskStep, RunsOn
<1>9. CASE ServerStart
    <2>1. \A p \in Path : row'[p].status # "processing"
        BY <1>9 DEF ServerStart, Recovered, Row
    <2> QED
        BY <2>1 DEF NoOrphanClaim
<1>10. ASSUME NEW q \in Process, Die(q) PROVE NoOrphanClaim'
    <2>1. CASE q = Server
        BY <1>10, <2>1 DEF Die, Become, NoOrphanClaim
    <2>2. CASE q # Server
        <3>1. mode[Server] # "up"
            BY <1>0, <1>10, <2>2 DEF Die, OneWorker, OneProcess
        <3> QED
            BY <1>10, <2>2, <3>1 DEF Die, Become, NoOrphanClaim
    <2> QED
        BY <2>1, <2>2
<1>11. ASSUME NEW q \in Cli, CliStep(q) PROVE NoOrphanClaim'
    <2>0. q \in Process /\ q # Server
        BY CascadeAssumption DEF Process
    <2>1. mode[Server] # "up"
        <3>1. ASSUME MayStart(q) PROVE mode[Server] # "up"
            BY <1>0, <2>0, <3>1, StartsAlone
        <3>2. ASSUME mode[q] # "down" PROVE mode[Server] # "up"
            BY <1>0, <2>0, <3>2 DEF OneWorker, OneProcess
        <3> QED
            BY <1>11, <3>1, <3>2
            DEF CliStep, CliSync, CliSyncPath, CliFix, CliRebuild, DropTables,
                CliExit
    <2>2. mode'[Server] = mode[Server]
        BY <1>0, <2>0, <1>11
        DEF CliStep, CliSync, CliSyncPath, CliFix, CliRebuild, DropTables,
            CliExit, Become
    <2> QED
        BY <2>1, <2>2 DEF NoOrphanClaim
<1> QED
    BY <1>3, <1>4, <1>5, <1>6, <1>7, <1>8, <1>9, <1>10, <1>11 DEF Next

\* While the daemon is up, every row in processing belongs to a live task:
\* the boot recovery and the one-process rule leave no claim behind.
THEOREM ClaimsHaveTasks ==
    ASSUME Exclusive, StoreFaults = 0
    PROVE  Spec => []NoOrphanClaim
<1>1. Init => NoOrphanClaim
    BY DEF Init, NoOrphanClaim, NoRow
<1>2. IInv /\ NoOrphanClaim /\ [Next]_vars => NoOrphanClaim'
    BY NoOrphanStep
<1> QED
    BY IInvInit, IInvStep, <1>1, <1>2, PTL DEF Spec

-----------------------------------------------------------------------------
(* The index is a projection of the files.                                 *)

\* What a step may do to the rows if nothing is to be vouched for anew: a row
\* that is done stays as it is or is done no more.
Withdrawn == \A p \in Path : Vouched(p)' \in {Vouched(p), {}}

\* A step that withdraws, and leaves files and index alone, is a Doubt.
LEMMA DoubtStep ==
    ASSUME UNCHANGED <<disk, last, index>>, Withdrawn
    PROVE  Contract!Doubt
<1> DEFINE S == {p \in Path : Vouched(p)' = {}}
<1>1. S \in SUBSET Path
    OBVIOUS
<1>2. [p \in Path |-> Vouched(p)]' =
        [p \in Path |-> IF p \in S THEN {}
                        ELSE [q \in Path |-> Vouched(q)][p]]
    <2>1. ASSUME NEW p \in Path
          PROVE  Vouched(p)' = IF p \in S THEN {} ELSE Vouched(p)
        BY DEF Withdrawn
    <2> HIDE DEF S
    <2> QED BY <2>1
<1> HIDE DEF S
<1> QED BY <1>1, <1>2 DEF Contract!Doubt

\* A row that keeps its content, or is not done, is not vouched for anew.
LEMMA RowWithdraws ==
    ASSUME NEW p \in Path,
           \/ row'[p] = row[p]
           \/ row'[p].status # "done"
    PROVE  Vouched(p)' \in {Vouched(p), {}}
BY DEF Vouched

\* Nobody vouches for a path in the hands of a handler.
LEMMA HandledIsOpen ==
    ASSUME IInv, NEW l \in Lane, NEW p \in Path, Handles(l, p)
    PROVE  Vouched(p) = {}
BY DEF IInv, CInv, Claims, Sound, ClaimKept, Vouched

\* A handler shows what it has read, which the file has been.
LEMMA HandlerShows ==
    ASSUME IInv, TypeOK', NEW l \in Lane, NEW p \in Path, RunsOn(l, p)
    PROVE  Contract!Show
<1>1. UNCHANGED <<disk, last, row>> /\ Handles(l, p)
    BY StaysBusy DEF IInv, CInv, files
<1>2. \A r \in Path : Vouched(r)' = Vouched(r)
    BY <1>1 DEF Vouched
<1>3. \A r \in Path : r # p => index'[r] = index[r]
    BY StaysBusy DEF IInv, CInv
<1>4. task[l][p].read \in {Absent} \cup 1 .. last[p]
    <2>1. /\ task[l][p].read \in Nat /\ last[p] \in Nat
          /\ task[l][p].read <= last[p]
        BY QueueAssumption DEF IInv, CInv, TypeOK, Task, Mtime, MtimesKnown
    <2> QED BY <2>1 DEF Absent
<1>5. index'[p] \in {index[p], Absent, Torn, task[l][p].read}
    BY DEF RunsOn, Enter, HandleDeleted, ReadMd, FoldDelete, Reindex,
           PruneEntries, ExternalError, Unrecoverable, IInv, CInv, TypeOK
<1>6. index'[p] # index[p] =>
         index'[p] \in {Contract!Absent, Torn} \cup 1 .. last[p]
    BY <1>4, <1>5 DEF Absent, Contract!Absent
<1>7. Vouched(p) = {}
    BY <1>1, HandledIsOpen
<1>8. index' = [r \in Path |-> index'[r]]
    BY DEF TypeOK
<1> QED BY <1>1, <1>2, <1>3, <1>6, <1>7, <1>8 DEF Contract!Show

\* A verdict vouches for what is so, or for nothing.
LEMMA VerdictVouches ==
    ASSUME IInv, NEW l \in Lane, NEW p \in Path, Mark(l, p)
    PROVE  Contract!Vouch(p) \/ Contract!Doubt
<1>1. UNCHANGED <<disk, last, index>>
    BY DEF Mark, files
<1>0. /\ \A r \in Path \ {p} : row'[r] = row[r]
      /\ row'[p].mtime = row[p].mtime
    <2>1. PICK x : /\ row' = [row EXCEPT ![p] = x]
                   /\ \/ x = MarkedDone(row[p])
                      \/ x = MarkedFailed(row[p], task[l][p].verdict,
                                          task[l][p].retries)
        BY DEF Mark
    <2>2. x.mtime = row[p].mtime
        BY <2>1 DEF MarkedDone, MarkedFailed, IInv, CInv, TypeOK, Row
    <2> QED BY <2>1, <2>2 DEF IInv, CInv, TypeOK
<1>2. \A r \in Path \ {p} : Vouched(r)' = Vouched(r)
    BY <1>0 DEF Vouched
<1>3. Vouched(p) = {}
    BY HandledIsOpen DEF Mark, Holds, Handles
<1>4. CASE Vouched(p)' = {}
    BY <1>1, <1>2, <1>3, <1>4, DoubtStep DEF Withdrawn
<1>5. CASE Vouched(p)' # {}
    <2>1. Truthful(p)'
        BY MarkIsTruthful DEF IInv, CInv, Claims, Sound
    <2>2. row'[p].status = "done"
        BY <1>5 DEF Vouched
    <2>3. row'[p].mtime = row[p].mtime
        BY <1>0
    <2>4. row[p].mtime \in 0 .. last[p] /\ 0 \in 0 .. last[p]
        BY QueueAssumption DEF IInv, CInv, TypeOK, Row, Mtime, MtimesKnown
    <2>5. PICK v \in 0 .. last[p] : Vouched(p)' = {v} /\ Contract!So(p, v)
        <3>1. CASE row'[p].change = "deleted"
            BY <1>1, <2>1, <2>2, <2>4, <3>1
            DEF Vouched, Truthful, Absent, Contract!So
        <3>2. CASE row'[p].change # "deleted"
            <4>1. /\ Vouched(p)' = {row[p].mtime}
                  /\ row[p].mtime # Absent
                BY <1>5, <2>2, <2>3, <3>2 DEF Vouched
            <4>2. \/ index[p] = row[p].mtime
                  \/ row[p].mtime # disk[p]
                BY <1>1, <2>1, <2>2, <2>3, <3>2, <4>1 DEF Truthful
            <4> QED
                BY <2>4, <4>1, <4>2 DEF Absent, Contract!So, Contract!Absent
        <3> QED BY <3>1, <3>2
    <2>6. [r \in Path |-> Vouched(r)]' =
            [[r \in Path |-> Vouched(r)] EXCEPT ![p] = {v}]
        BY <1>2, <2>5
    <2> QED BY <1>1, <1>3, <2>5, <2>6 DEF Contract!Vouch
<1> QED BY <1>4, <1>5

\* Every step is one of the projection, or none.
LEMMA ProjectionStep ==
    ASSUME IInv, TypeOK', Exclusive, StoreFaults = 0, [Next]_vars
    PROVE  \/ Contract!Next
           \/ UNCHANGED <<disk, last, index, [p \in Path |-> Vouched(p)]>>
<1> DEFINE Still == UNCHANGED <<disk, last, index>>
           Rows == \A p \in Path : row'[p] = row[p] \/ row'[p].status # "done"
<1>1. ASSUME Still, Rows PROVE Contract!Doubt
    BY <1>1, RowWithdraws, DoubtStep DEF Withdrawn
<1>2. ASSUME UNCHANGED <<row, index>>
      PROVE  UNCHANGED <<index, [p \in Path |-> Vouched(p)]>>
    BY <1>2 DEF Vouched
<1>3. ASSUME NEW p \in Path, Write(p) PROVE Contract!Write(p)
    BY <1>2, <1>3 DEF Write, Contract!Write
<1>4. ASSUME NEW p \in Path, Unlink(p) PROVE Contract!Remove(p)
    BY <1>2, <1>4 DEF Unlink, Contract!Remove, Absent, Contract!Absent
<1>5. CASE Watch
    <2>1. Still
        BY <1>5 DEF Watch, WatcherCallback, WatcherUpsert, files
    <2>2. Rows
        <3>1. ASSUME NEW p \in Path, NEW c \in Change, WatcherCallback(p, c)
              PROVE  Rows
            BY <3>1 DEF WatcherCallback
        <3>2. ASSUME NEW e \in inbox, WatcherUpsert(e) PROVE Rows
            BY <3>2 DEF WatcherUpsert, Upserted, IInv, CInv, TypeOK
        <3> QED BY <1>5, <3>1, <3>2 DEF Watch
    <2> QED BY <1>1, <2>1, <2>2 DEF Contract!Next
<1>6. ASSUME NEW q \in Process, ScanStep(q) PROVE Contract!Doubt
    <2>1. Still
        BY <1>6 DEF ScanStep, Walk, Decide, ScanUpsert, files
    <2>2. Rows
        <3>1. CASE Walk(q) \/ Decide(q)
            BY <3>1 DEF Walk, Decide
        <3>2. ASSUME NEW d \in scan[q].todo, ScanUpsert(q, d) PROVE Rows
            BY <3>2 DEF ScanUpsert, Upserted, IInv, CInv, TypeOK
        <3> QED BY <1>6, <3>1, <3>2 DEF ScanStep
    <2> QED BY <1>1, <2>1, <2>2
<1>7. ~ScanFails
    BY NothingRaises DEF ScanFails, IInv, CInv
<1>8. ASSUME NEW l \in Lane, ClaimStep(l) PROVE Contract!Doubt
    <2>1. /\ Still
          /\ \A p \in Path : row'[p] \in {row[p], Claimed(row[p])}
        BY <1>8, ClaimFrames DEF files, IInv, CInv
    <2>2. \A p \in Path : Claimed(row[p]).status = "processing"
        BY DEF Claimed, IInv, CInv, TypeOK, Row
    <2>3. Rows
        BY <2>1, <2>2
    <2> QED BY <1>1, <2>1, <2>3
<1>9. ASSUME NEW l \in Lane, NEW p \in Path, TaskStep(l, p)
      PROVE  Contract!Next
    <2>1. CASE RunsOn(l, p)
        BY <2>1, HandlerShows DEF Contract!Next
    <2>2. CASE Mark(l, p)
        BY <2>2, VerdictVouches DEF Contract!Next
    <2>3. ~MarkFails(l, p)
        BY NothingRaises DEF MarkFails, IInv, CInv
    <2> QED BY <1>9, <2>1, <2>2, <2>3 DEF TaskStep, RunsOn
<1>10. CASE ServerStart
    <2>1. Still /\ Rows
        BY <1>10 DEF ServerStart, Recovered, files, IInv, CInv, TypeOK, Row
    <2> QED BY <1>1, <2>1 DEF Contract!Next
<1>11. ASSUME NEW q \in Process, Die(q) PROVE Contract!Doubt
    BY <1>1, <1>11 DEF Die, files
<1>12. ASSUME NEW q \in Cli, CliStep(q) PROVE Contract!Next
    <2>1. CASE CliSync(q) \/ CliExit(q)
        BY <1>1, <2>1 DEF CliSync, CliExit, files, Contract!Next
    <2>2. ASSUME NEW p \in Path, CliSyncPath(q, p) PROVE Contract!Doubt
        <3>1. Still /\ Rows
            BY <2>2
            DEF CliSyncPath, ForceEnqueued, Upserted, files, IInv, CInv, TypeOK
        <3> QED BY <1>1, <3>1
    <2>3. CASE CliFix(q) \/ CliRebuild(q)
        <3>1. Still
            BY <2>3 DEF CliFix, CliRebuild, files
        <3>2. CASE CliFix(q)
            BY <1>1, <3>1, <3>2
            DEF CliFix, ResetRetryable, IInv, CInv, TypeOK, Row, Contract!Next
        <3>3. CASE CliRebuild(q)
            BY <1>1, <3>1, <3>3 DEF CliRebuild, NoRow, Contract!Next
        <3> QED BY <2>3, <3>2, <3>3
    <2>4. CASE DropTables(q)
        <3>1. UNCHANGED <<disk, last, row>>
            BY <2>4 DEF DropTables, files
        <3>2. \A p \in Path : Vouched(p) = {} /\ Vouched(p)' = {}
            BY <2>4, <3>1 DEF DropTables, IInv, ResetIsEmpty, Vouched, Process
        <3>3. index' = [p \in Path |-> Contract!Absent]
            BY <2>4 DEF DropTables, Absent, Contract!Absent
        <3>4. Contract!Show
            BY <3>1, <3>2, <3>3 DEF Contract!Show
        <3> QED BY <3>4 DEF Contract!Next
    <2> QED BY <1>12, <2>1, <2>2, <2>3, <2>4 DEF CliStep, Contract!Next
<1>13. CASE UNCHANGED vars
    BY <1>2, <1>13 DEF vars
<1>14. CASE User
    BY <1>3, <1>4, <1>14 DEF User, Contract!Next
<1>15. CASE \/ Watch \/ (\E q \in Process : ScanStep(q))
            \/ (\E l \in Lane : ClaimStep(l)) \/ (\E q \in Process : Die(q))
    BY <1>1, <1>5, <1>6, <1>8, <1>11, <1>15 DEF Contract!Next
<1> QED BY <1>7, <1>9, <1>10, <1>12, <1>13, <1>14, <1>15 DEF Next

\* It starts empty, with nothing vouched for.
LEMMA ProjectionInit == Init => Contract!Init
BY DEF Init, Contract!Init, NoRow, Vouched, Absent, Contract!Absent

\* The cascade implements the projection: while the operator runs one process
\* at a time and no queue statement raises, no handler, sweep, rebuild, crash
\* or restart touches the index of a path that a done row vouches for, and
\* every row that becomes done tells the truth of the index at that moment.
THEOREM CascadeProjects ==
    ASSUME Exclusive, StoreFaults = 0
    PROVE  Spec => Projects
<1>1. IInv /\ TypeOK' /\ [Next]_vars =>
        [Contract!Next]_<<disk, last, index, [p \in Path |-> Vouched(p)]>>
    BY ProjectionStep
<1>2. IInv => TypeOK
    BY DEF IInv, CInv
<1> QED
    BY <1>1, <1>2, ProjectionInit, IInvInit, IInvStep, PTL
    DEF Spec, Projects, Contract!Spec
=============================================================================
