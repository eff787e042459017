------------------------------ MODULE IndexStore ------------------------------
(***************************************************************************)
(* The LanceDB index on disk and the processes that open it.  A server or a*)
(* cascade command checks the tables, makes the vector columns nullable and*)
(* rebuilds the FTS indexes of an older build, each once and under the lock*)
(* of the memory root, and makes the indexes that are missing; `cascade    *)
(* rebuild` drops the tables and makes them anew.  A process may die, or a *)
(* call of LanceDB raise, between any two steps.                           *)
(*                                                                         *)
(* In the server that is up, the tasks that write one table, Watched, take *)
(* its lock in turn, with a deadline that covers the wait and the work; a  *)
(* call of LanceDB may hang for good.  The handle of a table is cached and *)
(* the rows of the other tables are left out, like the lock-free reads and *)
(* compactions and, between processes, LanceDB's own commit protocol.      *)
(***************************************************************************)
EXTENDS Naturals, Sequences, FiniteSets, SequencesExt

CONSTANTS
    server, Command,   \* the processes
    Table,             \* _BUSINESS_SCHEMAS, all with a vector column
    Column,            \* the text columns
    Fields,            \* table -> BM25_FIELDS
    Watched,           \* the table whose lock is modelled
    Writer,            \* tasks that upsert a row each
    rebuilder, pruner  \* the other tasks that take the lock

ASSUME StoreAssumption ==
    /\ server \notin Command
    /\ Fields \in [Table -> SUBSET Column]
    /\ Watched \in Table
    /\ rebuilder \notin Writer /\ pruner \notin Writer /\ rebuilder # pruner

VARIABLES
    at,      \* process -> [pc, todo: tables left, cols: columns left, failed]
    root,    \* who holds memory_root_lock: a set of at most one process
    mark,    \* the version markers: [schema, fts], TRUE when current
    table,   \* table -> [here, nullable, drifted]
    idx,     \* column -> its FTS index: "none", "old" (with positions), "new"
    line,    \* the lock of Watched: its holder and those who wait, in order
    task,    \* task -> "idle", "queued", "lookup", "body"
    hung,    \* the tasks whose call of LanceDB never returns
    snap,    \* writer -> the rows its merge_insert read
    rows,    \* the rows of Watched
    acked    \* the writers whose last upsert returned

disk  == <<mark, table, idx>>
locks == <<line, task, hung, snap, rows, acked>>
vars  == <<at, root, disk, locks>>

-----------------------------------------------------------------------------
Process == {server} \cup Command
Task    == Writer \cup {rebuilder, pruner}

Pc == {"down", "verify", "wait_schema", "schema", "wait_fts", "fts", "drop",
       "make", "ensure", "drop_tables", "up"}

At(pc, todo) == [pc |-> pc, todo |-> todo, cols |-> {}, failed |-> FALSE]
Down == At("down", {})

\* create_table with the schema of today.
Fresh == [here |-> TRUE, nullable |-> TRUE, drifted |-> FALSE]
Gone  == [here |-> FALSE, nullable |-> TRUE, drifted |-> FALSE]

\* get_table: open, or create when missing.
Opened(t) == IF table[t].here THEN table[t] ELSE Fresh

\* A root without an index, and those that builds of both ages leave, one of
\* whose tables may have drifted.
InitTables(old, with) ==
    table = [t \in Table |-> [here |-> TRUE, nullable |-> ~old,
                              drifted |-> t \in with]]

Init ==
    /\ at = [p \in Process |-> Down]
    /\ root = {}
    /\ \/ /\ table = [t \in Table |-> Gone]
          /\ mark = [schema |-> FALSE, fts |-> FALSE]
          /\ idx = [c \in Column |-> "none"]
       \/ \E old \in BOOLEAN, with \in {{}, {Watched}} :
             /\ InitTables(old, with)
             /\ mark = [schema |-> ~old, fts |-> FALSE]
             /\ idx = [c \in Column |-> "old"]
    /\ line = <<>>
    /\ task = [k \in Task |-> "idle"]
    /\ hung = {}
    /\ snap = [k \in Writer |-> {}]
    /\ rows = {}
    /\ acked = {}

-----------------------------------------------------------------------------
(* Starting.                                                               *)

Goes(p, pc, todo) == at' = [at EXCEPT ![p] = At(pc, todo)]

Lets(p) == root' = root \ {p}

\* The operator starts nothing while a rebuild drops the tables.
MayStart == \A p \in Process : at[p].pc # "drop_tables"

\* The lifespan of the server, or a command's _runtime.
Start(p) ==
    /\ at[p].pc = "down"
    /\ MayStart
    /\ Goes(p, "verify", Table)
    /\ UNCHANGED <<root, disk, locks>>

\* verify_business_schemas, a table; a drifted one ends the start.
Verify(p, t) ==
    /\ at[p].pc = "verify" /\ t \in at[p].todo
    /\ table' = [table EXCEPT ![t] = Opened(t)]
    /\ IF table[t].drifted
       THEN at' = [at EXCEPT ![p] = Down]
       ELSE at' = [at EXCEPT ![p].todo = @ \ {t}]
    /\ UNCHANGED <<root, mark, idx, locks>>

Verified(p) ==
    /\ at[p].pc = "verify" /\ at[p].todo = {}
    /\ Goes(p, "wait_schema", {})
    /\ UNCHANGED <<root, disk, locks>>

Waits(p) == at[p].pc \in {"wait_schema", "wait_fts"}

\* Mutant: the lock of the root is not looked at.
RootFree_Always == TRUE

RootFree == root = {}

\* memory_root_lock is taken; then the marker is read.
TakeForSchema(p) ==
    /\ at[p].pc = "wait_schema"
    /\ RootFree
    /\ IF mark.schema
       THEN Goes(p, "wait_fts", {}) /\ UNCHANGED root
       ELSE Goes(p, "schema", Table) /\ root' = root \cup {p}
    /\ UNCHANGED <<disk, locks>>

TakeForFts(p) ==
    /\ at[p].pc = "wait_fts"
    /\ RootFree
    /\ IF mark.fts
       THEN Goes(p, "ensure", Table) /\ UNCHANGED root
       ELSE Goes(p, "fts", Table) /\ root' = root \cup {p}
    /\ UNCHANGED <<disk, locks>>

\* LockError, after DEFAULT_LOCK_TIMEOUT_SECONDS: the start ends.
GiveUp(p) ==
    /\ Waits(p) /\ ~RootFree
    /\ at' = [at EXCEPT ![p] = Down]
    /\ UNCHANGED <<root, disk, locks>>

\* alter_columns for a table that is not nullable yet; it may raise.
Alter(p, t) ==
    /\ at[p].pc = "schema" /\ t \in at[p].todo
    /\ \E ok \in {TRUE, table[t].here /\ table[t].nullable} :
          /\ table' = [table EXCEPT ![t] = [Opened(t) EXCEPT !.nullable = @ \/ ok]]
          /\ at' = [at EXCEPT ![p].todo = @ \ {t}, ![p].failed = @ \/ ~ok]
    /\ UNCHANGED <<root, mark, idx, locks>>

\* Mutant: a table that could not be altered is only logged.
Incomplete_Logged(p) == FALSE

Incomplete(p) == at[p].failed

\* The marker of the schema is written, or LanceDBMigrationError is raised.
MarkSchema(p) ==
    /\ at[p].pc = "schema" /\ at[p].todo = {}
    /\ Lets(p)
    /\ IF Incomplete(p)
       THEN at' = [at EXCEPT ![p] = Down] /\ UNCHANGED mark
       ELSE Goes(p, "wait_fts", {}) /\ mark' = [mark EXCEPT !.schema = TRUE]
    /\ UNCHANGED <<table, idx, locks>>

\* migrate_fts_indexes, the next table: list what is to be dropped.
OpenFts(p, t) ==
    /\ at[p].pc = "fts" /\ t \in at[p].todo
    /\ table' = [table EXCEPT ![t] = Opened(t)]
    /\ at' = [at EXCEPT ![p] =
                [pc |-> "drop", todo |-> @.todo \ {t}, failed |-> FALSE,
                 cols |-> {c \in Fields[t] : idx[c] # "none"}]]
    /\ UNCHANGED <<root, mark, idx, locks>>

DropIndex(p, c) ==
    /\ at[p].pc = "drop" /\ c \in at[p].cols
    /\ idx' = [idx EXCEPT ![c] = "none"]
    /\ at' = [at EXCEPT ![p].cols = @ \ {c}]
    /\ UNCHANGED <<root, mark, table, locks>>

\* The columns of the tables begun.
Begun(p) == UNION {Fields[t] : t \in Table \ at[p].todo}

\* ensure_fts_indexes lists: an index that is there is left alone.
Bare(columns) == {c \in columns : idx[c] = "none"}

Dropped(p) ==
    /\ at[p].pc = "drop" /\ at[p].cols = {}
    /\ at' = [at EXCEPT ![p].pc = "make", ![p].cols = Bare(Begun(p))]
    /\ UNCHANGED <<root, disk, locks>>

\* create_index, in the migration or in ensure_business_indexes.
MakeIndex(p, c) ==
    /\ at[p].pc \in {"make", "ensure"} /\ c \in at[p].cols
    /\ idx' = [idx EXCEPT ![c] = "new"]
    /\ at' = [at EXCEPT ![p].cols = @ \ {c}]
    /\ UNCHANGED <<root, mark, table, locks>>

Made(p) ==
    /\ at[p].pc = "make" /\ at[p].cols = {}
    /\ at' = [at EXCEPT ![p].pc = "fts"]
    /\ UNCHANGED <<root, disk, locks>>

MarkFts(p) ==
    /\ at[p].pc = "fts" /\ at[p].todo = {}
    /\ mark' = [mark EXCEPT !.fts = TRUE]
    /\ Lets(p)
    /\ Goes(p, "ensure", Table)
    /\ UNCHANGED <<table, idx, locks>>

\* ensure_business_indexes, the next table.
Ensure(p, t) ==
    /\ at[p].pc = "ensure" /\ at[p].cols = {} /\ t \in at[p].todo
    /\ table' = [table EXCEPT ![t] = Opened(t)]
    /\ at' = [at EXCEPT ![p].todo = @ \ {t}, ![p].cols = Bare(Fields[t])]
    /\ UNCHANGED <<root, mark, idx, locks>>

\* The server is up, or the command begins its work.
Ready(p) ==
    /\ at[p].pc = "ensure" /\ at[p].cols = {} /\ at[p].todo = {}
    /\ Goes(p, "up", {})
    /\ UNCHANGED <<root, disk, locks>>

\* The process dies, or a call on its way up raises: the kernel frees the lock
\* of the root, and its tasks are gone.
Dies(p) ==
    /\ at[p].pc # "down"
    /\ at' = [at EXCEPT ![p] = Down]
    /\ Lets(p)
    /\ IF p = server
       THEN /\ line' = <<>>
            /\ task' = [k \in Task |-> "idle"]
            /\ hung' = {}
            /\ snap' = [k \in Writer |-> {}]
            /\ UNCHANGED <<rows, acked>>
       ELSE UNCHANGED locks
    /\ UNCHANGED disk

-----------------------------------------------------------------------------
(* cascade rebuild.                                                        *)

\* Neither the server nor another command runs.
Rebuild(p) ==
    /\ p # server
    /\ \A q \in Process : at[q].pc = "down"
    /\ Goes(p, "drop_tables", Table)
    /\ UNCHANGED <<root, disk, locks>>

\* drop_business_tables, a table; the rows are to come back from the markdown.
DropTable(p, t) ==
    /\ at[p].pc = "drop_tables" /\ t \in at[p].todo
    /\ table' = [table EXCEPT ![t] = Gone]
    /\ idx' = [c \in Column |-> IF c \in Fields[t] THEN "none" ELSE idx[c]]
    /\ at' = [at EXCEPT ![p].todo = @ \ {t}]
    /\ IF t = Watched THEN rows' = {} /\ acked' = {} ELSE UNCHANGED <<rows, acked>>
    /\ UNCHANGED <<root, mark, line, task, hung, snap>>

\* ensure_business_indexes follows.
TablesDropped(p) ==
    /\ at[p].pc = "drop_tables" /\ at[p].todo = {}
    /\ Goes(p, "wait_schema", {})
    /\ UNCHANGED <<root, disk, locks>>

-----------------------------------------------------------------------------
(* The lock of a table, in the server that is up.                          *)

Sets(k, pc) == task' = [task EXCEPT ![k] = pc]

Request(k) ==
    /\ at[server].pc = "up" /\ task[k] = "idle"
    /\ Sets(k, "queued")
    /\ line' = Append(line, k)
    /\ UNCHANGED <<at, root, disk, hung, snap, rows, acked>>

\* Mutant: no lock, writers race.
Holds_Anyone(k) == TRUE

\* asyncio.Lock is first come, first served.
Holds(k) == line # <<>> /\ Head(line) = k

Lookup(k) ==
    /\ task[k] = "queued" /\ Holds(k)
    /\ Sets(k, "lookup")
    /\ UNCHANGED <<at, root, disk, line, hung, snap, rows, acked>>

\* Mutant: drop every index, then create.
Replacing_DropFirst(c) == "none"

\* create_index(replace=True) leaves the index in place until the new one is.
Replacing(c) == idx[c]

\* merge_insert reads; the indexes of the table are about to be replaced.
Begin(k) ==
    /\ task[k] = "lookup" /\ k \notin hung
    /\ Sets(k, "body")
    /\ snap' = IF k \in Writer THEN [snap EXCEPT ![k] = rows] ELSE snap
    /\ idx' = IF k = rebuilder
              THEN [c \in Column |-> IF c \in Fields[Watched]
                                     THEN Replacing(c) ELSE idx[c]]
              ELSE idx
    /\ UNCHANGED <<at, root, mark, table, line, hung, rows, acked>>

Landed(k) == IF k \in Writer THEN snap[k] \cup {k} ELSE rows

\* The lock passes to the next, or one who waited is cancelled.
Without(k) == RemoveAt(line, CHOOSE i \in DOMAIN line : line[i] = k)

Leave(k) ==
    /\ Sets(k, "idle")
    /\ line' = Without(k)
    /\ hung' = hung \ {k}
    /\ snap' = [w \in Writer |-> IF w = k THEN {} ELSE snap[w]]

\* The call returns.
Return(k) ==
    /\ task[k] = "body" /\ k \notin hung
    /\ Leave(k)
    /\ rows' = Landed(k)
    /\ acked' = acked \cup ({k} \cap Writer)
    /\ idx' = IF k = rebuilder
              THEN [c \in Column |-> IF c \in Fields[Watched]
                                     THEN "new" ELSE idx[c]]
              ELSE idx
    /\ UNCHANGED <<at, root, mark, table>>

\* The call never returns, whether its commit landed or not.
Hang(k) ==
    /\ task[k] \in {"lookup", "body"} /\ k \notin hung
    /\ hung' = hung \cup {k}
    /\ rows' \in {rows, IF task[k] = "body" THEN Landed(k) ELSE rows}
    /\ UNCHANGED <<at, root, disk, line, task, snap, acked>>

\* Mutant: the handle is resolved ahead of the deadline.
Bounded_AfterLookup(k) == task[k] \in {"queued", "body"}

\* The deadline covers the acquisition and all that follows.
Bounded(k) == task[k] # "idle"

\* _locked: on expiry the body is cancelled and the lock is let go.
Deadline(k) ==
    /\ Bounded(k)
    /\ Leave(k)
    /\ UNCHANGED <<at, root, disk, rows, acked>>

-----------------------------------------------------------------------------
Startup(p) ==
    \/ Start(p) \/ Verified(p) \/ TakeForSchema(p) \/ TakeForFts(p)
    \/ GiveUp(p) \/ MarkSchema(p) \/ Dropped(p) \/ Made(p) \/ MarkFts(p)
    \/ Ready(p)
    \/ \E t \in Table : Verify(p, t) \/ Alter(p, t) \/ OpenFts(p, t)
                        \/ Ensure(p, t)
    \/ \E c \in Column : DropIndex(p, c) \/ MakeIndex(p, c)

Next ==
    \/ \E p \in Process : Startup(p) \/ Dies(p) \/ Rebuild(p)
                         \/ TablesDropped(p)
    \/ \E p \in Process, t \in Table : DropTable(p, t)
    \/ \E k \in Task : \/ Request(k) \/ Lookup(k) \/ Begin(k) \/ Return(k)
                       \/ Hang(k) \/ Deadline(k)

Spec == Init /\ [][Next]_vars

\* Timers fire; that a call of LanceDB returns, or that anybody starts a
\* process, is assumed nowhere.
Fairness == \A k \in Task : WF_vars(Deadline(k))

FairSpec == Spec /\ Fairness
=============================================================================
