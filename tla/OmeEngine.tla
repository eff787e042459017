------------------------------ MODULE OmeEngine -------------------------------
(***************************************************************************)
(* The offline memory engine (OME): an event is routed to the strategies   *)
(* that subscribe to it, each routed strategy becomes a job of the         *)
(* persistent APScheduler store, the job becomes a coroutine that makes    *)
(* one or more attempts under a semaphore, and every attempt is a row of   *)
(* run_record.  When an engine starts it takes up the rows that a dead one *)
(* left RUNNING.                                                           *)
(*                                                                         *)
(* A run is what one enqueued job leads to.  An action is one step between *)
(* two awaits.  A process is an engine: the server's, or the one that a    *)
(* `cascade backfill` phase builds over the same store.                    *)
(***************************************************************************)
EXTENDS Integers, Sequences, FiniteSets

CONSTANTS
    Engine,       \* processes that build an engine over the memory root
    Recovers,     \* those with crash_recovery_enabled
    Strategy,     \* registered strategies
    Routes,       \* subscribers of the pipelines' events, in registry order
    ChildRoutes,  \* subscribers of the event that a waiting strategy emits
    Waits,        \* strategies that emit an event and wait for its runs
    MaxRetries,   \* max_retries
    Slots,        \* max_concurrent_runs
    MaxRecords,   \* max_records_per_strategy
    LateRestart,  \* TRUE: an engine starts crash_recovery_timeout_seconds
                  \* after the last attempt of the engine before it
    MaxEvents,    \* bound: events of the pipelines
    MaxRuns,      \* bound: jobs ever enqueued
    MaxCrashes,   \* bound: deaths of engines
    MaxFaults     \* bound: store and scheduler calls that raise

\* A strategy is registered once, by its name, so that an event has it once
\* among its routes.
ASSUME OmeAssumption ==
    /\ Engine # {} /\ Strategy # {}
    /\ Recovers \subseteq Engine
    /\ Routes \in Seq(Strategy)
    /\ \A i, j \in DOMAIN Routes : Routes[i] = Routes[j] => i = j
    /\ ChildRoutes \in Seq(Strategy)
    /\ \A i, j \in DOMAIN ChildRoutes : ChildRoutes[i] = ChildRoutes[j] => i = j
    /\ Waits \subseteq Strategy
    /\ MaxRetries \in Nat
    /\ Slots \in Nat \ {0}
    /\ MaxRecords \in Nat \ {0}
    /\ LateRestart \in BOOLEAN
    /\ MaxEvents \in Nat
    /\ MaxRuns \in Nat
    /\ MaxCrashes \in Nat
    /\ MaxFaults \in Nat

VARIABLES
    locked,   \* engines that hold the file lock
    mode,     \* engine -> its life cycle
    boot,     \* engine -> the rows its recovery has yet to deal with
    run,      \* run -> its coroutine
    issued,   \* runs handed out
    events,   \* events of the pipelines so far
    active,   \* engine -> _active_runs
    stopping, \* engine -> whether a stop waits in wait_idle or is to wake up
    record,   \* attempt of a run -> its row of run_record
    now,      \* rows ever inserted, the clock of started_at
    crashes,  \* deaths so far
    faults    \* calls that raised so far

vars == <<locked, mode, boot, run, issued, events, active, stopping, record,
          now, crashes, faults>>

life   == <<locked, mode, boot>>
queue  == <<issued, events>>
load   == <<active, stopping>>
ledger == <<record, now>>
bounds == <<crashes, faults>>

-----------------------------------------------------------------------------
Run   == 1..MaxRuns
RowId == Run \X (0..MaxRetries)

\* An event of a pipeline, or the event that an attempt of a run emitted.
Cause == ({0} \X (1..MaxEvents)) \cup RowId

NoRow == [status |-> "none", at |-> 0]

Status == {"none", "running", "success", "failed", "dead_letter", "crashed"}

Pc == {"unused", "queued", "orphan", "waiting", "starting", "body", "await",
       "resumed", "ended", "backoff", "done", "dead", "lost"}

Mode == {"down", "recovering", "up"}

Stopping == {"no", "waiting", "signalled"}

Verdict == {"ok", "error", "contract"}

Job == [pc : Pc, strategy : Strategy, cause : Cause \cup {<<0, 0>>},
        engine : Engine, attempt : Nat, verdict : Verdict]

Unused == [pc |-> "unused", strategy |-> CHOOSE s \in Strategy : TRUE,
           cause |-> <<0, 0>>, engine |-> CHOOSE g \in Engine : TRUE,
           attempt |-> 0, verdict |-> "ok"]

\* The attempt holds a slot of the semaphore.
InSlot == {"starting", "body", "await", "resumed", "ended"}

\* dispatch_run is under way.
InFlight == InSlot \cup {"waiting", "backoff"}

Attempt(r) == <<r, run[r].attempt>>

Init ==
    /\ locked = {}
    /\ mode = [g \in Engine |-> "down"]
    /\ boot = [g \in Engine |-> [todo |-> {}, taken |-> {}]]
    /\ run = [r \in Run |-> Unused]
    /\ issued = 0
    /\ events = 0
    /\ active = [g \in Engine |-> 0]
    /\ stopping = [g \in Engine |-> "no"]
    /\ record = [i \in RowId |-> NoRow]
    /\ now = 0
    /\ crashes = 0
    /\ faults = 0

\* One more call raises.
Raise ==
    /\ faults < MaxFaults
    /\ faults' = faults + 1
    /\ UNCHANGED crashes

-----------------------------------------------------------------------------
(* Dispatch.                                                               *)

\* add_job for the first k routes; job k + 1, if there is one, raises.
Enqueued(g, cause, routes, k) ==
    [r \in Run |->
       IF r \in (issued + 1)..(issued + k)
       THEN [Unused EXCEPT !.pc = "queued", !.strategy = routes[r - issued],
                           !.cause = cause, !.engine = g]
       ELSE run[r]]

\* Mutant: the count of a job that could not be added is kept.
Counted_NoRollback(g, routes, k) ==
    [active EXCEPT ![g] = @ + IF k < Len(routes) THEN k + 1 ELSE k]

\* _on_run_enqueued for every job, rolled back for the one that raised.
Counted(g, routes, k) == [active EXCEPT ![g] = @ + k]

\* All routes of the event become jobs, or add_job raises at one of them.
Dispatch(g, cause, routes, k) ==
    /\ k \in 0..Len(routes)
    /\ issued + Len(routes) <= MaxRuns
    /\ issued' = issued + k
    /\ active' = Counted(g, routes, k)
    /\ UNCHANGED stopping

\* A pipeline's emit; the error of a failing add_job is the caller's.
Emit(g) ==
    /\ mode[g] = "up"
    /\ events < MaxEvents
    /\ events' = events + 1
    /\ \E k \in 0..Len(Routes) :
         /\ Dispatch(g, <<0, events + 1>>, Routes, k)
         /\ run' = Enqueued(g, <<0, events + 1>>, Routes, k)
         /\ IF k < Len(Routes) THEN Raise ELSE UNCHANGED bounds
    /\ UNCHANGED <<life, ledger>>

\* APScheduler takes the job off its store and calls _runner_entry.
Fire(r) ==
    /\ run[r].pc = "queued"
    /\ mode[run[r].engine] # "down"
    /\ run' = [run EXCEPT ![r].pc = "waiting"]
    /\ UNCHANGED <<life, queue, load, ledger, bounds>>

\* A job of an engine that is gone: no_engine_for_runner.
Drop(r) ==
    /\ run[r].pc = "orphan"
    /\ \E g \in Engine : mode[g] # "down"
    /\ run' = [run EXCEPT ![r].pc = "lost"]
    /\ UNCHANGED <<life, queue, load, ledger, bounds>>

-----------------------------------------------------------------------------
(* Attempts.                                                               *)

Step(r, t) ==
    /\ run' = [run EXCEPT ![r] = t]
    /\ UNCHANGED <<life, queue>>

\* _on_run_completed, in the finally of dispatch_run: the last one sets the
\* event that a stop waits for.
Close(r) ==
    LET g == run[r].engine IN
    /\ active' = [active EXCEPT ![g] = IF @ > 0 THEN @ - 1 ELSE 0]
    /\ stopping' = [stopping EXCEPT ![g] =
                      IF @ = "waiting" /\ active'[g] = 0 THEN "signalled" ELSE @]

Holding(g) == {r \in Run : run[r].engine = g /\ run[r].pc \in InSlot}

Acquire(r) ==
    /\ run[r].pc = "waiting"
    /\ Cardinality(Holding(run[r].engine)) < Slots
    /\ Step(r, [run[r] EXCEPT !.pc = "starting"])
    /\ UNCHANGED <<load, ledger, bounds>>

\* The rows of the strategy that started after i.
Newer(i, s) == {j \in RowId : /\ record[j].status # "none"
                              /\ run[j[1]].strategy = s
                              /\ record[j].at > record[i].at}

\* mark_running: the new row, and the newest MaxRecords of the strategy.
RecordStart(r) ==
    LET s == run[r].strategy IN
    /\ run[r].pc = "starting"
    /\ now' = now + 1
    /\ record' = [i \in RowId |->
         IF i = Attempt(r)
         THEN [status |-> "running", at |-> now + 1]
         ELSE IF /\ record[i].status # "none"
                 /\ run[i[1]].strategy = s
                 /\ Cardinality(Newer(i, s)) + 1 >= MaxRecords
              THEN NoRow
              ELSE record[i]]
    /\ Step(r, [run[r] EXCEPT !.pc = "body"])
    /\ UNCHANGED <<load, bounds>>

\* mark_running raises: the run is given up, and no row tells of it.
RecordStartFails(r) ==
    /\ Raise
    /\ run[r].pc = "starting"
    /\ Step(r, [run[r] EXCEPT !.pc = "lost"])
    /\ Close(r)
    /\ UNCHANGED ledger

\* The body returns, raises or runs into run_timeout_seconds.
BodyEnds(r) ==
    /\ run[r].pc \in {"body", "resumed"}
    /\ \E v \in Verdict :
         Step(r, [run[r] EXCEPT !.pc = "ended", !.verdict = v])
    /\ UNCHANGED <<load, ledger, bounds>>

\* ctx.emit of an event whose runs the strategy then waits for.  It raises
\* when add_job does, or while the engine is still recovering.
BodyEmits(r) ==
    LET g == run[r].engine IN
    /\ run[r].pc = "body"
    /\ run[r].strategy \in Waits
    /\ \E k \in 0..Len(ChildRoutes) :
         /\ IF mode[g] = "up" THEN TRUE ELSE k = 0
         /\ Dispatch(g, Attempt(r), ChildRoutes, k)
         /\ run' = [Enqueued(g, Attempt(r), ChildRoutes, k) EXCEPT ![r] =
                      IF mode[g] = "up" /\ k = Len(ChildRoutes)
                      THEN [@ EXCEPT !.pc = "await"]
                      ELSE [@ EXCEPT !.pc = "ended", !.verdict = "error"]]
         /\ IF mode[g] = "up" /\ k < Len(ChildRoutes)
            THEN Raise ELSE UNCHANGED bounds
    /\ UNCHANGED <<life, events, ledger>>

\* The rows that list_by_event_id finds for the event of r.
Triggered(r) == {i \in RowId : /\ record[i].status # "none"
                               /\ run[i[1]].cause = Attempt(r)}

\* wait_for_event: a poll finds rows, and none that is RUNNING.
WaitReturns(r) ==
    /\ run[r].pc = "await"
    /\ Triggered(r) # {}
    /\ \A i \in Triggered(r) : record[i].status # "running"
    /\ Step(r, [run[r] EXCEPT !.pc = "resumed"])
    /\ UNCHANGED <<load, ledger, bounds>>

\* Mutant: the wait has no deadline.
WaitTimesOut_Never(r) == FALSE /\ UNCHANGED vars

\* TimeoutError: the strategy skips the cluster and returns.  Or it is the
\* attempt that has run for run_timeout_seconds.
WaitTimesOut(r) ==
    /\ run[r].pc = "await"
    /\ \E v \in {"ok", "error"} :
         Step(r, [run[r] EXCEPT !.pc = "ended", !.verdict = v])
    /\ UNCHANGED <<load, ledger, bounds>>

\* UPDATE run_record: nothing happens to a row that is gone.
SetStatus(i, status) ==
    record' = IF record[i].status = "none" THEN record
              ELSE [record EXCEPT ![i].status = status]

\* Mutant: one attempt too many.
MayRetry_OneMore(r) == run[r].attempt <= MaxRetries

MayRetry(r) == run[r].attempt < MaxRetries

Mark(r) ==
    /\ run[r].pc = "ended"
    /\ \/ /\ run[r].verdict = "ok"
          /\ SetStatus(Attempt(r), "success")
          /\ Step(r, [run[r] EXCEPT !.pc = "done"])
          /\ Close(r)
       \/ /\ run[r].verdict = "error" /\ MayRetry(r)
          /\ SetStatus(Attempt(r), "failed")
          /\ Step(r, [run[r] EXCEPT !.pc = "backoff"])
          /\ UNCHANGED load
       \/ /\ \/ run[r].verdict = "contract"
             \/ run[r].verdict = "error" /\ ~MayRetry(r)
          /\ SetStatus(Attempt(r), "dead_letter")
          /\ Step(r, [run[r] EXCEPT !.pc = "dead"])
          /\ Close(r)
    /\ UNCHANGED <<now, bounds>>

\* mark_success, mark_failed or mark_dead_letter raises: the coroutine ends
\* and the row stays RUNNING.
MarkFails(r) ==
    /\ Raise
    /\ run[r].pc = "ended"
    /\ Step(r, [run[r] EXCEPT !.pc = "lost"])
    /\ Close(r)
    /\ UNCHANGED ledger

\* The backoff is slept outside the semaphore.
Wake(r) ==
    /\ run[r].pc = "backoff"
    /\ Step(r, [run[r] EXCEPT !.pc = "waiting", !.attempt = @ + 1])
    /\ UNCHANGED <<load, ledger, bounds>>

-----------------------------------------------------------------------------
(* Engines.                                                                *)

\* Mutant: every row that is not a success is taken for a crash.
Crashed_NotSuccess(cutoff) ==
    {i \in RowId : /\ record[i].status \in {"running", "failed"}
                   /\ record[i].at <= cutoff}

\* find_running, less the rows that are too fresh.
Crashed(cutoff) ==
    {i \in RowId : record[i].status = "running" /\ record[i].at <= cutoff}

\* Mutant: the lock is not taken.
LockFree_Always == TRUE

LockFree == locked = {}

\* start: the lock, the scheduler, and the scan for what a crash left.
Start(g) ==
    /\ mode[g] = "down"
    /\ LockFree
    /\ locked' = locked \cup {g}
    /\ IF g \in Recovers
       THEN /\ mode' = [mode EXCEPT ![g] = "recovering"]
            /\ \E cutoff \in IF LateRestart THEN {now} ELSE 0..now :
                 boot' = [boot EXCEPT ![g].todo = Crashed(cutoff)]
       ELSE /\ mode' = [mode EXCEPT ![g] = "up"]
            /\ UNCHANGED boot
    /\ UNCHANGED <<run, queue, load, ledger, bounds>>

\* mark_crashed.
MarkCrashed(g, i) ==
    /\ i \in boot[g].todo
    /\ boot[g].taken = {}
    /\ boot' = [boot EXCEPT ![g].todo = @ \ {i}, ![g].taken = {i}]
    /\ SetStatus(i, "crashed")
    /\ UNCHANGED <<locked, mode, run, queue, load, now, bounds>>

\* The same event becomes a job of this engine.
Requeue(g, i) ==
    /\ i \in boot[g].taken
    /\ issued < MaxRuns
    /\ issued' = issued + 1
    /\ run' = Enqueued(g, run[i[1]].cause, <<run[i[1]].strategy>>, 1)
    /\ active' = [active EXCEPT ![g] = @ + 1]
    /\ UNCHANGED stopping
    /\ boot' = [boot EXCEPT ![g].taken = {}]
    /\ UNCHANGED <<locked, mode, events, ledger, bounds>>

\* add_job raises after mark_crashed: the event is lost.
RequeueFails(g, i) ==
    /\ Raise
    /\ i \in boot[g].taken
    /\ boot' = [boot EXCEPT ![g].taken = {}]
    /\ UNCHANGED <<locked, mode, run, queue, load, ledger>>

\* Mutant: the engine is declared started with the recovery under way.
Recovered_Early(g) == mode[g] = "recovering"

Recovered(g) ==
    /\ mode[g] = "recovering"
    /\ boot[g].todo = {}
    /\ boot[g].taken = {}

Ready(g) ==
    /\ Recovered(g)
    /\ mode' = [mode EXCEPT ![g] = "up"]
    /\ UNCHANGED <<locked, boot, run, queue, load, ledger, bounds>>

\* What is left of an engine: jobs in the store, nothing in memory.
GoDown(g) ==
    /\ locked' = locked \ {g}
    /\ mode' = [mode EXCEPT ![g] = "down"]
    /\ boot' = [boot EXCEPT ![g] = [todo |-> {}, taken |-> {}]]
    /\ run' = [r \in Run |->
         CASE run[r].engine = g /\ run[r].pc = "queued" ->
                [run[r] EXCEPT !.pc = "orphan"]
           [] run[r].engine = g /\ run[r].pc \in InFlight ->
                [run[r] EXCEPT !.pc = "lost"]
           [] OTHER -> run[r]]
    /\ active' = [active EXCEPT ![g] = 0]
    /\ stopping' = [stopping EXCEPT ![g] = "no"]
    /\ UNCHANGED <<queue, ledger>>

\* A crash, a start that fails half-way, or a stop that gives up waiting
\* and cancels what still runs.
Die(g) ==
    /\ mode[g] # "down"
    /\ crashes < MaxCrashes
    /\ crashes' = crashes + 1
    /\ UNCHANGED faults
    /\ GoDown(g)

\* stop calls wait_idle: nothing runs and the engine is shut at once, or
\* the stop waits, with the engine still taking events.
Stop(g) ==
    /\ mode[g] = "up"
    /\ stopping[g] = "no"
    /\ \/ active[g] = 0 /\ GoDown(g)
       \/ /\ active[g] > 0
          /\ stopping' = [stopping EXCEPT ![g] = "waiting"]
          /\ UNCHANGED <<life, run, queue, active, ledger>>
    /\ UNCHANGED bounds

\* wait_idle wakes up after its event was set, whatever came in since.
Shutdown(g) ==
    /\ stopping[g] = "signalled"
    /\ GoDown(g)
    /\ UNCHANGED bounds

-----------------------------------------------------------------------------
RunStep(r) ==
    \/ Fire(r)
    \/ Drop(r)
    \/ Acquire(r)
    \/ RecordStart(r)
    \/ RecordStartFails(r)
    \/ BodyEnds(r)
    \/ BodyEmits(r)
    \/ WaitReturns(r)
    \/ WaitTimesOut(r)
    \/ Mark(r)
    \/ MarkFails(r)
    \/ Wake(r)

Booting(g) ==
    \/ Start(g)
    \/ \E i \in boot[g].todo : MarkCrashed(g, i)
    \/ \E i \in boot[g].taken : Requeue(g, i) \/ RequeueFails(g, i)
    \/ Ready(g)

Next ==
    \/ \E g \in Engine :
          Emit(g) \/ Booting(g) \/ Die(g) \/ Stop(g) \/ Shutdown(g)
    \/ \E r \in Run : RunStep(r)

Spec == Init /\ [][Next]_vars

(***************************************************************************)
(* Some engine runs whenever none does, and recovers or is ready.  Every   *)
(* await of a run ends: the semaphore is FIFO, bodies and waits carry      *)
(* deadlines, backoffs are bounded.  Nobody has to emit, stop or crash.    *)
(***************************************************************************)
Fairness ==
    /\ WF_vars(\E g \in Engine : Booting(g))
    /\ \A r \in Run : WF_vars(RunStep(r))

FairSpec == Spec /\ Fairness
=============================================================================
