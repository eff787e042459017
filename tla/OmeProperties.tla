----------------------------- MODULE OmeProperties ----------------------------
(***************************************************************************)
(* What the engine promises.                                               *)
(***************************************************************************)
EXTENDS OmeEngine

\* Types of the engines, the runs and their records; an attempt never
\* exceeds the retry budget.
TypeOK ==
    /\ locked \subseteq Engine
    /\ mode \in [Engine -> Mode]
    /\ boot \in [Engine -> [todo : SUBSET RowId, taken : SUBSET RowId]]
    /\ run \in [Run -> Job]
    /\ \A r \in Run : run[r].attempt \in 0..MaxRetries
    /\ issued \in 0..MaxRuns
    /\ events \in 0..MaxEvents
    /\ active \in [Engine -> Nat]
    /\ stopping \in [Engine -> Stopping]
    /\ record \in [RowId -> [status : Status, at : Nat]]
    /\ now \in Nat
    /\ crashes \in Nat
    /\ faults \in Nat

\* A job is in the store or its coroutine under way.
Live(r) == run[r].pc \in InFlight \cup {"queued"}

\* One strategy never handles one event twice at the same time, whatever the
\* recovery re-enqueues: its body is written to be safe to re-execute, not
\* to overlap with itself.
OneRunPerTask ==
    \A r, q \in Run :
        /\ Live(r) /\ Live(q)
        /\ run[r].strategy = run[q].strategy
        /\ run[r].cause = run[q].cause
        => r = q

\* _active_runs counts the jobs in the store and the coroutines under way,
\* so that wait_idle neither returns early nor waits for a run that does
\* not exist.
ActiveCounts ==
    \A g \in Engine : mode[g] # "down" =>
        active[g] = Cardinality({r \in Run : run[r].engine = g /\ Live(r)})

\* RUNNING rows without a coroutine that runs.
Ghosts == {i \in RowId : /\ record[i].status = "running"
                          /\ run[i[1]].pc \notin InSlot}

\* When a recovering engine is up, every such row is the work of a store
\* call that raised: a crash leaves no run behind that nobody will look at
\* again.
NoGhosts ==
    \A g \in Recovers : mode[g] = "up" => Cardinality(Ghosts) <= faults

-----------------------------------------------------------------------------
Task == Strategy \X Cause

RunsOf(t) == {r \in Run : run[r].strategy = t[1] /\ run[r].cause = t[2]
                          /\ run[r].pc # "unused"}

\* How far a task is: what its live run does, or how its last run ended.
Reached(t) ==
    LET pcs == {run[r].pc : r \in RunsOf(t)} IN
    IF pcs \cap InSlot # {} THEN "running"
    ELSE IF pcs \cap {"queued", "waiting", "backoff"} # {} THEN "pending"
    ELSE IF "done" \in pcs THEN "done"
    ELSE IF "dead" \in pcs THEN "dead"
    ELSE IF pcs # {} THEN "lost" ELSE "none"

\* Every task and how far it is.
Progress == [t \in Task |-> Reached(t)]

Abstract == INSTANCE Delivery WITH state <- Progress

\* The engine implements Delivery: attempts of a task never overlap, a
\* success or a dead letter is never followed by another attempt, and only
\* what was lost is resumed.
Delivers == Abstract!Spec

\* Every task that was enqueued is settled, although the strategies that
\* wait for other runs hold their slot of the semaphore while they do.
Settles == Abstract!EverySubmissionSettles
=============================================================================
