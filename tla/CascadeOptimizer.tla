--------------------------- MODULE CascadeOptimizer ---------------------------
(***************************************************************************)
(* Index maintenance in the cascade worker: per kind, that is, per LanceDB *)
(* table, one runner that compacts (a light beat) or prunes (a heavy one), *)
(* and one loop that rebuilds the indexes of all kinds in turn.  Runner    *)
(* and loop commit on the same manifest, so each waits for the other, with *)
(* a deadline.  A wait is `await task` under asyncio.timeout: when the     *)
(* deadline strikes, the awaited task is cancelled with the waiter.        *)
(*                                                                         *)
(* An action is one step between two awaits.  A task that ends and the     *)
(* wake-up of the one that waits for it are one step: the wake-up is first *)
(* in the event loop's queue, ahead of any runner scheduled meanwhile.     *)
(***************************************************************************)
EXTENDS Naturals

CONSTANTS
    Kind,             \* registered kinds, each with a table of its own
    AlertThreshold,   \* _OPTIMIZE_FAILURE_ALERT_THRESHOLD
    ConflictBackoffs  \* how many _REBUILD_CONFLICT_BACKOFFS_SECONDS there are

ASSUME OptimizerAssumption ==
    /\ AlertThreshold \in Nat \ {0}
    /\ ConflictBackoffs \in Nat

VARIABLES
    mode,     \* the worker: "up", "stopping" (_stop set), "flushing", "stopped"
    dirty,    \* kind -> written to since the last beat began
    task,     \* kind -> where its runner is; "none" when the slot is free
    rebuild,  \* kind -> who awaits its rebuild task: "none", "loop", "runner"
    loop,     \* where the rebuild loop is: its kind and the kinds still to do
    due,      \* kind -> the next beat is to prune
    streak,   \* kind -> optimize_failures
    since,    \* kind -> failures_since_fallback
    tries,    \* kind -> rebuild_attempt
    retry,    \* kind -> rebuild_retry_at: "none", "later" or "now"
    awaited   \* the kinds that _flush_optimizers waits for

vars == <<mode, dirty, task, rebuild, loop, due, streak, since, tries, retry,
          awaited>>

counters == <<streak, since>>
backoff  == <<tries, retry>>
stop     == <<mode, awaited>>

-----------------------------------------------------------------------------
TaskPc ==
    {"none", "cooldown", "parked", "light", "heavy", "between", "fallback"}

\* A beat is under way.
InBeat == {"light", "heavy"}

LoopPc == {"sweep", "waiting", "rebuilding", "idle", "off"}

\* The loop between two kinds.
Sweeping(todo) == [pc |-> "sweep", at |-> {}, todo |-> todo]

\* What is left of the loop's task when it returns or is cancelled.
Off == [pc |-> "off", at |-> {}, todo |-> {}]

LoopAt(pc, k) == loop.pc = pc /\ loop.at = {k}

\* start: the first sweep begins at once, and every kind is to be pruned.
Init ==
    /\ mode = "up"
    /\ dirty = [k \in Kind |-> FALSE]
    /\ task = [k \in Kind |-> "none"]
    /\ rebuild = [k \in Kind |-> "none"]
    /\ loop = Sweeping(Kind)
    /\ due = [k \in Kind |-> TRUE]
    /\ streak = [k \in Kind |-> 0]
    /\ since = [k \in Kind |-> 0]
    /\ tries = [k \in Kind |-> 0]
    /\ retry = [k \in Kind |-> "none"]
    /\ awaited = {}

\* _stop.is_set()
Stopped == mode # "up"

-----------------------------------------------------------------------------
(* The runner of a kind.                                                   *)

\* Mutant: the heartbeat outlives the stop.
MaySchedule_UntilStopped == mode # "stopped"

\* The drain and the heartbeat go on.
MaySchedule == mode = "up"

\* Mutant: a table that is dirty already is taken for scheduled.
Slot_SkipsDirty(k) ==
    IF task[k] = "none" /\ ~dirty[k] THEN "cooldown" ELSE task[k]

\* A free slot gets a runner.
Slot(k) == IF task[k] = "none" THEN "cooldown" ELSE task[k]

\* _schedule_optimize, after a batch that wrote, or by the heartbeat.
Schedule(k) ==
    /\ MaySchedule
    /\ dirty' = [dirty EXCEPT ![k] = TRUE]
    /\ task' = [task EXCEPT ![k] = Slot(k)]
    /\ UNCHANGED <<stop, rebuild, loop, due, counters, backoff>>

\* The runner ends and leaves the rebuild slots as given; the rebuild loop,
\* if it waits for this runner, goes ahead without looking again.
RunnerEnds(k, slots) ==
    /\ task' = [task EXCEPT ![k] = "none"]
    /\ IF LoopAt("waiting", k)
       THEN /\ rebuild' = [slots EXCEPT ![k] = "loop"]
            /\ loop' = [loop EXCEPT !.pc = "rebuilding"]
       ELSE /\ rebuild' = slots
            /\ UNCHANGED loop

\* The head of the runner's loop: consume dirty and begin a beat, or end.
\* A prune advances its clock before it is tried.
BeginBeat(k) ==
    IF dirty[k] /\ ~Stopped
    THEN /\ dirty' = [dirty EXCEPT ![k] = FALSE]
         /\ task' = [task EXCEPT ![k] = IF due[k] THEN "heavy" ELSE "light"]
         /\ due' = [due EXCEPT ![k] = FALSE]
         /\ UNCHANGED <<rebuild, loop>>
    ELSE /\ RunnerEnds(k, rebuild)
         /\ UNCHANGED <<dirty, due>>

\* Mutant: the runner does not look at the rebuild slot.
MustPark_Never(k) == FALSE

\* A rebuild is in flight.
MustPark(k) == rebuild[k] # "none"

\* The throttle delay is over, or the worker stops.
Enter(k) ==
    /\ task[k] = "cooldown"
    /\ \/ /\ Stopped
          /\ RunnerEnds(k, rebuild)
          /\ UNCHANGED <<dirty, due>>
       \/ /\ MustPark(k)
          /\ task' = [task EXCEPT ![k] = "parked"]
          /\ UNCHANGED <<dirty, rebuild, loop, due>>
       \/ /\ ~MustPark(k)
          /\ BeginBeat(k)
    /\ UNCHANGED <<stop, counters, backoff>>

\* A beat is over: wait for the throttle if there is more to do.
AfterBeat(k, slots) ==
    IF dirty[k] /\ ~Stopped
    THEN /\ task' = [task EXCEPT ![k] = "between"]
         /\ rebuild' = slots
         /\ UNCHANGED loop
    ELSE RunnerEnds(k, slots)

BeatSucceeds(k) ==
    /\ task[k] \in InBeat
    /\ streak' = [streak EXCEPT ![k] = 0]
    /\ since' = [since EXCEPT ![k] = 0]
    /\ AfterBeat(k, rebuild)
    /\ UNCHANGED <<stop, dirty, due, backoff>>

\* A lost commit race is not counted.
BeatConflicts(k) ==
    /\ task[k] \in InBeat
    /\ AfterBeat(k, rebuild)
    /\ UNCHANGED <<stop, dirty, due, counters, backoff>>

\* Counters are only compared with the threshold: they stop there.
Counted(n) == IF n < AlertThreshold THEN n + 1 ELSE n

\* Any other error is counted; every AlertThreshold of them, the runner
\* rebuilds the indexes itself.
BeatFails(k) ==
    /\ task[k] \in InBeat
    /\ streak' = [streak EXCEPT ![k] = Counted(@)]
    /\ since' = [since EXCEPT ![k] = Counted(@)]
    /\ IF since'[k] >= AlertThreshold
       THEN /\ task' = [task EXCEPT ![k] = "fallback"]
            /\ rebuild' = [rebuild EXCEPT ![k] = "runner"]
            /\ UNCHANGED loop
       ELSE AfterBeat(k, rebuild)
    /\ UNCHANGED <<stop, dirty, due, backoff>>

\* The throttle interval between two beats is over, or the worker stops.
NextBeat(k) ==
    /\ task[k] = "between"
    /\ BeginBeat(k)
    /\ UNCHANGED <<stop, counters, backoff>>

\* The rebuild that the runner is parked on is over.
Unpark(k) ==
    /\ task[k] = "parked"
    /\ rebuild[k] = "none"
    /\ BeginBeat(k)
    /\ UNCHANGED <<stop, counters, backoff>>

\* 180 s parked: the deadline cancels the rebuild, and with it the loop that
\* awaits it.
ParkTimesOut(k) ==
    /\ task[k] = "parked"
    /\ rebuild[k] # "none"
    /\ task' = [task EXCEPT ![k] = "none"]
    /\ rebuild' = [rebuild EXCEPT ![k] = "none"]
    /\ loop' = Off
    /\ UNCHANGED <<stop, dirty, due, counters, backoff>>

-----------------------------------------------------------------------------
(* Rebuilds.                                                               *)

\* Mutant: one retry too many.
MayRetry_OneMore(k) == tries[k] <= ConflictBackoffs

\* There is a backoff left for a lost commit race.
MayRetry(k) == tries[k] < ConflictBackoffs

\* How the rebuild of a kind went: it is over, by success, error or too many
\* lost races, or it is to be retried.
Outcome(k) ==
    \/ /\ tries' = [tries EXCEPT ![k] = 0]
       /\ retry' = [retry EXCEPT ![k] = "none"]
    \/ /\ MayRetry(k)
       /\ tries' = [tries EXCEPT ![k] = @ + 1]
       /\ retry' = [retry EXCEPT ![k] = "later"]

\* Mutant: the fallback also clears the counter behind the alert.
AfterFallback_Silent(k) ==
    /\ since' = [since EXCEPT ![k] = 0]
    /\ streak' = [streak EXCEPT ![k] = 0]

AfterFallback(k) ==
    /\ since' = [since EXCEPT ![k] = 0]
    /\ UNCHANGED streak

\* A rebuild of the runner's own ends.
FallbackEnds(k) ==
    /\ task[k] = "fallback"
    /\ Outcome(k)
    /\ AfterFallback(k)
    /\ AfterBeat(k, [rebuild EXCEPT ![k] = "none"])
    /\ UNCHANGED <<stop, dirty, due>>

\* The loop takes the next kind, and waits first for a runner under way.
Visit(k) ==
    /\ loop.pc = "sweep"
    /\ k \in loop.todo
    /\ ~Stopped
    /\ loop' = [pc |-> IF task[k] = "none" THEN "rebuilding" ELSE "waiting",
                at |-> {k}, todo |-> loop.todo \ {k}]
    /\ rebuild' = IF task[k] = "none"
                  THEN [rebuild EXCEPT ![k] = "loop"]
                  ELSE rebuild
    /\ UNCHANGED <<stop, dirty, task, due, counters, backoff>>

RebuildEnds(k) ==
    /\ LoopAt("rebuilding", k)
    /\ Outcome(k)
    /\ rebuild' = [rebuild EXCEPT ![k] = "none"]
    /\ loop' = Sweeping(loop.todo)
    /\ UNCHANGED <<stop, dirty, task, due, counters>>

\* 180 s behind a runner: the deadline cancels the runner, with a rebuild of
\* its own, and the loop skips the kind.  A runner leaves its first delay long
\* before, and one that the loop finds parked is about to wake up.
WaitTimesOut(k) ==
    /\ LoopAt("waiting", k)
    /\ task[k] \notin {"cooldown", "parked"}
    /\ task' = [task EXCEPT ![k] = "none"]
    /\ rebuild' = [rebuild EXCEPT ![k] = "none"]
    /\ loop' = Sweeping(loop.todo)
    /\ UNCHANGED <<stop, dirty, due, counters, backoff>>

\* The kinds are done.
SweepEnds ==
    /\ loop = Sweeping({})
    /\ loop' = [loop EXCEPT !.pc = "idle"]
    /\ UNCHANGED <<stop, dirty, task, rebuild, due, counters, backoff>>

\* A tick: the interval between sweeps is over, or one kind is to be retried.
Tick ==
    /\ loop.pc = "idle"
    /\ ~Stopped
    /\ \/ loop' = Sweeping(Kind) /\ UNCHANGED retry
       \/ \E k \in Kind : /\ retry[k] = "now"
                          /\ retry' = [retry EXCEPT ![k] = "none"]
                          /\ loop' = Sweeping({k})
    /\ UNCHANGED <<stop, dirty, task, rebuild, due, counters, tries>>

-----------------------------------------------------------------------------
(* Time and shutdown.                                                      *)

\* _optimize_prune_interval has passed since the last attempt to prune.
PruneDue(k) ==
    /\ ~due[k]
    /\ due' = [due EXCEPT ![k] = TRUE]
    /\ UNCHANGED <<stop, dirty, task, rebuild, loop, counters, backoff>>

\* The backoff of a rebuild is over.
RetryDue(k) ==
    /\ retry[k] = "later"
    /\ retry' = [retry EXCEPT ![k] = "now"]
    /\ UNCHANGED <<stop, dirty, task, rebuild, loop, due, counters, tries>>

\* stop: set _stop, end the drain and the heartbeat.
Stop ==
    /\ mode = "up"
    /\ mode' = "stopping"
    /\ UNCHANGED <<dirty, task, rebuild, loop, due, counters, backoff, awaited>>

\* The loop's cancellation reaches the runner it waits for, or the rebuild it
\* awaits and with that a runner parked on it.
Hit(k) ==
    LoopAt("waiting", k) \/ (LoopAt("rebuilding", k) /\ task[k] = "parked")

\* The rebuild loop is cancelled; then the flush takes what is in flight.
CancelLoop ==
    /\ mode = "stopping"
    /\ mode' = "flushing"
    /\ loop' = Off
    /\ task' = [k \in Kind |-> IF Hit(k) THEN "none" ELSE task[k]]
    /\ rebuild' = [k \in Kind |->
                    IF LoopAt("rebuilding", k) \/ LoopAt("waiting", k)
                    THEN "none" ELSE rebuild[k]]
    /\ awaited' = {k \in Kind : task'[k] # "none" \/ rebuild'[k] # "none"}
    /\ UNCHANGED <<dirty, due, counters, backoff>>

\* _flush_optimizers returns.
Flushed ==
    /\ mode = "flushing"
    /\ \A k \in awaited : task[k] = "none" /\ rebuild[k] = "none"
    /\ mode' = "stopped"
    /\ UNCHANGED <<dirty, task, rebuild, loop, due, counters, backoff, awaited>>

-----------------------------------------------------------------------------
RunnerStep(k) ==
    \/ Enter(k)
    \/ BeatSucceeds(k)
    \/ BeatConflicts(k)
    \/ BeatFails(k)
    \/ NextBeat(k)
    \/ Unpark(k)
    \/ ParkTimesOut(k)
    \/ FallbackEnds(k)

LoopStep ==
    \/ SweepEnds
    \/ Tick
    \/ \E k \in Kind : Visit(k) \/ RebuildEnds(k) \/ WaitTimesOut(k)

Next ==
    \/ \E k \in Kind :
        Schedule(k) \/ RunnerStep(k) \/ PruneDue(k) \/ RetryDue(k)
    \/ LoopStep
    \/ Stop
    \/ CancelLoop
    \/ Flushed

Spec == Init /\ [][Next]_vars

(***************************************************************************)
(* The heartbeat schedules every kind again and again, and every await of  *)
(* a runner or of the loop ends by a deadline.  Nobody has to write, to    *)
(* stop, or to let a beat fail or succeed.                                 *)
(***************************************************************************)
Fairness ==
    /\ \A k \in Kind : WF_vars(Schedule(k)) /\ WF_vars(RunnerStep(k))
    /\ WF_vars(LoopStep)
    /\ WF_vars(CancelLoop)
    /\ WF_vars(Flushed)

FairSpec == Spec /\ Fairness
=============================================================================
