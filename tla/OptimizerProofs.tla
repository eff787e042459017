---------------------------- MODULE OptimizerProofs ---------------------------
(***************************************************************************)
(* Safety of index maintenance, proved for every set of kinds, threshold   *)
(* and backoff schedule.                                                   *)
(***************************************************************************)
EXTENDS OptimizerProperties, TLAPS

\* Beside a rebuild of the loop a runner has not begun, or is parked.
Aside ==
    \A k \in Kind :
        rebuild[k] = "loop" => task[k] \in {"none", "cooldown", "parked"}

\* From the moment the loop is cancelled, nothing is under way but what the
\* flush waits for.
Quiet ==
    /\ mode \in {"flushing", "stopped"} =>
        /\ loop.pc = "off"
        /\ \A k \in Kind \ awaited : task[k] = "none" /\ rebuild[k] = "none"
    /\ StopIsQuiet

IInv == TypeOK /\ OneMaintainer /\ Aside /\ Quiet

-----------------------------------------------------------------------------
(* The steps, one by one.                                                  *)

\* Every step keeps the types.
LEMMA TypeStep ==
    ASSUME TypeOK, [Next]_vars
    PROVE  TypeOK'
<1>. USE OptimizerAssumption DEF TypeOK, TaskPc, LoopPc
<1>1. CASE UNCHANGED vars
  BY <1>1 DEF vars
<1>2. ASSUME NEW k \in Kind,
               Schedule(k) \/ RunnerStep(k) \/ PruneDue(k) \/ RetryDue(k)
      PROVE  TypeOK'
  <2>1. CASE Schedule(k)
    BY <2>1 DEF Schedule, stop, counters, backoff, MaySchedule, Slot
  <2>2. CASE Enter(k)
    BY ZenonT(40), <2>2
    DEF Enter, stop, counters, backoff, RunnerEnds, BeginBeat,
           MustPark, Stopped, LoopAt
  <2>3. CASE BeatSucceeds(k)
    BY <2>3 DEF BeatSucceeds, stop, counters, backoff, AfterBeat, RunnerEnds,
           Stopped, LoopAt, InBeat
  <2>4. CASE BeatConflicts(k)
    BY <2>4 DEF BeatConflicts, stop, counters, backoff, AfterBeat,
           RunnerEnds, Stopped, LoopAt, InBeat
  <2>5. CASE BeatFails(k)
    BY <2>5 DEF BeatFails, stop, counters, backoff, AfterBeat, RunnerEnds,
           Stopped, LoopAt, InBeat, Counted
  <2>6. CASE NextBeat(k)
    BY ZenonT(40), <2>6
    DEF NextBeat, stop, counters, backoff, BeginBeat, RunnerEnds,
           Stopped, LoopAt
  <2>7. CASE Unpark(k)
    BY ZenonT(40), <2>7
    DEF Unpark, stop, counters, backoff, BeginBeat, RunnerEnds,
           Stopped, LoopAt
  <2>8. CASE ParkTimesOut(k)
    BY <2>8 DEF ParkTimesOut, stop, counters, backoff, Off
  <2>9. CASE FallbackEnds(k)
    BY <2>9 DEF FallbackEnds, stop, counters, backoff, Outcome, MayRetry,
           AfterFallback, AfterBeat, RunnerEnds, Stopped, LoopAt
  <2>10. CASE PruneDue(k)
    BY <2>10 DEF PruneDue, stop, counters, backoff
  <2>11. CASE RetryDue(k)
    BY <2>11 DEF RetryDue, stop, counters, backoff
  <2>. QED
    BY <1>2, <2>1, <2>2, <2>3, <2>4, <2>5, <2>6, <2>7, <2>8, <2>9, <2>10, <2>11
    DEF RunnerStep
<1>3. ASSUME NEW k \in Kind, Visit(k) \/ RebuildEnds(k) \/ WaitTimesOut(k)
      PROVE  TypeOK'
  <2>1. CASE Visit(k)
    BY <2>1 DEF Visit, stop, counters, backoff, Stopped
  <2>2. CASE RebuildEnds(k)
    BY <2>2 DEF RebuildEnds, stop, counters, backoff, LoopAt, Outcome,
           MayRetry, Sweeping
  <2>3. CASE WaitTimesOut(k)
    BY <2>3 DEF WaitTimesOut, stop, counters, backoff, LoopAt, Sweeping
  <2>. QED BY <1>3, <2>1, <2>2, <2>3
<1>4. CASE SweepEnds
  BY <1>4 DEF SweepEnds, stop, counters, backoff, Sweeping
<1>5. CASE Tick
  BY <1>5 DEF Tick, stop, counters, backoff, Sweeping, Stopped
<1>6. CASE Stop
  BY <1>6 DEF Stop, stop, counters, backoff
<1>7. CASE CancelLoop
  BY <1>7 DEF CancelLoop, stop, counters, backoff, Hit, LoopAt, Off
<1>8. CASE Flushed
  BY <1>8 DEF Flushed, stop, counters, backoff
<1>. QED BY <1>1, <1>2, <1>3, <1>4, <1>5, <1>6, <1>7, <1>8 DEF Next, LoopStep

\* A runner that ends leaves the two sides apart: if it had a rebuild of its
\* own, that one ends too.
LEMMA EndKeeps ==
    ASSUME IInv, NEW k \in Kind, rebuild[k] # "loop",
           NEW slots \in [Kind -> {"none", "loop", "runner"}],
           slots[k] = "none", \A j \in Kind \ {k} : slots[j] = rebuild[j],
           RunnerEnds(k, slots)
    PROVE  OneMaintainer' /\ Aside'
<1>. USE DEF IInv, TypeOK, OneMaintainer, Aside, LoopAt, InBeat
<1>1. task' = [task EXCEPT ![k] = "none"]
  BY DEF RunnerEnds
<1>2. CASE LoopAt("waiting", k)
  <2>1. /\ rebuild' = [slots EXCEPT ![k] = "loop"]
        /\ loop'.pc = "rebuilding" /\ loop'.at = {k}
    BY <1>2 DEF RunnerEnds, LoopPc
  <2>. QED BY <1>1, <1>2, <2>1
<1>3. CASE ~LoopAt("waiting", k)
  <2>1. rebuild' = slots /\ loop' = loop
    BY <1>3 DEF RunnerEnds
  <2>. QED BY <1>1, <2>1
<1>. QED BY <1>2, <1>3

\* The same when it goes on to its next throttle interval.
LEMMA AfterBeatKeeps ==
    ASSUME IInv, NEW k \in Kind, rebuild[k] # "loop",
           NEW slots \in [Kind -> {"none", "loop", "runner"}],
           slots[k] = "none", \A j \in Kind \ {k} : slots[j] = rebuild[j],
           AfterBeat(k, slots)
    PROVE  OneMaintainer' /\ Aside'
<1>1. CASE RunnerEnds(k, slots)
  BY <1>1, EndKeeps
<1>2. CASE /\ task' = [task EXCEPT ![k] = "between"]
           /\ rebuild' = slots
           /\ loop' = loop
  BY <1>2 DEF IInv, TypeOK, OneMaintainer, Aside, LoopAt, InBeat
<1>. QED BY <1>1, <1>2 DEF AfterBeat

\* A beat begins only where no rebuild is under way.
LEMMA BeginBeatKeeps ==
    ASSUME IInv, NEW k \in Kind, rebuild[k] = "none", BeginBeat(k)
    PROVE  OneMaintainer' /\ Aside'
<1>1. CASE RunnerEnds(k, rebuild)
  BY <1>1, EndKeeps DEF IInv, TypeOK
<1>2. CASE /\ task' = [task EXCEPT ![k] = IF due[k] THEN "heavy" ELSE "light"]
           /\ rebuild' = rebuild
           /\ loop' = loop
  BY <1>2 DEF IInv, TypeOK, OneMaintainer, Aside, LoopAt, InBeat
<1>. QED BY <1>1, <1>2 DEF BeginBeat

\* Every step keeps runner and rebuild apart.
LEMMA ExclusionStep ==
    ASSUME IInv, [Next]_vars
    PROVE  OneMaintainer' /\ Aside'
<1>. USE OptimizerAssumption
     DEF IInv, TypeOK, OneMaintainer, Aside, TaskPc, LoopPc
<1>1. CASE UNCHANGED vars
  BY <1>1 DEF vars, LoopAt, InBeat
<1>2. ASSUME NEW k \in Kind,
               Schedule(k) \/ RunnerStep(k) \/ PruneDue(k) \/ RetryDue(k)
      PROVE  OneMaintainer' /\ Aside'
  <2>1. CASE Schedule(k)
    BY <2>1 DEF Schedule, stop, counters, backoff, MaySchedule, Slot, LoopAt,
           InBeat
  <2>2. CASE Enter(k)
    <3>1. CASE RunnerEnds(k, rebuild) /\ rebuild[k] = "none"
      BY <3>1, EndKeeps
    <3>2. CASE RunnerEnds(k, rebuild) /\ rebuild[k] # "none"
      BY <2>2, <3>2 DEF Enter, RunnerEnds, LoopAt, InBeat
    <3>3. CASE /\ task' = [task EXCEPT ![k] = "parked"]
               /\ rebuild' = rebuild /\ loop' = loop
      BY <2>2, <3>3 DEF Enter, LoopAt, InBeat
    <3>4. CASE rebuild[k] = "none" /\ BeginBeat(k)
      BY <3>4, BeginBeatKeeps
    <3>. QED BY <2>2, <3>1, <3>2, <3>3, <3>4 DEF Enter, MustPark
  <2>3. CASE BeatSucceeds(k)
    BY <2>3, AfterBeatKeeps DEF BeatSucceeds, InBeat
  <2>4. CASE BeatConflicts(k)
    BY <2>4, AfterBeatKeeps DEF BeatConflicts, InBeat
  <2>5. CASE BeatFails(k)
    <3>1. CASE AfterBeat(k, rebuild)
      BY <2>5, <3>1, AfterBeatKeeps DEF BeatFails, InBeat
    <3>2. CASE /\ task' = [task EXCEPT ![k] = "fallback"]
               /\ rebuild' = [rebuild EXCEPT ![k] = "runner"]
               /\ loop' = loop
      BY <2>5, <3>2 DEF BeatFails, LoopAt, InBeat
    <3>. QED BY <2>5, <3>1, <3>2 DEF BeatFails
  <2>6. CASE NextBeat(k)
    BY <2>6, BeginBeatKeeps DEF NextBeat
  <2>7. CASE Unpark(k)
    BY <2>7, BeginBeatKeeps DEF Unpark
  <2>8. CASE ParkTimesOut(k)
    BY <2>8, SMTT(60) DEF ParkTimesOut, stop, counters, backoff, Off, LoopAt,
           InBeat
  <2>9. CASE FallbackEnds(k)
    BY <2>9, AfterBeatKeeps DEF FallbackEnds
  <2>10. CASE PruneDue(k)
    BY <2>10 DEF PruneDue, stop, counters, backoff, LoopAt, InBeat
  <2>11. CASE RetryDue(k)
    BY <2>11 DEF RetryDue, stop, counters, backoff, LoopAt, InBeat
  <2>. QED
    BY <1>2, <2>1, <2>2, <2>3, <2>4, <2>5, <2>6, <2>7, <2>8, <2>9, <2>10, <2>11
    DEF RunnerStep
<1>3. ASSUME NEW k \in Kind, Visit(k) \/ RebuildEnds(k) \/ WaitTimesOut(k)
      PROVE  OneMaintainer' /\ Aside'
  <2>1. CASE Visit(k)
    BY <2>1 DEF Visit, stop, counters, backoff, Stopped, LoopAt, InBeat
  <2>2. CASE RebuildEnds(k)
    <3>1. /\ task' = task /\ rebuild' = [rebuild EXCEPT ![k] = "none"]
          /\ loop'.pc = "sweep"
      BY <2>2 DEF RebuildEnds, Sweeping
    <3>. QED BY <2>2, <3>1 DEF RebuildEnds, LoopAt, InBeat
  <2>3. CASE WaitTimesOut(k)
    BY <2>3 DEF WaitTimesOut, stop, counters, backoff, LoopAt, Sweeping,
           InBeat
  <2>. QED BY <1>3, <2>1, <2>2, <2>3
<1>4. CASE SweepEnds
  BY <1>4 DEF SweepEnds, stop, counters, backoff, Sweeping, LoopAt, InBeat
<1>5. CASE Tick
  BY <1>5 DEF Tick, stop, counters, backoff, Sweeping, Stopped, LoopAt,
        InBeat
<1>6. CASE Stop
  BY <1>6 DEF Stop, stop, counters, backoff, LoopAt, InBeat
<1>7. CASE CancelLoop
  BY <1>7 DEF CancelLoop, stop, counters, backoff, Hit, LoopAt, Off, InBeat
<1>8. CASE Flushed
  BY <1>8 DEF Flushed, stop, counters, backoff, LoopAt, InBeat
<1>. QED BY <1>1, <1>2, <1>3, <1>4, <1>5, <1>6, <1>7, <1>8 DEF Next, LoopStep

\* Every step keeps what is under way within what the flush waits for.
LEMMA QuietStep ==
    ASSUME IInv, [Next]_vars
    PROVE  Quiet'
<1>. USE OptimizerAssumption
     DEF IInv, TypeOK, OneMaintainer, Quiet, StopIsQuiet, TaskPc, LoopPc
<1>1. CASE UNCHANGED vars
  BY <1>1 DEF vars, LoopAt
<1>2. ASSUME NEW k \in Kind,
               Schedule(k) \/ RunnerStep(k) \/ PruneDue(k) \/ RetryDue(k)
      PROVE  Quiet'
  <2>1. CASE Schedule(k)
    BY <2>1 DEF Schedule, stop, counters, backoff, MaySchedule, Slot, LoopAt
  <2>2. CASE Enter(k)
    BY <2>2 DEF Enter, stop, counters, backoff, RunnerEnds, BeginBeat,
           MustPark, Stopped, LoopAt
  <2>3. CASE BeatSucceeds(k)
    BY <2>3 DEF BeatSucceeds, stop, counters, backoff, AfterBeat, RunnerEnds,
           Stopped, LoopAt, InBeat
  <2>4. CASE BeatConflicts(k)
    BY <2>4 DEF BeatConflicts, stop, counters, backoff, AfterBeat,
           RunnerEnds, Stopped, LoopAt, InBeat
  <2>5. CASE BeatFails(k)
    BY <2>5 DEF BeatFails, stop, counters, backoff, AfterBeat, RunnerEnds,
           Stopped, LoopAt, InBeat, Counted
  <2>6. CASE NextBeat(k)
    BY <2>6 DEF NextBeat, stop, counters, backoff, BeginBeat, RunnerEnds,
           Stopped, LoopAt
  <2>7. CASE Unpark(k)
    BY <2>7 DEF Unpark, stop, counters, backoff, BeginBeat, RunnerEnds,
           Stopped, LoopAt
  <2>8. CASE ParkTimesOut(k)
    BY <2>8 DEF ParkTimesOut, stop, counters, backoff, Off, LoopAt
  <2>9. CASE FallbackEnds(k)
    BY <2>9 DEF FallbackEnds, stop, counters, backoff, Outcome, MayRetry,
           AfterFallback, AfterBeat, RunnerEnds, Stopped, LoopAt
  <2>10. CASE PruneDue(k)
    BY <2>10 DEF PruneDue, stop, counters, backoff, LoopAt
  <2>11. CASE RetryDue(k)
    BY <2>11 DEF RetryDue, stop, counters, backoff, LoopAt
  <2>. QED
    BY <1>2, <2>1, <2>2, <2>3, <2>4, <2>5, <2>6, <2>7, <2>8, <2>9, <2>10, <2>11
    DEF RunnerStep
<1>3. ASSUME NEW k \in Kind, Visit(k) \/ RebuildEnds(k) \/ WaitTimesOut(k)
      PROVE  Quiet'
  <2>1. CASE Visit(k)
    BY <2>1 DEF Visit, stop, counters, backoff, Stopped, LoopAt
  <2>2. CASE RebuildEnds(k)
    BY <2>2 DEF RebuildEnds, stop, counters, backoff, LoopAt, Outcome,
           MayRetry, Sweeping
  <2>3. CASE WaitTimesOut(k)
    BY <2>3 DEF WaitTimesOut, stop, counters, backoff, LoopAt, Sweeping
  <2>. QED BY <1>3, <2>1, <2>2, <2>3
<1>4. CASE SweepEnds
  BY <1>4 DEF SweepEnds, stop, counters, backoff, Sweeping, LoopAt
<1>5. CASE Tick
  BY <1>5 DEF Tick, stop, counters, backoff, Sweeping, Stopped, LoopAt
<1>6. CASE Stop
  BY <1>6 DEF Stop, stop, counters, backoff, LoopAt
<1>7. CASE CancelLoop
  BY <1>7 DEF CancelLoop, stop, counters, backoff, Hit, LoopAt, Off
<1>8. CASE Flushed
  BY <1>8 DEF Flushed, stop, counters, backoff, LoopAt
<1>. QED BY <1>1, <1>2, <1>3, <1>4, <1>5, <1>6, <1>7, <1>8 DEF Next, LoopStep

\* The whole invariant holds at the start and is kept.
LEMMA Invariant == Spec => []IInv
<1>1. Init => IInv
  BY OptimizerAssumption
  DEF Init, IInv, TypeOK, TaskPc, LoopPc, OneMaintainer, Aside, Quiet,
      StopIsQuiet, InBeat, LoopAt, Sweeping
<1>2. IInv /\ [Next]_vars => IInv'
  BY TypeStep, ExclusionStep, QuietStep DEF IInv
<1>. QED BY <1>1, <1>2, PTL DEF Spec

-----------------------------------------------------------------------------
(* The theorems.                                                           *)

\* The states of runners, loop and counters stay within their types, and the
\* retries of a rebuild within the backoff schedule.
THEOREM OptimizerTypes == Spec => []TypeOK
BY Invariant, PTL DEF IInv

\* No beat runs beside a rebuild of the same table, and every rebuild has
\* exactly the owner that its slot names.
THEOREM MaintenanceExcludes == Spec => []OneMaintainer
BY Invariant, PTL DEF IInv

\* When stop has returned, no runner, rebuild or loop is under way.
THEOREM StopLeavesNothing == Spec => []StopIsQuiet
BY Invariant, PTL DEF IInv, Quiet
=============================================================================
