-------------------------- MODULE OptimizerProperties -------------------------
(***************************************************************************)
(* What index maintenance is to do.                                        *)
(***************************************************************************)
EXTENDS CascadeOptimizer, FiniteSets

\* Types; the retries of a rebuild stay within the backoff schedule.
TypeOK ==
    /\ mode \in {"up", "stopping", "flushing", "stopped"}
    /\ dirty \in [Kind -> BOOLEAN]
    /\ task \in [Kind -> TaskPc]
    /\ rebuild \in [Kind -> {"none", "loop", "runner"}]
    /\ loop \in [pc : LoopPc, at : SUBSET Kind, todo : SUBSET Kind]
    /\ due \in [Kind -> BOOLEAN]
    /\ streak \in [Kind -> 0..AlertThreshold]
    /\ since \in [Kind -> 0..AlertThreshold]
    /\ tries \in [Kind -> 0..ConflictBackoffs]
    /\ retry \in [Kind -> {"none", "later", "now"}]
    /\ awaited \subseteq Kind

\* No table is compacted or pruned while its indexes are rebuilt, and each
\* rebuild has one that awaits it: the two sides look at each other's slot at
\* different moments, and the loop does not look again after its wait.
OneMaintainer ==
    \A k \in Kind :
        /\ rebuild[k] # "none" => task[k] \notin InBeat
        /\ rebuild[k] = "runner" <=> task[k] = "fallback"
        /\ rebuild[k] = "loop" <=> LoopAt("rebuilding", k)

\* When stop has returned nothing commits any more, although the flush waits
\* only for what it found when it began.
StopIsQuiet ==
    mode = "stopped" =>
        /\ loop.pc = "off"
        /\ \A k \in Kind : task[k] = "none" /\ rebuild[k] = "none"

\* While the worker is up a table whose prune is due is pruned, whatever
\* fails, times out or is cancelled by the other side.
PrunesGoOn == \A k \in Kind : due[k] ~> ~due[k] \/ Stopped

\* A table whose beats fail for good, with no success in between, is reported
\* degraded for good: the fallback rebuild does not clear the alert.
StuckIsReported ==
    \A k \in Kind :
        /\ <>[][~BeatSucceeds(k)]_vars
        /\ []<><<BeatFails(k)>>_vars
        => <>[](streak[k] >= AlertThreshold)
=============================================================================
