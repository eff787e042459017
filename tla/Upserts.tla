------------------------------ MODULE Upserts --------------------------------
(***************************************************************************)
(* What the store promises to those who upsert into one table: an upsert   *)
(* takes effect at one moment between its call and its end, or not at all, *)
(* and one that returns has taken effect.  The lock, its queue and what a  *)
(* merge_insert reads before it writes are not seen.                       *)
(***************************************************************************)
CONSTANT Writer

VARIABLES
    calling,  \* the writers whose upsert is under way
    kept,     \* the rows of the table, by writer
    told      \* the writers whose upsert returned

Init == calling = {} /\ kept = {} /\ told = {}

Call(k) ==
    /\ k \notin calling
    /\ calling' = calling \cup {k}
    /\ UNCHANGED <<kept, told>>

\* The row is in the table although the call has not returned.
Land(k) ==
    /\ k \in calling
    /\ kept' = kept \cup {k}
    /\ UNCHANGED <<calling, told>>

Succeed(k) ==
    /\ k \in calling
    /\ calling' = calling \ {k}
    /\ kept' = kept \cup {k}
    /\ told' = told \cup {k}

\* The caller is told that the store is busy, whether the row is in or not.
TimeOut(k) ==
    /\ k \in calling
    /\ calling' = calling \ {k}
    /\ UNCHANGED <<kept, told>>

Crash ==
    /\ calling' = {}
    /\ UNCHANGED <<kept, told>>

\* The table is dropped, while nobody writes it.
Drop ==
    /\ calling = {}
    /\ kept' = {} /\ told' = {}
    /\ UNCHANGED calling

Next ==
    \/ \E k \in Writer : Call(k) \/ Land(k) \/ Succeed(k) \/ TimeOut(k)
    \/ Crash
    \/ Drop

Spec == Init /\ [][Next]_<<calling, kept, told>>
=============================================================================
