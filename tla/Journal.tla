------------------------------- MODULE Journal -------------------------------
(***************************************************************************)
(* What the reader of a day's episodes is promised: the file only grows,   *)
(* entry by entry, and an entry is marked as replaced only by one that is  *)
(* in the file, is not replaced itself, and tells of all that the replaced *)
(* one told.  Who appends, under which lock, what is clustered and merged, *)
(* and how far a cycle has come is not seen.                               *)
(***************************************************************************)
EXTENDS Naturals, Sequences

VARIABLES
    entries,   \* each with a number and a body, which tells of a set of cells
    replaced,  \* number of an entry -> number of the one that replaced it
    excused    \* cells that need not be told of any more

Init == entries = <<>> /\ replaced = <<>> /\ excused = {}

Tells(i) == entries[i].body.of

Append1 ==
    LET n == Len(entries) + 1
    IN  /\ DOMAIN entries' = 1 .. n
        /\ \A i \in DOMAIN entries : entries'[i] = entries[i]
        /\ entries'[n].id = n
        /\ UNCHANGED <<replaced, excused>>

Replace(S, m) ==
    /\ S \subseteq DOMAIN entries
    /\ m \in DOMAIN entries \ (S \cup DOMAIN replaced)
    /\ \A i \in S : Tells(i) \subseteq Tells(m) \cup excused
    /\ replaced' = [i \in DOMAIN replaced \cup S |->
                       IF i \in S THEN m ELSE replaced[i]]
    /\ UNCHANGED <<entries, excused>>

Excuse ==
    /\ excused \subseteq excused'
    /\ UNCHANGED <<entries, replaced>>

Next ==
    \/ Excuse
    \/ Append1
    \/ \E S \in SUBSET DOMAIN entries, m \in DOMAIN entries : Replace(S, m)

Spec == Init /\ [][Next]_<<entries, replaced, excused>>
=============================================================================
