----------------------------- MODULE Projection ------------------------------
(***************************************************************************)
(* What the cascade promises of the files, the index and the rows that are *)
(* done.  A row that is done vouches for what the index shows of its path; *)
(* what is vouched for is so, and stays so until nobody vouches for it any *)
(* more.  Events, sweeps, claims, handlers and processes are not seen.     *)
(***************************************************************************)
EXTENDS Naturals

CONSTANTS Path,
          Torn    \* what an index shows that is between two versions

VARIABLES
    file,    \* path -> version on disk, or Absent
    newest,  \* path -> latest version ever written
    view,    \* path -> version the index shows, or Absent, or Torn
    vouched  \* path -> the versions vouched for, one at most

Absent == 0

Init ==
    /\ file = [p \in Path |-> Absent]
    /\ newest = [p \in Path |-> 0]
    /\ view = [p \in Path |-> Absent]
    /\ vouched = [p \in Path |-> {}]

Write(p) ==
    /\ newest' = [newest EXCEPT ![p] = @ + 1]
    /\ file' = [file EXCEPT ![p] = newest[p] + 1]
    /\ UNCHANGED <<view, vouched>>

Remove(p) ==
    /\ file' = [file EXCEPT ![p] = Absent]
    /\ UNCHANGED <<newest, view, vouched>>

\* The index is changed where nobody vouches for it, and only to what the file
\* has been.
Show ==
    /\ view' = [p \in Path |-> view'[p]]
    /\ \A p \in Path : view'[p] # view[p] =>
          /\ vouched[p] = {}
          /\ view'[p] \in {Absent, Torn} \cup 1 .. newest[p]
    /\ UNCHANGED <<file, newest, vouched>>

\* The index shows version v, or the file has moved on from it, which any sweep
\* can tell; that there is nothing in the index is vouched for as it is.
So(p, v) == view[p] = v \/ v \notin {Absent, file[p]}

Vouch(p) ==
    /\ vouched[p] = {}
    /\ \E v \in 0 .. newest[p] :
          /\ So(p, v)
          /\ vouched' = [vouched EXCEPT ![p] = {v}]
    /\ UNCHANGED <<file, newest, view>>

\* Paths are enqueued again, or the queue is reset.
Doubt ==
    /\ \E S \in SUBSET Path :
          vouched' = [p \in Path |-> IF p \in S THEN {} ELSE vouched[p]]
    /\ UNCHANGED <<file, newest, view>>

Next ==
    \/ \E p \in Path : Write(p) \/ Remove(p) \/ Vouch(p)
    \/ Show
    \/ Doubt

Spec == Init /\ [][Next]_<<file, newest, view, vouched>>
=============================================================================
