-------------------------------- MODULE Upload --------------------------------
(***************************************************************************)
(* What device and service promise together of the lines that the agent    *)
(* writes: the service takes messages in and never gives one away, and the *)
(* cursor of the device moves forward only over lines that it has taken;   *)
(* of the messages of one second it may have taken one for another.        *)
(* Calls, sessions, retries, buffers and cells are not seen.               *)
(***************************************************************************)
EXTENDS Naturals, Sequences

CONSTANTS Foreign,  \* messages that are not of the device
          Alike,    \* those of them that may be taken for a line
          Seconds,  \* the seconds a line may be of
          NoDate    \* what a line has instead when the time is not known

VARIABLES
    dated,  \* the lines written so far: the second of each
    kept,   \* the messages that the service has
    cursor  \* how many lines the device never sends again

Init == dated = <<>> /\ kept = {} /\ cursor = 0

IsDated(n) == n \in DOMAIN dated /\ dated[n] # NoDate
IsOf(x, n) == IsDated(n) /\ x.ts = dated[n]
IsKept(n)  == \E x \in kept : IsOf(x, n) /\ (x \in Alike \/ IsOf(x, x.body))

Write ==
    /\ \E t \in Seconds \cup {NoDate} : dated' = Append(dated, t)
    /\ UNCHANGED <<kept, cursor>>

\* Only what was written, or sent by somebody else, is taken in.
Keep ==
    /\ kept \subseteq kept'
    /\ \A x \in kept' \ kept : x \in Foreign \/ IsOf(x, x.body)
    /\ UNCHANGED <<dated, cursor>>

Advance ==
    /\ cursor' \in cursor + 1 .. Len(dated)
    /\ \A n \in cursor + 1 .. cursor' : IsDated(n) => IsKept(n)
    /\ UNCHANGED <<dated, kept>>

\* The cursor may fall back, and lines are sent again.
FallBack ==
    /\ cursor' \in 0 .. cursor
    /\ UNCHANGED <<dated, kept>>

Next == Write \/ Keep \/ Advance \/ FallBack

Spec == Init /\ [][Next]_<<dated, kept, cursor>>
=============================================================================
