------------------------------ MODULE MCCascade -------------------------------
(***************************************************************************)
(* Small instances of the cascade for TLC.                                 *)
(***************************************************************************)
EXTENDS CascadeProperties, TLC

CONSTANTS server, cli, p1, p2, l1, l2, l3

OnePath    == {p1}
TwoPaths   == {p1, p2}
OneCli     == {cli}
ServerLane == {l1}
TwoLanes   == {l1, l2}
ThreeLanes == {l1, l2, l3}

\* The lanes of a run, by the process that owns them.
ServerOwns    == [l \in ServerLane |-> server]
ServerOwnsTwo == [l \in TwoLanes |-> server]
ServerOwnsTwoCliOne == (l1 :> server) @@ (l2 :> server) @@ (l3 :> cli)

AllCommands == {"sync", "path", "fix", "rebuild"}

\* Lanes of one process, and paths, are told apart by nothing else.
LaneSymmetry == Permutations(TwoLanes)
PathSymmetry == Permutations(TwoLanes) \cup Permutations(TwoPaths)

\* Bounds of cascade_faults: a behaviour is followed until two batches meet
\* on a path, and no command runs once a statement of the daemon has raised.
Uncrossed  == crossed = {}
OneTrouble == faults = 0 \/ \A q \in Cli : mode[q] = "down"
=============================================================================
