------------------------------ MODULE Clusters -------------------------------
(***************************************************************************)
(* The topic clusters of one owner (tables cluster and cluster_member) and *)
(* the strategy trigger_profile_clustering, which files every new episode  *)
(* into one of them.  A run reads all clusters, decides by geometry which  *)
(* one the episode joins, and writes back the member list it has read with *)
(* the episode added.  Runs of one owner are serialised by the strategy's  *)
(* partition lock; nothing else that changes the tables takes that lock.   *)
(***************************************************************************)
EXTENDS Naturals, FiniteSets

CONSTANTS Clusters,   \* cluster ids
          Entries,    \* entry ids
          MaxTries    \* attempts of a run: max_retries + 1

VARIABLES
    members,  \* cluster_member: cluster -> set of entry ids
    rows,     \* cluster: the ids that have a row
    todo,     \* entry -> attempts left of its clustering run, 0 when none is due
    filing    \* the run that holds the partition lock

clusterVars == <<members, rows, todo, filing>>

NoRun == [at |-> "idle", entry |-> 0, seen |-> [k \in Clusters |-> {}], known |-> {}]

InitClusters == /\ members = [k \in Clusters |-> {}]
                /\ rows    = {}
                /\ todo    = [e \in Entries |-> 0]
                /\ filing  = NoRun

-----------------------------------------------------------------------------
(* The repository's operations. *)

RemoveMembers(k, E) == members' = [members EXCEPT ![k] = @ \ E]
AddMember(k, e)     == members' = [members EXCEPT ![k] = @ \cup {e}]

(* Members of the snapshot that have no row are inserted; none is deleted. *)
UpsertWithMembers(k, M) == /\ rows'    = rows \cup {k}
                           /\ members' = [members EXCEPT ![k] = @ \cup M]

-----------------------------------------------------------------------------
(* trigger_profile_clustering. *)

(* An event is filed until a run of it ends or no attempt is left.         *)
MayFile(e) == todo[e] > 0

(* The lock, the embedding of the text, and then the list.                 *)
BeginFiling(e) == /\ filing.at = "idle"
                  /\ MayFile(e)
                  /\ filing' = [at |-> "merges", entry |-> e, seen |-> members, known |-> rows]
                  /\ UNCHANGED <<members, rows, todo>>

(* The geometry is deterministic: an episode that is already a member goes *)
(* to its own cluster again; any other one joins any cluster, or a new one *)
(* that is not in the list.                                                *)
Targets(run) ==
    LET own == {k \in run.known : run.entry \in run.seen[k]}
        new == Clusters \ rows
    IN  IF own # {} THEN own ELSE run.known \cup new

FileEntry == /\ filing.at = "merges"
             /\ \E k \in Targets(filing) :
                  UpsertWithMembers(k, filing.seen[k] \cup {filing.entry})
             /\ filing' = [filing EXCEPT !.at = "emits"]
             /\ UNCHANGED todo

EndFiling == /\ filing.at = "emits"
             /\ todo'   = [todo EXCEPT ![filing.entry] = 0]
             /\ filing' = NoRun
             /\ UNCHANGED <<members, rows>>

(* An attempt that raises is retried later, or is a dead letter. *)
FilingRaises == /\ filing.at # "idle"
                /\ todo'   = [todo EXCEPT ![filing.entry] = @ - 1]
                /\ filing' = NoRun
                /\ UNCHANGED <<members, rows>>

FilingStep == (\E e \in Entries : BeginFiling(e)) \/ FileEntry \/ EndFiling
=============================================================================
