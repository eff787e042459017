---------------------------- MODULE Consolidation ----------------------------
(***************************************************************************)
(* Episodes of one owner from the pipeline's append to their consolidation:*)
(* the pipeline appends an episode and announces it; clustering files it;  *)
(* the cascade indexes it; the reflection merges the members of a cluster  *)
(* into one episode, announces that, and deprecates the originals in the   *)
(* file, in the index, and in the cluster, one after the other.  A run     *)
(* reads the members twice, at the beginning and before it deprecates; all *)
(* that other tasks do in between is interleaved here.                     *)
(***************************************************************************)
EXTENDS EpisodeIndex

CONSTANTS Cells,      \* memcells: one episode each
          Clusters,   \* cluster ids
          MaxTries,   \* attempts of a clustering run
          MaxMerges   \* bound: merged episodes that are written

ASSUME ConsolidationAssumption ==
    /\ None \notin [of : SUBSET Cells, merge : Nat]
    /\ MaxTries \in Nat \ {0} /\ MaxMerges \in Nat

VARIABLES
    members, rows, todo, filing,  \* as in module Clusters
    left,      \* cells whose episode is not appended yet
    run,       \* reflector -> the cycle it is in
    merges,    \* merged episodes asked for so far
    omitted,   \* history: cells that an update was not told of
    reports    \* reflection_report

vars == <<logVars, indexVars, faults, members, rows, todo, filing, left, run, merges,
          omitted, reports>>

CL == INSTANCE Clusters WITH Entries <- Ids

(* A body: the cells it tells of, and the merge it is from, 0 for an       *)
(* original.                                                               *)
Original(c) == [of |-> {c}, merge |-> 0]
IsMerged(body) == body.merge > 0

NoCycle == [at |-> "idle", queue |-> {}, cluster |-> None, original |-> {},
            episodes |-> <<>>, merged |-> 0, targets |-> {}]

Init == /\ InitLog /\ InitIndex /\ CL!InitClusters
        /\ faults = 0
        /\ left = Cells
        /\ run = [r \in Reflectors |-> NoCycle]
        /\ merges = 0 /\ omitted = {}
        /\ reports = {}

clusterVars    == <<members, rows, todo, filing>>
asked          == <<merges, omitted>>
reflectionVars == <<run, asked, reports>>

-----------------------------------------------------------------------------
(* The pipeline: append, then emit EpisodeExtracted(source = pipeline).    *)

Append1(t, c) == /\ task[t].at = "idle" /\ c \in left
                 /\ left' = left \ {c}
                 /\ Asks(t, Original(c), <<>>)
                 /\ UNCHANGED <<log, holder, indexVars, faults, clusterVars,
                                reflectionVars>>

Announce(t) == /\ t \in Pipes /\ task[t].at = "written"
               /\ todo' = [todo EXCEPT ![task[t].id] = MaxTries]
               /\ DueFacts(task[t].id)
               /\ task' = [task EXCEPT ![t] = NoWrite]
               /\ UNCHANGED <<log, holder, row, dirty, sync, swallowed, faults, members,
                              rows, filing, left, reflectionVars>>

(* The append raises and the request fails; the cell is not tried again.   *)
GiveUp(t) == /\ t \in Pipes /\ task[t].at = "raised"
             /\ task' = [task EXCEPT ![t] = NoWrite]
             /\ UNCHANGED <<log, holder, indexVars, faults, clusterVars, left,
                            reflectionVars>>

WriteStep(t) == /\ WriterStep(t)
                /\ dirty' = (dirty \/ log' # log)
                /\ UNCHANGED <<row, sync, swallowed, fact, clusterVars, left,
                               reflectionVars>>

-----------------------------------------------------------------------------
(* Clustering and cascade beside it. *)

File == /\ CL!FilingStep
        /\ UNCHANGED <<logVars, indexVars, faults, left, reflectionVars>>

FileRaises == /\ CL!FilingRaises /\ faults < MaxFaults
              /\ faults' = faults + 1
              /\ UNCHANGED <<logVars, indexVars, left, reflectionVars>>

Sync == /\ \/ SyncReads /\ UNCHANGED faults
           \/ SyncApplies /\ UNCHANGED faults
           \/ SyncMarks \/ SyncRaises
        /\ UNCHANGED <<logVars, clusterVars, left, reflectionVars>>

Facts == /\ \E i \in Ids : Extract(i) \/ ExtractFails(i) \/ IndexFacts(i)
         /\ UNCHANGED <<logVars, clusterVars, left, reflectionVars>>

-----------------------------------------------------------------------------
(* One reflection cycle of an owner, cluster by cluster.                   *)

Goes(r, c) == run' = [run EXCEPT ![r] = c]
Moves(r, at) == Goes(r, [run[r] EXCEPT !.at = at])
NextCluster(r) == Goes(r, [NoCycle EXCEPT
                    !.at = IF run[r].queue = {} THEN "idle" ELSE "next",
                    !.queue = run[r].queue])

ReflectorOnly == UNCHANGED <<logVars, indexVars, faults, clusterVars, left, asked,
                             reports>>

(* _select_candidates. *)
Candidates == {k \in rows : Cardinality(members[k]) >= 2}

Select(r) == /\ run[r].at = "idle" /\ merges < MaxMerges
             /\ Candidates # {}
             /\ Goes(r, [NoCycle EXCEPT !.at = "next", !.queue = Candidates])
             /\ ReflectorOnly

(* _load_cluster_episodes: the member rows, then the index rows of those   *)
(* members; deprecated ones are not filtered, missing ones are not missed. *)
LoadMembers(r) == /\ run[r].at = "next"
                  /\ \E k \in run[r].queue :
                       LET rest == run[r].queue \ {k}
                       IN  Goes(r, IF members[k] = {}
                                   THEN [NoCycle EXCEPT !.queue = rest, !.at =
                                            IF rest = {} THEN "idle" ELSE "next"]
                                   ELSE [NoCycle EXCEPT !.at = "loads", !.queue = rest,
                                            !.cluster = k, !.original = members[k]])
                  /\ ReflectorOnly

FetchEpisodes(r) ==
    LET found == run[r].original \cap Present
    IN  /\ run[r].at = "loads"
        /\ IF found = {} THEN NextCluster(r)
           ELSE Goes(r, [run[r] EXCEPT !.at = "reflects",
                           !.episodes = [i \in found |-> row[i].body]])
        /\ ReflectorOnly

(* areflect tells of all episodes; in update mode, of the new ones and of  *)
(* the one merged episode that sorts first.                                *)
CellsOf(eps, E) == UNION {eps[i].of : i \in E}

Told(eps) ==
    LET merged == {i \in DOMAIN eps : IsMerged(eps[i])}
        new    == DOMAIN eps \ merged
    IN  IF merged = {} THEN {CellsOf(eps, new)}
        ELSE {CellsOf(eps, new \cup {old}) : old \in merged}

Reflect(r) == /\ run[r].at = "reflects" /\ merges < MaxMerges
              /\ merges' = merges + 1
              /\ LET eps == run[r].episodes
                 IN  \E of \in Told(eps) :
                       /\ Asks(r, [of |-> of, merge |-> merges + 1], <<>>)
                       /\ omitted' = omitted \cup (CellsOf(eps, DOMAIN eps) \ of)
              /\ Moves(r, "writes")
              /\ UNCHANGED <<log, holder, indexVars, faults, clusterVars, left, reports>>

(* The merged episode is in the file; EpisodeExtracted(source =            *)
(* reflection) goes to the facts and not to the clustering.                *)
Emit(r) == /\ run[r].at = "writes" /\ task[r].at = "written"
           /\ DueFacts(task[r].id)
           /\ Goes(r, [run[r] EXCEPT !.at = "waits", !.merged = task[r].id])
           /\ task' = [task EXCEPT ![r] = NoWrite]
           /\ UNCHANGED <<log, holder, row, dirty, sync, swallowed, faults,
                          clusterVars, left, asked, reports>>

(* wait_for_event returns when no run is pending, a failed attempt that is *)
(* waiting for its retry included.                                         *)
Settled(i) == fact[i] # "due"

Waited(r) == /\ run[r].at = "waits" /\ Settled(run[r].merged)
             /\ Moves(r, "resolves")
             /\ ReflectorOnly

(* After 120 s the merged episode stays, and so do the originals.          *)
WaitTimesOut(r) == /\ run[r].at = "waits"
                   /\ faults < MaxFaults /\ faults' = faults + 1
                   /\ NextCluster(r)
                   /\ UNCHANGED <<logVars, indexVars, clusterVars, left, asked,
                                  reports>>

-----------------------------------------------------------------------------
(* _execute_deprecation, under the lock of the cluster.                    *)

MayDeprecate(r) == \A q \in Reflectors \ {r} :
    run[q].cluster = run[r].cluster => run[q].at \notin {"patches", "patching", "marks",
                                        "facts", "removes", "adds", "reports"}

(* _resolve_deprecation_targets. *)
TargetsOf(cycle) == cycle.original \cap members[cycle.cluster]

Resolve(r) == /\ run[r].at = "resolves" /\ MayDeprecate(r)
              /\ LET T == TargetsOf(run[r])
                 IN  IF T = {} THEN NextCluster(r)
                     ELSE Goes(r, [run[r] EXCEPT !.at = "patches", !.targets = T])
              /\ ReflectorOnly

(* _patch_md_frontmatter: only episodes that were fetched have a path.     *)
Patched_All(cycle) == cycle.targets
Patched(cycle) == cycle.targets \cap DOMAIN cycle.episodes

Patch(r) == LET P == Patched(run[r])
            IN  /\ run[r].at = "patches"
                /\ IF P = {} THEN Moves(r, "marks") /\ UNCHANGED task
                   ELSE /\ Moves(r, "patching")
                        /\ Asks(r, None, [i \in P |-> run[r].merged])
                /\ UNCHANGED <<log, holder, indexVars, faults, clusterVars, left,
                               asked, reports>>

(* _deprecate_lance_episodes and _deprecate_lance_facts: what has no row   *)
(* is not marked.                                                          *)
MarkRows(r) == /\ \/ run[r].at = "marks"
                  \/ run[r].at = "patching" /\ task[r].at = "written"
               /\ row' = Deprecate(row, [i \in run[r].targets |-> run[r].merged])
               /\ Moves(r, "facts")
               /\ task' = [task EXCEPT ![r] = NoWrite]
               /\ UNCHANGED <<log, holder, dirty, sync, swallowed, fact, faults,
                              clusterVars, left, asked, reports>>

MarkFacts(r) == /\ run[r].at = "facts"
                /\ fact' = [i \in Ids |-> IF i \in run[r].targets /\ fact[i] = "live"
                                          THEN "deprecated" ELSE fact[i]]
                /\ Moves(r, "removes")
                /\ UNCHANGED <<logVars, row, dirty, sync, swallowed, faults,
                               clusterVars, left, asked, reports>>

(* _update_cluster_after_merge. *)
Remove(r) == /\ run[r].at = "removes"
             /\ CL!RemoveMembers(run[r].cluster, run[r].targets)
             /\ Moves(r, "adds")
             /\ UNCHANGED <<logVars, indexVars, faults, rows, todo, filing, left, asked,
                            reports>>

Add(r) == /\ run[r].at = "adds"
          /\ CL!AddMember(run[r].cluster, run[r].merged)
          /\ Moves(r, "reports")
          /\ UNCHANGED <<logVars, indexVars, faults, rows, todo, filing, left, asked,
                         reports>>

Report(r) == /\ run[r].at = "reports"
             /\ reports' = reports \cup {[cluster |-> run[r].cluster,
                              sources |-> run[r].targets, merged |-> run[r].merged]}
             /\ NextCluster(r)
             /\ UNCHANGED <<logVars, indexVars, faults, clusterVars, left, asked>>

(* Whatever an await of the cycle raises is logged, and the cycle goes on  *)
(* with its next cluster; what it has written stays.                       *)
CycleRaises(r) ==
    \/ /\ run[r].at \in {"writes", "patching"} /\ task[r].at = "raised"
       /\ task' = [task EXCEPT ![r] = NoWrite]
       /\ NextCluster(r)
       /\ UNCHANGED <<log, holder, indexVars, faults, clusterVars, left, asked, reports>>
    \/ /\ run[r].at \in {"reflects", "marks", "facts", "removes", "adds", "reports"}
       /\ faults < MaxFaults /\ faults' = faults + 1
       /\ NextCluster(r)
       /\ UNCHANGED <<logVars, indexVars, clusterVars, left, asked, reports>>

Cycle(r) == \/ Select(r) \/ LoadMembers(r) \/ FetchEpisodes(r) \/ Reflect(r) \/ Emit(r)
            \/ Waited(r) \/ WaitTimesOut(r) \/ Resolve(r) \/ Patch(r) \/ MarkRows(r)
            \/ MarkFacts(r) \/ Remove(r) \/ Add(r) \/ Report(r)
            \/ CycleRaises(r)

-----------------------------------------------------------------------------
(* The server dies and restarts: tasks and locks are gone, files, tables   *)
(* and the attempts of the engine's runs are not; the scan after the start *)
(* finds what the handler had not finished.                                *)
CrashVolatile ==
    /\ task'   = [t \in Tasks |-> NoWrite]
    /\ holder' = [p \in DOMAIN holder |-> None]
    /\ filing' = CL!NoRun
    /\ run'    = [r \in Reflectors |-> NoCycle]

Crash == /\ faults < MaxFaults /\ faults' = faults + 1
         /\ CrashVolatile
         /\ dirty' = (dirty \/ sync.at # "idle")
         /\ sync'  = NoSync
         /\ UNCHANGED <<log, row, swallowed, fact, members, rows, todo, left, asked,
                        reports>>

(* cascade rebuild refuses to run while a server is up.                    *)
Rebuild == /\ faults < MaxFaults /\ faults' = faults + 1
           /\ Dropped
           /\ CrashVolatile
           /\ UNCHANGED <<log, members, rows, todo, left, asked, reports>>

Next == \/ \E t \in Pipes : (\E c \in Cells : Append1(t, c)) \/ Announce(t) \/ GiveUp(t)
        \/ \E t \in Tasks : WriteStep(t)
        \/ File \/ FileRaises \/ Sync \/ Facts
        \/ \E r \in Reflectors : Cycle(r)
        \/ Crash \/ Rebuild

Spec == Init /\ [][Next]_vars
=============================================================================
