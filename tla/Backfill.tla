------------------------------- MODULE Backfill -------------------------------
(***************************************************************************)
(* everos cascade backfill: a command that brings a store filled without   *)
(* embeddings up to date in three phases.  Phase 1 embeds the index rows   *)
(* whose vectors are NULL.  Phase 2 replays the events of memories that    *)
(* are in no cluster through an engine of its own that clusters only.      *)
(* Phase 3 replays the cases of clusters without a skill through an engine *)
(* that extracts skills only, and indexes the SKILL.md files.  The server  *)
(* must be down, which each phase probes at its start and the engines      *)
(* enforce by the lock of the OME store; what the command leaves behind    *)
(* when it is interrupted, the server or the next command finds.           *)
(***************************************************************************)
EXTENDS Integers, FiniteSets

CONSTANTS Rows,         \* index rows
          HasSubject,   \* the rows with a subject, which has a vector of its own
          Memories,     \* episodes and agent cases that clustering files
          Cases,        \* those that are cases
          Poor,         \* cases of too low a quality to be filed
          Clusters,     \* cluster ids
          MaxText,      \* bound: edits of a row's text
          MaxRuns,      \* bound: starts of the command
          MaxStarts,    \* bound: starts of the server
          MaxFaults,    \* bound: failures, timeouts and interrupts
          None

ASSUME BackfillAssumption ==
    /\ IsFiniteSet(Rows) /\ HasSubject \subseteq Rows
    /\ Poor \subseteq Cases /\ Cases \subseteq Memories
    /\ MaxText \in Nat \ {0}
    /\ {MaxRuns, MaxStarts, MaxFaults} \subseteq Nat

VARIABLES
    row,     \* index row: its text, and which text its vectors are of (0 is NULL)
    members, \* memory -> the clusters it is a member of
    queue,   \* runs that the engine which is up has yet to end, by what they do
    orphans, \* RUNNING rows of runs of engines that are gone
    filing,  \* memories with a run at work, after its upsert
    dead,    \* memories of which a run was given up since the command began
    drained, \* phase 2 has not stopped its engine before the end of all runs
    md, touched, \* clusters that a SKILL.md names; those written since their row was
    change, claims, \* queue row of the SKILL.md of a cluster; those the command handles
    idx,     \* clusters that a row of the skill index names
    server,  \* the server is up and holds the lock
    bf,      \* the command
    starts, runs, faults

ome     == <<queue, orphans, filing, dead, drained>>
cascade == <<touched, change, claims, idx>>
bounds  == <<starts, runs, faults>>
vars    == <<row, members, ome, md, cascade, server, bf, bounds>>

(* What a run does: file a memory, or extract skills from a case.          *)
File(m)  == <<"file", m>>
Learn(c) == <<"learn", c>>
Work     == {File(m) : m \in Memories} \cup {Learn(c) : c \in Cases}
NoWork   == [w \in Work |-> 0]

NoVectors == [i \in {} |-> 0]
Off(code) == [at |-> "off", phase |-> 0, rows |-> NoVectors, made |-> NoVectors,
              todo |-> {}, seen |-> {}, failed |-> 0, exit |-> code]

Init == /\ row \in [Rows -> [text : {1}, vec : {0, 1}, sub : {0, 1}]]
        /\ \A i \in Rows \ HasSubject : row[i].sub = 0
        /\ members = [m \in Memories |-> {}]
        /\ queue = NoWork /\ orphans = NoWork
        /\ filing = {} /\ dead = {} /\ drained = TRUE
        /\ md = {} /\ touched = {} /\ claims = {} /\ idx = {}
        /\ change = [k \in Clusters |-> "none"]
        /\ server = FALSE
        /\ bf = Off(None)
        /\ starts = 0 /\ runs = 0 /\ faults = 0

Fault == faults < MaxFaults /\ faults' = faults + 1

-----------------------------------------------------------------------------
(* The command. *)

Goes(at) == bf' = [bf EXCEPT !.at = at]
Exits(code) == bf' = [Off(code) EXCEPT !.rows = bf.rows, !.seen = bf.seen, !.failed = bf.failed]

(* After a phase comes the next one of --phase all; a run that ends tells  *)
(* of the rows that phase 1 has counted as failed.                         *)
NextPhase(failed) ==
    IF bf.phase = 3
    THEN bf' = [Off(IF failed > 0 THEN 4 ELSE 0) EXCEPT !.rows = bf.rows,
                    !.seen = bf.seen, !.failed = failed]
    ELSE bf' = [bf EXCEPT !.at = "probes", !.phase = @ + 1, !.made = NoVectors,
                    !.todo = {}, !.failed = failed]

StoreOnly == UNCHANGED <<row, members, ome, md, cascade, server>>

Begin == /\ bf.at = "off" /\ runs < MaxRuns
         /\ runs' = runs + 1
         /\ bf' = [Off(None) EXCEPT !.at = "probes", !.phase = 1]
         /\ dead' = {} /\ drained' = TRUE
         /\ UNCHANGED <<row, members, queue, orphans, filing, md, cascade, server, starts,
                        faults>>

(* SKILL.md files that an interrupted run has left are indexed before the  *)
(* scan of phase 3, which takes the clusters they name for done.           *)
FirstOf_Scan(phase) == "scans"
FirstOf(phase) == IF phase = 3 THEN "syncs first" ELSE "scans"

(* The lock is taken and released at once: whoever takes it next may.      *)
Probe == /\ bf.at = "probes"
         /\ IF server THEN Exits(3)
            ELSE Goes(FirstOf(bf.phase))
         /\ StoreOnly /\ UNCHANGED bounds

(* An engine that stops takes with it what waits for a slot or sleeps      *)
(* before the next attempt, and leaves jobs that no other engine runs; an  *)
(* attempt at work stays RUNNING in the store.                             *)
HoldsLock == bf.at \in {"emits", "waits"}

SomeOf(counts) == {f \in [Work -> UNION {0 .. counts[w] : w \in Work}] :
                        \A w \in Work : f[w] <= counts[w]}

Abandoned == /\ \E running \in SomeOf(queue) :
                   /\ \A m \in filing : running[File(m)] > 0
                   /\ orphans' = [w \in Work |-> orphans[w] + running[w]]
             /\ queue' = NoWork /\ filing' = {}

(* Ctrl-C, wherever it hits.                                               *)
Interrupt == /\ bf.at # "off" /\ Fault
             /\ Exits(130)
             /\ IF HoldsLock THEN Abandoned ELSE UNCHANGED <<queue, orphans, filing>>
             /\ claims' = {}
             /\ UNCHANGED <<row, members, dead, drained, md, touched, change, idx, server,
                            starts, runs>>

Decline == /\ bf.at = "asks" /\ Fault
           /\ Exits(1)
           /\ StoreOnly /\ UNCHANGED <<starts, runs>>

-----------------------------------------------------------------------------
(* Phase 1: vectors. *)

Sides(i)    == IF i \in HasSubject THEN {"vec", "sub"} ELSE {"vec"}
Needs(i, r) == {s \in Sides(i) : r[s] = 0}

ScanVectors == LET todo == {i \in Rows : Needs(i, row[i]) # {}}
               IN  /\ bf.at = "scans" /\ bf.phase = 1
                   /\ IF todo = {} THEN NextPhase(0)
                      ELSE bf' = [bf EXCEPT !.at = "asks", !.rows = [i \in todo |-> row[i]]]
                   /\ StoreOnly /\ UNCHANGED bounds

(* A batch that fails is embedded row by row; what fails again has no      *)
(* vector.  A row without its primary vector is counted here.              *)
Unembedded_None(made) == {i \in DOMAIN made : made[i] \ Sides(i) # {}}
Unembedded(made) == {i \in DOMAIN made : "vec" \in Needs(i, bf.rows[i]) \ made[i]}

MayLose == UNION {{i} \X Needs(i, bf.rows[i]) : i \in DOMAIN bf.rows}

Embed ==
    /\ bf.at = "asks" /\ bf.phase = 1
    /\ \E lost \in SUBSET MayLose :
         LET made == [i \in DOMAIN bf.rows |-> {s \in Needs(i, bf.rows[i]) : <<i, s>> \notin lost}]
         IN  /\ faults' = faults + Cardinality(lost) /\ faults' <= MaxFaults
             /\ bf' = [bf EXCEPT !.at = "writes", !.made = made,
                          !.todo = {i \in DOMAIN made : made[i] # {}},
                          !.failed = Cardinality(Unembedded(made))]
    /\ StoreOnly /\ UNCHANGED <<starts, runs>>

(* A partial-column update by id: the vectors of the text that was read,   *)
(* and nothing else.                                                       *)
Updated_WholeRow(r, old, made) ==
    [s \in DOMAIN r |-> IF s \in made THEN old.text ELSE old[s]]
Updated(r, old, made) ==
    [s \in DOMAIN r |-> IF s \in made THEN old.text ELSE r[s]]

Gap(i) == Needs(i, bf.rows[i]) # bf.made[i]

WriteRow == /\ bf.at = "writes" /\ bf.phase = 1
            /\ \E i \in bf.todo :
                 \/ /\ row' = [row EXCEPT ![i] = Updated(@, bf.rows[i], bf.made[i])]
                    /\ bf' = [bf EXCEPT !.todo = @ \ {i},
                                 !.failed = IF Gap(i) THEN @ + 1 ELSE @]
                    /\ UNCHANGED faults
                 \/ /\ Fault
                    /\ bf' = [bf EXCEPT !.todo = @ \ {i}, !.failed = @ + 1]
                    /\ UNCHANGED row
            /\ UNCHANGED <<members, ome, md, cascade, server, starts, runs>>

VectorsDone == /\ bf.at = "writes" /\ bf.phase = 1 /\ bf.todo = {}
               /\ NextPhase(bf.failed)
               /\ StoreOnly /\ UNCHANGED bounds

-----------------------------------------------------------------------------
(* Phases 2 and 3: replay through an engine.  Both take the lock for it;   *)
(* a server that has come up since the probe ends the command.             *)

StartEngine == /\ bf.at = "asks" /\ bf.phase \in {2, 3}
               /\ IF server THEN Exits(3) ELSE Goes("emits")
               /\ StoreOnly /\ UNCHANGED bounds

(* Phase 2 scans all memories and skips, event by event, those a cluster   *)
(* has; a cluster it finds by then, however it came about, is enough.      *)
ScanMemories == /\ bf.at = "scans" /\ bf.phase = 2
                /\ bf' = [bf EXCEPT !.at = "asks", !.todo = Memories, !.seen = Memories]
                /\ StoreOnly /\ UNCHANGED bounds

Filed(m) == members[m] # {}

EmitMemory == /\ bf.at = "emits" /\ bf.phase = 2
              /\ \E m \in bf.todo :
                   /\ bf' = [bf EXCEPT !.todo = @ \ {m}]
                   /\ queue' = IF Filed(m) THEN queue ELSE [queue EXCEPT ![File(m)] = @ + 1]
              /\ UNCHANGED <<row, members, orphans, filing, dead, drained, md, cascade, server,
                             bounds>>

(* Phase 3: the clusters without a skill in the index or on disk give all  *)
(* their cases.                                                            *)
Skilled(k) == k \in md \cup idx

ScanCases == LET todo == {c \in Cases : \E k \in members[c] : ~ Skilled(k)}
             IN  /\ bf.at = "scans" /\ bf.phase = 3
                 /\ IF todo = {} THEN NextPhase(bf.failed)
                    ELSE bf' = [bf EXCEPT !.at = "asks", !.todo = todo]
                 /\ StoreOnly /\ UNCHANGED bounds

EmitCase == /\ bf.at = "emits" /\ bf.phase = 3
            /\ \E c \in bf.todo : /\ bf' = [bf EXCEPT !.todo = @ \ {c}]
                                  /\ queue' = [queue EXCEPT ![Learn(c)] = @ + 1]
            /\ UNCHANGED <<row, members, orphans, filing, dead, drained, md, cascade, server,
                           bounds>>

Emitted == /\ bf.at = "emits" /\ bf.todo = {}
           /\ Goes("waits")
           /\ StoreOnly /\ UNCHANGED bounds

(* wait_idle ends when no run is left, a sleeping one included, or after   *)
(* 300 s; either way the engine stops and the phase goes on.               *)
Idle_NoneRunning == filing = {}
Idle == queue = NoWork

Waited == /\ bf.at = "waits"
          /\ IF Idle THEN UNCHANGED <<drained, faults>>
                     ELSE Fault /\ drained' = (drained /\ bf.phase = 3)
          /\ Abandoned
          /\ IF bf.phase = 3 THEN Goes("syncs last") ELSE NextPhase(bf.failed)
          /\ UNCHANGED <<row, members, dead, md, cascade, server, starts, runs>>

-----------------------------------------------------------------------------
(* The sync of the SKILL.md files, before the scan of phase 3 and after    *)
(* its engine: a sweep, and batches until nothing is pending.              *)

Enqueues(k) == k \in md /\ (change[k] \in {"none", "failed"} \/ k \in touched)

Swept == /\ change' = [k \in Clusters |-> IF Enqueues(k) THEN "pending" ELSE change[k]]
         /\ touched' = {}

SyncScan == /\ bf.at \in {"syncs first", "syncs last"}
            /\ Swept
            /\ Goes(IF bf.at = "syncs first" THEN "drains first" ELSE "drains last")
            /\ UNCHANGED <<row, members, ome, md, claims, idx, server, bounds>>

Drains == bf.at \in {"drains first", "drains last"}

SyncClaims == /\ Drains
              /\ \E k \in Clusters : /\ change[k] = "pending"
                                     /\ change' = [change EXCEPT ![k] = "processing"]
                                     /\ claims' = claims \cup {k}
              /\ UNCHANGED <<row, members, ome, md, touched, idx, server, bf, bounds>>

(* The handler writes the index, or fails: for now, and the next sweep     *)
(* tries again, or for good.  A row that was enqueued again stays so.      *)
Marked(k, from, to) == change' = [change EXCEPT ![k] = IF @ = from THEN to ELSE @]

Handled(k, from) ==
    \/ Marked(k, from, "done") /\ idx' = idx \cup {k} /\ UNCHANGED faults
    \/ /\ Fault
       /\ \E to \in {"failed", "parked"} : Marked(k, from, to)
       /\ UNCHANGED idx

SyncHandles == /\ \E k \in claims : Handled(k, "processing") /\ claims' = claims \ {k}
               /\ UNCHANGED <<row, members, ome, md, touched, server, bf, starts, runs>>

(* The next claim finds nothing.                                           *)
DrainEnds == claims = {} /\ \A k \in Clusters : change[k] # "pending"

SyncEnds == /\ Drains /\ DrainEnds
            /\ IF bf.at = "drains first" THEN Goes("scans") ELSE NextPhase(bf.failed)
            /\ StoreOnly /\ UNCHANGED bounds

-----------------------------------------------------------------------------
(* Runs of the strategies, in the engine that has the lock.                *)

(* Geometry sends an episode back to its own cluster, the model that files *)
(* cases may say anything.                                                 *)
TargetsOf(m) == IF m \in Cases \/ members[m] = {} THEN Clusters ELSE members[m]

FileUpsert == /\ \E m \in Memories \ (Poor \cup filing) :
                   /\ queue[File(m)] > 0
                   /\ filing' = filing \cup {m}
                   /\ \E k \in TargetsOf(m) : members' = [members EXCEPT ![m] = @ \cup {k}]
              /\ UNCHANGED <<row, queue, orphans, dead, drained, md, cascade, server, bf, bounds>>

(* SkillClusterUpdated finds a listener in the server only.                *)
Heard(m) == IF server /\ m \in Cases THEN {Learn(m)} ELSE {}

FileEnds == /\ \E m \in filing :
                 /\ filing' = filing \ {m}
                 /\ queue' = [w \in Work |-> CASE w = File(m)    -> queue[w] - 1
                                                [] w \in Heard(m) -> queue[w] + 1
                                                [] OTHER          -> queue[w]]
            /\ UNCHANGED <<row, members, orphans, dead, drained, md, cascade, server, bf, bounds>>

(* A case of low quality ends well and is in no cluster.                   *)
FileSkips == /\ \E m \in Poor : /\ queue[File(m)] > 0
                                /\ queue' = [queue EXCEPT ![File(m)] = @ - 1]
             /\ UNCHANGED <<row, members, orphans, filing, dead, drained, md, cascade, server, bf,
                            bounds>>

(* An attempt raises, before its upsert or after: the run sleeps before    *)
(* the next one, or that was the last, or its row could not be written.    *)
FileRaises == /\ Fault
              /\ \E m \in Memories :
                   /\ queue[File(m)] > 0
                   /\ filing' = filing \ {m}
                   /\ \/ UNCHANGED <<queue, dead>>
                      \/ queue' = [queue EXCEPT ![File(m)] = @ - 1] /\ dead' = dead \cup {m}
              /\ UNCHANGED <<row, members, orphans, drained, md, cascade, server, bf, starts, runs>>

(* Skills of a cluster of the case are added or updated, one by one, or    *)
(* the model finds none.                                                   *)
PersistSkill == /\ \E c \in Cases : /\ queue[Learn(c)] > 0
                                    /\ \E k \in members[c] : /\ md' = md \cup {k}
                                                             /\ touched' = touched \cup {k}
                /\ UNCHANGED <<row, members, ome, change, claims, idx, server, bf, bounds>>

Extracted == /\ \E c \in Cases : /\ queue[Learn(c)] > 0
                                 /\ queue' = [queue EXCEPT ![Learn(c)] = @ - 1]
             /\ UNCHANGED <<row, members, orphans, filing, dead, drained, md, cascade, server, bf,
                            bounds>>

-----------------------------------------------------------------------------
(* The server. *)

LockIsFree == ~ server /\ ~ HoldsLock

(* RUNNING rows that are old enough are run again, and the cascade takes   *)
(* up what was in processing.                                              *)
ServerStart == /\ LockIsFree /\ starts < MaxStarts
               /\ starts' = starts + 1
               /\ server' = TRUE
               /\ \E old \in SomeOf(orphans) :
                    /\ queue' = old
                    /\ orphans' = [w \in Work |-> orphans[w] - old[w]]
               /\ change' = [k \in Clusters |-> IF change[k] = "processing" THEN "pending"
                                                ELSE change[k]]
               /\ UNCHANGED <<row, members, filing, dead, drained, md, touched, claims, idx, bf,
                              runs, faults>>

ServerStop == /\ server
              /\ server' = FALSE
              /\ Abandoned
              /\ UNCHANGED <<row, members, dead, drained, md, cascade, bf, bounds>>

(* The cascade of the server: an edit is indexed with its vectors, skills  *)
(* are indexed.                                                            *)
IndexRow(i) == /\ row[i].text < MaxText
               /\ row' = [row EXCEPT ![i] = [s \in DOMAIN @ |->
                             IF s \in Sides(i) \cup {"text"} THEN @.text + 1 ELSE @[s]]]
               /\ UNCHANGED <<change, touched, idx, faults>>

ServerIndexes ==
    /\ server
    /\ \/ \E i \in Rows : IndexRow(i)
       \/ Swept /\ UNCHANGED <<row, idx, faults>>
       \/ \E k \in Clusters : /\ change[k] = "pending" /\ Handled(k, "pending")
                              /\ UNCHANGED <<row, touched>>
    /\ UNCHANGED <<members, ome, md, claims, server, bf, starts, runs>>

Next == \/ Begin \/ Probe \/ Interrupt \/ Decline
        \/ ScanVectors \/ Embed \/ WriteRow \/ VectorsDone
        \/ StartEngine \/ ScanMemories \/ EmitMemory \/ Emitted \/ Waited
        \/ ScanCases \/ EmitCase
        \/ SyncScan \/ SyncClaims \/ SyncHandles \/ SyncEnds
        \/ FileUpsert \/ FileEnds \/ FileSkips \/ FileRaises \/ PersistSkill \/ Extracted
        \/ ServerStart \/ ServerStop \/ ServerIndexes

Spec == Init /\ [][Next]_vars
=============================================================================
