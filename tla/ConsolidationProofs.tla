-------------------------- MODULE ConsolidationProofs -------------------------
(***************************************************************************)
(* Safety of the consolidation, proved for every set of pipelines, cycles, *)
(* memcells and clusters, and for every bound on entries, attempts, merges *)
(* and faults, as long as the two writer instances do not write the file   *)
(* at the same moment.                                                     *)
(***************************************************************************)
EXTENDS ConsolidationProperties, FiniteSetTheorems, SequenceTheorems, TLAPS

Entry == [id : Nat, body : Bodies]
Maps  == UNION {[D -> Ids] : D \in SUBSET Ids}
File0 == [entries : Seq(Entry), count : Nat, deprecated : Maps]

Write == [at : {"idle", "wants", "minted", "loaded", "written", "raised"},
          body : Bodies \cup {None}, map : Maps, id : Nat,
          copy : File0 \cup {None}]

\* A cycle that has its merged episode in the file.
Reflecting == {"waits", "resolves", "patches", "patching", "marks", "facts",
               "removes", "adds"}

Fetched == UNION {[D -> Bodies] : D \in SUBSET Ids}

Cycle0 == [at : {"idle", "next", "loads", "reflects", "writes", "reports"}
                  \cup Reflecting,
           queue : SUBSET Clusters, cluster : Clusters \cup {None},
           original : SUBSET Ids, episodes : Fetched, merged : Nat,
           targets : SUBSET Ids]

Row     == [body : Bodies \cup {None}, deprecated : Ids \cup {0}]
Handler == [at : {"idle", "embeds", "marks"}, file : File0, build : SUBSET Ids]
Filing  == [at : {"idle", "merges", "emits"}, entry : Nat,
            seen : [Clusters -> SUBSET Ids], known : SUBSET Clusters]

Pools == {"pipeline", "reflection"}

FileTypes  == /\ log \in File0 /\ faults \in 0 .. MaxFaults
              /\ holder \in [Pools -> Tasks \cup {None}]
              /\ task \in [Tasks -> Write]
IndexTypes == /\ row \in [Ids -> Row] /\ dirty \in BOOLEAN /\ sync \in Handler
              /\ fact \in [Ids -> FactStates]
TableTypes == /\ members \in [Clusters -> SUBSET Ids] /\ rows \subseteq Clusters
              /\ todo \in [Ids -> 0 .. MaxTries] /\ filing \in Filing
CycleTypes == /\ left \subseteq Cells /\ merges \in 0 .. MaxMerges
              /\ run \in [Reflectors -> Cycle0]

Types == FileTypes /\ IndexTypes /\ TableTypes /\ CycleTypes

\* The entries that the file has, and what one of them tells.
Known   == 1 .. log.count
Body(i) == log.entries[i].body

\* The task has minted an id or read its copy.
Busy(t) == task[t].at \in {"minted", "loaded"}

\* One task at a time is between its first read and its replacement, and
\* what it has read is what the file holds.
Alone ==
    /\ \A t \in Tasks : Busy(t) => holder[PoolOf(t)] = t
    /\ \A t, u \in Tasks : Busy(t) /\ Busy(u) => t = u
    /\ \A t \in Tasks :
         /\ task[t].at = "minted" =>
              task[t].body # None /\ task[t].id = log.count + 1
         /\ task[t].at = "loaded" =>
              /\ task[t].copy = log
              /\ task[t].body # None => task[t].id = log.count + 1
         /\ Busy(t) /\ task[t].body # None => log.count + 1 \in Ids

\* The entries are numbered, and only entries are deprecated.
Numbered ==
    /\ log.count = Len(log.entries) /\ log.count <= MaxEntries
    /\ \A i \in Known : log.entries[i].id = i
    /\ DOMAIN log.deprecated \subseteq Known

\* A pipeline appends originals; what a task has written is in the file.
Piped   == \A t \in Pipes : task[t].at # "idle" =>
             task[t].body # None /\ task[t].body.merge = 0
Written0 == \A t \in Tasks : task[t].at = "written" /\ task[t].body # None =>
             task[t].id \in Known /\ Body(task[t].id) = task[t].body

\* The tables know entries of the file, and file originals alone.
Filed ==
    /\ \A k \in Clusters :
         members[k] \subseteq Known /\ filing.seen[k] \subseteq Known
    /\ filing.at # "idle" => filing.entry \in Ids /\ todo[filing.entry] > 0
    /\ \A i \in Ids : todo[i] > 0 => i \in Known /\ Body(i).merge = 0

\* A file that was read is a beginning of what the file is now.
Begins(file) ==
    /\ file.count = Len(file.entries) /\ file.count <= log.count
    /\ \A i \in 1 .. file.count : file.entries[i] = log.entries[i]

\* The index holds what the file says.
Indexed ==
    /\ \A i \in Ids : row[i].body # None => i \in Known /\ row[i].body = Body(i)
    /\ Begins(sync.file)

\* All cells of the episodes that the cycle has fetched.
Gathered(r) == CellsOf(run[r].episodes, DOMAIN run[r].episodes)

\* What the cycle holds is so in the file; its merged episode tells of all
\* that it has fetched.
Sound(r) ==
    /\ run[r].at \in {"writes", "patching"} => task[r].at # "idle"
    /\ run[r].at \notin {"writes", "patching"} => task[r].at = "idle"
    /\ run[r].at = "writes" =>
         /\ task[r].body # None /\ task[r].body.merge > 0
         /\ Gathered(r) \subseteq task[r].body.of \cup omitted
    /\ run[r].at = "patching" =>
         /\ task[r].body = None
         /\ DOMAIN task[r].map = run[r].targets \cap DOMAIN run[r].episodes
         /\ \A i \in DOMAIN task[r].map : task[r].map[i] = run[r].merged
    /\ run[r].at \in Reflecting =>
         /\ run[r].merged \in Known /\ Body(run[r].merged).merge > 0
         /\ Gathered(r) \subseteq Body(run[r].merged).of \cup omitted
    /\ run[r].original \subseteq Known
    /\ DOMAIN run[r].episodes \subseteq run[r].original
    /\ \A i \in DOMAIN run[r].episodes : run[r].episodes[i] = Body(i)
    /\ run[r].targets \subseteq run[r].original

\* The merged episode of a cycle, from the file to the cluster.
Has(r)  == \/ run[r].at = "writes" /\ task[r].at = "written"
           \/ run[r].at \in Reflecting
Mine(r) == IF run[r].at = "writes" THEN task[r].id ELSE run[r].merged

\* Nobody but its cycle has to do with entry i.
Loose(i) ==
    /\ \A k \in Clusters : i \notin members[k] /\ i \notin filing.seen[k]
    /\ \A q \in Reflectors : i \notin run[q].original
    /\ i \notin DOMAIN log.deprecated

\* Each merged episode is its cycle's own.
Owned == /\ \A r \in Reflectors : Has(r) => Loose(Mine(r))
         /\ \A r, q \in Reflectors :
              Has(r) /\ Has(q) /\ Mine(r) = Mine(q) => r = q

\* A live entry tells of the cell.
Told0(c) == \E j \in Known : j \notin DOMAIN log.deprecated /\ c \in Body(j).of

\* Every cell is told of, but for what an update was not told of.
Kept == \A i \in Known : \A c \in Body(i).of : Told0(c) \/ c \in omitted

Inv == /\ Types /\ Alone /\ Numbered /\ Piped /\ Written0 /\ Filed /\ Indexed
       /\ \A r \in Reflectors : Sound(r)
       /\ Owned /\ Kept
-----------------------------------------------------------------------------
(* Constants and shapes.                                                   *)

\* Constants of the model.
LEMMA Constants ==
    /\ Pipes \cap Reflectors = {} /\ None \notin Tasks
    /\ Pipes \subseteq Tasks /\ Reflectors \subseteq Tasks
    /\ MaxEntries \in Nat /\ MaxFaults \in Nat
    /\ MaxTries \in Nat \ {0} /\ MaxMerges \in Nat
    /\ Ids \subseteq Nat /\ Ids = 1 .. MaxEntries
    /\ \A t \in Tasks : PoolOf(t) \in Pools
BY DailyLogAssumption, ConsolidationAssumption DEF Tasks, Ids, PoolOf, Pools

\* A body is not the absence of one.
LEMMA BodyParts ==
    /\ None \notin Bodies
    /\ \A b \in Bodies : b.of \subseteq Cells /\ b.merge \in Nat
    /\ \A c \in Cells : /\ Original(c) \in Bodies
                        /\ Original(c).merge = 0 /\ Original(c).of = {c}
<1>1. Bodies \subseteq [of : SUBSET Cells, merge : Nat]
  BY Constants DEF Bodies
<1>2. None \notin Bodies
  BY <1>1, ConsolidationAssumption
<1>. QED BY <1>1, <1>2, Constants DEF Bodies, Original

\* Maps of ids, and fetched episodes.
LEMMA MapParts ==
    /\ <<>> \in Maps /\ <<>> \in Fetched /\ DOMAIN <<>> = {}
    /\ \A m \in Maps :
         DOMAIN m \subseteq Ids /\ \A i \in DOMAIN m : m[i] \in Ids
<1>1. <<>> \in [{} -> Ids] /\ <<>> \in [{} -> Bodies]
  OBVIOUS
<1>2. <<>> \in Maps /\ <<>> \in Fetched
  BY <1>1 DEF Maps, Fetched
<1>3. ASSUME NEW m \in Maps
      PROVE  DOMAIN m \subseteq Ids /\ \A i \in DOMAIN m : m[i] \in Ids
  <2>1. PICK D \in SUBSET Ids : m \in [D -> Ids]
    BY <1>3 DEF Maps
  <2>. QED BY <2>1
<1>. QED BY <1>2, <1>3

\* A fetched episode has a body.
LEMMA FetchedParts ==
    \A f \in Fetched : /\ DOMAIN f \subseteq Ids
                       /\ \A i \in DOMAIN f : f[i] \in Bodies
<1>. SUFFICES ASSUME NEW f \in Fetched
              PROVE  /\ DOMAIN f \subseteq Ids
                     /\ \A i \in DOMAIN f : f[i] \in Bodies
  OBVIOUS
<1>1. PICK D \in SUBSET Ids : f \in [D -> Bodies]
  BY DEF Fetched
<1>. QED BY <1>1

\* The parts of a file.
LEMMA FileParts ==
    \A f \in File0 : /\ f.entries \in Seq(Entry) /\ f.count \in Nat
                     /\ f.deprecated \in Maps
BY DEF File0

\* The write that is none.
LEMMA NoWriteIs ==
    /\ NoWrite \in Write /\ NoWrite.at = "idle" /\ NoWrite.body = None
    /\ NoWrite.id = 0 /\ NoWrite.copy = None /\ DOMAIN NoWrite.map = {}
BY MapParts DEF NoWrite, Write

\* The parts of a write.
LEMMA WriteParts ==
    \A w \in Write : /\ w.body \in Bodies \cup {None} /\ w.map \in Maps
                     /\ w.id \in Nat /\ w.copy \in File0 \cup {None}
BY DEF Write

\* The cycle that is none.
LEMMA NoCycleIs ==
    /\ NoCycle \in Cycle0 /\ NoCycle.at = "idle" /\ NoCycle.original = {}
    /\ DOMAIN NoCycle.episodes = {} /\ NoCycle.targets = {}
BY MapParts DEF NoCycle, Cycle0

\* The parts of a cycle.
LEMMA CycleParts ==
    \A c \in Cycle0 :
        /\ c.queue \subseteq Clusters /\ c.cluster \in Clusters \cup {None}
        /\ c.original \subseteq Ids /\ c.episodes \in Fetched
        /\ c.merged \in Nat /\ c.targets \subseteq Ids
BY DEF Cycle0

\* An entry of the file has a body.
LEMMA EntryBody ==
    ASSUME Types, Numbered
    PROVE  \A i \in Known : log.entries[i] \in Entry /\ Body(i) \in Bodies
<1>1. log.entries \in Seq(Entry) /\ log.count = Len(log.entries)
  BY FileParts DEF Types, FileTypes, Numbered
<1>2. \A i \in Known : log.entries[i] \in Entry
  BY <1>1 DEF Known
<1>. QED BY <1>2 DEF Body, Entry

\* Known entries are within the bound.
LEMMA KnownIds ==
    ASSUME Types, Numbered
    PROVE  Known \subseteq Ids /\ log.count \in Nat
BY Constants, FileParts DEF Types, FileTypes, Numbered, Known

-----------------------------------------------------------------------------
(* Tasks that write.                                                       *)

\* A write is asked for.
LEMMA AsksIs ==
    ASSUME Types, NEW t \in Tasks, NEW b \in Bodies \cup {None}, NEW m \in Maps,
           Asks(t, b, m)
    PROVE  /\ task' \in [Tasks -> Write]
           /\ \A u \in Tasks : u # t => task'[u] = task[u]
           /\ task'[t].at = "wants" /\ task'[t].body = b /\ task'[t].map = m
<1>1. PICK w : w = [NoWrite EXCEPT !.at = "wants", !.body = b, !.map = m]
  OBVIOUS
<1>2. w = [at |-> "wants", body |-> b, map |-> m, id |-> 0, copy |-> None]
  BY <1>1 DEF NoWrite
<1>3. w \in Write /\ w.at = "wants" /\ w.body = b /\ w.map = m
  BY <1>2 DEF Write
<1>4. task' = [task EXCEPT ![t] = w]
  BY <1>1 DEF Asks
<1>. QED BY <1>3, <1>4 DEF Types, FileTypes

\* A write is over.
LEMMA EndsIs ==
    ASSUME Types, NEW t \in Tasks, task' = [task EXCEPT ![t] = NoWrite]
    PROVE  /\ task' \in [Tasks -> Write]
           /\ \A u \in Tasks : u # t => task'[u] = task[u]
           /\ task'[t].at = "idle"
BY NoWriteIs DEF Types, FileTypes

\* A step of a write that does not touch the file, and what it leaves.
Works(t) ==
    /\ task' \in [Tasks -> Write]
    /\ \A u \in Tasks : u # t => task'[u] = task[u]
    /\ task[t].at \in {"wants", "minted", "loaded"}
    /\ task'[t].at \in {"minted", "loaded", "raised"}
    /\ task'[t].body = task[t].body /\ task'[t].map = task[t].map
    /\ log' = log /\ holder' \in [Pools -> Tasks \cup {None}]
    /\ faults' \in 0 .. MaxFaults

\* The lock is taken when no other task is busy.
LEMMA LockedOut ==
    ASSUME ~MayCollide, Types, Alone, NEW t \in Tasks, LockFree(t)
    PROVE  \A u \in Tasks : ~Busy(u)
<1>. SUFFICES ASSUME NEW u \in Tasks, Busy(u) PROVE FALSE
  OBVIOUS
<1>1. holder[PoolOf(u)] = u
  BY DEF Alone
<1>2. PoolOf(u) \in DOMAIN holder
  BY Constants DEF Types, FileTypes
<1>3. holder[PoolOf(u)] = None
  BY <1>2 DEF LockFree
<1>. QED BY <1>1, <1>3, Constants

\* The first read of an append.
LEMMA EnterIs ==
    ASSUME ~MayCollide, Types, Alone, Numbered, NEW t \in Tasks, Enter(t)
    PROVE  Works(t) /\ Alone'
<1>1. /\ task[t] \in Write /\ task \in [Tasks -> Write]
      /\ faults' \in 0 .. MaxFaults
      /\ log.count \in Nat
  BY KnownIds DEF Types, FileTypes, Enter
<1>2. PICK n \in Nat : n = log.count + 1
  BY <1>1
<1>3. PICK w : w = [task[t] EXCEPT !.at = "minted", !.id = n]
  OBVIOUS
<1>4. w \in Write /\ w.at = "minted" /\ w.body = task[t].body
      /\ w.map = task[t].map /\ w.id = n
  BY <1>1, <1>3 DEF Write
<1>5. task' = [task EXCEPT ![t] = w]
  BY <1>1, <1>2, <1>3 DEF Enter, NextId
<1>6. /\ task' \in [Tasks -> Write] /\ task'[t] = w
      /\ \A u \in Tasks : u # t => task'[u] = task[u]
  BY <1>1, <1>4, <1>5
<1>7. /\ task[t].at = "wants" /\ task[t].body # None /\ log' = log
      /\ holder' = [holder EXCEPT ![PoolOf(t)] = t]
      /\ n \in Ids /\ LockFree(t)
  BY <1>2 DEF Enter, NextId
<1>8. /\ holder' \in [Pools -> Tasks \cup {None}]
      /\ holder'[PoolOf(t)] = t
  BY <1>7, Constants DEF Types, FileTypes
<1>9. Works(t)
  BY <1>1, <1>4, <1>6, <1>7, <1>8 DEF Works
<1>10. \A u \in Tasks : ~Busy(u)
  BY <1>7, LockedOut
<1>11. \A u \in Tasks : Busy(u)' => u = t
  BY <1>6, <1>10 DEF Busy
<1>12. Alone'
  BY <1>2, <1>4, <1>6, <1>7, <1>8, <1>11 DEF Alone, Busy
<1>. QED BY <1>9, <1>12

\* The read of a patch.
LEMMA EnterPatchIs ==
    ASSUME ~MayCollide, Types, Alone, Numbered, NEW t \in Tasks, EnterPatch(t)
    PROVE  Works(t) /\ Alone'
<1>1. /\ task[t] \in Write /\ task \in [Tasks -> Write]
      /\ faults' \in 0 .. MaxFaults
      /\ log \in File0
  BY DEF Types, FileTypes, EnterPatch
<1>3. PICK w : w = [task[t] EXCEPT !.at = "loaded", !.copy = log]
  OBVIOUS
<1>4. w \in Write /\ w.at = "loaded" /\ w.body = task[t].body
      /\ w.map = task[t].map /\ w.copy = log
  BY <1>1, <1>3 DEF Write
<1>5. task' = [task EXCEPT ![t] = w]
  BY <1>1, <1>3 DEF EnterPatch
<1>6. /\ task' \in [Tasks -> Write] /\ task'[t] = w
      /\ \A u \in Tasks : u # t => task'[u] = task[u]
  BY <1>1, <1>4, <1>5
<1>7. /\ task[t].at = "wants" /\ task[t].body = None /\ log' = log
      /\ holder' = [holder EXCEPT ![PoolOf(t)] = t] /\ LockFree(t)
  BY DEF EnterPatch
<1>8. /\ holder' \in [Pools -> Tasks \cup {None}]
      /\ holder'[PoolOf(t)] = t
  BY <1>7, Constants DEF Types, FileTypes
<1>9. Works(t)
  BY <1>1, <1>4, <1>6, <1>7, <1>8 DEF Works
<1>10. \A u \in Tasks : ~Busy(u)
  BY <1>7, LockedOut
<1>11. \A u \in Tasks : Busy(u)' => u = t
  BY <1>6, <1>10 DEF Busy
<1>12. Alone'
  BY <1>4, <1>6, <1>7, <1>8, <1>11 DEF Alone, Busy
<1>. QED BY <1>9, <1>12

\* The second read of an append.
LEMMA LoadIs ==
    ASSUME Types, Alone, NEW t \in Tasks, Load(t)
    PROVE  Works(t) /\ Alone'
<1>1. /\ task[t] \in Write /\ task \in [Tasks -> Write]
      /\ faults' \in 0 .. MaxFaults
      /\ log \in File0 /\ holder' \in [Pools -> Tasks \cup {None}]
  BY DEF Types, FileTypes, Load
<1>3. PICK w : w = [task[t] EXCEPT !.at = "loaded", !.copy = log]
  OBVIOUS
<1>4. w \in Write /\ w.at = "loaded" /\ w.body = task[t].body
      /\ w.map = task[t].map /\ w.copy = log /\ w.id = task[t].id
  BY <1>1, <1>3 DEF Write
<1>5. task' = [task EXCEPT ![t] = w]
  BY <1>1, <1>3 DEF Load
<1>6. /\ task' \in [Tasks -> Write] /\ task'[t] = w
      /\ \A u \in Tasks : u # t => task'[u] = task[u]
  BY <1>1, <1>4, <1>5
<1>7. task[t].at = "minted" /\ log' = log /\ holder' = holder
  BY DEF Load
<1>8. Works(t)
  BY <1>1, <1>4, <1>6, <1>7 DEF Works
<1>9. Busy(t) /\ \A u \in Tasks : Busy(u)' => Busy(u)
  BY <1>6, <1>7 DEF Busy
<1>10. Alone'
  <2>1. \A u \in Tasks : Busy(u)' => u = t
    BY <1>9 DEF Alone
  <2>2. /\ holder[PoolOf(t)] = t /\ task[t].id = log.count + 1
        /\ task[t].body # None => log.count + 1 \in Ids
    BY <1>7, <1>9 DEF Alone
  <2>. QED BY <1>4, <1>6, <1>7, <2>1, <2>2 DEF Alone, Busy
<1>. QED BY <1>8, <1>10

\* The lock is released by the one that was busy.
LEMMA Releases ==
    ASSUME Types, Alone, NEW t \in Tasks, task[t].at = "loaded",
           \A u \in Tasks : u # t => task'[u] = task[u],
           task'[t].at \notin {"minted", "loaded"}, Leaves(t)
    PROVE  /\ Alone' /\ \A u \in Tasks : ~Busy(u)'
           /\ holder' \in [Pools -> Tasks \cup {None}]
<1>1. Busy(t)
  BY DEF Busy
<1>2. \A u \in Tasks : ~Busy(u)'
  BY <1>1 DEF Alone, Busy
<1>3. holder' \in [Pools -> Tasks \cup {None}]
  BY Constants DEF Types, FileTypes, Leaves
<1>4. Alone'
  BY <1>2 DEF Alone, Busy
<1>. QED BY <1>2, <1>3, <1>4

\* The replacement fails.
LEMMA ReplaceFailsIs ==
    ASSUME Types, Alone, NEW t \in Tasks, ReplaceFails(t)
    PROVE  Works(t) /\ Alone'
<1>1. /\ task[t] \in Write /\ task \in [Tasks -> Write]
      /\ faults' \in 0 .. MaxFaults
  BY Constants DEF Types, FileTypes, ReplaceFails
<1>3. PICK w : w = [task[t] EXCEPT !.at = "raised", !.copy = None]
  OBVIOUS
<1>4. w \in Write /\ w.at = "raised" /\ w.body = task[t].body
      /\ w.map = task[t].map
  BY <1>1, <1>3 DEF Write
<1>5. task' = [task EXCEPT ![t] = w]
  BY <1>1, <1>3 DEF ReplaceFails
<1>6. /\ task' \in [Tasks -> Write] /\ task'[t] = w
      /\ \A u \in Tasks : u # t => task'[u] = task[u]
  BY <1>1, <1>4, <1>5
<1>7. task[t].at = "loaded" /\ log' = log /\ Leaves(t)
  BY DEF ReplaceFails
<1>8. Alone' /\ holder' \in [Pools -> Tasks \cup {None}]
  BY <1>4, <1>6, <1>7, Releases
<1>. QED BY <1>1, <1>4, <1>6, <1>7, <1>8 DEF Works

-----------------------------------------------------------------------------
(* The replacement of the file.                                            *)

\* The task has its write behind it.
Wrote(t) ==
    /\ task' \in [Tasks -> Write]
    /\ \A u \in Tasks : u # t => task'[u] = task[u]
    /\ task[t].at = "loaded" /\ task'[t].at = "written"
    /\ task'[t].body = task[t].body /\ task'[t].map = task[t].map
    /\ task'[t].id = task[t].id
    /\ holder' \in [Pools -> Tasks \cup {None}]
    /\ faults' = faults

\* The file has one entry more, the one of task t.
Appends(t) ==
    /\ log' \in File0 /\ log'.deprecated = log.deprecated
    /\ log'.count = log.count + 1 /\ log'.count \in Ids
    /\ Known' = Known \cup {log'.count}
    /\ log'.count = Len(log'.entries)
    /\ \A i \in Known : log'.entries[i] = log.entries[i]
    /\ log'.entries[log'.count] = [id |-> log'.count, body |-> task[t].body]
    /\ task[t].body # None /\ task[t].id = log'.count

\* The file has the deprecations of task t.
Patches(t) ==
    /\ log' \in File0 /\ log'.entries = log.entries /\ log'.count = log.count
    /\ DOMAIN log'.deprecated = DOMAIN log.deprecated \cup DOMAIN task[t].map
    /\ \A i \in DOMAIN task[t].map : log'.deprecated[i] = task[t].map[i]
    /\ \A i \in DOMAIN log.deprecated \ DOMAIN task[t].map :
          log'.deprecated[i] = log.deprecated[i]
    /\ task[t].body = None

\* What a replacement does to its task.
LEMMA ReplaceIs ==
    ASSUME Types, Alone, NEW t \in Tasks, Replace(t)
    PROVE  /\ Wrote(t) /\ Alone' /\ log' = Written(task[t])
           /\ task[t].copy = log /\ log \in File0
           /\ task[t].body # None =>
                task[t].id = log.count + 1 /\ log.count + 1 \in Ids
<1>1. task[t] \in Write /\ task \in [Tasks -> Write] /\ faults' = faults
  BY DEF Types, FileTypes, Replace
<1>3. PICK w : w = [task[t] EXCEPT !.at = "written", !.copy = None]
  OBVIOUS
<1>4. w \in Write /\ w.at = "written" /\ w.body = task[t].body
      /\ w.map = task[t].map /\ w.id = task[t].id
  BY <1>1, <1>3 DEF Write
<1>5. task' = [task EXCEPT ![t] = w]
  BY <1>1, <1>3 DEF Replace
<1>6. /\ task' \in [Tasks -> Write] /\ task'[t] = w
      /\ \A u \in Tasks : u # t => task'[u] = task[u]
  BY <1>1, <1>4, <1>5
<1>7. task[t].at = "loaded" /\ log' = Written(task[t]) /\ Leaves(t)
  BY DEF Replace
<1>8. Alone' /\ holder' \in [Pools -> Tasks \cup {None}]
  BY <1>4, <1>6, <1>7, Releases
<1>9. /\ task[t].copy = log
      /\ task[t].body # None =>
           task[t].id = log.count + 1 /\ log.count + 1 \in Ids
  BY <1>7 DEF Alone, Busy
<1>. QED BY <1>1, <1>4, <1>6, <1>7, <1>8, <1>9 DEF Wrote, Types, FileTypes

\* An append.
LEMMA AppendIs ==
    ASSUME Types, Alone, Numbered, NEW t \in Tasks, Replace(t),
           task[t].body # None
    PROVE  Appends(t) /\ Numbered'
<1>1. /\ log \in File0 /\ log.entries \in Seq(Entry) /\ log.count \in Nat
      /\ log.count = Len(log.entries) /\ task[t].body \in Bodies
      /\ task[t].copy = log /\ task[t].id = log.count + 1
      /\ log.count + 1 \in Ids /\ log' = Written(task[t])
  BY ReplaceIs, FileParts, WriteParts DEF Types, FileTypes, Numbered
<1>2. PICK n \in Nat : n = log.count + 1
  BY <1>1
<1>3. PICK e \in Entry : e = [id |-> n, body |-> task[t].body]
  BY <1>1 DEF Entry
<1>4. log' = [log EXCEPT !.entries = Append(log.entries, e), !.count = n]
  BY <1>1, <1>2, <1>3 DEF Written
<1>5. PICK es : es = Append(log.entries, e)
  OBVIOUS
<1>6. /\ es \in Seq(Entry) /\ Len(es) = n /\ es[n] = e
      /\ \A i \in 1 .. log.count : es[i] = log.entries[i]
  BY <1>1, <1>2, <1>5, AppendProperties
<1>7. /\ log' \in File0 /\ log'.entries = es /\ log'.count = n
      /\ log'.deprecated = log.deprecated
  BY <1>1, <1>4, <1>5, <1>6 DEF File0
<1>8. Known' = Known \cup {n}
  BY <1>1, <1>2, <1>7 DEF Known
<1>9. Appends(t)
  BY <1>1, <1>2, <1>3, <1>6, <1>7, <1>8 DEF Appends, Known
<1>10. Numbered'
  <2>1. n <= MaxEntries
    BY <1>1, <1>2, Constants
  <2>2. e.id = n
    BY <1>3
  <2>3. \A i \in Known' : log'.entries[i].id = i
    BY <1>6, <1>7, <1>8, <2>2 DEF Numbered, Known
  <2>. QED BY <1>6, <1>7, <1>8, <2>1, <2>3 DEF Numbered
<1>. QED BY <1>9, <1>10

\* A patch.
LEMMA PatchIs ==
    ASSUME Types, Alone, Numbered, NEW t \in Tasks, Replace(t),
           task[t].body = None, DOMAIN task[t].map \subseteq Known
    PROVE  Patches(t) /\ Numbered'
<1>1. /\ log \in File0 /\ log.deprecated \in Maps /\ task[t].map \in Maps
      /\ task[t].copy = log /\ log' = Written(task[t])
  BY ReplaceIs, FileParts, WriteParts DEF Types, FileTypes
<1>2. PICK old, new \in Maps : old = log.deprecated /\ new = task[t].map
  BY <1>1
<1>3. PICK m : m = Merged(old, new)
  OBVIOUS
<1>4. /\ DOMAIN m = DOMAIN old \cup DOMAIN new
      /\ \A i \in DOMAIN new : m[i] = new[i]
      /\ \A i \in DOMAIN old \ DOMAIN new : m[i] = old[i]
  BY <1>3 DEF Merged
<1>5. m \in Maps
  <2>1. DOMAIN old \cup DOMAIN new \in SUBSET Ids
    BY MapParts
  <2>2. m \in [DOMAIN old \cup DOMAIN new -> Ids]
    BY <1>3, MapParts DEF Merged
  <2>. QED BY <2>1, <2>2 DEF Maps
<1>6. log' = [log EXCEPT !.deprecated = m]
  BY <1>1, <1>2, <1>3 DEF Written
<1>7. /\ log' \in File0 /\ log'.entries = log.entries
      /\ log'.count = log.count /\ log'.deprecated = m
  BY <1>1, <1>5, <1>6 DEF File0
<1>8. Patches(t)
  BY <1>2, <1>4, <1>7 DEF Patches
<1>9. Numbered'
  BY <1>2, <1>4, <1>7 DEF Numbered, Known
<1>. QED BY <1>8, <1>9

-----------------------------------------------------------------------------
(* What the parts of the invariant owe to the file.                        *)

\* The file keeps its entries.
Grows ==
    /\ Known \subseteq Known' /\ log.count <= log'.count
    /\ \A i \in Known : Body(i)' = Body(i) /\ log'.entries[i] = log.entries[i]

\* So do all steps.
LEMMA GrowsIs ==
    Types /\ Numbered =>
        /\ log' = log => Grows
        /\ \A t \in Tasks : Appends(t) \/ Patches(t) => Grows
<1>1. ASSUME Types, Numbered, log' = log PROVE Grows
  <2>1. log.count <= log'.count
    BY <1>1, KnownIds
  <2>. QED BY <1>1, <2>1 DEF Grows, Known, Body
<1>2. ASSUME Types, Numbered, NEW t \in Tasks, Appends(t) PROVE Grows
  <2>1. log.count \in Nat
    BY <1>2, KnownIds
  <2>. QED BY <1>2, <2>1 DEF Appends, Grows, Body
<1>3. ASSUME Types, Numbered, NEW t \in Tasks, Patches(t) PROVE Grows
  <2>1. log.count \in Nat
    BY <1>3, KnownIds
  <2>. QED BY <1>3, <2>1 DEF Patches, Grows, Body, Known
<1>. QED BY <1>1, <1>2, <1>3

\* What the tables know stays known.
LEMMA FiledStays ==
    ASSUME Filed, Grows, UNCHANGED clusterVars
    PROVE  Filed'
<1>. QED BY DEF Filed, Grows, clusterVars

\* What the index holds stays in the file.
LEMMA IndexedStays ==
    ASSUME Types, Numbered, Types', Indexed, Grows, row' = row, sync' = sync
    PROVE  Indexed'
<1>1. log.count \in Nat /\ log'.count \in Nat /\ sync.file.count \in Nat
  BY KnownIds, FileParts DEF Types, FileTypes, IndexTypes, Handler
<1>2. \A i \in 1 .. sync.file.count :
         i \in Known /\ sync.file.entries[i] = log.entries[i]
  BY <1>1 DEF Indexed, Begins, Known
<1>3. Begins(sync.file)'
  BY <1>1, <1>2 DEF Indexed, Begins, Grows
<1>4. \A i \in Ids : row'[i].body # None =>
         i \in Known' /\ row'[i].body = Body(i)'
  BY DEF Indexed, Grows
<1>. QED BY <1>3, <1>4 DEF Indexed

\* What a cycle holds stays so while it rests or its write goes on.
LEMMA SoundStays ==
    ASSUME NEW r \in Reflectors, Sound(r), Grows, run'[r] = run[r],
           omitted \subseteq omitted',
           \/ task'[r] = task[r]
           \/ /\ task[r].at # "idle" /\ task'[r].at # "idle"
              /\ task'[r].body = task[r].body /\ task'[r].map = task[r].map
    PROVE  Sound(r)'
<1>0. PICK m : m = run[r].merged
  OBVIOUS
<1>1. Gathered(r)' = Gathered(r)
  BY DEF Gathered, CellsOf
<1>2. \A i \in Known : Body(i)' = Body(i) /\ i \in Known'
  BY DEF Grows
<1>3. /\ run'[r].at \in {"writes", "patching"} => task'[r].at # "idle"
      /\ run'[r].at \notin {"writes", "patching"} => task'[r].at = "idle"
  BY DEF Sound
<1>4. run'[r].at = "writes" =>
         /\ task'[r].body # None /\ task'[r].body.merge > 0
         /\ Gathered(r)' \subseteq task'[r].body.of \cup omitted'
  BY <1>1 DEF Sound
<1>5. run'[r].at = "patching" =>
         /\ task'[r].body = None
         /\ DOMAIN task'[r].map = run'[r].targets \cap DOMAIN run'[r].episodes
         /\ \A i \in DOMAIN task'[r].map : task'[r].map[i] = run'[r].merged
  BY DEF Sound
<1>6. run'[r].at \in Reflecting =>
         /\ m \in Known' /\ Body(m)'.merge > 0
         /\ Gathered(r)' \subseteq Body(m)'.of \cup omitted'
  BY <1>0, <1>1, <1>2 DEF Sound
<1>7. /\ run'[r].original \subseteq Known'
      /\ DOMAIN run'[r].episodes \subseteq run'[r].original
      /\ \A i \in DOMAIN run'[r].episodes : run'[r].episodes[i] = Body(i)'
      /\ run'[r].targets \subseteq run'[r].original
  BY <1>2 DEF Sound
<1>8. run'[r].at \in Reflecting =>
         /\ run'[r].merged \in Known' /\ Body(run[r].merged)'.merge > 0
         /\ Gathered(r)' \subseteq Body(run[r].merged)'.of \cup omitted'
  BY <1>0, <1>6 DEF Body
<1>. QED BY <1>3, <1>4, <1>5, <1>7, <1>8 DEF Sound

\* A merged episode is in the file.
LEMMA MineKnown ==
    ASSUME NEW r \in Reflectors, Sound(r), Written0, Has(r)
    PROVE  Mine(r) \in Known /\ Body(Mine(r)).merge > 0
<1>1. CASE run[r].at = "writes"
  BY <1>1, Constants DEF Has, Mine, Sound, Written0, Reflecting
<1>2. CASE run[r].at # "writes"
  BY <1>2 DEF Has, Mine, Sound
<1>. QED BY <1>1, <1>2

\* A step of a write that does not touch the file.
LEMMA WorksKeeps ==
    ASSUME Inv, NEW t \in Tasks, Works(t), Types', Alone',
           UNCHANGED <<row, sync, clusterVars, run, omitted>>
    PROVE  Inv'
<1>0. Types /\ Numbered
  BY DEF Inv
<1>1. Grows /\ log' = log
  BY <1>0, GrowsIs DEF Works
<1>2. Numbered' /\ Kept'
  BY <1>1 DEF Inv, Numbered, Kept, Told0, Known, Body
<1>3. Piped'
  BY Constants DEF Inv, Piped, Works
<1>4. Written0'
  BY <1>1 DEF Inv, Written0, Works, Grows
<1>5. Filed' /\ Indexed'
  BY <1>0, <1>1, FiledStays, IndexedStays DEF Inv
<1>6. ASSUME NEW r \in Reflectors PROVE Sound(r)'
  <2>1. r \in Tasks /\ Sound(r)
    BY Constants DEF Inv
  <2>2. \/ task'[r] = task[r]
        \/ /\ task[r].at # "idle" /\ task'[r].at # "idle"
           /\ task'[r].body = task[r].body /\ task'[r].map = task[r].map
    BY <2>1 DEF Works
  <2>. QED BY <1>1, <2>1, <2>2, SoundStays
<1>7. ASSUME NEW r \in Reflectors, Has(r)' PROVE Has(r) /\ Mine(r)' = Mine(r)
  <2>1. r \in Tasks
    BY Constants
  <2>2. CASE run[r].at = "writes"
    BY <1>7, <2>1, <2>2 DEF Has, Mine, Works, Reflecting
  <2>3. CASE run[r].at # "writes"
    BY <1>7, <2>3 DEF Has, Mine
  <2>. QED BY <2>2, <2>3
<1>8. \A i : Loose(i) => Loose(i)'
  BY <1>1 DEF Loose, clusterVars
<1>9. Owned'
  BY <1>7, <1>8 DEF Inv, Owned
<1>. QED BY <1>2, <1>3, <1>4, <1>5, <1>6, <1>9 DEF Inv

\* An append by a pipeline or by a cycle.
LEMMA AppendKeeps ==
    ASSUME Inv, NEW t \in Tasks, Wrote(t), Appends(t),
           Types', Alone', Numbered',
           UNCHANGED <<row, sync, clusterVars, run, omitted>>
    PROVE  Inv'
<1>0. Types /\ Numbered /\ log.count \in Nat
  BY KnownIds DEF Inv
<1>1. Grows
  BY <1>0, GrowsIs
<1>2. PICK n : n = log'.count
  OBVIOUS
<1>3. /\ n \notin Known /\ Known' = Known \cup {n} /\ n \in Known'
      /\ Body(n)' = task[t].body /\ task[t].body # None /\ task[t].id = n
      /\ log'.deprecated = log.deprecated /\ n \notin DOMAIN log.deprecated
      /\ \A i \in Known : Body(i)' = Body(i)
  <2>1. n \notin Known
    BY <1>0, <1>2 DEF Appends, Known
  <2>2. Body(n)' = task[t].body
    BY <1>2 DEF Appends, Body
  <2>. QED BY <1>1, <1>2, <2>1, <2>2 DEF Appends, Inv, Numbered, Grows
<1>4. Kept'
  <2>. SUFFICES ASSUME NEW i \in Known', NEW c \in Body(i)'.of
                PROVE  Told0(c)' \/ c \in omitted'
    BY DEF Kept
  <2>1. CASE i = n
    BY <1>3, <2>1 DEF Told0
  <2>2. CASE i \in Known
    <3>1. Told0(c) \/ c \in omitted
      BY <1>3, <2>2 DEF Inv, Kept
    <3>2. Told0(c) => Told0(c)'
      BY <1>3 DEF Told0
    <3>. QED BY <3>1, <3>2
  <2>. QED BY <1>3, <2>1, <2>2
<1>5. Piped'
  BY Constants DEF Inv, Piped, Wrote
<1>6. Written0'
  BY <1>3 DEF Inv, Written0, Wrote
<1>7. Filed' /\ Indexed'
  BY <1>0, <1>1, FiledStays, IndexedStays DEF Inv
<1>8. ASSUME NEW r \in Reflectors PROVE Sound(r)'
  <2>1. r \in Tasks /\ Sound(r)
    BY Constants DEF Inv
  <2>2. \/ task'[r] = task[r]
        \/ /\ task[r].at # "idle" /\ task'[r].at # "idle"
           /\ task'[r].body = task[r].body /\ task'[r].map = task[r].map
    BY <2>1 DEF Wrote
  <2>. QED BY <1>1, <2>1, <2>2, SoundStays
<1>9. ASSUME NEW r \in Reflectors, Has(r)'
      PROVE  \/ r # t /\ Has(r) /\ Mine(r)' = Mine(r) /\ Mine(r) \in Known
             \/ r = t /\ Mine(r)' = n
             \/ r = t /\ Has(r) /\ Mine(r)' = Mine(r) /\ Mine(r) \in Known
  <2>1. r \in Tasks /\ Sound(r) /\ Written0
    BY Constants DEF Inv
  <2>2. CASE r = t /\ run[r].at = "writes"
    BY <1>3, <1>9, <2>2 DEF Has, Mine, Wrote
  <2>3. CASE r # t \/ run[r].at # "writes"
    <3>1. Has(r) /\ Mine(r)' = Mine(r)
      BY <1>9, <2>1, <2>3 DEF Has, Mine, Wrote
    <3>. QED BY <2>1, <3>1, MineKnown
  <2>. QED BY <2>2, <2>3
<1>10. \A i : Loose(i) => Loose(i)'
  BY <1>3 DEF Loose, clusterVars
<1>11. Loose(n)'
  <2>1. \A k \in Clusters : n \notin members[k] /\ n \notin filing.seen[k]
    BY <1>3 DEF Inv, Filed
  <2>2. \A q \in Reflectors : n \notin run[q].original
    BY <1>3 DEF Inv, Sound
  <2>. QED BY <1>3, <2>1, <2>2 DEF Loose, clusterVars
<1>12. Owned'
  <2>1. \A r \in Reflectors : Has(r)' => Loose(Mine(r))'
    <3>. SUFFICES ASSUME NEW r \in Reflectors, Has(r)' PROVE Loose(Mine(r))'
      OBVIOUS
    <3>1. PICK j : j = Mine(r)'
      OBVIOUS
    <3>2. Loose(j)'
      BY <1>9, <1>10, <1>11, <3>1 DEF Inv, Owned
    <3>. QED BY <3>1, <3>2 DEF Loose
  <2>2. ASSUME NEW r \in Reflectors, NEW q \in Reflectors,
               Has(r)', Has(q)', Mine(r)' = Mine(q)'
        PROVE  r = q
    BY <1>3, <1>9, <2>2 DEF Inv, Owned
  <2>. QED BY <2>1, <2>2 DEF Owned
<1>. QED BY <1>4, <1>5, <1>6, <1>7, <1>8, <1>12 DEF Inv

\* A patch by a cycle: what it deprecates, the merged episode tells of.
LEMMA PatchKeeps ==
    ASSUME Inv, NEW r \in Reflectors, run[r].at = "patching", Wrote(r),
           Patches(r), Types', Alone', Numbered',
           UNCHANGED <<row, sync, clusterVars, run, omitted>>
    PROVE  Inv'
<1>0. Types /\ Numbered /\ r \in Tasks /\ Sound(r)
  BY Constants DEF Inv
<1>1. Grows /\ log'.entries = log.entries /\ log'.count = log.count
  BY <1>0, GrowsIs DEF Patches
<1>2. Known' = Known /\ \A i : Body(i)' = Body(i)
  BY <1>1 DEF Known, Body
<1>3. PICK m, P : m = run[r].merged /\ P = DOMAIN task[r].map
  OBVIOUS
<1>4. /\ m \in Known /\ Gathered(r) \subseteq Body(m).of \cup omitted
      /\ P \subseteq DOMAIN run[r].episodes /\ P \subseteq run[r].original
      /\ DOMAIN log'.deprecated = DOMAIN log.deprecated \cup P
      /\ \A i \in P : run[r].episodes[i] = Body(i)
  BY <1>0, <1>3 DEF Sound, Reflecting, Patches
<1>5. Has(r) /\ Mine(r) = m
  BY <1>3 DEF Has, Mine, Reflecting
<1>6. m \notin DOMAIN log'.deprecated
  BY <1>4, <1>5 DEF Inv, Owned, Loose
<1>7. Kept'
  <2>. SUFFICES ASSUME NEW i \in Known, NEW c \in Body(i).of, c \notin omitted
                PROVE  Told0(c)'
    BY <1>2 DEF Kept
  <2>1. PICK j \in Known : j \notin DOMAIN log.deprecated /\ c \in Body(j).of
    BY DEF Inv, Kept, Told0
  <2>2. CASE j \in P
    <3>1. c \in Gathered(r)
      BY <1>4, <2>1, <2>2 DEF Gathered, CellsOf
    <3>. QED BY <1>2, <1>4, <1>6, <3>1 DEF Told0
  <2>3. CASE j \notin P
    BY <1>2, <1>4, <2>1, <2>3 DEF Told0
  <2>. QED BY <2>2, <2>3
<1>8. Piped'
  BY Constants DEF Inv, Piped, Wrote
<1>9. Written0'
  BY <1>2 DEF Inv, Written0, Wrote, Patches
<1>10. Filed' /\ Indexed'
  BY <1>0, <1>1, FiledStays, IndexedStays DEF Inv
<1>11. ASSUME NEW q \in Reflectors PROVE Sound(q)'
  <2>1. q \in Tasks /\ Sound(q)
    BY Constants DEF Inv
  <2>2. \/ task'[q] = task[q]
        \/ /\ task[q].at # "idle" /\ task'[q].at # "idle"
           /\ task'[q].body = task[q].body /\ task'[q].map = task[q].map
    BY <2>1 DEF Wrote
  <2>. QED BY <1>1, <2>1, <2>2, SoundStays
<1>12. ASSUME NEW q \in Reflectors, Has(q)' PROVE Has(q) /\ Mine(q)' = Mine(q)
  <2>1. q \in Tasks
    BY Constants
  <2>2. CASE q = r
    BY <1>5, <2>2 DEF Has, Mine
  <2>3. CASE q # r
    BY <1>12, <2>1, <2>3 DEF Has, Mine, Wrote
  <2>. QED BY <2>2, <2>3
<1>13. \A i : Loose(i) => Loose(i)'
  BY <1>4 DEF Loose, clusterVars
<1>14. Owned'
  BY <1>12, <1>13 DEF Inv, Owned
<1>. QED BY <1>7, <1>8, <1>9, <1>10, <1>11, <1>14 DEF Inv

\* A write under way of a cycle.
LEMMA WriteOf ==
    ASSUME Inv, NEW t \in Tasks, task[t].at # "idle"
    PROVE  task[t].body = None =>
             /\ t \in Reflectors /\ run[t].at = "patching"
             /\ DOMAIN task[t].map \subseteq Known
<1>. SUFFICES ASSUME task[t].body = None
              PROVE  /\ t \in Reflectors /\ run[t].at = "patching"
                     /\ DOMAIN task[t].map \subseteq Known
  OBVIOUS
<1>1. t \in Reflectors /\ Sound(t)
  BY Constants DEF Inv, Piped, Tasks
<1>2. run[t].at = "patching"
  BY <1>1 DEF Sound
<1>. QED BY <1>1, <1>2 DEF Sound

\* The steps of a write: the file stays, has one entry more, or a patch.
LEMMA WriteKinds ==
    ASSUME ~MayCollide, Inv, NEW t \in Tasks, WriterStep(t)
    PROVE  /\ Alone'
           /\ \/ Works(t)
              \/ Wrote(t) /\ Appends(t) /\ Numbered'
              \/ /\ Wrote(t) /\ Patches(t) /\ Numbered'
                 /\ t \in Reflectors /\ run[t].at = "patching"
<1>0. Types /\ Alone /\ Numbered
  BY DEF Inv
<1>1. CASE Replace(t)
  <2>1. Wrote(t) /\ Alone'
    BY <1>0, <1>1, ReplaceIs
  <2>2. CASE task[t].body = None
    <3>1. /\ t \in Reflectors /\ run[t].at = "patching"
          /\ DOMAIN task[t].map \subseteq Known
      BY <2>1, <2>2, WriteOf DEF Wrote
    <3>2. Patches(t) /\ Numbered'
      BY <1>0, <1>1, <2>2, <3>1, PatchIs
    <3>. QED BY <2>1, <3>1, <3>2
  <2>3. CASE task[t].body # None
    <3>1. Appends(t) /\ Numbered'
      BY <1>0, <1>1, <2>3, AppendIs
    <3>. QED BY <2>1, <3>1
  <2>. QED BY <2>2, <2>3
<1>2. CASE Enter(t) \/ EnterPatch(t) \/ Load(t) \/ ReplaceFails(t)
  BY <1>0, <1>2, EnterIs, EnterPatchIs, LoadIs, ReplaceFailsIs
<1>. QED BY <1>1, <1>2 DEF WriterStep

\* A step of a write.
LEMMA WriteStepKeeps ==
    ASSUME ~MayCollide, Inv, NEW t \in Tasks, WriteStep(t)
    PROVE  Inv'
<1>0. Types
  BY DEF Inv
<1>1. /\ UNCHANGED <<row, sync, clusterVars, run, omitted>>
      /\ IndexTypes' /\ TableTypes' /\ CycleTypes'
  <2>1. /\ UNCHANGED <<row, sync, fact, members, rows, todo, filing, run,
                       omitted, left, merges>>
        /\ dirty' \in BOOLEAN
    BY <1>0 DEF WriteStep, clusterVars, reflectionVars, asked, Types, IndexTypes
  <2>2. UNCHANGED clusterVars
    BY <2>1 DEF clusterVars
  <2>3. IndexTypes' /\ TableTypes' /\ CycleTypes'
    BY <1>0, <2>1 DEF Types, IndexTypes, TableTypes, CycleTypes
  <2>. QED BY <2>1, <2>2, <2>3
<1>2. /\ Alone'
      /\ \/ Works(t)
         \/ Wrote(t) /\ Appends(t) /\ Numbered'
         \/ /\ Wrote(t) /\ Patches(t) /\ Numbered'
            /\ t \in Reflectors /\ run[t].at = "patching"
  BY WriteKinds DEF WriteStep
<1>3. Types'
  BY <1>0, <1>1, <1>2
     DEF Types, FileTypes, Works, Wrote, Appends, Patches
<1>. QED BY <1>1, <1>2, <1>3, WorksKeeps, AppendKeeps, PatchKeeps

-----------------------------------------------------------------------------
(* Steps that leave the file alone.                                        *)

\* No task begins to read, and none has written but what it had.
Calm == \A t \in Tasks :
    \/ task'[t] = task[t]
    \/ task'[t].at = "idle"
    \/ /\ task'[t].at = "wants"
       /\ t \in Pipes => task'[t].body # None /\ task'[t].body.merge = 0

\* What the file and the writes under way keep.
LEMMA CalmKeeps ==
    ASSUME Inv, log' = log, omitted \subseteq omitted', Calm,
           holder' = holder \/ \A t \in Tasks : task'[t].at = "idle"
    PROVE  Grows /\ Numbered' /\ Kept' /\ Alone' /\ Piped' /\ Written0'
<1>0. Types /\ Numbered
  BY DEF Inv
<1>1. Grows
  BY <1>0, GrowsIs
<1>2. Numbered'
  BY <1>0 DEF Numbered, Known
<1>3. Kept'
  BY DEF Inv, Kept, Told0, Known, Body
<1>4. Alone'
  <2>1. \A t \in Tasks : Busy(t)' => Busy(t) /\ task'[t] = task[t]
    BY DEF Calm, Busy
  <2>2. CASE holder' = holder
    BY <2>1, <2>2 DEF Inv, Alone, Busy
  <2>3. CASE \A t \in Tasks : task'[t].at = "idle"
    BY <2>3 DEF Alone, Busy
  <2>. QED BY <2>2, <2>3
<1>5. Piped'
  BY Constants DEF Inv, Piped, Calm
<1>6. Written0'
  BY <1>1 DEF Inv, Written0, Calm, Grows
<1>. QED BY <1>1, <1>2, <1>3, <1>4, <1>5, <1>6

\* What is nobody's stays so.
LEMMA LooseStays ==
    ASSUME NEW i, Loose(i), log' = log,
           \A k \in Clusters : i \notin members'[k] /\ i \notin filing'.seen[k],
           \A q \in Reflectors : i \notin run'[q].original
    PROVE  Loose(i)'
BY DEF Loose

\* A step that leaves the cycles alone, and the writes of the cycles.
LEMMA RestKeeps ==
    ASSUME Inv, Types', log' = log, holder' = holder, Calm,
           UNCHANGED <<run, omitted>>,
           \A r \in Reflectors : task'[r] = task[r],
           Filed', Indexed',
           \A i \in Known : Body(i).merge > 0 /\ Loose(i) => Loose(i)'
    PROVE  Inv'
<1>1. Grows /\ Numbered' /\ Kept' /\ Alone' /\ Piped' /\ Written0'
  BY CalmKeeps
<1>2. \A r \in Reflectors : Sound(r)'
  BY <1>1, SoundStays DEF Inv
<1>3. \A r \in Reflectors :
         Has(r)' => Has(r) /\ Mine(r)' = Mine(r) /\ Loose(Mine(r))
                    /\ Mine(r) \in Known /\ Body(Mine(r)).merge > 0
  <2>. SUFFICES ASSUME NEW r \in Reflectors, Has(r)'
                PROVE  /\ Has(r) /\ Mine(r)' = Mine(r) /\ Loose(Mine(r))
                       /\ Mine(r) \in Known /\ Body(Mine(r)).merge > 0
    OBVIOUS
  <2>1. Has(r) /\ Mine(r)' = Mine(r)
    BY DEF Has, Mine
  <2>. QED BY <2>1, MineKnown DEF Inv, Owned
<1>4. \A r \in Reflectors : Has(r)' => Loose(Mine(r))'
  <2>. SUFFICES ASSUME NEW r \in Reflectors, Has(r)' PROVE Loose(Mine(r))'
    OBVIOUS
  <2>1. PICK j : j = Mine(r)
    OBVIOUS
  <2>2. Loose(j)' /\ Mine(r)' = j
    BY <1>3, <2>1
  <2>. QED BY <2>2 DEF Loose
<1>5. Owned'
  BY <1>3, <1>4 DEF Inv, Owned
<1>. QED BY <1>1, <1>2, <1>5 DEF Inv

\* A step of the pipeline.
LEMMA PipelineKeeps ==
    ASSUME Inv, NEW t \in Pipes,
           (\E c \in Cells : Append1(t, c)) \/ Announce(t) \/ GiveUp(t)
    PROVE  Inv'
<1>0. /\ Types /\ Numbered /\ t \in Tasks /\ t \notin Reflectors
      /\ MaxTries \in Nat \ {0}
  BY Constants DEF Inv
<1>1. /\ task' \in [Tasks -> Write]
      /\ \A u \in Tasks : u # t => task'[u] = task[u]
      /\ \/ task'[t].at = "idle"
         \/ /\ task'[t].at = "wants" /\ task'[t].body # None
            /\ task'[t].body.merge = 0
  <2>1. CASE Announce(t) \/ GiveUp(t)
    BY <1>0, <2>1, EndsIs DEF Announce, GiveUp
  <2>2. ASSUME NEW c \in Cells, Append1(t, c)
        PROVE  /\ task' \in [Tasks -> Write]
               /\ \A u \in Tasks : u # t => task'[u] = task[u]
               /\ task'[t].at = "wants" /\ task'[t].body # None
               /\ task'[t].body.merge = 0
    <3>1. PICK b : b = Original(c)
      OBVIOUS
    <3>2. b \in Bodies /\ b # None /\ b.merge = 0 /\ Asks(t, b, <<>>)
      BY <2>2, <3>1, BodyParts DEF Append1
    <3>. QED BY <1>0, <3>2, AsksIs, MapParts
  <2>. QED BY <2>1, <2>2
<1>2. /\ UNCHANGED <<log, holder, row, dirty, sync, faults, members, rows>>
      /\ UNCHANGED filing
      /\ UNCHANGED <<run, omitted, merges>>
      /\ left' \subseteq left
  BY DEF Append1, Announce, GiveUp, indexVars, clusterVars, reflectionVars,
     asked
<1>3. /\ fact' \in [Ids -> FactStates] /\ todo' \in [Ids -> 0 .. MaxTries]
      /\ \A i \in Ids : todo'[i] > 0 =>
            \/ todo[i] > 0
            \/ task[t].at = "written" /\ i = task[t].id
  <2>1. CASE ~Announce(t)
    <3>1. fact' = fact /\ todo' = todo
      BY <2>1 DEF Append1, GiveUp, indexVars, clusterVars
    <3>. QED BY <1>0, <3>1 DEF Types, IndexTypes, TableTypes
  <2>2. CASE Announce(t)
    <3>0. fact \in [Ids -> FactStates] /\ todo \in [Ids -> 0 .. MaxTries]
      BY <1>0 DEF Types, IndexTypes, TableTypes
    <3>1. PICK i : i = task[t].id
      OBVIOUS
    <3>2. PICK s : s = IF i \in Watched THEN "due" ELSE fact[i]
      OBVIOUS
    <3>3. /\ todo' = [todo EXCEPT ![i] = MaxTries]
          /\ fact' = [fact EXCEPT ![i] = s] /\ task[t].at = "written"
      BY <2>2, <3>1, <3>2 DEF Announce, DueFacts
    <3>4. i \in Ids => s \in FactStates
      BY <3>0, <3>2 DEF FactStates
    <3>5. fact' \in [Ids -> FactStates]
      BY <3>0, <3>3, <3>4
    <3>6. todo' \in [Ids -> 0 .. MaxTries]
      <4>1. MaxTries \in 0 .. MaxTries
        BY <1>0
      <4>. QED BY <3>0, <3>3, <4>1
    <3>7. \A j \in Ids : j # i => todo'[j] = todo[j]
      BY <3>0, <3>3
    <3>. QED BY <3>1, <3>3, <3>5, <3>6, <3>7
  <2>. QED BY <2>1, <2>2
<1>4. Types'
  BY <1>0, <1>1, <1>2, <1>3
     DEF Types, FileTypes, IndexTypes, TableTypes, CycleTypes
<1>5. Calm
  BY <1>1 DEF Calm
<1>6. Filed'
  <2>1. task[t].at = "written" =>
           task[t].id \in Known /\ Body(task[t].id).merge = 0
    BY <1>0 DEF Inv, Piped, Written0
  <2>2. \A i \in Ids : todo'[i] > 0 => i \in Known' /\ Body(i)'.merge = 0
    BY <1>2, <1>3, <2>1 DEF Inv, Filed, Known, Body
  <2>3. filing.at # "idle" => todo'[filing.entry] > 0
    <3>1. CASE ~Announce(t)
      BY <3>1 DEF Append1, GiveUp, clusterVars, Inv, Filed
    <3>2. CASE Announce(t)
      BY <1>0, <3>2 DEF Announce, Inv, Filed, Types, TableTypes
    <3>. QED BY <3>1, <3>2
  <2>. QED BY <1>2, <2>2, <2>3 DEF Inv, Filed, Known
<1>7. Indexed'
  BY <1>0, <1>2, <1>4, GrowsIs, IndexedStays DEF Inv
<1>8. \A i : Loose(i) => Loose(i)'
  BY <1>2 DEF Loose
<1>9. \A r \in Reflectors : task'[r] = task[r]
  BY <1>0, <1>1, Constants
<1>. QED BY <1>2, <1>4, <1>5, <1>6, <1>7, <1>8, <1>9, RestKeeps

-----------------------------------------------------------------------------
(* Clustering.                                                             *)

\* What a step of the clustering may put into its tables.
Files ==
    /\ TableTypes'
    /\ \A k \in Clusters : \A i \in members'[k] :
         \/ i \in members[k] \/ i \in filing.seen[k]
         \/ filing.at # "idle" /\ i = filing.entry
    /\ \A k \in Clusters : \A i \in filing'.seen[k] :
         i \in members[k] \/ i \in filing.seen[k]
    /\ filing'.at # "idle" => filing'.entry \in Ids /\ todo'[filing'.entry] > 0
    /\ \A i \in Ids : todo'[i] > 0 => todo[i] > 0

\* The run that is none.
LEMMA NoRunIs ==
    CL!NoRun \in Filing /\ CL!NoRun.at = "idle"
    /\ \A k \in Clusters : CL!NoRun.seen[k] = {}
BY DEF CL!NoRun, Filing

\* A step of the clustering.
LEMMA FilingIs ==
    ASSUME Inv, CL!FilingStep \/ CL!FilingRaises
    PROVE  Files
<1>0. /\ members \in [Clusters -> SUBSET Ids] /\ rows \subseteq Clusters
      /\ todo \in [Ids -> 0 .. MaxTries] /\ filing \in Filing
      /\ MaxTries \in Nat \ {0} /\ Ids \subseteq Nat
      /\ filing.at # "idle" => filing.entry \in Ids /\ todo[filing.entry] > 0
  BY Constants DEF Inv, Types, TableTypes, Filed
<1>1. /\ filing.seen \in [Clusters -> SUBSET Ids] /\ filing.entry \in Nat
      /\ filing.known \subseteq Clusters
  BY <1>0 DEF Filing
<1>2. ASSUME NEW e \in Ids, CL!BeginFiling(e) PROVE Files
  <2>1. filing' \in Filing /\ filing'.at = "merges" /\ filing'.entry = e
        /\ filing'.seen = members
    BY <1>0, <1>2 DEF CL!BeginFiling, Filing
  <2>2. todo[e] > 0 /\ UNCHANGED <<members, rows, todo>>
    BY <1>2 DEF CL!BeginFiling, CL!MayFile
  <2>. QED BY <1>0, <2>1, <2>2 DEF Files, TableTypes
<1>3. CASE CL!FileEntry
  <2>1. PICK k \in CL!Targets(filing) :
           CL!UpsertWithMembers(k, filing.seen[k] \cup {filing.entry})
    BY <1>3 DEF CL!FileEntry
  <2>2. k \in Clusters
    BY <1>1, <2>1 DEF CL!Targets
  <2>3. PICK w : w = [filing EXCEPT !.at = "emits"]
    OBVIOUS
  <2>4. w \in Filing /\ w.seen = filing.seen /\ w.entry = filing.entry
    BY <1>0, <2>3 DEF Filing
  <2>5. filing' = w /\ todo' = todo /\ filing.at = "merges"
    BY <1>3, <2>3 DEF CL!FileEntry
  <2>6. PICK M : M = members[k] \cup filing.seen[k] \cup {filing.entry}
    OBVIOUS
  <2>7. /\ members' = [members EXCEPT ![k] = M] /\ rows' = rows \cup {k}
    BY <2>1, <2>6 DEF CL!UpsertWithMembers
  <2>8. M \subseteq Ids
    BY <1>0, <1>1, <2>2, <2>5, <2>6
  <2>9. TableTypes'
    BY <1>0, <2>2, <2>4, <2>5, <2>7, <2>8 DEF TableTypes
  <2>10. \A j \in Clusters : members'[j] = IF j = k THEN M ELSE members[j]
    BY <1>0, <2>2, <2>7
  <2>. QED BY <1>0, <2>4, <2>5, <2>6, <2>9, <2>10 DEF Files
<1>4. CASE CL!EndFiling \/ CL!FilingRaises
  <2>1. PICK i \in Ids : i = filing.entry
    BY <1>0, <1>4 DEF CL!EndFiling, CL!FilingRaises
  <2>2. PICK n : todo' = [todo EXCEPT ![i] = n] /\ (n = 0 \/ n = todo[i] - 1)
    BY <1>4, <2>1 DEF CL!EndFiling, CL!FilingRaises
  <2>3. /\ filing' = CL!NoRun /\ UNCHANGED <<members, rows>> /\ todo[i] > 0
    BY <1>0, <1>4, <2>1 DEF CL!EndFiling, CL!FilingRaises
  <2>4. n \in 0 .. MaxTries /\ (n > 0 => todo[i] > 0)
    BY <1>0, <2>2, <2>3
  <2>5. todo' \in [Ids -> 0 .. MaxTries]
    BY <1>0, <2>2, <2>4
  <2>. QED BY <1>0, <2>2, <2>3, <2>4, <2>5, NoRunIs DEF Files, TableTypes
<1>. QED BY <1>2, <1>3, <1>4 DEF CL!FilingStep

\* The clustering keeps the invariant: it files originals alone.
LEMMA FilesKeeps ==
    ASSUME Inv, File \/ FileRaises
    PROVE  Inv'
<1>0. Types /\ Numbered
  BY DEF Inv
<1>1. Files
  BY FilingIs DEF File, FileRaises
<1>2. /\ UNCHANGED <<log, holder, task, row, dirty, sync, fact, run, omitted>>
      /\ UNCHANGED <<left, merges>> /\ faults' \in 0 .. MaxFaults
  BY <1>0, Constants DEF File, FileRaises, logVars, indexVars, reflectionVars,
     asked, Types, FileTypes
<1>3. Types'
  BY <1>0, <1>1, <1>2 DEF Files, Types, FileTypes, IndexTypes, CycleTypes
<1>4. Filed'
  <2>1. filing.at # "idle" => filing.entry \in Known
    BY DEF Inv, Filed
  <2>2. \A k \in Clusters : members'[k] \subseteq Known
                            /\ filing'.seen[k] \subseteq Known
    BY <1>1, <2>1 DEF Inv, Filed, Files
  <2>3. \A i \in Ids : todo'[i] > 0 => i \in Known /\ Body(i).merge = 0
    BY <1>1 DEF Inv, Filed, Files
  <2>. QED BY <1>1, <1>2, <2>2, <2>3 DEF Filed, Files, Known, Body
<1>5. Indexed'
  BY <1>0, <1>2, <1>3, GrowsIs, IndexedStays DEF Inv
<1>6. Calm
  BY <1>2 DEF Calm
<1>7. ASSUME NEW i \in Known, Body(i).merge > 0, Loose(i) PROVE Loose(i)'
  <2>1. filing.at # "idle" => filing.entry # i
    BY <1>7 DEF Inv, Filed
  <2>2. \A k \in Clusters : i \notin members'[k] /\ i \notin filing'.seen[k]
    BY <1>1, <1>7, <2>1 DEF Files, Loose
  <2>. QED BY <1>2, <1>7, <2>2, LooseStays DEF Loose
<1>. QED BY <1>2, <1>3, <1>4, <1>5, <1>6, <1>7, RestKeeps

-----------------------------------------------------------------------------
(* The cascade and the facts.                                              *)

\* What a file that was read tells of an entry.
LEMMA BodyOfIs ==
    ASSUME Types, Numbered, NEW f \in File0, Begins(f), NEW i \in Ids
    PROVE  /\ BodyOf(f, i) \in Bodies \cup {None}
           /\ BodyOf(f, i) # None <=> i \in 1 .. f.count
           /\ BodyOf(f, i) # None => i \in Known /\ BodyOf(f, i) = Body(i)
<1>1. /\ f.entries \in Seq(Entry) /\ f.count \in Nat /\ f.count = Len(f.entries)
      /\ log.count \in Nat /\ f.count <= log.count /\ i \in Nat /\ i # 0
      /\ \A n \in 1 .. f.count : f.entries[n] = log.entries[n]
  BY FileParts, KnownIds, Constants DEF Begins
<1>2. DOMAIN f.entries = 1 .. f.count
  BY <1>1
<1>3. \A n \in 1 .. f.count : n \in Known /\ f.entries[n].id = n
  BY <1>1 DEF Numbered, Known
<1>4. PICK at : at = {n \in DOMAIN f.entries : f.entries[n].id = i}
  OBVIOUS
<1>5. at = IF i \in 1 .. f.count THEN {i} ELSE {}
  BY <1>2, <1>3, <1>4
<1>6. CASE i \notin 1 .. f.count
  <2>1. BodyOf(f, i) = None
    BY <1>4, <1>5, <1>6 DEF BodyOf
  <2>. QED BY <1>6, <2>1
<1>7. CASE i \in 1 .. f.count
  <2>1. PICK x : x = CHOOSE n \in at : \A m \in at : m <= n
    OBVIOUS
  <2>2. x = i
    BY <1>1, <1>5, <1>7, <2>1
  <2>3. BodyOf(f, i) = f.entries[x].body
    BY <1>4, <1>5, <1>7, <2>1 DEF BodyOf
  <2>4. i \in Known /\ BodyOf(f, i) = Body(i)
    BY <1>1, <1>3, <1>7, <2>2, <2>3 DEF Body
  <2>5. BodyOf(f, i) \in Bodies /\ BodyOf(f, i) # None
    BY <2>4, EntryBody, BodyParts
  <2>. QED BY <1>7, <2>4, <2>5
<1>. QED BY <1>6, <1>7

\* Deprecations change no body.
LEMMA DeprecateIs ==
    ASSUME NEW rs \in [Ids -> Row], NEW m, \A i \in DOMAIN m : m[i] \in Ids
    PROVE  /\ Deprecate(rs, m) \in [Ids -> Row]
           /\ \A i \in Ids : /\ Deprecate(rs, m)[i].body = rs[i].body
                             /\ Deprecate(rs, m)[i].deprecated =
                                  IF i \in DOMAIN m /\ rs[i].body # None
                                  THEN m[i] ELSE rs[i].deprecated
<1>1. ASSUME NEW i \in Ids
      PROVE  /\ Deprecate(rs, m)[i] \in Row
             /\ Deprecate(rs, m)[i].body = rs[i].body
             /\ Deprecate(rs, m)[i].deprecated =
                  IF i \in DOMAIN m /\ rs[i].body # None
                  THEN m[i] ELSE rs[i].deprecated
  <2>0. rs[i] \in Row
    OBVIOUS
  <2>1. CASE i \in DOMAIN m /\ rs[i].body # None
    <3>1. PICK d \in Ids : d = m[i]
      BY <2>1
    <3>2. PICK w : w = [rs[i] EXCEPT !.deprecated = d]
      OBVIOUS
    <3>3. w \in Row /\ w.body = rs[i].body /\ w.deprecated = d
      BY <2>0, <3>2 DEF Row
    <3>4. Deprecate(rs, m)[i] = w
      BY <2>1, <3>1, <3>2 DEF Deprecate
    <3>. QED BY <2>1, <3>1, <3>3, <3>4
  <2>2. CASE ~(i \in DOMAIN m /\ rs[i].body # None)
    <3>1. Deprecate(rs, m)[i] = rs[i]
      BY <2>2 DEF Deprecate
    <3>. QED BY <2>0, <2>2, <3>1
  <2>. QED BY <2>1, <2>2
<1>2. Deprecate(rs, m) \in [Ids -> Row]
  BY <1>1 DEF Deprecate
<1>. QED BY <1>1, <1>2

\* The file before any episode is a beginning of every file.
LEMMA NoSyncIs ==
    ASSUME Types
    PROVE  NoSync \in Handler /\ NoSync.at = "idle" /\ Begins(NoSync.file)
<1>1. EmptyFile \in File0
  BY MapParts, EmptySeq DEF EmptyFile, File0
<1>2. NoSync \in Handler /\ NoSync.at = "idle" /\ NoSync.file = EmptyFile
  BY <1>1 DEF NoSync, Handler
<1>3. EmptyFile.entries = <<>> /\ EmptyFile.count = 0
  BY DEF EmptyFile
<1>4. log.count \in Nat
  BY FileParts DEF Types, FileTypes
<1>5. Begins(EmptyFile)
  BY <1>3, <1>4, EmptySeq DEF Begins
<1>. QED BY <1>2, <1>5

\* What a step of the handler or of the facts does to the index.
Indexes ==
    /\ IndexTypes' /\ faults' \in 0 .. MaxFaults
    /\ \A i \in Ids : row'[i].body # None =>
         i \in Known /\ row'[i].body = Body(i)
    /\ Begins(sync'.file)

\* The handler reads the file, or raises.
LEMMA SyncReadsIs ==
    ASSUME Inv, (SyncReads /\ UNCHANGED faults) \/ SyncRaises
    PROVE  Indexes
<1>0. /\ Types /\ Numbered /\ Indexed
      /\ log \in File0 /\ log.count \in Nat /\ log.count = Len(log.entries)
      /\ row \in [Ids -> Row] /\ fact \in [Ids -> FactStates]
      /\ faults \in 0 .. MaxFaults /\ MaxFaults \in Nat
  BY KnownIds, Constants DEF Inv, Types, FileTypes, IndexTypes, Numbered
<1>1. CASE SyncReads /\ UNCHANGED faults
  <2>1. DiffEntries(log) \subseteq Ids
    BY DEF DiffEntries
  <2>2. sync' \in Handler /\ sync'.file = log
    BY <1>0, <1>1, <2>1 DEF SyncReads, Handler
  <2>3. UNCHANGED <<row, fact, faults>> /\ dirty' \in BOOLEAN
    BY <1>1 DEF SyncReads
  <2>4. Begins(log)
    BY <1>0 DEF Begins
  <2>. QED BY <1>0, <2>2, <2>3, <2>4 DEF Indexes, IndexTypes, Indexed
<1>2. CASE SyncRaises
  <2>1. /\ UNCHANGED <<row, fact>> /\ dirty' \in BOOLEAN /\ sync' = NoSync
        /\ faults' \in 0 .. MaxFaults
    BY <1>0, <1>2 DEF SyncRaises
  <2>. QED BY <1>0, <2>1, NoSyncIs DEF Indexes, IndexTypes, Indexed
<1>. QED BY <1>1, <1>2

\* The handler writes its rows.
LEMMA SyncAppliesIs ==
    ASSUME Inv, SyncApplies, UNCHANGED faults
    PROVE  Indexes
<1>0. /\ Types /\ Numbered /\ Indexed
      /\ row \in [Ids -> Row] /\ fact \in [Ids -> FactStates]
      /\ sync \in Handler /\ dirty \in BOOLEAN
      /\ faults \in 0 .. MaxFaults
  BY DEF Inv, Types, FileTypes, IndexTypes
<1>1. PICK f \in File0 : f = sync.file /\ Begins(f)
  BY <1>0 DEF Indexed, Handler
<1>2. PICK w : w = [sync EXCEPT !.at = "marks"]
  OBVIOUS
<1>3. w \in Handler /\ w.file = f
  BY <1>0, <1>1, <1>2 DEF Handler
<1>4. sync' = w /\ UNCHANGED <<dirty, fact>>
  BY <1>2 DEF SyncApplies
<1>5. ASSUME NEW i \in Ids
      PROVE  /\ row'[i] \in Row
             /\ row'[i].body # None => i \in Known /\ row'[i].body = Body(i)
  <2>1. PICK b \in Bodies \cup {None} :
           b = BodyOf(f, i) /\ (b # None => i \in Known /\ b = Body(i))
    BY <1>0, <1>1, BodyOfIs
  <2>2. CASE i \in sync.build
    <3>1. row'[i] = [body |-> b, deprecated |-> 0]
      BY <1>1, <2>1, <2>2 DEF SyncApplies
    <3>2. row'[i] \in Row /\ row'[i].body = b
      BY <3>1 DEF Row
    <3>. QED BY <2>1, <3>2
  <2>3. CASE i \notin sync.build
    <3>1. row'[i] = IF b = None THEN Absent ELSE row[i]
      BY <1>1, <2>1, <2>3 DEF SyncApplies
    <3>2. Absent \in Row /\ Absent.body = None
      BY DEF Absent, Row
    <3>. QED BY <1>0, <3>1, <3>2 DEF Indexed
  <2>. QED BY <2>2, <2>3
<1>6. row' \in [Ids -> Row]
  BY <1>5 DEF SyncApplies
<1>. QED BY <1>0, <1>1, <1>3, <1>4, <1>5, <1>6 DEF Indexes, IndexTypes

\* The handler writes the deprecations it has read.
LEMMA SyncMarksIs ==
    ASSUME Inv, SyncMarks
    PROVE  Indexes
<1>0. /\ Types /\ Indexed
      /\ row \in [Ids -> Row] /\ fact \in [Ids -> FactStates]
      /\ sync \in Handler /\ dirty \in BOOLEAN
      /\ faults \in 0 .. MaxFaults /\ MaxFaults \in Nat
      /\ Ids = 1 .. MaxEntries /\ MaxEntries \in Nat
  BY Constants DEF Inv, Types, FileTypes, IndexTypes
<1>1. PICK map \in Maps : map = Propagated(sync.file)
  BY <1>0, FileParts DEF Propagated, Handler
<1>2. PICK lost \in SUBSET DOMAIN map :
         /\ faults + Cardinality(lost) <= MaxFaults
         /\ faults' = faults + Cardinality(lost)
         /\ row' = Deprecate(row, [i \in DOMAIN map \ lost |-> map[i]])
  BY <1>1 DEF SyncMarks
<1>3. Cardinality(lost) \in Nat
  <2>1. IsFiniteSet(Ids)
    BY <1>0, FS_Interval
  <2>2. lost \subseteq Ids
    BY MapParts
  <2>. QED BY <2>1, <2>2, FS_Subset, FS_CardinalityType
<1>4. PICK m : m = [i \in DOMAIN map \ lost |-> map[i]]
  OBVIOUS
<1>5. \A i \in DOMAIN m : m[i] \in Ids
  BY <1>4, MapParts
<1>6. /\ row' \in [Ids -> Row]
      /\ \A i \in Ids : row'[i].body = row[i].body
  <2>1. row' = Deprecate(row, m)
    BY <1>2, <1>4
  <2>. QED BY <1>0, <1>5, <2>1, DeprecateIs
<1>7. sync' = NoSync /\ UNCHANGED <<dirty, fact>>
  BY DEF SyncMarks
<1>8. faults' \in 0 .. MaxFaults
  BY <1>0, <1>2, <1>3
<1>. QED BY <1>0, <1>6, <1>7, <1>8, NoSyncIs DEF Indexes, IndexTypes, Indexed

\* A step of the facts.
LEMMA FactsIs ==
    ASSUME Inv, NEW i \in Ids, Extract(i) \/ ExtractFails(i) \/ IndexFacts(i)
    PROVE  Indexes
<1>0. /\ Indexed /\ row \in [Ids -> Row] /\ fact \in [Ids -> FactStates]
      /\ sync \in Handler /\ dirty \in BOOLEAN
      /\ faults \in 0 .. MaxFaults /\ MaxFaults \in Nat
  BY Constants DEF Inv, Types, FileTypes, IndexTypes
<1>1. PICK s \in FactStates : fact' = [fact EXCEPT ![i] = s]
  BY DEF Extract, ExtractFails, IndexFacts, FactStates
<1>2. UNCHANGED <<row, dirty, sync>> /\ faults' \in 0 .. MaxFaults
  BY <1>0 DEF Extract, ExtractFails, IndexFacts
<1>3. fact' \in [Ids -> FactStates]
  BY <1>0, <1>1
<1>. QED BY <1>0, <1>2, <1>3 DEF Indexes, IndexTypes, Indexed

\* The cascade and the facts keep the invariant.
LEMMA IndexKeeps ==
    ASSUME Inv, Sync \/ Facts
    PROVE  Inv'
<1>0. Types /\ Numbered
  BY DEF Inv
<1>1. Indexes
  BY SyncReadsIs, SyncAppliesIs, SyncMarksIs, FactsIs DEF Sync, Facts
<1>2. /\ UNCHANGED <<log, holder, task, members, rows, todo, filing>>
      /\ UNCHANGED <<run, omitted, left, merges>>
  BY DEF Sync, Facts, logVars, clusterVars, reflectionVars, asked
<1>3. Types'
  BY <1>0, <1>1, <1>2 DEF Indexes, Types, FileTypes, TableTypes, CycleTypes
<1>4. Grows /\ UNCHANGED clusterVars
  BY <1>0, <1>2, GrowsIs DEF clusterVars
<1>5. Filed'
  BY <1>4, FiledStays DEF Inv
<1>6. Indexed'
  BY <1>1, <1>2 DEF Indexed, Indexes, Begins, Known, Body
<1>7. Calm
  BY <1>2 DEF Calm
<1>8. \A i : Loose(i) => Loose(i)'
  BY <1>2 DEF Loose
<1>. QED BY <1>2, <1>3, <1>5, <1>6, <1>7, <1>8, RestKeeps

-----------------------------------------------------------------------------
(* A cycle.                                                                *)

\* A step of cycle r: other cycles and other writes rest.
Only(r) ==
    /\ log' = log /\ holder' = holder /\ omitted \subseteq omitted'
    /\ \A q \in Reflectors : q # r => run'[q] = run[q]
    /\ \A t \in Tasks : t # r => task'[t] = task[t]

\* A step of a cycle keeps the invariant when it is sound and lets go of no
\* merged episode but its own.
LEMMA CycleKeeps ==
    ASSUME Inv, Types', NEW r \in Reflectors, Only(r),
           task'[r] = task[r] \/ task'[r].at \in {"idle", "wants"},
           Sound(r)', Filed', Indexed',
           Has(r)' => Has(r) /\ Mine(r)' = Mine(r),
           \A i \in Known :
               Loose(i) /\ (Has(r) /\ ~Has(r)' => i # Mine(r)) => Loose(i)'
    PROVE  Inv'
<1>1. r \in Tasks /\ r \notin Pipes
  BY Constants
<1>2. Calm
  BY <1>1 DEF Calm, Only
<1>3. Grows /\ Numbered' /\ Kept' /\ Alone' /\ Piped' /\ Written0'
  BY <1>2, CalmKeeps DEF Only
<1>4. \A q \in Reflectors : Sound(q)'
  <2>. SUFFICES ASSUME NEW q \in Reflectors, q # r PROVE Sound(q)'
    OBVIOUS
  <2>1. task'[q] = task[q] /\ run'[q] = run[q] /\ Sound(q)
    BY Constants DEF Only, Inv
  <2>. QED BY <1>3, <2>1, SoundStays DEF Only
<1>5. \A q \in Reflectors :
         Has(q)' => /\ Has(q) /\ Mine(q)' = Mine(q) /\ Loose(Mine(q))
                    /\ Mine(q) \in Known
                    /\ Has(r) /\ Mine(r) = Mine(q) => q = r
  <2>. SUFFICES ASSUME NEW q \in Reflectors, Has(q)'
                PROVE  /\ Has(q) /\ Mine(q)' = Mine(q) /\ Loose(Mine(q))
                       /\ Mine(q) \in Known
                       /\ Has(r) /\ Mine(r) = Mine(q) => q = r
    OBVIOUS
  <2>1. Has(q) /\ Mine(q)' = Mine(q)
    <3>1. CASE q = r
      BY <3>1
    <3>2. CASE q # r
      <4>1. task'[q] = task[q] /\ run'[q] = run[q]
        BY <3>2, Constants DEF Only
      <4>. QED BY <4>1 DEF Has, Mine
    <3>. QED BY <3>1, <3>2
  <2>. QED BY <2>1, MineKnown DEF Inv, Owned
<1>6. \A q \in Reflectors : Has(q)' => Loose(Mine(q))'
  <2>. SUFFICES ASSUME NEW q \in Reflectors, Has(q)' PROVE Loose(Mine(q))'
    OBVIOUS
  <2>1. PICK j : j = Mine(q)
    OBVIOUS
  <2>2. j \in Known /\ Loose(j) /\ Mine(q)' = j
    BY <1>5, <2>1
  <2>3. Has(r) /\ ~Has(r)' => j # Mine(r)
    BY <1>5, <2>1
  <2>4. Loose(j)'
    BY <2>2, <2>3
  <2>. QED BY <2>2, <2>4 DEF Loose
<1>7. Owned'
  BY <1>5, <1>6 DEF Inv, Owned
<1>. QED BY <1>3, <1>4, <1>7 DEF Inv

\* A cycle goes on as c.
LEMMA GoesIs ==
    ASSUME Types, NEW r \in Reflectors, NEW c \in Cycle0, Goes(r, c)
    PROVE  /\ run' \in [Reflectors -> Cycle0] /\ run'[r] = c
           /\ \A q \in Reflectors : q # r => run'[q] = run[q]
BY DEF Goes, Types, CycleTypes

\* A cycle moves on.
LEMMA MovesIs ==
    ASSUME Types, NEW r \in Reflectors,
           NEW at \in {"idle", "next", "loads", "reflects", "writes", "reports"}
                        \cup Reflecting,
           Moves(r, at)
    PROVE  /\ run' \in [Reflectors -> Cycle0]
           /\ \A q \in Reflectors : q # r => run'[q] = run[q]
           /\ run'[r].at = at /\ run'[r].original = run[r].original
           /\ run'[r].episodes = run[r].episodes
           /\ run'[r].merged = run[r].merged /\ run'[r].targets = run[r].targets
<1>1. run[r] \in Cycle0
  BY DEF Types, CycleTypes
<1>2. PICK c : c = [run[r] EXCEPT !.at = at]
  OBVIOUS
<1>3. /\ c \in Cycle0 /\ c.at = at /\ c.original = run[r].original
      /\ c.episodes = run[r].episodes /\ c.merged = run[r].merged
      /\ c.targets = run[r].targets
  BY <1>1, <1>2 DEF Cycle0
<1>4. Goes(r, c)
  BY <1>2 DEF Moves
<1>. QED BY <1>3, <1>4, GoesIs

\* A cycle has nothing in hand but the members that it has read.
Rests(r) ==
    /\ run' \in [Reflectors -> Cycle0]
    /\ \A q \in Reflectors : q # r => run'[q] = run[q]
    /\ run'[r].at \in {"idle", "next", "loads"}
    /\ \A i \in run'[r].original : \E k \in Clusters : i \in members[k]
    /\ DOMAIN run'[r].episodes = {} /\ run'[r].targets = {}

\* A cycle that is read from the tables, field by field.
LEMMA FreshIs ==
    ASSUME Types, NEW r \in Reflectors, NEW c,
           NEW at \in {"idle", "next", "loads"}, NEW Q \in SUBSET Clusters,
           NEW k \in Clusters \cup {None}, NEW M \in SUBSET Ids,
           c = [at |-> at, queue |-> Q, cluster |-> k, original |-> M,
                episodes |-> <<>>, merged |-> 0, targets |-> {}],
           \A i \in M : \E j \in Clusters : i \in members[j],
           Goes(r, c)
    PROVE  Rests(r)
<1>1. /\ c.at = at /\ c.original = M /\ DOMAIN c.episodes = {}
      /\ c.targets = {}
  BY MapParts
<1>2. c \in Cycle0
  BY MapParts DEF Cycle0
<1>3. /\ run' \in [Reflectors -> Cycle0] /\ run'[r] = c
      /\ \A q \in Reflectors : q # r => run'[q] = run[q]
  BY <1>2, GoesIs
<1>. QED BY <1>1, <1>3 DEF Rests

\* The next cluster, or the end.
LEMMA NextClusterIs ==
    ASSUME Types, NEW r \in Reflectors, NextCluster(r)
    PROVE  Rests(r)
<1>1. PICK Q \in SUBSET Clusters : Q = run[r].queue
  BY CycleParts DEF Types, CycleTypes
<1>2. PICK at \in {"idle", "next"} : at = IF Q = {} THEN "idle" ELSE "next"
  OBVIOUS
<1>3. PICK c : c = [NoCycle EXCEPT !.at = at, !.queue = Q]
  OBVIOUS
<1>4. c = [at |-> at, queue |-> Q, cluster |-> None, original |-> {},
           episodes |-> <<>>, merged |-> 0, targets |-> {}]
  BY <1>3 DEF NoCycle
<1>5. Goes(r, c)
  BY <1>1, <1>2, <1>3 DEF NextCluster
<1>. QED BY <1>4, <1>5, FreshIs

\* A cycle begins.
LEMMA SelectIs ==
    ASSUME Types, NEW r \in Reflectors, Select(r)
    PROVE  Rests(r)
<1>1. PICK Q \in SUBSET Clusters : Q = Candidates
  BY DEF Types, TableTypes, Candidates
<1>3. PICK c : c = [NoCycle EXCEPT !.at = "next", !.queue = Q]
  OBVIOUS
<1>4. c = [at |-> "next", queue |-> Q, cluster |-> None, original |-> {},
           episodes |-> <<>>, merged |-> 0, targets |-> {}]
  BY <1>3 DEF NoCycle
<1>5. Goes(r, c)
  BY <1>1, <1>3 DEF Select
<1>. QED BY <1>4, <1>5, FreshIs

\* A cycle reads the members of a cluster.
LEMMA LoadMembersIs ==
    ASSUME Types, NEW r \in Reflectors, LoadMembers(r)
    PROVE  Rests(r)
<1>1. PICK k \in run[r].queue, Q \in SUBSET run[r].queue :
         Q = run[r].queue \ {k} /\
         Goes(r, IF members[k] = {}
                 THEN [NoCycle EXCEPT !.queue = Q, !.at =
                          IF Q = {} THEN "idle" ELSE "next"]
                 ELSE [NoCycle EXCEPT !.at = "loads", !.queue = Q,
                          !.cluster = k, !.original = members[k]])
  BY DEF LoadMembers
<1>2. Q \in SUBSET Clusters /\ k \in Clusters /\ members[k] \in SUBSET Ids
  BY <1>1, CycleParts DEF Types, CycleTypes, TableTypes
<1>3. CASE members[k] = {}
  <2>1. PICK at \in {"idle", "next"} : at = IF Q = {} THEN "idle" ELSE "next"
    OBVIOUS
  <2>2. PICK c : c = [NoCycle EXCEPT !.queue = Q, !.at = at]
    OBVIOUS
  <2>3. c = [at |-> at, queue |-> Q, cluster |-> None, original |-> {},
             episodes |-> <<>>, merged |-> 0, targets |-> {}]
    BY <2>2 DEF NoCycle
  <2>4. Goes(r, c)
    BY <1>1, <1>3, <2>1, <2>2
  <2>. QED BY <1>2, <2>3, <2>4, FreshIs
<1>4. CASE members[k] # {}
  <2>1. PICK M \in SUBSET Ids : M = members[k]
    BY <1>2
  <2>2. PICK c : c = [NoCycle EXCEPT !.at = "loads", !.queue = Q,
                                     !.cluster = k, !.original = M]
    OBVIOUS
  <2>3. c = [at |-> "loads", queue |-> Q, cluster |-> k, original |-> M,
             episodes |-> <<>>, merged |-> 0, targets |-> {}]
    BY <2>2 DEF NoCycle
  <2>4. Goes(r, c)
    BY <1>1, <1>4, <2>1, <2>2
  <2>. QED BY <1>2, <2>1, <2>3, <2>4, FreshIs
<1>. QED BY <1>3, <1>4

\* A cycle that has let go of what it had.
LEMMA RestsKeeps ==
    ASSUME Inv, NEW r \in Reflectors, Rests(r), task' \in [Tasks -> Write],
           \A t \in Tasks : t # r => task'[t] = task[t], task'[r].at = "idle",
           faults' \in 0 .. MaxFaults,
           UNCHANGED <<log, holder, indexVars, clusterVars, left, asked>>
    PROVE  Inv'
<1>0. Types /\ Numbered
  BY DEF Inv
<1>1. /\ UNCHANGED <<row, dirty, sync, fact, members, rows, todo, filing>>
      /\ UNCHANGED <<merges, omitted>>
  BY DEF indexVars, clusterVars, asked
<1>2. Types'
  BY <1>0, <1>1 DEF Rests, Types, FileTypes, IndexTypes, TableTypes, CycleTypes
<1>3. Grows
  BY <1>0, GrowsIs
<1>4. Filed' /\ Indexed'
  BY <1>0, <1>1, <1>2, <1>3, FiledStays, IndexedStays DEF Inv
<1>5. Only(r)
  BY <1>1 DEF Only, Rests
<1>6. Sound(r)'
  <2>1. run'[r].original \subseteq Known'
    BY <1>3 DEF Rests, Inv, Filed, Grows
  <2>. QED BY <2>1 DEF Rests, Sound, Reflecting
<1>7. ~Has(r)'
  BY DEF Rests, Has, Reflecting
<1>8. ASSUME NEW i, Loose(i) PROVE Loose(i)'
  <2>1. \A q \in Reflectors : i \notin run'[q].original
    BY <1>8 DEF Rests, Loose
  <2>. QED BY <1>1, <1>8, <2>1, LooseStays DEF Loose
<1>. QED BY <1>2, <1>4, <1>5, <1>6, <1>7, <1>8, CycleKeeps

\* A cycle that goes on with what it has and none of its writes under way.
Turns(r) ==
    /\ run' \in [Reflectors -> Cycle0]
    /\ \A q \in Reflectors : q # r => run'[q] = run[q]
    /\ run[r].at \in Reflecting
    /\ run'[r].at \in (Reflecting \ {"patching"}) \cup {"reports"}
    /\ run'[r].original = run[r].original
    /\ run'[r].episodes = run[r].episodes /\ run'[r].merged = run[r].merged
    /\ run'[r].targets \subseteq run[r].original
    /\ task' \in [Tasks -> Write] /\ task'[r].at = "idle"
    /\ \A t \in Tasks : t # r => task'[t] = task[t]

\* What holds of such a cycle.
LEMMA TurnsIs ==
    ASSUME Inv, NEW r \in Reflectors, Turns(r),
           UNCHANGED <<log, holder, omitted>>
    PROVE  /\ Grows /\ Only(r) /\ Sound(r)' /\ Has(r)
           /\ Has(r)' => Mine(r)' = Mine(r)
           /\ ~Has(r)' => run'[r].at = "reports"
<1>0. Types /\ Numbered /\ Sound(r)
  BY DEF Inv
<1>1. Grows
  BY <1>0, GrowsIs
<1>2. Only(r)
  BY DEF Only, Turns
<1>3. Has(r) /\ Mine(r) = run[r].merged
  BY DEF Turns, Has, Mine, Reflecting
<1>4. /\ Has(r)' => Mine(r)' = Mine(r)
      /\ ~Has(r)' => run'[r].at = "reports"
  BY <1>3 DEF Turns, Has, Mine, Reflecting
<1>5. Sound(r)'
  <2>0. PICK m : m = run[r].merged
    OBVIOUS
  <2>1. Gathered(r)' = Gathered(r)
    BY DEF Gathered, CellsOf, Turns
  <2>2. /\ m \in Known' /\ Body(m)'.merge > 0
        /\ Gathered(r)' \subseteq Body(m)'.of \cup omitted'
    BY <1>0, <1>1, <2>0, <2>1 DEF Sound, Grows, Turns
  <2>3. \A i \in Known : i \in Known' /\ Body(i)' = Body(i)
    BY <1>1 DEF Grows
  <2>4. /\ run'[r].at \notin {"writes", "patching"}
        /\ task'[r].at = "idle"
    BY DEF Turns, Reflecting
  <2>5. run'[r].merged = m
    BY <2>0 DEF Turns
  <2>6. run'[r].at \in Reflecting =>
           /\ run'[r].merged \in Known' /\ Body(run[r].merged)'.merge > 0
           /\ Gathered(r)' \subseteq Body(run[r].merged)'.of \cup omitted'
    BY <2>2, <2>5 DEF Body
  <2>7. /\ run'[r].original \subseteq Known'
        /\ DOMAIN run'[r].episodes \subseteq run'[r].original
        /\ \A i \in DOMAIN run'[r].episodes : run'[r].episodes[i] = Body(i)'
        /\ run'[r].targets \subseteq run'[r].original
    BY <1>0, <2>3 DEF Sound, Turns
  <2>. QED BY <2>4, <2>6, <2>7 DEF Sound
<1>. QED BY <1>1, <1>2, <1>3, <1>4, <1>5

\* Steps of it that leave the tables alone.
LEMMA TurnsKeeps ==
    ASSUME Inv, NEW r \in Reflectors, Turns(r), run'[r].at # "reports",
           row' \in [Ids -> Row], fact' \in [Ids -> FactStates],
           \A i \in Ids : row'[i].body = row[i].body,
           UNCHANGED <<log, holder, dirty, sync, faults, clusterVars, left,
                       asked>>
    PROVE  Inv'
<1>0. Types /\ Numbered
  BY DEF Inv
<1>1. UNCHANGED <<members, rows, todo, filing, merges, omitted>>
  BY DEF clusterVars, asked
<1>2. Grows /\ Only(r) /\ Sound(r)' /\ Has(r) /\ Has(r)' /\ Mine(r)' = Mine(r)
  BY <1>1, TurnsIs
<1>3. Types'
  BY <1>0, <1>1 DEF Turns, Types, FileTypes, IndexTypes, TableTypes, CycleTypes
<1>4. Filed'
  BY <1>2, FiledStays DEF Inv
<1>5. Indexed'
  BY DEF Inv, Indexed, Begins, Known, Body
<1>6. ASSUME NEW i, Loose(i) PROVE Loose(i)'
  <2>1. \A q \in Reflectors : i \notin run'[q].original
    BY <1>6 DEF Turns, Loose
  <2>. QED BY <1>1, <1>6, <2>1, LooseStays DEF Loose
<1>7. task'[r] = task[r] \/ task'[r].at \in {"idle", "wants"}
  BY DEF Turns
<1>. QED BY <1>2, <1>3, <1>4, <1>5, <1>6, <1>7, CycleKeeps

\* A cycle that rests has no write.
LEMMA NoWriteOf ==
    ASSUME Inv, NEW r \in Reflectors, run[r].at \notin {"writes", "patching"}
    PROVE  task[r].at = "idle" /\ task \in [Tasks -> Write]
BY DEF Inv, Sound, Types, FileTypes

\* What a cycle lets go of.
LEMMA LetsGo ==
    ASSUME Inv, NEW r \in Reflectors,
           \/ Select(r) \/ LoadMembers(r) \/ WaitTimesOut(r)
           \/ Report(r) \/ CycleRaises(r)
           \/ FetchEpisodes(r) /\ run[r].original \cap Present = {}
           \/ Resolve(r) /\ TargetsOf(run[r]) = {}
    PROVE  Inv'
<1>0. /\ Types /\ faults \in 0 .. MaxFaults /\ MaxFaults \in Nat
      /\ task \in [Tasks -> Write] /\ r \in Tasks
  BY Constants DEF Inv, Types, FileTypes
<1>1. Rests(r)
  BY <1>0, SelectIs, LoadMembersIs, NextClusterIs
     DEF WaitTimesOut, Report, CycleRaises, FetchEpisodes, Resolve
<1>2. /\ UNCHANGED <<log, holder, indexVars, clusterVars, left, asked>>
      /\ \/ faults' = faults
         \/ faults < MaxFaults /\ faults' = faults + 1
  BY DEF Select, LoadMembers, WaitTimesOut, Report, CycleRaises, FetchEpisodes,
     Resolve, ReflectorOnly, logVars
<1>3. faults' \in 0 .. MaxFaults
  BY <1>0, <1>2
<1>4. /\ task' \in [Tasks -> Write] /\ task'[r].at = "idle"
      /\ \A t \in Tasks : t # r => task'[t] = task[t]
  <2>1. CASE task' = [task EXCEPT ![r] = NoWrite]
    BY <1>0, <2>1, EndsIs
  <2>2. CASE task' # [task EXCEPT ![r] = NoWrite]
    <3>1. task' = task /\ run[r].at \notin {"writes", "patching"}
      BY <2>2 DEF Select, LoadMembers, WaitTimesOut, Report, CycleRaises,
         FetchEpisodes, Resolve, ReflectorOnly, logVars
    <3>. QED BY <1>0, <3>1, NoWriteOf
  <2>. QED BY <2>1, <2>2
<1>. QED BY <1>1, <1>2, <1>3, <1>4, RestsKeeps

\* A cycle fetches its episodes from the index.
LEMMA FetchKeeps ==
    ASSUME Inv, NEW r \in Reflectors, FetchEpisodes(r),
           run[r].original \cap Present # {}
    PROVE  Inv'
<1>0. /\ Types /\ Numbered /\ Indexed /\ Sound(r) /\ run[r] \in Cycle0
      /\ row \in [Ids -> Row] /\ task[r].at = "idle"
  BY NoWriteOf DEF Inv, Types, CycleTypes, IndexTypes, FetchEpisodes
<1>1. PICK f : f = [i \in run[r].original \cap Present |-> row[i].body]
  OBVIOUS
<1>2. \A i \in run[r].original \cap Present :
         i \in Ids /\ i \in Known /\ row[i].body = Body(i)
  BY <1>0, CycleParts DEF Present, Indexed
<1>3. /\ DOMAIN f = run[r].original \cap Present
      /\ \A i \in DOMAIN f : f[i] = Body(i) /\ i \in Known
  BY <1>1, <1>2
<1>4. f \in Fetched
  <2>1. \A i \in DOMAIN f : f[i] \in Bodies
    BY <1>0, <1>3, EntryBody
  <2>2. f \in [DOMAIN f -> Bodies]
    BY <1>1, <2>1
  <2>3. DOMAIN f \in SUBSET Ids
    BY <1>2, <1>3
  <2>. QED BY <2>2, <2>3 DEF Fetched
<1>5. PICK c : c = [run[r] EXCEPT !.at = "reflects", !.episodes = f]
  OBVIOUS
<1>6. /\ c \in Cycle0 /\ c.at = "reflects" /\ c.episodes = f
      /\ c.original = run[r].original /\ c.targets = run[r].targets
  BY <1>0, <1>4, <1>5 DEF Cycle0
<1>7. Goes(r, c)
  BY <1>1, <1>5 DEF FetchEpisodes
<1>8. /\ run' \in [Reflectors -> Cycle0] /\ run'[r] = c
      /\ \A q \in Reflectors : q # r => run'[q] = run[q]
  BY <1>0, <1>6, <1>7, GoesIs
<1>9. /\ UNCHANGED <<log, holder, task, faults, clusterVars, left, merges>>
      /\ UNCHANGED omitted
      /\ UNCHANGED <<row, dirty, sync, fact>>
  BY DEF FetchEpisodes, ReflectorOnly, logVars, indexVars, asked
<1>10. Types'
  BY <1>0, <1>8, <1>9
     DEF Types, FileTypes, IndexTypes, TableTypes, CycleTypes, clusterVars
<1>11. Grows /\ Only(r)
  BY <1>0, <1>8, <1>9, GrowsIs DEF Only
<1>12. Filed' /\ Indexed'
  BY <1>0, <1>9, <1>10, <1>11, FiledStays, IndexedStays DEF Inv
<1>13. Sound(r)'
  <2>1. \A i \in Known : i \in Known' /\ Body(i)' = Body(i)
    BY <1>11 DEF Grows
  <2>2. /\ run'[r].original \subseteq Known'
        /\ DOMAIN run'[r].episodes \subseteq run'[r].original
        /\ \A i \in DOMAIN run'[r].episodes : run'[r].episodes[i] = Body(i)'
        /\ run'[r].targets \subseteq run'[r].original
    BY <1>0, <1>3, <1>6, <1>8, <2>1 DEF Sound
  <2>3. task'[r].at = "idle" /\ run'[r].at = "reflects"
    BY <1>0, <1>6, <1>8, <1>9
  <2>. QED BY <2>2, <2>3 DEF Sound, Reflecting
<1>14. ~Has(r)'
  BY <1>6, <1>8 DEF Has, Reflecting
<1>15. ASSUME NEW i, Loose(i) PROVE Loose(i)'
  <2>1. \A q \in Reflectors : i \notin run'[q].original
    BY <1>6, <1>8, <1>15 DEF Loose
  <2>. QED BY <1>9, <1>15, <2>1, LooseStays DEF Loose, clusterVars
<1>. QED BY <1>9, <1>10, <1>11, <1>12, <1>13, <1>14, <1>15, CycleKeeps

\* What the model is told of is part of what the cycle has fetched.
LEMMA ToldIs ==
    ASSUME NEW eps \in Fetched, NEW of \in Told(eps)
    PROVE  of \subseteq Cells
<1>1. ASSUME NEW E \in SUBSET DOMAIN eps PROVE CellsOf(eps, E) \subseteq Cells
  <2>1. \A i \in E : eps[i].of \subseteq Cells
    BY FetchedParts, BodyParts
  <2>. QED BY <2>1 DEF CellsOf
<1>2. \E E \in SUBSET DOMAIN eps : of = CellsOf(eps, E)
  <2>1. PICK M \in SUBSET DOMAIN eps :
           M = {i \in DOMAIN eps : IsMerged(eps[i])}
    OBVIOUS
  <2>2. CASE M = {}
    <3>1. of = CellsOf(eps, DOMAIN eps \ M)
      BY <2>1, <2>2 DEF Told
    <3>. QED BY <3>1
  <2>3. CASE M # {}
    <3>1. PICK old \in M : of = CellsOf(eps, (DOMAIN eps \ M) \cup {old})
      BY <2>1, <2>3 DEF Told
    <3>2. (DOMAIN eps \ M) \cup {old} \in SUBSET DOMAIN eps
      OBVIOUS
    <3>. QED BY <3>1, <3>2
  <2>. QED BY <2>2, <2>3
<1>. QED BY <1>1, <1>2

\* A cycle asks the model for a merged episode and appends it.
LEMMA ReflectKeeps ==
    ASSUME Inv, NEW r \in Reflectors, Reflect(r)
    PROVE  Inv'
<1>0. /\ Types /\ Numbered /\ Sound(r) /\ run[r] \in Cycle0 /\ r \in Tasks
      /\ merges \in Nat /\ MaxMerges \in Nat /\ merges < MaxMerges
      /\ run[r].at = "reflects"
  BY Constants DEF Inv, Types, CycleTypes, Reflect
<1>1. PICK eps \in Fetched : eps = run[r].episodes
  BY <1>0, CycleParts
<1>2. PICK of \in Told(eps) :
         /\ Asks(r, [of |-> of, merge |-> merges + 1], <<>>)
         /\ omitted' = omitted \cup (CellsOf(eps, DOMAIN eps) \ of)
  BY <1>1 DEF Reflect
<1>3. PICK n \in Nat : n = merges + 1 /\ n > 0 /\ n <= MaxMerges
  BY <1>0
<1>4. PICK b : b = [of |-> of, merge |-> n]
  OBVIOUS
<1>5. b \in Bodies /\ b # None /\ b.merge > 0 /\ b.of = of
  <2>1. b \in Bodies
    BY <1>0, <1>3, <1>4, ToldIs DEF Bodies
  <2>. QED BY <1>3, <1>4, <2>1, BodyParts
<1>6. /\ task' \in [Tasks -> Write]
      /\ \A u \in Tasks : u # r => task'[u] = task[u]
      /\ task'[r].at = "wants" /\ task'[r].body = b
  <2>1. Asks(r, b, <<>>)
    BY <1>2, <1>3, <1>4
  <2>. QED BY <1>0, <1>5, <2>1, AsksIs, MapParts
<1>7. /\ run' \in [Reflectors -> Cycle0]
      /\ \A q \in Reflectors : q # r => run'[q] = run[q]
      /\ run'[r].at = "writes" /\ run'[r].original = run[r].original
      /\ run'[r].episodes = run[r].episodes
      /\ run'[r].targets = run[r].targets
  BY <1>0, MovesIs DEF Reflect
<1>8. /\ UNCHANGED <<log, holder, faults, clusterVars, left>>
      /\ UNCHANGED <<row, dirty, sync, fact>> /\ merges' = n
  BY <1>3 DEF Reflect, indexVars
<1>9. Types'
  <2>1. merges' \in 0 .. MaxMerges
    BY <1>0, <1>3, <1>8
  <2>. QED BY <1>0, <1>6, <1>7, <1>8, <2>1
       DEF Types, FileTypes, IndexTypes, TableTypes, CycleTypes, clusterVars
<1>10. Grows /\ Only(r)
  BY <1>0, <1>2, <1>6, <1>7, <1>8, GrowsIs DEF Only
<1>11. Filed' /\ Indexed'
  BY <1>0, <1>8, <1>9, <1>10, FiledStays, IndexedStays DEF Inv
<1>12. Sound(r)'
  <2>1. \A i \in Known : i \in Known' /\ Body(i)' = Body(i)
    BY <1>10 DEF Grows
  <2>2. Gathered(r)' = CellsOf(eps, DOMAIN eps)
    BY <1>1, <1>7 DEF Gathered, CellsOf
  <2>3. Gathered(r)' \subseteq task'[r].body.of \cup omitted'
    BY <1>2, <1>5, <1>6, <2>2
  <2>4. task'[r].body # None /\ task'[r].body.merge > 0 /\ task'[r].at # "idle"
    BY <1>5, <1>6
  <2>5. /\ run'[r].original \subseteq Known'
        /\ DOMAIN run'[r].episodes \subseteq run'[r].original
        /\ \A i \in DOMAIN run'[r].episodes : run'[r].episodes[i] = Body(i)'
        /\ run'[r].targets \subseteq run'[r].original
    BY <1>0, <1>7, <2>1 DEF Sound
  <2>. QED BY <1>7, <2>3, <2>4, <2>5 DEF Sound, Reflecting
<1>13. ~Has(r)'
  BY <1>6, <1>7 DEF Has, Reflecting
<1>14. ASSUME NEW i, Loose(i) PROVE Loose(i)'
  <2>1. \A q \in Reflectors : i \notin run'[q].original
    BY <1>7, <1>14 DEF Loose
  <2>. QED BY <1>8, <1>14, <2>1, LooseStays DEF Loose, clusterVars
<1>. QED BY <1>6, <1>9, <1>10, <1>11, <1>12, <1>13, <1>14, CycleKeeps

\* A cycle announces its merged episode.
LEMMA EmitKeeps ==
    ASSUME Inv, NEW r \in Reflectors, Emit(r)
    PROVE  Inv'
<1>0. /\ Types /\ Numbered /\ Sound(r) /\ Written0 /\ run[r] \in Cycle0
      /\ r \in Tasks /\ run[r].at = "writes" /\ task[r].at = "written"
      /\ fact \in [Ids -> FactStates] /\ Known \subseteq Ids
  BY Constants, KnownIds DEF Inv, Types, CycleTypes, IndexTypes, Emit
<1>1. PICK m : m = task[r].id
  OBVIOUS
<1>2. /\ m \in Known /\ m \in Ids /\ m \in Nat /\ Body(m).merge > 0
      /\ Gathered(r) \subseteq Body(m).of \cup omitted
  BY <1>0, <1>1, Constants DEF Sound, Written0
<1>3. Has(r) /\ Mine(r) = m
  BY <1>0, <1>1 DEF Has, Mine
<1>4. PICK c : c = [run[r] EXCEPT !.at = "waits", !.merged = m]
  OBVIOUS
<1>5. /\ c \in Cycle0 /\ c.at = "waits" /\ c.merged = m
      /\ c.original = run[r].original /\ c.episodes = run[r].episodes
      /\ c.targets = run[r].targets
  BY <1>0, <1>2, <1>4 DEF Cycle0, Reflecting
<1>6. Goes(r, c)
  BY <1>1, <1>4 DEF Emit
<1>7. /\ run' \in [Reflectors -> Cycle0] /\ run'[r] = c
      /\ \A q \in Reflectors : q # r => run'[q] = run[q]
  BY <1>0, <1>5, <1>6, GoesIs
<1>8. /\ task' \in [Tasks -> Write] /\ task'[r].at = "idle"
      /\ \A u \in Tasks : u # r => task'[u] = task[u]
  BY <1>0, EndsIs DEF Emit
<1>9. /\ UNCHANGED <<log, holder, faults, clusterVars, left, merges, omitted>>
      /\ UNCHANGED <<row, dirty, sync>>
  BY DEF Emit, asked
<1>10. fact' \in [Ids -> FactStates]
  <2>1. PICK s : s = IF m \in Watched THEN "due" ELSE fact[m]
    OBVIOUS
  <2>2. fact' = [fact EXCEPT ![m] = s]
    BY <1>1, <2>1 DEF Emit, DueFacts
  <2>3. s \in FactStates
    BY <1>0, <1>2, <2>1 DEF FactStates
  <2>. QED BY <1>0, <2>2, <2>3
<1>11. Types'
  BY <1>0, <1>7, <1>8, <1>9, <1>10
     DEF Types, FileTypes, IndexTypes, TableTypes, CycleTypes, clusterVars
<1>12. Grows /\ Only(r)
  BY <1>0, <1>7, <1>8, <1>9, GrowsIs DEF Only
<1>13. Filed' /\ Indexed'
  BY <1>0, <1>9, <1>11, <1>12, FiledStays, IndexedStays DEF Inv
<1>14. Sound(r)'
  <2>1. \A i \in Known : i \in Known' /\ Body(i)' = Body(i)
    BY <1>12 DEF Grows
  <2>2. Gathered(r)' = Gathered(r)
    BY <1>5, <1>7 DEF Gathered, CellsOf
  <2>3. /\ m \in Known' /\ Body(m)'.merge > 0
        /\ Gathered(r)' \subseteq Body(m)'.of \cup omitted'
    BY <1>2, <1>9, <2>1, <2>2
  <2>4. PICK k : k = run'[r].merged /\ k = m
    BY <1>5, <1>7
  <2>5. /\ run'[r].merged \in Known' /\ Body(k)'.merge > 0
        /\ Gathered(r)' \subseteq Body(k)'.of \cup omitted'
    BY <2>3, <2>4
  <2>6. /\ run'[r].original \subseteq Known'
        /\ DOMAIN run'[r].episodes \subseteq run'[r].original
        /\ \A i \in DOMAIN run'[r].episodes : run'[r].episodes[i] = Body(i)'
        /\ run'[r].targets \subseteq run'[r].original
    BY <1>0, <1>5, <1>7, <2>1 DEF Sound
  <2>7. run'[r].at = "waits" /\ task'[r].at = "idle"
    BY <1>5, <1>7, <1>8
  <2>. QED BY <2>4, <2>5, <2>6, <2>7 DEF Sound, Body
<1>15. Has(r)' => Mine(r)' = Mine(r)
  BY <1>3, <1>5, <1>7 DEF Mine
<1>16. ASSUME NEW i, Loose(i) PROVE Loose(i)'
  <2>1. \A q \in Reflectors : i \notin run'[q].original
    BY <1>5, <1>7, <1>16 DEF Loose
  <2>. QED BY <1>9, <1>16, <2>1, LooseStays DEF Loose, clusterVars
<1>17. task'[r] = task[r] \/ task'[r].at \in {"idle", "wants"}
  BY <1>8
<1>. QED BY <1>3, <1>11, <1>12, <1>13, <1>14, <1>15, <1>16, <1>17, CycleKeeps

\* A cycle asks for its patch of the frontmatter.
LEMMA PatchAskedKeeps ==
    ASSUME Inv, NEW r \in Reflectors, Patch(r), Patched(run[r]) # {}
    PROVE  Inv'
<1>0. /\ Types /\ Numbered /\ Sound(r) /\ run[r] \in Cycle0
      /\ r \in Tasks /\ run[r].at = "patches" /\ Known \subseteq Ids
  BY Constants, KnownIds DEF Inv, Types, CycleTypes, Patch
<1>1. PICK P, m : /\ P = run[r].targets \cap DOMAIN run[r].episodes
                  /\ m = run[r].merged
  OBVIOUS
<1>2. P = Patched(run[r])
  BY <1>1 DEF Patched
<1>3. /\ m \in Known /\ m \in Ids /\ Body(m).merge > 0
      /\ Gathered(r) \subseteq Body(m).of \cup omitted
  BY <1>0, <1>1 DEF Sound, Reflecting
<1>4. Has(r) /\ Mine(r) = m
  BY <1>0, <1>1 DEF Has, Mine, Reflecting
<1>5. PICK map : map = [i \in P |-> m]
  OBVIOUS
<1>6. map \in Maps /\ DOMAIN map = P /\ \A i \in P : map[i] = m
  <2>1. P \in SUBSET Ids
    BY <1>0, <1>1, CycleParts
  <2>2. map \in [P -> Ids]
    BY <1>3, <1>5
  <2>. QED BY <1>5, <2>1, <2>2 DEF Maps
<1>7. /\ task' \in [Tasks -> Write]
      /\ \A u \in Tasks : u # r => task'[u] = task[u]
      /\ task'[r].at = "wants" /\ task'[r].body = None /\ task'[r].map = map
  <2>1. Asks(r, None, map)
    BY <1>1, <1>2, <1>5 DEF Patch
  <2>. QED BY <1>0, <1>6, <2>1, AsksIs
<1>8. /\ run' \in [Reflectors -> Cycle0]
      /\ \A q \in Reflectors : q # r => run'[q] = run[q]
      /\ run'[r].at = "patching" /\ run'[r].original = run[r].original
      /\ run'[r].episodes = run[r].episodes
      /\ run'[r].targets = run[r].targets /\ run'[r].merged = m
  <2>1. Moves(r, "patching")
    BY <1>2 DEF Patch
  <2>. QED BY <1>0, <1>1, <2>1, MovesIs DEF Reflecting
<1>9. /\ UNCHANGED <<log, holder, faults, clusterVars, left, merges, omitted>>
      /\ UNCHANGED <<row, dirty, sync, fact>>
  BY DEF Patch, asked, indexVars
<1>10. Types'
  BY <1>0, <1>7, <1>8, <1>9
     DEF Types, FileTypes, IndexTypes, TableTypes, CycleTypes, clusterVars
<1>11. Grows /\ Only(r)
  BY <1>0, <1>7, <1>8, <1>9, GrowsIs DEF Only
<1>12. Filed' /\ Indexed'
  BY <1>0, <1>9, <1>10, <1>11, FiledStays, IndexedStays DEF Inv
<1>13. Sound(r)'
  <2>1. \A i \in Known : i \in Known' /\ Body(i)' = Body(i)
    BY <1>11 DEF Grows
  <2>2. Gathered(r)' = Gathered(r)
    BY <1>8 DEF Gathered, CellsOf
  <2>3. /\ m \in Known' /\ Body(m)'.merge > 0
        /\ Gathered(r)' \subseteq Body(m)'.of \cup omitted'
    BY <1>3, <1>9, <2>1, <2>2
  <2>4. PICK k : k = run'[r].merged /\ k = m
    BY <1>8
  <2>5. /\ run'[r].merged \in Known' /\ Body(k)'.merge > 0
        /\ Gathered(r)' \subseteq Body(k)'.of \cup omitted'
    BY <2>3, <2>4
  <2>6. /\ run'[r].original \subseteq Known'
        /\ DOMAIN run'[r].episodes \subseteq run'[r].original
        /\ \A i \in DOMAIN run'[r].episodes : run'[r].episodes[i] = Body(i)'
        /\ run'[r].targets \subseteq run'[r].original
    BY <1>0, <1>8, <2>1 DEF Sound
  <2>7. /\ task'[r].at # "idle" /\ task'[r].body = None
        /\ DOMAIN task'[r].map = run'[r].targets \cap DOMAIN run'[r].episodes
        /\ \A i \in DOMAIN task'[r].map : task'[r].map[i] = run'[r].merged
    BY <1>1, <1>6, <1>7, <1>8
  <2>. QED BY <1>8, <2>4, <2>5, <2>6, <2>7 DEF Sound, Body
<1>14. Has(r)' /\ Mine(r)' = Mine(r)
  BY <1>4, <1>8 DEF Has, Mine, Reflecting
<1>15. ASSUME NEW i, Loose(i) PROVE Loose(i)'
  <2>1. \A q \in Reflectors : i \notin run'[q].original
    BY <1>8, <1>15 DEF Loose
  <2>. QED BY <1>9, <1>15, <2>1, LooseStays DEF Loose, clusterVars
<1>16. task'[r] = task[r] \/ task'[r].at \in {"idle", "wants"}
  BY <1>7
<1>. QED BY <1>4, <1>10, <1>11, <1>12, <1>13, <1>14, <1>15, <1>16, CycleKeeps

\* A cycle moves on and has no write under way.
LEMMA MovesTurns ==
    ASSUME Inv, NEW r \in Reflectors, run[r].at \in Reflecting,
           NEW at \in (Reflecting \ {"patching"}) \cup {"reports"},
           Moves(r, at),
           \/ task' = [task EXCEPT ![r] = NoWrite]
           \/ task' = task /\ run[r].at # "patching"
    PROVE  Turns(r) /\ run'[r].at = at
<1>0. Types /\ r \in Tasks /\ Sound(r) /\ task \in [Tasks -> Write]
  BY Constants DEF Inv, Types, FileTypes
<1>1. /\ run' \in [Reflectors -> Cycle0]
      /\ \A q \in Reflectors : q # r => run'[q] = run[q]
      /\ run'[r].at = at /\ run'[r].original = run[r].original
      /\ run'[r].episodes = run[r].episodes
      /\ run'[r].merged = run[r].merged /\ run'[r].targets = run[r].targets
  BY <1>0, MovesIs
<1>2. /\ task' \in [Tasks -> Write] /\ task'[r].at = "idle"
      /\ \A t \in Tasks : t # r => task'[t] = task[t]
  <2>1. CASE task' = [task EXCEPT ![r] = NoWrite]
    BY <1>0, <2>1, EndsIs
  <2>2. CASE task' = task /\ run[r].at # "patching"
    BY <1>0, <2>2, NoWriteOf DEF Reflecting
  <2>. QED BY <2>1, <2>2
<1>3. run[r].targets \subseteq run[r].original
  BY <1>0 DEF Sound
<1>. QED BY <1>1, <1>2, <1>3 DEF Turns

\* The cycle has its targets.
LEMMA ResolveTurns ==
    ASSUME Inv, NEW r \in Reflectors, Resolve(r), TargetsOf(run[r]) # {}
    PROVE  Turns(r) /\ run'[r].at = "patches"
<1>0. Types /\ run[r] \in Cycle0 /\ run[r].at = "resolves"
  BY DEF Inv, Types, CycleTypes, Resolve
<1>1. PICK T : T = TargetsOf(run[r])
  OBVIOUS
<1>2. T \subseteq run[r].original /\ T \subseteq Ids
  BY <1>0, <1>1, CycleParts DEF TargetsOf
<1>3. PICK c : c = [run[r] EXCEPT !.at = "patches", !.targets = T]
  OBVIOUS
<1>4. /\ c \in Cycle0 /\ c.at = "patches" /\ c.merged = run[r].merged
      /\ c.original = run[r].original /\ c.episodes = run[r].episodes
      /\ c.targets = T
  BY <1>0, <1>2, <1>3 DEF Cycle0, Reflecting
<1>5. Goes(r, c) /\ task' = task
  BY <1>1, <1>3 DEF Resolve, ReflectorOnly, logVars
<1>6. /\ run' \in [Reflectors -> Cycle0] /\ run'[r] = c
      /\ \A q \in Reflectors : q # r => run'[q] = run[q]
  BY <1>0, <1>4, <1>5, GoesIs
<1>7. task'[r].at = "idle" /\ task' \in [Tasks -> Write]
  BY <1>0, <1>5, NoWriteOf
<1>. QED BY <1>0, <1>2, <1>4, <1>5, <1>6, <1>7 DEF Turns, Reflecting

\* Steps of a cycle between the announcement and its tables.
LEMMA MiddleKeeps ==
    ASSUME Inv, NEW r \in Reflectors,
           \/ Waited(r) \/ MarkRows(r) \/ MarkFacts(r)
           \/ Resolve(r) /\ TargetsOf(run[r]) # {}
           \/ Patch(r) /\ Patched(run[r]) = {}
    PROVE  Inv'
<1>0. /\ Types /\ Numbered /\ row \in [Ids -> Row]
      /\ fact \in [Ids -> FactStates]
  BY DEF Inv, Types, IndexTypes
<1>1. /\ Turns(r) /\ run'[r].at # "reports"
      /\ UNCHANGED <<log, holder, dirty, sync, faults, clusterVars, left>>
      /\ UNCHANGED asked
  <2>1. CASE Waited(r)
    <3>1. run[r].at = "waits" /\ Moves(r, "resolves") /\ task' = task
      BY <2>1 DEF Waited, ReflectorOnly, logVars
    <3>2. Turns(r) /\ run'[r].at = "resolves"
      BY <3>1, MovesTurns DEF Reflecting
    <3>. QED BY <2>1, <3>2 DEF Waited, ReflectorOnly, logVars, indexVars
  <2>2. CASE MarkRows(r)
    <3>1. /\ run[r].at \in {"marks", "patching"} /\ Moves(r, "facts")
          /\ task' = [task EXCEPT ![r] = NoWrite]
      BY <2>2 DEF MarkRows
    <3>2. Turns(r) /\ run'[r].at = "facts"
      BY <3>1, MovesTurns DEF Reflecting
    <3>. QED BY <2>2, <3>2 DEF MarkRows
  <2>3. CASE MarkFacts(r)
    <3>1. run[r].at = "facts" /\ Moves(r, "removes") /\ task' = task
      BY <2>3 DEF MarkFacts, logVars
    <3>2. Turns(r) /\ run'[r].at = "removes"
      BY <3>1, MovesTurns DEF Reflecting
    <3>. QED BY <2>3, <3>2 DEF MarkFacts, logVars
  <2>4. CASE Resolve(r) /\ TargetsOf(run[r]) # {}
    BY <2>4, ResolveTurns DEF Resolve, ReflectorOnly, logVars, indexVars
  <2>5. CASE Patch(r) /\ Patched(run[r]) = {}
    <3>1. run[r].at = "patches" /\ Moves(r, "marks") /\ task' = task
      BY <2>5 DEF Patch
    <3>2. Turns(r) /\ run'[r].at = "marks"
      BY <3>1, MovesTurns DEF Reflecting
    <3>. QED BY <2>5, <3>2 DEF Patch, indexVars
  <2>. QED BY <2>1, <2>2, <2>3, <2>4, <2>5
<1>2. /\ row' \in [Ids -> Row] /\ fact' \in [Ids -> FactStates]
      /\ \A i \in Ids : row'[i].body = row[i].body
  <2>1. CASE MarkRows(r)
    <3>1. PICK map : map = [i \in run[r].targets |-> run[r].merged]
      OBVIOUS
    <3>2. run[r].merged \in Ids
      BY <1>0, <1>1, KnownIds DEF Inv, Sound, Turns
    <3>3. \A i \in DOMAIN map : map[i] \in Ids
      BY <3>1, <3>2
    <3>4. row' = Deprecate(row, map) /\ fact' = fact
      BY <2>1, <3>1 DEF MarkRows
    <3>. QED BY <1>0, <3>3, <3>4, DeprecateIs
  <2>2. CASE MarkFacts(r)
    <3>1. row' = row /\ fact' \in [Ids -> FactStates]
      BY <1>0, <2>2 DEF MarkFacts, FactStates
    <3>. QED BY <1>0, <3>1
  <2>3. CASE ~MarkRows(r) /\ ~MarkFacts(r)
    BY <1>0, <2>3 DEF Waited, Resolve, Patch, ReflectorOnly, indexVars
  <2>. QED BY <2>1, <2>2, <2>3
<1>. QED BY <1>1, <1>2, TurnsKeeps

\* A cycle brings the cluster up to date: its merged episode is a member of
\* it from then on, and of no other cycle.
LEMMA TablesKeeps ==
    ASSUME Inv, NEW r \in Reflectors, Remove(r) \/ Add(r)
    PROVE  Inv'
<1>0. /\ Types /\ Numbered /\ Sound(r) /\ r \in Tasks /\ Known \subseteq Ids
      /\ members \in [Clusters -> SUBSET Ids] /\ filing \in Filing
  BY Constants, KnownIds DEF Inv, Types, TableTypes
<1>1. /\ run[r].at \in {"removes", "adds"} /\ task' = task
      /\ \/ run[r].at = "removes" /\ Moves(r, "adds")
         \/ run[r].at = "adds" /\ Moves(r, "reports")
  BY DEF Remove, Add, logVars
<1>2. Turns(r)
  BY <1>1, MovesTurns DEF Reflecting
<1>3. PICK m : m = run[r].merged
  OBVIOUS
<1>4. /\ m \in Known /\ Has(r) /\ Mine(r) = m
  BY <1>0, <1>1, <1>3 DEF Sound, Has, Mine, Reflecting
<1>5. PICK k, M : /\ members' = [members EXCEPT ![k] = M]
                  /\ \/ M = members[k] \ run[r].targets
                     \/ M = members[k] \cup {m} /\ run[r].at = "adds"
  BY <1>1, <1>3 DEF Remove, Add, CL!RemoveMembers, CL!AddMember
<1>6. \A j \in Clusters : \A i \in members'[j] :
         i \in members[j] \/ (i = m /\ run[r].at = "adds")
  BY <1>0, <1>5
<1>7. members' \in [Clusters -> SUBSET Ids]
  BY <1>0, <1>4, <1>5, <1>6
<1>8. /\ UNCHANGED <<log, holder, faults, rows, todo, filing, left, merges>>
      /\ UNCHANGED omitted
      /\ UNCHANGED <<row, dirty, sync, fact>>
  BY DEF Remove, Add, logVars, indexVars, asked
<1>9. Types'
  BY <1>0, <1>2, <1>7, <1>8
     DEF Turns, Types, FileTypes, IndexTypes, TableTypes, CycleTypes
<1>10. /\ Grows /\ Only(r) /\ Sound(r)'
       /\ Has(r)' => Mine(r)' = Mine(r)
  BY <1>2, <1>8, TurnsIs
<1>11. Indexed'
  BY <1>0, <1>8, <1>9, <1>10, IndexedStays DEF Inv
<1>12. Filed'
  <2>1. \A j \in Clusters : members'[j] \subseteq Known
    BY <1>4, <1>6 DEF Inv, Filed
  <2>. QED BY <1>8, <2>1 DEF Inv, Filed, Known, Body
<1>13. run[r].at = "adds" => ~Has(r)'
  <2>1. run[r].at = "adds" => run'[r].at = "reports"
    BY <1>0, <1>1, MovesIs
  <2>. QED BY <2>1 DEF Has, Reflecting
<1>14. ASSUME NEW i, Loose(i), run[r].at = "adds" => i # m PROVE Loose(i)'
  <2>1. \A q \in Reflectors : i \notin run'[q].original
    BY <1>2, <1>14 DEF Turns, Loose
  <2>2. \A j \in Clusters : i \notin members'[j]
    BY <1>6, <1>14 DEF Loose
  <2>. QED BY <1>8, <1>14, <2>1, <2>2, LooseStays DEF Loose
<1>15. \A i \in Known :
          Loose(i) /\ (Has(r) /\ ~Has(r)' => i # Mine(r)) => Loose(i)'
  BY <1>4, <1>13, <1>14
<1>16. task'[r] = task[r]
  BY <1>1
<1>. QED BY <1>4, <1>9, <1>10, <1>11, <1>12, <1>15, <1>16, CycleKeeps

\* A step of a cycle.
LEMMA CycleStepKeeps ==
    ASSUME Inv, NEW r \in Reflectors, Cycle(r)
    PROVE  Inv'
<1>1. CASE \/ Select(r) \/ LoadMembers(r) \/ WaitTimesOut(r)
           \/ Report(r) \/ CycleRaises(r)
  BY <1>1, LetsGo
<1>2. CASE FetchEpisodes(r)
  BY <1>2, LetsGo, FetchKeeps
<1>3. CASE Resolve(r)
  BY <1>3, LetsGo, MiddleKeeps
<1>4. CASE Patch(r)
  BY <1>4, PatchAskedKeeps, MiddleKeeps
<1>5. CASE Reflect(r) \/ Emit(r)
  BY <1>5, ReflectKeeps, EmitKeeps
<1>6. CASE Waited(r) \/ MarkRows(r) \/ MarkFacts(r)
  BY <1>6, MiddleKeeps
<1>7. CASE Remove(r) \/ Add(r)
  BY <1>7, TablesKeeps
<1>. QED BY <1>1, <1>2, <1>3, <1>4, <1>5, <1>6, <1>7 DEF Cycle

-----------------------------------------------------------------------------
(* The end of the server, and the beginning of the system.                 *)

\* Tasks, locks and cycles are gone.
LEMMA VolatileIs ==
    ASSUME Types, CrashVolatile
    PROVE  /\ task' \in [Tasks -> Write]
           /\ \A t \in Tasks : task'[t].at = "idle"
           /\ holder' \in [Pools -> Tasks \cup {None}]
           /\ filing' \in Filing /\ filing'.at = "idle"
           /\ \A k \in Clusters : filing'.seen[k] = {}
           /\ run' \in [Reflectors -> Cycle0]
           /\ \A r \in Reflectors : run'[r] = NoCycle
<1>1. DOMAIN holder = Pools
  BY DEF Types, FileTypes
<1>. QED BY <1>1, NoWriteIs, NoRunIs, NoCycleIs DEF CrashVolatile

\* What a cycle is at rest.
LEMMA RestingIs ==
    ASSUME NEW r \in Reflectors, run[r] = NoCycle, task[r].at = "idle"
    PROVE  Sound(r) /\ ~Has(r) /\ run[r].original = {}
BY NoCycleIs DEF Sound, Has, Reflecting

\* The server dies, and the index is kept or dropped.
LEMMA CrashKeeps ==
    ASSUME Inv, Crash \/ Rebuild
    PROVE  Inv'
<1>0. /\ Types /\ Numbered /\ row \in [Ids -> Row] /\ dirty \in BOOLEAN
      /\ fact \in [Ids -> FactStates] /\ faults \in 0 .. MaxFaults
      /\ MaxFaults \in Nat
  BY Constants DEF Inv, Types, FileTypes, IndexTypes
<1>1. /\ task' \in [Tasks -> Write] /\ \A t \in Tasks : task'[t].at = "idle"
      /\ holder' \in [Pools -> Tasks \cup {None}]
      /\ filing' \in Filing /\ filing'.at = "idle"
      /\ \A k \in Clusters : filing'.seen[k] = {}
      /\ run' \in [Reflectors -> Cycle0]
      /\ \A r \in Reflectors : run'[r] = NoCycle
  BY <1>0, VolatileIs DEF Crash, Rebuild
<1>2. /\ UNCHANGED <<log, members, rows, todo, left, merges, omitted>>
      /\ faults' \in 0 .. MaxFaults /\ sync' = NoSync /\ dirty' \in BOOLEAN
  <2>1. UNCHANGED <<log, members, rows, todo, left, merges, omitted>>
    BY DEF Crash, Rebuild, asked
  <2>2. faults' \in 0 .. MaxFaults
    BY <1>0 DEF Crash, Rebuild
  <2>3. sync' = NoSync /\ dirty' \in BOOLEAN
    BY DEF Crash, Rebuild, Dropped
  <2>. QED BY <2>1, <2>2, <2>3
<1>3. /\ row' \in [Ids -> Row] /\ fact' \in [Ids -> FactStates]
      /\ \A i \in Ids : row'[i] = row[i] \/ row'[i].body = None
  <2>1. CASE Crash
    BY <1>0, <2>1 DEF Crash
  <2>2. CASE Rebuild
    <3>1. Absent \in Row /\ Absent.body = None
      BY DEF Absent, Row
    <3>2. row' = [i \in Ids |-> Absent]
      BY <2>2 DEF Rebuild, Dropped
    <3>3. fact' \in [Ids -> FactStates]
      BY <1>0, <2>2 DEF Rebuild, Dropped, FactStates
    <3>. QED BY <3>1, <3>2, <3>3
  <2>. QED BY <2>1, <2>2
<1>4. Types'
  BY <1>0, <1>1, <1>2, <1>3, NoSyncIs
     DEF Types, FileTypes, IndexTypes, TableTypes, CycleTypes
<1>5. Calm
  BY <1>1 DEF Calm
<1>6. Grows /\ Numbered' /\ Kept' /\ Alone' /\ Piped' /\ Written0'
  BY <1>1, <1>2, <1>5, CalmKeeps
<1>7. Filed'
  BY <1>1, <1>2 DEF Inv, Filed, Known, Body
<1>8. Indexed'
  <2>1. \A i \in Ids : row'[i].body # None =>
           i \in Known' /\ row'[i].body = Body(i)'
    BY <1>2, <1>3 DEF Inv, Indexed, Known, Body
  <2>2. Begins(NoSync.file)
    BY <1>0, NoSyncIs
  <2>. QED BY <1>2, <2>1, <2>2 DEF Indexed, Begins
<1>9. \A r \in Reflectors : Sound(r)' /\ ~Has(r)'
  <2>. SUFFICES ASSUME NEW r \in Reflectors PROVE Sound(r)' /\ ~Has(r)'
    OBVIOUS
  <2>1. run'[r] = NoCycle /\ task'[r].at = "idle"
    BY <1>1, Constants
  <2>. QED BY <2>1, NoCycleIs DEF Sound, Has, Reflecting
<1>10. Owned'
  BY <1>9 DEF Owned
<1>. QED BY <1>4, <1>6, <1>7, <1>8, <1>9, <1>10 DEF Inv

\* The system begins with nothing.
LEMMA InitInv == Init => Inv
<1>. SUFFICES ASSUME Init PROVE Inv
  OBVIOUS
<1>1. /\ log = EmptyFile /\ holder = [p \in Pools |-> None]
      /\ task = [t \in Tasks |-> NoWrite] /\ row = [i \in Ids |-> Absent]
      /\ dirty = FALSE /\ sync = NoSync /\ fact = [i \in Ids |-> "none"]
      /\ members = [k \in Clusters |-> {}] /\ rows = {}
      /\ todo = [i \in Ids |-> 0] /\ filing = CL!NoRun /\ faults = 0
      /\ left = Cells /\ run = [r \in Reflectors |-> NoCycle] /\ merges = 0
      /\ omitted = {}
  BY DEF Init, InitLog, InitIndex, CL!InitClusters, Pools
<1>2. /\ EmptyFile \in File0 /\ EmptyFile.entries = <<>>
      /\ EmptyFile.count = 0 /\ DOMAIN EmptyFile.deprecated = {}
      /\ Len(EmptyFile.entries) = 0
  BY MapParts, EmptySeq DEF EmptyFile, File0
<1>3. Absent \in Row /\ Absent.body = None
  BY DEF Absent, Row
<1>4. /\ MaxFaults \in Nat /\ MaxMerges \in Nat /\ MaxTries \in Nat
      /\ MaxEntries \in Nat
  BY Constants
<1>5. FileTypes
  BY <1>1, <1>2, <1>4, NoWriteIs DEF FileTypes
<1>6. NoSync \in Handler /\ NoSync.file = EmptyFile
  BY <1>2 DEF NoSync, Handler
<1>7. IndexTypes
  BY <1>1, <1>3, <1>6 DEF IndexTypes, FactStates
<1>8. TableTypes
  BY <1>1, <1>4, NoRunIs DEF TableTypes
<1>9. CycleTypes
  BY <1>1, <1>4, NoCycleIs DEF CycleTypes
<1>10. Types
  BY <1>5, <1>7, <1>8, <1>9 DEF Types
<1>11. Known = {}
  BY <1>1, <1>2 DEF Known
<1>12. \A t \in Tasks : task[t].at = "idle"
  BY <1>1, NoWriteIs
<1>13. Alone /\ Piped /\ Written0
  BY <1>12, Constants DEF Alone, Busy, Piped, Written0
<1>14. Numbered
  BY <1>1, <1>2, <1>4, <1>11 DEF Numbered
<1>15. Filed
  BY <1>1, NoRunIs DEF Filed
<1>16. Indexed
  BY <1>1, <1>3, <1>10, NoSyncIs DEF Indexed
<1>17. \A r \in Reflectors : Sound(r) /\ ~Has(r)
  BY <1>1, <1>12, RestingIs, Constants
<1>18. Owned /\ Kept
  BY <1>11, <1>17 DEF Owned, Kept
<1>. QED BY <1>10, <1>13, <1>14, <1>15, <1>16, <1>17, <1>18 DEF Inv

\* A step of the system.
LEMMA NextInv == ~MayCollide /\ Inv /\ [Next]_vars => Inv'
<1>. SUFFICES ASSUME ~MayCollide, Inv, [Next]_vars PROVE Inv'
  OBVIOUS
<1>1. CASE Next
  BY <1>1, PipelineKeeps, WriteStepKeeps, FilesKeeps, IndexKeeps,
     CycleStepKeeps, CrashKeeps DEF Next
<1>2. CASE UNCHANGED vars
  <2>1. /\ UNCHANGED <<log, holder, task, faults, row, dirty, sync, fact>>
        /\ UNCHANGED <<members, rows, todo, filing, left, merges, run, omitted>>
    BY <1>2 DEF vars, logVars, indexVars
  <2>2. Types' /\ Filed' /\ Indexed'
    BY <2>1 DEF Inv, Types, FileTypes, IndexTypes, TableTypes, CycleTypes,
       Filed, Indexed, Begins, Known, Body
  <2>3. Calm /\ \A i : Loose(i) => Loose(i)'
    BY <2>1 DEF Calm, Loose
  <2>. QED BY <2>1, <2>2, <2>3, RestKeeps
<1>. QED BY <1>1, <1>2

\* The invariant.
LEMMA Invariance == ~MayCollide => (Spec => []Inv)
<1>. SUFFICES ASSUME ~MayCollide PROVE Spec => []Inv
  OBVIOUS
<1>1. Inv /\ [Next]_vars => Inv'
  BY NextInv
<1>. QED BY <1>1, InitInv, PTL DEF Spec

-----------------------------------------------------------------------------
(* What the invariant says of the system.                                  *)

\* The entries of the file, by number.
LEMMA EntriesAre ==
    ASSUME Inv
    PROVE  /\ EntriesOf(log) = {log.entries[i] : i \in Known}
           /\ DOMAIN log.entries = Known
           /\ \A i \in Known : log.entries[i].id = i /\ log.entries[i] \in Entry
<1>1. log.entries \in Seq(Entry) /\ log.count = Len(log.entries)
  BY FileParts DEF Inv, Types, FileTypes, Numbered
<1>2. DOMAIN log.entries = Known
  BY <1>1 DEF Known
<1>. QED BY <1>2, EntryBody DEF EntriesOf, Inv, Numbered

\* Everything that is kept has its type.
THEOREM TypeCorrect == ~MayCollide => (Spec => []TypeOK)
<1>. SUFFICES ASSUME ~MayCollide PROVE Spec => []TypeOK
  OBVIOUS
<1>1. Inv => TypeOK
  <2>. SUFFICES ASSUME Inv PROVE TypeOK
    OBVIOUS
  <2>0. Types /\ Numbered
    BY DEF Inv
  <2>1. /\ log.count \in 0 .. MaxEntries /\ Len(log.entries) <= MaxEntries
        /\ DOMAIN log.deprecated \subseteq Ids
    BY <2>0, KnownIds, Constants DEF Numbered
  <2>2. \A e \in EntriesOf(log) : e.id \in Ids /\ e.body \in Bodies
    BY <2>0, EntriesAre, KnownIds DEF Entry
  <2>3. holder \in [{"pipeline", "reflection"} -> Tasks \cup {None}]
    BY <2>0 DEF Types, FileTypes, Pools
  <2>4. \A i \in Ids : /\ row[i].body \in Bodies \cup {None}
                       /\ row[i].deprecated \in Ids \cup {0}
    BY <2>0 DEF Types, IndexTypes, Row
  <2>. QED BY <2>0, <2>1, <2>2, <2>3, <2>4
       DEF TypeOK, Types, FileTypes, IndexTypes, TableTypes, CycleTypes
<1>. QED BY <1>1, Invariance, PTL

\* What an append has returned is in the file, once, and clustering is due
\* for entries of the file alone (MarkdownWriter and BaseDailyWriter).
THEOREM AppendsAreKept == ~MayCollide => (Spec => []AppendsKept)
<1>. SUFFICES ASSUME ~MayCollide PROVE Spec => []AppendsKept
  OBVIOUS
<1>1. Inv => AppendsKept
  <2>. SUFFICES ASSUME Inv PROVE AppendsKept
    OBVIOUS
  <2>1. ASSUME NEW t \in Tasks, task[t].at = "written", task[t].body # None
        PROVE  \E e \in EntriesOf(log) :
                  e.id = task[t].id /\ e.body = task[t].body
    BY <2>1, EntriesAre DEF Inv, Written0, Body
  <2>2. \A i, j \in DOMAIN log.entries :
           log.entries[i].id = log.entries[j].id => i = j
    BY EntriesAre
  <2>3. \A i \in Ids : todo[i] > 0 => \E e \in EntriesOf(log) : e.id = i
    BY EntriesAre DEF Inv, Filed
  <2>. QED BY <2>1, <2>2, <2>3 DEF AppendsKept
<1>. QED BY <1>1, Invariance, PTL

\* Of every cell that the file has told of, a live entry tells, but for what
\* an update was not told of (the reflection orchestrator's order: append,
\* announce, wait, and only then deprecate).
THEOREM ConsolidationForgetsNothing ==
    ~MayCollide => (Spec => []NothingForgotten)
<1>. SUFFICES ASSUME ~MayCollide PROVE Spec => []NothingForgotten
  OBVIOUS
<1>1. Inv => NothingForgotten
  <2>. SUFFICES ASSUME Inv PROVE NothingForgotten
    OBVIOUS
  <2>1. PICK U : U = UNION {l.body.of : l \in Live(log)}
    OBVIOUS
  <2>2. ASSUME NEW e \in EntriesOf(log), NEW c \in e.body.of
        PROVE  c \in U \cup omitted
    <3>1. PICK i \in Known : e = log.entries[i]
      BY EntriesAre
    <3>2. Told0(c) \/ c \in omitted
      BY <2>2, <3>1 DEF Inv, Kept, Body
    <3>3. CASE Told0(c)
      <4>1. PICK j \in Known :
               j \notin DOMAIN log.deprecated /\ c \in Body(j).of
        BY <3>3 DEF Told0
      <4>2. log.entries[j] \in Live(log)
        BY <4>1, EntriesAre DEF Live
      <4>. QED BY <2>1, <4>1, <4>2 DEF Body
    <3>. QED BY <3>2, <3>3
  <2>3. \A e \in EntriesOf(log) : e.body.of \subseteq omitted \cup U
    BY <2>2
  <2>. QED BY <2>1, <2>3 DEF NothingForgotten
<1>. QED BY <1>1, Invariance, PTL

-----------------------------------------------------------------------------
(* With one cycle of an owner at a time, the deprecations arrive in the    *)
(* index.                                                                  *)

\* The owner has one cycle at a time.
OneCycle == \A r, q \in Reflectors : r = q

Dep == DOMAIN log.deprecated

\* What the handler is about to make of the index.
Handling ==
    /\ sync.at # "idle" => Present \subseteq 1 .. sync.file.count
    /\ sync.at = "embeds" =>
         /\ 1 .. sync.file.count \subseteq sync.build \cup Present
         /\ Present = {} => Dep \subseteq 1 .. sync.file.count
    /\ ~dirty /\ sync.at # "idle" => sync.file = log
    /\ Present # {} => Dep \subseteq Present

InHand == {"reflects", "writes"} \cup Reflecting

\* What the cycle has fetched is in the index, and what is deprecated of its
\* cluster it has fetched.
Covered(r) ==
    run[r].at \in InHand =>
        /\ DOMAIN run[r].episodes # {}
        /\ DOMAIN run[r].episodes \subseteq Present
        /\ Dep \cap run[r].original \subseteq DOMAIN run[r].episodes

\* Before it marks the rows, the file says of them what it is to write.
Agrees(r) ==
    run[r].at = "marks" \/ (run[r].at = "patching" /\ task[r].at = "written") =>
        \A i \in run[r].targets \cap Dep : log.deprecated[i] = run[r].merged

Arrives == /\ Handling /\ DeprecationsArrive
           /\ \A r \in Reflectors : Covered(r) /\ Agrees(r)

\* Rows keep their bodies, so the index holds the same entries.
LEMMA PresentStays ==
    ASSUME \A i \in Ids : row'[i].body = row[i].body
    PROVE  Present' = Present
BY DEF Present

\* What the cycle has fetched stays in the index as that grows.
LEMMA CoveredStays ==
    ASSUME NEW r \in Reflectors, Covered(r), Present \subseteq Present',
           Dep' = Dep, run'[r] = run[r]
    PROVE  Covered(r)'
BY DEF Covered

\* What the file says stays so while the cycle rests.
LEMMA AgreesStays ==
    ASSUME NEW r \in Reflectors, Agrees(r),
           log'.deprecated = log.deprecated, run'[r] = run[r],
           task'[r].at = "written" => task[r].at = "written"
    PROVE  Agrees(r)'
BY DEF Agrees, Dep

\* The handler's part, when the rows keep their bodies and the file its
\* deprecations.
LEMMA HandlingStays ==
    ASSUME Handling, Present' = Present, Dep' = Dep, sync' = sync,
           ~dirty' => ~dirty /\ log' = log
    PROVE  Handling'
BY DEF Handling

\* A step that deprecates nothing and leaves the rows alone.
LEMMA RowsRest ==
    ASSUME Arrives, UNCHANGED <<row, sync, swallowed>>,
           log'.deprecated = log.deprecated, ~dirty' => ~dirty /\ log' = log,
           \A r \in Reflectors : Covered(r)' /\ Agrees(r)'
    PROVE  Arrives'
<1>1. Present' = Present /\ Dep' = Dep
  BY DEF Present, Dep
<1>2. Handling'
  BY <1>1, HandlingStays DEF Arrives
<1>3. DeprecationsArrive'
  BY <1>1 DEF Arrives, DeprecationsArrive, Dep
<1>. QED BY <1>2, <1>3 DEF Arrives

\* A step of neither the cascade nor a cycle.
LEMMA OthersRest ==
    ASSUME Arrives, UNCHANGED <<log, row, dirty, sync, swallowed, run>>,
           \A r \in Reflectors : task'[r] = task[r]
    PROVE  Arrives'
<1>1. Present' = Present /\ Dep' = Dep
  BY DEF Present, Dep
<1>2. \A r \in Reflectors : Covered(r)' /\ Agrees(r)'
  BY <1>1, CoveredStays, AgreesStays DEF Arrives
<1>. QED BY <1>2, RowsRest

-----------------------------------------------------------------------------
(* The handler.                                                            *)

\* The cycles do not notice the handler but by what it adds.
LEMMA CyclesRest ==
    ASSUME Arrives, UNCHANGED <<log, run, task>>, Present \subseteq Present'
    PROVE  \A r \in Reflectors : Covered(r)' /\ Agrees(r)'
<1>1. Dep' = Dep
  BY DEF Dep
<1>. QED BY <1>1, CoveredStays, AgreesStays DEF Arrives

\* The handler reads the file.
LEMMA ReadsArrive ==
    ASSUME Inv, Arrives, SyncReads, UNCHANGED <<log, run, task>>
    PROVE  Arrives'
<1>0. /\ Types /\ Numbered /\ Indexed /\ log \in File0 /\ log.count \in Nat
      /\ log.count = Len(log.entries) /\ Known \subseteq Ids
  BY KnownIds DEF Inv, Types, FileTypes, Numbered
<1>1. PICK B : B = DiffEntries(log)
  OBVIOUS
<1>2. /\ sync' = [at |-> "embeds", file |-> log, build |-> B]
      /\ dirty' = FALSE /\ UNCHANGED <<row, swallowed>>
  BY <1>1 DEF SyncReads
<1>3. Present' = Present /\ Dep' = Dep
  BY <1>2 DEF Present, Dep
<1>4. Begins(log)
  BY <1>0 DEF Begins
<1>5. Known \subseteq B \cup Present
  <2>. SUFFICES ASSUME NEW i \in Known, i \notin Present PROVE i \in B
    OBVIOUS
  <2>1. i \in Ids /\ row[i].body = None
    BY <1>0 DEF Present
  <2>2. BodyOf(log, i) # None
    BY <1>0, <1>4, <2>1, BodyOfIs DEF Known
  <2>. QED BY <1>1, <2>1, <2>2 DEF DiffEntries
<1>6. Present \subseteq Known
  BY <1>0 DEF Present, Indexed
<1>7. Dep \subseteq Known
  BY <1>0 DEF Numbered, Dep
<1>8. sync'.file = log' /\ 1 .. sync'.file.count = Known /\ sync'.build = B
  BY <1>2 DEF Known
<1>9. Handling'
  BY <1>2, <1>3, <1>5, <1>6, <1>7, <1>8 DEF Arrives, Handling
<1>10. DeprecationsArrive'
  BY <1>2 DEF DeprecationsArrive
<1>. QED BY <1>3, <1>9, <1>10, CyclesRest DEF Arrives

\* The handler writes its rows: the index holds what it has read.
LEMMA AppliesArrive ==
    ASSUME Inv, Arrives, SyncApplies, UNCHANGED <<log, run, task>>
    PROVE  Arrives'
<1>0. /\ Types /\ Numbered /\ Indexed /\ Handling /\ sync \in Handler
      /\ log.count \in Nat /\ Known \subseteq Ids
      /\ \A i \in Ids : i \in Nat /\ i # 0
  BY KnownIds, Constants DEF Inv, Types, FileTypes, IndexTypes, Arrives
<1>1. PICK f \in File0 : f = sync.file /\ Begins(f)
  BY <1>0 DEF Indexed, Handler
<1>2. PICK w : w = [sync EXCEPT !.at = "marks"]
  OBVIOUS
<1>3. w.at = "marks" /\ w.file = f
  BY <1>0, <1>1, <1>2 DEF Handler
<1>4. sync' = w /\ UNCHANGED <<dirty, swallowed>> /\ sync.at = "embeds"
  BY <1>2 DEF SyncApplies
<1>5. ASSUME NEW i \in Ids
      PROVE  row'[i].body # None <=> i \in 1 .. f.count
  <2>1. PICK b : b = BodyOf(f, i) /\ (b # None <=> i \in 1 .. f.count)
    BY <1>0, <1>1, BodyOfIs
  <2>2. CASE i \in sync.build
    <3>1. row'[i] = [body |-> b, deprecated |-> 0]
      BY <1>1, <2>1, <2>2 DEF SyncApplies
    <3>. QED BY <2>1, <3>1
  <2>3. CASE i \notin sync.build
    <3>1. row'[i] = IF b = None THEN Absent ELSE row[i]
      BY <1>1, <2>1, <2>3 DEF SyncApplies
    <3>2. i \in 1 .. f.count => row[i].body # None
      BY <1>0, <1>1, <1>4, <2>3 DEF Handling, Present
    <3>3. Absent.body = None
      BY DEF Absent
    <3>. QED BY <2>1, <3>1, <3>2, <3>3
  <2>. QED BY <2>2, <2>3
<1>6. 1 .. f.count \subseteq Ids
  BY <1>0, <1>1, FileParts DEF Begins, Known
<1>7. Present' = 1 .. f.count
  BY <1>5, <1>6 DEF Present
<1>8. Present \subseteq Present'
  BY <1>0, <1>1, <1>4, <1>7 DEF Handling
<1>9. Dep \subseteq Present'
  BY <1>0, <1>1, <1>4, <1>7, <1>8 DEF Handling
<1>10. Dep' = Dep /\ (~dirty' => sync'.file = log')
  BY <1>0, <1>1, <1>3, <1>4 DEF Handling, Dep
<1>11. Handling'
  BY <1>3, <1>4, <1>7, <1>9, <1>10 DEF Handling
<1>12. DeprecationsArrive'
  BY <1>3, <1>4 DEF DeprecationsArrive
<1>. QED BY <1>8, <1>11, <1>12, CyclesRest DEF Arrives

\* The handler writes the deprecations that it has read.
LEMMA MarksArrive ==
    ASSUME Inv, Arrives, SyncMarks, UNCHANGED <<log, run, task>>
    PROVE  Arrives'
<1>0. /\ Types /\ row \in [Ids -> Row] /\ sync \in Handler /\ Handling
  BY DEF Inv, Types, IndexTypes, Arrives
<1>1. PICK map \in Maps : map = sync.file.deprecated
  BY <1>0, FileParts DEF Handler
<1>2. PICK lost \in SUBSET DOMAIN map :
         /\ swallowed' = lost
         /\ row' = Deprecate(row, [i \in DOMAIN map \ lost |-> map[i]])
  BY <1>1 DEF SyncMarks, Propagated
<1>3. PICK m : m = [i \in DOMAIN map \ lost |-> map[i]]
  OBVIOUS
<1>4. \A i \in DOMAIN m : m[i] \in Ids
  BY <1>3, MapParts
<1>5. row' = Deprecate(row, m)
  BY <1>2, <1>3
<1>6. \A i \in Ids : /\ row'[i].body = row[i].body
                     /\ i \in DOMAIN m /\ row[i].body # None =>
                          row'[i].deprecated = m[i]
  BY <1>0, <1>4, <1>5, DeprecateIs
<1>7. Present' = Present
  BY <1>6, PresentStays
<1>8. /\ sync' = NoSync /\ NoSync.at = "idle" /\ dirty' = dirty
      /\ sync.at = "marks"
  BY <1>0, NoSyncIs DEF SyncMarks
<1>9. Handling'
  BY <1>0, <1>7, <1>8 DEF Handling, Dep
<1>10. DeprecationsArrive'
  <2>. SUFFICES ASSUME ~dirty', NEW i \in (Dep \cap Present) \ lost
                PROVE  row'[i].deprecated = log.deprecated[i]
    BY <1>2, <1>7 DEF DeprecationsArrive, Dep
  <2>1. map = log.deprecated
    BY <1>0, <1>1, <1>8 DEF Handling
  <2>2. i \in DOMAIN m /\ m[i] = log.deprecated[i]
    BY <1>3, <2>1 DEF Dep
  <2>. QED BY <1>6, <2>2 DEF Present
<1>. QED BY <1>7, <1>9, <1>10, CyclesRest DEF Arrives

\* The handler raises, and the file is dirty again.
LEMMA RaisesArrive ==
    ASSUME Inv, Arrives, SyncRaises, UNCHANGED <<log, run, task>>
    PROVE  Arrives'
<1>1. /\ row' = row /\ dirty' = TRUE /\ sync' = NoSync /\ NoSync.at = "idle"
  BY NoSyncIs DEF SyncRaises, Inv
<1>2. Present' = Present /\ Dep' = Dep
  BY <1>1 DEF Present, Dep
<1>3. Handling' /\ DeprecationsArrive'
  BY <1>1, <1>2 DEF Arrives, Handling, DeprecationsArrive
<1>. QED BY <1>2, <1>3, CyclesRest DEF Arrives

-----------------------------------------------------------------------------
(* Writes and cycles.                                                      *)

\* A step of a write: only the cycle's own patch deprecates.
LEMMA WritesArrive ==
    ASSUME ~MayCollide, OneCycle, Inv, Arrives, NEW t \in Tasks, WriteStep(t)
    PROVE  Arrives'
<1>1. /\ UNCHANGED <<row, sync, swallowed, run>>
      /\ ~dirty' => ~dirty /\ log' = log
  BY DEF WriteStep, reflectionVars
<1>2. Present' = Present
  BY <1>1 DEF Present
<1>3. CASE Works(t) \/ (Wrote(t) /\ Appends(t))
  <2>1. log'.deprecated = log.deprecated /\ Dep' = Dep
    BY <1>3 DEF Works, Appends, Dep
  <2>2. ASSUME NEW r \in Reflectors PROVE Covered(r)' /\ Agrees(r)'
    <3>1. Covered(r)'
      BY <1>1, <1>2, <2>1, CoveredStays DEF Arrives
    <3>2. CASE task'[r].at = "written" => task[r].at = "written"
      BY <1>1, <2>1, <3>1, <3>2, AgreesStays DEF Arrives
    <3>3. CASE ~(task'[r].at = "written" => task[r].at = "written")
      <4>1. r = t /\ task[r].body # None /\ task[r].at # "idle"
        BY <1>3, <3>3, Constants DEF Works, Wrote, Appends
      <4>2. run[r].at # "patching"
        BY <4>1 DEF Inv, Sound
      <4>. QED BY <1>1, <2>1, <3>1, <4>2 DEF Arrives, Agrees
    <3>. QED BY <3>2, <3>3
  <2>. QED BY <1>1, <2>1, <2>2, RowsRest
<1>4. CASE Wrote(t) /\ Patches(t) /\ t \in Reflectors /\ run[t].at = "patching"
  <2>1. PICK P, m : P = DOMAIN task[t].map /\ m = run[t].merged
    OBVIOUS
  <2>2. /\ P = run[t].targets \cap DOMAIN run[t].episodes
        /\ \A i \in P : log'.deprecated[i] = m
        /\ Dep' = Dep \cup P /\ run[t].targets \subseteq run[t].original
    BY <1>4, <2>1 DEF Inv, Sound, Patches, Wrote, Dep
  <2>3. /\ DOMAIN run[t].episodes # {}
        /\ DOMAIN run[t].episodes \subseteq Present
        /\ Dep \cap run[t].original \subseteq DOMAIN run[t].episodes
    BY <1>4 DEF Arrives, Covered, InHand, Reflecting
  <2>4. Dep' \cap run[t].original \subseteq DOMAIN run[t].episodes
    BY <2>2, <2>3
  <2>5. Covered(t)'
    BY <1>1, <1>2, <2>3, <2>4 DEF Covered
  <2>6. run[t].targets \cap Dep' \subseteq P
    BY <2>2, <2>4
  <2>7. Agrees(t)'
    BY <1>1, <2>1, <2>2, <2>6 DEF Agrees
  <2>8. \A r \in Reflectors : Covered(r)' /\ Agrees(r)'
    BY <1>4, <2>5, <2>7 DEF OneCycle
  <2>9. Present # {} /\ Dep' \subseteq Present
    BY <2>2, <2>3 DEF Arrives, Handling
  <2>10. Handling'
    BY <1>1, <1>2, <2>9 DEF Arrives, Handling
  <2>11. DeprecationsArrive'
    <3>1. CASE dirty'
      BY <3>1 DEF DeprecationsArrive
    <3>2. CASE ~dirty'
      BY <1>1, <3>2 DEF Arrives, DeprecationsArrive, Present
    <3>. QED BY <3>1, <3>2
  <2>. QED BY <2>8, <2>10, <2>11 DEF Arrives
<1>. QED BY <1>3, <1>4, WriteKinds DEF WriteStep

\* A cycle with nothing in hand.
LEMMA BlankArrives ==
    ASSUME NEW r \in Reflectors,
           run'[r].at \in {"idle", "next", "loads", "reports"}
    PROVE  Covered(r)' /\ Agrees(r)'
BY DEF Covered, Agrees, InHand, Reflecting

\* A cycle that goes on with what it has in hand.
LEMMA HandArrives ==
    ASSUME Arrives, NEW r \in Reflectors, run[r].at \in InHand,
           run'[r].original = run[r].original,
           run'[r].episodes = run[r].episodes, Present' = Present, Dep' = Dep,
           \/ run'[r].at \notin {"marks", "patching"}
           \/ run'[r].at = "patching" /\ task'[r].at # "written"
    PROVE  Covered(r)' /\ Agrees(r)'
<1>1. Covered(r)'
  BY DEF Arrives, Covered
<1>2. Agrees(r)'
  BY DEF Agrees
<1>. QED BY <1>1, <1>2

\* A step of the cycle that marks no rows.
LEMMA GoesOnArrives ==
    ASSUME Inv, Arrives, NEW r \in Reflectors, Cycle(r), ~MarkRows(r)
    PROVE  /\ UNCHANGED <<log, row, dirty, sync, swallowed>>
           /\ Covered(r)' /\ Agrees(r)'
<1>0. /\ Types /\ run[r] \in Cycle0 /\ task[r].id \in Nat /\ r \in Tasks
  BY Constants, WriteParts DEF Inv, Types, FileTypes, CycleTypes
<1>1. UNCHANGED <<log, row, dirty, sync, swallowed>>
  BY DEF Cycle, Select, LoadMembers, FetchEpisodes, Reflect, Emit, Waited,
     WaitTimesOut, Resolve, Patch, MarkFacts, Remove, Add, Report, CycleRaises,
     ReflectorOnly, logVars, indexVars
<1>2. Present' = Present /\ Dep' = Dep
  BY <1>1 DEF Present, Dep
<1>3. CASE \/ Select(r) \/ LoadMembers(r) \/ WaitTimesOut(r)
           \/ Report(r) \/ CycleRaises(r)
           \/ FetchEpisodes(r) /\ run[r].original \cap Present = {}
           \/ Resolve(r) /\ TargetsOf(run[r]) = {}
  <2>1. Rests(r)
    BY <1>0, <1>3, SelectIs, LoadMembersIs, NextClusterIs
       DEF WaitTimesOut, Report, CycleRaises, FetchEpisodes, Resolve
  <2>. QED BY <1>1, <2>1, BlankArrives DEF Rests
<1>4. CASE FetchEpisodes(r) /\ run[r].original \cap Present # {}
  <2>1. PICK f : f = [i \in run[r].original \cap Present |-> row[i].body]
    OBVIOUS
  <2>2. PICK c : c = [run[r] EXCEPT !.at = "reflects", !.episodes = f]
    OBVIOUS
  <2>3. /\ c.at = "reflects" /\ c.episodes = f
        /\ c.original = run[r].original /\ c.targets = run[r].targets
    BY <1>0, <2>2 DEF Cycle0
  <2>4. run' = [run EXCEPT ![r] = c]
    BY <1>4, <2>1, <2>2 DEF FetchEpisodes, Goes
  <2>5. run'[r] = c
    BY <1>0, <2>4 DEF Types, CycleTypes
  <2>6. DOMAIN f = run[r].original \cap Present
    BY <2>1
  <2>7. Dep \subseteq Present
    BY <1>4 DEF Arrives, Handling
  <2>8. Covered(r)'
    BY <1>2, <1>4, <2>3, <2>5, <2>6, <2>7 DEF Covered
  <2>9. Agrees(r)'
    BY <2>3, <2>5 DEF Agrees
  <2>. QED BY <1>1, <2>8, <2>9
<1>5. CASE Reflect(r) \/ Waited(r) \/ MarkFacts(r) \/ Remove(r)
  <2>1. PICK at \in {"writes", "resolves", "removes", "adds"} : Moves(r, at)
    BY <1>5 DEF Reflect, Waited, MarkFacts, Remove
  <2>2. run[r].at \in InHand
    BY <1>5 DEF Reflect, Waited, MarkFacts, Remove, InHand, Reflecting
  <2>3. /\ run'[r].at = at /\ run'[r].original = run[r].original
        /\ run'[r].episodes = run[r].episodes
    BY <1>0, <2>1, MovesIs DEF Reflecting
  <2>. QED BY <1>1, <1>2, <2>2, <2>3, HandArrives
<1>6. CASE Add(r)
  <2>1. run'[r].at = "reports"
    BY <1>0, <1>6, MovesIs DEF Add
  <2>. QED BY <1>1, <2>1, BlankArrives
<1>7. CASE Emit(r)
  <2>1. PICK c : c = [run[r] EXCEPT !.at = "waits", !.merged = task[r].id]
    OBVIOUS
  <2>2. /\ c.at = "waits" /\ c.original = run[r].original
        /\ c.episodes = run[r].episodes
    BY <1>0, <2>1 DEF Cycle0
  <2>3. run' = [run EXCEPT ![r] = c]
    BY <1>7, <2>1 DEF Emit, Goes
  <2>4. run'[r] = c
    BY <1>0, <2>3 DEF Types, CycleTypes
  <2>5. run[r].at \in InHand
    BY <1>7 DEF Emit, InHand
  <2>. QED BY <1>1, <1>2, <2>2, <2>4, <2>5, HandArrives
<1>8. CASE Resolve(r) /\ TargetsOf(run[r]) # {}
  <2>1. Turns(r) /\ run'[r].at = "patches"
    BY <1>8, ResolveTurns
  <2>. QED BY <1>1, <1>2, <2>1, HandArrives DEF Turns, InHand
<1>9. CASE Patch(r) /\ Patched(run[r]) # {}
  <2>1. Moves(r, "patching") /\ run[r].at = "patches"
    BY <1>9 DEF Patch
  <2>2. /\ run'[r].at = "patching" /\ run'[r].original = run[r].original
        /\ run'[r].episodes = run[r].episodes
    BY <1>0, <2>1, MovesIs DEF Reflecting
  <2>3. task'[r].at = "wants"
    <3>1. PICK map : Asks(r, None, map)
      BY <1>9 DEF Patch
    <3>2. PICK v : v = [NoWrite EXCEPT !.at = "wants", !.body = None,
                                       !.map = map]
      OBVIOUS
    <3>3. v.at = "wants"
      BY <3>2 DEF NoWrite
    <3>4. task' = [task EXCEPT ![r] = v]
      BY <3>1, <3>2 DEF Asks
    <3>. QED BY <1>0, <3>3, <3>4 DEF Types, FileTypes
  <2>4. run[r].at \in InHand
    BY <2>1 DEF InHand, Reflecting
  <2>. QED BY <1>1, <1>2, <2>2, <2>3, <2>4, HandArrives
<1>10. CASE Patch(r) /\ Patched(run[r]) = {}
  <2>1. Moves(r, "marks") /\ run[r].at = "patches"
    BY <1>10 DEF Patch
  <2>2. /\ run'[r].at = "marks" /\ run'[r].original = run[r].original
        /\ run'[r].episodes = run[r].episodes
        /\ run'[r].targets = run[r].targets
    BY <1>0, <2>1, MovesIs DEF Reflecting
  <2>3. Covered(r) /\ run[r].at \in InHand
    BY <2>1 DEF Arrives, InHand, Reflecting
  <2>4. Covered(r)'
    BY <1>2, <2>2, <2>3 DEF Covered
  <2>5. run[r].targets \cap Dep = {}
    BY <1>10, <2>3 DEF Covered, Patched, Inv, Sound
  <2>6. Agrees(r)'
    BY <1>2, <2>2, <2>5 DEF Agrees
  <2>. QED BY <1>1, <2>4, <2>6
<1>. QED BY <1>3, <1>4, <1>5, <1>6, <1>7, <1>8, <1>9, <1>10 DEF Cycle

\* A cycle marks the rows as the file says.
LEMMA MarkRowsArrive ==
    ASSUME OneCycle, Inv, Arrives, NEW r \in Reflectors, MarkRows(r)
    PROVE  Arrives'
<1>0. /\ Types /\ Numbered /\ Sound(r) /\ row \in [Ids -> Row]
      /\ Known \subseteq Ids
  BY KnownIds DEF Inv, Types, IndexTypes
<1>1. /\ Moves(r, "facts") /\ UNCHANGED <<log, dirty, sync, swallowed>>
      /\ \/ run[r].at = "marks"
         \/ run[r].at = "patching" /\ task[r].at = "written"
  BY DEF MarkRows
<1>2. PICK m : m = run[r].merged
  OBVIOUS
<1>3. PICK map : map = [i \in run[r].targets |-> m]
  OBVIOUS
<1>4. m \in Ids
  BY <1>0, <1>1, <1>2 DEF Sound, Reflecting
<1>5. row' = Deprecate(row, map)
  BY <1>2, <1>3 DEF MarkRows
<1>6. \A i \in Ids : /\ row'[i].body = row[i].body
                     /\ row'[i].deprecated =
                          IF i \in DOMAIN map /\ row[i].body # None
                          THEN map[i] ELSE row[i].deprecated
  BY <1>0, <1>3, <1>4, <1>5, DeprecateIs
<1>7. Present' = Present /\ Dep' = Dep
  BY <1>1, <1>6, PresentStays DEF Dep
<1>8. /\ run'[r].at = "facts" /\ run'[r].original = run[r].original
      /\ run'[r].episodes = run[r].episodes
  BY <1>0, <1>1, MovesIs DEF Reflecting
<1>9. run[r].at \in InHand
  BY <1>1 DEF InHand, Reflecting
<1>10. \A q \in Reflectors : Covered(q)' /\ Agrees(q)'
  BY <1>7, <1>8, <1>9, HandArrives DEF OneCycle
<1>11. Handling'
  BY <1>1, <1>7, HandlingStays DEF Arrives
<1>12. DeprecationsArrive'
  <2>. SUFFICES ASSUME ~dirty, sync.at = "idle",
                       NEW i \in (Dep \cap Present) \ swallowed
                PROVE  row'[i].deprecated = log.deprecated[i]
    BY <1>1, <1>7 DEF DeprecationsArrive, Dep
  <2>1. i \in Ids /\ row[i].body # None
    BY DEF Present
  <2>2. CASE i \in run[r].targets
    BY <1>1, <1>2, <1>3, <1>6, <2>1, <2>2 DEF Arrives, Agrees
  <2>3. CASE i \notin run[r].targets
    BY <1>3, <1>6, <2>1, <2>3 DEF Arrives, DeprecationsArrive, Dep
  <2>. QED BY <2>2, <2>3
<1>. QED BY <1>10, <1>11, <1>12 DEF Arrives

\* A step of the cycle.
LEMMA CycleArrives ==
    ASSUME OneCycle, Inv, Arrives, NEW r \in Reflectors, Cycle(r)
    PROVE  Arrives'
<1>1. CASE MarkRows(r)
  BY <1>1, MarkRowsArrive
<1>2. CASE ~MarkRows(r)
  <2>1. /\ UNCHANGED <<log, row, dirty, sync, swallowed>>
        /\ Covered(r)' /\ Agrees(r)'
    BY <1>2, GoesOnArrives
  <2>2. \A q \in Reflectors : Covered(q)' /\ Agrees(q)'
    BY <2>1 DEF OneCycle
  <2>. QED BY <2>1, <2>2, RowsRest
<1>. QED BY <1>1, <1>2

\* The server dies, and the index is kept or dropped.
LEMMA CrashArrives ==
    ASSUME Inv, Arrives, Crash \/ Rebuild
    PROVE  Arrives'
<1>1. /\ \A r \in Reflectors : run'[r] = NoCycle
      /\ log' = log /\ sync' = NoSync /\ NoSync.at = "idle"
  BY VolatileIs, NoSyncIs DEF Inv, Crash, Rebuild, Dropped
<1>2. \A r \in Reflectors : Covered(r)' /\ Agrees(r)'
  BY <1>1, NoCycleIs, BlankArrives
<1>3. CASE Crash
  <2>1. /\ UNCHANGED <<row, swallowed>>
        /\ ~dirty' => ~dirty /\ sync.at = "idle"
    BY <1>3 DEF Crash
  <2>2. Present' = Present /\ Dep' = Dep
    BY <1>1, <2>1 DEF Present, Dep
  <2>3. Handling' /\ DeprecationsArrive'
    BY <1>1, <2>1, <2>2 DEF Arrives, Handling, DeprecationsArrive, Dep
  <2>. QED BY <1>2, <2>3 DEF Arrives
<1>4. CASE Rebuild
  <2>1. row' = [i \in Ids |-> Absent] /\ dirty' = TRUE
    BY <1>4 DEF Rebuild, Dropped
  <2>2. Present' = {}
    BY <2>1 DEF Present, Absent
  <2>3. Handling' /\ DeprecationsArrive'
    BY <1>1, <2>1, <2>2 DEF Handling, DeprecationsArrive
  <2>. QED BY <1>2, <2>3 DEF Arrives
<1>. QED BY <1>3, <1>4

\* In the beginning there is nothing to arrive.
LEMMA InitArrives == Init => Arrives
<1>. SUFFICES ASSUME Init PROVE Arrives
  OBVIOUS
<1>1. /\ log = EmptyFile /\ row = [i \in Ids |-> Absent] /\ dirty = FALSE
      /\ sync = NoSync /\ NoSync.at = "idle" /\ Types
      /\ run = [r \in Reflectors |-> NoCycle]
  BY InitInv, NoSyncIs DEF Init, InitLog, InitIndex, Inv
<1>2. Present = {} /\ Dep = {}
  BY <1>1, MapParts DEF Present, Absent, Dep, EmptyFile
<1>3. Handling /\ DeprecationsArrive
  BY <1>1, <1>2 DEF Handling, DeprecationsArrive, Dep
<1>4. \A r \in Reflectors : Covered(r) /\ Agrees(r)
  BY <1>1, NoCycleIs DEF Covered, Agrees, InHand, Reflecting
<1>. QED BY <1>3, <1>4 DEF Arrives

\* A step of the system.
LEMMA NextArrives ==
    ~MayCollide /\ OneCycle /\ Inv /\ Arrives /\ [Next]_vars => Arrives'
<1>. SUFFICES ASSUME ~MayCollide, OneCycle, Inv, Arrives, [Next]_vars
              PROVE  Arrives'
  OBVIOUS
<1>1. ASSUME NEW t \in Pipes,
             (\E c \in Cells : Append1(t, c)) \/ Announce(t) \/ GiveUp(t)
      PROVE  Arrives'
  <2>1. /\ UNCHANGED <<log, row, dirty, sync, swallowed, run>>
        /\ \A u \in Tasks : u # t => task'[u] = task[u]
    BY <1>1 DEF Append1, Announce, GiveUp, Asks, indexVars, reflectionVars, Inv,
       Types, FileTypes
  <2>2. \A r \in Reflectors : task'[r] = task[r]
    BY <2>1, Constants
  <2>. QED BY <2>1, <2>2, OthersRest
<1>2. CASE File \/ FileRaises \/ Facts \/ UNCHANGED vars
  <2>1. UNCHANGED <<log, row, dirty, sync, swallowed, run, task>>
    BY <1>2 DEF File, FileRaises, Facts, Extract, ExtractFails, IndexFacts,
       vars, logVars, indexVars, reflectionVars
  <2>. QED BY <2>1, OthersRest
<1>3. CASE Sync
  <2>1. UNCHANGED <<log, run, task>>
    BY <1>3 DEF Sync, logVars, reflectionVars
  <2>. QED BY <1>3, <2>1, ReadsArrive, AppliesArrive, MarksArrive, RaisesArrive
       DEF Sync
<1>. QED BY <1>1, <1>2, <1>3, WritesArrive, CycleArrives, CrashArrives DEF Next

\* While one cycle of an owner runs at a time, the index comes to show every
\* deprecation of the file, whatever order the handler's writes and the
\* reflection's own come in (BaseDailyLogHandler, ReflectionOrchestrator).
THEOREM DeprecationsDoArrive ==
    ~MayCollide /\ OneCycle => (Spec => []DeprecationsArrive)
<1>. SUFFICES ASSUME ~MayCollide, OneCycle PROVE Spec => []DeprecationsArrive
  OBVIOUS
<1>1. Spec => []Inv
  BY Invariance
<1>2. Inv /\ Arrives /\ [Next]_vars => Arrives'
  BY NextArrives
<1>3. Arrives => DeprecationsArrive
  BY DEF Arrives
<1>. QED BY <1>1, <1>2, <1>3, InitArrives, PTL DEF Spec

-----------------------------------------------------------------------------
(* The file is a journal.                                                  *)

\* A step that a reader of the file does not see.
Unseen == log' = log /\ omitted \subseteq omitted'

\* What is not seen excuses cells at most.
LEMMA UnseenIs ==
    ASSUME Unseen
    PROVE  [Contract!Next]_(<<log.entries, log.deprecated, omitted>>)
<1>1. Contract!Excuse
  BY DEF Unseen, Contract!Excuse
<1>. QED BY <1>1 DEF Contract!Next

\* The steps of the pipeline, of clustering, of the cascade and of the facts.
LEMMA OutsideUnseen ==
    ASSUME \/ \E t \in Pipes :
                (\E c \in Cells : Append1(t, c)) \/ Announce(t) \/ GiveUp(t)
           \/ File \/ FileRaises \/ Sync \/ Facts \/ Crash \/ Rebuild
    PROVE  Unseen
<1>1. ASSUME NEW t \in Pipes, NEW c \in Cells, Append1(t, c)
      PROVE  UNCHANGED <<log, omitted>>
  BY <1>1 DEF Append1, reflectionVars, asked
<1>2. ASSUME NEW t \in Pipes, Announce(t) \/ GiveUp(t)
      PROVE  UNCHANGED <<log, omitted>>
  BY <1>2 DEF Announce, GiveUp, reflectionVars, asked
<1>3. CASE File \/ FileRaises
  BY <1>3 DEF File, FileRaises, logVars, reflectionVars, asked, Unseen
<1>4. CASE Sync \/ Facts
  BY <1>4 DEF Sync, Facts, logVars, reflectionVars, asked, Unseen
<1>5. CASE Crash \/ Rebuild
  BY <1>5 DEF Crash, Rebuild, asked, Unseen
<1>. QED BY <1>1, <1>2, <1>3, <1>4, <1>5 DEF Unseen

\* A cycle asks; it is the writer that changes the file.
LEMMA CycleUnseen ==
    ASSUME NEW r \in Reflectors, Cycle(r)
    PROVE  Unseen
<1>1. CASE Reflect(r)
  BY <1>1 DEF Reflect, Unseen
<1>2. CASE \/ Select(r) \/ LoadMembers(r) \/ FetchEpisodes(r) \/ Waited(r)
           \/ Resolve(r)
  <2>1. ReflectorOnly
    BY <1>2 DEF Select, LoadMembers, FetchEpisodes, Waited, Resolve
  <2>. QED BY <2>1 DEF ReflectorOnly, logVars, asked, Unseen
<1>3. CASE Emit(r) \/ Patch(r) \/ MarkRows(r)
  BY <1>3 DEF Emit, Patch, MarkRows, asked, Unseen
<1>4. CASE WaitTimesOut(r) \/ MarkFacts(r) \/ Remove(r) \/ Add(r) \/ Report(r)
  BY <1>4 DEF WaitTimesOut, MarkFacts, Remove, Add, Report, logVars, asked,
     Unseen
<1>5. CASE CycleRaises(r)
  BY <1>5 DEF CycleRaises, logVars, asked, Unseen
<1>. QED BY <1>1, <1>2, <1>3, <1>4, <1>5 DEF Cycle

\* A file with one entry more is a journal with one entry more.
LEMMA AppendJournals ==
    ASSUME Inv, NEW t \in Tasks, Appends(t), UNCHANGED omitted
    PROVE  Contract!Append1
<1>1. log.count = Len(log.entries) /\ log.count \in Nat
  BY Constants, FileParts DEF Inv, Types, FileTypes, Numbered
<1>2. DOMAIN log.entries = Known /\ DOMAIN log'.entries = Known'
  <2>1. log'.entries \in Seq(Entry) /\ log'.count = Len(log'.entries)
    BY DEF Appends, File0
  <2>. QED BY <2>1, EntriesAre DEF Known
<1>3. log'.count = Len(log.entries) + 1
  BY <1>1 DEF Appends
<1>4. DOMAIN log'.entries = 1 .. Len(log.entries) + 1
  BY <1>2, <1>3 DEF Known
<1>5. log'.entries[Len(log.entries) + 1].id = Len(log.entries) + 1
  BY <1>3 DEF Appends
<1>6. \A i \in DOMAIN log.entries : log'.entries[i] = log.entries[i]
  BY <1>2 DEF Appends
<1>7. UNCHANGED <<log.deprecated, omitted>>
  BY DEF Appends
<1>. QED BY <1>4, <1>5, <1>6, <1>7 DEF Contract!Append1

\* A patch of a cycle leads from entries whose text it has merged to its
\* merged episode.
LEMMA PatchJournals ==
    ASSUME Inv, NEW r \in Reflectors, run[r].at = "patching", Patches(r),
           UNCHANGED omitted
    PROVE  \E S \in SUBSET DOMAIN log.entries, m \in DOMAIN log.entries :
              Contract!Replace(S, m)
<1>0. Sound(r) /\ DOMAIN log.entries = Known
  BY EntriesAre DEF Inv
<1>1. PICK m, S : m = run[r].merged /\ S = DOMAIN task[r].map
  OBVIOUS
<1>2. /\ m \in Known /\ Gathered(r) \subseteq Body(m).of \cup omitted
      /\ S \subseteq DOMAIN run[r].episodes /\ S \subseteq run[r].original
      /\ S \subseteq Known
      /\ \A i \in S : run[r].episodes[i] = Body(i) /\ task[r].map[i] = m
  BY <1>0, <1>1 DEF Sound, Reflecting
<1>3. Has(r) /\ Mine(r) = m
  BY <1>1 DEF Has, Mine, Reflecting
<1>4. m \notin S /\ m \notin DOMAIN log.deprecated
  BY <1>2, <1>3 DEF Inv, Owned, Loose
<1>5. ASSUME NEW i \in S
      PROVE  log.entries[i].body.of
                \subseteq log.entries[m].body.of \cup omitted
  <2>1. Body(i).of \subseteq Gathered(r)
    BY <1>2 DEF Gathered, CellsOf
  <2>. QED BY <1>2, <2>1 DEF Body
<1>6. log'.deprecated = [i \in DOMAIN log.deprecated \cup S |->
                            IF i \in S THEN m ELSE log.deprecated[i]]
  <2>1. /\ DOMAIN log'.deprecated = DOMAIN log.deprecated \cup S
        /\ \A i \in S : log'.deprecated[i] = m
        /\ \A i \in DOMAIN log.deprecated \ S :
              log'.deprecated[i] = log.deprecated[i]
    BY <1>1, <1>2 DEF Patches
  <2>2. log'.deprecated \in Maps
    BY DEF Patches, File0
  <2>3. log'.deprecated = [i \in DOMAIN log'.deprecated |-> log'.deprecated[i]]
    BY <2>2 DEF Maps
  <2>. QED BY <2>1, <2>3
<1>7. UNCHANGED <<log.entries, omitted>>
  BY DEF Patches
<1>8. Contract!Replace(S, m)
  BY <1>0, <1>2, <1>4, <1>5, <1>6, <1>7
     DEF Contract!Replace, Contract!Tells
<1>. QED BY <1>0, <1>2, <1>8

\* A step of the system is a step of the journal, or not seen.
LEMMA JournalStep ==
    ASSUME ~MayCollide, Inv, [Next]_vars
    PROVE  [Contract!Next]_(<<log.entries, log.deprecated, omitted>>)
<1>1. ASSUME NEW t \in Tasks, WriteStep(t)
      PROVE  [Contract!Next]_(<<log.entries, log.deprecated, omitted>>)
  <2>1. UNCHANGED omitted
    BY <1>1 DEF WriteStep, reflectionVars, asked
  <2>2. \/ Works(t)
        \/ Appends(t)
        \/ Patches(t) /\ t \in Reflectors /\ run[t].at = "patching"
    BY <1>1, WriteKinds DEF WriteStep
  <2>3. CASE Works(t)
    BY <2>1, <2>3, UnseenIs DEF Works, Unseen
  <2>4. CASE Appends(t)
    BY <2>1, <2>4, AppendJournals DEF Contract!Next
  <2>5. CASE Patches(t) /\ t \in Reflectors /\ run[t].at = "patching"
    BY <2>1, <2>5, PatchJournals DEF Contract!Next
  <2>. QED BY <2>2, <2>3, <2>4, <2>5
<1>2. CASE UNCHANGED vars
  BY <1>2, UnseenIs DEF vars, logVars, Unseen
<1>. QED BY <1>1, <1>2, OutsideUnseen, CycleUnseen, UnseenIs DEF Next

\* The first file is the empty journal.
LEMMA JournalInit == Init => Contract!Init
BY DEF Init, InitLog, EmptyFile, Contract!Init

\* Whatever the tasks, cycles and crashes do, and in whatever order, the file
\* of the episodes is a journal (MarkdownWriter's append and frontmatter
\* patch, each from read to os.replace under the lock of the path, and the
\* orchestrator's two reads of the members of a cluster): it only grows, and
\* a replaced entry leads to a live one that tells of all that it told.
THEOREM FileIsAJournal == ~MayCollide => (Spec => Journaled)
<1>. SUFFICES ASSUME ~MayCollide PROVE Spec => Journaled
  OBVIOUS
<1>1. Inv /\ [Next]_vars
        => [Contract!Next]_(<<log.entries, log.deprecated, omitted>>)
  BY JournalStep
<1>. QED BY <1>1, JournalInit, Invariance, PTL
     DEF Spec, Journaled, Contract!Spec
=============================================================================
