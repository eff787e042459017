------------------------------ MODULE DailyLog ------------------------------
(***************************************************************************)
(* One daily-log file: today's episodes of one owner.  A writer reads the  *)
(* entry count of the frontmatter, mints the ids of its entries, reads the *)
(* file again, and replaces it by a copy with the entries appended or with *)
(* its frontmatter patched; os.replace makes the replacement atomic, the   *)
(* lock of the path makes the sequence atomic.  The locks are attributes   *)
(* of a MarkdownWriter, and the program has two of them for the episode    *)
(* files: the pipeline's and the reflection's.                             *)
(***************************************************************************)
EXTENDS Naturals, FiniteSets, Sequences

CONSTANTS Pipes,        \* tasks that write through the pipeline's writer
          Reflectors,   \* tasks that write through the reflection's writer
          MaxEntries,   \* bound: entries of the file
          MayCollide,   \* whether tasks of both writers may overlap
          MaxFaults,    \* bound: failing calls, crashes and rebuilds of a behaviour
          None

ASSUME DailyLogAssumption ==
    /\ Pipes \cap Reflectors = {} /\ None \notin Pipes \cup Reflectors
    /\ MaxEntries \in Nat /\ MaxFaults \in Nat /\ MayCollide \in BOOLEAN

VARIABLES
    log,     \* the file: its entries, the count and the map of its frontmatter
    holder,  \* writer instance -> the task that holds its lock of the path
    task,    \* task -> the write it is in
    faults   \* failures injected so far

logVars == <<log, holder, task>>

Tasks      == Pipes \cup Reflectors
Ids        == 1 .. MaxEntries
PoolOf(t)  == IF t \in Pipes THEN "pipeline" ELSE "reflection"
NoWrite    == [at |-> "idle", body |-> None, map |-> <<>>, id |-> 0, copy |-> None]
EmptyFile  == [entries |-> <<>>, count |-> 0, deprecated |-> <<>>]

InitLog == /\ log    = EmptyFile
           /\ holder = [p \in {"pipeline", "reflection"} |-> None]
           /\ task   = [t \in Tasks |-> NoWrite]

(* A task asks for an append (body) or for a patch of the frontmatter      *)
(* field deprecated_entries (map).                                         *)
Asks(t, body, map) ==
    task' = [task EXCEPT ![t] = [NoWrite EXCEPT !.at = "wants", !.body = body, !.map = map]]

(* The lock of the path, of the task's own writer.  Without MayCollide the *)
(* other writer is at rest: a bound on the environment, not a rule of the  *)
(* code.                                                                   *)
LockFree_Always(t) == t \in Tasks
LockFree(t) == /\ holder[PoolOf(t)] = None
               /\ MayCollide \/ \A p \in DOMAIN holder : holder[p] = None

(* The first read of an append: the ids follow the count it finds.         *)
NextId(file) == file.count + 1

Enter(t) == /\ task[t].at = "wants" /\ task[t].body # None
            /\ LockFree(t)
            /\ NextId(log) \in Ids
            /\ holder' = [holder EXCEPT ![PoolOf(t)] = t]
            /\ task'   = [task EXCEPT ![t].at = "minted", ![t].id = NextId(log)]
            /\ UNCHANGED <<log, faults>>

(* The read of the copy that is written back: the second of an append, the *)
(* only one of a patch.                                                    *)
Load(t) == /\ task[t].at = "minted"
           /\ task' = [task EXCEPT ![t].at = "loaded", ![t].copy = log]
           /\ UNCHANGED <<log, holder, faults>>

EnterPatch(t) == /\ task[t].at = "wants" /\ task[t].body = None
                 /\ LockFree(t)
                 /\ holder' = [holder EXCEPT ![PoolOf(t)] = t]
                 /\ task'   = [task EXCEPT ![t].at = "loaded", ![t].copy = log]
                 /\ UNCHANGED <<log, faults>>

(* deprecated_entries is merged key by key, the new value wins; entry_count *)
(* is overwritten by what the append computed.                             *)
Merged(old, new) == [i \in DOMAIN old \cup DOMAIN new |->
                        IF i \in DOMAIN new THEN new[i] ELSE old[i]]

Written(w) ==
    IF w.body = None
    THEN [w.copy EXCEPT !.deprecated = Merged(@, w.map)]
    ELSE [w.copy EXCEPT !.entries = Append(@, [id |-> w.id, body |-> w.body]),
                        !.count = w.id]

Leaves(t) == holder' = [holder EXCEPT ![PoolOf(t)] = None]

Replace(t) == /\ task[t].at = "loaded"
              /\ log'  = Written(task[t])
              /\ task' = [task EXCEPT ![t].at = "written", ![t].copy = None]
              /\ Leaves(t)
              /\ UNCHANGED faults

(* The staging file cannot be written or renamed: the call raises. *)
ReplaceFails(t) == /\ task[t].at = "loaded" /\ faults < MaxFaults
                   /\ faults' = faults + 1
                   /\ task' = [task EXCEPT ![t].at = "raised", ![t].copy = None]
                   /\ Leaves(t)
                   /\ UNCHANGED log

WriterStep(t) == Enter(t) \/ EnterPatch(t) \/ Load(t) \/ Replace(t) \/ ReplaceFails(t)

-----------------------------------------------------------------------------
EntriesOf(file) == {file.entries[i] : i \in DOMAIN file.entries}
=============================================================================
