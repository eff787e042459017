----------------------------- MODULE EpisodeIndex ----------------------------
(***************************************************************************)
(* What the index holds of one day's episodes, and how the cascade brings  *)
(* it up to the file: the handler reads the file and the rows of its path, *)
(* embeds what is new, upserts it with no deprecation, and then writes the *)
(* deprecations of the frontmatter row by row; a row it cannot write is    *)
(* logged and left.  Any change of the file makes it dirty, and a dirty    *)
(* file is handled sooner or later (module Cascade says how).              *)
(*                                                                         *)
(* The atomic facts of an episode are entries of another file, whose       *)
(* frontmatter has no deprecations: their deprecated_by lives in the index *)
(* alone.                                                                  *)
(***************************************************************************)
EXTENDS DailyLog

CONSTANT Watched   \* bound: the entries whose facts are followed

VARIABLES
    row,      \* entry id -> its index row, Absent, or a row with its body and deprecation
    dirty,    \* the file has changed since the handler last read it
    sync,     \* the handler at work on the file
    swallowed,\* rows whose last deprecation the handler failed to write
    fact      \* entry id -> what became of the episode's facts

indexVars == <<row, dirty, sync, swallowed, fact>>

Absent    == [body |-> None, deprecated |-> 0]
NoSync    == [at |-> "idle", file |-> EmptyFile, build |-> {}]
Present   == {i \in Ids : row[i].body # None}

(* due: a run of extract_atomic_facts is due; failed: its last attempt     *)
(* raised; dead: no attempt is left; file, live, deprecated: where the     *)
(* facts are.                                                              *)
FactStates == {"none", "due", "failed", "dead", "file", "live", "deprecated"}

InitIndex == /\ row       = [i \in Ids |-> Absent]
             /\ dirty     = FALSE
             /\ sync      = NoSync
             /\ swallowed = {}
             /\ fact      = [i \in Ids |-> "none"]

-----------------------------------------------------------------------------
(* BaseDailyLogHandler.handle_added_or_modified. *)

(* New entries and those whose text is not the row's; of two entries with  *)
(* one id the later one wins.                                              *)
BodyOf(file, i) == LET at == {n \in DOMAIN file.entries : file.entries[n].id = i}
                   IN  IF at = {} THEN None
                       ELSE file.entries[CHOOSE n \in at : \A m \in at : m <= n].body
DiffEntries(file) == {i \in Ids : BodyOf(file, i) \notin {None, row[i].body}}

SyncReads == /\ dirty /\ sync.at = "idle"
             /\ dirty' = FALSE
             /\ sync'  = [at |-> "embeds", file |-> log, build |-> DiffEntries(log)]
             /\ UNCHANGED <<row, swallowed, fact>>

(* A built row carries no deprecation; a row whose entry is gone goes too. *)
SyncApplies ==
    /\ sync.at = "embeds"
    /\ row' = [i \in Ids |->
                 IF i \in sync.build THEN [body |-> BodyOf(sync.file, i), deprecated |-> 0]
                 ELSE IF BodyOf(sync.file, i) = None THEN Absent ELSE row[i]]
    /\ sync' = [sync EXCEPT !.at = "marks"]
    /\ UNCHANGED <<dirty, swallowed, fact>>

Deprecate(rows, map) ==
    [i \in Ids |-> IF i \in DOMAIN map /\ rows[i].body # None
                   THEN [rows[i] EXCEPT !.deprecated = map[i]] ELSE rows[i]]

(* The deprecations of the frontmatter as the handler has read it.         *)
Propagated_None(file) == [i \in {} |-> file]
Propagated(file) == file.deprecated

SyncMarks ==
    LET map == Propagated(sync.file)
    IN  /\ sync.at = "marks"
        /\ \E lost \in SUBSET DOMAIN map :
              /\ Cardinality(lost) <= 1
              /\ faults + Cardinality(lost) <= MaxFaults
              /\ faults' = faults + Cardinality(lost)
              /\ swallowed' = lost
              /\ row' = Deprecate(row, [i \in DOMAIN map \ lost |-> map[i]])
        /\ sync' = NoSync
        /\ UNCHANGED <<dirty, fact>>

(* The handler raises: the queue row is retried. *)
SyncRaises == /\ sync.at # "idle" /\ faults < MaxFaults
              /\ faults' = faults + 1
              /\ dirty'  = TRUE
              /\ sync'   = NoSync
              /\ UNCHANGED <<row, swallowed, fact>>

-----------------------------------------------------------------------------
(* Facts: extracted into their own file, then indexed; any row the handler *)
(* builds is live.                                                         *)
DueFacts(i) == fact' = [fact EXCEPT ![i] = IF i \in Watched THEN "due" ELSE @]

Extract(i) == /\ fact[i] \in {"due", "failed"}
              /\ fact' = [fact EXCEPT ![i] = "file"]
              /\ UNCHANGED <<row, dirty, sync, swallowed, faults>>

ExtractFails(i) == /\ fact[i] \in {"due", "failed"} /\ faults < MaxFaults
                   /\ faults' = faults + 1
                   /\ \E s \in {"failed", "dead"} : fact' = [fact EXCEPT ![i] = s]
                   /\ UNCHANGED <<row, dirty, sync, swallowed>>

IndexFacts(i) == /\ fact[i] = "file"
                 /\ fact' = [fact EXCEPT ![i] = "live"]
                 /\ UNCHANGED <<row, dirty, sync, swallowed, faults>>

(* cascade rebuild: both tables are dropped and both files queued again.   *)
Dropped == /\ row'  = [i \in Ids |-> Absent]
           /\ fact' = [i \in Ids |-> IF fact[i] \in {"live", "deprecated"} THEN "file"
                                     ELSE fact[i]]
           /\ dirty' = TRUE
           /\ sync'  = NoSync
           /\ swallowed' = {}
=============================================================================
