---------------------------- MODULE BackfillProofs ----------------------------
(***************************************************************************)
(* Safety of the backfill, proved for every set of rows, memories and      *)
(* clusters and for every bound on runs, starts and faults.                *)
(***************************************************************************)
EXTENDS BackfillProperties, FiniteSetTheorems, TLAPS

Row     == [text : Texts \ {0}, vec : Texts, sub : Texts]
Scanned == UNION {[S -> Row] : S \in SUBSET Rows}
Made    == UNION {[S -> SUBSET {"vec", "sub"}] : S \in SUBSET Rows}
Command == [at : {"off", "probes", "scans", "asks", "writes", "emits", "waits",
                  "syncs first", "drains first", "syncs last", "drains last"},
            phase : {0, 1, 2, 3}, rows : Scanned, made : Made,
            todo : SUBSET (Rows \cup Memories), seen : SUBSET Memories,
            failed : Nat, exit : {None, 0, 1, 3, 4, 130}]

\* Where the command can be, and what it has left to do there.
Stages ==
    /\ bf.at = "off" => bf.phase = 0
    /\ bf.at # "off" => bf.phase \in {1, 2, 3}
    /\ bf.at = "writes" => bf.phase = 1
    /\ HoldsLock => bf.phase \in {2, 3}
    /\ bf.at \in {"syncs first", "syncs last"} \/ Drains => bf.phase = 3
    /\ bf.phase = 1 /\ bf.at \in {"probes", "scans"} => bf.rows = NoVectors
    /\ bf.at = "writes" => bf.todo \subseteq DOMAIN bf.rows
    /\ bf.phase = 2 => bf.todo \subseteq Memories
    /\ bf.phase = 3 => bf.todo \subseteq Cases
    /\ bf.at = "waits" => bf.todo = {}

Shapes == /\ bf \in Command /\ Stages
          /\ row \in [Rows -> Row]
          /\ starts \in Nat /\ runs \in Nat

\* What phase 1 embeds is of the rows that it has read, and asked for.
Embedded ==
    bf.at = "writes" =>
        /\ DOMAIN bf.made = DOMAIN bf.rows
        /\ \A i \in DOMAIN bf.rows : bf.made[i] \subseteq Needs(i, bf.rows[i])

-----------------------------------------------------------------------------
(* Rows.                                                                   *)

\* What a scan has read are rows of the index.
LEMMA ScannedRows ==
    ASSUME NEW r \in Scanned
    PROVE  DOMAIN r \subseteq Rows /\ \A i \in DOMAIN r : r[i] \in Row
BY DEF Scanned

\* What it has embedded are vectors of theirs.
LEMMA MadeSides ==
    ASSUME NEW m \in Made
    PROVE  /\ DOMAIN m \subseteq Rows
           /\ \A i \in DOMAIN m : m[i] \subseteq {"vec", "sub"}
BY DEF Made

\* Nothing is a scan of nothing.
LEMMA NoVectorsTyped ==
    NoVectors \in Scanned /\ NoVectors \in Made /\ DOMAIN NoVectors = {}
<1>1. NoVectors \in [{} -> Row] /\ NoVectors \in [{} -> SUBSET {"vec", "sub"}]
  BY DEF NoVectors
<1>2. {} \in SUBSET Rows /\ DOMAIN NoVectors = {}
  BY DEF NoVectors
<1>. QED BY <1>1, <1>2 DEF Scanned, Made

\* A partial update keeps the text, and a vector that is there or made.
LEMMA UpdatedRow ==
    ASSUME NEW r \in Row, NEW old \in Row, NEW made \in SUBSET {"vec", "sub"}
    PROVE  /\ Updated(r, old, made) \in Row
           /\ Updated(r, old, made).text = r.text
           /\ r.vec # 0 \/ "vec" \in made => Updated(r, old, made).vec # 0
BY BackfillAssumption DEF Updated, Row, Texts

\* The row as the server indexes it after an edit.
Indexed(i, r) == [s \in DOMAIN r |->
                    IF s \in Sides(i) \cup {"text"} THEN r.text + 1 ELSE r[s]]

\* An edit is indexed with a newer text and a vector of it.
LEMMA IndexedRow ==
    ASSUME NEW r \in Row, r.text < MaxText, NEW i
    PROVE  /\ Indexed(i, r) \in Row
           /\ Indexed(i, r).text = r.text + 1
           /\ Indexed(i, r).vec # 0
BY BackfillAssumption DEF Indexed, Sides, Row, Texts

RowsMove == /\ row' \in [Rows -> Row]
            /\ \A i \in Rows : /\ row'[i].text >= row[i].text
                               /\ row[i].vec # 0 => row'[i].vec # 0

\* A step never takes a row back to an older text, and never loses a vector.
LEMMA RowStep ==
    ASSUME Shapes, Embedded, [Next]_vars
    PROVE  RowsMove
<1>0. row \in [Rows -> Row] /\ \A i \in Rows : row[i].text \in Int
  BY BackfillAssumption DEF Shapes, Row, Texts
<1>1. CASE WriteRow
  <2>1. CASE UNCHANGED row
    BY <1>0, <2>1 DEF RowsMove
  <2>2. ASSUME NEW i \in bf.todo, bf.at = "writes",
               row' = [row EXCEPT ![i] = Updated(@, bf.rows[i], bf.made[i])]
        PROVE  RowsMove
    <3>1. /\ i \in Rows /\ i \in DOMAIN bf.rows
          /\ bf.rows[i] \in Row /\ bf.made[i] \in SUBSET {"vec", "sub"}
      BY <2>2, ScannedRows, MadeSides DEF Shapes, Stages, Command, Embedded
    <3>2. /\ Updated(row[i], bf.rows[i], bf.made[i]) \in Row
          /\ Updated(row[i], bf.rows[i], bf.made[i]).text = row[i].text
          /\ row[i].vec # 0 => Updated(row[i], bf.rows[i], bf.made[i]).vec # 0
      BY <1>0, <3>1, UpdatedRow
    <3>. QED BY <1>0, <2>2, <3>1, <3>2 DEF RowsMove
  <2>. QED BY <1>1, <2>1, <2>2 DEF WriteRow
<1>2. CASE ServerIndexes
  <2>1. CASE UNCHANGED row
    BY <1>0, <2>1 DEF RowsMove
  <2>2. ASSUME NEW i \in Rows, IndexRow(i)
        PROVE  RowsMove
    <3>1. row[i].text < MaxText /\ row' = [row EXCEPT ![i] = Indexed(i, row[i])]
      BY <2>2 DEF IndexRow, Indexed
    <3>2. /\ Indexed(i, row[i]) \in Row
          /\ Indexed(i, row[i]).text = row[i].text + 1
          /\ Indexed(i, row[i]).vec # 0
      BY <1>0, <3>1, IndexedRow
    <3>. QED BY <1>0, <3>1, <3>2 DEF RowsMove
  <2>. QED BY <1>2, <2>1, <2>2 DEF ServerIndexes
<1>3. CASE ~WriteRow /\ ~ServerIndexes
  <2>1. UNCHANGED row
    BY <1>3 DEF Next, vars, StoreOnly, Begin, Probe, Interrupt, Decline,
           ScanVectors, Embed, VectorsDone, StartEngine, ScanMemories,
           EmitMemory, Emitted, Waited, ScanCases, EmitCase, SyncScan,
           SyncClaims, SyncHandles, SyncEnds, FileUpsert, FileEnds, FileSkips,
           FileRaises, PersistSkill, Extracted, ServerStart, ServerStop
  <2>. QED BY <1>0, <2>1 DEF RowsMove
<1>. QED BY <1>1, <1>2, <1>3

-----------------------------------------------------------------------------
(* The command.                                                            *)

\* Where the command goes without more to do.
Stops == {"scans", "emits", "waits", "syncs first", "drains first",
          "syncs last", "drains last"}

\* Going somewhere else, or exiting, keeps everything that is not named.
LEMMA GoesShapes ==
    ASSUME bf \in Command, NEW at, Goes(at)
    PROVE  /\ bf'.at = at /\ bf'.phase = bf.phase /\ bf'.rows = bf.rows
           /\ bf'.made = bf.made /\ bf'.todo = bf.todo /\ bf'.seen = bf.seen
           /\ bf'.failed = bf.failed /\ bf'.exit = bf.exit
           /\ at \in Stops
                => bf' \in Command
BY DEF Goes, Command, Stops

\* A command that is off has nothing left to do.
LEMMA OffTyped ==
    ASSUME NEW code \in {None, 0, 1, 3, 4, 130}
    PROVE  /\ Off(code) \in Command
           /\ Off(code).at = "off" /\ Off(code).phase = 0
           /\ Off(code).todo = {} /\ Off(code).exit = code
<1>1. Off(code) \in Command
  BY NoVectorsTyped DEF Off, Command
<1>2. /\ Off(code).at = "off" /\ Off(code).phase = 0
      /\ Off(code).todo = {} /\ Off(code).exit = code
  BY DEF Off
<1>. QED BY <1>1, <1>2

\* The end of a command keeps what it has read and seen, for the record.
Ends(code, failed) ==
    bf' = [Off(code) EXCEPT !.rows = bf.rows, !.seen = bf.seen,
               !.failed = failed]

\* The fields of a command that has ended.
LEMMA OffShapes ==
    ASSUME bf \in Command, NEW code \in {0, 1, 3, 4, 130}, NEW failed \in Nat,
           Ends(code, failed)
    PROVE  /\ bf' \in Command
           /\ bf'.at = "off" /\ bf'.phase = 0 /\ bf'.rows = bf.rows
           /\ bf'.todo = {} /\ bf'.seen = bf.seen
           /\ bf'.failed = failed /\ bf'.exit = code
<1>1. PICK off \in Command : /\ off = Off(code)
                             /\ off.at = "off" /\ off.phase = 0
                             /\ off.todo = {} /\ off.exit = code
  BY OffTyped
<1>2. bf' = [off EXCEPT !.rows = bf.rows, !.seen = bf.seen, !.failed = failed]
  BY <1>1 DEF Ends
<1>3. bf.rows \in Scanned /\ bf.seen \in SUBSET Memories
  BY DEF Command
<1>4. bf' \in Command
  BY <1>2, <1>3 DEF Command
<1>5. bf'.rows = bf.rows /\ bf'.seen = bf.seen /\ bf'.failed = failed
  BY <1>2 DEF Command
<1>6. /\ bf'.at = off.at /\ bf'.phase = off.phase
      /\ bf'.todo = off.todo /\ bf'.exit = off.exit
  BY <1>2 DEF Command
<1>. QED BY <1>1, <1>4, <1>5, <1>6

\* An early exit is such an end.
LEMMA ExitsShapes ==
    ASSUME bf \in Command, NEW code \in {1, 3, 130}, Exits(code)
    PROVE  /\ bf' \in Command
           /\ bf'.at = "off" /\ bf'.phase = 0 /\ bf'.rows = bf.rows
           /\ bf'.todo = {} /\ bf'.seen = bf.seen
           /\ bf'.failed = bf.failed /\ bf'.exit = code
<1>1. Ends(code, bf.failed)
  BY DEF Exits, Ends
<1>2. bf.failed \in Nat /\ code \in {0, 1, 3, 4, 130}
  BY DEF Command
<1>. QED BY <1>1, <1>2, OffShapes

\* The next phase begins with nothing to do; after the last, the command ends.
LEMMA NextPhaseShapes ==
    ASSUME bf \in Command, NEW failed \in Nat, NextPhase(failed)
    PROVE  /\ bf'.rows = bf.rows /\ bf'.seen = bf.seen /\ bf'.failed = failed
           /\ bf'.todo = {}
           /\ bf.phase = 3 => /\ bf'.at = "off" /\ bf'.phase = 0
                              /\ bf'.exit = IF failed > 0 THEN 4 ELSE 0
           /\ bf.phase # 3 => /\ bf'.at = "probes" /\ bf'.phase = bf.phase + 1
                              /\ bf'.exit = bf.exit
           /\ bf' \in Command
<1>1. CASE bf.phase = 3
  <2>. DEFINE code == IF failed > 0 THEN 4 ELSE 0
  <2>1. code \in {0, 1, 3, 4, 130}
    OBVIOUS
  <2>3. Ends(code, failed)
    BY <1>1 DEF NextPhase, Ends
  <2>. HIDE DEF code
  <2>4. /\ bf' \in Command
        /\ bf'.at = "off" /\ bf'.phase = 0 /\ bf'.rows = bf.rows
        /\ bf'.todo = {} /\ bf'.seen = bf.seen
        /\ bf'.failed = failed /\ bf'.exit = code
    BY <2>1, <2>3, OffShapes
  <2>. QED BY <1>1, <2>4 DEF code
<1>2. CASE bf.phase # 3
  <2>1. bf' = [bf EXCEPT !.at = "probes", !.phase = bf.phase + 1,
                   !.made = NoVectors, !.todo = {}, !.failed = failed]
    BY <1>2 DEF NextPhase
  <2>2. bf.phase \in {0, 1, 2, 3}
    BY DEF Command
  <2>3. bf.phase + 1 \in {0, 1, 2, 3}
    BY <1>2, <2>2
  <2>. QED BY <1>2, <2>1, <2>3, NoVectorsTyped DEF Command
<1>. QED BY <1>1, <1>2

\* What the batches of phase 1 make.
LEMMA EmbedShapes ==
    ASSUME Shapes, Embed
    PROVE  /\ bf' \in Command
           /\ bf.at = "asks" /\ bf.phase = 1
           /\ bf'.at = "writes" /\ bf'.phase = 1 /\ bf'.rows = bf.rows
           /\ DOMAIN bf'.made = DOMAIN bf.rows
           /\ \A i \in DOMAIN bf.rows :
                bf'.made[i] \subseteq Needs(i, bf.rows[i])
           /\ bf'.todo = {i \in DOMAIN bf.rows : bf'.made[i] # {}}
           /\ bf'.seen = bf.seen
           /\ bf'.failed <= Cardinality(Rows)
           /\ bf'.failed = 0 =>
                \A i \in DOMAIN bf.rows :
                    "vec" \in Needs(i, bf.rows[i]) => "vec" \in bf'.made[i]
<1>1. PICK lost \in SUBSET MayLose :
        LET made == [i \in DOMAIN bf.rows |->
                       {s \in Needs(i, bf.rows[i]) : <<i, s>> \notin lost}]
        IN  bf' = [bf EXCEPT !.at = "writes", !.made = made,
                      !.todo = {i \in DOMAIN made : made[i] # {}},
                      !.failed = Cardinality(Unembedded(made))]
  BY DEF Embed
<1>. DEFINE made == [i \in DOMAIN bf.rows |->
                       {s \in Needs(i, bf.rows[i]) : <<i, s>> \notin lost}]
            todo == {i \in DOMAIN made : made[i] # {}}
<1>2. DOMAIN made = DOMAIN bf.rows /\ DOMAIN made \in SUBSET Rows
  <2>1. bf.rows \in Scanned
    BY DEF Shapes, Command
  <2>. QED BY <2>1, ScannedRows
<1>3. \A i \in DOMAIN bf.rows : made[i] \subseteq Needs(i, bf.rows[i])
  OBVIOUS
<1>4. made \in Made
  <2>1. \A i \in DOMAIN bf.rows : made[i] \in SUBSET {"vec", "sub"}
    BY <1>3 DEF Needs, Sides
  <2>2. made \in [DOMAIN bf.rows -> SUBSET {"vec", "sub"}]
    BY <2>1
  <2>. HIDE DEF made
  <2>. QED BY <2>2, <1>2 DEF Made
<1>5. /\ Unembedded(made) \subseteq Rows
      /\ Unembedded(made) = {} =>
           \A i \in DOMAIN bf.rows :
               "vec" \in Needs(i, bf.rows[i]) => "vec" \in made[i]
  BY <1>2 DEF Unembedded
<1>6. todo \subseteq Rows
  BY <1>2
<1>. HIDE DEF made, todo
<1>7. /\ Cardinality(Unembedded(made)) \in Nat
      /\ Cardinality(Unembedded(made)) <= Cardinality(Rows)
      /\ Cardinality(Unembedded(made)) = 0 => Unembedded(made) = {}
  BY <1>5, BackfillAssumption, FS_Subset, FS_CardinalityType, FS_EmptySet
<1>8. bf' = [bf EXCEPT !.at = "writes", !.made = made, !.todo = todo,
                !.failed = Cardinality(Unembedded(made))]
  BY <1>1 DEF made, todo
<1>9. /\ bf' \in Command /\ bf'.at = "writes" /\ bf'.phase = 1
      /\ bf'.rows = bf.rows /\ bf'.made = made /\ bf'.todo = todo
      /\ bf'.seen = bf.seen /\ bf'.failed = Cardinality(Unembedded(made))
      /\ bf.at = "asks" /\ bf.phase = 1
  BY <1>4, <1>6, <1>7, <1>8 DEF Shapes, Command, Embed
<1>. QED BY <1>2, <1>3, <1>5, <1>7, <1>9 DEF todo

\* The start of a command forgets all of the one before.
LEMMA BeginShapes ==
    ASSUME Begin
    PROVE  /\ bf' \in Command
           /\ bf'.at = "probes" /\ bf'.phase = 1 /\ bf'.rows = NoVectors
           /\ bf'.todo = {} /\ bf'.seen = {}
<1>1. Off(None) \in Command
  BY OffTyped
<1>2. /\ Off(None).rows = NoVectors
      /\ Off(None).todo = {} /\ Off(None).seen = {}
  BY DEF Off
<1>3. bf' = [[Off(None) EXCEPT !.at = "probes"] EXCEPT !.phase = 1]
  BY DEF Begin
<1>. DEFINE off   == Off(None)
            there == [off EXCEPT !.at = "probes"]
<1>. HIDE DEF off
<1>4. /\ there \in Command /\ there.at = "probes" /\ there.rows = off.rows
      /\ there.todo = off.todo /\ there.seen = off.seen
  BY <1>1 DEF off, Command
<1>5. bf' = [there EXCEPT !.phase = 1]
  BY <1>3 DEF off
<1>. HIDE DEF there
<1>6. /\ bf' \in Command
      /\ bf'.at = there.at /\ bf'.phase = 1 /\ bf'.rows = there.rows
      /\ bf'.todo = there.todo /\ bf'.seen = there.seen
  BY <1>4, <1>5 DEF Command
<1>. QED BY <1>2, <1>4, <1>6 DEF off

\* The rows that phase 1 has to embed.
LEMMA ScanVectorsShapes ==
    ASSUME Shapes, ScanVectors, ~NextPhase(0)
    PROVE  /\ bf' \in Command
           /\ bf'.at = "asks" /\ bf'.phase = bf.phase /\ bf'.seen = bf.seen
<1>. DEFINE todo == {i \in Rows : Needs(i, row[i]) # {}}
            rows == [i \in todo |-> row[i]]
<1>1. bf' = [bf EXCEPT !.at = "asks", !.rows = rows]
  BY DEF ScanVectors
<1>2. rows \in Scanned
  <2>1. todo \in SUBSET Rows /\ rows \in [todo -> Row]
    BY DEF Shapes
  <2>. HIDE DEF rows, todo
  <2>. QED BY <2>1 DEF Scanned
<1>. HIDE DEF rows
<1>. QED BY <1>1, <1>2 DEF Shapes, Command

\* The fields of a command.
LEMMA CommandFields ==
    ASSUME bf \in Command
    PROVE  /\ bf.phase \in {0, 1, 2, 3} /\ bf.failed \in Nat
           /\ bf.rows \in Scanned /\ bf.made \in Made
           /\ bf.todo \subseteq Rows \cup Memories /\ bf.seen \subseteq Memories
BY DEF Command

\* What a command has to do changes and where it is.
LEMMA TodoShapes ==
    ASSUME bf \in Command, NEW at \in {"asks", "emits"},
           NEW todo \in SUBSET (Rows \cup Memories),
           bf' = [bf EXCEPT !.at = at, !.todo = todo]
    PROVE  /\ bf' \in Command
           /\ bf'.at = at /\ bf'.todo = todo /\ bf'.phase = bf.phase
           /\ bf'.rows = bf.rows /\ bf'.failed = bf.failed /\ bf'.seen = bf.seen
BY DEF Command

\* One row less to write, whether it is written or fails.
LeavesRow(i, n) == bf' = [bf EXCEPT !.todo = @ \ {i}, !.failed = n]
WritesRow(i) == row' = [row EXCEPT ![i] = Updated(@, bf.rows[i], bf.made[i])]

\* What a row less to write leaves.
LEMMA WriteShapes ==
    ASSUME bf \in Command, NEW i \in bf.todo, NEW failed \in Nat,
           LeavesRow(i, failed)
    PROVE  /\ bf' \in Command
           /\ bf'.at = bf.at /\ bf'.todo = bf.todo \ {i} /\ bf'.phase = bf.phase
           /\ bf'.rows = bf.rows /\ bf'.made = bf.made
           /\ bf'.failed = failed /\ bf'.seen = bf.seen
BY DEF LeavesRow, Command

\* A write counts the row as failed, or leaves the count.
LEMMA WriteFailed ==
    ASSUME bf \in Command, WriteRow
    PROVE  \E i \in bf.todo, n \in Nat :
             /\ LeavesRow(i, n)
             /\ n \in {bf.failed, bf.failed + 1}
             /\ n = bf.failed => WritesRow(i)
<1>1. bf.failed \in Nat /\ bf.failed + 1 \in Nat /\ bf.failed + 1 # bf.failed
  BY CommandFields
<1>2. PICK i \in bf.todo :
        \/ /\ row' = [row EXCEPT ![i] = Updated(@, bf.rows[i], bf.made[i])]
           /\ bf' = [bf EXCEPT !.todo = @ \ {i},
                        !.failed = IF Gap(i) THEN @ + 1 ELSE @]
        \/ bf' = [bf EXCEPT !.todo = @ \ {i}, !.failed = @ + 1]
  BY DEF WriteRow
<1>3. CASE bf' = [bf EXCEPT !.todo = @ \ {i}, !.failed = @ + 1]
  BY <1>1, <1>3 DEF LeavesRow
<1>4. CASE /\ row' = [row EXCEPT ![i] = Updated(@, bf.rows[i], bf.made[i])]
           /\ bf' = [bf EXCEPT !.todo = @ \ {i},
                        !.failed = IF Gap(i) THEN @ + 1 ELSE @]
  <2>1. CASE Gap(i)
    BY <1>1, <1>4, <2>1 DEF LeavesRow
  <2>2. CASE ~Gap(i)
    BY <1>1, <1>4, <2>2 DEF LeavesRow, WritesRow
  <2>. QED BY <2>1, <2>2
<1>. QED BY <1>2, <1>3, <1>4

\* Every step keeps the command, and where it can be.
LEMMA CommandStep ==
    ASSUME Shapes, Embedded, [Next]_vars
    PROVE  bf' \in Command /\ Stages'
<1>0. bf \in Command /\ Stages
  BY DEF Shapes
<1>1. CASE UNCHANGED bf
  BY <1>0, <1>1 DEF Stages, HoldsLock, Drains
<1>2. ASSUME NEW code \in {1, 3, 130}, Exits(code)
      PROVE  bf' \in Command /\ Stages'
  BY <1>0, <1>2, ExitsShapes DEF Stages, HoldsLock, Drains
<1>3. ASSUME NEW failed \in Nat, NextPhase(failed), bf.at # "off"
      PROVE  bf' \in Command /\ Stages'
  <2>1. bf' \in Command /\ bf'.todo = {}
    BY <1>0, <1>3, NextPhaseShapes
  <2>2. bf.phase \in {1, 2, 3}
    BY <1>0, <1>3, CommandFields DEF Stages
  <2>3. CASE bf.phase = 3
    <3>1. bf'.at = "off" /\ bf'.phase = 0
      BY <1>0, <1>3, <2>3, NextPhaseShapes
    <3>. QED BY <2>1, <3>1 DEF Stages, HoldsLock, Drains
  <2>4. CASE bf.phase # 3
    <3>1. bf'.at = "probes" /\ bf'.phase = bf.phase + 1
      BY <1>0, <1>3, <2>4, NextPhaseShapes
    <3>2. bf'.phase \in {2, 3}
      BY <2>2, <2>4, <3>1
    <3>. QED BY <2>1, <3>1, <3>2 DEF Stages, HoldsLock, Drains
  <2>. QED BY <2>3, <2>4
<1>5. CASE Begin
  <2>1. /\ bf' \in Command /\ bf'.at = "probes" /\ bf'.phase = 1
        /\ bf'.rows = NoVectors
    BY <1>5, BeginShapes
  <2>. QED BY <2>1 DEF Stages, HoldsLock, Drains
<1>6. CASE Probe
  <2>1. CASE server
    BY <1>2, <1>6, <2>1 DEF Probe
  <2>2. CASE ~server
    <3>1. CASE bf.phase = 3
      <4>1. Goes("syncs first")
        BY <1>6, <2>2, <3>1 DEF Probe, FirstOf
      <4>2. bf' \in Command /\ bf'.at = "syncs first" /\ bf'.phase = bf.phase
            /\ bf'.todo = bf.todo
        BY <1>0, <4>1, GoesShapes DEF Stops
      <4>. QED BY <1>0, <3>1, <4>2 DEF Stages, HoldsLock, Drains
    <3>2. CASE bf.phase # 3
      <4>1. bf.at = "probes" /\ Goes("scans")
        BY <1>6, <2>2, <3>2 DEF Probe, FirstOf
      <4>2. bf' \in Command /\ bf'.at = "scans" /\ bf'.phase = bf.phase
            /\ bf'.todo = bf.todo /\ bf'.rows = bf.rows
        BY <1>0, <4>1, GoesShapes DEF Stops
      <4>. QED BY <1>0, <3>2, <4>1, <4>2 DEF Stages, HoldsLock, Drains
    <3>. QED BY <3>1, <3>2
  <2>. QED BY <2>1, <2>2
<1>7. CASE Interrupt
  BY <1>2, <1>7 DEF Interrupt
<1>8. CASE Decline
  BY <1>2, <1>8 DEF Decline
<1>9. CASE ScanVectors
  <2>1. CASE NextPhase(0)
    BY <1>3, <1>9, <2>1 DEF ScanVectors
  <2>2. CASE ~NextPhase(0)
    <3>1. bf' \in Command /\ bf'.at = "asks" /\ bf'.phase = 1
      BY <1>9, <2>2, ScanVectorsShapes DEF ScanVectors
    <3>. QED BY <3>1 DEF Stages, HoldsLock, Drains
  <2>. QED BY <2>1, <2>2
<1>10. CASE Embed
  <2>1. /\ bf' \in Command /\ bf'.at = "writes" /\ bf'.phase = 1
        /\ bf'.rows = bf.rows /\ bf'.todo \subseteq DOMAIN bf.rows
    BY <1>10, EmbedShapes
  <2>. QED BY <2>1 DEF Stages, HoldsLock, Drains
<1>11. CASE WriteRow
  <2>1. bf.at = "writes" /\ bf.phase = 1
    BY <1>11 DEF WriteRow
  <2>2. PICK i \in bf.todo, n \in Nat : LeavesRow(i, n)
    BY <1>0, <1>11, WriteFailed
  <2>3. bf' \in Command /\ bf'.at = "writes" /\ bf'.phase = 1
        /\ bf'.todo = bf.todo \ {i} /\ bf'.rows = bf.rows
    BY <1>0, <2>1, <2>2, WriteShapes
  <2>. QED BY <1>0, <2>1, <2>3 DEF Stages, HoldsLock, Drains
<1>12. CASE VectorsDone
  BY <1>0, <1>3, <1>12, CommandFields DEF VectorsDone
<1>13. CASE StartEngine
  <2>1. CASE server
    BY <1>2, <1>13, <2>1 DEF StartEngine
  <2>2. CASE ~server
    <3>1. bf.phase \in {2, 3} /\ Goes("emits")
      BY <1>13, <2>2 DEF StartEngine
    <3>2. bf' \in Command /\ bf'.at = "emits" /\ bf'.phase = bf.phase
          /\ bf'.todo = bf.todo
      BY <1>0, <3>1, GoesShapes DEF Stops
    <3>. QED BY <1>0, <3>1, <3>2 DEF Stages, HoldsLock, Drains
  <2>. QED BY <2>1, <2>2
<1>14. CASE ScanMemories
  <2>1. /\ bf' \in Command /\ bf'.at = "asks" /\ bf'.phase = 2
        /\ bf'.todo = Memories
    BY <1>0, <1>14 DEF ScanMemories, Command
  <2>. QED BY <2>1 DEF Stages, HoldsLock, Drains
<1>15. ASSUME NEW m \in bf.todo, bf.at = "emits",
              bf' = [bf EXCEPT !.todo = @ \ {m}]
       PROVE  bf' \in Command /\ Stages'
  <2>1. bf' \in Command /\ bf'.at = "emits" /\ bf'.phase = bf.phase
        /\ bf'.todo = bf.todo \ {m}
    BY <1>0, <1>15 DEF Command
  <2>. QED BY <1>0, <1>15, <2>1 DEF Stages, HoldsLock, Drains
<1>16. CASE Emitted
  <2>1. bf.phase \in {2, 3} /\ Goes("waits") /\ bf.todo = {}
    BY <1>0, <1>16 DEF Emitted, Stages, HoldsLock
  <2>2. bf' \in Command /\ bf'.at = "waits" /\ bf'.phase = bf.phase
        /\ bf'.todo = bf.todo
    BY <1>0, <2>1, GoesShapes DEF Stops
  <2>. QED BY <2>1, <2>2 DEF Stages, HoldsLock, Drains
<1>17. CASE Waited
  <2>1. bf.at = "waits"
    BY <1>17 DEF Waited
  <2>2. CASE bf.phase = 3
    <3>1. bf' \in Command /\ bf'.at = "syncs last" /\ bf'.phase = bf.phase
          /\ bf'.todo = bf.todo
      BY <1>0, <1>17, <2>2, GoesShapes DEF Waited, Stops
    <3>. QED BY <1>0, <2>1, <2>2, <3>1 DEF Stages, HoldsLock, Drains
  <2>3. CASE bf.phase # 3
    BY <1>0, <1>3, <1>17, <2>1, <2>3, CommandFields DEF Waited
  <2>. QED BY <2>2, <2>3
<1>18. CASE SyncScan
  <2>1. PICK at \in {"drains first", "drains last"} : bf.phase = 3 /\ Goes(at)
    BY <1>0, <1>18 DEF SyncScan, Stages
  <2>2. bf' \in Command /\ bf'.at = at /\ bf'.phase = bf.phase
        /\ bf'.todo = bf.todo
    BY <1>0, <2>1, GoesShapes DEF Stops
  <2>. QED BY <1>0, <2>1, <2>2 DEF Stages, HoldsLock, Drains
<1>19. CASE ScanCases
  <2>1. CASE NextPhase(bf.failed)
    BY <1>0, <1>3, <1>19, <2>1, CommandFields DEF ScanCases
  <2>2. ASSUME NEW todo \in SUBSET Cases,
               bf' = [bf EXCEPT !.at = "asks", !.todo = todo]
        PROVE  bf' \in Command /\ Stages'
    <3>1. todo \in SUBSET (Rows \cup Memories)
      BY <2>2, BackfillAssumption
    <3>2. bf' \in Command /\ bf'.at = "asks" /\ bf'.phase = 3 /\ bf'.todo = todo
      BY <1>0, <1>19, <2>2, <3>1, TodoShapes DEF ScanCases
    <3>. QED BY <2>2, <3>2 DEF Stages, HoldsLock, Drains
  <2>. QED BY <1>19, <2>1, <2>2 DEF ScanCases
<1>20. CASE SyncEnds
  <2>1. bf.phase = 3 /\ bf.at # "off"
    BY <1>0, <1>20 DEF SyncEnds, Stages, Drains
  <2>2. CASE Goes("scans")
    <3>1. bf' \in Command /\ bf'.at = "scans" /\ bf'.phase = bf.phase
          /\ bf'.todo = bf.todo
      BY <1>0, <2>2, GoesShapes DEF Stops
    <3>. QED BY <1>0, <2>1, <3>1 DEF Stages, HoldsLock, Drains
  <2>3. CASE NextPhase(bf.failed)
    BY <1>0, <1>3, <2>1, <2>3, CommandFields
  <2>. QED BY <1>20, <2>2, <2>3 DEF SyncEnds
<1>21. CASE \/ SyncClaims \/ SyncHandles \/ FileUpsert \/ FileEnds \/ FileSkips
            \/ FileRaises \/ PersistSkill \/ Extracted
            \/ ServerStart \/ ServerStop \/ ServerIndexes
  BY <1>1, <1>21 DEF SyncClaims, SyncHandles, FileUpsert, FileEnds, FileSkips,
         FileRaises, PersistSkill, Extracted, ServerStart, ServerStop,
         ServerIndexes
<1>. QED
  BY <1>1, <1>5, <1>6, <1>7, <1>8, <1>9, <1>10, <1>11, <1>12, <1>13, <1>14,
     <1>15, <1>16, <1>17, <1>18, <1>19, <1>20, <1>21
  DEF Next, vars, EmitMemory, EmitCase

\* And with it all shapes.
LEMMA ShapesStep ==
    ASSUME Shapes, Embedded, [Next]_vars
    PROVE  Shapes'
<1>1. row' \in [Rows -> Row]
  BY RowStep DEF RowsMove
<1>2. starts' \in {starts, starts + 1} /\ runs' \in {runs, runs + 1}
  BY DEF Next, vars, bounds, StoreOnly, Begin, Probe, Interrupt, Decline,
         ScanVectors, Embed, WriteRow, VectorsDone, StartEngine,
         ScanMemories, EmitMemory, Emitted, Waited, ScanCases, EmitCase,
         SyncScan, SyncClaims, SyncHandles, SyncEnds, FileUpsert, FileEnds,
         FileSkips, FileRaises, PersistSkill, Extracted, ServerStart,
         ServerStop, ServerIndexes
<1>3. starts' \in Nat /\ runs' \in Nat
  BY <1>2 DEF Shapes
<1>. QED BY <1>1, <1>3, CommandStep DEF Shapes

-----------------------------------------------------------------------------
(* How the command moves.                                                  *)

\* The command writes vectors where it has embedded, and nowhere else.
LEMMA WritesFrom ==
    ASSUME Shapes, [Next]_vars, bf'.at = "writes"
    PROVE  Embed \/ WriteRow \/ UNCHANGED bf
<1>0. bf \in Command /\ bf.failed \in Nat
  BY CommandFields DEF Shapes
<1>1. \A code \in {1, 3, 130} : ~Exits(code)
  BY <1>0, ExitsShapes
<1>2. \A failed \in Nat : ~NextPhase(failed)
  BY <1>0, NextPhaseShapes
<1>3. \A at \in Stops : ~Goes(at)
  BY <1>0, GoesShapes DEF Stops
<1>4. ~Begin /\ ~ScanVectors
  BY <1>2, BeginShapes, ScanVectorsShapes
<1>5. ~Probe /\ ~Interrupt /\ ~Decline /\ ~VectorsDone
  BY <1>0, <1>1, <1>2, <1>3
  DEF Probe, FirstOf, Interrupt, Decline, VectorsDone, Stops
<1>6. ~StartEngine /\ ~Emitted /\ ~Waited /\ ~SyncScan /\ ~SyncEnds
  BY <1>0, <1>1, <1>2, <1>3
  DEF StartEngine, Emitted, Waited, SyncScan, SyncEnds, Stops
<1>7. ~ScanMemories /\ ~EmitMemory /\ ~ScanCases /\ ~EmitCase
  <2>1. bf'.at # "asks"
    OBVIOUS
  <2>2. ~ScanMemories /\ ~ScanCases
    BY ZenonT(40), <1>0, <1>2, <2>1 DEF ScanMemories, ScanCases, Command
  <2>3. ~EmitMemory /\ ~EmitCase
    BY ZenonT(40), <1>0 DEF EmitMemory, EmitCase, Command
  <2>. QED BY <2>2, <2>3
<1>8. CASE UNCHANGED vars
  BY <1>8 DEF vars
<1>9. CASE \/ SyncClaims \/ SyncHandles \/ FileUpsert \/ FileEnds \/ FileSkips
           \/ FileRaises \/ PersistSkill \/ Extracted
           \/ ServerStart \/ ServerStop \/ ServerIndexes
  BY <1>9 DEF SyncClaims, SyncHandles, FileUpsert, FileEnds, FileSkips,
         FileRaises, PersistSkill, Extracted, ServerStart, ServerStop,
         ServerIndexes
<1>. QED BY <1>4, <1>5, <1>6, <1>7, <1>8, <1>9 DEF Next

\* What phase 1 has embedded stays so until it is written.
LEMMA EmbeddedStep ==
    ASSUME Shapes, Embedded, [Next]_vars
    PROVE  Embedded'
<1>. SUFFICES ASSUME bf'.at = "writes"
              PROVE  /\ DOMAIN bf'.made = DOMAIN bf'.rows
                     /\ \A i \in DOMAIN bf'.rows :
                          bf'.made[i] \subseteq Needs(i, bf'.rows[i])
  BY DEF Embedded, Needs, Sides
<1>1. CASE Embed
  BY <1>1, EmbedShapes DEF Needs, Sides
<1>2. CASE WriteRow
  <2>1. PICK i \in bf.todo, n \in Nat : LeavesRow(i, n)
    BY <1>2, WriteFailed DEF Shapes
  <2>2. bf'.made = bf.made /\ bf'.rows = bf.rows /\ bf.at = "writes"
    BY <1>2, <2>1, WriteShapes DEF Shapes, WriteRow
  <2>. QED BY <2>2 DEF Embedded
<1>3. CASE UNCHANGED bf
  BY <1>3 DEF Embedded
<1>. QED BY <1>1, <1>2, <1>3, WritesFrom

Verdicts == {"none", "pending", "processing", "failed", "parked", "done"}

\* The runs and the skills; a run at work is counted, and its memory is filed.
Tables == /\ members \in [Memories -> SUBSET Clusters]
          /\ queue \in [Work -> Nat] /\ orphans \in [Work -> Nat]
          /\ filing \subseteq Memories \ Poor /\ dead \subseteq Memories
          /\ drained \in BOOLEAN
          /\ md \subseteq Clusters /\ touched \subseteq Clusters
          /\ claims \subseteq Clusters /\ idx \subseteq Clusters
          /\ change \in [Clusters -> Verdicts]
          /\ \A m \in filing : queue[File(m)] > 0 /\ members[m] # {}

\* What the runs of a store are.
LEMMA WorkTyped ==
    /\ \A m \in Memories : File(m) \in Work
    /\ \A c \in Cases : Learn(c) \in Work
    /\ \A m, n : File(m) = File(n) => m = n
    /\ \A m, c : File(m) # Learn(c)
    /\ NoWork \in [Work -> Nat] /\ \A w \in Work : NoWork[w] = 0
BY DEF File, Learn, Work, NoWork

\* Some of the runs of a store are so many runs again.
LEMMA SomeTyped ==
    ASSUME NEW counts \in [Work -> Nat], NEW some \in SomeOf(counts)
    PROVE  /\ some \in [Work -> Nat]
           /\ \A w \in Work : some[w] <= counts[w]
<1>1. UNION {0 .. counts[w] : w \in Work} \subseteq Nat
  OBVIOUS
<1>. QED BY <1>1 DEF SomeOf

\* An engine that stops leaves rows, and nothing else.
LEMMA AbandonedTables ==
    ASSUME Tables, Abandoned
    PROVE  /\ queue' = NoWork /\ filing' = {}
           /\ orphans' \in [Work -> Nat]
<1>1. PICK running \in SomeOf(queue) :
        orphans' = [w \in Work |-> orphans[w] + running[w]]
  BY DEF Abandoned
<1>2. running \in [Work -> Nat] /\ orphans \in [Work -> Nat]
  BY SomeTyped DEF Tables
<1>. QED BY <1>1, <1>2 DEF Abandoned

\* The rows of the cascade queue after a sweep or a verdict.
LEMMA SweptTables ==
    ASSUME Tables
    PROVE  /\ Swept => change' \in [Clusters -> Verdicts] /\ touched' = {}
           /\ \A k \in Clusters, from \in Verdicts :
                Handled(k, from) => /\ change' \in [Clusters -> Verdicts]
                                    /\ idx' \subseteq Clusters
<1>1. Swept => change' \in [Clusters -> Verdicts] /\ touched' = {}
  BY DEF Swept, Tables, Verdicts
<1>2. ASSUME NEW k \in Clusters, NEW from \in Verdicts, Handled(k, from)
      PROVE  change' \in [Clusters -> Verdicts] /\ idx' \subseteq Clusters
  <2>1. PICK to \in Verdicts :
          change' = [change EXCEPT ![k] = IF @ = from THEN to ELSE @]
    BY <1>2 DEF Handled, Marked, Verdicts
  <2>2. idx' \subseteq Clusters
    BY <1>2 DEF Handled, Tables
  <2>. QED BY <2>1, <2>2 DEF Tables
<1>. QED BY <1>1, <1>2

\* A run of a memory ends, and a run of a case may come of it.
Ended(m, more) == [w \in Work |-> CASE w = File(m) -> queue[w] - 1
                                    [] w \in more  -> queue[w] + 1
                                    [] OTHER       -> queue[w]]

\* The other runs are as many as before, or more.
LEMMA EndedTyped ==
    ASSUME Tables, NEW m \in Memories, queue[File(m)] > 0, NEW more
    PROVE  /\ Ended(m, more) \in [Work -> Nat]
           /\ \A n \in Memories \ {m} :
                Ended(m, more)[File(n)] >= queue[File(n)]
           /\ [queue EXCEPT ![File(m)] = @ - 1] = Ended(m, {})
<1>1. queue \in [Work -> Nat] /\ File(m) \in Work
  BY WorkTyped DEF Tables
<1>2. ASSUME NEW w \in Work
      PROVE  /\ Ended(m, more)[w] \in Nat
             /\ w # File(m) => Ended(m, more)[w] >= queue[w]
             /\ [queue EXCEPT ![File(m)] = @ - 1][w] = Ended(m, {})[w]
  <2>1. queue[w] \in Nat
    BY <1>1
  <2>2. CASE w = File(m)
    BY <1>1, <2>1, <2>2 DEF Ended
  <2>3. CASE w # File(m) /\ w \in more
    BY <1>1, <2>1, <2>3 DEF Ended
  <2>4. CASE w # File(m) /\ w \notin more
    BY <1>1, <2>1, <2>4 DEF Ended
  <2>. QED BY <2>2, <2>3, <2>4
<1>3. \A n \in Memories \ {m} : File(n) \in Work /\ File(n) # File(m)
  BY WorkTyped
<1>4. /\ Ended(m, more) = [w \in Work |-> Ended(m, more)[w]]
      /\ Ended(m, {}) = [w \in Work |-> Ended(m, {})[w]]
  BY DEF Ended
<1>. QED BY <1>1, <1>2, <1>3, <1>4

\* What is left at work when a run has ended.
LEMMA EndedTables ==
    ASSUME Tables, NEW m \in Memories, queue[File(m)] > 0, NEW more,
           queue' = Ended(m, more), filing' = filing \ {m},
           UNCHANGED <<members, orphans, drained, md, touched, change, claims,
                       idx>>,
           dead' \subseteq Memories
    PROVE  Tables'
<1>1. /\ queue' \in [Work -> Nat]
      /\ \A n \in Memories \ {m} : queue'[File(n)] >= queue[File(n)]
  BY EndedTyped
<1>2. ASSUME NEW n \in filing' PROVE queue'[File(n)] > 0
  <2>1. n \in filing /\ n \in Memories \ {m} /\ queue[File(n)] > 0
    BY DEF Tables
  <2>2. File(n) \in Work /\ queue[File(n)] \in Nat /\ queue'[File(n)] \in Nat
    BY <1>1, <2>1, WorkTyped DEF Tables
  <2>. QED BY <1>1, <2>1, <2>2
<1>. QED BY <1>1, <1>2 DEF Tables

\* An emission keeps the tables, and no run is taken away.
LEMMA EmittedTables ==
    ASSUME Tables, Shapes, EmitMemory \/ EmitCase
    PROVE  /\ Tables'
           /\ \A w \in Work : queue'[w] >= queue[w]
<1>. USE WorkTyped
<1>1. PICK w \in Work : queue' \in {queue, [queue EXCEPT ![w] = @ + 1]}
  <2>1. CASE EmitMemory
    <3>1. PICK m \in bf.todo :
            queue' = IF Filed(m) THEN queue
                     ELSE [queue EXCEPT ![File(m)] = @ + 1]
      BY <2>1 DEF EmitMemory
    <3>2. m \in Memories
      BY <2>1, <3>1 DEF EmitMemory, Shapes, Stages
    <3>. QED BY <3>1, <3>2
  <2>2. CASE EmitCase
    <3>1. PICK c \in bf.todo : queue' = [queue EXCEPT ![Learn(c)] = @ + 1]
      BY <2>2 DEF EmitCase
    <3>2. c \in Cases
      BY <2>2, <3>1 DEF EmitCase, Shapes, Stages
    <3>. QED BY <3>1, <3>2
  <2>. QED BY <2>1, <2>2
<1>2. queue \in [Work -> Nat]
  BY DEF Tables
<1>3. queue' \in [Work -> Nat] /\ \A v \in Work : queue'[v] >= queue[v]
  BY <1>1, <1>2
<1>4. UNCHANGED <<members, orphans, filing, dead, drained, md, touched,
                  change, claims, idx>>
  BY DEF EmitMemory, EmitCase, cascade
<1>5. \A n \in filing : queue'[File(n)] > 0
  <2>. SUFFICES ASSUME NEW n \in filing PROVE queue'[File(n)] > 0
    OBVIOUS
  <2>1. File(n) \in Work /\ queue[File(n)] > 0
    BY DEF Tables
  <2>. QED BY <1>2, <1>3, <2>1
<1>. QED BY <1>3, <1>4, <1>5 DEF Tables

\* Whoever runs an engine has the lock, and without one nothing runs.
Alone == /\ ~(server /\ HoldsLock)
         /\ ~server /\ ~HoldsLock => queue = NoWork

\* Every step keeps the tables.
LEMMA TablesStep ==
    ASSUME Tables, Shapes, Alone, [Next]_vars
    PROVE  Tables'
<1>. USE BackfillAssumption, WorkTyped
<1>1. CASE UNCHANGED <<members, ome, md, cascade>>
  BY <1>1 DEF ome, cascade, Tables
<1>2. CASE Begin
  BY <1>2 DEF Begin, cascade, Tables
<1>3. CASE Interrupt
  <2>1. UNCHANGED <<members, dead, drained, md, touched, change, idx>>
    BY <1>3 DEF Interrupt
  <2>2. claims' = {}
    BY <1>3 DEF Interrupt
  <2>3. CASE Abandoned
    BY <2>1, <2>2, <2>3, AbandonedTables DEF Tables
  <2>4. CASE UNCHANGED <<queue, orphans, filing>>
    BY <2>1, <2>2, <2>4 DEF Tables
  <2>. QED BY <1>3, <2>3, <2>4 DEF Interrupt
<1>4. CASE Waited
  <2>1. drained' \in BOOLEAN
    BY <1>4 DEF Waited, Tables
  <2>2. UNCHANGED <<members, dead, md, touched, change, claims, idx>>
    BY <1>4 DEF Waited, cascade
  <2>3. Abandoned
    BY <1>4 DEF Waited
  <2>. QED BY <2>1, <2>2, <2>3, AbandonedTables DEF Tables
<1>5. CASE ServerStop
  <2>1. UNCHANGED <<members, dead, drained, md, touched, change, claims, idx>>
    BY <1>5 DEF ServerStop, cascade
  <2>2. Abandoned
    BY <1>5 DEF ServerStop
  <2>. QED BY <2>1, <2>2, AbandonedTables DEF Tables
<1>6. CASE EmitMemory \/ EmitCase
  BY <1>6, EmittedTables
<1>8. CASE SyncScan
  <2>1. UNCHANGED <<members, queue, orphans, filing, dead, drained, md, claims,
                    idx>>
    BY <1>8 DEF SyncScan, ome
  <2>2. change' \in [Clusters -> Verdicts] /\ touched' = {}
    BY <1>8, SweptTables DEF SyncScan
  <2>. QED BY <2>1, <2>2 DEF Tables
<1>9. CASE SyncClaims
  <2>1. PICK k \in Clusters : /\ change' = [change EXCEPT ![k] = "processing"]
                              /\ claims' = claims \cup {k}
    BY <1>9 DEF SyncClaims
  <2>2. UNCHANGED <<members, queue, orphans, filing, dead, drained, md, touched,
                    idx>>
    BY <1>9 DEF SyncClaims, ome
  <2>. QED BY <2>1, <2>2 DEF Tables, Verdicts
<1>10. CASE SyncHandles
  <2>1. PICK k \in claims : Handled(k, "processing") /\ claims' = claims \ {k}
    BY <1>10 DEF SyncHandles
  <2>2. UNCHANGED <<members, queue, orphans, filing, dead, drained, md,
                    touched>>
    BY <1>10 DEF SyncHandles, ome
  <2>3. change' \in [Clusters -> Verdicts] /\ idx' \subseteq Clusters
    BY <2>1, SweptTables DEF Tables, Verdicts
  <2>. QED BY <2>1, <2>2, <2>3 DEF Tables
<1>11. CASE FileUpsert
  <2>1. PICK m \in Memories \ (Poor \cup filing) :
          /\ queue[File(m)] > 0
          /\ filing' = filing \cup {m}
          /\ \E k \in TargetsOf(m) :
               members' = [members EXCEPT ![m] = @ \cup {k}]
    BY <1>11 DEF FileUpsert
  <2>2. PICK k \in Clusters : members' = [members EXCEPT ![m] = @ \cup {k}]
    BY <2>1 DEF TargetsOf, Tables
  <2>3. UNCHANGED <<queue, orphans, dead, drained, md, touched, change, claims,
                    idx>>
    BY <1>11 DEF FileUpsert, cascade
  <2>. QED BY <2>1, <2>2, <2>3 DEF Tables
<1>12. CASE FileEnds
  <2>1. PICK m \in filing : /\ filing' = filing \ {m}
                            /\ queue' = Ended(m, Heard(m))
    BY <1>12 DEF FileEnds, Ended
  <2>2. queue[File(m)] > 0 /\ m \in Memories
    BY <2>1 DEF Tables
  <2>3. UNCHANGED <<members, orphans, dead, drained, md, touched, change,
                    claims, idx>>
    BY <1>12 DEF FileEnds, cascade
  <2>. QED BY <2>1, <2>2, <2>3, EndedTables DEF Tables
<1>13. CASE FileSkips
  <2>1. PICK m \in Poor : /\ queue[File(m)] > 0
                          /\ queue' = [queue EXCEPT ![File(m)] = @ - 1]
    BY <1>13 DEF FileSkips
  <2>2. UNCHANGED <<members, orphans, filing, dead, drained, md, touched,
                    change, claims, idx>>
    BY <1>13 DEF FileSkips, cascade
  <2>3. m \in Memories /\ filing' = filing \ {m}
    BY <2>1, <2>2 DEF Tables
  <2>4. queue' = Ended(m, {})
    BY <2>1, <2>3, EndedTyped
  <2>. QED BY <2>1, <2>2, <2>3, <2>4, EndedTables DEF Tables
<1>14. CASE FileRaises
  <2>1. PICK m \in Memories :
          /\ queue[File(m)] > 0
          /\ filing' = filing \ {m}
          /\ \/ UNCHANGED <<queue, dead>>
             \/ /\ queue' = [queue EXCEPT ![File(m)] = @ - 1]
                /\ dead' = dead \cup {m}
    BY <1>14 DEF FileRaises
  <2>2. UNCHANGED <<members, orphans, drained, md, touched, change, claims,
                    idx>>
    BY <1>14 DEF FileRaises, cascade
  <2>3. CASE UNCHANGED <<queue, dead>>
    BY <2>1, <2>2, <2>3 DEF Tables
  <2>4. CASE /\ queue' = [queue EXCEPT ![File(m)] = @ - 1]
             /\ dead' = dead \cup {m}
    <3>1. queue' = Ended(m, {})
      BY <2>1, <2>4, EndedTyped
    <3>. QED BY <2>1, <2>2, <2>4, <3>1, EndedTables DEF Tables
  <2>. QED BY <2>1, <2>3, <2>4
<1>15. CASE PersistSkill
  <2>1. PICK c \in Cases : \E k \in members[c] :
          md' = md \cup {k} /\ touched' = touched \cup {k}
    BY <1>15 DEF PersistSkill
  <2>2. PICK k \in Clusters : md' = md \cup {k} /\ touched' = touched \cup {k}
    BY <2>1, BackfillAssumption DEF Tables
  <2>3. UNCHANGED <<members, queue, orphans, filing, dead, drained, change,
                    claims, idx>>
    BY <1>15 DEF PersistSkill, ome
  <2>. QED BY <2>2, <2>3 DEF Tables
<1>16. CASE Extracted
  <2>1. PICK c \in Cases : /\ queue[Learn(c)] > 0
                           /\ queue' = [queue EXCEPT ![Learn(c)] = @ - 1]
    BY <1>16 DEF Extracted
  <2>2. UNCHANGED <<members, orphans, filing, dead, drained, md, touched,
                    change, claims, idx>>
    BY <1>16 DEF Extracted, cascade
  <2>3. queue \in [Work -> Nat] /\ Learn(c) \in Work
    BY DEF Tables
  <2>4. /\ queue' \in [Work -> Nat]
        /\ \A m \in Memories : queue'[File(m)] = queue[File(m)]
    BY <2>1, <2>3
  <2>5. \A m \in filing : queue'[File(m)] > 0
    BY <2>4 DEF Tables
  <2>. QED BY <2>2, <2>4, <2>5 DEF Tables
<1>17. CASE ServerStart
  <2>1. PICK old \in SomeOf(orphans) :
          /\ queue' = old
          /\ orphans' = [w \in Work |-> orphans[w] - old[w]]
    BY <1>17 DEF ServerStart
  <2>2. /\ old \in [Work -> Nat] /\ orphans \in [Work -> Nat]
        /\ \A w \in Work : old[w] <= orphans[w]
    BY <2>1, SomeTyped DEF Tables
  <2>3. queue' \in [Work -> Nat] /\ orphans' \in [Work -> Nat]
    BY <2>1, <2>2
  <2>4. change' \in [Clusters -> Verdicts]
    BY <1>17 DEF ServerStart, Tables, Verdicts
  <2>5. UNCHANGED <<members, filing, dead, drained, md, touched, claims, idx>>
    BY <1>17 DEF ServerStart
  <2>6. filing = {}
    <3>1. queue = NoWork
      BY <1>17 DEF ServerStart, LockIsFree, Alone
    <3>2. \A m \in filing : NoWork[File(m)] > 0 /\ File(m) \in Work
      BY <3>1 DEF Tables
    <3>. QED BY <3>2
  <2>. QED BY <2>3, <2>4, <2>5, <2>6 DEF Tables
<1>18. CASE ServerIndexes
  <2>1. UNCHANGED <<members, queue, orphans, filing, dead, drained, md, claims>>
    BY <1>18 DEF ServerIndexes, ome
  <2>2. CASE UNCHANGED <<change, touched, idx>>
    BY <2>1, <2>2 DEF Tables
  <2>3. CASE Swept /\ UNCHANGED idx
    <3>1. change' \in [Clusters -> Verdicts] /\ touched' = {}
      BY <2>3, SweptTables
    <3>. QED BY <2>1, <2>3, <3>1 DEF Tables
  <2>4. ASSUME NEW k \in Clusters, Handled(k, "pending"), UNCHANGED touched
        PROVE  Tables'
    <3>1. change' \in [Clusters -> Verdicts] /\ idx' \subseteq Clusters
      BY <2>4, SweptTables DEF Verdicts
    <3>. QED BY <2>1, <2>4, <3>1 DEF Tables
  <2>. QED BY <1>18, <2>2, <2>3, <2>4 DEF ServerIndexes, IndexRow
<1>. QED
  BY <1>1, <1>2, <1>3, <1>4, <1>5, <1>6, <1>8, <1>9, <1>10, <1>11, <1>12,
     <1>13, <1>14, <1>15, <1>16, <1>17, <1>18
  DEF Next, vars, StoreOnly, Probe, Decline, ScanVectors, Embed, WriteRow,
      VectorsDone, StartEngine, ScanMemories, Emitted, ScanCases, SyncEnds

-----------------------------------------------------------------------------
(* The lock, and what runs behind it.                                      *)

\* The command takes the lock where no server has it, and gives it back where
\* it stops its engine or is interrupted.
LEMMA LockSteps ==
    ASSUME Shapes, [Next]_vars, ~Interrupt, ~Waited
    PROVE  /\ HoldsLock => HoldsLock' /\ bf'.phase = bf.phase
           /\ HoldsLock' => HoldsLock \/ (StartEngine /\ ~server)
<1>0. bf \in Command /\ Stages /\ bf.failed \in Nat
  BY CommandFields DEF Shapes
<1>1. CASE UNCHANGED bf
  BY <1>1 DEF HoldsLock
<1>2. \A code \in {1, 3, 130} : Exits(code) => ~HoldsLock'
  BY <1>0, ExitsShapes DEF HoldsLock
<1>3. \A failed \in Nat : NextPhase(failed) => ~HoldsLock'
  <2>. SUFFICES ASSUME NEW failed \in Nat, NextPhase(failed) PROVE ~HoldsLock'
    OBVIOUS
  <2>1. bf'.at \in {"off", "probes"}
    BY <1>0, NextPhaseShapes
  <2>. QED BY <2>1 DEF HoldsLock
<1>4. \A at \in Stops : Goes(at) => bf'.at = at /\ bf'.phase = bf.phase
  BY <1>0, GoesShapes
<1>5. CASE Begin
  <2>1. bf.at = "off" /\ bf'.at = "probes"
    BY <1>5, BeginShapes DEF Begin
  <2>. QED BY <2>1 DEF HoldsLock
<1>6. CASE Probe
  <2>1. bf.at = "probes"
    BY <1>6 DEF Probe
  <2>2. CASE Goes(FirstOf(bf.phase))
    <3>1. FirstOf(bf.phase) \in Stops \ {"emits", "waits"}
      BY DEF FirstOf, Stops
    <3>. QED BY <1>4, <2>1, <2>2, <3>1 DEF HoldsLock
  <2>. QED BY <1>2, <1>6, <2>1, <2>2 DEF Probe, HoldsLock
<1>7. CASE Decline
  BY <1>2, <1>7 DEF Decline, HoldsLock
<1>8. CASE ScanVectors
  <2>1. bf.at = "scans"
    BY <1>8 DEF ScanVectors
  <2>2. CASE NextPhase(0)
    BY <1>3, <2>1, <2>2 DEF HoldsLock
  <2>3. CASE ~NextPhase(0)
    <3>1. bf'.at = "asks"
      BY <1>8, <2>3, ScanVectorsShapes
    <3>. QED BY <2>1, <3>1 DEF HoldsLock
  <2>. QED BY <2>2, <2>3
<1>9. CASE Embed
  <2>1. bf.at = "asks" /\ bf'.at = "writes"
    BY <1>9, EmbedShapes
  <2>. QED BY <2>1 DEF HoldsLock
<1>10. CASE WriteRow
  <2>1. PICK i \in bf.todo, n \in Nat : LeavesRow(i, n)
    BY <1>0, <1>10, WriteFailed
  <2>2. bf.at = "writes" /\ bf'.at = "writes"
    BY <1>0, <1>10, <2>1, WriteShapes DEF WriteRow
  <2>. QED BY <2>2 DEF HoldsLock
<1>11. CASE VectorsDone
  BY <1>0, <1>3, <1>11 DEF VectorsDone, HoldsLock
<1>12. CASE StartEngine
  <2>1. bf.at = "asks"
    BY <1>12 DEF StartEngine
  <2>. QED BY <1>2, <1>12, <2>1 DEF StartEngine, HoldsLock
<1>13. CASE ScanMemories
  <2>1. bf.at = "scans" /\ bf'.at = "asks"
    BY <1>0, <1>13 DEF ScanMemories, Command
  <2>. QED BY <2>1 DEF HoldsLock
<1>14. CASE EmitMemory \/ EmitCase
  <2>1. PICK n \in bf.todo : bf' = [bf EXCEPT !.todo = @ \ {n}]
    BY <1>14 DEF EmitMemory, EmitCase
  <2>2. bf'.at = bf.at /\ bf'.phase = bf.phase
    BY <1>0, <2>1 DEF Command
  <2>. QED BY <2>2 DEF HoldsLock
<1>15. CASE Emitted
  <2>1. bf.at = "emits" /\ bf'.at = "waits" /\ bf'.phase = bf.phase
    BY <1>4, <1>15 DEF Emitted, Stops
  <2>. QED BY <2>1 DEF HoldsLock
<1>16. CASE SyncScan
  <2>1. bf.at \in {"syncs first", "syncs last"}
    BY <1>16 DEF SyncScan
  <2>2. bf'.at \in {"drains first", "drains last"}
    BY <1>4, <1>16 DEF SyncScan, Stops
  <2>. QED BY <2>1, <2>2 DEF HoldsLock
<1>17. CASE SyncEnds
  <2>1. ~HoldsLock
    BY <1>17 DEF SyncEnds, Drains, HoldsLock
  <2>2. CASE Goes("scans")
    BY <1>4, <2>1, <2>2 DEF Stops, HoldsLock
  <2>3. CASE NextPhase(bf.failed)
    BY <1>0, <1>3, <2>1, <2>3
  <2>. QED BY <1>17, <2>2, <2>3 DEF SyncEnds
<1>18. CASE ScanCases
  <2>1. bf.at = "scans"
    BY <1>18 DEF ScanCases
  <2>2. CASE NextPhase(bf.failed)
    BY <1>0, <1>3, <2>1, <2>2 DEF HoldsLock
  <2>3. CASE ~NextPhase(bf.failed)
    <3>1. bf'.at = "asks"
      BY ZenonT(60), <1>0, <1>18, <2>3 DEF ScanCases, Command
    <3>. QED BY <2>1, <3>1 DEF HoldsLock
  <2>. QED BY <2>2, <2>3
<1>. QED
  BY <1>1, <1>5, <1>6, <1>7, <1>8, <1>9, <1>10, <1>11, <1>12, <1>13, <1>14,
     <1>15, <1>16, <1>17, <1>18
  DEF Next, vars, SyncClaims, SyncHandles, FileUpsert, FileEnds, FileSkips,
      FileRaises, PersistSkill, Extracted, ServerStart, ServerStop,
      ServerIndexes

\* The steps that touch the queue of runs.
Runs == \/ EmitMemory \/ EmitCase \/ Interrupt \/ Waited \/ FileEnds
        \/ FileSkips \/ FileRaises \/ Extracted \/ ServerStart \/ ServerStop

\* No other step does, and no other starts or stops a server.
LEMMA RunsOnly ==
    ASSUME [Next]_vars, ~Runs
    PROVE  queue' = queue /\ server' = server
<1>1. CASE UNCHANGED vars
  BY <1>1 DEF vars, ome
<1>2. CASE \/ Probe \/ Decline \/ ScanVectors \/ Embed \/ VectorsDone
           \/ StartEngine \/ ScanMemories \/ Emitted \/ ScanCases \/ SyncEnds
  BY <1>2 DEF Probe, Decline, ScanVectors, Embed, VectorsDone, StartEngine,
              ScanMemories, Emitted, ScanCases, SyncEnds, StoreOnly, ome
<1>3. CASE Begin \/ WriteRow \/ SyncScan \/ SyncClaims \/ SyncHandles
  BY <1>3 DEF Begin, WriteRow, SyncScan, SyncClaims, SyncHandles, ome
<1>4. CASE FileUpsert \/ PersistSkill \/ ServerIndexes
  BY <1>4 DEF FileUpsert, PersistSkill, ServerIndexes, ome
<1>. QED BY <1>1, <1>2, <1>3, <1>4 DEF Next, Runs

\* A run ends, is tried again or is added only where an engine is up.
LEMMA RunsNeedAnEngine ==
    ASSUME Tables, Alone,
           \/ EmitMemory \/ EmitCase \/ FileUpsert \/ FileEnds \/ FileSkips
           \/ FileRaises \/ PersistSkill \/ Extracted
    PROVE  /\ server \/ HoldsLock
           /\ server' = server
<1>. USE WorkTyped, BackfillAssumption
<1>1. CASE EmitMemory \/ EmitCase
  BY <1>1 DEF EmitMemory, EmitCase, HoldsLock
<1>2. CASE FileEnds
  <2>1. PICK m \in filing : queue[File(m)] > 0 /\ m \in Memories
    BY <1>2 DEF FileEnds, Tables
  <2>. QED BY <1>2, <2>1 DEF FileEnds, Alone
<1>3. CASE FileUpsert \/ FileSkips \/ FileRaises
  <2>1. PICK m \in Memories : queue[File(m)] > 0
    BY <1>3 DEF FileUpsert, FileSkips, FileRaises
  <2>. QED BY <1>3, <2>1 DEF FileUpsert, FileSkips, FileRaises, Alone
<1>4. CASE PersistSkill \/ Extracted
  <2>1. PICK c \in Cases : queue[Learn(c)] > 0
    BY <1>4 DEF PersistSkill, Extracted
  <2>. QED BY <1>4, <2>1 DEF PersistSkill, Extracted, Alone
<1>. QED BY <1>1, <1>2, <1>3, <1>4

\* Every step keeps it so that whoever runs an engine has the lock.
LEMMA AloneStep ==
    ASSUME Tables, Shapes, Alone, [Next]_vars
    PROVE  Alone'
<1>1. CASE Interrupt
  <2>1. server' = server /\ Exits(130)
    BY <1>1 DEF Interrupt
  <2>2. ~HoldsLock'
    BY <2>1, ExitsShapes DEF Shapes, HoldsLock
  <2>3. CASE HoldsLock
    BY <1>1, <2>1, <2>2, <2>3 DEF Interrupt, Abandoned, Alone
  <2>4. CASE ~HoldsLock
    BY <1>1, <2>1, <2>2, <2>4 DEF Interrupt, Alone
  <2>. QED BY <2>3, <2>4
<1>2. CASE Waited
  <2>1. server' = server /\ queue' = NoWork /\ HoldsLock
    BY <1>2 DEF Waited, Abandoned, HoldsLock
  <2>. QED BY <2>1 DEF Alone
<1>3. CASE ServerStop
  <2>1. ~server' /\ queue' = NoWork
    BY <1>3 DEF ServerStop, Abandoned
  <2>. QED BY <2>1 DEF Alone
<1>4. CASE ServerStart
  <2>1. server' /\ ~HoldsLock /\ UNCHANGED bf
    BY <1>4 DEF ServerStart, LockIsFree
  <2>. QED BY <2>1 DEF Alone, HoldsLock
<1>5. CASE \/ EmitMemory \/ EmitCase \/ FileEnds \/ FileSkips \/ FileRaises
           \/ Extracted
  <2>1. (server \/ HoldsLock) /\ server' = server
    BY <1>5, RunsNeedAnEngine
  <2>2. HoldsLock' <=> HoldsLock
    <3>1. CASE EmitMemory \/ EmitCase
      <4>1. PICK n \in bf.todo : bf' = [bf EXCEPT !.todo = @ \ {n}]
        BY <3>1 DEF EmitMemory, EmitCase
      <4>2. bf'.at = bf.at
        BY <4>1 DEF Shapes, Command
      <4>. QED BY <4>2 DEF HoldsLock
    <3>2. CASE FileEnds \/ FileSkips \/ FileRaises \/ Extracted
      BY <3>2 DEF FileEnds, FileSkips, FileRaises, Extracted, HoldsLock
    <3>. QED BY <1>5, <3>1, <3>2
  <2>. QED BY <2>1, <2>2 DEF Alone
<1>6. CASE ~Runs
  <2>1. queue' = queue /\ server' = server
    BY <1>6, RunsOnly
  <2>2. ~Interrupt /\ ~Waited
    BY <1>6 DEF Runs
  <2>3. HoldsLock => HoldsLock'
    BY <2>2, LockSteps
  <2>4. HoldsLock' => HoldsLock \/ ~server
    BY <2>2, LockSteps
  <2>. QED BY <2>1, <2>3, <2>4 DEF Alone
<1>. QED BY <1>1, <1>2, <1>3, <1>4, <1>5, <1>6 DEF Runs

-----------------------------------------------------------------------------
(* Events.                                                                 *)

\* Where phase 2 has read the memories, and which of them it has not come to.
Seeing == bf.at \in {"asks", "emits"} /\ bf.phase = 2

\* A memory that has what it can get.
Good(m) == members[m] # {} \/ m \in Poor \cup dead

\* It has, or a run for it is to end in the engine of phase 2.
Due(m) == Good(m) \/ (queue[File(m)] > 0 /\ HoldsLock /\ bf.phase = 2)

\* What phase 2 has seen is due, or it will come to it; unless the command has
\* ended otherwise, or has given up waiting.
Events == drained /\ ~(bf.at = "off" /\ bf.exit \notin {0, 4}) =>
            \A m \in bf.seen : Due(m) \/ (Seeing /\ m \in bf.todo)

\* What a memory has got it keeps, until the next command begins.
LEMMA GoodStep ==
    ASSUME Tables, [Next]_vars, ~Begin, NEW m \in Memories, Good(m)
    PROVE  Good(m)'
<1>1. CASE FileUpsert
  <2>1. PICK n \in Memories :
          \E k \in TargetsOf(n) : members' = [members EXCEPT ![n] = @ \cup {k}]
    BY <1>1 DEF FileUpsert
  <2>2. members[m] # {} => members'[m] # {}
    BY <2>1 DEF Tables
  <2>. QED BY <1>1, <2>2 DEF FileUpsert, Good
<1>2. CASE FileRaises
  <2>1. dead \subseteq dead' /\ UNCHANGED members
    BY <1>2 DEF FileRaises
  <2>. QED BY <2>1 DEF Good
<1>3. CASE UNCHANGED vars
  BY <1>3 DEF vars, ome, Good
<1>4. CASE \/ Probe \/ Decline \/ ScanVectors \/ Embed \/ VectorsDone
           \/ StartEngine \/ ScanMemories \/ Emitted \/ ScanCases \/ SyncEnds
  <2>1. UNCHANGED <<members, dead>>
    BY <1>4 DEF Probe, Decline, ScanVectors, Embed, VectorsDone, StartEngine,
              ScanMemories, Emitted, ScanCases, SyncEnds, StoreOnly, ome
  <2>. QED BY <2>1 DEF Good
<1>5. CASE \/ WriteRow \/ SyncScan \/ SyncClaims \/ SyncHandles \/ PersistSkill
           \/ ServerIndexes
  <2>1. UNCHANGED <<members, dead>>
    BY <1>5 DEF WriteRow, SyncScan, SyncClaims, SyncHandles, PersistSkill,
                ServerIndexes, ome
  <2>. QED BY <2>1 DEF Good
<1>6. CASE \/ EmitMemory \/ EmitCase \/ Interrupt \/ Waited \/ FileEnds
           \/ FileSkips \/ Extracted \/ ServerStart \/ ServerStop
  <2>1. UNCHANGED <<members, dead>>
    BY <1>6 DEF EmitMemory, EmitCase, Interrupt, Waited, FileEnds, FileSkips,
                Extracted, ServerStart, ServerStop
  <2>. QED BY <2>1 DEF Good
<1>. QED BY <1>1, <1>2, <1>3, <1>4, <1>5, <1>6 DEF Next

\* A run of the command's engine goes on, or has got its memory what it can.
LEMMA QueueStep ==
    ASSUME Tables, Shapes, Alone, [Next]_vars, ~Interrupt, ~Waited, HoldsLock,
           NEW m \in Memories, queue[File(m)] > 0
    PROVE  queue'[File(m)] > 0 \/ Good(m)'
<1>. USE WorkTyped
<1>0. queue \in [Work -> Nat] /\ File(m) \in Work /\ queue[File(m)] \in Nat
  BY DEF Tables
<1>1. ~server
  BY DEF Alone
<1>2. CASE EmitMemory \/ EmitCase
  <2>1. queue'[File(m)] >= queue[File(m)] /\ queue'[File(m)] \in Nat
    BY <1>0, <1>2, EmittedTables DEF Tables
  <2>. QED BY <1>0, <2>1
<1>3. CASE FileEnds
  <2>1. PICK n \in filing : queue' = Ended(n, Heard(n))
    BY <1>3 DEF FileEnds, Ended
  <2>2. n \in Memories /\ queue[File(n)] > 0 /\ members[n] # {}
    BY <2>1 DEF Tables
  <2>3. CASE n = m
    BY <1>3, <2>2, <2>3 DEF FileEnds, Good
  <2>4. CASE n # m
    <3>1. queue'[File(m)] >= queue[File(m)] /\ queue' \in [Work -> Nat]
      BY <2>1, <2>2, <2>4, EndedTyped
    <3>. QED BY <1>0, <3>1
  <2>. QED BY <2>3, <2>4
<1>4. CASE FileSkips
  <2>1. PICK n \in Poor : /\ queue[File(n)] > 0
                          /\ queue' = [queue EXCEPT ![File(n)] = @ - 1]
    BY <1>4 DEF FileSkips
  <2>2. CASE n = m
    BY <2>1, <2>2 DEF Good
  <2>3. CASE n # m
    <3>1. File(n) # File(m)
      BY <2>3
    <3>. QED BY <1>0, <2>1, <3>1
  <2>. QED BY <2>2, <2>3
<1>5. CASE FileRaises
  <2>1. PICK n \in Memories :
          \/ UNCHANGED <<queue, dead>>
          \/ /\ queue' = [queue EXCEPT ![File(n)] = @ - 1]
             /\ dead' = dead \cup {n}
    BY <1>5 DEF FileRaises
  <2>2. CASE UNCHANGED <<queue, dead>>
    BY <2>2
  <2>3. CASE n = m /\ dead' = dead \cup {n}
    BY <2>3 DEF Good
  <2>4. CASE n # m /\ queue' = [queue EXCEPT ![File(n)] = @ - 1]
    <3>1. File(n) # File(m)
      BY <2>4
    <3>. QED BY <1>0, <2>4, <3>1
  <2>. QED BY <2>1, <2>2, <2>3, <2>4
<1>6. CASE Extracted
  <2>1. PICK c \in Cases : queue' = [queue EXCEPT ![Learn(c)] = @ - 1]
    BY <1>6 DEF Extracted
  <2>2. Learn(c) # File(m)
    OBVIOUS
  <2>. QED BY <1>0, <2>1, <2>2
<1>7. ~ServerStart /\ ~ServerStop
  BY <1>1 DEF ServerStart, LockIsFree, ServerStop
<1>8. CASE ~Runs
  BY <1>8, RunsOnly
<1>. QED BY <1>2, <1>3, <1>4, <1>5, <1>6, <1>7, <1>8 DEF Runs

\* Whether phase 2 has waited for all its runs changes where it waits, and where
\* a command begins.
LEMMA DrainedKept ==
    ASSUME [Next]_vars, ~Begin, ~Waited
    PROVE  drained' = drained
<1>1. CASE UNCHANGED vars
  BY <1>1 DEF vars, ome
<1>2. CASE \/ Probe \/ Decline \/ ScanVectors \/ Embed \/ VectorsDone
           \/ StartEngine \/ ScanMemories \/ Emitted \/ ScanCases \/ SyncEnds
  BY <1>2 DEF Probe, Decline, ScanVectors, Embed, VectorsDone, StartEngine,
              ScanMemories, Emitted, ScanCases, SyncEnds, StoreOnly, ome
<1>3. CASE \/ WriteRow \/ SyncScan \/ SyncClaims \/ SyncHandles \/ PersistSkill
           \/ ServerIndexes
  BY <1>3 DEF WriteRow, SyncScan, SyncClaims, SyncHandles, PersistSkill,
              ServerIndexes, ome
<1>4. CASE \/ EmitMemory \/ EmitCase \/ Interrupt \/ FileUpsert \/ FileEnds
           \/ FileSkips \/ FileRaises \/ Extracted \/ ServerStart \/ ServerStop
  BY <1>4 DEF EmitMemory, EmitCase, Interrupt, FileUpsert, FileEnds, FileSkips,
              FileRaises, Extracted, ServerStart, ServerStop
<1>. QED BY <1>1, <1>2, <1>3, <1>4 DEF Next

\* What a step of the command does to what it has seen: unless it begins or
\* reads the memories, it has seen the same; and it leaves out of its list only
\* where it emits.
LEMMA SeenStep ==
    ASSUME Shapes, [Next]_vars, ~EmitMemory, NEW m \in bf'.seen
    PROVE  \/ Seeing' /\ m \in bf'.todo
           \/ bf'.at = "off" /\ bf'.exit \notin {0, 4}
           \/ m \in bf.seen /\ ~(Seeing /\ m \in bf.todo)
                /\ (bf.at = "off" => bf'.at = "off" /\ bf'.exit = bf.exit)
<1>. USE DEF Seeing
<1>0. bf \in Command /\ Stages /\ bf.failed \in Nat
  BY CommandFields DEF Shapes
<1>1. CASE UNCHANGED bf
  BY <1>1
<1>2. ASSUME NEW code \in {1, 3, 130}, Exits(code)
      PROVE  bf'.at = "off" /\ bf'.exit \notin {0, 4}
  BY <1>0, <1>2, ExitsShapes
<1>3. ASSUME NEW failed \in Nat, NextPhase(failed)
      PROVE  bf'.seen = bf.seen
  BY <1>0, <1>3, NextPhaseShapes
<1>4. ASSUME NEW at \in Stops, Goes(at)
      PROVE  /\ bf'.seen = bf.seen /\ bf'.at = at
             /\ bf'.phase = bf.phase /\ bf'.todo = bf.todo
  BY <1>0, <1>4, GoesShapes
<1>5. CASE Begin
  BY <1>5, BeginShapes
<1>6. CASE Probe
  <2>1. bf.at = "probes"
    BY <1>6 DEF Probe
  <2>2. CASE Goes(FirstOf(bf.phase))
    BY <1>4, <2>1, <2>2 DEF FirstOf, Stops
  <2>. QED BY <1>2, <1>6, <2>1, <2>2 DEF Probe
<1>7. CASE Interrupt \/ Decline
  BY <1>2, <1>7 DEF Interrupt, Decline
<1>8. CASE ScanVectors
  <2>1. bf.at = "scans"
    BY <1>8 DEF ScanVectors
  <2>2. bf'.seen = bf.seen
    BY <1>3, <1>8, ScanVectorsShapes
  <2>. QED BY <2>1, <2>2
<1>9. CASE Embed
  <2>1. bf'.seen = bf.seen /\ bf.at = "asks" /\ bf.phase = 1
    BY <1>9, EmbedShapes
  <2>. QED BY <2>1
<1>10. CASE WriteRow
  <2>1. PICK i \in bf.todo, n \in Nat : LeavesRow(i, n)
    BY <1>0, <1>10, WriteFailed
  <2>2. bf'.seen = bf.seen /\ bf.at = "writes"
    BY <1>0, <1>10, <2>1, WriteShapes DEF WriteRow
  <2>. QED BY <2>2
<1>11. CASE VectorsDone
  BY <1>0, <1>3, <1>11 DEF VectorsDone
<1>12. CASE StartEngine
  <2>1. CASE Goes("emits")
    <3>1. bf'.seen = bf.seen /\ bf'.at = "emits" /\ bf'.phase = bf.phase
          /\ bf'.todo = bf.todo /\ bf.at = "asks"
      BY <1>4, <1>12, <2>1 DEF StartEngine, Stops
    <3>. QED BY <3>1
  <2>. QED BY <1>2, <1>12, <2>1 DEF StartEngine
<1>13. CASE ScanMemories
  <2>1. /\ bf'.at = "asks" /\ bf'.phase = 2
        /\ bf'.todo = Memories /\ bf'.seen = Memories
    BY <1>0, <1>13 DEF ScanMemories, Command
  <2>. QED BY <2>1
<1>14. CASE Emitted
  <2>1. bf.at = "emits" /\ bf.todo = {} /\ bf'.seen = bf.seen
    BY <1>4, <1>14 DEF Emitted, Stops
  <2>. QED BY <2>1
<1>15. CASE Waited
  <2>1. bf.at = "waits" /\ bf'.seen = bf.seen
    BY <1>0, <1>3, <1>4, <1>15 DEF Waited, Stops
  <2>. QED BY <2>1
<1>16. CASE SyncScan
  <2>1. bf.at \in {"syncs first", "syncs last"} /\ bf'.seen = bf.seen
    BY <1>4, <1>16 DEF SyncScan, Stops
  <2>. QED BY <2>1
<1>17. CASE SyncEnds
  <2>1. bf.at \in {"drains first", "drains last"} /\ bf'.seen = bf.seen
    BY <1>0, <1>3, <1>4, <1>17 DEF SyncEnds, Drains, Stops
  <2>. QED BY <2>1
<1>18. CASE ScanCases
  <2>1. bf.at = "scans" /\ bf'.seen = bf.seen
    BY ZenonT(40), <1>0, <1>3, <1>18 DEF ScanCases, Command
  <2>. QED BY <2>1
<1>19. CASE EmitCase
  <2>1. bf.at = "emits" /\ bf.phase = 3 /\ bf'.seen = bf.seen
    BY <1>0, <1>19 DEF EmitCase, Command
  <2>. QED BY <2>1
<1>. QED
  BY <1>1, <1>5, <1>6, <1>7, <1>8, <1>9, <1>10, <1>11, <1>12, <1>13, <1>14,
     <1>15, <1>16, <1>17, <1>18, <1>19
  DEF Next, vars, SyncClaims, SyncHandles, FileUpsert, FileEnds, FileSkips,
      FileRaises, PersistSkill, Extracted, ServerStart, ServerStop,
      ServerIndexes

\* No step loses an event that phase 2 has seen.
LEMMA EventsStep ==
    ASSUME Tables, Shapes, Alone, Events, [Next]_vars
    PROVE  Events'
<1>. SUFFICES ASSUME drained', ~(bf'.at = "off" /\ bf'.exit \notin {0, 4}),
                     NEW m \in bf'.seen
              PROVE  Due(m)' \/ (Seeing' /\ m \in bf'.todo)
  BY DEF Events, Due, Good, Seeing, HoldsLock
<1>0. bf \in Command /\ bf.seen \subseteq Memories
  BY CommandFields DEF Shapes
<1>1. CASE EmitMemory
  <2>1. PICK n \in bf.todo :
          /\ bf' = [bf EXCEPT !.todo = @ \ {n}]
          /\ queue' = IF Filed(n) THEN queue
                      ELSE [queue EXCEPT ![File(n)] = @ + 1]
    BY <1>1 DEF EmitMemory
  <2>2. /\ bf.at = "emits" /\ bf'.at = "emits" /\ bf'.phase = 2
        /\ bf'.todo = bf.todo \ {n} /\ bf'.seen = bf.seen /\ bf.phase = 2
        /\ UNCHANGED <<members, dead, drained>>
    BY <1>0, <1>1, <2>1 DEF EmitMemory, Command
  <2>3. m \in Memories /\ (Due(m) \/ m \in bf.todo)
    BY <1>0, <2>2 DEF Events, Seeing
  <2>4. CASE m \in bf.todo /\ m # n
    BY <2>2, <2>4 DEF Seeing
  <2>5. CASE m = n /\ Filed(m)
    BY <2>2, <2>5 DEF Filed, Due, Good
  <2>6. CASE m = n /\ ~Filed(m)
    <3>1. queue'[File(m)] > 0
      BY <2>1, <2>3, <2>6, WorkTyped DEF Tables
    <3>. QED BY <2>2, <3>1 DEF Due, HoldsLock
  <2>7. CASE Good(m)
    BY <2>2, <2>7 DEF Due, Good
  <2>8. CASE queue[File(m)] > 0
    <3>1. File(m) \in Work /\ queue' \in [Work -> Nat]
          /\ queue'[File(m)] >= queue[File(m)] /\ queue[File(m)] \in Nat
      BY <1>1, <2>3, WorkTyped, EmittedTables DEF Tables
    <3>2. queue'[File(m)] > 0
      BY <2>8, <3>1
    <3>. QED BY <2>2, <3>2 DEF Due, HoldsLock
  <2>. QED BY <2>3, <2>4, <2>5, <2>6, <2>7, <2>8 DEF Due
<1>2. CASE ~EmitMemory
  <2>1. \/ Seeing' /\ m \in bf'.todo
        \/ m \in bf.seen /\ ~(Seeing /\ m \in bf.todo)
             /\ (bf.at = "off" => bf'.at = "off" /\ bf'.exit = bf.exit)
    BY <1>2, SeenStep
  <2>. SUFFICES ASSUME m \in bf.seen, ~(Seeing /\ m \in bf.todo),
                       bf.at = "off" => bf'.at = "off" /\ bf'.exit = bf.exit
                PROVE  Due(m)'
    BY <2>1
  <2>2. ~Begin /\ ~Interrupt
    <3>1. ~Begin
      BY BeginShapes DEF Begin
    <3>2. Exits(130) => bf'.at = "off" /\ bf'.exit \notin {0, 4}
      BY <1>0, ExitsShapes
    <3>. QED BY <3>1, <3>2 DEF Interrupt
  <2>3. drained
    <3>1. CASE Waited
      BY <3>1 DEF Waited, Tables
    <3>2. CASE ~Waited
      BY <2>2, <3>2, DrainedKept
    <3>. QED BY <3>1, <3>2
  <2>4. Due(m) /\ m \in Memories
    BY <1>0, <2>3 DEF Events
  <2>5. CASE Good(m)
    BY <2>2, <2>4, <2>5, GoodStep DEF Due
  <2>6. CASE queue[File(m)] > 0 /\ HoldsLock /\ bf.phase = 2
    <3>1. ~Waited
      <4>1. queue # NoWork /\ bf.phase # 3
        BY <2>4, <2>6, WorkTyped
      <4>. QED BY <4>1 DEF Waited, Idle
    <3>2. HoldsLock' /\ bf'.phase = 2
      BY <2>2, <2>6, <3>1, LockSteps
    <3>3. queue'[File(m)] > 0 \/ Good(m)'
      BY <2>2, <2>4, <2>6, <3>1, QueueStep
    <3>. QED BY <3>2, <3>3 DEF Due
  <2>. QED BY <2>4, <2>5, <2>6 DEF Due
<1>. QED BY <1>1, <1>2

-----------------------------------------------------------------------------
(* Vectors.                                                                *)

Served(i) == bf.rows[i].vec = 0 => row[i].vec # 0

\* Each row that was read without a vector has one, or is still to get it, as
\* long as none has failed; and when phase 1 is over, has one.
Vectors ==
    /\ bf.at = "writes" /\ bf.failed = 0 =>
         \A i \in DOMAIN bf.rows :
             Served(i) \/ (i \in bf.todo /\ "vec" \in bf.made[i])
    /\ \/ bf.phase \in {2, 3} /\ bf.failed = 0
       \/ bf.at = "off" /\ bf.exit = 0
       => \A i \in DOMAIN bf.rows : Served(i)

\* A row that is served stays so, while the command keeps what it has read.
LEMMA ServedStays ==
    ASSUME Shapes, Embedded, [Next]_vars, bf'.rows = bf.rows,
           NEW i \in DOMAIN bf.rows, Served(i)
    PROVE  Served(i)'
<1>1. i \in Rows
  BY ScannedRows, CommandFields DEF Shapes
<1>. QED BY <1>1, RowStep DEF RowsMove, Served

\* Where the command comes to a later phase, or ends well.
Later == bf.phase \in {2, 3} \/ (bf.at = "off" /\ bf.exit = 0)

\* It comes there from a later phase, from the last write, or with no rows.
LEMMA LaterStep ==
    ASSUME Shapes, [Next]_vars, Later'
    PROVE  \/ UNCHANGED bf
           \/ /\ bf'.rows = bf.rows
              /\ bf'.at = "off" => bf'.failed = 0
              /\ \/ bf.phase \in {2, 3} /\ bf'.failed = bf.failed
                 \/ bf.at = "writes" /\ bf.todo = {} /\ bf'.failed = bf.failed
                 \/ bf.rows = NoVectors
<1>. USE DEF Later
<1>0. bf \in Command /\ Stages /\ bf.failed \in Nat
  BY CommandFields DEF Shapes
<1>1. CASE UNCHANGED bf
  BY <1>1
<1>2. \A code \in {1, 3, 130} : ~Exits(code)
  BY <1>0, ExitsShapes
<1>3. ASSUME NEW failed \in Nat, NextPhase(failed), bf.at # "off"
      PROVE  /\ bf'.rows = bf.rows /\ bf'.failed = failed
             /\ bf'.at = "off" => failed = 0
             /\ bf.phase = 1 \/ bf.phase \in {2, 3}
  <2>1. bf'.rows = bf.rows /\ bf'.failed = failed /\ bf.phase \in {1, 2, 3}
    BY <1>0, <1>3, NextPhaseShapes DEF Stages
  <2>2. CASE bf.phase = 3
    <3>1. bf'.phase = 0 /\ bf'.exit = IF failed > 0 THEN 4 ELSE 0
      BY <1>0, <1>3, <2>2, NextPhaseShapes
    <3>2. ~(failed > 0)
      BY <3>1
    <3>. QED BY <1>3, <2>1, <3>2
  <2>3. CASE bf.phase # 3
    <3>1. bf'.at = "probes"
      BY <1>0, <1>3, <2>3, NextPhaseShapes
    <3>. QED BY <2>1, <3>1
  <2>. QED BY <2>2, <2>3
<1>4. ASSUME NEW at \in Stops, Goes(at)
      PROVE  /\ bf'.rows = bf.rows /\ bf'.failed = bf.failed /\ bf'.at # "off"
             /\ bf.phase \in {2, 3}
  <2>1. /\ bf'.rows = bf.rows /\ bf'.failed = bf.failed
        /\ bf'.at = at /\ bf'.phase = bf.phase
    BY <1>0, <1>4, GoesShapes
  <2>. QED BY <1>4, <2>1 DEF Stops
<1>5. ~Begin
  BY BeginShapes
<1>6. CASE Probe
  <2>1. Goes(FirstOf(bf.phase)) /\ FirstOf(bf.phase) \in Stops
    BY <1>2, <1>6 DEF Probe, FirstOf, Stops
  <2>. QED BY <1>4, <2>1
<1>7. ~Interrupt /\ ~Decline
  BY <1>2 DEF Interrupt, Decline
<1>8. CASE ScanVectors
  <2>1. bf.rows = NoVectors /\ bf.at = "scans" /\ bf.phase = 1
    BY <1>0, <1>8 DEF ScanVectors, Stages
  <2>2. CASE NextPhase(0)
    BY <1>3, <2>1, <2>2
  <2>3. CASE ~NextPhase(0)
    <3>1. bf'.at = "asks" /\ bf'.phase = 1
      BY <1>8, <2>1, <2>3, ScanVectorsShapes
    <3>. QED BY <3>1
  <2>. QED BY <2>2, <2>3
<1>9. ~Embed
  BY EmbedShapes
<1>10. ~WriteRow
  <2>. SUFFICES ASSUME WriteRow PROVE FALSE
    OBVIOUS
  <2>1. PICK i \in bf.todo, n \in Nat : LeavesRow(i, n)
    BY <1>0, WriteFailed
  <2>2. bf'.at = "writes" /\ bf'.phase = 1
    BY <1>0, <2>1, WriteShapes DEF WriteRow
  <2>. QED BY <2>2
<1>11. CASE VectorsDone
  <2>1. bf.at = "writes" /\ bf.todo = {} /\ NextPhase(bf.failed)
    BY <1>11 DEF VectorsDone
  <2>. QED BY <1>0, <1>3, <2>1
<1>12. CASE StartEngine
  BY <1>2, <1>4, <1>12 DEF StartEngine, Stops
<1>13. CASE ScanMemories
  <2>1. /\ bf'.rows = bf.rows /\ bf'.failed = bf.failed
        /\ bf'.at = "asks" /\ bf.phase = 2
    BY <1>0, <1>13 DEF ScanMemories, Command
  <2>. QED BY <2>1
<1>14. CASE EmitMemory \/ EmitCase
  <2>1. PICK n \in bf.todo : bf' = [bf EXCEPT !.todo = @ \ {n}]
    BY <1>14 DEF EmitMemory, EmitCase
  <2>2. /\ bf'.rows = bf.rows /\ bf'.failed = bf.failed /\ bf'.at = "emits"
        /\ bf.phase \in {2, 3}
    BY <1>0, <1>14, <2>1 DEF EmitMemory, EmitCase, Command
  <2>. QED BY <2>2
<1>15. CASE Emitted
  BY <1>4, <1>15 DEF Emitted, Stops
<1>16. CASE Waited
  <2>1. bf.at = "waits" /\ bf.phase \in {2, 3}
    BY <1>0, <1>16 DEF Waited, Stages, HoldsLock
  <2>2. Goes("syncs last") \/ NextPhase(bf.failed)
    BY <1>16 DEF Waited
  <2>. QED BY <1>0, <1>3, <1>4, <2>1, <2>2 DEF Stops
<1>17. CASE SyncScan
  BY <1>4, <1>17 DEF SyncScan, Stops
<1>18. CASE SyncEnds
  <2>1. bf.at # "off" /\ bf.phase \in {2, 3}
    BY <1>0, <1>18 DEF SyncEnds, Drains, Stages
  <2>2. Goes("scans") \/ NextPhase(bf.failed)
    BY <1>18 DEF SyncEnds
  <2>. QED BY <1>0, <1>3, <1>4, <2>1, <2>2 DEF Stops
<1>19. CASE ScanCases
  <2>1. bf.at = "scans" /\ bf.phase = 3
    BY <1>19 DEF ScanCases
  <2>2. CASE NextPhase(bf.failed)
    BY <1>0, <1>3, <2>1, <2>2
  <2>3. CASE ~NextPhase(bf.failed)
    <3>1. bf'.rows = bf.rows /\ bf'.failed = bf.failed /\ bf'.at = "asks"
      BY ZenonT(60), <1>0, <1>19, <2>3 DEF ScanCases, Command
    <3>. QED BY <2>1, <3>1
  <2>. QED BY <2>2, <2>3
<1>. QED
  BY <1>1, <1>5, <1>6, <1>7, <1>8, <1>9, <1>10, <1>11, <1>12, <1>13, <1>14,
     <1>15, <1>16, <1>17, <1>18, <1>19
  DEF Next, vars, SyncClaims, SyncHandles, FileUpsert, FileEnds, FileSkips,
      FileRaises, PersistSkill, Extracted, ServerStart, ServerStop,
      ServerIndexes

\* Every step keeps what phase 1 owes the rows it has read.
LEMMA VectorsStep ==
    ASSUME Shapes, Embedded, Vectors, [Next]_vars
    PROVE  Vectors'
<1>0. bf \in Command /\ bf.rows \in Scanned /\ bf.failed \in Nat
  BY CommandFields DEF Shapes
<1>1. ASSUME bf'.at = "writes", bf'.failed = 0, NEW i \in DOMAIN bf'.rows
      PROVE  Served(i)' \/ (i \in bf'.todo /\ "vec" \in bf'.made[i])
  <2>1. CASE Embed
    <3>1. /\ bf'.rows = bf.rows /\ i \in DOMAIN bf.rows
          /\ "vec" \in Needs(i, bf.rows[i]) => "vec" \in bf'.made[i]
          /\ bf'.made[i] # {} => i \in bf'.todo
      BY <1>1, <2>1, EmbedShapes
    <3>2. CASE bf.rows[i].vec = 0
      <4>1. "vec" \in Needs(i, bf.rows[i])
        BY <3>2 DEF Needs, Sides
      <4>. QED BY <3>1, <4>1
    <3>3. CASE bf.rows[i].vec # 0
      BY <3>1, <3>3 DEF Served
    <3>. QED BY <3>2, <3>3
  <2>2. CASE WriteRow
    <3>1. PICK j \in bf.todo, n \in Nat :
            /\ LeavesRow(j, n)
            /\ n \in {bf.failed, bf.failed + 1}
            /\ n = bf.failed => WritesRow(j)
      BY <1>0, <2>2, WriteFailed
    <3>2. /\ bf'.rows = bf.rows /\ bf'.made = bf.made /\ bf'.failed = n
          /\ bf'.todo = bf.todo \ {j} /\ bf.at = "writes"
      BY <1>0, <2>2, <3>1, WriteShapes DEF WriteRow
    <3>3. bf.failed = 0 /\ WritesRow(j)
      BY <1>0, <1>1, <3>1, <3>2
    <3>4. Served(i) \/ (i \in bf.todo /\ "vec" \in bf.made[i])
      BY <1>1, <3>2, <3>3 DEF Vectors
    <3>5. CASE Served(i)
      BY <1>1, <3>2, <3>5, ServedStays
    <3>6. CASE i \in bf.todo /\ "vec" \in bf.made[i] /\ i = j
      <4>1. /\ i \in Rows /\ bf.rows[i] \in Row /\ row[i] \in Row
            /\ bf.made[i] \in SUBSET {"vec", "sub"}
        BY <1>0, <1>1, <3>2, ScannedRows, MadeSides, CommandFields
        DEF Shapes, Embedded
      <4>2. Updated(row[i], bf.rows[i], bf.made[i]).vec # 0
        BY <3>6, <4>1, UpdatedRow
      <4>3. row'[i].vec # 0
        BY <3>3, <3>6, <4>1, <4>2 DEF Shapes, WritesRow
      <4>. QED BY <3>2, <4>3 DEF Served
    <3>7. CASE i \in bf.todo /\ "vec" \in bf.made[i] /\ i # j
      BY <3>2, <3>7
    <3>. QED BY <3>4, <3>5, <3>6, <3>7
  <2>3. CASE UNCHANGED bf
    <3>1. Served(i) \/ (i \in bf.todo /\ "vec" \in bf.made[i])
      BY <1>1, <2>3 DEF Vectors
    <3>2. Served(i) => Served(i)'
      BY <1>1, <2>3, ServedStays
    <3>. QED BY <2>3, <3>1, <3>2
  <2>. QED BY <1>1, <2>1, <2>2, <2>3, WritesFrom
<1>2. ASSUME \/ bf'.phase \in {2, 3} /\ bf'.failed = 0
             \/ bf'.at = "off" /\ bf'.exit = 0,
             NEW i \in DOMAIN bf'.rows
      PROVE  Served(i)'
  <2>1. bf'.rows = bf.rows /\ i \in DOMAIN bf.rows
    BY <1>2, LaterStep DEF Later
  <2>2. Served(i)
    <3>1. CASE UNCHANGED bf
      BY <1>2, <2>1, <3>1 DEF Vectors
    <3>2. CASE /\ bf.phase \in {2, 3} /\ bf'.failed = bf.failed
               /\ bf'.at = "off" => bf'.failed = 0
      BY <1>2, <2>1, <3>2 DEF Vectors
    <3>3. CASE /\ bf.at = "writes" /\ bf.todo = {} /\ bf'.failed = bf.failed
               /\ bf'.at = "off" => bf'.failed = 0
      BY <1>2, <2>1, <3>3 DEF Vectors
    <3>4. CASE bf.rows = NoVectors
      BY <2>1, <3>4, NoVectorsTyped
    <3>. QED BY <1>2, <3>1, <3>2, <3>3, <3>4, LaterStep DEF Later
  <2>. QED BY <2>1, <2>2, ServedStays
<1>. QED BY <1>1, <1>2 DEF Vectors, Served

\* The count of the rows that failed, and what is left of the rows.
Counts ==
    /\ bf.failed <= 2 * Cardinality(Rows)
    /\ bf.at = "writes" =>
         bf.failed + Cardinality(bf.todo) <= 2 * Cardinality(Rows)

\* Outside phase 1 the count stays, or a command begins with none.
LEMMA FailedStep ==
    ASSUME Shapes, [Next]_vars, bf'.at # "writes"
    PROVE  bf'.failed \in {0, bf.failed}
<1>0. bf \in Command /\ bf.failed \in Nat
  BY CommandFields DEF Shapes
<1>1. \A code \in {1, 3, 130} : Exits(code) => bf'.failed = bf.failed
  BY <1>0, ExitsShapes
<1>2. \A failed \in Nat : NextPhase(failed) => bf'.failed = failed
  BY <1>0, NextPhaseShapes
<1>3. \A at : Goes(at) => bf'.failed = bf.failed
  BY <1>0, GoesShapes
<1>4. CASE Begin
  <2>1. Off(None).failed = 0 /\ Off(None) \in Command
    BY OffTyped DEF Off
  <2>2. bf' = [Off(None) EXCEPT !.at = "probes", !.phase = 1]
    BY <1>4 DEF Begin
  <2>3. bf'.failed = Off(None).failed
    BY <2>1, <2>2 DEF Command
  <2>. QED BY <2>1, <2>3
<1>5. CASE Probe
  BY <1>1, <1>3, <1>5 DEF Probe
<1>6. CASE Interrupt \/ Decline
  BY <1>1, <1>6 DEF Interrupt, Decline
<1>7. CASE ScanVectors
  BY ZenonT(40), <1>0, <1>2, <1>7 DEF ScanVectors, Command
<1>8. ~Embed
  BY EmbedShapes
<1>9. ~WriteRow
  <2>. SUFFICES ASSUME WriteRow PROVE FALSE
    OBVIOUS
  <2>1. PICK i \in bf.todo, n \in Nat : LeavesRow(i, n)
    BY <1>0, WriteFailed
  <2>. QED BY <1>0, <2>1, WriteShapes DEF WriteRow
<1>10. CASE VectorsDone
  BY <1>0, <1>2, <1>10 DEF VectorsDone
<1>11. CASE StartEngine
  BY <1>1, <1>3, <1>11 DEF StartEngine
<1>12. CASE ScanMemories
  BY <1>0, <1>12 DEF ScanMemories, Command
<1>13. CASE EmitMemory \/ EmitCase
  BY <1>0, <1>13 DEF EmitMemory, EmitCase, Command
<1>14. CASE Emitted \/ SyncScan
  BY <1>3, <1>14 DEF Emitted, SyncScan
<1>15. CASE Waited
  BY <1>0, <1>2, <1>3, <1>15 DEF Waited
<1>16. CASE SyncEnds
  BY <1>0, <1>2, <1>3, <1>16 DEF SyncEnds
<1>17. CASE ScanCases
  BY ZenonT(40), <1>0, <1>2, <1>17 DEF ScanCases, Command
<1>18. CASE UNCHANGED bf
  BY <1>18
<1>. QED
  BY <1>4, <1>5, <1>6, <1>7, <1>8, <1>9, <1>10, <1>11, <1>12, <1>13, <1>14,
     <1>15, <1>16, <1>17, <1>18
  DEF Next, vars, SyncClaims, SyncHandles, FileUpsert, FileEnds, FileSkips,
      FileRaises, PersistSkill, Extracted, ServerStart, ServerStop,
      ServerIndexes

\* A row is counted once when it is embedded, and once when it is written.
LEMMA CountsStep ==
    ASSUME Shapes, Embedded, Counts, [Next]_vars
    PROVE  Counts'
<1>0. bf \in Command /\ bf.failed \in Nat /\ Cardinality(Rows) \in Nat
  BY CommandFields, FS_CardinalityType, BackfillAssumption DEF Shapes
<1>. DEFINE bound == 2 * Cardinality(Rows)
<1>1. bound \in Nat /\ Cardinality(Rows) + Cardinality(Rows) = bound
  BY <1>0
<1>2. CASE Embed
  <2>1. /\ bf'.at = "writes" /\ bf'.failed \in Nat
        /\ bf'.failed <= Cardinality(Rows) /\ bf'.todo \subseteq Rows
    <3>1. /\ bf'.at = "writes" /\ bf' \in Command
          /\ bf'.failed <= Cardinality(Rows)
          /\ bf'.todo \subseteq DOMAIN bf.rows
      BY <1>2, EmbedShapes
    <3>2. DOMAIN bf.rows \subseteq Rows
      BY <1>0, ScannedRows, CommandFields
    <3>3. bf'.failed \in Nat
      BY <3>1 DEF Command
    <3>. QED BY <3>1, <3>2, <3>3
  <2>2. /\ Cardinality(bf'.todo) \in Nat
        /\ Cardinality(bf'.todo) <= Cardinality(Rows)
    BY <2>1, FS_Subset, FS_CardinalityType, BackfillAssumption
  <2>. HIDE DEF bound
  <2>. QED BY <1>0, <1>1, <2>1, <2>2 DEF Counts, bound
<1>3. CASE WriteRow
  <2>1. PICK i \in bf.todo, n \in Nat :
          /\ LeavesRow(i, n)
          /\ n \in {bf.failed, bf.failed + 1}
    BY <1>0, <1>3, WriteFailed
  <2>2. /\ bf'.failed = n /\ bf'.todo = bf.todo \ {i}
        /\ bf.at = "writes" /\ bf'.at = "writes"
    BY <1>0, <1>3, <2>1, WriteShapes DEF WriteRow
  <2>3. IsFiniteSet(bf.todo)
    <3>1. bf.todo \subseteq Rows
      BY <1>0, <2>2, ScannedRows, CommandFields DEF Shapes, Stages
    <3>. QED BY <3>1, FS_Subset, BackfillAssumption
  <2>4. /\ Cardinality(bf.todo \ {i}) = Cardinality(bf.todo) - 1
        /\ Cardinality(bf.todo) \in Nat /\ Cardinality(bf.todo \ {i}) \in Nat
    BY <2>1, <2>3, FS_RemoveElement, FS_CardinalityType
  <2>5. bf.failed + Cardinality(bf.todo) <= bound
    BY <2>2 DEF Counts
  <2>. HIDE DEF bound
  <2>6. bf'.failed + Cardinality(bf'.todo) <= bound /\ bf'.failed <= bound
    BY <1>0, <1>1, <2>1, <2>2, <2>4, <2>5
  <2>. QED BY <2>6 DEF Counts, bound
<1>4. CASE UNCHANGED bf
  BY <1>4 DEF Counts
<1>5. CASE bf'.at # "writes"
  <2>1. bf'.failed \in {0, bf.failed}
    BY <1>5, FailedStep DEF Shapes
  <2>. HIDE DEF bound
  <2>2. bf'.failed <= bound
    BY <1>0, <1>1, <2>1 DEF Counts, bound
  <2>. QED BY <1>5, <2>2 DEF Counts, bound
<1>. QED BY <1>2, <1>3, <1>4, <1>5, WritesFrom

-----------------------------------------------------------------------------
(* Skills.                                                                 *)

\* From the first sync of phase 3 on to its scan, and after a good end.
Settled == \/ bf.at = "scans" /\ bf.phase = 3
           \/ bf.at = "off" /\ bf.exit \in {0, 4}

Excuses == {"failed", "parked", "processing"}

\* As long as no server has been up, a SKILL.md that is not in the index then
\* has a row that says why; and one whose row is done always is.
Skills ==
    /\ \A k \in Clusters : change[k] = "done" => k \in idx
    /\ starts = 0 =>
         /\ ~ server
         /\ Drains => \A k \in md : change[k] # "none"
         /\ Settled => \A k \in md \ idx : change[k] \in Excuses

\* What settles a command: it was, or it has just drained the queue.
LEMMA SettledStep ==
    ASSUME Shapes, [Next]_vars, Settled'
    PROVE  (Settled /\ ~SyncScan) \/ SyncEnds
<1>. USE DEF Settled
<1>0. bf \in Command /\ Stages /\ bf.failed \in Nat
  BY CommandFields DEF Shapes
<1>2. \A code \in {1, 3, 130} : ~Exits(code)
  BY <1>0, ExitsShapes
<1>3. ASSUME NEW failed \in Nat, NextPhase(failed)
      PROVE  bf.phase = 3
  BY <1>0, <1>3, NextPhaseShapes
<1>4. ASSUME NEW at \in Stops, Goes(at)
      PROVE  at = "scans" /\ bf.phase = 3
  BY <1>0, <1>4, GoesShapes DEF Stops
<1>5. ~Begin
  BY BeginShapes
<1>6. ~Probe
  BY <1>2, <1>4 DEF Probe, FirstOf, Stops
<1>7. ~Interrupt /\ ~Decline
  BY <1>2 DEF Interrupt, Decline
<1>8. ~ScanVectors
  <2>. SUFFICES ASSUME ScanVectors PROVE FALSE
    OBVIOUS
  <2>1. bf.phase = 1
    BY DEF ScanVectors
  <2>2. ~NextPhase(0)
    BY <1>3, <2>1
  <2>. QED BY <2>1, <2>2, ScanVectorsShapes
<1>9. ~Embed /\ ~WriteRow /\ ~VectorsDone
  <2>1. ~Embed
    BY EmbedShapes
  <2>2. ~VectorsDone
    BY <1>0, <1>3 DEF VectorsDone
  <2>3. ASSUME WriteRow PROVE FALSE
    <3>1. PICK i \in bf.todo, n \in Nat : LeavesRow(i, n)
      BY <1>0, <2>3, WriteFailed
    <3>2. bf'.at = "writes"
      BY <1>0, <2>3, <3>1, WriteShapes DEF WriteRow
    <3>. QED BY <3>2
  <2>. QED BY <2>1, <2>2, <2>3
<1>10. ~StartEngine /\ ~Emitted
  BY <1>2, <1>4 DEF StartEngine, Emitted, Stops
<1>11. ~ScanMemories
  <2>. SUFFICES ASSUME ScanMemories PROVE FALSE
    OBVIOUS
  <2>1. bf'.at = "asks"
    BY <1>0 DEF ScanMemories, Command
  <2>. QED BY <2>1
<1>12. ~EmitMemory /\ ~EmitCase
  <2>. SUFFICES ASSUME EmitMemory \/ EmitCase PROVE FALSE
    OBVIOUS
  <2>1. bf'.at = "emits"
    BY ZenonT(60), <1>0 DEF EmitMemory, EmitCase, Command
  <2>. QED BY <2>1
<1>13. ~Waited
  <2>. SUFFICES ASSUME Waited PROVE FALSE
    OBVIOUS
  <2>1. CASE bf.phase = 3
    BY <1>4, <2>1 DEF Waited, Stops
  <2>2. CASE bf.phase # 3
    BY <1>0, <1>3, <2>2 DEF Waited
  <2>. QED BY <2>1, <2>2
<1>14. CASE ScanCases
  BY <1>14 DEF ScanCases, SyncScan
<1>15. ~SyncScan
  BY <1>4 DEF SyncScan, Stops
<1>1. CASE UNCHANGED bf
  BY <1>1, <1>15
<1>. QED
  BY <1>1, <1>5, <1>6, <1>7, <1>8, <1>9, <1>10, <1>11, <1>12, <1>13, <1>14,
     <1>15
  DEF Next, vars, SyncClaims, SyncHandles, FileUpsert, FileEnds, FileSkips,
      FileRaises, PersistSkill, Extracted, ServerStart, ServerStop,
      ServerIndexes

\* The command drains the queue after its sweep, and moves no further then.
LEMMA DrainsStep ==
    ASSUME Shapes, [Next]_vars, Drains'
    PROVE  SyncScan \/ (Drains /\ UNCHANGED bf)
<1>. USE DEF Drains
<1>0. bf \in Command /\ Stages /\ bf.failed \in Nat
  BY CommandFields DEF Shapes
<1>1. \A code \in {1, 3, 130} : ~Exits(code)
  BY <1>0, ExitsShapes
<1>2. \A failed \in Nat : ~NextPhase(failed)
  <2>. SUFFICES ASSUME NEW failed \in Nat, NextPhase(failed) PROVE FALSE
    OBVIOUS
  <2>1. bf'.at \in {"off", "probes"}
    BY <1>0, NextPhaseShapes
  <2>. QED BY <2>1
<1>3. \A at \in Stops \ {"drains first", "drains last"} : ~Goes(at)
  BY <1>0, GoesShapes
<1>4. ~Begin
  BY BeginShapes
<1>5. ~Probe /\ ~Interrupt /\ ~Decline /\ ~VectorsDone
  BY <1>0, <1>1, <1>2, <1>3
  DEF Probe, FirstOf, Interrupt, Decline, VectorsDone, Stops
<1>6. ~StartEngine /\ ~Emitted /\ ~Waited /\ ~SyncEnds
  BY <1>0, <1>1, <1>2, <1>3
  DEF StartEngine, Emitted, Waited, SyncEnds, Stops
<1>7. ~ScanVectors
  <2>1. bf'.at # "asks"
    OBVIOUS
  <2>. QED BY <1>2, <2>1, ScanVectorsShapes
<1>8. ~ScanMemories /\ ~ScanCases
  BY ZenonT(40), <1>0, <1>2 DEF ScanMemories, ScanCases, Command
<1>9. ~EmitMemory /\ ~EmitCase
  BY ZenonT(40), <1>0 DEF EmitMemory, EmitCase, Command
<1>10. ~Embed /\ ~WriteRow
  <2>1. ~Embed
    BY EmbedShapes
  <2>2. ASSUME WriteRow PROVE FALSE
    <3>1. PICK i \in bf.todo, n \in Nat : LeavesRow(i, n)
      BY <1>0, <2>2, WriteFailed
    <3>2. bf'.at = "writes"
      BY <1>0, <2>2, <3>1, WriteShapes DEF WriteRow
    <3>. QED BY <3>2
  <2>. QED BY <2>1, <2>2
<1>11. CASE UNCHANGED vars
  BY <1>11 DEF vars
<1>12. CASE \/ SyncClaims \/ SyncHandles \/ FileUpsert \/ FileEnds \/ FileSkips
            \/ FileRaises \/ PersistSkill \/ Extracted
            \/ ServerStart \/ ServerStop \/ ServerIndexes
  BY <1>12 DEF SyncClaims, SyncHandles, FileUpsert, FileEnds, FileSkips,
         FileRaises, PersistSkill, Extracted, ServerStart, ServerStop,
         ServerIndexes
<1>. QED
  BY <1>4, <1>5, <1>6, <1>7, <1>8, <1>9, <1>10, <1>11, <1>12 DEF Next

\* A verdict of a handler keeps a row in the queue, and is done where the file
\* is in the index.
LEMMA HandledSkills ==
    ASSUME Tables, Skills, NEW k \in Clusters,
           NEW from \in {"pending", "processing"}, Handled(k, from)
    PROVE  /\ \A j \in Clusters :
                /\ change'[j] = "done" => j \in idx'
                /\ change[j] # "none" => change'[j] # "none"
                /\ j \notin idx' /\ change[j] \in Excuses
                     => change'[j] \in Excuses
           /\ idx \subseteq idx'
<1>1. PICK to \in {"done", "failed", "parked"} :
        /\ change' = [change EXCEPT ![k] = IF @ = from THEN to ELSE @]
        /\ idx \subseteq idx'
        /\ to = "done" => k \in idx'
  BY DEF Handled, Marked
<1>2. change \in [Clusters -> Verdicts]
  BY DEF Tables
<1>3. \A j \in Clusters :
        change'[j] = IF j = k /\ change[j] = from THEN to ELSE change[j]
  BY <1>1, <1>2
<1>4. \A j \in Clusters : change[j] = "done" => j \in idx
  BY DEF Skills
<1>. QED BY <1>1, <1>3, <1>4 DEF Excuses

\* The steps that touch the SKILL.md files, their rows or the index.
Skilling == \/ SyncScan \/ SyncClaims \/ SyncHandles \/ PersistSkill
            \/ ServerStart \/ ServerIndexes

\* No other step does, and none but a start of the server counts.
LEMMA SkillsOnly ==
    ASSUME [Next]_vars
    PROVE  /\ ~Skilling => UNCHANGED <<md, change, idx>>
           /\ ~ServerStart => starts' = starts /\ (server' => server)
<1>1. CASE UNCHANGED vars
  BY <1>1 DEF vars, cascade, bounds
<1>2. CASE \/ Probe \/ Decline \/ ScanVectors \/ Embed \/ VectorsDone
           \/ StartEngine \/ ScanMemories \/ Emitted \/ ScanCases \/ SyncEnds
  <2>1. StoreOnly /\ starts' = starts
    BY <1>2 DEF Probe, Decline, ScanVectors, Embed, VectorsDone, StartEngine,
           ScanMemories, Emitted, ScanCases, SyncEnds, bounds
  <2>. QED BY <2>1 DEF StoreOnly, cascade
<1>3. CASE Begin \/ WriteRow
  <2>1. UNCHANGED <<md, cascade, server, starts>>
    BY <1>3 DEF Begin, WriteRow
  <2>. QED BY <2>1 DEF cascade
<1>7. CASE SyncScan \/ SyncClaims \/ SyncHandles
  <2>1. UNCHANGED <<server, starts>>
    BY <1>7 DEF SyncScan, SyncClaims, SyncHandles, bounds
  <2>. QED BY <1>7, <2>1 DEF Skilling
<1>4. CASE FileUpsert \/ PersistSkill \/ ServerIndexes \/ ServerStart
  BY <1>4 DEF FileUpsert, PersistSkill, ServerIndexes, Skilling, cascade, bounds
<1>5. CASE EmitMemory \/ EmitCase \/ Interrupt \/ Waited
  <2>1. UNCHANGED <<md, change, idx, server, starts>>
    BY <1>5 DEF EmitMemory, EmitCase, Interrupt, Waited, cascade, bounds
  <2>. QED BY <2>1
<1>6. CASE FileEnds \/ FileSkips \/ FileRaises \/ Extracted \/ ServerStop
  BY <1>6 DEF FileEnds, FileSkips, FileRaises, Extracted, ServerStop, cascade,
              bounds
<1>. QED BY <1>1, <1>2, <1>3, <1>4, <1>5, <1>6, <1>7 DEF Next, Skilling

\* A row that is done stays so, or is taken up again: the index keeps the file.
LEMMA DoneStep ==
    ASSUME Tables, Skills, [Next]_vars, NEW k \in Clusters, change'[k] = "done"
    PROVE  k \in idx'
<1>0. change \in [Clusters -> Verdicts] /\ (change[k] = "done" => k \in idx)
  BY DEF Tables, Skills
<1>1. CASE SyncScan
  BY <1>0, <1>1 DEF SyncScan, Swept
<1>2. CASE SyncClaims
  BY <1>0, <1>2 DEF SyncClaims
<1>3. CASE SyncHandles
  BY <1>3, HandledSkills DEF SyncHandles, Tables
<1>4. CASE PersistSkill
  BY <1>0, <1>4 DEF PersistSkill
<1>5. CASE ServerStart
  BY <1>0, <1>5 DEF ServerStart
<1>6. CASE ServerIndexes
  <2>1. CASE UNCHANGED <<change, idx>>
    BY <1>0, <2>1
  <2>2. CASE Swept /\ UNCHANGED idx
    BY <1>0, <2>2 DEF Swept
  <2>3. CASE \E j \in Clusters : Handled(j, "pending")
    BY <2>3, HandledSkills
  <2>. QED BY <1>6, <2>1, <2>2, <2>3 DEF ServerIndexes, IndexRow
<1>7. CASE ~Skilling
  BY <1>0, <1>7, SkillsOnly
<1>. QED BY <1>1, <1>2, <1>3, <1>4, <1>5, <1>6, <1>7 DEF Skilling

\* Every step keeps the skills of a settled command in the index, or their rows
\* tell why they are not.
LEMMA SkillsStep ==
    ASSUME Tables, Shapes, Alone, Skills, [Next]_vars
    PROVE  Skills'
<1>1. \A k \in Clusters : change'[k] = "done" => k \in idx'
  BY DoneStep
<1>2. ASSUME starts' = 0
      PROVE  /\ ~ server'
             /\ Drains' => \A k \in md' : change'[k] # "none"
             /\ Settled' => \A k \in md' \ idx' : change'[k] \in Excuses
  <2>1. ~ServerStart
    BY <1>2 DEF ServerStart, Shapes
  <2>2. starts = 0 /\ ~ server /\ ~ server'
    BY <1>2, <2>1, SkillsOnly DEF Skills
  <2>3. /\ Drains => \A k \in md : change[k] # "none"
        /\ Settled => \A k \in md \ idx : change[k] \in Excuses
    BY <2>2 DEF Skills
  <2>0. md \subseteq Clusters /\ change \in [Clusters -> Verdicts]
    BY DEF Tables
  <2>4. CASE SyncScan
    <3>1. ~Settled' \/ SyncEnds
      BY <2>4, SettledStep
    <3>2. ~SyncEnds
      BY <2>4 DEF SyncScan, SyncEnds, Drains
    <3>3. \A k \in md' : change'[k] # "none"
      BY <2>0, <2>4 DEF SyncScan, Swept, Enqueues
    <3>. QED BY <2>2, <3>1, <3>2, <3>3
  <2>5. CASE SyncEnds
    <3>1. UNCHANGED <<md, change, idx, bf>> \/ UNCHANGED <<md, change, idx>>
      BY <2>5 DEF SyncEnds, StoreOnly, cascade
    <3>2. Drains /\ \A k \in Clusters : change[k] # "pending"
      BY <2>5 DEF SyncEnds, DrainEnds
    <3>3. \A k \in md \ idx : change[k] \in Excuses
      BY <2>0, <2>3, <3>2 DEF Verdicts, Skills, Excuses
    <3>. QED BY <2>2, <2>3, <3>1, <3>2, <3>3
  <2>6. ASSUME ~SyncScan, ~SyncEnds
        PROVE  /\ Drains' => Drains
               /\ Settled' => Settled
    BY <2>6, DrainsStep, SettledStep
  <2>7. CASE SyncClaims
    <3>1. PICK k \in Clusters : change' = [change EXCEPT ![k] = "processing"]
      BY <2>7 DEF SyncClaims
    <3>2. UNCHANGED <<md, idx, bf>>
      BY <2>7 DEF SyncClaims
    <3>3. (Drains' => Drains) /\ (Settled' => Settled)
      BY <3>2 DEF Drains, Settled
    <3>. QED BY <2>0, <2>2, <2>3, <3>1, <3>2, <3>3 DEF Excuses
  <2>8. CASE SyncHandles
    <3>1. PICK k \in Clusters : Handled(k, "processing")
      BY <2>8 DEF SyncHandles, Tables
    <3>2. UNCHANGED <<md, bf>>
      BY <2>8 DEF SyncHandles
    <3>3. (Drains' => Drains) /\ (Settled' => Settled)
      BY <3>2 DEF Drains, Settled
    <3>4. /\ idx \subseteq idx'
          /\ \A j \in Clusters :
               /\ change[j] # "none" => change'[j] # "none"
               /\ j \notin idx' /\ change[j] \in Excuses
                    => change'[j] \in Excuses
      BY <3>1, HandledSkills
    <3>. QED BY <2>0, <2>2, <2>3, <3>2, <3>3, <3>4
  <2>9. CASE PersistSkill
    <3>1. HoldsLock /\ UNCHANGED bf
      BY <2>2, <2>9, RunsNeedAnEngine DEF PersistSkill
    <3>2. ~Drains' /\ ~Settled'
      BY <3>1 DEF HoldsLock, Drains, Settled
    <3>. QED BY <2>2, <3>2
  <2>10. ~ServerIndexes
    BY <2>2 DEF ServerIndexes
  <2>11. CASE ~Skilling /\ ~SyncEnds
    <3>1. UNCHANGED <<md, change, idx>>
      BY <2>11, SkillsOnly
    <3>2. ~SyncScan
      BY <2>11 DEF Skilling
    <3>. QED BY <2>2, <2>3, <2>6, <2>11, <3>1, <3>2
  <2>. QED BY <2>1, <2>4, <2>5, <2>7, <2>8, <2>9, <2>10, <2>11 DEF Skilling
<1>. QED BY <1>1, <1>2 DEF Skills, Drains, Settled

-----------------------------------------------------------------------------
(* The invariant.                                                          *)

IInv == /\ Shapes /\ Embedded /\ Tables /\ Alone /\ Events
        /\ Vectors /\ Counts /\ Skills

\* It holds before the first command.
LEMMA Initially == Init => IInv
<1>. SUFFICES ASSUME Init PROVE IInv
  OBVIOUS
<1>1. bf = Off(None)
  BY DEF Init
<1>2. bf \in Command
  BY <1>1, OffTyped
<1>3. /\ bf.at = "off" /\ bf.phase = 0 /\ bf.seen = {} /\ bf.todo = {}
      /\ bf.rows = NoVectors /\ bf.failed = 0
  BY <1>1 DEF Off
<1>4. row \in [Rows -> Row]
  BY BackfillAssumption DEF Init, Row, Texts
<1>5. Shapes
  BY <1>2, <1>3, <1>4 DEF Init, Shapes, Stages, HoldsLock, Drains
<1>6. Embedded /\ Events
  BY <1>3 DEF Embedded, Events
<1>7. Tables
  BY WorkTyped DEF Init, Tables, Verdicts
<1>8. Alone
  BY <1>3 DEF Init, Alone, HoldsLock
<1>9. Vectors
  BY <1>3, NoVectorsTyped DEF Vectors
<1>10. Counts
  BY <1>3, FS_CardinalityType, BackfillAssumption DEF Counts
<1>11. Skills
  BY DEF Init, Skills
<1>. QED BY <1>5, <1>6, <1>7, <1>8, <1>9, <1>10, <1>11 DEF IInv

\* Every step keeps it.
LEMMA Inductive == IInv /\ [Next]_vars => IInv'
<1>. SUFFICES ASSUME IInv, [Next]_vars PROVE IInv'
  OBVIOUS
<1>. USE DEF IInv
<1>1. Shapes'
  BY ShapesStep
<1>2. Embedded'
  BY EmbeddedStep
<1>3. Tables'
  BY TablesStep
<1>4. Alone'
  BY AloneStep
<1>5. Events'
  BY EventsStep
<1>6. Vectors'
  BY VectorsStep
<1>7. Counts'
  BY CountsStep
<1>8. Skills'
  BY SkillsStep
<1>. QED BY <1>1, <1>2, <1>3, <1>4, <1>5, <1>6, <1>7, <1>8

\* The inductive invariant holds of every state of every run.
LEMMA Invariant == Spec => []IInv
BY Initially, Inductive, PTL DEF Spec

-----------------------------------------------------------------------------
(* Theorems.                                                               *)

\* Types: a run at work is counted, and no row fails more than twice.
THEOREM TypeCorrect == Spec => []TypeOK
<1>1. IInv => TypeOK
  <2>. SUFFICES ASSUME IInv PROVE TypeOK
    OBVIOUS
  <2>. USE DEF IInv
  <2>1. bf.exit \in {None, 0, 1, 3, 4, 130}
    BY DEF Shapes, Command
  <2>2. bf.failed <= 2 * Cardinality(Rows)
    BY DEF Counts
  <2>4. row \in [Rows -> [text : Texts \ {0}, vec : Texts, sub : Texts]]
    BY DEF Shapes, Row
  <2>. QED BY <2>1, <2>2, <2>4 DEF TypeOK, Tables, Verdicts
<1>. QED BY <1>1, Invariant, PTL

\* Exit 0 means that every row that was read without a primary vector has one.
THEOREM ExitZeroIsEarned == Spec => []PrimariesEmbedded
<1>1. IInv => PrimariesEmbedded
  BY DEF IInv, Vectors, Served, PrimariesEmbedded
<1>. QED BY <1>1, Invariant, PTL

\* Writing vectors never takes a row back to a text that the server replaced.
THEOREM NoTextGoesBack == Spec => TextsAdvance
<1>1. IInv /\ [Next]_vars => [\A i \in Rows : row'[i].text >= row[i].text]_vars
  BY RowStep DEF IInv, RowsMove
<1>. QED BY <1>1, Invariant, PTL DEF Spec, TextsAdvance

\* A command that ends well and did not give up waiting has filed every memory
\* that phase 2 has seen, but those of low quality and those whose last attempt
\* has raised: whatever interrupts, timeouts, restarts and commands came before.
THEOREM NoEventIsLost == Spec => []EventsKept
<1>1. IInv => EventsKept
  BY DEF IInv, Events, Due, Good, Seeing, HoldsLock, EventsKept
<1>. QED BY <1>1, Invariant, PTL

\* A command that ends well leaves no SKILL.md out of the index in silence.
THEOREM SkillsAreIndexed == Spec => []SkillsFindable
<1>1. IInv => SkillsFindable
  BY DEF IInv, Skills, Settled, Excuses, SkillsFindable
<1>. QED BY <1>1, Invariant, PTL
=============================================================================
