--------------------------- MODULE IndexStoreProofs ---------------------------
(***************************************************************************)
(* The promises of the index on disk and of the lock of a table, proved for*)
(* every set of commands, tables, columns and writers.                     *)
(***************************************************************************)
EXTENDS IndexStoreProperties, SequenceTheorems, FiniteSetTheorems, TLAPS

Place == [pc : Pc, todo : SUBSET Table, cols : SUBSET Column, failed : BOOLEAN]

\* What the proof needs to know of the types.
Types ==
    /\ at \in [Process -> Place]
    /\ root \subseteq Process
    /\ mark \in [schema : BOOLEAN, fts : BOOLEAN]
    /\ table \in [Table -> [here : BOOLEAN, nullable : BOOLEAN,
                           drifted : BOOLEAN]]
    /\ idx \in [Column -> {"none", "old", "new"}]

Migrating == {"schema", "fts", "drop", "make"}

\* A process that migrates holds the lock of the root, and no other does.
Held == \A p \in Process : at[p].pc \in Migrating => root = {p}

\* While a rebuild drops the tables, nothing else is up.
Alone ==
    \A p \in Process : at[p].pc = "drop_tables" =>
        \A q \in Process \ {p} : at[q].pc = "down"

\* What a process has established by the place it has reached.
Altered(p) ==
    at[p].pc = "schema" /\ ~at[p].failed =>
        \A t \in Table \ at[p].todo : table[t].nullable

Reindexed(p) ==
    at[p].pc \in {"fts", "drop", "make"} =>
        /\ ~mark.fts
        /\ \A t \in Table \ at[p].todo : \A c \in Fields[t] :
              idx[c] = "old" => at[p].pc = "drop" /\ c \in at[p].cols

Marked(p) ==
    /\ at[p].pc \in {"wait_fts", "fts", "drop", "make", "ensure", "up"} =>
          mark.schema
    /\ at[p].pc \in {"ensure", "up"} => mark.fts

Clean(p) ==
    /\ at[p].pc \in {"verify", "drop_tables"} =>
          \A t \in Table \ at[p].todo : ~table[t].drifted
    /\ at[p].pc \notin {"down", "verify", "drop_tables"} =>
          \A t \in Table : ~table[t].drifted

Indexed(p) ==
    /\ at[p].pc = "ensure" =>
          \A t \in Table \ at[p].todo :
              /\ table[t].here
              /\ \A c \in Fields[t] : idx[c] = "new" \/ c \in at[p].cols
    /\ at[p].pc = "up" =>
          \A t \in Table :
              table[t].here /\ \A c \in Fields[t] : idx[c] = "new"

Sound(p) == Altered(p) /\ Reindexed(p) /\ Marked(p) /\ Clean(p) /\ Indexed(p)

IInv ==
    /\ Types /\ Held /\ Alone /\ MarkersTrue
    /\ \A p \in Process : Sound(p)

-----------------------------------------------------------------------------
(* What no step takes back.                                                *)

\* The markers, and what they stand for, only ever come true.
Forward ==
    /\ mark.schema => mark'.schema
    /\ mark.fts => mark'.fts
    /\ \A t \in Table : /\ table[t].nullable => table'[t].nullable
                        /\ ~table[t].drifted => ~table'[t].drifted
    /\ \A c \in Column : idx[c] # "old" => idx'[c] # "old"

\* Tables and indexes that are there stay.
Stays ==
    /\ \A t \in Table : table[t].here => table'[t].here
    /\ \A c \in Column : idx[c] = "new" => idx'[c] = "new"

\* Only the steps of one process are seen in `at`.
Others(p) == \A q \in Process \ {p} : at'[q] = at[q]

\* A process that takes no part keeps what it has established, as long as the
\* steps of the others go forward.
LEMMA OtherSound ==
    ASSUME IInv, NEW q \in Process, at'[q] = at[q], Forward,
           at[q].pc \in {"ensure", "up"} => Stays,
           at[q].pc \in {"fts", "drop", "make"} => mark'.fts = mark.fts
    PROVE  Sound(q)'
<1>. USE StoreAssumption DEF IInv, Types, Place, Forward
<1>0. Sound(q)
  OBVIOUS
<1>1. Altered(q)'
  BY <1>0 DEF Sound, Altered
<1>2. Reindexed(q)'
  BY <1>0 DEF Sound, Reindexed
<1>3. Marked(q)'
  BY <1>0 DEF Sound, Marked
<1>4. Clean(q)'
  BY <1>0 DEF Sound, Clean
<1>5. Indexed(q)'
  BY <1>0 DEF Sound, Indexed, Stays
<1>. QED BY <1>1, <1>2, <1>3, <1>4, <1>5 DEF Sound

\* A process that takes or frees the lock of the root, or neither, leaves it
\* with one holder.
LEMMA HeldKeeps ==
    ASSUME Types, Held, NEW p \in Process, Others(p),
           \/ /\ root' = root
              /\ at'[p].pc \in Migrating => at[p].pc \in Migrating
           \/ root' = root \ {p} /\ at'[p].pc \notin Migrating
           \/ root = {} /\ root' = {p}
    PROVE  Held'
BY DEF Types, Held, Others

\* Nothing starts beside a rebuild that drops the tables.
LEMMA AloneKeeps ==
    ASSUME Types, Alone, NEW p \in Process, Others(p),
           at'[p].pc = "drop_tables" =>
               at[p].pc = "drop_tables" \/ \A q \in Process : at[q].pc = "down",
           at[p].pc = "down" => at'[p].pc = "down" \/ MayStart
    PROVE  Alone'
BY DEF Types, Alone, Others, MayStart

\* The markers stay true as long as no new one is written.
LEMMA MarkersKeep ==
    ASSUME Types, MarkersTrue, Forward, mark' = mark
    PROVE  MarkersTrue'
BY StoreAssumption DEF Types, MarkersTrue, Forward

\* Process p goes to another place.
Moves(p) == at' \in [Process -> Place] /\ Others(p)

\* One step from a place to a place is a move.
LEMMA Walks ==
    ASSUME Types, NEW p \in Process, NEW new \in Place,
           at' = [at EXCEPT ![p] = new]
    PROVE  Moves(p)
BY DEF Types, Moves, Others

\* To the beginning of another part of the start, or down, is a move.
LEMMA GoesWalks ==
    ASSUME Types, NEW p \in Process, NEW pc \in Pc, NEW todo \in {{}, Table},
           Goes(p, pc, todo) \/ at' = [at EXCEPT ![p] = Down]
    PROVE  Moves(p)
<1>1. At(pc, todo) \in Place
  BY DEF At, Place
<1>2. Down \in Place
  BY DEF Down, At, Place, Pc
<1>. QED BY <1>1, <1>2, Walks DEF Goes

\* The fields a step may set, one or two at once.
LEMMA Places ==
    ASSUME Types, NEW p \in Process
    PROVE  /\ at[p] \in Place
           /\ \A pc \in Pc, cols \in SUBSET Column :
                 /\ [at[p] EXCEPT !.pc = pc] \in Place
                 /\ [at[p] EXCEPT !.pc = pc, !.cols = cols] \in Place
           /\ \A todo \in SUBSET Table, cols \in SUBSET Column :
                 /\ [at[p] EXCEPT !.todo = todo] \in Place
                 /\ [at[p] EXCEPT !.cols = cols] \in Place
                 /\ [at[p] EXCEPT !.todo = todo, !.cols = cols] \in Place
           /\ \A todo \in SUBSET Table, failed \in BOOLEAN :
                 [at[p] EXCEPT !.todo = todo, !.failed = failed] \in Place
<1>1. at[p] \in Place
  BY DEF Types
<1>. QED BY <1>1 DEF Place

\* What is left to show of a step of process p.
LEMMA StepOf ==
    ASSUME IInv, NEW p \in Process, Others(p), Types', Held', Alone',
           Forward, MarkersTrue', Sound(p)',
           (\E q \in Process \ {p} : at[q].pc \in {"ensure", "up"}) => Stays,
           (\E q \in Process \ {p} : at[q].pc \in {"fts", "drop", "make"}) =>
               mark'.fts = mark.fts
    PROVE  IInv'
<1>1. ASSUME NEW q \in Process \ {p}
      PROVE  Sound(q)'
  BY OtherSound DEF Others
<1>. QED BY <1>1 DEF IInv

-----------------------------------------------------------------------------
(* The steps, one by one.                                                  *)

\* The steps that leave the disk alone, but for the markers.
LEMMA WalkStep ==
    ASSUME IInv, NEW p \in Process,
           \/ Start(p) \/ Verified(p) \/ TakeForSchema(p) \/ TakeForFts(p)
           \/ GiveUp(p) \/ Dropped(p) \/ Made(p) \/ Ready(p)
           \/ Rebuild(p) \/ TablesDropped(p) \/ Dies(p)
    PROVE  IInv'
<1>. USE DEF disk, Lets
<1>1. UNCHANGED disk
  BY DEF Start, Verified, TakeForSchema, TakeForFts, GiveUp, Dropped, Made,
         Ready, Rebuild, TablesDropped, Dies
<1>2. Moves(p)
  <2>1. CASE \/ Start(p) \/ Verified(p) \/ GiveUp(p) \/ Ready(p)
             \/ Rebuild(p) \/ TablesDropped(p) \/ Dies(p)
    BY <2>1, GoesWalks DEF IInv, Pc, Start, Verified, GiveUp, Ready,
       Rebuild, TablesDropped, Dies
  <2>2. CASE TakeForSchema(p) \/ TakeForFts(p)
    BY <2>2, GoesWalks DEF IInv, Pc, TakeForSchema, TakeForFts
  <2>3. CASE Dropped(p)
    <3>1. Bare(Begun(p)) \in SUBSET Column
      BY StoreAssumption DEF Bare, Begun
    <3>2. at' = [at EXCEPT ![p] = [at[p] EXCEPT !.pc = "make",
                                                !.cols = Bare(Begun(p))]]
      BY <2>3 DEF Dropped
    <3>. QED BY <3>1, <3>2, Places, Walks DEF IInv, Pc
  <2>4. CASE Made(p)
    <3>1. at' = [at EXCEPT ![p] = [at[p] EXCEPT !.pc = "fts"]]
      BY <2>4 DEF Made
    <3>. QED BY <3>1, Places, Walks DEF IInv, Pc
  <2>. QED BY <2>1, <2>2, <2>3, <2>4
<1>3. Types' /\ Others(p)
  BY <1>1, <1>2
  DEF IInv, Types, Moves, disk, Lets, Start, Verified, TakeForSchema,
      TakeForFts, GiveUp, Dropped, Made, Ready, Rebuild, TablesDropped, Dies
<1>. USE DEF Goes, At, Down
<1>4. Forward /\ Stays /\ MarkersTrue'
  BY <1>1, MarkersKeep DEF IInv, Forward, Stays
<1>5. Held'
  <2>1. CASE Start(p) \/ Verified(p) \/ GiveUp(p) \/ Dropped(p) \/ Made(p)
             \/ Ready(p) \/ Rebuild(p) \/ TablesDropped(p)
    BY <1>3, <2>1, HeldKeeps
    DEF IInv, Types, Place, Migrating, Start, Verified, GiveUp, Dropped, Made,
        Ready, Rebuild, TablesDropped
  <2>2. CASE TakeForSchema(p) \/ TakeForFts(p)
    BY <1>3, <2>2, HeldKeeps
    DEF IInv, Types, Place, Migrating, TakeForSchema, TakeForFts, RootFree
  <2>3. CASE Dies(p)
    BY <1>3, <2>3, HeldKeeps DEF IInv, Types, Place, Migrating, Dies
  <2>. QED BY <2>1, <2>2, <2>3
<1>6. Alone'
  BY <1>3, AloneKeeps
  DEF IInv, Types, Place, MayStart, Start, Verified, TakeForSchema,
      TakeForFts, GiveUp, Dropped, Made, Ready, Rebuild, TablesDropped, Dies,
      Waits
<1>7. Sound(p)'
  <2>. USE StoreAssumption, <1>1 DEF IInv, Types, Place
  <2>0. Sound(p)
    OBVIOUS
  <2>. USE <2>0 DEF Sound, Altered, Reindexed, Marked, Clean, Indexed
  <2>1. CASE Start(p) \/ GiveUp(p) \/ Rebuild(p) \/ Dies(p)
    BY <2>1 DEF Start, GiveUp, Rebuild, Dies
  <2>2. CASE Verified(p) \/ TablesDropped(p)
    BY <2>2 DEF Verified, TablesDropped
  <2>3. CASE TakeForSchema(p)
    BY <2>3 DEF TakeForSchema
  <2>4. CASE TakeForFts(p)
    BY <2>4 DEF TakeForFts
  <2>5. CASE Dropped(p)
    BY <2>5 DEF Dropped
  <2>6. CASE Made(p)
    BY <2>6 DEF Made
  <2>7. CASE Ready(p)
    BY <2>7 DEF Ready
  <2>. QED BY <2>1, <2>2, <2>3, <2>4, <2>5, <2>6, <2>7
<1>. QED BY <1>1, <1>3, <1>4, <1>5, <1>6, <1>7, StepOf

\* A table is opened, or made, and altered.
LEMMA TableStep ==
    ASSUME IInv, NEW p \in Process, NEW t \in Table,
           Verify(p, t) \/ Alter(p, t) \/ OpenFts(p, t) \/ Ensure(p, t)
    PROVE  IInv'
<1>1. root' = root /\ mark' = mark /\ idx' = idx
  BY DEF Verify, Alter, OpenFts, Ensure
<1>2. Opened(t) \in [here : BOOLEAN, nullable : BOOLEAN, drifted : BOOLEAN]
      /\ Opened(t).here
      /\ (table[t].nullable => Opened(t).nullable)
      /\ (~table[t].drifted => ~Opened(t).drifted)
  BY DEF IInv, Types, Place, Opened, Fresh
<1>3. PICK new \in [here : BOOLEAN, nullable : BOOLEAN, drifted : BOOLEAN] :
          /\ table' = [table EXCEPT ![t] = new]
          /\ new.here
          /\ table[t].nullable => new.nullable
          /\ ~table[t].drifted => ~new.drifted
  <2>1. CASE Verify(p, t) \/ OpenFts(p, t) \/ Ensure(p, t)
    BY <1>2, <2>1 DEF Verify, OpenFts, Ensure
  <2>2. CASE Alter(p, t)
    <3>1. PICK ok \in {TRUE, table[t].here /\ table[t].nullable} :
              table' = [table EXCEPT ![t] =
                           [Opened(t) EXCEPT !.nullable = @ \/ ok]]
      BY <2>2 DEF Alter
    <3>2. ok \in BOOLEAN
      BY DEF IInv, Types, Place
    <3>. DEFINE altered == [Opened(t) EXCEPT !.nullable = @ \/ ok]
    <3>3. /\ altered \in [here : BOOLEAN, nullable : BOOLEAN, drifted : BOOLEAN]
          /\ altered.here
          /\ table[t].nullable => altered.nullable
          /\ ~table[t].drifted => ~altered.drifted
      BY <1>2, <3>2
    <3>. QED BY <3>1, <3>3
  <2>. QED BY <2>1, <2>2
<1>4. Moves(p)
  <2>0. at[p].todo \ {t} \in SUBSET Table
    BY DEF IInv, Types, Place
  <2>1. CASE Verify(p, t)
    <3>1. \/ at' = [at EXCEPT ![p] = Down]
          \/ at' = [at EXCEPT ![p] = [at[p] EXCEPT !.todo = @ \ {t}]]
      BY <2>1 DEF Verify
    <3>. QED BY <2>0, <3>1, Places, Walks, GoesWalks DEF IInv, Pc
  <2>2. CASE Alter(p, t)
    <3>1. PICK ok \in {TRUE, table[t].here /\ table[t].nullable} :
              at' = [at EXCEPT ![p] = [at[p] EXCEPT !.todo = @ \ {t},
                                                    !.failed = @ \/ ~ok]]
      BY ZenonT(40), <2>2 DEF Alter
    <3>2. (at[p].failed \/ ~ok) \in BOOLEAN
      OBVIOUS
    <3>. QED BY <2>0, <3>1, <3>2, Places, Walks DEF IInv
  <2>3. CASE OpenFts(p, t)
    BY <2>3, StoreAssumption DEF IInv, Types, Place, Pc, Moves, Others, OpenFts
  <2>4. CASE Ensure(p, t)
    <3>1. Bare(Fields[t]) \in SUBSET Column
      BY StoreAssumption DEF Bare
    <3>2. at' = [at EXCEPT ![p] = [at[p] EXCEPT !.todo = @ \ {t},
                                                !.cols = Bare(Fields[t])]]
      BY <2>4 DEF Ensure
    <3>. QED BY <2>0, <3>1, <3>2, Places, Walks DEF IInv
  <2>. QED BY <2>1, <2>2, <2>3, <2>4
<1>5. Types' /\ Others(p)
  BY <1>1, <1>3, <1>4 DEF IInv, Types, Moves
<1>6. Forward /\ Stays
  BY <1>1, <1>3 DEF IInv, Types, Place, Forward, Stays
<1>7. MarkersTrue'
  BY <1>1, <1>6, MarkersKeep DEF IInv
<1>8. Held'
  BY <1>1, <1>5, HeldKeeps
  DEF IInv, Types, Place, Migrating, Verify, Alter, OpenFts, Ensure, Down, At
<1>9. Alone'
  BY <1>5, AloneKeeps
  DEF IInv, Types, Place, Verify, Alter, OpenFts, Ensure, Down, At
<1>10. Sound(p)'
  <2>. USE StoreAssumption, <1>1, <1>3, <1>6
       DEF IInv, Types, Place, Forward, Stays
  <2>0. Sound(p)
    OBVIOUS
  <2>. USE <2>0 DEF Sound, Altered, Reindexed, Marked, Clean, Indexed
  <2>1. CASE Verify(p, t)
    BY <2>1 DEF Verify, Down, At, Opened, Fresh
  <2>2. CASE Alter(p, t)
    <3>1. PICK ok \in {TRUE, table[t].here /\ table[t].nullable} :
              /\ table' = [table EXCEPT ![t] =
                              [Opened(t) EXCEPT !.nullable = @ \/ ok]]
              /\ at' = [at EXCEPT ![p].todo = @ \ {t}, ![p].failed = @ \/ ~ok]
      BY <2>2 DEF Alter
    <3>2. ok => table'[t].nullable
      BY <1>2, <3>1
    <3>3. /\ at'[p].pc = "schema" /\ at'[p].todo = at[p].todo \ {t}
          /\ at'[p].failed = (at[p].failed \/ ~ok)
      BY <2>2, <3>1 DEF Alter
    <3>. QED BY <3>2, <3>3, <2>2 DEF Alter
  <2>3. CASE OpenFts(p, t)
    BY <2>3 DEF OpenFts
  <2>4. CASE Ensure(p, t)
    BY <2>4 DEF Ensure, Bare, MarkersTrue
  <2>. QED BY <2>1, <2>2, <2>3, <2>4
<1>. QED BY <1>1, <1>5, <1>6, <1>7, <1>8, <1>9, <1>10, StepOf

\* An index is dropped or made: only the migration drops one, and only while
\* its marker is not written, so nobody is up to miss it.
LEMMA IndexStep ==
    ASSUME IInv, NEW p \in Process, NEW c \in Column,
           DropIndex(p, c) \/ MakeIndex(p, c)
    PROVE  IInv'
<1>1. root' = root /\ mark' = mark /\ table' = table
  BY DEF DropIndex, MakeIndex
<1>2. Types' /\ Others(p)
  <2>1. Moves(p)
    <3>1. at[p].cols \ {c} \in SUBSET Column
      BY DEF IInv, Types, Place
    <3>2. at' = [at EXCEPT ![p] = [at[p] EXCEPT !.cols = @ \ {c}]]
      BY DEF DropIndex, MakeIndex
    <3>. QED BY <3>1, <3>2, Places, Walks DEF IInv
  <2>2. idx' \in [Column -> {"none", "old", "new"}]
    BY DEF IInv, Types, DropIndex, MakeIndex
  <2>. QED BY <1>1, <2>1, <2>2 DEF IInv, Types, Moves
<1>3. Forward
  BY <1>1 DEF IInv, Types, Place, Forward, DropIndex, MakeIndex
<1>4. (\E q \in Process \ {p} : at[q].pc \in {"ensure", "up"}) => Stays
  BY <1>1
  DEF IInv, Types, Place, Stays, Sound, Marked, Reindexed, DropIndex, MakeIndex
<1>5. MarkersTrue'
  BY <1>1, <1>3, MarkersKeep DEF IInv
<1>6. Held'
  <2>1. at'[p].pc = at[p].pc
    BY DEF IInv, Types, Place, DropIndex, MakeIndex
  <2>. QED BY <1>1, <1>2, <2>1, HeldKeeps DEF IInv
<1>7. Alone'
  BY <1>2, AloneKeeps DEF IInv, Types, Place, DropIndex, MakeIndex
<1>8. Sound(p)'
  <2>. USE StoreAssumption, <1>1, <1>3 DEF IInv, Types, Place, Forward
  <2>0. Sound(p)
    OBVIOUS
  <2>. USE <2>0 DEF Sound, Altered, Reindexed, Marked, Clean, Indexed
  <2>1. CASE DropIndex(p, c)
    BY <2>1 DEF DropIndex
  <2>2. CASE MakeIndex(p, c)
    BY <2>2 DEF MakeIndex
  <2>. QED BY <2>1, <2>2
<1>. QED BY <1>1, <1>2, <1>3, <1>4, <1>5, <1>6, <1>7, <1>8, StepOf

\* A marker is written, by the holder of the lock, once the work is complete.
LEMMA MarkStep ==
    ASSUME IInv, NEW p \in Process, MarkSchema(p) \/ MarkFts(p)
    PROVE  IInv'
<1>1. table' = table /\ idx' = idx
  BY DEF MarkSchema, MarkFts
<1>2. Types' /\ Others(p)
  <2>1. Moves(p)
    BY GoesWalks DEF IInv, Pc, MarkSchema, MarkFts
  <2>2. root' \subseteq Process
    BY DEF IInv, Types, MarkSchema, MarkFts, Lets
  <2>3. mark' \in [schema : BOOLEAN, fts : BOOLEAN]
    BY DEF IInv, Types, MarkSchema, MarkFts
  <2>. QED BY <1>1, <2>1, <2>2, <2>3 DEF IInv, Types, Moves
<1>. USE DEF Goes, At, Down, Lets, Pc
<1>3. Forward /\ Stays
  BY <1>1 DEF IInv, Types, Place, Forward, Stays, MarkSchema, MarkFts
<1>4. MarkersTrue'
  <2>. USE StoreAssumption, <1>1 DEF IInv, Types, Place, MarkersTrue
  <2>0. Sound(p)
    OBVIOUS
  <2>1. CASE MarkSchema(p)
    BY <2>0, <2>1 DEF MarkSchema, Incomplete, Sound, Altered
  <2>2. CASE MarkFts(p)
    BY <2>0, <2>2 DEF MarkFts, Sound, Reindexed
  <2>. QED BY <2>1, <2>2
<1>5. Held'
  BY <1>2, HeldKeeps DEF IInv, Types, Place, Migrating, MarkSchema, MarkFts
<1>6. Alone'
  BY <1>2, AloneKeeps DEF IInv, Types, Place, MarkSchema, MarkFts
<1>7. Sound(p)'
  <2>. USE StoreAssumption, <1>1 DEF IInv, Types, Place
  <2>0. Sound(p)
    OBVIOUS
  <2>. USE <2>0 DEF Sound, Altered, Reindexed, Marked, Clean, Indexed
  <2>1. CASE MarkSchema(p)
    BY <2>1 DEF MarkSchema
  <2>2. CASE MarkFts(p)
    BY <2>2 DEF MarkFts
  <2>. QED BY <2>1, <2>2
<1>8. (\E q \in Process \ {p} : at[q].pc \in {"fts", "drop", "make"}) =>
          mark'.fts = mark.fts
  BY DEF IInv, Types, Place, Held, Migrating, MarkSchema, MarkFts
<1>. QED BY <1>2, <1>3, <1>4, <1>5, <1>6, <1>7, <1>8, StepOf

\* A rebuild drops a table: nobody is up to miss it.
LEMMA DropStep ==
    ASSUME IInv, NEW p \in Process, NEW t \in Table, DropTable(p, t)
    PROVE  IInv'
<1>. USE DEF DropTable, Gone
<1>1. root' = root /\ mark' = mark
  OBVIOUS
<1>2. Types' /\ Others(p)
  <2>1. Moves(p)
    <3>1. at[p].todo \ {t} \in SUBSET Table
      BY DEF IInv, Types, Place
    <3>2. at' = [at EXCEPT ![p] = [at[p] EXCEPT !.todo = @ \ {t}]]
      OBVIOUS
    <3>. QED BY <3>1, <3>2, Places, Walks DEF IInv
  <2>2. /\ table' \in [Table -> [here : BOOLEAN, nullable : BOOLEAN,
                                 drifted : BOOLEAN]]
        /\ idx' \in [Column -> {"none", "old", "new"}]
    BY DEF IInv, Types
  <2>. QED BY <1>1, <2>1, <2>2 DEF IInv, Types, Moves
<1>3. Forward
  BY <1>1 DEF IInv, Types, Place, Forward
<1>4. \A q \in Process \ {p} : at[q].pc = "down"
  BY DEF IInv, Alone
<1>5. MarkersTrue'
  BY <1>1, <1>3, MarkersKeep DEF IInv
<1>6. Held'
  BY <1>1, <1>2, HeldKeeps DEF IInv, Types, Place, Migrating
<1>7. Alone'
  BY <1>2, AloneKeeps DEF IInv, Types, Place
<1>8. Sound(p)'
  <2>0. Sound(p)
    BY DEF IInv
  <2>. QED
    BY <2>0, <1>1, <1>3, StoreAssumption
    DEF IInv, Types, Place, Forward, Sound, Altered, Reindexed, Marked, Clean,
        Indexed
<1>. QED BY <1>1, <1>2, <1>3, <1>4, <1>5, <1>6, <1>7, <1>8, StepOf

\* The tasks of the server take no index away: one that is replaced stays in
\* place until the new one is there.
LEMMA TaskStep ==
    ASSUME IInv, NEW k \in Task,
           \/ Request(k) \/ Lookup(k) \/ Begin(k) \/ Return(k) \/ Hang(k)
           \/ Deadline(k)
    PROVE  IInv'
<1>1. UNCHANGED <<at, root, mark, table>>
  BY DEF Request, Lookup, Begin, Return, Hang, Deadline, disk
<1>2. idx' = idx \/ idx' = [c \in Column |-> IF c \in Fields[Watched]
                                             THEN "new" ELSE idx[c]]
  BY DEF Request, Lookup, Begin, Return, Hang, Deadline, disk, Replacing, IInv,
         Types
<1>3. Types' /\ Forward /\ Stays
  BY <1>1, <1>2 DEF IInv, Types, Place, Forward, Stays
<1>4. MarkersTrue'
  BY <1>1, <1>3, MarkersKeep DEF IInv
<1>5. Held' /\ Alone'
  BY <1>1 DEF IInv, Held, Alone
<1>6. ASSUME NEW q \in Process
      PROVE  Sound(q)'
  BY <1>1, <1>3, OtherSound
<1>. QED BY <1>3, <1>4, <1>5, <1>6 DEF IInv

-----------------------------------------------------------------------------
(* The theorems.                                                           *)

\* A root of any age, with no process on it, satisfies the invariant.
LEMMA Initially == Init => IInv
<1>. SUFFICES ASSUME Init PROVE IInv
  OBVIOUS
<1>. USE StoreAssumption DEF Init, InitTables, Gone, Down, At, Pc
<1>1. Types
  <2>1. /\ at \in [Process -> Place]
        /\ root \subseteq Process
    BY DEF Place
  <2>2. mark \in [schema : BOOLEAN, fts : BOOLEAN]
    <3>1. PICK old \in BOOLEAN : mark = [schema |-> old, fts |-> FALSE]
      OBVIOUS
    <3>. QED BY <3>1
  <2>4. idx \in [Column -> {"none", "old", "new"}]
    OBVIOUS
  <2>3. table \in [Table -> [here : BOOLEAN, nullable : BOOLEAN,
                             drifted : BOOLEAN]]
    <3>1. CASE table = [t \in Table |-> Gone]
      BY <3>1
    <3>2. CASE \E old \in BOOLEAN, with \in {{}, {Watched}} :
                  InitTables(old, with)
      <4>1. PICK old \in BOOLEAN, with \in {{}, {Watched}} :
                table = [t \in Table |-> [here |-> TRUE, nullable |-> ~old,
                                          drifted |-> t \in with]]
        BY <3>2
      <4>2. \A t \in Table : (t \in with) \in BOOLEAN
        OBVIOUS
      <4>. QED BY <4>1, <4>2
    <3>. QED BY <3>1, <3>2
  <2>. QED BY <2>1, <2>2, <2>3, <2>4 DEF Types
<1>2. Held /\ Alone
  BY DEF Held, Alone, Migrating
<1>3. MarkersTrue
  BY DEF MarkersTrue
<1>4. \A p \in Process : Sound(p)
  BY DEF Sound, Altered, Reindexed, Marked, Clean, Indexed
<1>. QED BY <1>1, <1>2, <1>3, <1>4 DEF IInv

\* Every step keeps it.
LEMMA Inductive == IInv /\ [Next]_vars => IInv'
<1>. SUFFICES ASSUME IInv, [Next]_vars PROVE IInv'
  OBVIOUS
<1>1. CASE UNCHANGED vars
  BY <1>1 DEF vars, disk, IInv, Types, Held, Alone, MarkersTrue, Sound, Altered,
              Reindexed, Marked, Clean, Indexed
<1>2. ASSUME NEW p \in Process,
             Startup(p) \/ Dies(p) \/ Rebuild(p) \/ TablesDropped(p)
      PROVE  IInv'
  BY <1>2, WalkStep, TableStep, IndexStep, MarkStep DEF Startup
<1>3. CASE \E p \in Process, t \in Table : DropTable(p, t)
  BY <1>3, DropStep
<1>4. CASE \E k \in Task : \/ Request(k) \/ Lookup(k) \/ Begin(k) \/ Return(k)
                           \/ Hang(k) \/ Deadline(k)
  BY <1>4, TaskStep
<1>. QED BY <1>1, <1>2, <1>3, <1>4 DEF Next

\* What a process has established by its place is enough once it is up.
LEMMA UpServes == IInv => Serves
BY StoreAssumption
DEF IInv, Types, Place, MarkersTrue, Sound, Marked, Clean, Indexed, Serves

\* So it always holds.
LEMMA Invariant == Spec => []IInv
BY Initially, Inductive, PTL DEF Spec

\* A version marker never promises what a crash, an error or a process beside
\* has left undone.
THEOREM MarkersAreTrue == Spec => []MarkersTrue
<1>1. IInv => MarkersTrue
  BY DEF IInv
<1>. QED BY <1>1, Invariant, PTL

\* Whoever is up finds every table and every index as its reads and writes need
\* them, whatever starts, migrates, rebuilds or dies beside it.
THEOREM ServesAlways == Spec => []Serves
BY UpServes, Invariant, PTL

-----------------------------------------------------------------------------
(* The lock of a table.  That two upserts never overlap is a fact about a  *)
(* queue; the deadline, the crash and the rebuild all take tasks out of it.*)

\* Where a task stands in the queue of the lock.
Stands(s, k) == \E i \in 1..Len(s) : s[i] = k

\* Nobody is twice in it.
Once(s) == \A i, j \in 1..Len(s) : s[i] = s[j] => i = j

\* What the proof needs to know of the types of the lock.
LockTypes ==
    /\ line \in Seq(Task)
    /\ task \in [Task -> {"idle", "queued", "lookup", "body"}]
    /\ hung \subseteq Task
    /\ snap \in [Writer -> SUBSET Writer]
    /\ rows \subseteq Writer
    /\ acked \subseteq Writer

\* The queue is of the tasks that want the lock, and only a server that is up
\* has any.
Queued ==
    /\ Once(line)
    /\ \A k \in Task : task[k] # "idle" <=> Stands(line, k)
    /\ \A k \in Task : task[k] # "idle" => at[server].pc = "up"

\* Only the first of it works, and what it has read is what the table has.
Turn ==
    /\ \A k \in Task : task[k] \in {"lookup", "body"} => Holds(k)
    /\ \A k \in Writer : task[k] = "body" /\ k \notin hung => snap[k] = rows

LockInv == LockTypes /\ Queued /\ Turn /\ Kept

\* Who leaves a queue takes nobody's place.
LEMMA Leaving ==
    ASSUME NEW S, NEW s \in Seq(S), Once(s), NEW k, Stands(s, k)
    PROVE  LET r == RemoveAt(s, CHOOSE i \in DOMAIN s : s[i] = k)
           IN  /\ r \in Seq(S) /\ Once(r)
               /\ \A j : Stands(r, j) <=> Stands(s, j) /\ j # k
               /\ s[1] # k => r # <<>> /\ Head(r) = s[1]
<1>. DEFINE n == Len(s)
            c == CHOOSE i \in DOMAIN s : s[i] = k
            r == RemoveAt(s, c)
<1>1. n \in Nat /\ s \in [1..n -> S] /\ DOMAIN s = 1..n
  BY LenProperties
<1>. HIDE DEF n
<1>2. c \in 1..n /\ s[c] = k
  BY <1>1 DEF Stands, n
<1>. HIDE DEF c
<1>3. PICK a : a = SubSeq(s, 1, c - 1)
  OBVIOUS
<1>4. PICK b : b = SubSeq(s, c + 1, n)
  OBVIOUS
<1>5. /\ a \in Seq(S) /\ Len(a) = c - 1
      /\ \A i \in 1..(c - 1) : a[i] = s[i]
  <2>1. 1 \in Int /\ c - 1 \in Int /\ \A i \in 1..(c - 1) : s[i] \in S
    BY <1>1, <1>2
  <2>2. /\ a \in Seq(S)
        /\ Len(a) = IF 1 <= c - 1 THEN c - 1 - 1 + 1 ELSE 0
        /\ \A i \in 1..(c - 1 - 1 + 1) : a[i] = s[1 + i - 1]
    BY <2>1, <1>3, SubSeqProperties
  <2>. QED BY <1>1, <1>2, <2>2
<1>6. /\ b \in Seq(S) /\ Len(b) = n - c
      /\ \A i \in 1..(n - c) : b[i] = s[c + i]
  <2>1. c + 1 \in Int /\ n \in Int /\ \A i \in (c + 1)..n : s[i] \in S
    BY <1>1, <1>2
  <2>2. /\ b \in Seq(S)
        /\ Len(b) = IF c + 1 <= n THEN n - (c + 1) + 1 ELSE 0
        /\ \A i \in 1..(n - (c + 1) + 1) : b[i] = s[c + 1 + i - 1]
    BY <2>1, <1>4, SubSeqProperties
  <2>3. (IF c + 1 <= n THEN n - (c + 1) + 1 ELSE 0) = n - c
    BY <1>1, <1>2
  <2>4. ASSUME NEW i \in 1..(n - c) PROVE b[i] = s[c + i]
    <3>1. i \in 1..(n - (c + 1) + 1) /\ c + 1 + i - 1 = c + i
      BY <1>1, <1>2
    <3>. QED BY <2>2, <3>1
  <2>. QED BY <2>2, <2>3, <2>4
<1>7. r = a \o b
  BY <1>3, <1>4 DEF RemoveAt, n
<1>8. /\ r \in Seq(S) /\ Len(r) = n - 1
      /\ \A i \in 1..(n - 1) : r[i] = IF i < c THEN s[i] ELSE s[i + 1]
  <2>1. /\ r \in Seq(S) /\ Len(r) = (c - 1) + (n - c)
        /\ \A i \in 1..((c - 1) + (n - c)) :
              r[i] = IF i <= c - 1 THEN a[i] ELSE b[i - (c - 1)]
    <3>1. /\ a \o b \in Seq(S) /\ Len(a \o b) = Len(a) + Len(b)
          /\ \A i \in 1..(Len(a) + Len(b)) :
                (a \o b)[i] = IF i <= Len(a) THEN a[i] ELSE b[i - Len(a)]
      BY <1>5, <1>6, ConcatProperties
    <3>. QED BY <1>5, <1>6, <1>7, <3>1
  <2>2. ASSUME NEW i \in 1..(n - 1)
        PROVE  r[i] = IF i < c THEN s[i] ELSE s[i + 1]
    <3>1. CASE i < c
      <4>1. /\ i \in 1..((c - 1) + (n - c)) /\ i <= c - 1
            /\ i \in 1..(c - 1)
        BY <1>1, <1>2, <3>1
      <4>. QED BY <1>5, <2>1, <3>1, <4>1
    <3>2. CASE ~(i < c)
      <4>1. i - (c - 1) \in 1..(n - c) /\ c + (i - (c - 1)) = i + 1
        BY <1>1, <1>2, <3>2
      <4>2. b[i - (c - 1)] = s[i + 1]
        BY <1>6, <4>1
      <4>3. i \in 1..((c - 1) + (n - c)) /\ ~(i <= c - 1)
        BY <1>1, <1>2, <3>2
      <4>. QED BY <2>1, <3>2, <4>2, <4>3
    <3>. QED BY <3>1, <3>2
  <2>. QED BY <1>1, <1>2, <2>1, <2>2
<1>. HIDE DEF r
<1>9. Once(r)
  <2>. SUFFICES ASSUME NEW i \in 1..(n - 1), NEW j \in 1..(n - 1), r[i] = r[j]
                PROVE  i = j
    BY <1>8 DEF Once
  <2>. DEFINE At1(m) == IF m < c THEN m ELSE m + 1
  <2>1. /\ At1(i) \in 1..n /\ At1(j) \in 1..n
        /\ r[i] = s[At1(i)] /\ r[j] = s[At1(j)]
    BY <1>1, <1>2, <1>8
  <2>2. At1(i) = At1(j)
    <3>. HIDE DEF At1
    <3>. QED BY <2>1 DEF Once, n
  <2>. QED BY <1>1, <1>2, <2>2
<1>10. ASSUME NEW j PROVE Stands(r, j) <=> Stands(s, j) /\ j # k
  <2>1. ASSUME Stands(r, j) PROVE Stands(s, j) /\ j # k
    <3>1. PICK i \in 1..(n - 1) : r[i] = j
      BY <1>8, <2>1 DEF Stands
    <3>2. PICK m \in 1..n : m # c /\ s[m] = j
      <4>1. CASE i < c
        BY <1>1, <1>2, <1>8, <3>1, <4>1
      <4>2. CASE ~(i < c)
        <5>1. i + 1 \in 1..n /\ i + 1 # c /\ s[i + 1] = j
          BY <1>1, <1>2, <1>8, <3>1, <4>2
        <5>. QED BY <5>1
      <4>. QED BY <4>1, <4>2
    <3>. QED BY <1>2, <3>2 DEF Stands, Once, n
  <2>2. ASSUME Stands(s, j), j # k PROVE Stands(r, j)
    <3>1. PICK m \in 1..n : s[m] = j
      BY <2>2 DEF Stands, n
    <3>2. m # c
      BY <1>2, <2>2, <3>1
    <3>3. PICK i \in 1..(n - 1) : r[i] = j
      <4>1. CASE m < c
        BY <1>1, <1>2, <1>8, <3>1, <4>1
      <4>2. CASE m > c
        <5>1. m - 1 \in 1..(n - 1) /\ ~(m - 1 < c) /\ (m - 1) + 1 = m
          BY <1>1, <1>2, <4>2
        <5>. QED BY <1>8, <3>1, <5>1
      <4>. QED BY <1>1, <1>2, <3>2, <4>1, <4>2
    <3>. QED BY <1>8, <3>3 DEF Stands
  <2>. QED BY <2>1, <2>2
<1>11. ASSUME s[1] # k PROVE r # <<>> /\ Head(r) = s[1]
  <2>1. c # 1
    BY <1>2, <1>11
  <2>2. n - 1 >= 1 /\ r[1] = s[1]
    BY <1>1, <1>2, <1>8, <2>1
  <2>3. r # <<>>
    BY <1>8, <2>2
  <2>. QED BY <1>8, <2>2, <2>3
<1>. QED BY <1>8, <1>9, <1>10, <1>11 DEF r, c

\* A task that leaves the queue takes itself out of everything, and nobody else
\* loses a turn or what it has read.
LEMMA LeaveStep ==
    ASSUME LockTypes, Queued, Turn, NEW k \in Task, task[k] # "idle", Leave(k),
           at' = at
    PROVE  /\ line' \in Seq(Task)
           /\ task' \in [Task -> {"idle", "queued", "lookup", "body"}]
           /\ hung' \subseteq Task
           /\ snap' \in [Writer -> SUBSET Writer]
           /\ Queued'
           /\ \A j \in Task : task'[j] \in {"lookup", "body"} => Holds(j)'
           /\ \A w \in Writer : task'[w] = "body" /\ w \notin hung' =>
                 /\ w # k /\ task[w] = "body" /\ w \notin hung
                 /\ snap'[w] = snap[w]
<1>. USE DEF Leave, Sets
<1>1. Once(line) /\ Stands(line, k) /\ line \in Seq(Task)
  BY DEF LockTypes, Queued
<1>2. /\ line' \in Seq(Task) /\ Once(line')
      /\ \A j : Stands(line', j) <=> Stands(line, j) /\ j # k
      /\ line[1] # k => line' # <<>> /\ Head(line') = line[1]
  BY <1>1, Leaving DEF Without
<1>3. task' = [task EXCEPT ![k] = "idle"]
  OBVIOUS
<1>4. /\ task' \in [Task -> {"idle", "queued", "lookup", "body"}]
      /\ hung' \subseteq Task
      /\ snap' \in [Writer -> SUBSET Writer]
  BY <1>3 DEF LockTypes
<1>5. Queued'
  BY <1>2, <1>3 DEF LockTypes, Queued
<1>6. ASSUME NEW j \in Task, task'[j] \in {"lookup", "body"} PROVE Holds(j)'
  <2>1. j # k /\ Holds(j)
    BY <1>3, <1>6 DEF LockTypes, Turn
  <2>. QED BY <1>1, <1>2, <2>1 DEF Holds
<1>7. ASSUME NEW w \in Writer, task'[w] = "body", w \notin hung'
      PROVE  /\ w # k /\ task[w] = "body" /\ w \notin hung
             /\ snap'[w] = snap[w]
  <2>1. w \in Task
    BY DEF Task
  <2>. QED BY <1>3, <1>7, <2>1 DEF LockTypes
<1>. QED BY <1>2, <1>4, <1>5, <1>6, <1>7

\* Who holds the lock is alone in it.
LEMMA OneAtWork ==
    ASSUME Turn, NEW j \in Task, NEW k \in Task,
           task[j] \in {"lookup", "body"}, task[k] \in {"lookup", "body"}
    PROVE  j = k
BY DEF Turn, Holds

\* What lands adds its row to those of the table, and takes none away.
LEMMA NothingIsOverwritten ==
    ASSUME LockTypes, Turn, NEW k \in Task, task[k] = "body", k \notin hung
    PROVE  Landed(k) = rows \cup ({k} \cap Writer)
BY DEF LockTypes, Turn, Landed

\* The steps of a task keep the order of the queue and the rows.
LEMMA LockTaskStep ==
    ASSUME LockInv, NEW k \in Task,
           \/ Request(k) \/ Lookup(k) \/ Begin(k) \/ Return(k) \/ Hang(k)
           \/ Deadline(k)
    PROVE  LockInv'
<1>. USE DEF LockInv
<1>1. CASE Request(k)
  <2>. USE <1>1 DEF Request, Sets
  <2>1. k \in Task /\ line \in Seq(Task)
    BY DEF LockTypes
  <2>2. /\ line' \in Seq(Task) /\ line' # <<>> /\ Len(line') = Len(line) + 1
        /\ \A i \in 1..Len(line) : line'[i] = line[i]
        /\ line'[Len(line) + 1] = k
    BY <2>1, AppendProperties
  <2>3. Len(line) \in Nat
    BY <2>1, LenProperties
  <2>4. ~Stands(line, k)
    BY DEF Queued
  <2>5. LockTypes'
    BY <2>2 DEF LockTypes
  <2>6. \A j : Stands(line', j) <=> Stands(line, j) \/ j = k
    BY <2>2, <2>3 DEF Stands
  <2>7. Once(line')
    BY <2>2, <2>3, <2>4 DEF Once, Stands, Queued
  <2>8. task' = [task EXCEPT ![k] = "queued"] /\ at' = at
    OBVIOUS
  <2>9. Queued'
    BY <2>6, <2>7, <2>8 DEF LockTypes, Queued
  <2>10. \A j \in Task : Holds(j) => Holds(j)'
    <3>1. Head(line') = IF line = <<>> THEN k ELSE Head(line)
      BY <2>1, HeadTailAppend
    <3>. QED BY <2>2, <3>1 DEF Holds
  <2>11. Turn'
    BY <2>8, <2>10 DEF LockTypes, Turn
  <2>. QED BY <2>5, <2>9, <2>11 DEF Kept
<1>2. CASE Lookup(k)
  <2>. USE <1>2 DEF Lookup, Sets
  <2>1. task' = [task EXCEPT ![k] = "lookup"]
    OBVIOUS
  <2>2. LockTypes'
    BY <2>1 DEF LockTypes
  <2>3. Queued'
    BY <2>1 DEF LockTypes, Queued
  <2>4. Turn'
    BY <2>1 DEF LockTypes, Turn, Holds
  <2>. QED BY <2>2, <2>3, <2>4 DEF Kept
<1>3. CASE Begin(k)
  <2>. USE <1>3 DEF Begin, Sets
  <2>1. /\ task' = [task EXCEPT ![k] = "body"]
        /\ snap' = IF k \in Writer THEN [snap EXCEPT ![k] = rows] ELSE snap
    OBVIOUS
  <2>2. LockTypes'
    BY <2>1 DEF LockTypes
  <2>3. Queued'
    BY <2>1 DEF LockTypes, Queued
  <2>4. (\A j \in Task : task[j] \in {"lookup", "body"} => Holds(j))'
    BY <2>1 DEF LockTypes, Turn, Holds
  <2>5. ASSUME NEW w \in Writer, task'[w] = "body", w \notin hung'
        PROVE  snap'[w] = rows'
    <3>1. CASE w = k
      BY <2>1, <3>1 DEF LockTypes
    <3>2. CASE w # k
      BY <2>1, <2>5, <3>2 DEF LockTypes, Turn, Task
    <3>. QED BY <3>1, <3>2
  <2>. QED BY <2>2, <2>3, <2>4, <2>5 DEF Kept, Turn
<1>4. CASE Return(k)
  <2>. USE <1>4 DEF Return
  <2>1. rows' = rows \cup ({k} \cap Writer)
    BY NothingIsOverwritten
  <2>2. at' = at /\ task[k] # "idle" /\ acked' = acked \cup ({k} \cap Writer)
    OBVIOUS
  <2>3. LockTypes'
    BY <2>1, <2>2, LeaveStep DEF LockTypes
  <2>4. Queued'
    BY <2>2, LeaveStep
  <2>5. \A w \in Writer : task'[w] = "body" => w \in hung'
    <3>1. \A w \in Writer : w \in Task
      BY DEF Task
    <3>. QED BY <2>2, <3>1, LeaveStep, OneAtWork
  <2>6. Turn'
    BY <2>2, <2>5, LeaveStep DEF Turn
  <2>. QED BY <2>1, <2>2, <2>3, <2>4, <2>6 DEF Kept
<1>5. CASE Hang(k)
  <2>. USE <1>5 DEF Hang
  <2>1. /\ hung' = hung \cup {k}
        /\ UNCHANGED <<at, line, task, snap, acked>>
    OBVIOUS
  <2>2. rows' \in {rows, rows \cup ({k} \cap Writer)}
    BY NothingIsOverwritten
  <2>3. LockTypes'
    BY <2>1, <2>2 DEF LockTypes
  <2>4. Queued'
    BY <2>1 DEF Queued
  <2>5. \A w \in Writer : task'[w] = "body" => w \in hung'
    <3>1. ASSUME NEW w \in Writer, task[w] = "body" PROVE w = k
      BY <3>1, OneAtWork DEF Task
    <3>. QED BY <2>1, <3>1
  <2>6. Turn'
    BY <2>1, <2>5 DEF Turn, Holds
  <2>. QED BY <2>1, <2>2, <2>3, <2>4, <2>6 DEF Kept
<1>6. CASE Deadline(k)
  <2>. USE <1>6 DEF Deadline, Bounded
  <2>1. at' = at /\ UNCHANGED <<rows, acked>>
    OBVIOUS
  <2>2. LockTypes'
    BY <2>1, LeaveStep DEF LockTypes
  <2>3. Queued'
    BY <2>1, LeaveStep
  <2>4. Turn'
    BY <2>1, LeaveStep DEF Turn
  <2>. QED BY <2>1, <2>2, <2>3, <2>4 DEF Kept
<1>. QED BY <1>1, <1>2, <1>3, <1>4, <1>5, <1>6

\* Whatever else happens leaves the lock alone, ends the server and with it all
\* its tasks, or drops the table while no server is up.
LEMMA LockOtherStep ==
    ASSUME IInv, LockInv, NEW p \in Process,
           \/ Startup(p) \/ Dies(p) \/ Rebuild(p) \/ TablesDropped(p)
           \/ \E t \in Table : DropTable(p, t)
    PROVE  LockInv'
<1>. USE DEF LockInv
<1>0. server \in Process
  BY DEF Process
<1>1. ASSUME UNCHANGED locks, at[server].pc = "up" => at'[server].pc = "up"
      PROVE  LockInv'
  BY <1>1 DEF locks, LockTypes, Queued, Turn, Holds, Kept
<1>2. CASE Startup(p)
  <2>1. UNCHANGED locks
    BY <1>2
    DEF Startup, Start, Verified, TakeForSchema, TakeForFts, GiveUp, MarkSchema,
        Dropped, Made, MarkFts, Ready, Verify, Alter, OpenFts, Ensure,
        DropIndex, MakeIndex
  <2>2. at[server].pc = "up" => at'[server].pc = "up"
    <3>1. at[p].pc # "up"
      BY <1>2
      DEF Startup, Start, Verified, TakeForSchema, TakeForFts, GiveUp, Waits,
          MarkSchema, Dropped, Made, MarkFts, Ready, Verify, Alter, OpenFts,
          Ensure, DropIndex, MakeIndex
    <3>2. \E u : at' = [at EXCEPT ![p] = u]
      BY <1>2, ZenonT(40)
      DEF Startup, Start, Verified, TakeForSchema, TakeForFts, GiveUp, Goes,
          MarkSchema, Dropped, Made, MarkFts, Ready, Verify, Alter, OpenFts,
          Ensure, DropIndex, MakeIndex
    <3>. QED BY <1>0, <3>1, <3>2 DEF IInv, Types
  <2>. QED BY <1>1, <2>1, <2>2
<1>3. CASE Dies(p)
  <2>1. CASE p = server
    <3>1. /\ line' = <<>> /\ task' = [k \in Task |-> "idle"] /\ hung' = {}
          /\ snap' = [k \in Writer |-> {}] /\ UNCHANGED <<rows, acked>>
      BY <1>3, <2>1 DEF Dies
    <3>2. line' \in Seq(Task) /\ Len(line') = 0
      BY <3>1, EmptySeq
    <3>3. LockTypes'
      BY <3>1, <3>2 DEF LockTypes
    <3>4. Queued'
      BY <3>1, <3>2 DEF Queued, Once, Stands
    <3>5. Turn'
      BY <3>1 DEF Turn, Task
    <3>. QED BY <3>1, <3>3, <3>4, <3>5 DEF Kept
  <2>2. CASE p # server
    BY <1>0, <1>1, <1>3, <2>2 DEF Dies, IInv, Types
  <2>. QED BY <2>1, <2>2
<1>4. CASE Rebuild(p) \/ TablesDropped(p)
  BY <1>0, <1>1, <1>4 DEF Rebuild, TablesDropped, Goes, At, IInv, Types
<1>5. ASSUME NEW t \in Table, DropTable(p, t) PROVE LockInv'
  <2>1. /\ UNCHANGED <<line, task, hung, snap>>
        /\ \/ rows' = {} /\ acked' = {}
           \/ UNCHANGED <<rows, acked>>
    BY <1>5 DEF DropTable
  <2>2. at[server].pc # "up"
    BY <1>0, <1>5 DEF DropTable, IInv, Alone
  <2>3. \A k \in Task : task[k] = "idle"
    BY <2>2 DEF Queued
  <2>4. LockTypes'
    BY <2>1 DEF LockTypes
  <2>5. Queued'
    BY <2>1, <2>3 DEF Queued
  <2>6. Turn'
    BY <2>1, <2>3 DEF Turn, Task
  <2>. QED BY <2>1, <2>4, <2>5, <2>6 DEF Kept
<1>. QED BY <1>2, <1>3, <1>4, <1>5

\* The lock is free when nothing has started, and each step keeps the invariant.
LEMMA LockInductive ==
    /\ Init => LockInv
    /\ IInv /\ LockInv /\ [Next]_vars => LockInv'
<1>1. Init => LockInv
  <2>. SUFFICES ASSUME Init PROVE LockInv
    OBVIOUS
  <2>1. line \in Seq(Task) /\ Len(line) = 0
    BY EmptySeq DEF Init
  <2>2. LockTypes
    BY <2>1 DEF Init, LockTypes
  <2>3. Queued
    BY <2>1 DEF Init, Queued, Once, Stands
  <2>4. Turn /\ Kept
    BY DEF Init, Turn, Kept, Task
  <2>. QED BY <2>2, <2>3, <2>4 DEF LockInv
<1>2. ASSUME IInv, LockInv, [Next]_vars PROVE LockInv'
  <2>1. CASE UNCHANGED vars
    BY <1>2, <2>1
    DEF vars, locks, LockInv, LockTypes, Queued, Turn, Holds, Kept
  <2>2. CASE Next
    BY <1>2, <2>2, LockTaskStep, LockOtherStep DEF Next
  <2>. QED BY <1>2, <2>1, <2>2
<1>. QED BY <1>1, <1>2

\* No acknowledged row is lost: whatever waits, hangs, is cancelled or dies, two
\* upserts of a table never overlap in a server, and a rebuild forgets a row
\* only with its table.
THEOREM AcknowledgedRowsAreKept == Spec => []Kept
<1>1. LockInv => Kept
  BY DEF LockInv
<1>. QED BY <1>1, LockInductive, Initially, Inductive, PTL DEF Spec

\* The lock of the root is free or one process holds it.
RootFits == root = {} \/ \E p \in Process : root = {p}

\* Nobody takes the lock of the root while it is held.
LEMMA RootStep == Types /\ RootFits /\ [Next]_vars => RootFits'
<1>. SUFFICES ASSUME Types, RootFits, [Next]_vars PROVE RootFits'
  OBVIOUS
<1>1. ASSUME \/ root' = root
             \/ \E p \in Process : root' = root \ {p}
             \/ \E p \in Process : root = {} /\ root' = {p}
      PROVE  RootFits'
  BY <1>1 DEF RootFits
<1>2. CASE UNCHANGED vars
  BY <1>1, <1>2 DEF vars
<1>3. ASSUME NEW p \in Process, Startup(p) PROVE RootFits'
  <2>1. CASE TakeForSchema(p) \/ TakeForFts(p)
    BY <1>1, <2>1 DEF TakeForSchema, TakeForFts, RootFree
  <2>2. CASE MarkSchema(p) \/ MarkFts(p)
    BY <1>1, <2>2 DEF MarkSchema, MarkFts, Lets
  <2>3. CASE ~(TakeForSchema(p) \/ TakeForFts(p) \/ MarkSchema(p) \/ MarkFts(p))
    <3>1. root' = root
      BY <1>3, <2>3
      DEF Startup, Start, Verified, GiveUp, Dropped, Made, Ready, Verify, Alter,
          OpenFts, Ensure, DropIndex, MakeIndex
    <3>. QED BY <1>1, <3>1
  <2>. QED BY <2>1, <2>2, <2>3
<1>4. ASSUME NEW p \in Process, Dies(p) \/ Rebuild(p) \/ TablesDropped(p)
      PROVE  RootFits'
  BY <1>1, <1>4 DEF Dies, Lets, Rebuild, TablesDropped
<1>5. ASSUME NEW p \in Process, NEW t \in Table, DropTable(p, t)
      PROVE  RootFits'
  BY <1>1, <1>5 DEF DropTable
<1>6. ASSUME NEW k \in Task,
             \/ Request(k) \/ Lookup(k) \/ Begin(k) \/ Return(k) \/ Hang(k)
             \/ Deadline(k)
      PROVE  RootFits'
  BY <1>1, <1>6 DEF Request, Lookup, Begin, Return, Hang, Deadline
<1>. QED BY <1>2, <1>3, <1>4, <1>5, <1>6 DEF Next

\* The types of the store are kept by its operations, and the lock of the root
\* never has two holders.
THEOREM TypeCorrect == Spec => []TypeOK
<1>1. Init => RootFits
  BY DEF Init, RootFits
<1>2. IInv /\ LockInv /\ RootFits => TypeOK
  <2>. SUFFICES ASSUME IInv, LockInv, RootFits PROVE TypeOK
    OBVIOUS
  <2>1. Cardinality(root) <= 1
    BY SMTT(30), FS_EmptySet, FS_Singleton DEF RootFits
  <2>. QED
    BY <2>1 DEF IInv, Types, Place, LockInv, LockTypes, TypeOK
<1>3. IInv /\ RootFits /\ [Next]_vars => RootFits'
  BY RootStep DEF IInv
<1>. QED
  BY <1>1, <1>2, <1>3, LockInductive, Initially, Inductive, PTL DEF Spec

-----------------------------------------------------------------------------
(* An upsert is atomic.                                                    *)

\* The upserts under way, as Upserts sees them.
Calling == {k \in Writer : task[k] # "idle"}

\* The steps of a task are those of an upsert, or not seen.
LEMMA AtomicTaskStep ==
    ASSUME LockInv, NEW k \in Task,
           \/ Request(k) \/ Lookup(k) \/ Begin(k) \/ Return(k) \/ Hang(k)
           \/ Deadline(k)
    PROVE  \/ Contract!Next
           \/ UNCHANGED <<Calling, rows, acked>>
<1>1. LockTypes /\ Turn
  BY DEF LockInv
<1>2. Writer \subseteq Task
  BY DEF Task
<1>3. ASSUME NEW pc, task' = [task EXCEPT ![k] = pc]
      PROVE  /\ \A j \in Writer \ {k} : task'[j] = task[j]
             /\ task'[k] = pc
  BY <1>1, <1>2, <1>3 DEF LockTypes
<1>4. CASE Request(k)
  <2>1. /\ task[k] = "idle" /\ task' = [task EXCEPT ![k] = "queued"]
        /\ UNCHANGED <<rows, acked>>
    BY <1>4 DEF Request, Sets
  <2>2. Calling' = Calling \cup ({k} \cap Writer)
    <3>1. /\ \A j \in Writer \ {k} : task'[j] = task[j]
          /\ task'[k] = "queued"
      BY <1>3, <2>1
    <3>. QED BY <2>1, <3>1 DEF Calling
  <2>3. CASE k \in Writer
    <3>1. k \notin Calling /\ Calling' = Calling \cup {k}
      BY <2>1, <2>2, <2>3 DEF Calling
    <3>2. Contract!Call(k)
      BY <2>1, <3>1 DEF Contract!Call, Calling
    <3>. QED BY <2>3, <3>2 DEF Contract!Next
  <2>4. CASE k \notin Writer
    BY <2>1, <2>2, <2>4
  <2>. QED BY <2>3, <2>4
<1>5. CASE Lookup(k) \/ Begin(k)
  <2>1. /\ task[k] # "idle" /\ UNCHANGED <<rows, acked>>
        /\ \E pc \in {"lookup", "body"} : task' = [task EXCEPT ![k] = pc]
    BY <1>5 DEF Lookup, Begin, Sets
  <2>2. Calling' = Calling
    BY <1>3, <2>1 DEF Calling
  <2>. QED BY <2>1, <2>2
<1>6. ASSUME task[k] # "idle", Leave(k)
      PROVE  /\ Calling' = Calling \ {k}
             /\ k \in Writer => k \in Calling
  <2>1. task' = [task EXCEPT ![k] = "idle"]
    BY <1>6 DEF Leave, Sets
  <2>. QED BY <1>3, <1>6, <2>1 DEF Calling
<1>7. CASE Return(k)
  <2>1. /\ Calling' = Calling \ {k}
        /\ k \in Writer => k \in Calling
        /\ rows' = rows \cup ({k} \cap Writer)
        /\ acked' = acked \cup ({k} \cap Writer)
    BY <1>1, <1>6, <1>7, NothingIsOverwritten DEF Return
  <2>2. CASE k \in Writer
    <3>1. Contract!Succeed(k)
      BY <2>1, <2>2 DEF Contract!Succeed, Calling
    <3>. QED BY <2>2, <3>1 DEF Contract!Next
  <2>3. CASE k \notin Writer
    BY <2>1, <2>3 DEF Calling
  <2>. QED BY <2>2, <2>3
<1>8. CASE Hang(k)
  <2>1. /\ Calling' = Calling /\ acked' = acked
        /\ task[k] # "idle"
    BY <1>8 DEF Hang, Calling
  <2>2. rows' \in {rows, rows \cup ({k} \cap Writer)}
    BY <1>1, <1>8, NothingIsOverwritten DEF Hang
  <2>3. CASE k \in Writer /\ rows' # rows
    <3>1. Contract!Land(k)
      BY <2>1, <2>2, <2>3 DEF Contract!Land, Calling
    <3>. QED BY <2>3, <3>1 DEF Contract!Next
  <2>4. CASE ~(k \in Writer /\ rows' # rows)
    BY <2>1, <2>2, <2>4
  <2>. QED BY <2>3, <2>4
<1>9. CASE Deadline(k)
  <2>1. /\ Calling' = Calling \ {k}
        /\ k \in Writer => k \in Calling
        /\ UNCHANGED <<rows, acked>>
    BY <1>6, <1>9 DEF Deadline, Bounded
  <2>2. CASE k \in Writer
    <3>1. Contract!TimeOut(k)
      BY <2>1, <2>2 DEF Contract!TimeOut, Calling
    <3>. QED BY <2>2, <3>1 DEF Contract!Next
  <2>3. CASE k \notin Writer
    BY <2>1, <2>3 DEF Calling
  <2>. QED BY <2>2, <2>3
<1>. QED BY <1>4, <1>5, <1>7, <1>8, <1>9

\* The steps of the processes are a crash, a drop, or not seen.
LEMMA AtomicOtherStep ==
    ASSUME IInv, LockInv, NEW p \in Process,
           \/ Startup(p) \/ Dies(p) \/ Rebuild(p) \/ TablesDropped(p)
           \/ \E t \in Table : DropTable(p, t)
    PROVE  \/ Contract!Next
           \/ UNCHANGED <<Calling, rows, acked>>
<1>0. server \in Process /\ Writer \subseteq Task
  BY DEF Process, Task
<1>1. CASE UNCHANGED locks
  BY <1>1 DEF locks, Calling
<1>2. CASE Startup(p) \/ Rebuild(p) \/ TablesDropped(p)
  <2>1. UNCHANGED locks
    BY <1>2
    DEF Startup, Start, Verified, TakeForSchema, TakeForFts, GiveUp, MarkSchema,
        Dropped, Made, MarkFts, Ready, Verify, Alter, OpenFts, Ensure,
        DropIndex, MakeIndex, Rebuild, TablesDropped
  <2>. QED BY <1>1, <2>1
<1>3. CASE Dies(p)
  <2>1. CASE UNCHANGED locks
    BY <1>1, <2>1
  <2>2. CASE /\ task' = [k \in Task |-> "idle"]
             /\ UNCHANGED <<rows, acked>>
    <3>1. Calling' = {}
      BY <1>0, <2>2 DEF Calling
    <3>2. Contract!Crash
      BY <2>2, <3>1 DEF Contract!Crash, Calling
    <3>. QED BY <3>2 DEF Contract!Next
  <2>. QED BY <1>3, <2>1, <2>2 DEF Dies
<1>4. ASSUME NEW t \in Table, DropTable(p, t)
      PROVE  \/ Contract!Drop
             \/ UNCHANGED <<Calling, rows, acked>>
  <2>1. /\ task' = task
        /\ \/ rows' = {} /\ acked' = {}
           \/ UNCHANGED <<rows, acked>>
    BY <1>4 DEF DropTable
  <2>2. at[server].pc # "up"
    BY <1>0, <1>4 DEF DropTable, IInv, Alone
  <2>3. Calling = {} /\ Calling' = Calling
    BY <1>0, <2>1, <2>2 DEF LockInv, Queued, Calling
  <2>. QED BY <2>1, <2>3 DEF Contract!Drop, Calling
<1>. QED BY <1>2, <1>3, <1>4 DEF Contract!Next

\* The store implements atomic upserts: whatever waits, hangs, is cancelled at
\* its deadline or dies with the server, a row that has reached the table stays
\* until the table is dropped, and an upsert that returns has put its row there.
THEOREM UpsertsAreAtomic == Spec => Atomic
<1>1. Init => Contract!Init
  BY DEF Init, Contract!Init, Task
<1>2. IInv /\ LockInv /\ [Next]_vars =>
        [Contract!Next]_<<{k \in Writer : task[k] # "idle"}, rows, acked>>
  <2>. SUFFICES ASSUME IInv, LockInv, [Next]_vars
                PROVE  \/ Contract!Next
                       \/ UNCHANGED <<Calling, rows, acked>>
    BY DEF Calling
  <2>1. CASE UNCHANGED vars
    BY <2>1 DEF vars, locks, Calling
  <2>2. CASE Next
    BY <2>2, AtomicTaskStep, AtomicOtherStep DEF Next
  <2>. QED BY <2>1, <2>2
<1>. QED
  BY <1>1, <1>2, LockInductive, Initially, Inductive, PTL
  DEF Spec, Atomic, Contract!Spec
=============================================================================
