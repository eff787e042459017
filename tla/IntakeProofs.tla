----------------------------- MODULE IntakeProofs -----------------------------
(***************************************************************************)
(* Safety of the intake, proved for every number of requests, sessions,    *)
(* lines, calls and failures, and for whatever the other clients add.      *)
(***************************************************************************)
EXTENDS IntakeProperties, FiniteSetTheorems, SequenceTheorems,
        WellFoundedInduction, TLAPS

Line == [wall : BOOLEAN, day : 0 .. MaxDay, ts : 1 .. MaxLines,
         role : {"user", "assistant"}]
Done == {"row", "started", "episode", "announced", "skipped"}
Cell == [session : Sessions, items : SUBSET Message, done : Done]

Request == [at : Step, session : Sessions, final : BOOLEAN,
            deferred : BOOLEAN, messages : SUBSET Message,
            merged : SUBSET Message, cells : Seq(SUBSET Message),
            mine : SUBSET Nat]

DeviceShapes ==
    /\ lines \in Seq(Line) /\ Len(lines) <= MaxLines
    /\ \A n \in DOMAIN lines : lines[n].ts <= n
    /\ cursor \in 0 .. Len(lines)
    /\ batch \in 0 .. Len(lines)
    /\ flight \in Slots \cup {None}
    /\ synced \in BOOLEAN
    /\ day \in 0 .. MaxDay
    /\ calls \in 0 .. MaxCalls
    /\ faults \in 0 .. MaxFaults

ServerShapes ==
    /\ buffer \in [Sessions -> SUBSET Message]
    /\ ledger \in Seq(Cell)
    /\ request \in [Slots -> Request]

\* The requests that have read the buffer and not yet written it; those
\* that have written it, or have answered.
Early == {"detect", "keep", "cut", "listed"}
Late  == {"kept", "emit", "extract", "announce", "ok"}

\* One request of a session is between its read and its answer.
Locked ==
    \A r, q \in Slots :
        /\ r # q
        /\ request[r].at \in Working
        /\ request[q].at \in Working
        => request[r].session # request[q].session

\* Every message of M is there under its id.
SameIds(M, S) == \A m \in M : \E x \in S : MessageId(x) = MessageId(m)

\* What a request holds in memory covers what it will replace; what it was
\* sent is in there, and in the tables once it has written them.
Holds(r) ==
    /\ request[r].at \in Early =>
        /\ buffer[request[r].session] \subseteq request[r].merged
        /\ SameIds(FilterForMode(request[r].messages), request[r].merged)
    /\ request[r].at \in {"cut", "listed"} =>
        /\ Carved(r) \subseteq request[r].merged
        /\ Len(request[r].cells) \in {1, 2}
    /\ request[r].at = "listed" => Carved(r) \subseteq InLedger
    /\ request[r].at \in Late =>
        SameIds(FilterForMode(request[r].messages), Stored)

\* How far the cells of a request are.
Mine(r) ==
    LET mine == request[r].mine IN
    /\ request[r].at \in {"idle", "queued", "detect", "keep", "kept", "cut"}
         => mine = {}
    /\ mine \subseteq DOMAIN ledger
    /\ IsFiniteSet(mine)
    /\ request[r].at \in {"listed", "emit"} =>
         \E i \in mine : ledger[i].done = "row"
    /\ request[r].at = "listed" => \A i \in mine : ledger[i].done = "row"
    /\ request[r].at = "emit" =>
         \A i \in mine : ledger[i].done \in {"row", "started"}
    /\ request[r].at = "extract" =>
         \A i \in mine : ledger[i].done \in {"started", "announced", "skipped"}
    /\ request[r].at = "announce" =>
         \E k \in mine :
            /\ ledger[k].done = "episode"
            /\ \A i \in mine \ {k} :
                 ledger[i].done \in {"started", "announced", "skipped"}
    /\ request[r].at = "ok" =>
         \A i \in mine : ledger[i].done \in {"announced", "skipped"}

\* No cell is of two requests.
Apart == \A r, q \in Slots : r # q => request[r].mine \cap request[q].mine = {}

ServerInv == /\ ServerShapes /\ Locked /\ Apart
             /\ \A r \in Slots : Holds(r) /\ Mine(r)

-----------------------------------------------------------------------------
(* The model's operators.                                                  *)

\* A set of numbers that is not empty has a smallest one.
LEMMA Smallest ==
    ASSUME NEW S \in SUBSET Nat, S # {}
    PROVE  \E i \in S : \A j \in S : i <= j
<1>1. PICK i \in S : \A j \in S : ~ (<<j, i>> \in OpToRel(<, Nat))
  BY NatLessThanWellFounded, WFMin
<1>2. \A j \in S : ~ (j < i)
  BY <1>1 DEF OpToRel
<1>. QED BY <1>2

\* First takes that one.
LEMMA FirstIsIn ==
    ASSUME NEW S \in SUBSET Nat, S # {}
    PROVE  First(S) \in S
BY Smallest DEF First

\* FirstOf does the same on the device.
LEMMA FirstOfIsIn ==
    ASSUME NEW S \in SUBSET Nat, S # {}
    PROVE  FirstOf(S) \in S
BY Smallest DEF FirstOf

\* The merge keeps what was buffered, and every new message under its id.
LEMMA MergeKeeps ==
    ASSUME NEW old \in SUBSET Message, NEW new \in SUBSET Message
    PROVE  /\ MergeDedupe(old, new) \subseteq old \cup new
           /\ old \subseteq MergeDedupe(old, new)
           /\ SameIds(new, MergeDedupe(old, new))
           /\ MergeDedupe(old, new) = {} => new = {}
BY DEF MergeDedupe, SameIds

\* The detector carves parts of what it is given, all of it in a flush.
LEMMA CutsCarve ==
    ASSUME NEW M \in SUBSET Message, NEW final \in BOOLEAN,
           NEW c \in Cuts(M, final)
    PROVE  /\ c \in Seq(SUBSET Message)
           /\ c # <<>> => Len(c) \in {1, 2}
           /\ UNION {c[i] : i \in DOMAIN c} \subseteq M
<1>1. \A N : Slices(N) \subseteq SUBSET N
  BY DEF Slices
<1>2. CASE c = <<>>
  BY <1>2
<1>3. CASE \E P \in SUBSET M : c = <<P>>
  BY <1>3
<1>4. CASE \E P, Q \in SUBSET M : c = <<P, Q>>
  BY <1>4
<1>5. \/ c = <<>>
      \/ \E P \in Slices(M) : c = <<P>>
      \/ \E P \in Slices(M) : \E Q \in Slices(M \ P) : c = <<P, Q>>
  BY DEF Cuts
<1>6. CASE \E P \in Slices(M) : c = <<P>>
  BY <1>1, <1>3, <1>6
<1>7. CASE \E P \in Slices(M) : \E Q \in Slices(M \ P) : c = <<P, Q>>
  <2>1. PICK P \in Slices(M) : \E Q \in Slices(M \ P) : c = <<P, Q>>
    BY <1>7
  <2>2. PICK Q \in Slices(M \ P) : c = <<P, Q>>
    BY <2>1
  <2>3. P \in SUBSET M /\ Q \in SUBSET M
    BY <1>1
  <2>. QED BY <1>4, <2>2, <2>3
<1>. QED BY <1>2, <1>5, <1>6, <1>7

-----------------------------------------------------------------------------
(* One request moves.                                                      *)

Others(r) == \A q \in Slots : q # r => request'[q] = request[q]

\* The fields that a handler seldom changes.
SameCall(r) == /\ request'[r].session = request[r].session
               /\ request'[r].messages = request[r].messages

\* Going to the next step changes nothing else.
LEMMA GoShapes ==
    ASSUME ServerShapes, NEW r \in Slots, NEW step \in Step, Go(r, step)
    PROVE  /\ request' \in [Slots -> Request] /\ Others(r) /\ SameCall(r)
           /\ request'[r].at = step
           /\ request'[r].merged = request[r].merged
           /\ request'[r].cells = request[r].cells
           /\ request'[r].mine = request[r].mine
BY DEF ServerShapes, Go, Others, SameCall, Request

\* Nothing that the request does takes anything away from the others.
Keeps(r) ==
    /\ ServerShapes'
    /\ Others(r)
    /\ \A s \in Sessions : s # request[r].session => buffer'[s] = buffer[s]
    /\ request[r].at \notin Working => buffer' = buffer
    /\ DOMAIN ledger \subseteq DOMAIN ledger'
    /\ \A i \in DOMAIN ledger :
         /\ ledger'[i].items = ledger[i].items
         /\ i \notin request[r].mine => ledger'[i] = ledger[i]
    /\ Stored \subseteq Stored'
    /\ \A i \in request'[r].mine :
         i \in request[r].mine \/ i \in DOMAIN ledger' \ DOMAIN ledger
    /\ request'[r].at \in Working =>
         /\ request'[r].session = request[r].session
         /\ request[r].at \in Working \/ LockFree(r)

\* The cells that are there stay.
LEMMA LedgerStays ==
    ASSUME ServerShapes, ServerShapes', DOMAIN ledger \subseteq DOMAIN ledger',
           \A i \in DOMAIN ledger : ledger'[i].items = ledger[i].items
    PROVE  InLedger \subseteq InLedger'
BY DEF InLedger

\* What is in the buffer or in a cell afterwards is stored.
LEMMA StoredIf ==
    ASSUME InLedger \subseteq InLedger',
           \A s \in Sessions : buffer[s] \subseteq Stored'
    PROVE  Stored \subseteq Stored'
BY DEF Stored

\* The other requests keep what they hold.
LEMMA OthersHold ==
    ASSUME ServerInv, NEW r \in Slots, Keeps(r), NEW q \in Slots, q # r
    PROVE  Holds(q)' /\ Mine(q)'
<1>1. /\ request'[q] = request[q] /\ Holds(q) /\ Mine(q)
      /\ request[q].session \in Sessions /\ ServerShapes
  BY DEF ServerInv, Keeps, Others, ServerShapes, Request
<1>2. request[q].at \in Early =>
        buffer'[request[q].session] = buffer[request[q].session]
  BY <1>1 DEF ServerInv, Locked, Keeps, Early, Working
<1>3. InLedger \subseteq InLedger' /\ Stored \subseteq Stored'
  BY <1>1, LedgerStays DEF Keeps
<1>4. Carved(q)' = Carved(q)
  BY <1>1 DEF Carved
<1>5. Holds(q)'
  <2>1. (request[q].at \in Early =>
          /\ buffer[request[q].session] \subseteq request[q].merged
          /\ SameIds(FilterForMode(request[q].messages), request[q].merged))'
    BY <1>1, <1>2 DEF Holds
  <2>2. (request[q].at \in {"cut", "listed"} =>
          /\ Carved(q) \subseteq request[q].merged
          /\ Len(request[q].cells) \in {1, 2})'
    BY <1>1, <1>4 DEF Holds
  <2>3. (request[q].at = "listed" => Carved(q) \subseteq InLedger)'
    BY <1>1, <1>3, <1>4 DEF Holds
  <2>4. (request[q].at \in Late =>
          SameIds(FilterForMode(request[q].messages), Stored))'
    BY <1>1, <1>3 DEF Holds, SameIds
  <2>. QED BY <2>1, <2>2, <2>3, <2>4 DEF Holds
<1>6. Mine(q)'
  <2>1. \A i \in request[q].mine :
          i \in DOMAIN ledger /\ i \notin request[r].mine
    BY <1>1 DEF ServerInv, Apart, Mine
  <2>2. \A i \in request[q].mine :
          i \in DOMAIN ledger' /\ ledger'[i] = ledger[i]
    BY <2>1 DEF Keeps
  <2>. QED BY <1>1, <2>2 DEF Mine
<1>. QED BY <1>5, <1>6

\* So a step of a request keeps the invariant if it keeps its own part of it.
LEMMA RequestStep ==
    ASSUME ServerInv, NEW r \in Slots, Keeps(r), Holds(r)', Mine(r)'
    PROVE  ServerInv'
<1>1. ServerShapes'
  BY DEF Keeps
<1>2. Locked'
  BY DEF ServerInv, Locked, Keeps, Others, LockFree
<1>3. Apart'
  <2>1. \A q \in Slots : request[q].mine \subseteq DOMAIN ledger
    BY DEF ServerInv, Mine
  <2>2. \A q \in Slots :
          q # r => request'[q] = request[q]
                   /\ request'[r].mine \cap request[q].mine = {}
    BY <2>1 DEF ServerInv, Apart, Keeps, Others
  <2>. QED BY <2>2 DEF ServerInv, Apart
<1>4. \A q \in Slots : Holds(q)' /\ Mine(q)'
  BY OthersHold
<1>. QED BY <1>1, <1>2, <1>3, <1>4 DEF ServerInv

\* What any step of the handler does: the cells of the request stay its own,
\* new ones are its own, and the call it answers is the same.
Served(r) ==
    /\ ServerInv' /\ Keeps(r) /\ SameCall(r)
    /\ request'[r].at \in Working \cup {"ok"}
    /\ request[r].mine \subseteq request'[r].mine
    /\ \A i \in DOMAIN ledger' \ DOMAIN ledger :
         request'[r].at \in Working /\ i \in request'[r].mine

-----------------------------------------------------------------------------
(* The handler, step by step.                                              *)

\* A step that leaves the tables alone.
LEMMA QuietKeeps ==
    ASSUME ServerInv, NEW r \in Slots, request' \in [Slots -> Request],
           Others(r), UNCHANGED <<buffer, ledger>>,
           request'[r].mine \subseteq request[r].mine,
           request'[r].at \in Working =>
             /\ request'[r].session = request[r].session
             /\ request[r].at \in Working \/ LockFree(r)
    PROVE  Keeps(r)
<1>1. ServerShapes'
  BY DEF ServerInv, ServerShapes
<1>2. Stored' = Stored
  BY DEF Stored, InLedger
<1>. QED BY <1>1, <1>2 DEF Keeps

\* Reading the buffer under the lock.
LEMMA ReadStep ==
    ASSUME ServerInv, NEW r \in Slots, Read(r)
    PROVE  Served(r)
<1>. DEFINE fresh  == FilterForMode(request[r].messages)
            merged == MergeDedupe(buffer[request[r].session], fresh)
            next   == IF fresh = {} /\ ~ request[r].final THEN "ok"
                      ELSE IF merged = {} THEN "ok"
                      ELSE IF /\ ~ request[r].final
                              /\ request[r].deferred \/ ~ HasUser(merged)
                           THEN "keep"
                      ELSE "detect"
<1>1. /\ request[r].at = "queued" /\ LockFree(r) /\ UNCHANGED <<buffer, ledger>>
      /\ request' = [request EXCEPT ![r].at = next, ![r].merged = merged]
  BY DEF Read
<1>2. /\ request \in [Slots -> Request] /\ request[r] \in Request
      /\ buffer[request[r].session] \in SUBSET Message
      /\ fresh \in SUBSET Message
  BY DEF ServerInv, ServerShapes, Request, FilterForMode
<1>3. /\ merged \in SUBSET Message
      /\ buffer[request[r].session] \subseteq merged
      /\ SameIds(fresh, merged)
      /\ merged = {} => fresh = {}
  BY <1>2, MergeKeeps
<1>4. /\ next \in {"ok", "keep", "detect"}
      /\ next = "ok" => fresh = {}
  BY <1>3
<1>. HIDE DEF next, merged
<1>5. /\ request' \in [Slots -> Request] /\ Others(r) /\ SameCall(r)
      /\ request'[r].at = next /\ request'[r].merged = merged
      /\ request'[r].mine = request[r].mine
  BY <1>1, <1>2, <1>3, <1>4 DEF Request, Step, Others, SameCall, Working
<1>6. Keeps(r)
  BY <1>1, <1>5, QuietKeeps DEF SameCall
<1>7. Holds(r)'
  <2>1. fresh' = fresh
    BY <1>5 DEF SameCall
  <2>2. next = "ok" => SameIds(fresh, Stored)'
    BY <1>4, <2>1 DEF SameIds
  <2>. QED BY <1>1, <1>3, <1>4, <1>5, <2>1, <2>2
           DEF Holds, Early, Late, SameIds, SameCall
<1>8. Mine(r)'
  BY <1>1, <1>4, <1>5 DEF ServerInv, Mine
<1>9. ServerInv'
  BY <1>6, <1>7, <1>8, RequestStep
<1>. QED BY <1>1, <1>4, <1>5, <1>6, <1>9 DEF Served, Working

\* The detector decides in memory.
LEMMA DetectStep ==
    ASSUME ServerInv, NEW r \in Slots, Detect(r)
    PROVE  Served(r)
<1>1. PICK cells \in Cuts(request[r].merged, request[r].final) :
        request' = [request EXCEPT ![r].cells = cells,
                       ![r].at = IF cells = <<>> THEN "keep" ELSE "cut"]
  BY DEF Detect
<1>. DEFINE next == IF cells = <<>> THEN "keep" ELSE "cut"
<1>2. /\ request \in [Slots -> Request] /\ request[r] \in Request
      /\ request[r].at = "detect" /\ UNCHANGED <<buffer, ledger>>
      /\ request[r].merged \in SUBSET Message /\ request[r].final \in BOOLEAN
  BY DEF ServerInv, ServerShapes, Detect, Request
<1>3. /\ cells \in Seq(SUBSET Message)
      /\ cells # <<>> => Len(cells) \in {1, 2}
      /\ UNION {cells[i] : i \in DOMAIN cells} \subseteq request[r].merged
  BY <1>2, CutsCarve
<1>4. /\ request' = [request EXCEPT ![r].cells = cells, ![r].at = next]
      /\ next \in {"keep", "cut"} /\ (next = "cut" => cells # <<>>)
  BY <1>1
<1>. HIDE DEF next
<1>5. /\ request' \in [Slots -> Request] /\ Others(r) /\ SameCall(r)
      /\ request'[r].at = next /\ request'[r].cells = cells
      /\ request'[r].merged = request[r].merged
      /\ request'[r].mine = request[r].mine
  BY <1>2, <1>3, <1>4 DEF Request, Step, Working, Others, SameCall
<1>6. Keeps(r)
  BY <1>2, <1>5, QuietKeeps DEF SameCall, Working
<1>7. Holds(r)'
  <2>1. Carved(r)' \subseteq request[r].merged
    BY <1>3, <1>5 DEF Carved
  <2>. QED BY <1>2, <1>3, <1>4, <1>5, <2>1
           DEF ServerInv, Holds, Early, Late, SameCall
<1>8. Mine(r)'
  BY <1>2, <1>4, <1>5 DEF ServerInv, Mine
<1>9. ServerInv'
  BY <1>6, <1>7, <1>8, RequestStep
<1>. QED BY <1>2, <1>4, <1>5, <1>6, <1>9 DEF Served, Working

\* Writing the buffer under the lock replaces rows that the request holds.
LEMMA WriteBuffer ==
    ASSUME ServerInv, NEW r \in Slots, NEW step \in {"kept", "emit"},
           NEW M \in SUBSET request[r].merged, request[r].at \in Early,
           request[r].merged \subseteq M \cup InLedger,
           buffer' = [buffer EXCEPT ![request[r].session] = M],
           Go(r, step), UNCHANGED ledger
    PROVE  Keeps(r) /\ Holds(r)'
<1>1. /\ ServerShapes /\ request[r] \in Request
      /\ request[r].session \in Sessions /\ step \in Step
      /\ request[r].merged \in SUBSET Message
  BY DEF ServerInv, ServerShapes, Request, Step, Working
<1>2. /\ request' \in [Slots -> Request] /\ Others(r) /\ SameCall(r)
      /\ request'[r].at = step /\ request'[r].mine = request[r].mine
  BY <1>1, GoShapes
<1>3. /\ buffer' \in [Sessions -> SUBSET Message]
      /\ buffer'[request[r].session] = M
      /\ \A s \in Sessions : s # request[r].session => buffer'[s] = buffer[s]
  BY <1>1 DEF ServerShapes
<1>4. request[r].merged \subseteq Stored'
  BY <1>1, <1>3 DEF Stored, InLedger
<1>5. /\ buffer[request[r].session] \subseteq request[r].merged
      /\ SameIds(FilterForMode(request[r].messages), request[r].merged)
  BY DEF ServerInv, Holds
<1>6. Stored \subseteq Stored'
  <2>1. InLedger \subseteq InLedger'
    BY DEF InLedger
  <2>2. \A s \in Sessions : buffer[s] \subseteq Stored'
    BY <1>3, <1>4, <1>5 DEF Stored
  <2>. QED BY <2>1, <2>2, StoredIf
<1>7. Keeps(r)
  <2>1. ServerShapes'
    BY <1>1, <1>2, <1>3 DEF ServerShapes
  <2>2. request[r].at \in Working
    BY DEF Early, Working
  <2>. QED BY <1>2, <1>3, <1>6, <2>1, <2>2 DEF Keeps, SameCall
<1>8. SameIds(FilterForMode(request[r].messages), Stored)'
  BY <1>2, <1>4, <1>5 DEF SameIds, SameCall
<1>9. Holds(r)'
  BY <1>2, <1>8 DEF Holds, Early, Late
<1>. QED BY <1>7, <1>9

\* Putting everything back.
LEMMA KeepAllStep ==
    ASSUME ServerInv, NEW r \in Slots, KeepAll(r)
    PROVE  Served(r)
<1>1. /\ request[r].at = "keep" /\ Go(r, "kept") /\ UNCHANGED ledger
      /\ buffer' = [buffer EXCEPT ![request[r].session] = request[r].merged]
  BY DEF KeepAll
<1>2. Keeps(r) /\ Holds(r)'
  BY <1>1, WriteBuffer DEF Early
<1>3 /\ SameCall(r)
      /\ request'[r].at = "kept" /\ request'[r].mine = request[r].mine
  BY <1>1, GoShapes DEF ServerInv, Step, Working
<1>4. Mine(r)'
  BY <1>1, <1>3 DEF ServerInv, Mine
<1>5. ServerInv'
  BY <1>2, <1>4, RequestStep
<1>. QED BY <1>1, <1>2, <1>3, <1>5 DEF Served, Working

\* Putting the tail back, when the cells are in the ledger.
LEMMA ReplaceTailStep ==
    ASSUME ServerInv, NEW r \in Slots, ReplaceTail(r)
    PROVE  Served(r)
<1>1. /\ request[r].at = "listed" /\ Go(r, "emit") /\ UNCHANGED ledger
      /\ buffer' = [buffer EXCEPT ![request[r].session] = TailOf(r)]
  BY DEF ReplaceTail
<1>2. /\ TailOf(r) \in SUBSET request[r].merged
      /\ request[r].merged \subseteq TailOf(r) \cup InLedger
  BY <1>1 DEF ServerInv, Holds, TailOf
<1>3. Keeps(r) /\ Holds(r)'
  BY <1>1, <1>2, WriteBuffer DEF Early
<1>4 /\ SameCall(r)
      /\ request'[r].at = "emit" /\ request'[r].mine = request[r].mine
  BY <1>1, GoShapes DEF ServerInv, Step, Working
<1>5. Mine(r)'
  BY <1>1, <1>4 DEF ServerInv, Mine
<1>6. ServerInv'
  BY <1>3, <1>5, RequestStep
<1>. QED BY <1>1, <1>3, <1>4, <1>6 DEF Served, Working

\* A step of the request that leaves the tables and its cells alone.
LEMMA TouchStep ==
    ASSUME ServerInv, NEW r \in Slots, TouchLastMessage(r)
    PROVE  Served(r)
<1>1. /\ request[r].at = "kept" /\ Go(r, "ok") /\ UNCHANGED <<buffer, ledger>>
      /\ ServerShapes
  BY DEF TouchLastMessage, ServerInv
<1>2. /\ request' \in [Slots -> Request] /\ Others(r) /\ SameCall(r)
      /\ request'[r].at = "ok" /\ request'[r].mine = request[r].mine
  BY <1>1, GoShapes DEF Step
<1>3. Keeps(r)
  BY <1>1, <1>2, QuietKeeps DEF Working
<1>4. Holds(r)'
  BY <1>1, <1>2 DEF ServerInv, Holds, Early, Late, SameCall, SameIds, Stored,
                    InLedger
<1>5. Mine(r)'
  BY <1>1, <1>2 DEF ServerInv, Mine
<1>6. ServerInv'
  BY <1>3, <1>4, <1>5, RequestStep
<1>. QED BY <1>1, <1>2, <1>3, <1>6 DEF Served, Working

\* Cells appended to the ledger leave the others where they are.
LEMMA Appended ==
    ASSUME NEW s \in Seq(Cell), NEW t \in Seq(Cell)
    PROVE  /\ s \o t \in Seq(Cell)
           /\ DOMAIN (s \o t) = 1 .. Len(s) + Len(t)
           /\ \A i \in DOMAIN s : (s \o t)[i] = s[i]
           /\ \A i \in DOMAIN t : (s \o t)[Len(s) + i] = t[i]
           /\ \A i \in Len(s) + 1 .. Len(s) + Len(t) :
                (s \o t)[i] = t[i - Len(s)]
<1>1. /\ s \o t \in Seq(Cell) /\ Len(s \o t) = Len(s) + Len(t)
      /\ \A i \in 1 .. Len(s) + Len(t) :
           (s \o t)[i] = IF i <= Len(s) THEN s[i] ELSE t[i - Len(s)]
  BY ConcatProperties
<1>2. DOMAIN (s \o t) = 1 .. Len(s) + Len(t)
  BY <1>1
<1>. QED BY <1>1, <1>2

\* The cells of a request enter the ledger behind those that are there.
LEMMA InsertShapes ==
    ASSUME ServerInv, NEW r \in Slots, InsertCells(r)
    PROVE  /\ request[r].at = "cut" /\ UNCHANGED buffer
           /\ request' \in [Slots -> Request] /\ Others(r) /\ SameCall(r)
           /\ request'[r].at = "listed"
           /\ request'[r].cells = request[r].cells
           /\ request'[r].merged = request[r].merged
           /\ request'[r].mine # {} /\ IsFiniteSet(request'[r].mine)
           /\ Len(ledger) \in Nat
           /\ ledger' \in Seq(Cell)
           /\ DOMAIN ledger' = DOMAIN ledger \cup request'[r].mine
           /\ \A i \in DOMAIN ledger : ledger'[i] = ledger[i]
           /\ \A i \in DOMAIN request[r].cells :
                /\ Len(ledger) + i \in request'[r].mine
                /\ ledger'[Len(ledger) + i].items = request[r].cells[i]
           /\ \A i \in request'[r].mine :
                /\ i \notin DOMAIN ledger /\ ledger'[i].done = "row"
                /\ i \in Nat /\ i - Len(ledger) \in DOMAIN request[r].cells
                /\ ledger'[i].items = request[r].cells[i - Len(ledger)]
<1>. DEFINE rows == [i \in DOMAIN request[r].cells |->
                       [session |-> request[r].session,
                        items |-> request[r].cells[i], done |-> "row"]]
            mine == Len(ledger) + 1 .. Len(ledger) + Len(rows)
<1>1. /\ request[r].at = "cut" /\ UNCHANGED buffer /\ ledger' = ledger \o rows
      /\ request' = [request EXCEPT ![r].at = "listed", ![r].mine = mine]
  BY DEF InsertCells
<1>2. /\ request \in [Slots -> Request] /\ request[r] \in Request
      /\ request[r].session \in Sessions
      /\ request[r].cells \in Seq(SUBSET Message)
      /\ ledger \in Seq(Cell) /\ Len(ledger) \in Nat
  BY DEF ServerInv, ServerShapes, Request
<1>3. /\ rows \in Seq(Cell) /\ Len(rows) = Len(request[r].cells)
      /\ DOMAIN rows = DOMAIN request[r].cells
      /\ \A i \in DOMAIN rows :
           rows[i].items = request[r].cells[i] /\ rows[i].done = "row"
  <2>1. \A i \in DOMAIN rows : rows[i] \in Cell
    BY <1>2 DEF Cell, Done
  <2>2. DOMAIN rows = 1 .. Len(request[r].cells)
    BY <1>2
  <2>3. Len(request[r].cells) \in Nat
    BY <1>2
  <2>4. rows \in [1 .. Len(request[r].cells) -> Cell]
    BY <2>1, <2>2
  <2>5. \A i \in DOMAIN rows :
          rows[i].items = request[r].cells[i] /\ rows[i].done = "row"
    OBVIOUS
  <2>6. DOMAIN rows = DOMAIN request[r].cells
    OBVIOUS
  <2>. HIDE DEF rows
  <2>7. rows \in Seq(Cell) /\ Len(rows) = Len(request[r].cells)
    BY <2>2, <2>3, <2>4, SeqDef
  <2>. QED BY <2>5, <2>6, <2>7
<1>. HIDE DEF rows
<1>4. Len(rows) \in {1, 2} /\ Len(rows) \in Nat
  BY <1>1, <1>3 DEF ServerInv, Holds
<1>5. mine \in SUBSET Nat /\ IsFiniteSet(mine) /\ Len(ledger) + 1 \in mine
  <2>1. Len(ledger) + 1 \in Int /\ Len(ledger) + Len(rows) \in Int
    BY <1>2, <1>4
  <2>2. IsFiniteSet(mine)
    BY <2>1, FS_Interval
  <2>3. \A i \in mine : i \in Nat
    BY <1>2, <1>4
  <2>4. Len(rows) \in Nat /\ Len(rows) >= 1
    BY <1>4
  <2>5. Len(ledger) + 1 \in mine
    BY <1>2, <2>4
  <2>. QED BY <2>2, <2>3, <2>5
<1>6. /\ request' \in [Slots -> Request] /\ Others(r) /\ SameCall(r)
      /\ request'[r].at = "listed" /\ request'[r].mine = mine
      /\ request'[r].cells = request[r].cells
      /\ request'[r].merged = request[r].merged
  BY <1>1, <1>2, <1>5 DEF Request, Step, Working, Others, SameCall
<1>7. /\ ledger' \in Seq(Cell)
      /\ DOMAIN ledger' = DOMAIN ledger \cup mine
      /\ \A i \in DOMAIN ledger : ledger'[i] = ledger[i]
      /\ \A i \in DOMAIN rows : ledger'[Len(ledger) + i] = rows[i]
      /\ \A i \in mine : ledger'[i] = rows[i - Len(ledger)]
                         /\ i - Len(ledger) \in DOMAIN rows
  <2>1. /\ ledger' \in Seq(Cell)
        /\ DOMAIN ledger' = 1 .. Len(ledger) + Len(rows)
        /\ \A i \in DOMAIN ledger : ledger'[i] = ledger[i]
        /\ \A i \in DOMAIN rows : ledger'[Len(ledger) + i] = rows[i]
        /\ \A i \in mine : ledger'[i] = rows[i - Len(ledger)]
    BY <1>1, <1>2, <1>3, Appended
  <2>2. DOMAIN ledger = 1 .. Len(ledger) /\ DOMAIN rows = 1 .. Len(rows)
    BY <1>2, <1>3
  <2>. QED BY <1>2, <1>4, <2>1, <2>2
<1>8. \A i \in mine : i \notin DOMAIN ledger /\ ledger'[i].done = "row"
  BY <1>2, <1>3, <1>7
<1>9. \A i \in DOMAIN rows : Len(ledger) + i \in mine
  <2>1. DOMAIN rows = 1 .. Len(rows)
    BY <1>3
  <2>. QED BY <1>2, <1>4, <2>1
<1>. HIDE DEF mine
<1>. QED BY <1>1, <1>2, <1>3, <1>5, <1>6, <1>7, <1>8, <1>9, SMTT(40)

\* So every message that is carved is in the ledger, and nothing else is new.
LEMMA InsertStep ==
    ASSUME ServerInv, NEW r \in Slots, InsertCells(r)
    PROVE  Served(r) /\ InLedger' \subseteq InLedger \cup Carved(r)
<1>1. PICK mine : mine = request'[r].mine
  OBVIOUS
<1>2. /\ request[r].at = "cut" /\ UNCHANGED buffer
      /\ request' \in [Slots -> Request] /\ Others(r) /\ SameCall(r)
      /\ request'[r].at = "listed"
      /\ request'[r].cells = request[r].cells
      /\ request'[r].merged = request[r].merged
      /\ mine # {} /\ IsFiniteSet(mine)
  BY <1>1, InsertShapes
<1>3. /\ ledger' \in Seq(Cell)
      /\ DOMAIN ledger' = DOMAIN ledger \cup mine
      /\ \A i \in DOMAIN ledger : ledger'[i] = ledger[i]
      /\ \A i \in DOMAIN request[r].cells :
           /\ Len(ledger) + i \in mine
           /\ ledger'[Len(ledger) + i].items = request[r].cells[i]
      /\ \A i \in mine :
           /\ i \notin DOMAIN ledger /\ ledger'[i].done = "row"
           /\ i - Len(ledger) \in DOMAIN request[r].cells
           /\ ledger'[i].items = request[r].cells[i - Len(ledger)]
  BY <1>1, InsertShapes
<1>4. ServerShapes'
  BY <1>2, <1>3 DEF ServerInv, ServerShapes
<1>5. InLedger \subseteq InLedger' /\ Stored \subseteq Stored'
  <2>1. InLedger \subseteq InLedger'
    BY <1>3, <1>4, LedgerStays DEF ServerInv
  <2>. QED BY <1>2, <2>1 DEF Stored
<1>6. Keeps(r)
  BY <1>1, <1>2, <1>3, <1>4, <1>5 DEF Keeps, SameCall, Working
<1>7. Carved(r)' = Carved(r)
  BY <1>2 DEF Carved
<1>8. Holds(r)'
  <2>1. Carved(r) \subseteq InLedger'
    BY <1>3 DEF Carved, InLedger
  <2>. QED BY <1>2, <1>7, <2>1
           DEF ServerInv, Holds, Early, Late, SameCall
<1>9. Mine(r)'
  BY <1>1, <1>2, <1>3 DEF Mine
<1>10. request[r].mine = {}
  BY <1>2 DEF ServerInv, Mine
<1>11. ServerInv'
  BY <1>6, <1>8, <1>9, RequestStep
<1>12. Served(r)
  BY <1>1, <1>2, <1>3, <1>6, <1>10, <1>11 DEF Served, Working
<1>13. InLedger' \subseteq InLedger \cup Carved(r)
  BY <1>3 DEF InLedger, Carved
<1>. QED BY <1>12, <1>13

Marks(r, i, done) ==
    /\ ledger' = [ledger EXCEPT ![i].done = done]
    /\ UNCHANGED buffer
    /\ request' \in [Slots -> Request] /\ Others(r) /\ SameCall(r)
    /\ request[r].at \in {"emit", "extract", "announce"}
    /\ request'[r].at \in {"emit", "extract", "announce"}
    /\ request'[r].mine = request[r].mine

\* A cell of the request that gets further.
LEMMA MarkKeeps ==
    ASSUME ServerInv, NEW r \in Slots, NEW i \in request[r].mine,
           NEW done \in Done, Marks(r, i, done)
    PROVE  /\ Keeps(r) /\ Holds(r)'
           /\ DOMAIN ledger' = DOMAIN ledger
           /\ ledger'[i].done = done
           /\ \A j \in DOMAIN ledger : j # i => ledger'[j] = ledger[j]
<1>1. i \in DOMAIN ledger /\ ledger \in Seq(Cell) /\ ledger[i] \in Cell
  BY DEF ServerInv, ServerShapes, Mine
<1>2. /\ ledger' \in Seq(Cell) /\ DOMAIN ledger' = DOMAIN ledger
      /\ ledger'[i].done = done /\ ledger'[i].items = ledger[i].items
      /\ \A j \in DOMAIN ledger : j # i => ledger'[j] = ledger[j]
  <2>1. [ledger[i] EXCEPT !.done = done] \in Cell
    BY <1>1 DEF Cell
  <2>2. ledger' = [ledger EXCEPT ![i] = [ledger[i] EXCEPT !.done = done]]
    BY DEF Marks
  <2>3. ledger' \in Seq(Cell) /\ DOMAIN ledger' = DOMAIN ledger
    BY <1>1, <2>1, <2>2, ExceptSeq
  <2>4. ledger'[i] = [ledger[i] EXCEPT !.done = done]
    BY <1>1, <2>2
  <2>5. \A j \in DOMAIN ledger : j # i => ledger'[j] = ledger[j]
    BY <1>1, <2>2
  <2>. QED BY <1>1, <2>3, <2>4, <2>5 DEF Cell
<1>3. ServerShapes'
  BY <1>2 DEF Marks, ServerInv, ServerShapes
<1>4. InLedger \subseteq InLedger' /\ Stored \subseteq Stored'
  <2>1. InLedger \subseteq InLedger'
    BY <1>2, <1>3, LedgerStays DEF ServerInv
  <2>. QED BY <2>1 DEF Stored, Marks
<1>5. Keeps(r)
  BY <1>2, <1>3, <1>4 DEF Keeps, Marks, SameCall, Working
<1>6. Holds(r)'
  BY <1>4 DEF Marks, ServerInv, Holds, Early, Late, SameCall, SameIds
<1>. QED BY <1>2, <1>5, <1>6

\* The cells of a request that have come as far as done are some of its own.
LEMMA WaitingMine ==
    ASSUME ServerInv, NEW r \in Slots, NEW done
    PROVE  /\ Waiting(r, done) \in SUBSET Nat
           /\ \A i \in Waiting(r, done) :
                i \in request[r].mine /\ ledger[i].done = done
           /\ \A i \in request[r].mine :
                ledger[i].done = done => i \in Waiting(r, done)
           /\ Waiting(r, done) # {} =>
                First(Waiting(r, done)) \in Waiting(r, done)
           /\ IsFiniteSet(Waiting(r, done))
<1>1. request[r].mine \in SUBSET Nat /\ IsFiniteSet(request[r].mine)
  BY DEF ServerInv, ServerShapes, Request, Mine
<1>2. Waiting(r, done) \in SUBSET request[r].mine
  BY DEF Waiting
<1>3. IsFiniteSet(Waiting(r, done))
  BY <1>1, <1>2, FS_Subset
<1>4. Waiting(r, done) # {} => First(Waiting(r, done)) \in Waiting(r, done)
  BY <1>1, <1>2, FirstIsIn
<1>. QED BY <1>1, <1>2, <1>3, <1>4 DEF Waiting

\* Announcing the next cell to the engine.
LEMMA EmitStartedStep ==
    ASSUME ServerInv, NEW r \in Slots, EmitStarted(r)
    PROVE  Served(r)
<1>. DEFINE W == Waiting(r, "row")
            i == First(W)
            next == IF Cardinality(W) = 1 THEN "extract" ELSE "emit"
<1>1. /\ request[r].at = "emit" /\ Go(r, next) /\ UNCHANGED buffer
      /\ ledger' = [ledger EXCEPT ![i].done = "started"]
  BY DEF EmitStarted
<1>2. /\ W # {} /\ i \in W /\ IsFiniteSet(W)
      /\ \A j \in W : j \in request[r].mine /\ ledger[j].done = "row"
      /\ \A j \in request[r].mine : ledger[j].done = "row" => j \in W
  <2>1. \E j \in request[r].mine : ledger[j].done = "row"
    BY <1>1 DEF ServerInv, Mine
  <2>. QED BY <2>1, WaitingMine
<1>3. next = "extract" => \A j \in W : j = i
  BY <1>2, FS_Singleton
<1>4. next = "emit" => \E j \in W : j # i
  <2>1. SUFFICES ASSUME \A j \in W : j = i PROVE Cardinality(W) = 1
    OBVIOUS
  <2>2. W = {i}
    BY <1>2, <2>1
  <2>. QED BY <2>2, FS_Singleton
<1>5. next \in {"extract", "emit"}
  OBVIOUS
<1>. HIDE DEF W, i, next
<1>6. /\ request' \in [Slots -> Request] /\ Others(r) /\ SameCall(r)
      /\ request'[r].at = next /\ request'[r].mine = request[r].mine
  BY <1>1, <1>5, GoShapes DEF ServerInv, Step, Working
<1>7. Marks(r, i, "started") /\ i \in request[r].mine
  BY <1>1, <1>2, <1>5, <1>6 DEF Marks
<1>8. /\ Keeps(r) /\ Holds(r)'
      /\ DOMAIN ledger' = DOMAIN ledger
      /\ ledger'[i].done = "started"
      /\ \A j \in DOMAIN ledger : j # i => ledger'[j] = ledger[j]
  BY <1>7, MarkKeeps DEF Done
<1>9. Mine(r)'
  <2>1. /\ request[r].mine \subseteq DOMAIN ledger
        /\ IsFiniteSet(request[r].mine)
        /\ \A j \in request[r].mine : ledger[j].done \in {"row", "started"}
    BY <1>1 DEF ServerInv, Mine
  <2>2. \A j \in request[r].mine : ledger'[j].done \in {"row", "started"}
    BY <1>8, <2>1
  <2>3. next = "emit" => \E j \in request[r].mine : ledger'[j].done = "row"
    BY <1>2, <1>4, <1>8, <2>1
  <2>4. next = "extract" =>
          \A j \in request[r].mine : ledger'[j].done = "started"
    BY <1>2, <1>3, <1>8, <2>1
  <2>. QED BY <1>5, <1>6, <1>8, <2>1, <2>2, <2>3, <2>4 DEF Mine
<1>10. ServerInv'
  BY <1>8, <1>9, RequestStep
<1>. QED BY <1>5, <1>6, <1>8, <1>10 DEF Served, Working

\* Writing the next episode, or skipping a cell without a user.
LEMMA WriteEpisodeStep ==
    ASSUME ServerInv, NEW r \in Slots, WriteEpisode(r)
    PROVE  Served(r)
<1>. DEFINE i == First(Waiting(r, "started"))
<1>1. /\ request[r].at = "extract" /\ UNCHANGED buffer
      /\ i \in request[r].mine /\ ledger[i].done = "started"
  BY WaitingMine DEF WriteEpisode
<1>2. /\ request[r].mine \subseteq DOMAIN ledger
      /\ IsFiniteSet(request[r].mine)
      /\ \A j \in request[r].mine :
           ledger[j].done \in {"started", "announced", "skipped"}
  BY <1>1 DEF ServerInv, Mine
<1>3. CASE /\ HasUser(ledger[i].items)
           /\ ledger' = [ledger EXCEPT ![i].done = "episode"]
           /\ Go(r, "announce")
  <2>. HIDE DEF i
  <2>1. /\ request' \in [Slots -> Request] /\ Others(r) /\ SameCall(r)
        /\ request'[r].at = "announce"
        /\ request'[r].mine = request[r].mine
    BY <1>3, GoShapes DEF ServerInv, Step, Working
  <2>2. Marks(r, i, "episode")
    BY <1>1, <1>3, <2>1 DEF Marks
  <2>3. /\ Keeps(r) /\ Holds(r)'
        /\ DOMAIN ledger' = DOMAIN ledger
        /\ ledger'[i].done = "episode"
        /\ \A j \in DOMAIN ledger : j # i => ledger'[j] = ledger[j]
    BY <1>1, <2>2, MarkKeeps DEF Done
  <2>4. Mine(r)'
    BY <1>1, <1>2, <2>1, <2>3 DEF Mine
  <2>5. ServerInv'
    BY <2>3, <2>4, RequestStep
  <2>. QED BY <2>1, <2>3, <2>5 DEF Served, Working
<1>4. CASE /\ ledger' = [ledger EXCEPT ![i].done = "skipped"]
           /\ UNCHANGED request
  <2>. HIDE DEF i
  <2>1. /\ request' \in [Slots -> Request] /\ Others(r) /\ SameCall(r)
        /\ request'[r].at = "extract"
        /\ request'[r].mine = request[r].mine
    BY <1>1, <1>4 DEF ServerInv, ServerShapes, Others, SameCall
  <2>2. Marks(r, i, "skipped")
    BY <1>1, <1>4, <2>1 DEF Marks
  <2>3. /\ Keeps(r) /\ Holds(r)'
        /\ DOMAIN ledger' = DOMAIN ledger
        /\ ledger'[i].done = "skipped"
        /\ \A j \in DOMAIN ledger : j # i => ledger'[j] = ledger[j]
    BY <1>1, <2>2, MarkKeeps DEF Done
  <2>4. Mine(r)'
    BY <1>1, <1>2, <2>1, <2>3 DEF Mine
  <2>5. ServerInv'
    BY <2>3, <2>4, RequestStep
  <2>. QED BY <2>1, <2>3, <2>5 DEF Served, Working
<1>. QED BY <1>3, <1>4 DEF WriteEpisode

\* Announcing an episode.
LEMMA EmitExtractedStep ==
    ASSUME ServerInv, NEW r \in Slots, EmitExtracted(r)
    PROVE  Served(r)
<1>. DEFINE W == Waiting(r, "episode")
            i == First(W)
<1>1. /\ request[r].at = "announce" /\ Go(r, "extract") /\ UNCHANGED buffer
      /\ ledger' = [ledger EXCEPT ![i].done = "announced"]
  BY DEF EmitExtracted
<1>2. PICK k \in request[r].mine :
         /\ ledger[k].done = "episode"
         /\ \A j \in request[r].mine \ {k} :
              ledger[j].done \in {"started", "announced", "skipped"}
  BY <1>1 DEF ServerInv, Mine
<1>3. i = k
  <2>1. k \in W /\ i \in W
    BY <1>2, WaitingMine
  <2>2. i \in request[r].mine /\ ledger[i].done = "episode"
    BY <2>1, WaitingMine
  <2>. QED BY <1>2, <2>2
<1>. HIDE DEF i
<1>4. /\ request' \in [Slots -> Request] /\ Others(r) /\ SameCall(r)
      /\ request'[r].at = "extract" /\ request'[r].mine = request[r].mine
  BY <1>1, GoShapes DEF ServerInv, Step, Working
<1>5. Marks(r, i, "announced") /\ i \in request[r].mine
  BY <1>1, <1>2, <1>3, <1>4 DEF Marks
<1>6. /\ Keeps(r) /\ Holds(r)'
      /\ DOMAIN ledger' = DOMAIN ledger
      /\ ledger'[i].done = "announced"
      /\ \A j \in DOMAIN ledger : j # i => ledger'[j] = ledger[j]
  BY <1>5, MarkKeeps DEF Done
<1>7. Mine(r)'
  <2>1. /\ request[r].mine \subseteq DOMAIN ledger
        /\ IsFiniteSet(request[r].mine)
    BY DEF ServerInv, Mine
  <2>2. \A j \in request[r].mine :
          ledger'[j].done \in {"started", "announced", "skipped"}
    BY <1>2, <1>3, <1>6, <2>1
  <2>. QED BY <1>4, <1>6, <2>1, <2>2 DEF Mine
<1>8. ServerInv'
  BY <1>6, <1>7, RequestStep
<1>. QED BY <1>4, <1>6, <1>8 DEF Served, Working

\* The answer, when every cell has its episode.
LEMMA AnswerStep ==
    ASSUME ServerInv, NEW r \in Slots, Answer(r)
    PROVE  Served(r)
<1>1. /\ request[r].at = "extract" /\ Go(r, "ok") /\ AllWritten(r)
      /\ UNCHANGED <<buffer, ledger>>
  BY DEF Answer
<1>2. /\ request' \in [Slots -> Request] /\ Others(r) /\ SameCall(r)
      /\ request'[r].at = "ok" /\ request'[r].mine = request[r].mine
  BY <1>1, GoShapes DEF ServerInv, Step
<1>3. Keeps(r)
  BY <1>1, <1>2, QuietKeeps DEF Working
<1>4. Holds(r)'
  BY <1>1, <1>2 DEF ServerInv, Holds, Early, Late, SameCall, SameIds, Stored,
                    InLedger
<1>5. Mine(r)'
  <2>1. \A i \in request[r].mine : ledger[i].done # "started"
    BY <1>1, WaitingMine DEF AllWritten
  <2>. QED BY <1>1, <1>2, <2>1 DEF ServerInv, Mine
<1>6. ServerInv'
  BY <1>3, <1>4, <1>5, RequestStep
<1>. QED BY <1>1, <1>2, <1>3, <1>6 DEF Served, Working

\* An await that raises.
LEMMA FailsStep ==
    ASSUME ServerInv, NEW r \in Slots, Fails(r)
    PROVE  /\ ServerInv' /\ Others(r) /\ SameCall(r)
           /\ UNCHANGED <<buffer, ledger>> /\ request'[r].at = "err"
           /\ request'[r].merged = request[r].merged
           /\ request'[r].cells = request[r].cells
<1>1. Go(r, "err") /\ UNCHANGED <<buffer, ledger>>
  BY DEF Fails
<1>2. /\ request' \in [Slots -> Request] /\ Others(r) /\ SameCall(r)
      /\ request'[r].at = "err" /\ request'[r].mine = request[r].mine
      /\ request'[r].merged = request[r].merged
      /\ request'[r].cells = request[r].cells
  BY <1>1, GoShapes DEF ServerInv, Step
<1>3. Keeps(r)
  BY <1>1, <1>2, QuietKeeps DEF Working
<1>4. Holds(r)' /\ Mine(r)'
  BY <1>1, <1>2 DEF ServerInv, Holds, Early, Late, Mine
<1>5. ServerInv'
  BY <1>3, <1>4, RequestStep
<1>. QED BY <1>1, <1>2, <1>5

\* A slot without a request.
LEMMA IdleTyped ==
    /\ Idle \in Request
    /\ Idle.at = "idle" /\ Idle.mine = {} /\ Idle.messages = {}
    /\ Idle.merged = {} /\ Idle.cells = <<>>
<1>1. 0 \in Sessions
  BY IntakeAssumption
<1>2. (CHOOSE s \in Sessions : TRUE) \in Sessions
  BY <1>1
<1>. QED BY <1>2 DEF Idle, Request, Step

\* A slot that is not at work holds nothing and has no cells.
LEMMA FreshSlot ==
    ASSUME ServerInv, NEW r \in Slots, NEW p \in Request,
           request' = [request EXCEPT ![r] = p], UNCHANGED <<buffer, ledger>>,
           p.at \in {"idle", "queued", "err"}, p.mine = {}
    PROVE  ServerInv'
<1>1. request' \in [Slots -> Request] /\ Others(r) /\ request'[r] = p
  BY DEF ServerInv, ServerShapes, Others
<1>2. Keeps(r)
  BY <1>1, QuietKeeps DEF Working
<1>3. Holds(r)' /\ Mine(r)'
  BY <1>1, FS_EmptySet DEF Holds, Early, Late, Mine
<1>. QED BY <1>2, <1>3, RequestStep

\* What a call may bring.
IsCall(s, M, final, deferred) ==
    /\ s \in Sessions /\ M \in SUBSET Message
    /\ final \in BOOLEAN /\ deferred \in BOOLEAN

\* The request that a call leaves in its slot.
LEMMA AcceptShapes ==
    ASSUME ServerInv, NEW r \in Slots, NEW s, NEW M, NEW final, NEW deferred,
           IsCall(s, M, final, deferred), Accept(r, s, M, final, deferred)
    PROVE  /\ ServerInv' /\ Others(r) /\ UNCHANGED <<buffer, ledger>>
           /\ request[r].at = "idle"
           /\ request'[r].at = "queued" /\ request'[r].messages = M
           /\ request'[r].merged = {} /\ request'[r].cells = <<>>
           /\ request'[r].mine = {}
<1>1. PICK idle \in Request :
         /\ idle = Idle
         /\ idle.at = "idle" /\ idle.mine = {} /\ idle.merged = {}
         /\ idle.cells = <<>>
  BY IdleTyped
<1>2. PICK p : p = [idle EXCEPT !.at = "queued", !.session = s,
                       !.final = final, !.deferred = deferred, !.messages = M]
  OBVIOUS
<1>3. p \in Request
  BY <1>2 DEF IsCall, Request, Step
<1>4. /\ p.at = "queued" /\ p.messages = M /\ p.mine = idle.mine
      /\ p.merged = idle.merged /\ p.cells = idle.cells
  BY <1>2 DEF Request
<1>5. /\ request[r].at = "idle" /\ UNCHANGED <<buffer, ledger>>
      /\ request' = [request EXCEPT ![r] = p]
  BY <1>1, <1>2 DEF Accept
<1>6. ServerInv'
  BY <1>1, <1>3, <1>4, <1>5, FreshSlot
<1>7. request'[r] = p /\ Others(r)
  BY <1>5 DEF ServerInv, ServerShapes, Others
<1>. QED BY <1>1, <1>4, <1>5, <1>6, <1>7

\* The slot of an answered request is free again.
LEMMA ReleaseShapes ==
    ASSUME ServerInv, NEW r \in Slots, Release(r)
    PROVE  /\ ServerInv' /\ Others(r) /\ UNCHANGED <<buffer, ledger>>
           /\ request[r].at \in {"ok", "err"}
           /\ request'[r] = Idle
<1>1. /\ request' = [request EXCEPT ![r] = Idle]
      /\ UNCHANGED <<buffer, ledger>> /\ request[r].at \in {"ok", "err"}
  BY DEF Release
<1>2. ServerInv'
  BY <1>1, IdleTyped, FreshSlot
<1>. QED BY <1>1, <1>2 DEF ServerInv, ServerShapes, Others

\* What a crash leaves in the slots.
LEMMA CrashShapes ==
    ASSUME Crash
    PROVE  /\ request' \in [Slots -> Request]
           /\ \A r \in Slots :
                /\ request[r].at = "idle" => request'[r].at = "idle"
                /\ request[r].at # "idle" => request'[r].at = "err"
                /\ request'[r].mine = {} /\ request'[r].messages = {}
                /\ request'[r].merged = {} /\ request'[r].cells = <<>>
<1>1. PICK idle \in Request :
         /\ idle = Idle
         /\ idle.at = "idle" /\ idle.mine = {} /\ idle.merged = {}
         /\ idle.cells = <<>> /\ idle.messages = {}
  BY IdleTyped
<1>2. PICK p : p = [idle EXCEPT !.at = "err"]
  OBVIOUS
<1>3. p \in Request
  BY <1>2 DEF Request, Step
<1>4. /\ p.at = "err" /\ p.messages = idle.messages /\ p.mine = idle.mine
      /\ p.merged = idle.merged /\ p.cells = idle.cells
  BY <1>2 DEF Request
<1>5. request' = [r \in Slots |-> IF request[r].at = "idle" THEN idle ELSE p]
  BY <1>1, <1>2 DEF Crash
<1>. QED BY <1>1, <1>3, <1>4, <1>5

\* A crash loses what is in memory, and the tables stay.
LEMMA CrashStep ==
    ASSUME ServerInv, Crash
    PROVE  ServerInv'
<1>1. /\ request' \in [Slots -> Request]
      /\ \A r \in Slots : request'[r].at \in {"idle", "err"}
                          /\ request'[r].mine = {}
  BY CrashShapes
<1>2. UNCHANGED <<buffer, ledger>>
  BY DEF Crash
<1>3. ServerShapes'
  BY <1>1, <1>2 DEF ServerInv, ServerShapes
<1>4. Locked' /\ Apart'
  BY <1>1 DEF Locked, Apart, Working
<1>5. ASSUME NEW r \in Slots PROVE Holds(r)' /\ Mine(r)'
  BY <1>1, FS_EmptySet DEF Holds, Early, Late, Mine
<1>. QED BY <1>3, <1>4, <1>5 DEF ServerInv

\* Whatever a request under way does next.
LEMMA ServeStep ==
    ASSUME ServerInv, NEW r \in Slots, Serve(r)
    PROVE  Served(r)
BY ReadStep, DetectStep, KeepAllStep, TouchStep, InsertStep, ReplaceTailStep,
   EmitStartedStep, WriteEpisodeStep, EmitExtractedStep, AnswerStep DEF Serve

-----------------------------------------------------------------------------
(* The device.                                                             *)

\* The shape of a batch: its lines, its session, its messages.
LEMMA BatchShapes ==
    ASSUME DeviceShapes, NEW n \in 1 .. Len(lines), EndsAt(n), Taken(n) # {}
    PROVE  /\ SessionId(Taken(n)) \in Sessions
           /\ \A k \in Taken(n) :
                LET m == ToSyncMessage(k, Taken(n)) IN
                /\ m \in Message
                /\ m.body = k /\ m.ts = lines[k].ts /\ m.idx < MaxBatch
                /\ m.role # "tool"
           /\ Taken(n) \subseteq 1 .. MaxLines
<1>. DEFINE K == Taken(n)
<1>1. /\ lines \in Seq(Line) /\ Len(lines) \in Nat /\ cursor \in Nat
      /\ Len(lines) <= MaxLines /\ MaxLines \in Nat /\ MaxBatch \in Nat
  BY IntakeAssumption DEF DeviceShapes
<1>2. /\ K \in SUBSET (cursor + 1 .. n)
      /\ K \in SUBSET Nat
      /\ \A k \in K : k \in 1 .. Len(lines)
  BY <1>1 DEF Taken
<1>3. IsFiniteSet(K) /\ Cardinality(K) <= MaxBatch
  <2>1. IsFiniteSet(cursor + 1 .. n)
    BY <1>1, FS_Interval
  <2>2. IsFiniteSet(K) /\ Cardinality(K) \in Nat
    BY <1>2, <2>1, FS_Subset, FS_CardinalityType
  <2>. QED BY <1>1, <2>2 DEF EndsAt
<1>4. SessionId(K) \in Sessions
  <2>1. FirstOf(K) \in 1 .. Len(lines)
    BY <1>2, FirstOfIsIn
  <2>2. lines[FirstOf(K)] \in Line
    BY <1>1, <2>1
  <2>. QED BY <2>2, IntakeAssumption DEF SessionId, Line, DeviceShapes
<1>5. ASSUME NEW k \in K
      PROVE  /\ ToSyncMessage(k, K) \in Message
             /\ ToSyncMessage(k, K).body = k
             /\ ToSyncMessage(k, K).ts = lines[k].ts
             /\ ToSyncMessage(k, K).idx < MaxBatch
             /\ ToSyncMessage(k, K).role # "tool"
  <2>. DEFINE before == {j \in K : j < k}
  <2>1. /\ Cardinality(before) \in Nat
        /\ Cardinality(before) < MaxBatch
    <3>1. before \in SUBSET K /\ before # K
      BY <1>2
    <3>2. /\ IsFiniteSet(before) /\ Cardinality(before) <= Cardinality(K)
          /\ Cardinality(before) # Cardinality(K)
      BY <1>3, <3>1, FS_Subset
    <3>3. Cardinality(before) \in Nat /\ Cardinality(K) \in Nat
      BY <1>3, <3>2, FS_CardinalityType
    <3>. QED BY <1>1, <1>3, <3>2, <3>3
  <2>2. lines[k] \in Line /\ k \in Nat
    BY <1>1, <1>2
  <2>3. lines[k].role \in {"user", "assistant"} /\ lines[k].ts \in Nat
    BY <1>1, <2>2 DEF Line
  <2>. HIDE DEF K, before
  <2>4. ToSyncMessage(k, K) =
          [session |-> SessionId(K), ts |-> lines[k].ts,
           role |-> lines[k].role,
           idx |-> Cardinality(before), body |-> k]
    BY DEF ToSyncMessage, before
  <2>. QED BY <1>4, <2>1, <2>2, <2>3, <2>4 DEF Message
<1>6. K \subseteq 1 .. MaxLines
  BY <1>1, <1>2
<1>. QED BY <1>4, <1>5, <1>6

\* Posting is accepting a call.
LEMMA PostShapes ==
    ASSUME DeviceShapes, ServerInv, NEW r \in Slots, Post(r)
    PROVE  /\ ServerInv' /\ Others(r) /\ UNCHANGED <<buffer, ledger>>
           /\ request[r].at = "idle" /\ request'[r].at = "queued"
           /\ request'[r].merged = {} /\ request'[r].cells = <<>>
           /\ flight = None /\ flight' = r
           /\ UNCHANGED <<lines, cursor, synced, day, environment>>
           /\ \E n \in 1 .. Len(lines) :
                /\ EndsAt(n) /\ Taken(n) # {} /\ batch' = n
                /\ request'[r].messages =
                     {ToSyncMessage(k, Taken(n)) : k \in Taken(n)}
<1>1. PICK n \in 1 .. Len(lines) :
        /\ PostBatch(n, r)
        /\ Accept(r, SessionId(Taken(n)),
                  {ToSyncMessage(k, Taken(n)) : k \in Taken(n)}, FALSE, FALSE)
  BY DEF Post
<1>2. EndsAt(n) /\ Taken(n) # {}
  BY <1>1 DEF PostBatch
<1>3. /\ SessionId(Taken(n)) \in Sessions
      /\ {ToSyncMessage(k, Taken(n)) : k \in Taken(n)} \in SUBSET Message
  BY <1>2, BatchShapes
<1>4. /\ ServerInv' /\ Others(r) /\ UNCHANGED <<buffer, ledger>>
      /\ request[r].at = "idle" /\ request'[r].at = "queued"
      /\ request'[r].merged = {} /\ request'[r].cells = <<>>
      /\ request'[r].messages = {ToSyncMessage(k, Taken(n)) : k \in Taken(n)}
  <2>1. PICK no \in BOOLEAN : no = FALSE
    OBVIOUS
  <2>2. PICK s, M : /\ s = SessionId(Taken(n))
                    /\ M = {ToSyncMessage(k, Taken(n)) : k \in Taken(n)}
    OBVIOUS
  <2>3. IsCall(s, M, no, no)
    BY <1>3, <2>1, <2>2 DEF IsCall
  <2>4. Accept(r, s, M, no, no)
    BY <1>1, <2>1, <2>2
  <2>5. /\ ServerInv' /\ Others(r) /\ UNCHANGED <<buffer, ledger>>
        /\ request[r].at = "idle" /\ request'[r].at = "queued"
        /\ request'[r].merged = {} /\ request'[r].cells = <<>>
        /\ request'[r].messages = M
    BY <2>3, <2>4, AcceptShapes
  <2>. QED BY <2>2, <2>5
<1>5. /\ flight = None /\ flight' = r /\ batch' = n
      /\ UNCHANGED <<lines, cursor, synced, day>>
  BY <1>1 DEF PostBatch
<1>6. UNCHANGED environment
  BY DEF Post
<1>. QED BY <1>2, <1>4, <1>5, <1>6

\* So is what another client asks.
LEMMA ClientShapes ==
    ASSUME ServerInv, NEW r \in Slots, ClientAdd(r) \/ ClientFlush(r)
    PROVE  /\ ServerInv' /\ Others(r) /\ UNCHANGED <<buffer, ledger>>
           /\ request[r].at = "idle" /\ request'[r].at = "queued"
           /\ request'[r].merged = {} /\ request'[r].cells = <<>>
           /\ \/ request'[r].messages = {}
              \/ \E b \in ClientBatches : request'[r].messages = b.messages
           /\ UNCHANGED <<deviceVars, faults>> /\ ClientCall
<1>1. CASE ClientAdd(r)
  <2>1. PICK b \in ClientBatches :
          Accept(r, b.session, b.messages, FALSE, b.deferred)
    BY <1>1 DEF ClientAdd
  <2>2. /\ b.session \in Sessions /\ b.deferred \in BOOLEAN
        /\ b.messages \in SUBSET Message
    BY ClientAssumption
  <2>3. PICK no \in BOOLEAN : no = FALSE
    OBVIOUS
  <2>4. Accept(r, b.session, b.messages, no, b.deferred)
    BY <2>1, <2>3
  <2>5. IsCall(b.session, b.messages, no, b.deferred)
    BY <2>2, <2>3 DEF IsCall
  <2>6. /\ ServerInv' /\ Others(r) /\ UNCHANGED <<buffer, ledger>>
        /\ request[r].at = "idle" /\ request'[r].at = "queued"
        /\ request'[r].merged = {} /\ request'[r].cells = <<>>
        /\ request'[r].messages = b.messages
    BY <2>5, <2>4, AcceptShapes
  <2>. QED BY <1>1, <2>6 DEF ClientAdd, ClientCall
<1>2. CASE ClientFlush(r)
  <2>1. PICK s \in Sessions : Accept(r, s, {}, TRUE, FALSE)
    BY <1>2 DEF ClientFlush
  <2>2. PICK no \in BOOLEAN, yes \in BOOLEAN : no = FALSE /\ yes = TRUE
    OBVIOUS
  <2>3. Accept(r, s, {}, yes, no)
    BY <2>1, <2>2
  <2>4. IsCall(s, {}, yes, no)
    BY <2>1, <2>2 DEF IsCall
  <2>5. /\ ServerInv' /\ Others(r) /\ UNCHANGED <<buffer, ledger>>
        /\ request[r].at = "idle" /\ request'[r].at = "queued"
        /\ request'[r].merged = {} /\ request'[r].cells = <<>>
        /\ request'[r].messages = {}
    BY <2>3, <2>4, AcceptShapes
  <2>. QED BY <1>2, <2>5 DEF ClientFlush, ClientCall
<1>. QED BY <1>1, <1>2

-----------------------------------------------------------------------------
(* The composition.                                                        *)

\* No step of the system breaks the service's part, or unstores a message.
LEMMA ServerStep ==
    ASSUME DeviceShapes, ServerInv, [Next]_vars
    PROVE  ServerInv' /\ Stored \subseteq Stored'
<1>1. ASSUME UNCHANGED <<buffer, ledger>> PROVE Stored \subseteq Stored'
  BY <1>1 DEF Stored, InLedger
<1>2. ASSUME UNCHANGED serverVars PROVE ServerInv'
  <2>1. /\ UNCHANGED <<buffer, ledger, request>>
        /\ Stored' = Stored /\ InLedger' = InLedger
        /\ \A r : Carved(r)' = Carved(r)
    BY <1>2 DEF serverVars, Stored, InLedger, Carved
  <2>2. (ServerShapes /\ Locked /\ Apart)'
    BY <2>1 DEF ServerInv, ServerShapes, Locked, Apart
  <2>3. ASSUME NEW r \in Slots PROVE Holds(r)' /\ Mine(r)'
    <3>1. Holds(r) /\ Mine(r)
      BY DEF ServerInv
    <3>2. Holds(r)'
      BY <2>1, <3>1 DEF Holds
    <3>3. Mine(r)'
      BY <2>1, <3>1 DEF Mine
    <3>. QED BY <3>2, <3>3
  <2>. QED BY <2>2, <2>3 DEF ServerInv
<1>3. CASE UNCHANGED serverVars
  BY <1>1, <1>2, <1>3 DEF serverVars
<1>4. ASSUME NEW r \in Slots, Post(r) \/ ClientAdd(r) \/ ClientFlush(r)
      PROVE  ServerInv' /\ Stored \subseteq Stored'
  BY <1>1, <1>4, PostShapes, ClientShapes
<1>5. ASSUME NEW r \in Slots, ServeRequest(r)
      PROVE  ServerInv' /\ Stored \subseteq Stored'
  BY <1>5, ServeStep DEF ServeRequest, Served, Keeps
<1>6. ASSUME NEW r \in Slots, Release(r)
      PROVE  ServerInv' /\ Stored \subseteq Stored'
  BY <1>1, <1>6, ReleaseShapes
<1>7. CASE ServerFault
  <2>1. CASE Crash
    BY <1>1, <2>1, CrashStep DEF Crash
  <2>2. ASSUME NEW r \in Slots, Fails(r)
        PROVE  ServerInv' /\ Stored \subseteq Stored'
    BY <1>1, <2>2, FailsStep
  <2>. QED BY <1>7, <2>1, <2>2 DEF ServerFault
<1>8. flight # None => flight \in Slots
  BY DEF DeviceShapes
<1>9. CASE Acknowledged \/ Refused \/ SaveFails
  BY <1>3, <1>6, <1>8, <1>9 DEF Acknowledged, Refused, SaveFails, Answered
<1>10. CASE DeviceAlone \/ GivesUp \/ PowerLoss
  BY <1>3, <1>10 DEF DeviceAlone, GivesUp, PowerLoss
<1>11. ASSUME NEW r \in Slots, CallerGone(r)
       PROVE  ServerInv' /\ Stored \subseteq Stored'
  BY <1>6, <1>11 DEF CallerGone
<1>12. CASE UNCHANGED vars
  BY <1>3, <1>12 DEF vars
<1>. QED BY <1>4, <1>5, <1>7, <1>9, <1>10, <1>11, <1>12 DEF Next

\* The seconds that the next line may be of.
LEMMA SecondsShapes ==
    ASSUME DeviceShapes, Len(lines) < MaxLines, NEW t \in Seconds
    PROVE  t \in 1 .. MaxLines /\ t <= Len(lines) + 1
<1>1. lines \in Seq(Line) /\ Len(lines) \in Nat /\ MaxLines \in Nat
  BY IntakeAssumption DEF DeviceShapes
<1>2. CASE Len(lines) = 0
  BY <1>1, <1>2 DEF Seconds, SameSecond
<1>3. CASE Len(lines) # 0
  <2>1. Len(lines) \in DOMAIN lines /\ lines[Len(lines)] \in Line
    BY <1>1, <1>3
  <2>2. lines[Len(lines)].ts \in 1 .. MaxLines
        /\ lines[Len(lines)].ts <= Len(lines)
    BY <2>1 DEF Line, DeviceShapes
  <2>3. t \in {lines[Len(lines)].ts, lines[Len(lines)].ts + 1}
    BY <1>1, <1>3 DEF Seconds
  <2>. QED BY <1>1, <2>2, <2>3
<1>. QED BY <1>2, <1>3

\* The line that the agent appends.
LEMMA RememberShapes ==
    ASSUME DeviceShapes, Remember
    PROVE  /\ lines' \in Seq(Line) /\ Len(lines') = Len(lines) + 1
           /\ Len(lines') <= MaxLines
           /\ \A n \in DOMAIN lines : lines'[n] = lines[n]
           /\ \A n \in DOMAIN lines' : lines'[n].ts <= n
           /\ cursor' = cursor
<1>1. PICK t \in Seconds :
        lines' = Append(lines, [wall |-> synced, day |-> day, ts |-> t,
                                role |-> IF Len(lines) % 2 = 0 THEN "user"
                                         ELSE "assistant"])
  BY DEF Remember
<1>2. PICK line : /\ line = [wall |-> synced, day |-> day, ts |-> t,
                             role |-> IF Len(lines) % 2 = 0 THEN "user"
                                      ELSE "assistant"]
                  /\ lines' = Append(lines, line)
  BY <1>1
<1>3. t \in 1 .. MaxLines /\ t <= Len(lines) + 1 /\ Len(lines) < MaxLines
  BY SecondsShapes DEF Remember
<1>4. line \in Line /\ line.ts = t
  BY <1>2, <1>3 DEF Line, DeviceShapes
<1>5. lines \in Seq(Line) /\ Len(lines) \in Nat /\ MaxLines \in Nat
  BY IntakeAssumption DEF DeviceShapes
<1>6. /\ lines' \in Seq(Line) /\ Len(lines') = Len(lines) + 1
      /\ \A n \in 1 .. Len(lines) : lines'[n] = lines[n]
      /\ lines'[Len(lines) + 1] = line
  BY <1>2, <1>4, <1>5, AppendProperties
<1>7. /\ DOMAIN lines = 1 .. Len(lines)
      /\ DOMAIN lines' = 1 .. Len(lines) + 1
  BY <1>5, <1>6
<1>8. ASSUME NEW n \in DOMAIN lines' PROVE lines'[n].ts <= n
  <2>1. CASE n \in DOMAIN lines
    BY <1>6, <1>7, <2>1 DEF DeviceShapes
  <2>2. CASE n = Len(lines) + 1
    BY <1>3, <1>4, <1>6, <2>2
  <2>. QED BY <1>5, <1>7, <2>1, <2>2
<1>9. cursor' = cursor
  BY DEF Remember
<1>. QED BY <1>3, <1>5, <1>6, <1>7, <1>8, <1>9

\* The device's file, cursor and counters keep their shapes.
LEMMA DeviceStep ==
    ASSUME DeviceShapes, ServerInv, [Next]_vars
    PROVE  DeviceShapes'
<1>1. /\ Len(lines) \in Nat /\ cursor \in Nat /\ batch \in Nat
      /\ calls \in Nat /\ faults \in Nat /\ day \in Nat
      /\ MaxLines \in Nat /\ MaxCalls \in Nat /\ MaxFaults \in Nat
      /\ MaxDay \in Nat
  BY IntakeAssumption DEF DeviceShapes
<1>2. CASE UNCHANGED deviceVars /\ calls' \in 0 .. MaxCalls
           /\ faults' \in 0 .. MaxFaults
  BY <1>2 DEF DeviceShapes, deviceVars
<1>3. ASSUME Fault PROVE faults' \in 0 .. MaxFaults
  BY <1>1, <1>3 DEF Fault
<1>4. CASE Hangup /\ UNCHANGED <<lines, day>> /\ synced' \in BOOLEAN
           /\ cursor' \in 0 .. Len(lines) /\ calls' = calls
           /\ faults' \in 0 .. MaxFaults
  <2>1. /\ lines \in Seq(Line) /\ Len(lines) <= MaxLines /\ day \in 0 .. MaxDay
        /\ calls \in 0 .. MaxCalls
    BY DEF DeviceShapes
  <2>2. flight' = None /\ batch' = 0 /\ 0 \in 0 .. Len(lines)
    BY <1>1, <1>4 DEF Hangup
  <2>. QED BY <1>4, <2>1, <2>2 DEF DeviceShapes
<1>5. CASE DeviceAlone
  <2>1. UNCHANGED <<calls, faults>>
    BY <1>5 DEF DeviceAlone, environment
  <2>2. CASE Remember
    <3>1. /\ lines' \in Seq(Line) /\ Len(lines') = Len(lines) + 1
          /\ Len(lines') <= MaxLines
          /\ \A n \in DOMAIN lines' : lines'[n].ts <= n
      BY <2>2, RememberShapes
    <3>. QED BY <1>1, <2>1, <2>2, <3>1 DEF DeviceShapes, Remember
  <2>3. CASE SkipUptime(FALSE)
    <3>1. PICK n \in 1 .. Len(lines) : cursor' \in Written(n, FALSE)
      BY <2>3 DEF SkipUptime
    <3>2. cursor' \in 0 .. Len(lines)
      BY <1>1, <3>1 DEF Written
    <3>. QED BY <2>1, <2>3, <3>2 DEF DeviceShapes, SkipUptime
  <2>4. CASE NtpAnswers
    BY <2>1, <2>4 DEF DeviceShapes, NtpAnswers
  <2>5. CASE Midnight
    BY <1>1, <2>1, <2>5 DEF DeviceShapes, Midnight
  <2>. QED BY <1>5, <2>2, <2>3, <2>4, <2>5 DEF DeviceAlone
<1>6. CASE Acknowledged
  <2>1. cursor' \in 0 .. Len(lines)
    BY <1>1, <1>6 DEF Acknowledged, SaveCursor, Written, DeviceShapes
  <2>. QED BY <1>4, <1>6, <2>1
           DEF Acknowledged, SaveCursor, environment, DeviceShapes
<1>7. CASE Refused
  BY <1>4, <1>7 DEF Refused, KeepCursor, environment, DeviceShapes
<1>8. CASE GivesUp
  BY <1>3, <1>4, <1>8 DEF GivesUp, KeepCursor, DeviceShapes
<1>9. CASE PowerLoss
  BY <1>3, <1>4, <1>9 DEF PowerLoss, Reboot, DeviceShapes
<1>10. CASE SaveFails
  <2>1. CASE SaveCursor(TRUE)
    <3>1. cursor' \in 0 .. Len(lines)
      BY <1>1, <2>1 DEF SaveCursor, Written, DeviceShapes
    <3>. QED BY <1>3, <1>4, <1>10, <2>1, <3>1
             DEF SaveFails, SaveCursor, DeviceShapes
  <2>2. CASE SkipUptime(TRUE)
    <3>1. PICK n \in 1 .. Len(lines) : cursor' \in Written(n, TRUE)
      BY <2>2 DEF SkipUptime
    <3>2. cursor' \in 0 .. Len(lines)
      BY <1>1, <3>1 DEF Written
    <3>. QED BY <1>3, <1>10, <2>2, <3>2 DEF SaveFails, SkipUptime, DeviceShapes
  <2>. QED BY <1>10, <2>1, <2>2 DEF SaveFails
<1>11. ASSUME NEW r \in Slots, Post(r) PROVE DeviceShapes'
  <2>1. /\ flight' = r /\ batch' \in 1 .. Len(lines)
        /\ UNCHANGED <<lines, cursor, synced, day, calls, faults>>
    BY <1>11, PostShapes DEF environment
  <2>. QED BY <1>1, <2>1 DEF DeviceShapes
<1>12. ASSUME NEW r \in Slots, ClientAdd(r) \/ ClientFlush(r)
       PROVE  DeviceShapes'
  <2>1. ClientCall
    BY <1>12 DEF ClientAdd, ClientFlush
  <2>2. calls' \in 0 .. MaxCalls /\ UNCHANGED <<deviceVars, faults>>
    BY <1>1, <2>1 DEF ClientCall
  <2>. QED BY <1>2, <2>2 DEF DeviceShapes
<1>13. ASSUME NEW r \in Slots, ServeRequest(r) \/ CallerGone(r)
       PROVE  DeviceShapes'
  BY <1>2, <1>13 DEF ServeRequest, CallerGone, environment, DeviceShapes
<1>14. CASE ServerFault
  BY <1>2, <1>3, <1>14 DEF ServerFault, DeviceShapes
<1>15. CASE UNCHANGED vars
  BY <1>2, <1>15 DEF vars, environment, DeviceShapes
<1>. QED BY <1>5, <1>6, <1>7, <1>8, <1>9, <1>10, <1>11, <1>12, <1>13, <1>14,
            <1>15 DEF Next

-----------------------------------------------------------------------------
(* What was acknowledged.                                                  *)

\* The call in flight brings every dated line of its batch, until the
\* service loses it.
Flying ==
    flight # None =>
        /\ request[flight].at # "idle"
        /\ request[flight].at # "err" =>
             \A k \in Taken(batch) :
                \E m \in FilterForMode(request[flight].messages) :
                   /\ m.body = k /\ m.ts = lines[k].ts
                   /\ m.idx < MaxBatch

\* A slot that the device waits for is not taken from it, and its messages
\* are those it has sent.
LEMMA FlightStays ==
    ASSUME DeviceShapes, ServerInv, Flying, flight # None,
           UNCHANGED <<lines, cursor, flight, batch>>, [Next]_vars
    PROVE  /\ request'[flight].at # "idle"
           /\ request'[flight].at # "err" =>
                /\ request[flight].at # "err"
                /\ request'[flight].messages = request[flight].messages
<1>1. flight \in Slots /\ None \notin Slots
  BY IntakeAssumption DEF DeviceShapes
<1>2. CASE UNCHANGED request
  BY <1>2 DEF Flying
<1>3. ASSUME NEW r \in Slots, ClientAdd(r) \/ ClientFlush(r)
      PROVE  request'[flight] = request[flight]
  <2>1. request[r].at = "idle" /\ Others(r)
    BY <1>3, ClientShapes
  <2>. QED BY <1>1, <2>1 DEF Flying, Others
<1>4. ASSUME NEW r \in Slots, Serve(r)
      PROVE  /\ request'[flight].at # "idle"
             /\ request'[flight].at # "err" =>
                  /\ request[flight].at # "err"
                  /\ request'[flight].messages = request[flight].messages
  <2>1. Served(r)
    BY <1>4, ServeStep
  <2>2. request[r].at # "err"
    BY <1>4 DEF Serve, Read, Detect, KeepAll, TouchLastMessage, InsertCells,
                ReplaceTail, EmitStarted, WriteEpisode, EmitExtracted, Answer
  <2>3. CASE flight = r
    BY <2>1, <2>2, <2>3 DEF Served, SameCall, Working
  <2>4. CASE flight # r
    BY <1>1, <2>1, <2>4 DEF Served, Keeps, Others, Flying
  <2>. QED BY <2>3, <2>4
<1>5. ASSUME NEW r \in Slots, CallerGone(r)
      PROVE  request'[flight] = request[flight]
  BY <1>1, <1>5, ReleaseShapes DEF CallerGone, Others
<1>6. CASE ServerFault
  <2>1. CASE Crash
    BY <1>1, <2>1, CrashShapes DEF Flying
  <2>2. ASSUME NEW r \in Slots, Fails(r)
        PROVE  /\ request'[flight].at # "idle"
               /\ request'[flight].at # "err" =>
                    request'[flight] = request[flight]
    <3>1. Others(r) /\ request'[r].at = "err"
      BY <2>2, FailsStep
    <3>. QED BY <1>1, <3>1 DEF Others, Flying
  <2>. QED BY <1>6, <2>1, <2>2 DEF ServerFault, Flying
<1>7. ASSUME NEW r \in Slots, Post(r) PROVE FALSE
  BY <1>1, <1>7, PostShapes
<1>8. CASE Acknowledged \/ Refused \/ SaveFails
  BY <1>1, <1>8 DEF Acknowledged, Refused, SaveFails, SaveCursor, KeepCursor,
                    Hangup, SkipUptime
<1>9. CASE DeviceAlone \/ GivesUp \/ PowerLoss \/ UNCHANGED vars
  BY <1>2, <1>9 DEF DeviceAlone, GivesUp, PowerLoss, vars, serverVars
<1>. QED BY <1>3, <1>4, <1>5, <1>6, <1>7, <1>8, <1>9
         DEF Next, ServeRequest, Flying

\* A step posts a batch, ends the wait for an answer, or leaves both as they
\* are; only the agent writes lines, and not while it waits.
LEMMA FlightStep ==
    ASSUME DeviceShapes, ServerInv, [Next]_vars
    PROVE  \/ flight' = None
           \/ \E r \in Slots : Post(r)
           \/ UNCHANGED <<lines, cursor, flight, batch>>
BY DEF Next, DeviceAlone, Remember, SkipUptime, NtpAnswers, Midnight,
       Acknowledged, Refused, GivesUp, SaveFails, PowerLoss, SaveCursor,
       KeepCursor, Reboot, Hangup, ServeRequest, ClientAdd, ClientFlush,
       ClientCall, CallerGone, ServerFault, vars, deviceVars

\* The call in flight stays what it is.
LEMMA FlyingStep ==
    ASSUME DeviceShapes, ServerInv, Flying, [Next]_vars
    PROVE  Flying'
<1>1. CASE flight' = None
  BY <1>1 DEF Flying
<1>2. ASSUME NEW r \in Slots, Post(r) PROVE Flying'
  <2>1. PICK n \in 1 .. Len(lines) :
          /\ EndsAt(n) /\ Taken(n) # {} /\ batch' = n
          /\ request'[r].messages =
               {ToSyncMessage(k, Taken(n)) : k \in Taken(n)}
    BY <1>2, PostShapes
  <2>2. flight' = r /\ request'[r].at = "queued" /\ UNCHANGED <<lines, cursor>>
    BY <1>2, PostShapes
  <2>3. Taken(batch)' = Taken(n)
    BY <2>1, <2>2 DEF Taken, ShouldInclude
  <2>4. \A k \in Taken(n) :
          \E m \in FilterForMode(request'[r].messages) :
             m.body = k /\ m.ts = lines[k].ts /\ m.idx < MaxBatch
    <3>1. ASSUME NEW k \in Taken(n)
          PROVE  /\ ToSyncMessage(k, Taken(n)) \in request'[r].messages
                 /\ ToSyncMessage(k, Taken(n)).body = k
                 /\ ToSyncMessage(k, Taken(n)).ts = lines[k].ts
                 /\ ToSyncMessage(k, Taken(n)).idx < MaxBatch
                 /\ ToSyncMessage(k, Taken(n)).role # "tool"
      BY <2>1, BatchShapes
    <3>. QED BY <3>1 DEF FilterForMode
  <2>. QED BY <2>2, <2>3, <2>4 DEF Flying
<1>3. CASE UNCHANGED <<lines, cursor, flight, batch>> /\ flight # None
  <2>1. /\ request'[flight].at # "idle"
        /\ request'[flight].at # "err" =>
             /\ request[flight].at # "err"
             /\ request'[flight].messages = request[flight].messages
    BY <1>3, FlightStays
  <2>2. Taken(batch)' = Taken(batch)
    BY <1>3 DEF Taken, ShouldInclude
  <2>. QED BY <1>3, <2>1, <2>2 DEF Flying
<1>4. CASE UNCHANGED <<lines, cursor, flight, batch>> /\ flight = None
  BY <1>4 DEF Flying
<1>. QED BY <1>1, <1>2, <1>3, <1>4, FlightStep

\* What a request has in memory of what it may store.
Known(r) ==
    FilterForMode(request[r].messages) \cup request[r].merged \cup Carved(r)

\* All that is stored or in memory.
Everything == Stored \cup UNION {Known(r) : r \in Slots}

\* A request stores, and takes into its memory, what was there before.
LEMMA NothingInvented ==
    ASSUME ServerInv, NEW r \in Slots, Serve(r)
    PROVE  /\ Stored' \subseteq Stored \cup Known(r)
           /\ Known(r)' \subseteq Stored \cup Known(r)
<1>1. /\ ServerShapes /\ request[r] \in Request
      /\ request[r].session \in Sessions
      /\ request[r].merged \in SUBSET Message
      /\ request[r].messages \in SUBSET Message
      /\ buffer[request[r].session] \in SUBSET Message
      /\ buffer \in [Sessions -> SUBSET Message]
  BY DEF ServerInv, ServerShapes, Request
<1>2. ASSUME NEW step \in Step, Go(r, step) PROVE Known(r)' = Known(r)
  <2>1. /\ SameCall(r) /\ request'[r].merged = request[r].merged
        /\ request'[r].cells = request[r].cells
    BY <1>1, <1>2, GoShapes
  <2>. QED BY <2>1 DEF Known, Carved, SameCall
<1>3. ASSUME UNCHANGED <<buffer, ledger>> PROVE Stored' = Stored
  BY <1>3 DEF Stored, InLedger
<1>4. CASE Read(r)
  <2>. DEFINE fresh == FilterForMode(request[r].messages)
              merged == MergeDedupe(buffer[request[r].session], fresh)
  <2>1. /\ request'[r].messages = request[r].messages
        /\ request'[r].cells = request[r].cells
        /\ request'[r].merged = merged
        /\ UNCHANGED <<buffer, ledger>>
    BY <1>1, <1>4 DEF Read, ServerShapes, Request
  <2>2. fresh \in SUBSET Message
    BY <1>1 DEF FilterForMode
  <2>3. merged \subseteq buffer[request[r].session] \cup fresh
    BY <1>1, <2>2, MergeKeeps
  <2>4. buffer[request[r].session] \subseteq Stored
    BY <1>1 DEF Stored
  <2>5. Carved(r)' = Carved(r)
    BY <2>1 DEF Carved
  <2>. QED BY <1>3, <2>1, <2>2, <2>3, <2>4, <2>5 DEF Known
<1>5. CASE Detect(r)
  <2>1. PICK cells \in Cuts(request[r].merged, request[r].final) :
          request' = [request EXCEPT ![r].cells = cells,
                         ![r].at = IF cells = <<>> THEN "keep" ELSE "cut"]
    BY <1>5 DEF Detect
  <2>2. request[r].final \in BOOLEAN
    BY <1>1 DEF Request
  <2>3. UNION {cells[i] : i \in DOMAIN cells} \subseteq request[r].merged
    BY <1>1, <2>2, CutsCarve
  <2>4. /\ request'[r].messages = request[r].messages
        /\ request'[r].merged = request[r].merged
        /\ request'[r].cells = cells
    BY <1>1, <2>1 DEF ServerShapes, Request
  <2>5. Carved(r)' \subseteq request[r].merged
    BY <2>3, <2>4 DEF Carved
  <2>6. UNCHANGED <<buffer, ledger>>
    BY <1>5 DEF Detect
  <2>. QED BY <1>3, <2>4, <2>5, <2>6 DEF Known
<1>6. CASE KeepAll(r) \/ ReplaceTail(r)
  <2>1. \E step \in Step : Go(r, step)
    BY <1>6 DEF KeepAll, ReplaceTail, Step, Working
  <2>2. PICK M \in SUBSET request[r].merged :
          /\ buffer' = [buffer EXCEPT ![request[r].session] = M]
          /\ UNCHANGED ledger
    BY <1>6 DEF KeepAll, ReplaceTail, TailOf
  <2>3. /\ \A s \in Sessions : buffer'[s] \subseteq buffer[s] \cup M
        /\ InLedger' = InLedger
    BY <1>1, <2>2 DEF InLedger
  <2>4. Stored' \subseteq Stored \cup M
    BY <2>3 DEF Stored
  <2>. QED BY <1>2, <2>1, <2>4 DEF Known
<1>7. CASE TouchLastMessage(r) \/ Answer(r)
  BY <1>2, <1>3, <1>7 DEF TouchLastMessage, Answer, Step
<1>8. CASE InsertCells(r)
  <2>1. InLedger' \subseteq InLedger \cup Carved(r)
    BY <1>8, InsertStep
  <2>2. /\ request'[r].messages = request[r].messages
        /\ request'[r].merged = request[r].merged
        /\ request'[r].cells = request[r].cells
        /\ UNCHANGED buffer
    BY <1>1, <1>8 DEF InsertCells, ServerShapes, Request
  <2>3. Carved(r)' = Carved(r)
    BY <2>2 DEF Carved
  <2>. QED BY <2>1, <2>2, <2>3 DEF Known, Stored
<1>9. CASE EmitStarted(r) \/ WriteEpisode(r) \/ EmitExtracted(r)
  <2>1. (\E step \in Step : Go(r, step)) \/ UNCHANGED request
    BY <1>9 DEF EmitStarted, WriteEpisode, EmitExtracted, Step, Working
  <2>2. Known(r)' = Known(r)
    BY <1>2, <2>1 DEF Known, Carved
  <2>3. UNCHANGED buffer /\ DOMAIN ledger' = DOMAIN ledger
    BY <1>9 DEF EmitStarted, WriteEpisode, EmitExtracted
  <2>4. \A i \in DOMAIN ledger : ledger'[i].items = ledger[i].items
    BY <1>9, ServeStep DEF Serve, Served, Keeps
  <2>5. InLedger' = InLedger
    BY <2>3, <2>4 DEF InLedger
  <2>. QED BY <2>2, <2>3, <2>5 DEF Stored
<1>. QED BY <1>4, <1>5, <1>6, <1>7, <1>8, <1>9 DEF Serve

\* All that is new in a step is of another client or of a dated line.
News == \A x \in Everything' :
           x \in Everything \/ x \in Foreign \/ OfLine(x)

\* What is stored and known comes from the calls, and nothing else does.
LEMMA NewsStep ==
    ASSUME DeviceShapes, ServerInv, [Next]_vars
    PROVE  News
<1>1. ASSUME UNCHANGED <<buffer, ledger>> PROVE Stored' = Stored
  BY <1>1 DEF Stored, InLedger
<1>2. ASSUME UNCHANGED serverVars PROVE News
  <2>1. \A r \in Slots : Known(r)' = Known(r)
    BY <1>2 DEF serverVars, Known, Carved
  <2>. QED BY <1>1, <1>2, <2>1 DEF serverVars, Everything, News
<1>3. ASSUME NEW r \in Slots, Others(r),
             \A x \in Stored' \cup Known(r)' :
                x \in Everything \/ x \in Foreign \/ OfLine(x)
      PROVE  News
  <2>1. \A q \in Slots : q # r => Known(q)' = Known(q)
    BY <1>3 DEF Others, Known, Carved
  <2>. QED BY <1>3, <2>1 DEF Everything, News
<1>4. ASSUME NEW r \in Slots, Others(r), UNCHANGED <<buffer, ledger>>,
             request'[r].merged = {}, request'[r].cells = <<>>,
             \A m \in FilterForMode(request'[r].messages) :
                m \in Foreign \/ OfLine(m)
      PROVE  News
  <2>1. Carved(r)' = {}
    BY <1>4 DEF Carved
  <2>2. Known(r)' = FilterForMode(request'[r].messages)
    BY <1>4, <2>1 DEF Known
  <2>. QED BY <1>1, <1>3, <1>4, <2>2 DEF Everything
<1>5. ASSUME NEW r \in Slots, Post(r) PROVE News
  <2>1. PICK n \in 1 .. Len(lines) :
          /\ EndsAt(n) /\ Taken(n) # {}
          /\ request'[r].messages =
               {ToSyncMessage(k, Taken(n)) : k \in Taken(n)}
    BY <1>5, PostShapes
  <2>2. \A k \in Taken(n) : k \in DOMAIN lines /\ lines[k].wall
    BY DEF Taken, ShouldInclude, DeviceShapes
  <2>3. \A k \in Taken(n) : OfLine(ToSyncMessage(k, Taken(n)))
    BY <2>1, <2>2, BatchShapes DEF OfLine
  <2>4. \A m \in FilterForMode(request'[r].messages) : OfLine(m)
    BY <2>1, <2>3 DEF FilterForMode
  <2>5. /\ Others(r) /\ UNCHANGED <<buffer, ledger>>
        /\ request'[r].merged = {} /\ request'[r].cells = <<>>
    BY <1>5, PostShapes
  <2>. QED BY <1>4, <2>4, <2>5
<1>6. ASSUME NEW r \in Slots, ClientAdd(r) \/ ClientFlush(r) PROVE News
  <2>1. /\ Others(r) /\ UNCHANGED <<buffer, ledger>>
        /\ request'[r].merged = {} /\ request'[r].cells = <<>>
    BY <1>6, ClientShapes
  <2>2. \A m \in FilterForMode(request'[r].messages) : m \in Foreign
    BY <1>6, ClientShapes DEF Foreign, FilterForMode
  <2>. QED BY <1>4, <2>1, <2>2
<1>7. ASSUME NEW r \in Slots, Serve(r) PROVE News
  <2>1. Others(r)
    BY <1>7, ServeStep DEF Served, Keeps
  <2>2. \A x \in Stored' \cup Known(r)' : x \in Everything
    BY <1>7, NothingInvented DEF Everything
  <2>. QED BY <1>3, <2>1, <2>2
<1>8. ASSUME NEW r \in Slots, Release(r) PROVE News
  <2>1. /\ Others(r) /\ UNCHANGED <<buffer, ledger>>
        /\ request'[r].merged = {} /\ request'[r].cells = <<>>
        /\ request'[r].messages = {}
    BY <1>8, ReleaseShapes, IdleTyped
  <2>2. FilterForMode(request'[r].messages) = {}
    BY <2>1 DEF FilterForMode
  <2>. QED BY <1>4, <2>1, <2>2
<1>9. CASE ServerFault
  <2>1. CASE Crash
    <3>1. \A r \in Slots : Known(r)' = {}
      BY <2>1, CrashShapes DEF Known, Carved, FilterForMode
    <3>. QED BY <1>1, <2>1, <3>1 DEF Crash, Everything, News
  <2>2. ASSUME NEW r \in Slots, Fails(r) PROVE News
    <3>1. /\ Others(r) /\ SameCall(r) /\ UNCHANGED <<buffer, ledger>>
          /\ request'[r].merged = request[r].merged
          /\ request'[r].cells = request[r].cells
      BY <2>2, FailsStep
    <3>2. Known(r)' = Known(r)
      BY <3>1 DEF Known, Carved, SameCall
    <3>. QED BY <1>1, <1>3, <3>1, <3>2 DEF Everything
  <2>. QED BY <1>9, <2>1, <2>2 DEF ServerFault
<1>10. flight # None => flight \in Slots
  BY DEF DeviceShapes
<1>11. CASE Acknowledged \/ Refused \/ SaveFails
  BY <1>2, <1>8, <1>10, <1>11 DEF Acknowledged, Refused, SaveFails, Answered
<1>12. CASE DeviceAlone \/ GivesUp \/ PowerLoss \/ UNCHANGED vars
  BY <1>2, <1>12 DEF DeviceAlone, GivesUp, PowerLoss, vars
<1>. QED BY <1>5, <1>6, <1>7, <1>8, <1>9, <1>11, <1>12
         DEF Next, ServeRequest, CallerGone

\* What is stored or in memory was written by the agent or sent by another
\* client.
Sourced == \A x \in Everything : x \in Foreign \/ OfLine(x)

\* For what the cursor has passed something is stored.
Saved == \A n \in 1 .. cursor : lines[n].wall => \E x \in Stored : MayBe(x, n)

\* When the answer is a 2xx, the lines of the batch are stored.
LEMMA AnsweredIsStored ==
    ASSUME DeviceShapes, ServerInv, Flying, Sourced, Answered, Is2xx(flight)
    PROVE  \A k \in Taken(batch) : \E x \in Stored : MayBe(x, k)
<1>1. flight # None /\ flight \in Slots /\ request[flight].at = "ok"
  BY DEF Answered, Is2xx, DeviceShapes
<1>2. SUFFICES ASSUME NEW k \in Taken(batch)
               PROVE  \E x \in Stored : MayBe(x, k)
  OBVIOUS
<1>3. PICK m \in FilterForMode(request[flight].messages) :
         m.body = k /\ m.ts = lines[k].ts /\ m.idx < MaxBatch
  BY <1>1 DEF Flying
<1>4. PICK x \in Stored : MessageId(x) = MessageId(m)
  BY <1>1, <1>3 DEF ServerInv, Holds, Late, SameIds
<1>5. x.ts = lines[k].ts /\ x.idx < MaxBatch
  BY <1>3, <1>4 DEF MessageId
<1>6. x \in Foreign \/ OfLine(x)
  BY <1>4 DEF Sourced, Everything
<1>. QED BY <1>4, <1>5, <1>6 DEF MayBe

\* A step writes a line, moves the cursor, or leaves both as they are.
LEMMA StepKinds ==
    ASSUME DeviceShapes, ServerInv, [Next]_vars
    PROVE  \/ Remember /\ UNCHANGED serverVars
           \/ UNCHANGED <<lines, buffer, ledger>>
           \/ UNCHANGED <<lines, cursor>>
BY DEF Next, DeviceAlone, SkipUptime, NtpAnswers, Midnight, Acknowledged,
       Refused, GivesUp, SaveFails, PowerLoss, SaveCursor, KeepCursor, Reboot,
       Post, PostBatch, ServeRequest, ClientAdd, ClientFlush, ClientCall,
       CallerGone, Release, ServerFault, vars, deviceVars, serverVars

\* The lines that are there stay.
LEMMA LinesStay ==
    ASSUME DeviceShapes, ServerInv, [Next]_vars
    PROVE  \A n \in DOMAIN lines : n \in DOMAIN lines' /\ lines'[n] = lines[n]
<1>1. CASE Remember
  <2>1. DOMAIN lines = 1 .. Len(lines) /\ DOMAIN lines' = 1 .. Len(lines')
        /\ Len(lines) \in Nat
    BY <1>1, RememberShapes DEF DeviceShapes
  <2>. QED BY <1>1, <2>1, RememberShapes
<1>2. CASE UNCHANGED lines
  BY <1>2
<1>. QED BY <1>1, <1>2, StepKinds

\* And so do the sources of what is stored.
LEMMA SourcedStep ==
    ASSUME DeviceShapes, ServerInv, Sourced, [Next]_vars
    PROVE  Sourced'
<1>1. \A x \in Everything' : x \in Foreign \/ OfLine(x)
  BY NewsStep DEF News, Sourced
<1>2. Foreign' = Foreign
  BY DEF Foreign, FilterForMode
<1>3. \A x : OfLine(x) => OfLine(x)'
  BY LinesStay DEF OfLine
<1>. QED BY <1>1, <1>2, <1>3 DEF Sourced

\* The cursor moves over lines that are stored or have no date.
LEMMA SavedStep ==
    ASSUME DeviceShapes, ServerInv, Flying, Sourced, Saved, [Next]_vars
    PROVE  Saved'
<1>1. Stored \subseteq Stored'
  BY ServerStep
<1>2. /\ lines \in Seq(Line) /\ Len(lines) \in Nat
      /\ cursor \in Nat /\ cursor <= Len(lines)
      /\ batch \in Nat /\ batch <= Len(lines)
  BY DEF DeviceShapes
<1>20. \A n \in DOMAIN lines : \A x : MayBe(x, n) => MayBe(x, n)'
  BY LinesStay DEF MayBe, OfLine, Foreign, FilterForMode
<1>21. DOMAIN lines = 1 .. Len(lines)
  BY <1>2
<1>3. ASSUME UNCHANGED <<lines, cursor>> PROVE Saved'
  BY <1>1, <1>2, <1>3, <1>20, <1>21 DEF Saved
<1>4. ASSUME NEW n \in 0 .. Len(lines), UNCHANGED lines, NEW c \in 0 .. n, cursor' = c,
             \A k \in Taken(n) : \E x \in Stored : MayBe(x, k)
      PROVE  Saved'
  <2>1. SUFFICES ASSUME NEW k \in 1 .. c, lines[k].wall
                 PROVE  \E x \in Stored : MayBe(x, k)
    BY <1>1, <1>2, <1>4, <1>20, <1>21 DEF Saved
  <2>2. CASE k <= cursor
    BY <1>2, <2>1, <2>2 DEF Saved
  <2>3. CASE k > cursor
    <3>1. k \in Taken(n)
      BY <1>2, <1>4, <2>1, <2>3 DEF Taken, ShouldInclude
    <3>. QED BY <1>4, <3>1
  <2>. QED BY <1>2, <2>2, <2>3
<1>5. ASSUME NEW torn \in BOOLEAN, Answered, Is2xx(flight), SaveCursor(torn)
      PROVE  Saved'
  <2>1. \A k \in Taken(batch) : \E x \in Stored : MayBe(x, k)
    BY <1>5, AnsweredIsStored
  <2>2. UNCHANGED lines /\ cursor' \in 0 .. batch
    BY <1>2, <1>5 DEF SaveCursor, Written
  <2>. QED BY <1>2, <1>4, <2>1, <2>2
<1>6. ASSUME NEW torn \in BOOLEAN, SkipUptime(torn)
      PROVE  Saved'
  <2>1. PICK n \in 1 .. Len(lines) :
          Taken(n) = {} /\ cursor' \in Written(n, torn)
    BY <1>6 DEF SkipUptime
  <2>2. UNCHANGED lines /\ cursor' \in 0 .. n
    BY <1>2, <1>6, <2>1 DEF SkipUptime, Written
  <2>. QED BY <1>2, <1>4, <2>1, <2>2
<1>7. CASE Remember
  <2>1. PICK line : lines' = Append(lines, line)
    BY <1>7 DEF Remember
  <2>2. \A n \in 1 .. cursor : lines'[n] = lines[n]
    BY <1>2, <2>1
  <2>3. cursor' = cursor
    BY <1>7 DEF Remember
  <2>. QED BY <1>1, <1>2, <1>20, <1>21, <2>2, <2>3 DEF Saved
<1>8. CASE Acknowledged
  <2>1. PICK no \in BOOLEAN : no = FALSE
    OBVIOUS
  <2>2. Answered /\ Is2xx(flight) /\ SaveCursor(no)
    BY <1>8, <2>1 DEF Acknowledged
  <2>. QED BY <1>5, <2>2
<1>9. CASE SaveFails
  <2>1. PICK yes \in BOOLEAN : yes = TRUE
    OBVIOUS
  <2>2. \/ Answered /\ Is2xx(flight) /\ SaveCursor(yes)
        \/ SkipUptime(yes)
    BY <1>9, <2>1 DEF SaveFails
  <2>. QED BY <1>5, <1>6, <2>2
<1>10. CASE DeviceAlone
  <2>1. PICK no \in BOOLEAN : no = FALSE
    OBVIOUS
  <2>2. \/ Remember \/ SkipUptime(no)
        \/ UNCHANGED <<lines, cursor>>
    BY <1>10, <2>1 DEF DeviceAlone, NtpAnswers, Midnight
  <2>. QED BY <1>3, <1>6, <1>7, <2>2
<1>11. ASSUME NEW r \in Slots, Post(r) PROVE Saved'
  BY <1>3, <1>11, PostShapes
<1>12. CASE \/ Refused \/ GivesUp \/ PowerLoss \/ ServerFault
            \/ UNCHANGED vars
            \/ \E r \in Slots : \/ ServeRequest(r) \/ ClientAdd(r)
                                \/ ClientFlush(r) \/ CallerGone(r)
  <2>1. UNCHANGED <<lines, cursor>>
    BY <1>12 DEF Refused, GivesUp, PowerLoss, KeepCursor, Reboot, ServerFault,
                 vars, deviceVars, ServeRequest, ClientAdd, ClientFlush,
                 ClientCall, CallerGone
  <2>. QED BY <1>3, <2>1
<1>. QED BY <1>8, <1>9, <1>10, <1>11, <1>12 DEF Next

-----------------------------------------------------------------------------
(* The upload as device and agent see it.                                  *)

\* What Upload sees of the lines.
Dates == [n \in DOMAIN lines |-> IF lines[n].wall THEN lines[n].ts ELSE 0]

\* A line of the device is one to Upload.
LEMMA OfLineIsOf ==
    ASSUME DeviceShapes, NEW x, OfLine(x)
    PROVE  Contract!IsOf(x, x.body)
<1>1. lines \in Seq(Line) /\ x.body \in DOMAIN lines /\ lines[x.body].wall
  BY DEF OfLine, DeviceShapes
<1>2. lines[x.body] \in Line
  BY <1>1
<1>3. Dates[x.body] = lines[x.body].ts /\ Dates[x.body] # 0
  BY <1>1, <1>2 DEF Dates, Line
<1>. QED BY <1>1, <1>3 DEF Contract!IsOf, Contract!IsDated, Dates, OfLine

\* Every step is one of Upload, or changes nothing that Upload sees.
LEMMA UploadStep ==
    ASSUME DeviceShapes, ServerInv, Saved, Saved', Sourced, [Next]_vars,
           DeviceShapes'
    PROVE  \/ Contract!Next
           \/ UNCHANGED <<Dates, Stored, cursor>>
<1>0. PICK S : S = (1 .. MaxLines) \cup {0}
  OBVIOUS
<1>1. /\ lines \in Seq(Line) /\ Len(lines) \in Nat
      /\ DOMAIN lines = 1 .. Len(lines)
      /\ cursor \in Nat /\ cursor <= Len(lines)
      /\ Dates \in Seq(S) /\ Len(Dates) = Len(lines)
  <2>1. /\ lines \in Seq(Line) /\ Len(lines) \in Nat
        /\ DOMAIN lines = 1 .. Len(lines)
        /\ cursor \in Nat /\ cursor <= Len(lines)
    BY DEF DeviceShapes
  <2>2. Dates \in [1 .. Len(lines) -> S]
    <3>1. \A n \in 1 .. Len(lines) : lines[n] \in Line
      BY <2>1
    <3>2. \A n \in 1 .. Len(lines) : lines[n].ts \in S
      BY <1>0, <3>1 DEF Line
    <3>3. 0 \in S
      BY <1>0
    <3>. QED BY <2>1, <3>2, <3>3 DEF Dates
  <2>3. Dates \in Seq(S) /\ Len(Dates) = Len(lines)
    <3>1. PICK f \in [1 .. Len(lines) -> S] : f = Dates
      BY <2>2
    <3>2. f \in Seq(S) /\ Len(f) = Len(lines)
      BY <2>1, SeqDef
    <3>. QED BY <3>1, <3>2
  <2>. QED BY <2>1, <2>3
<1>2. CASE Remember /\ UNCHANGED serverVars
  <2>1. /\ lines' \in Seq(Line) /\ Len(lines') = Len(lines) + 1
        /\ \A n \in DOMAIN lines : lines'[n] = lines[n]
        /\ cursor' = cursor
    BY <1>2, RememberShapes
  <2>2. PICK d \in S :
          d = IF lines'[Len(lines) + 1].wall
                THEN lines'[Len(lines) + 1].ts ELSE 0
    <3>1. lines'[Len(lines) + 1] \in Line
      BY <1>1, <2>1
    <3>. QED BY <1>0, <3>1 DEF Line
  <2>3. Dates' = Append(Dates, d)
    <3>1. DOMAIN Dates' = 1 .. Len(lines) + 1
      BY <1>1, <2>1 DEF Dates
    <3>2. DOMAIN Dates = 1 .. Len(lines)
      BY <1>1 DEF Dates
    <3>3. \A n \in 1 .. Len(lines) : Dates'[n] = Dates[n]
      BY <1>1, <2>1 DEF Dates
    <3>4. Dates'[Len(lines) + 1] = d
      BY <1>1, <2>1, <2>2 DEF Dates
    <3>5. Dates' = [n \in 1 .. Len(lines) + 1 |-> Dates'[n]]
      BY <3>1 DEF Dates
    <3>6. Append(Dates, d) \in Seq(S)
          /\ Len(Append(Dates, d)) = Len(lines) + 1
          /\ \A n \in 1 .. Len(lines) : Append(Dates, d)[n] = Dates[n]
          /\ Append(Dates, d)[Len(lines) + 1] = d
      BY <1>1, AppendProperties
    <3>7. DOMAIN Append(Dates, d) = 1 .. Len(lines) + 1
      BY <3>6
    <3>8. Append(Dates, d) =
            [n \in 1 .. Len(lines) + 1 |-> Append(Dates, d)[n]]
      <4>1. PICK a \in Seq(S) : a = Append(Dates, d)
        BY <3>6
      <4>2. a \in [1 .. Len(a) -> S]
        BY <4>1, LenProperties
      <4>3. a = [n \in 1 .. Len(a) |-> a[n]]
        BY <4>2
      <4>. QED BY <3>6, <4>1, <4>3
    <3>9. \A n \in 1 .. Len(lines) + 1 : Dates'[n] = Append(Dates, d)[n]
      BY <1>1, <3>3, <3>4, <3>6
    <3>. QED BY <3>5, <3>8, <3>9
  <2>4. Stored' = Stored
    BY <1>2 DEF serverVars, Stored, InLedger
  <2>. QED BY <1>0, <2>1, <2>3, <2>4
           DEF Contract!Next, Contract!Write, Dates
<1>3. CASE UNCHANGED <<lines, buffer, ledger>>
  <2>1. Stored' = Stored /\ Dates' = Dates
    BY <1>3 DEF Stored, InLedger, Dates
  <2>2. cursor' \in Nat /\ cursor' <= Len(lines)
    BY <1>1, <1>3 DEF DeviceShapes
  <2>3. CASE cursor' <= cursor
    <3>1. cursor' \in 0 .. cursor
      BY <1>1, <2>2, <2>3
    <3>. QED BY <2>1, <3>1 DEF Contract!Next, Contract!FallBack, Dates
  <2>4. CASE cursor' > cursor
    <3>1. cursor' \in cursor + 1 .. Len(Dates)
      BY <1>1, <2>2, <2>4
    <3>2. ASSUME NEW n \in cursor + 1 .. cursor', Contract!IsDated(n)
          PROVE  Contract!IsKept(n)
      <4>1. n \in 1 .. cursor' /\ n \in DOMAIN lines /\ lines[n].wall
            /\ Dates[n] = lines[n].ts
        BY <1>1, <2>2, <3>2 DEF Contract!IsDated, Dates
      <4>2. PICK x \in Stored : MayBe(x, n)'
        BY <2>1, <4>1, <1>3 DEF Saved
      <4>3. MayBe(x, n)
        BY <4>2, <1>3 DEF MayBe, OfLine, Foreign, FilterForMode
      <4>4. Contract!IsOf(x, n)
        BY <3>2, <4>1, <4>3 DEF MayBe, Contract!IsOf, Contract!IsDated, Dates
      <4>5. CASE x \in Foreign
        BY <4>3, <4>4, <4>5 DEF MayBe, Contract!IsKept
      <4>6. CASE OfLine(x)
        BY <4>4, <4>6, OfLineIsOf DEF Contract!IsKept
      <4>. QED BY <4>3, <4>5, <4>6 DEF MayBe
    <3>. QED BY <2>1, <3>1, <3>2
             DEF Contract!Next, Contract!Advance, Dates
  <2>. QED BY <1>1, <2>2, <2>3, <2>4
<1>4. CASE UNCHANGED <<lines, cursor>>
  <2>1. Stored \subseteq Stored' /\ Dates' = Dates
    BY <1>4, ServerStep DEF Dates
  <2>2. ASSUME NEW x \in Stored' \ Stored
        PROVE  x \in Foreign \/ Contract!IsOf(x, x.body)
    <3>1. x \in Foreign \/ OfLine(x)
      BY <2>2, NewsStep DEF News, Everything, Sourced
    <3>. QED BY <3>1, OfLineIsOf
  <2>. QED BY <1>4, <2>1, <2>2
           DEF Contract!Next, Contract!Keep, Foreign, Dates
<1>. QED BY <1>2, <1>3, <1>4, StepKinds

-----------------------------------------------------------------------------
(* Without a failure.                                                      *)

Settled(i) == ledger[i].done \in {"announced", "skipped"}

\* A cell without its episode has a request at work on it.
Unfailed ==
    faults = 0 =>
      /\ \A r \in Slots : request[r].at # "err"
      /\ \A i \in DOMAIN ledger :
           \/ Settled(i)
           \/ \E r \in Slots :
                request[r].at \in Working /\ i \in request[r].mine

\* As long as no step fails, every cell gets its episode or keeps its request.
LEMMA UnfailedStep ==
    ASSUME DeviceShapes, ServerInv, Unfailed, [Next]_vars
    PROVE  Unfailed'
<1>1. CASE Fault
  BY <1>1 DEF Fault, Unfailed, DeviceShapes
<1>2. ASSUME UNCHANGED <<serverVars, faults>> PROVE Unfailed'
  BY <1>2 DEF serverVars, Unfailed, Settled
<1>3. ASSUME NEW r \in Slots, Others(r), UNCHANGED <<ledger, faults>>,
             request[r].at \notin Working, request'[r].at # "err"
      PROVE  Unfailed'
  BY <1>3 DEF Others, Unfailed, Settled
<1>4. ASSUME NEW r \in Slots, Post(r) PROVE Unfailed'
  BY <1>3, <1>4, PostShapes DEF environment, Working
<1>5. ASSUME NEW r \in Slots, ClientAdd(r) \/ ClientFlush(r) PROVE Unfailed'
  BY <1>3, <1>5, ClientShapes DEF Working
<1>6. ASSUME NEW r \in Slots, Release(r), UNCHANGED faults PROVE Unfailed'
  <2>1. /\ Others(r) /\ UNCHANGED ledger /\ request'[r].at = "idle"
        /\ request[r].at \notin Working
    BY <1>6, ReleaseShapes, IdleTyped DEF Working
  <2>. QED BY <1>3, <1>6, <2>1
<1>7. ASSUME NEW r \in Slots, Serve(r), UNCHANGED faults PROVE Unfailed'
  <2>1. Served(r)
    BY <1>7, ServeStep
  <2>2. SUFFICES ASSUME faults = 0 PROVE Unfailed'
    BY <1>7 DEF Unfailed
  <2>3. \A q \in Slots : request'[q].at # "err"
    BY <2>1, <2>2 DEF Unfailed, Served, Keeps, Others, Working
  <2>4. ASSUME NEW i \in DOMAIN ledger'
        PROVE  \/ Settled(i)'
               \/ \E q \in Slots :
                    request'[q].at \in Working /\ i \in request'[q].mine
    <3>1. CASE i \notin DOMAIN ledger
      BY <2>1, <2>4, <3>1 DEF Served
    <3>2. CASE i \in request[r].mine
      <4>1. i \in request'[r].mine
        BY <2>1, <3>2 DEF Served
      <4>2. CASE request'[r].at \in Working
        BY <4>1, <4>2
      <4>3. CASE request'[r].at = "ok"
        <5>1. Mine(r)'
          BY <2>1 DEF Served, ServerInv
        <5>. QED BY <4>1, <4>3, <5>1 DEF Mine, Settled
      <4>. QED BY <2>1, <4>2, <4>3 DEF Served
    <3>3. CASE i \in DOMAIN ledger /\ i \notin request[r].mine
      <4>1. ledger'[i] = ledger[i] /\ Others(r)
        BY <2>1, <3>3 DEF Served, Keeps
      <4>2. CASE Settled(i)
        BY <4>1, <4>2 DEF Settled
      <4>3. CASE ~Settled(i)
        <5>1. PICK q \in Slots :
                request[q].at \in Working /\ i \in request[q].mine
          BY <2>2, <3>3, <4>3 DEF Unfailed
        <5>2. request'[q] = request[q]
          BY <3>3, <4>1, <5>1 DEF Others
        <5>. QED BY <5>1, <5>2
      <4>. QED BY <4>2, <4>3
    <3>. QED BY <3>1, <3>2, <3>3
  <2>. QED BY <2>3, <2>4 DEF Unfailed
<1>8. flight # None => flight \in Slots
  BY DEF DeviceShapes
<1>9. CASE Acknowledged \/ Refused
  BY <1>6, <1>8, <1>9 DEF Acknowledged, Refused, Answered, environment
<1>10. CASE GivesUp \/ SaveFails \/ PowerLoss \/ ServerFault
  BY <1>1, <1>10 DEF GivesUp, SaveFails, PowerLoss, ServerFault
<1>11. CASE DeviceAlone \/ UNCHANGED vars
  BY <1>2, <1>11 DEF DeviceAlone, environment, vars
<1>12. ASSUME NEW r \in Slots, ServeRequest(r) \/ CallerGone(r)
       PROVE  Unfailed'
  BY <1>6, <1>7, <1>12 DEF ServeRequest, CallerGone, environment
<1>. QED BY <1>4, <1>5, <1>9, <1>10, <1>11, <1>12 DEF Next

-----------------------------------------------------------------------------
(* Each message in one place.                                              *)

\* What of a request is neither in the buffer nor in a cell yet.
Hand(r) ==
    LET q == request[r] IN
    IF q.at = "queued" THEN q.messages
    ELSE IF q.at \in {"detect", "keep", "cut"}
           THEN q.merged \ buffer[q.session]
    ELSE IF q.at = "listed" THEN TailOf(r) \ buffer[q.session]
    ELSE {}

InBuffer(x, s) == \E m \in buffer[s] : m.body = x
InCell(x, i)   == \E m \in ledger[i].items : m.body = x
InHand(x, r)   == \E m \in Hand(r) : m.body = x

\* The body is of one message at most.
One(x, M) == \A m, n \in M : m.body = x /\ n.body = x => m = n

\* A body is in one place: in the buffer of one session, in one cell, or in
\* the hands of one request; in the buffer and in a cell only while the
\* request that carved it moves it.
Placed(x) ==
    /\ \A s, t \in Sessions : InBuffer(x, s) /\ InBuffer(x, t) => s = t
    /\ \A i, j \in DOMAIN ledger : InCell(x, i) /\ InCell(x, j) => i = j
    /\ \A r, q \in Slots : InHand(x, r) /\ InHand(x, q) => r = q
    /\ \A r \in Slots : InHand(x, r) =>
          /\ \A s \in Sessions : ~ InBuffer(x, s)
          /\ \A i \in DOMAIN ledger : ~ InCell(x, i)
    /\ \A s \in Sessions, i \in DOMAIN ledger :
          InBuffer(x, s) /\ InCell(x, i) =>
             \E r \in Slots : /\ request[r].at = "listed"
                              /\ request[r].session = s
                              /\ \E m \in Carved(r) : m.body = x

\* No message has a twin, and the cells of a request share none.
Whole(x) ==
    /\ \A s \in Sessions : One(x, buffer[s])
    /\ \A r \in Slots :
          /\ request[r].at = "queued" => One(x, request[r].messages)
          /\ request[r].at \in Early => One(x, request[r].merged)
          /\ request[r].at = "cut" =>
               \A i, j \in DOMAIN request[r].cells :
                  i # j => request[r].cells[i] \cap request[r].cells[j] = {}

Nowhere(x) == /\ \A s \in Sessions : ~ InBuffer(x, s)
              /\ \A i \in DOMAIN ledger : ~ InCell(x, i)
              /\ \A r \in Slots : ~ InHand(x, r)

\* What a step has to show of a body.
Sound(x) == Placed(x)' /\ Whole(x)' /\ (Nowhere(x) => Nowhere(x)')

\* The cells that the detector cuts share no message.
LEMMA CutsApart ==
    ASSUME NEW M \in SUBSET Message, NEW final \in BOOLEAN,
           NEW c \in Cuts(M, final)
    PROVE  \A i, j \in DOMAIN c : i # j => c[i] \cap c[j] = {}
<1>1. \A N : Slices(N) \subseteq SUBSET N
  BY DEF Slices
<1>2. \/ c = <<>>
      \/ \E P \in Slices(M) : c = <<P>>
      \/ \E P \in Slices(M) : \E Q \in Slices(M \ P) : c = <<P, Q>>
  BY DEF Cuts
<1>3. CASE c = <<>>
  BY <1>3
<1>4. CASE \E P \in Slices(M) : c = <<P>>
  BY <1>4
<1>5. CASE \E P \in Slices(M) : \E Q \in Slices(M \ P) : c = <<P, Q>>
  <2>1. PICK P \in Slices(M) : \E Q \in Slices(M \ P) : c = <<P, Q>>
    BY <1>5
  <2>2. PICK Q \in Slices(M \ P) : c = <<P, Q>>
    BY <2>1
  <2>3. P \cap Q = {}
    BY <1>1
  <2>. QED BY <2>2, <2>3
<1>. QED BY <1>2, <1>3, <1>4, <1>5

\* The other requests hold in their hands what they held.
LEMMA HandsStay ==
    ASSUME ServerInv, NEW r \in Slots, Keeps(r), NEW q \in Slots, q # r
    PROVE  /\ Hand(q)' = Hand(q) /\ Carved(q)' = Carved(q)
           /\ request'[q] = request[q]
<1>1. /\ request'[q] = request[q] /\ request[q].session \in Sessions
  BY DEF ServerInv, Keeps, Others, ServerShapes, Request
<1>2. request[q].at \in Early =>
        buffer'[request[q].session] = buffer[request[q].session]
  BY <1>1 DEF ServerInv, Locked, Keeps, Early, Working
<1>3. Carved(q)' = Carved(q)
  BY <1>1 DEF Carved
<1>4. CASE request[q].at \in {"detect", "keep", "cut"}
  BY <1>1, <1>2, <1>3, <1>4 DEF Hand, Early
<1>5. CASE request[q].at = "listed"
  BY <1>1, <1>2, <1>3, <1>5 DEF Hand, Early, TailOf
<1>6. CASE request[q].at \notin {"detect", "keep", "cut", "listed"}
  BY <1>1, <1>3, <1>6 DEF Hand
<1>. QED BY <1>1, <1>3, <1>4, <1>5, <1>6

\* The cells that are there keep what is in them.
LEMMA CellsStay ==
    ASSUME NEW r \in Slots, Keeps(r), NEW x, NEW i \in DOMAIN ledger
    PROVE  i \in DOMAIN ledger' /\ (InCell(x, i)' <=> InCell(x, i))
BY DEF Keeps, InCell

\* A step that moves nothing between the hands and the tables.
LEMMA QuietSound ==
    ASSUME ServerInv, NEW r \in Slots, Keeps(r), NEW x, Placed(x), Whole(x),
           UNCHANGED buffer, DOMAIN ledger' = DOMAIN ledger,
           request[r].at # "listed",
           InHand(x, r)' => InHand(x, r),
           request'[r].at # "queued",
           request'[r].at \in Early => One(x, request'[r].merged),
           request'[r].at = "cut" =>
             \A i, j \in DOMAIN request'[r].cells :
               i # j => request'[r].cells[i] \cap request'[r].cells[j] = {}
    PROVE  Sound(x)
<1>1. \A q \in Slots : q # r => /\ InHand(x, q)' <=> InHand(x, q)
                                /\ Carved(q)' = Carved(q)
                                /\ request'[q] = request[q]
  BY HandsStay DEF InHand
<1>2. \A i \in DOMAIN ledger : InCell(x, i)' <=> InCell(x, i)
  BY CellsStay
<1>3. \A s \in Sessions : InBuffer(x, s)' <=> InBuffer(x, s)
  BY DEF InBuffer
<1>4. \A q \in Slots : InHand(x, q)' => InHand(x, q)
  BY <1>1
<1>5. Placed(x)'
  <2>1. (\A s, t \in Sessions : InBuffer(x, s) /\ InBuffer(x, t) => s = t)'
    BY <1>3 DEF Placed
  <2>2. (\A i, j \in DOMAIN ledger : InCell(x, i) /\ InCell(x, j) => i = j)'
    BY <1>2 DEF Placed
  <2>3. (\A p, q \in Slots : InHand(x, p) /\ InHand(x, q) => p = q)'
    BY <1>4 DEF Placed
  <2>4. (\A q \in Slots : InHand(x, q) =>
          /\ \A s \in Sessions : ~ InBuffer(x, s)
          /\ \A i \in DOMAIN ledger : ~ InCell(x, i))'
    BY <1>2, <1>3, <1>4 DEF Placed
  <2>5. (\A s \in Sessions, i \in DOMAIN ledger :
          InBuffer(x, s) /\ InCell(x, i) =>
             \E q \in Slots : /\ request[q].at = "listed"
                              /\ request[q].session = s
                              /\ \E m \in Carved(q) : m.body = x)'
    BY <1>1, <1>2, <1>3 DEF Placed
  <2>. QED BY <2>1, <2>2, <2>3, <2>4, <2>5 DEF Placed
<1>6. Whole(x)'
  <2>1. \A s \in Sessions : One(x, buffer'[s])
    BY DEF Whole
  <2>2. \A q \in Slots :
          /\ request'[q].at = "queued" => One(x, request'[q].messages)
          /\ request'[q].at \in Early => One(x, request'[q].merged)
          /\ request'[q].at = "cut" =>
               \A i, j \in DOMAIN request'[q].cells :
                  i # j => request'[q].cells[i] \cap request'[q].cells[j] = {}
    BY <1>1 DEF Whole
  <2>. QED BY <2>1, <2>2 DEF Whole, One
<1>7. Nowhere(x) => Nowhere(x)'
  BY <1>2, <1>3, <1>4 DEF Nowhere
<1>. QED BY <1>5, <1>6, <1>7 DEF Sound

\* Reading the buffer: what is new goes from the call into the merge.
LEMMA ReadSound ==
    ASSUME ServerInv, NEW r \in Slots, Read(r), NEW x, Placed(x), Whole(x)
    PROVE  Sound(x)
<1>. DEFINE s == request[r].session
            merged == MergeDedupe(buffer[s], FilterForMode(request[r].messages))
<1>1. /\ request[r].at = "queued" /\ UNCHANGED <<buffer, ledger>>
      /\ request'[r].at \in {"ok", "keep", "detect"}
      /\ request'[r].merged = merged /\ request'[r].session = s
  BY DEF Read, ServerInv, ServerShapes, Request
<1>2. s \in Sessions /\ Keeps(r)
  BY ReadStep DEF Served, ServerInv, ServerShapes, Request
<1>3. \A m \in merged : m \in buffer[s] \/ m \in request[r].messages
  BY DEF MergeDedupe, FilterForMode
<1>. HIDE DEF merged
<1>4. Hand(r) = request[r].messages
  BY <1>1 DEF Hand
<1>5. InHand(x, r)' => InHand(x, r)
  <2>1. Hand(r)' \subseteq merged \ buffer[s]
    BY <1>1 DEF Hand
  <2>. QED BY <1>3, <1>4, <2>1 DEF InHand
<1>6. One(x, merged)
  <2>1. SUFFICES ASSUME NEW m \in merged, NEW n \in merged,
                        m.body = x, n.body = x
                 PROVE  m = n
    BY DEF One
  <2>2. One(x, buffer[s]) /\ One(x, request[r].messages)
    BY <1>1, <1>2 DEF Whole
  <2>3. ~ (InHand(x, r) /\ InBuffer(x, s))
    BY <1>2 DEF Placed
  <2>4. \A y : y \in request[r].messages /\ y.body = x => InHand(x, r)
    BY <1>4 DEF InHand
  <2>5. \A y : y \in buffer[s] /\ y.body = x => InBuffer(x, s)
    BY DEF InBuffer
  <2>. QED BY <1>3, <2>1, <2>2, <2>3, <2>4, <2>5 DEF One
<1>. QED BY <1>1, <1>2, <1>5, <1>6, QuietSound

\* The detector moves nothing yet.
LEMMA DetectSound ==
    ASSUME ServerInv, NEW r \in Slots, Detect(r), NEW x, Placed(x), Whole(x)
    PROVE  Sound(x)
<1>1. PICK cells \in Cuts(request[r].merged, request[r].final) :
        request' = [request EXCEPT ![r].cells = cells,
                       ![r].at = IF cells = <<>> THEN "keep" ELSE "cut"]
  BY DEF Detect
<1>2. /\ request[r].at = "detect" /\ UNCHANGED <<buffer, ledger>>
      /\ request'[r].at \in {"keep", "cut"}
      /\ request'[r].cells = cells
      /\ request'[r].merged = request[r].merged
      /\ request'[r].session = request[r].session
  BY <1>1 DEF Detect, ServerInv, ServerShapes, Request
<1>3. Keeps(r) /\ request[r].merged \in SUBSET Message
      /\ request[r].final \in BOOLEAN
  BY DetectStep DEF Served, ServerInv, ServerShapes, Request
<1>4. \A i, j \in DOMAIN cells : i # j => cells[i] \cap cells[j] = {}
  BY <1>3, CutsApart
<1>5. InHand(x, r)' => InHand(x, r)
  BY <1>2 DEF InHand, Hand
<1>6. One(x, request'[r].merged)
  BY <1>2 DEF Whole, Early
<1>. QED BY <1>2, <1>3, <1>4, <1>5, <1>6, QuietSound

\* Steps after the buffer is written move nothing.
LEMMA LateSound ==
    ASSUME ServerInv, NEW r \in Slots, NEW x, Placed(x), Whole(x),
           \/ TouchLastMessage(r) \/ EmitStarted(r) \/ WriteEpisode(r)
           \/ EmitExtracted(r) \/ Answer(r)
    PROVE  Sound(x)
<1>1. Keeps(r)
  BY ServeStep DEF Serve, Served
<1>2. /\ UNCHANGED buffer /\ DOMAIN ledger' = DOMAIN ledger
      /\ request[r].at \in {"kept", "emit", "extract", "announce"}
      /\ \/ request' = request
         \/ \E step \in {"ok", "emit", "extract", "announce"} : Go(r, step)
  BY DEF TouchLastMessage, EmitStarted, WriteEpisode, EmitExtracted, Answer
<1>3. request'[r].at \in {"kept", "ok", "emit", "extract", "announce"}
  BY <1>2 DEF Go, ServerInv, ServerShapes, Request
<1>4. ~ InHand(x, r)'
  BY <1>3 DEF InHand, Hand
<1>. QED BY <1>1, <1>2, <1>3, <1>4, QuietSound DEF Early

\* Writing the buffer: what was in the hands of the request gets there.
LEMMA WriteSound ==
    ASSUME ServerInv, NEW r \in Slots, Keeps(r), NEW x, Placed(x), Whole(x),
           NEW M \in SUBSET request[r].merged, request[r].at \in Early,
           buffer' = [buffer EXCEPT ![request[r].session] = M],
           UNCHANGED ledger, request'[r].at \in {"kept", "emit"},
           (\E m \in M : m.body = x) =>
             \/ InHand(x, r)
             \/ /\ InBuffer(x, request[r].session)
                /\ \A i \in DOMAIN ledger : ~ InCell(x, i)
    PROVE  Sound(x)
<1>0. PICK s : s = request[r].session
  OBVIOUS
<1>1. \A q \in Slots : q # r => /\ InHand(x, q)' <=> InHand(x, q)
                                /\ Carved(q)' = Carved(q)
                                /\ request'[q] = request[q]
  BY HandsStay DEF InHand
<1>2. ~ InHand(x, r)'
  BY DEF InHand, Hand
<1>3. DOMAIN ledger' = DOMAIN ledger
      /\ \A i \in DOMAIN ledger : InCell(x, i)' <=> InCell(x, i)
  BY DEF InCell
<1>4. s \in Sessions /\ buffer'[s] = M
      /\ \A t \in Sessions : t # s => buffer'[t] = buffer[t]
  BY <1>0 DEF ServerInv, ServerShapes, Request
<1>5. \A t \in Sessions : t # s => (InBuffer(x, t)' <=> InBuffer(x, t))
  BY <1>4 DEF InBuffer
<1>6. InBuffer(x, s)' =>
        \/ InHand(x, r)
        \/ InBuffer(x, s) /\ \A i \in DOMAIN ledger : ~ InCell(x, i)
  BY <1>0, <1>4 DEF InBuffer
<1>7. Placed(x)'
  <2>1. (\A t, u \in Sessions : InBuffer(x, t) /\ InBuffer(x, u) => t = u)'
    BY <1>4, <1>5, <1>6 DEF Placed
  <2>2. (\A i, j \in DOMAIN ledger : InCell(x, i) /\ InCell(x, j) => i = j)'
    BY <1>3 DEF Placed
  <2>3. (\A p, q \in Slots : InHand(x, p) /\ InHand(x, q) => p = q)'
    BY <1>1, <1>2 DEF Placed
  <2>4. (\A q \in Slots : InHand(x, q) =>
          /\ \A t \in Sessions : ~ InBuffer(x, t)
          /\ \A i \in DOMAIN ledger : ~ InCell(x, i))'
    BY <1>1, <1>2, <1>3, <1>4, <1>5, <1>6 DEF Placed
  <2>5. ASSUME NEW t \in Sessions, NEW i \in DOMAIN ledger',
               InBuffer(x, t)', InCell(x, i)'
        PROVE  \E q \in Slots : /\ request'[q].at = "listed"
                                /\ request'[q].session = t
                                /\ \E m \in Carved(q)' : m.body = x
    <3>1. t # s
      BY <1>3, <1>4, <1>6, <2>5 DEF Placed
    <3>2. InBuffer(x, t) /\ InCell(x, i) /\ i \in DOMAIN ledger
      BY <1>3, <1>5, <2>5, <3>1
    <3>3. PICK q \in Slots : /\ request[q].at = "listed"
                             /\ request[q].session = t
                             /\ \E m \in Carved(q) : m.body = x
      BY <3>2 DEF Placed
    <3>4. q # r
      BY <1>0, <3>1, <3>3
    <3>. QED BY <1>1, <3>3, <3>4
  <2>6. (\A t \in Sessions, i \in DOMAIN ledger :
          InBuffer(x, t) /\ InCell(x, i) =>
             \E q \in Slots : /\ request[q].at = "listed"
                              /\ request[q].session = t
                              /\ \E m \in Carved(q) : m.body = x)'
    BY <2>5
  <2>. QED BY <2>1, <2>2, <2>3, <2>4, <2>6 DEF Placed
<1>8. Whole(x)'
  <2>1. \A t \in Sessions : One(x, buffer'[t])
    <3>1. One(x, request[r].merged)
      BY DEF Whole
    <3>2. One(x, M)
      BY <3>1 DEF One
    <3>. QED BY <1>4, <3>2 DEF Whole
  <2>2. \A q \in Slots :
          /\ request'[q].at = "queued" => One(x, request'[q].messages)
          /\ request'[q].at \in Early => One(x, request'[q].merged)
          /\ request'[q].at = "cut" =>
               \A i, j \in DOMAIN request'[q].cells :
                  i # j => request'[q].cells[i] \cap request'[q].cells[j] = {}
    BY <1>1 DEF Whole, Early
  <2>. QED BY <2>1, <2>2 DEF Whole, One
<1>9. Nowhere(x) => Nowhere(x)'
  BY <1>1, <1>2, <1>3, <1>4, <1>5, <1>6 DEF Nowhere
<1>. QED BY <1>7, <1>8, <1>9 DEF Sound

\* While a request has the session, what is in the buffer of the session is
\* in no cell, unless the request has put it there itself.
LEMMA NotInBoth ==
    ASSUME ServerInv, NEW r \in Slots, request[r].at \in Working, NEW x,
           Placed(x), InBuffer(x, request[r].session),
           NEW i \in DOMAIN ledger, InCell(x, i)
    PROVE  /\ request[r].at = "listed"
           /\ \E m \in Carved(r) : m.body = x
<1>1. request[r].session \in Sessions
  BY DEF ServerInv, ServerShapes, Request
<1>2. PICK q \in Slots : /\ request[q].at = "listed"
                         /\ request[q].session = request[r].session
                         /\ \E m \in Carved(q) : m.body = x
  BY <1>1 DEF Placed
<1>3. q = r
  BY <1>2 DEF ServerInv, Locked, Working
<1>. QED BY <1>2, <1>3

\* Putting everything back.
LEMMA KeepAllSound ==
    ASSUME ServerInv, NEW r \in Slots, KeepAll(r), NEW x, Placed(x), Whole(x)
    PROVE  Sound(x)
<1>. DEFINE M == request[r].merged
<1>1. /\ request[r].at = "keep" /\ UNCHANGED ledger
      /\ buffer' = [buffer EXCEPT ![request[r].session] = M]
      /\ request'[r].at = "kept"
  BY DEF KeepAll, Go, ServerInv, ServerShapes, Request
<1>2. Keeps(r)
  BY KeepAllStep DEF Served
<1>3. Hand(r) = M \ buffer[request[r].session]
  BY <1>1 DEF Hand
<1>4. (\E m \in M : m.body = x) =>
        \/ InHand(x, r)
        \/ /\ InBuffer(x, request[r].session)
           /\ \A i \in DOMAIN ledger : ~ InCell(x, i)
  <2>1. ASSUME InBuffer(x, request[r].session), NEW i \in DOMAIN ledger,
               InCell(x, i)
        PROVE  FALSE
    BY <1>1, <2>1, NotInBoth DEF Working
  <2>2. (\E m \in M : m.body = x) =>
          InHand(x, r) \/ InBuffer(x, request[r].session)
    BY <1>3 DEF InHand, InBuffer
  <2>. QED BY <2>1, <2>2
<1>. QED BY <1>1, <1>2, <1>4, WriteSound DEF Early

\* Putting the tail back: what was carved is not in it.
LEMMA ReplaceTailSound ==
    ASSUME ServerInv, NEW r \in Slots, ReplaceTail(r), NEW x, Placed(x),
           Whole(x)
    PROVE  Sound(x)
<1>. DEFINE M == TailOf(r)
<1>1. /\ request[r].at = "listed" /\ UNCHANGED ledger
      /\ buffer' = [buffer EXCEPT ![request[r].session] = M]
      /\ request'[r].at = "emit"
  BY DEF ReplaceTail, Go, ServerInv, ServerShapes, Request
<1>2. Keeps(r) /\ M \in SUBSET request[r].merged
  BY ReplaceTailStep DEF Served, TailOf
<1>3. Hand(r) = M \ buffer[request[r].session]
  BY <1>1 DEF Hand
<1>4. /\ Carved(r) \subseteq request[r].merged
      /\ One(x, request[r].merged)
  BY <1>1 DEF ServerInv, Holds, Whole, Early
<1>5. (\E m \in M : m.body = x) =>
        \/ InHand(x, r)
        \/ /\ InBuffer(x, request[r].session)
           /\ \A i \in DOMAIN ledger : ~ InCell(x, i)
  <2>1. ASSUME NEW m \in M, m.body = x,
               InBuffer(x, request[r].session), NEW i \in DOMAIN ledger,
               InCell(x, i)
        PROVE  FALSE
    <3>1. PICK n \in Carved(r) : n.body = x
      BY <1>1, <2>1, NotInBoth DEF Working
    <3>2. m \in request[r].merged /\ m \notin Carved(r)
      BY <2>1 DEF TailOf
    <3>. QED BY <1>4, <2>1, <3>1, <3>2 DEF One
  <2>2. (\E m \in M : m.body = x) =>
          InHand(x, r) \/ InBuffer(x, request[r].session)
    BY <1>3 DEF InHand, InBuffer
  <2>. QED BY <2>1, <2>2
<1>. QED BY <1>1, <1>2, <1>5, WriteSound DEF Early

\* What is carved goes into one cell each.
LEMMA InsertSound ==
    ASSUME ServerInv, NEW r \in Slots, InsertCells(r), NEW x, Placed(x),
           Whole(x)
    PROVE  Sound(x)
<1>1. PICK mine, s, n : /\ mine = request'[r].mine /\ n = Len(ledger)
                        /\ s = request[r].session
  OBVIOUS
<1>2. /\ request[r].at = "cut" /\ request'[r].at = "listed"
      /\ UNCHANGED buffer /\ request'[r].session = s
      /\ request'[r].cells = request[r].cells
      /\ request'[r].merged = request[r].merged
      /\ DOMAIN ledger' = DOMAIN ledger \cup mine
      /\ n \in Nat /\ mine \in SUBSET Nat
      /\ \A i \in DOMAIN ledger : ledger'[i] = ledger[i]
  BY <1>1, InsertShapes DEF SameCall
<1>3. \A i \in mine : /\ i \in Nat /\ i \notin DOMAIN ledger
                      /\ i - n \in DOMAIN request[r].cells
                      /\ ledger'[i].items = request[r].cells[i - n]
  BY <1>1, InsertShapes
<1>4. Keeps(r) /\ s \in Sessions
  BY <1>1, InsertStep DEF Served, ServerInv, ServerShapes, Request
<1>5. /\ One(x, request[r].merged)
      /\ Carved(r) \subseteq request[r].merged
      /\ \A i, j \in DOMAIN request[r].cells :
           i # j => request[r].cells[i] \cap request[r].cells[j] = {}
  BY <1>2 DEF Whole, Early, ServerInv, Holds
<1>6. \A q \in Slots : q # r => /\ InHand(x, q)' <=> InHand(x, q)
                                /\ Carved(q)' = Carved(q)
                                /\ request'[q] = request[q]
  BY <1>4, HandsStay DEF InHand
<1>7. /\ Carved(r)' = Carved(r)
      /\ Hand(r) = request[r].merged \ buffer[s]
      /\ Hand(r)' = (request[r].merged \ Carved(r)) \ buffer[s]
  <2>1. Carved(r)' = Carved(r)
    BY <1>2 DEF Carved
  <2>2. TailOf(r)' = request[r].merged \ Carved(r)
    BY <1>2, <2>1 DEF TailOf
  <2>. QED BY <1>1, <1>2, <2>1, <2>2 DEF Hand
<1>8. \A i \in DOMAIN ledger : InCell(x, i)' <=> InCell(x, i)
  BY <1>2 DEF InCell
<1>9. \A i \in mine : InCell(x, i)' =>
        \E m \in request[r].cells[i - n] : m.body = x /\ m \in Carved(r)
  BY <1>3 DEF InCell, Carved
<1>10. \A t \in Sessions : InBuffer(x, t)' <=> InBuffer(x, t)
  BY <1>2 DEF InBuffer
<1>11. ASSUME NEW i \in mine, InCell(x, i)'
       PROVE  /\ InHand(x, r) \/ InBuffer(x, s)
              /\ ~ InHand(x, r)'
  <2>1. PICK m \in Carved(r) : m.body = x
    BY <1>9, <1>11
  <2>2. InHand(x, r) \/ InBuffer(x, s)
    BY <1>5, <1>7, <2>1 DEF InHand, InBuffer
  <2>3. ~ InHand(x, r)'
    BY <1>5, <1>7, <2>1 DEF InHand, One
  <2>. QED BY <2>2, <2>3
<1>12. InHand(x, r)' => InHand(x, r)
  BY <1>7 DEF InHand
<1>13. InBuffer(x, s) => \A i \in DOMAIN ledger : ~ InCell(x, i)
  BY <1>1, <1>2, NotInBoth DEF Working
<1>14. Placed(x)'
  <2>1. (\A t, u \in Sessions : InBuffer(x, t) /\ InBuffer(x, u) => t = u)'
    BY <1>10 DEF Placed
  <2>2. ASSUME NEW i \in DOMAIN ledger', NEW j \in DOMAIN ledger',
               InCell(x, i)', InCell(x, j)'
        PROVE  i = j
    <3>1. CASE i \in DOMAIN ledger /\ j \in DOMAIN ledger
      BY <1>8, <2>2, <3>1 DEF Placed
    <3>2. CASE i \in mine /\ j \in mine
      <4>1. PICK m \in request[r].cells[i - n] : m.body = x /\ m \in Carved(r)
        BY <1>9, <2>2, <3>2
      <4>2. PICK k \in request[r].cells[j - n] : k.body = x /\ k \in Carved(r)
        BY <1>9, <2>2, <3>2
      <4>3. m = k
        BY <1>5, <4>1, <4>2 DEF One
      <4>4. i - n = j - n
        BY <1>3, <1>5, <3>2, <4>1, <4>2, <4>3
      <4>5. i \in Nat /\ j \in Nat
        BY <1>3, <3>2
      <4>. QED BY <1>2, <4>4, <4>5
    <3>3. CASE i \in mine /\ j \in DOMAIN ledger
      BY <1>4, <1>8, <1>11, <1>13, <2>2, <3>3 DEF Placed
    <3>4. CASE i \in DOMAIN ledger /\ j \in mine
      BY <1>4, <1>8, <1>11, <1>13, <2>2, <3>4 DEF Placed
    <3>. QED BY <1>2, <3>1, <3>2, <3>3, <3>4
  <2>3. (\A p, q \in Slots : InHand(x, p) /\ InHand(x, q) => p = q)'
    BY <1>6, <1>12 DEF Placed
  <2>4. ASSUME NEW q \in Slots, InHand(x, q)'
        PROVE  /\ \A t \in Sessions : ~ InBuffer(x, t)'
               /\ \A i \in DOMAIN ledger' : ~ InCell(x, i)'
    <3>1. InHand(x, q)
      BY <1>6, <1>12, <2>4
    <3>2. \A i \in mine : ~ InCell(x, i)'
      BY <1>4, <1>11, <2>4, <3>1 DEF Placed
    <3>. QED BY <1>2, <1>8, <1>10, <3>1, <3>2 DEF Placed
  <2>5. ASSUME NEW t \in Sessions, NEW i \in DOMAIN ledger',
               InBuffer(x, t)', InCell(x, i)'
        PROVE  \E q \in Slots : /\ request'[q].at = "listed"
                                /\ request'[q].session = t
                                /\ \E m \in Carved(q)' : m.body = x
    <3>1. CASE i \in DOMAIN ledger
      <4>1. PICK q \in Slots : /\ request[q].at = "listed"
                               /\ request[q].session = t
                               /\ \E m \in Carved(q) : m.body = x
        BY <1>8, <1>10, <2>5, <3>1 DEF Placed
      <4>2. q # r
        BY <1>2, <4>1
      <4>. QED BY <1>6, <4>1, <4>2
    <3>2. CASE i \in mine
      <4>1. t = s
        BY <1>4, <1>10, <1>11, <2>5, <3>2 DEF Placed
      <4>2. \E m \in Carved(r)' : m.body = x
        BY <1>7, <1>9, <2>5, <3>2
      <4>. QED BY <1>2, <4>1, <4>2
    <3>. QED BY <1>2, <3>1, <3>2
  <2>6. (\A i, j \in DOMAIN ledger : InCell(x, i) /\ InCell(x, j) => i = j)'
    BY <2>2
  <2>7. (\A q \in Slots : InHand(x, q) =>
          /\ \A t \in Sessions : ~ InBuffer(x, t)
          /\ \A i \in DOMAIN ledger : ~ InCell(x, i))'
    BY <2>4
  <2>8. (\A t \in Sessions, i \in DOMAIN ledger :
          InBuffer(x, t) /\ InCell(x, i) =>
             \E q \in Slots : /\ request[q].at = "listed"
                              /\ request[q].session = t
                              /\ \E m \in Carved(q) : m.body = x)'
    BY <2>5
  <2>. QED BY <2>1, <2>3, <2>6, <2>7, <2>8 DEF Placed
<1>15. Whole(x)'
  <2>1. \A t \in Sessions : One(x, buffer'[t])
    BY <1>2 DEF Whole
  <2>2. \A q \in Slots :
          /\ request'[q].at = "queued" => One(x, request'[q].messages)
          /\ request'[q].at \in Early => One(x, request'[q].merged)
          /\ request'[q].at = "cut" =>
               \A i, j \in DOMAIN request'[q].cells :
                  i # j => request'[q].cells[i] \cap request'[q].cells[j] = {}
    BY <1>2, <1>5, <1>6 DEF Whole
  <2>. QED BY <2>1, <2>2 DEF Whole, One
<1>16. Nowhere(x) => Nowhere(x)'
  BY <1>2, <1>4, <1>6, <1>8, <1>10, <1>11, <1>12 DEF Nowhere
<1>. QED BY <1>14, <1>15, <1>16 DEF Sound

\* Whatever a request does next.
LEMMA ServeSound ==
    ASSUME ServerInv, NEW r \in Slots, Serve(r), NEW x, Placed(x), Whole(x)
    PROVE  Sound(x)
BY ReadSound, DetectSound, KeepAllSound, InsertSound, ReplaceTailSound,
   LateSound DEF Serve

\* The slot of an answered request is free again.
LEMMA ReleaseSound ==
    ASSUME ServerInv, NEW r \in Slots, Release(r), NEW x, Placed(x), Whole(x)
    PROVE  Sound(x)
<1>1. /\ ServerInv' /\ Others(r) /\ UNCHANGED <<buffer, ledger>>
      /\ request[r].at \in {"ok", "err"} /\ request'[r].at = "idle"
      /\ request'[r].mine = {}
  BY ReleaseShapes, IdleTyped
<1>2. Keeps(r)
  BY <1>1, QuietKeeps DEF ServerInv, ServerShapes, Working
<1>3. ~ InHand(x, r)'
  BY <1>1 DEF InHand, Hand
<1>. QED BY <1>1, <1>2, <1>3, QuietSound DEF Early

\* A call brings what is nowhere yet.
LEMMA AcceptSound ==
    ASSUME ServerInv, NEW r \in Slots, Others(r), UNCHANGED <<buffer, ledger>>,
           request[r].at = "idle", request'[r].at = "queued",
           NEW x, Placed(x), Whole(x), One(x, request'[r].messages),
           (\E m \in request'[r].messages : m.body = x) => Nowhere(x)
    PROVE  /\ Placed(x)' /\ Whole(x)'
           /\ Nowhere(x) =>
                \/ Nowhere(x)'
                \/ \E m \in request'[r].messages : m.body = x
<1>1. \A q \in Slots : q # r => /\ InHand(x, q)' <=> InHand(x, q)
                                /\ Carved(q)' = Carved(q)
                                /\ request'[q] = request[q]
  <2>1. \A q \in Slots : q # r =>
          /\ request'[q] = request[q]
          /\ Carved(q)' = Carved(q) /\ TailOf(q)' = TailOf(q)
    BY DEF Others, Carved, TailOf
  <2>2. \A q \in Slots : q # r => Hand(q)' = Hand(q)
    BY <2>1 DEF Hand
  <2>. QED BY <2>1, <2>2 DEF InHand
<1>2. InHand(x, r)' =>
        Nowhere(x) /\ \E m \in request'[r].messages : m.body = x
  BY DEF InHand, Hand
<1>3. /\ \A i \in DOMAIN ledger : InCell(x, i)' <=> InCell(x, i)
      /\ \A s \in Sessions : InBuffer(x, s)' <=> InBuffer(x, s)
      /\ DOMAIN ledger' = DOMAIN ledger
  BY DEF InCell, InBuffer
<1>4. Placed(x)'
  <2>1. (\A s, t \in Sessions : InBuffer(x, s) /\ InBuffer(x, t) => s = t)'
    BY <1>3 DEF Placed
  <2>2. (\A i, j \in DOMAIN ledger : InCell(x, i) /\ InCell(x, j) => i = j)'
    BY <1>3 DEF Placed
  <2>3. (\A p, q \in Slots : InHand(x, p) /\ InHand(x, q) => p = q)'
    BY <1>1, <1>2 DEF Placed, Nowhere
  <2>4. (\A q \in Slots : InHand(x, q) =>
          /\ \A s \in Sessions : ~ InBuffer(x, s)
          /\ \A i \in DOMAIN ledger : ~ InCell(x, i))'
    BY <1>1, <1>2, <1>3 DEF Placed, Nowhere
  <2>5. (\A s \in Sessions, i \in DOMAIN ledger :
          InBuffer(x, s) /\ InCell(x, i) =>
             \E q \in Slots : /\ request[q].at = "listed"
                              /\ request[q].session = s
                              /\ \E m \in Carved(q) : m.body = x)'
    BY <1>1, <1>3 DEF Placed
  <2>. QED BY <2>1, <2>2, <2>3, <2>4, <2>5 DEF Placed
<1>5. Whole(x)'
  <2>1. \A s \in Sessions : One(x, buffer'[s])
    BY DEF Whole
  <2>2. \A q \in Slots :
          /\ request'[q].at = "queued" => One(x, request'[q].messages)
          /\ request'[q].at \in Early => One(x, request'[q].merged)
          /\ request'[q].at = "cut" =>
               \A i, j \in DOMAIN request'[q].cells :
                  i # j => request'[q].cells[i] \cap request'[q].cells[j] = {}
    BY <1>1 DEF Whole, Early
  <2>. QED BY <2>1, <2>2 DEF Whole, One
<1>6. ASSUME Nowhere(x), ~ \E m \in request'[r].messages : m.body = x
      PROVE  Nowhere(x)'
  BY <1>1, <1>2, <1>3, <1>6 DEF Nowhere
<1>. QED BY <1>4, <1>5, <1>6

\* No other client sends the body of a line of the device.
LinesApart ==
    \A b \in ClientBatches : \A m \in b.messages : m.body \notin 1 .. MaxLines

\* The other clients call once, with a body at most once in the call.
OneCall == /\ MaxCalls <= 1
           /\ \A b \in ClientBatches : \A x \in Nat : One(x, b.messages)

\* The bodies that nobody sends a second time.
Single == {x \in Nat : x \in 1 .. MaxLines \/ OneCall}

\* A line is sent with the batch it is in, another body with the one call.
Sent(x) == IF x \in 1 .. MaxLines
             THEN x <= cursor \/ (flight # None /\ x <= batch)
             ELSE calls > 0

Once(x) == faults = 0 =>
             Placed(x) /\ Whole(x) /\ (Sent(x) \/ Nowhere(x))

\* The batch in flight ends behind the cursor.
Ahead == flight # None => cursor < batch

\* A batch is read from the cursor on.
LEMMA AheadStep ==
    ASSUME DeviceShapes, ServerInv, Ahead, [Next]_vars
    PROVE  Ahead'
<1>1. CASE flight' = None
  BY <1>1 DEF Ahead
<1>2. ASSUME NEW r \in Slots, Post(r) PROVE Ahead'
  <2>1. PICK n \in 1 .. Len(lines) : EndsAt(n) /\ batch' = n
    BY <1>2, PostShapes
  <2>2. n > cursor /\ cursor' = cursor
    BY <1>2, <2>1, PostShapes DEF EndsAt, DeviceShapes
  <2>. QED BY <2>1, <2>2 DEF Ahead, DeviceShapes
<1>3. CASE UNCHANGED <<lines, cursor, flight, batch>>
  BY <1>3 DEF Ahead
<1>. QED BY <1>1, <1>2, <1>3, FlightStep

\* A step that follows no failure and is none.
LEMMA FaultsStay ==
    ASSUME DeviceShapes, [Next]_vars, faults' = 0
    PROVE  faults = 0 /\ ~ Fault
<1>1. faults \in Nat
  BY IntakeAssumption DEF DeviceShapes
<1>2. faults' = faults \/ Fault
  BY DEF Next, DeviceAlone, Acknowledged, Refused, GivesUp, SaveFails,
         PowerLoss, ServerFault, Post, ServeRequest, ClientAdd, ClientFlush,
         ClientCall, CallerGone, environment, vars
<1>. QED BY <1>1, <1>2 DEF Fault

\* What has been sent stays sent: without a failure the cursor moves to the
\* end of the batch, and only forward.
LEMMA SentStays ==
    ASSUME DeviceShapes, ServerInv, Unfailed, Ahead, [Next]_vars,
           faults' = 0, NEW x \in Nat, Sent(x)
    PROVE  Sent(x)'
<1>1. cursor \in Nat /\ batch \in Nat /\ calls \in Nat /\ Len(lines) \in Nat
  BY IntakeAssumption DEF DeviceShapes
<1>2. faults = 0 /\ ~ Fault
  BY FaultsStay
<1>3. CASE UNCHANGED deviceVars /\ (calls' = calls \/ calls' = calls + 1)
  BY <1>1, <1>3 DEF Sent, deviceVars
<1>4. CASE \E r \in Slots : \/ ServeRequest(r) \/ CallerGone(r)
                            \/ ClientAdd(r) \/ ClientFlush(r)
  BY <1>3, <1>4 DEF ServeRequest, CallerGone, ClientAdd, ClientFlush,
                    ClientCall, environment
<1>5. CASE UNCHANGED vars
  BY <1>3, <1>5 DEF vars, environment
<1>6. ASSUME NEW r \in Slots, Post(r) PROVE Sent(x)'
  BY <1>1, <1>6, PostShapes DEF Sent, environment
<1>7. CASE Acknowledged
  <2>1. /\ flight # None /\ flight' = None /\ calls' = calls
        /\ cursor' = batch
    BY <1>7 DEF Acknowledged, Answered, SaveCursor, Hangup, Written,
                environment
  <2>. QED BY <1>1, <2>1 DEF Sent, Ahead
<1>8. CASE Refused
  <2>1. flight \in Slots /\ request[flight].at = "err"
    BY <1>8 DEF Refused, Answered, Is2xx, DeviceShapes
  <2>. QED BY <1>2, <2>1 DEF Unfailed
<1>9. CASE DeviceAlone
  <2>1. calls' = calls
    BY <1>9 DEF DeviceAlone, environment
  <2>2. CASE SkipUptime(FALSE)
    <3>1. PICK n \in 1 .. Len(lines) : EndsAt(n) /\ cursor' = n
      BY <2>2 DEF SkipUptime, Written
    <3>2. n > cursor /\ n \in Nat
      BY <1>1, <3>1 DEF EndsAt
    <3>3. UNCHANGED <<flight, batch>>
      BY <2>2 DEF SkipUptime
    <3>. QED BY <1>1, <2>1, <3>1, <3>2, <3>3 DEF Sent
  <2>3. CASE Remember \/ NtpAnswers \/ Midnight
    <3>1. UNCHANGED <<cursor, flight, batch>>
      BY <2>3 DEF Remember, NtpAnswers, Midnight
    <3>. QED BY <2>1, <3>1 DEF Sent
  <2>. QED BY <1>9, <2>2, <2>3 DEF DeviceAlone
<1>. QED BY <1>2, <1>4, <1>5, <1>6, <1>7, <1>8, <1>9
         DEF Next, GivesUp, SaveFails, PowerLoss, ServerFault

\* A batch brings lines that were not sent before, each in one message.
LEMMA PostSound ==
    ASSUME DeviceShapes, ServerInv, NEW r \in Slots, Post(r), NEW x \in Nat,
           Placed(x), Whole(x), Sent(x) \/ Nowhere(x)
    PROVE  /\ Placed(x)' /\ Whole(x)'
           /\ Nowhere(x) => Sent(x)' \/ Nowhere(x)'
<1>1. PICK n \in 1 .. Len(lines) :
        /\ EndsAt(n) /\ Taken(n) # {} /\ batch' = n
        /\ request'[r].messages =
             {ToSyncMessage(k, Taken(n)) : k \in Taken(n)}
  BY PostShapes
<1>2. /\ Others(r) /\ UNCHANGED <<buffer, ledger, cursor>>
      /\ request[r].at = "idle" /\ request'[r].at = "queued"
      /\ flight = None /\ flight' = r /\ r # None
  BY PostShapes, IntakeAssumption
<1>3. \A k \in Taken(n) : /\ ToSyncMessage(k, Taken(n)).body = k
                          /\ k \in 1 .. MaxLines
  BY <1>1, BatchShapes
<1>4. \A k \in Taken(n) : k > cursor /\ k <= n
  BY <1>1 DEF Taken, DeviceShapes
<1>5. One(x, request'[r].messages)
  BY <1>1, <1>3 DEF One
<1>6. ASSUME NEW m \in request'[r].messages, m.body = x
      PROVE  Nowhere(x) /\ Sent(x)'
  <2>1. PICK k \in Taken(n) : m = ToSyncMessage(k, Taken(n))
    BY <1>1, <1>6
  <2>2. x = k /\ x \in 1 .. MaxLines /\ x > cursor /\ x <= n
    BY <1>3, <1>4, <1>6, <2>1
  <2>3. ~ Sent(x)
    BY <1>2, <2>2 DEF Sent, DeviceShapes
  <2>4. Sent(x)'
    BY <1>1, <1>2, <2>2 DEF Sent
  <2>. QED BY <2>3, <2>4
<1>. QED BY <1>2, <1>5, <1>6, AcceptSound

\* So does the only call of another client that has the body.
LEMMA ClientSound ==
    ASSUME LinesApart, DeviceShapes, ServerInv, NEW r \in Slots,
           ClientAdd(r) \/ ClientFlush(r), NEW x \in Single,
           Placed(x), Whole(x), Sent(x) \/ Nowhere(x)
    PROVE  /\ Placed(x)' /\ Whole(x)'
           /\ Nowhere(x) => Sent(x)' \/ Nowhere(x)'
<1>1. /\ Others(r) /\ UNCHANGED <<buffer, ledger>>
      /\ request[r].at = "idle" /\ request'[r].at = "queued"
      /\ \/ request'[r].messages = {}
         \/ \E b \in ClientBatches : request'[r].messages = b.messages
      /\ calls < MaxCalls /\ calls' = calls + 1 /\ calls \in Nat
      /\ MaxCalls \in Nat
  BY ClientShapes, IntakeAssumption DEF ClientCall, DeviceShapes
<1>2. CASE x \in 1 .. MaxLines
  <2>1. \A m \in request'[r].messages : m.body # x
    BY <1>1, <1>2 DEF LinesApart
  <2>2. One(x, request'[r].messages)
    BY <2>1 DEF One
  <2>. QED BY <1>1, <2>1, <2>2, AcceptSound
<1>3. CASE x \notin 1 .. MaxLines
  <2>1. OneCall /\ x \in Nat
    BY <1>3 DEF Single
  <2>2. One(x, request'[r].messages)
    BY <1>1, <2>1 DEF OneCall, One
  <2>3. calls = 0
    BY <1>1, <2>1 DEF OneCall
  <2>4. Nowhere(x) /\ Sent(x)'
    BY <1>1, <1>3, <2>3 DEF Sent
  <2>. QED BY <1>1, <2>2, <2>4, AcceptSound
<1>. QED BY <1>2, <1>3

\* Without a failure no step brings a body to a second place.
LEMMA OnceStep ==
    ASSUME LinesApart, DeviceShapes, ServerInv, Unfailed, Ahead, [Next]_vars,
           NEW x \in Single, Once(x)
    PROVE  Once(x)'
<1>1. SUFFICES ASSUME faults' = 0
               PROVE  Placed(x)' /\ Whole(x)' /\ (Sent(x)' \/ Nowhere(x)')
  BY DEF Once
<1>2. faults = 0 /\ ~ Fault
  BY <1>1, FaultsStay
<1>3. Placed(x) /\ Whole(x) /\ (Sent(x) \/ Nowhere(x)) /\ x \in Nat
  BY <1>2 DEF Once, Single
<1>4. Sent(x) => Sent(x)'
  BY <1>1, <1>3, SentStays
<1>5. CASE UNCHANGED serverVars
  <2>1. \A r \in Slots : Hand(r)' = Hand(r) /\ Carved(r)' = Carved(r)
    BY <1>5 DEF serverVars, Hand, Carved, TailOf
  <2>2. /\ \A s : InBuffer(x, s)' <=> InBuffer(x, s)
        /\ \A i : InCell(x, i)' <=> InCell(x, i)
        /\ \A r \in Slots : InHand(x, r)' <=> InHand(x, r)
        /\ UNCHANGED <<buffer, ledger, request>>
    BY <1>5, <2>1 DEF serverVars, InBuffer, InCell, InHand
  <2>3. Placed(x)'
    BY <1>3, <2>1, <2>2 DEF Placed
  <2>4. Whole(x)'
    BY <1>3, <2>2 DEF Whole, One
  <2>5. Nowhere(x) => Nowhere(x)'
    BY <2>2 DEF Nowhere
  <2>. QED BY <1>3, <1>4, <2>3, <2>4, <2>5
<1>6. ASSUME NEW r \in Slots, Serve(r) \/ Release(r)
      PROVE  Placed(x)' /\ Whole(x)' /\ (Sent(x)' \/ Nowhere(x)')
  <2>1. Sound(x)
    BY <1>3, <1>6, ServeSound, ReleaseSound
  <2>. QED BY <1>3, <1>4, <2>1 DEF Sound
<1>7. ASSUME NEW r \in Slots, Post(r)
      PROVE  Placed(x)' /\ Whole(x)' /\ (Sent(x)' \/ Nowhere(x)')
  BY <1>3, <1>4, <1>7, PostSound
<1>8. ASSUME NEW r \in Slots, ClientAdd(r) \/ ClientFlush(r)
      PROVE  Placed(x)' /\ Whole(x)' /\ (Sent(x)' \/ Nowhere(x)')
  BY <1>3, <1>4, <1>8, ClientSound
<1>9. CASE DeviceAlone \/ UNCHANGED vars
  BY <1>5, <1>9 DEF DeviceAlone, vars
<1>10. CASE Acknowledged \/ Refused
  <2>1. flight \in Slots /\ Release(flight)
    BY <1>10 DEF Acknowledged, Refused, Answered, DeviceShapes
  <2>. QED BY <1>6, <2>1
<1>. QED BY <1>2, <1>6, <1>7, <1>8, <1>9, <1>10
         DEF Next, ServeRequest, CallerGone, GivesUp, SaveFails, PowerLoss,
             ServerFault

\* As long as nothing fails, no body of B is in two cells, and none is in a
\* cell and in the buffer except while the request that carved it moves it.
OnceAmong(B) ==
    faults = 0 =>
      /\ \A i, j \in DOMAIN ledger :
            (\E x \in ledger[i].items, y \in ledger[j].items :
                x.body = y.body /\ x.body \in B) => i = j
      /\ \A s \in Sessions : \A x \in buffer[s], y \in InLedger :
            x.body = y.body /\ x.body \in B =>
              \E r \in Slots : /\ request[r].at = "listed"
                               /\ request[r].session = s

\* A body in one place is in one cell, and in a buffer and a cell only while
\* it is moved.
LEMMA OncePlaced ==
    ASSUME NEW B, \A x \in B : Once(x)
    PROVE  OnceAmong(B)
<1>1. SUFFICES ASSUME faults = 0 PROVE OnceAmong(B)
  BY DEF OnceAmong
<1>2. ASSUME NEW i \in DOMAIN ledger, NEW j \in DOMAIN ledger,
             NEW m \in ledger[i].items, NEW n \in ledger[j].items,
             m.body = n.body, m.body \in B
      PROVE  i = j
  <2>1. InCell(m.body, i) /\ InCell(m.body, j)
    BY <1>2 DEF InCell
  <2>. QED BY <1>1, <1>2, <2>1 DEF Once, Placed
<1>3. ASSUME NEW s \in Sessions, NEW m \in buffer[s], NEW n \in InLedger,
             m.body = n.body, m.body \in B
      PROVE  \E r \in Slots : request[r].at = "listed" /\ request[r].session = s
  <2>1. PICK i \in DOMAIN ledger : n \in ledger[i].items
    BY DEF InLedger
  <2>2. InBuffer(m.body, s) /\ InCell(m.body, i)
    BY <1>3, <2>1 DEF InBuffer, InCell
  <2>3. PICK r \in Slots : request[r].at = "listed" /\ request[r].session = s
    BY <1>1, <1>3, <2>2 DEF Once, Placed
  <2>. QED BY <2>3
<1>. QED BY <1>2, <1>3 DEF OnceAmong

OnceInv == Ahead /\ \A x \in Single : Once(x)

\* At the start nothing is anywhere.
LEMMA OnceAtFirst ==
    ASSUME Init
    PROVE  OnceInv
<1>1. /\ flight = None /\ ledger = <<>>
      /\ \A s \in Sessions : buffer[s] = {}
      /\ \A r \in Slots : request[r].at = "idle"
  BY IdleTyped DEF Init, InitDevice, InitServer
<1>2. ASSUME NEW x PROVE Once(x)
  <2>1. /\ \A s \in Sessions : ~ InBuffer(x, s)
        /\ \A i \in DOMAIN ledger : ~ InCell(x, i)
        /\ \A r \in Slots : ~ InHand(x, r)
    BY <1>1 DEF InBuffer, InCell, InHand, Hand
  <2>2. Placed(x) /\ Nowhere(x)
    BY <2>1 DEF Placed, Nowhere
  <2>3. Whole(x)
    BY <1>1 DEF Whole, One, Early
  <2>. QED BY <2>2, <2>3 DEF Once
<1>. QED BY <1>1, <1>2 DEF OnceInv, Ahead

-----------------------------------------------------------------------------
(* The theorems.                                                           *)

IInv == DeviceShapes /\ ServerInv /\ Flying /\ Unfailed

\* The inductive invariant holds at the start.
LEMMA InitHolds ==
    ASSUME Init
    PROVE  IInv /\ Saved /\ Sourced
<1>1. /\ lines = <<>> /\ cursor = 0 /\ batch = 0 /\ flight = None
      /\ synced = FALSE /\ day = 0 /\ calls = 0 /\ faults = 0
      /\ buffer = [s \in Sessions |-> {}] /\ ledger = <<>>
      /\ request = [r \in Slots |-> Idle]
  BY DEF Init, InitDevice, InitServer
<1>2. /\ {MaxDay, MaxLines, MaxCalls, MaxFaults} \subseteq Nat
      /\ Sessions = 0 .. MaxDay
  BY IntakeAssumption
<1>3. DeviceShapes
  <2>1. lines \in Seq(Line) /\ Len(lines) = 0
    BY <1>1, EmptySeq
  <2>. QED BY <1>1, <1>2, <2>1 DEF DeviceShapes
<1>4. \A r \in Slots : /\ request[r] \in Request
                       /\ request[r].at = "idle" /\ request[r].mine = {}
                       /\ request[r].messages = {} /\ request[r].merged = {}
                       /\ request[r].cells = <<>>
  BY <1>1, IdleTyped
<1>5. ServerInv
  <2>1. ServerShapes
    BY <1>1, <1>4, EmptySeq DEF ServerShapes
  <2>2. Locked /\ Apart
    BY <1>4 DEF Locked, Apart, Working
  <2>3. ASSUME NEW r \in Slots PROVE Holds(r) /\ Mine(r)
    BY <1>4, FS_EmptySet DEF Holds, Early, Late, Mine
  <2>. QED BY <2>1, <2>2, <2>3 DEF ServerInv
<1>6. Flying
  BY <1>1 DEF Flying
<1>7. Unfailed
  BY <1>1, <1>4 DEF Unfailed
<1>8. Saved
  BY <1>1 DEF Saved
<1>9. Sourced
  <2>1. Stored = {}
    BY <1>1 DEF Stored, InLedger
  <2>2. \A r \in Slots : Known(r) = {}
    BY <1>4 DEF Known, Carved, FilterForMode
  <2>. QED BY <2>1, <2>2 DEF Sourced, Everything
<1>. QED BY <1>3, <1>5, <1>6, <1>7, <1>8, <1>9 DEF IInv

\* The inductive invariant always holds.
THEOREM Inductive == Spec => []IInv
<1>1. Init => IInv
  BY InitHolds
<1>2. IInv /\ [Next]_vars => IInv'
  BY DeviceStep, ServerStep, FlyingStep, UnfailedStep DEF IInv
<1>. QED BY <1>1, <1>2, PTL DEF Spec

\* Every reachable state has its type.
THEOREM TypeCorrect == Spec => []TypeOK
<1>1. IInv => TypeOK
  <2>1. SUFFICES ASSUME IInv PROVE TypeOK
    OBVIOUS
  <2>2. DeviceShapes /\ ServerInv /\ ServerShapes
    BY <2>1 DEF IInv, ServerInv
  <2>3. /\ lines \in Seq(Line) /\ cursor \in 0 .. Len(lines)
        /\ flight \in Slots \cup {None} /\ batch \in 0 .. Len(lines)
        /\ synced \in BOOLEAN /\ day \in 0 .. MaxDay
        /\ calls \in 0 .. MaxCalls /\ faults \in 0 .. MaxFaults
    BY <2>2 DEF DeviceShapes
  <2>4. \A s \in Sessions : \A m \in buffer[s] : m \in Message
    BY <2>2 DEF ServerShapes
  <2>5. \A i \in DOMAIN ledger :
          /\ ledger[i].session \in Sessions
          /\ \A m \in ledger[i].items : m \in Message
          /\ ledger[i].done \in Done
    <3>1. \A i \in DOMAIN ledger : ledger[i] \in Cell
      BY <2>2 DEF ServerShapes
    <3>. QED BY <3>1 DEF Cell
  <2>6. \A r \in Slots : /\ request[r].at \in Step
                         /\ request[r].session \in Sessions
                         /\ request[r].mine \subseteq DOMAIN ledger
    BY <2>2 DEF ServerInv, ServerShapes, Request, Mine
  <2>. QED BY <2>3, <2>4, <2>5, <2>6 DEF TypeOK, Line, Done
<1>. QED BY <1>1, Inductive, PTL

\* A message that is in the buffer or in a cell never disappears: no
\* concurrent request, failure or crash between the two tables drops it.
NothingVanishes == [][Stored \subseteq Stored']_vars

\* Nothing that is stored is ever lost: whoever overwrites the buffer holds
\* what is in it, or has put it into the ledger.
THEOREM StoredStays == Spec => NothingVanishes
<1>1. IInv /\ [Next]_vars => [Stored \subseteq Stored']_vars
  BY ServerStep DEF IInv
<1>. QED BY <1>1, Inductive, PTL DEF Spec, NothingVanishes

\* Every answer with a 2xx and every place of the cursor is true of what is
\* stored, up to the messages that share a second.
THEOREM AcknowledgedIsStored == Spec => []Retained
<1>1. Init => Saved /\ Sourced
  BY InitHolds
<1>2. IInv /\ Saved /\ Sourced /\ [Next]_vars => (Saved /\ Sourced)'
  BY SavedStep, SourcedStep DEF IInv
<1>3. IInv /\ Saved => Retained
  BY DEF IInv, ServerInv, Holds, Late, SameIds, Saved, Retained
<1>. QED BY <1>1, <1>2, <1>3, Inductive, PTL DEF Spec

\* An answer waits for the episodes of its cells, and as long as nothing
\* fails no cell is left without a request at work on it.
THEOREM EpisodesAreWritten == Spec => []EpisodesFollow
<1>1. IInv => EpisodesFollow
  BY DEF IInv, ServerInv, Mine, Unfailed, Settled, EpisodesFollow
<1>. QED BY <1>1, Inductive, PTL

\* What is sent once is in one place.
LEMMA OnceAlways ==
    ASSUME LinesApart
    PROVE  Spec => []OnceInv
<1>1. IInv /\ OnceInv /\ [Next]_vars => OnceInv'
  BY AheadStep, OnceStep DEF IInv, OnceInv
<1>. QED BY <1>1, OnceAtFirst, Inductive, PTL DEF Spec

\* However often other clients call: as long as nothing fails, a line of the
\* device is in one memory cell, and not in the buffer as well.
THEOREM LinesOnce ==
    ASSUME LinesApart
    PROVE  Spec => []OnceAmong(1 .. MaxLines)
<1>1. 1 .. MaxLines \subseteq Single
  BY IntakeAssumption DEF Single
<1>2. OnceInv => OnceAmong(1 .. MaxLines)
  BY <1>1, OncePlaced DEF OnceInv
<1>. QED BY <1>2, OnceAlways, PTL

\* The same of every message, when no client repeats itself.
THEOREM MessagesOnce ==
    ASSUME LinesApart, OneCall
    PROVE  Spec => []OnceWithoutFaults
<1>1. IInv /\ OnceInv => OnceWithoutFaults
  <2>1. SUFFICES ASSUME IInv, OnceInv PROVE OnceWithoutFaults
    OBVIOUS
  <2>2. OnceAmong(Nat)
    BY <2>1, OncePlaced DEF OnceInv, Single
  <2>3. ServerShapes
    BY <2>1 DEF IInv, ServerInv
  <2>4. \A s \in Sessions : \A m \in buffer[s] : m.body \in Nat
    BY <2>3 DEF ServerShapes, Message
  <2>5. \A i \in DOMAIN ledger : \A m \in ledger[i].items : m.body \in Nat
    <3>1. \A i \in DOMAIN ledger : ledger[i] \in Cell
      BY <2>3 DEF ServerShapes
    <3>. QED BY <3>1 DEF Cell, Message
  <2>. QED BY <2>2, <2>4, <2>5 DEF OnceAmong, OnceWithoutFaults
<1>. QED BY <1>1, OnceAlways, Inductive, PTL

\* At the start nothing is written, stored or uploaded.
LEMMA UploadInit ==
    ASSUME Init
    PROVE  Contract!Init
<1>1. /\ lines = <<>> /\ cursor = 0 /\ ledger = <<>>
      /\ buffer = [s \in Sessions |-> {}]
      /\ \A r \in Slots : Known(r) = {}
  BY IdleTyped DEF Init, InitDevice, InitServer, Known, Carved, FilterForMode
<1>2. Stored = {}
  BY <1>1 DEF Stored, InLedger
<1>3. Dates = <<>>
  BY <1>1 DEF Dates
<1>. QED BY <1>1, <1>2, <1>3 DEF Contract!Init, Dates

\* Device and service implement Upload.
THEOREM IntakeUploads == Spec => Uploads
<1>1. Init => Contract!Init /\ Saved /\ Sourced
  BY InitHolds, UploadInit
<1>2. IInv /\ Saved /\ Sourced /\ [Next]_vars => (Saved /\ Sourced)'
  BY SavedStep, SourcedStep DEF IInv
<1>3. /\ IInv /\ IInv' /\ Saved /\ Saved' /\ Sourced /\ [Next]_vars
      => [Contract!Next]_<<Dates, Stored, cursor>>
  BY UploadStep DEF IInv
<1>. QED BY <1>1, <1>2, <1>3, Inductive, PTL
     DEF Spec, Uploads, Contract!Spec, Dates
=============================================================================
