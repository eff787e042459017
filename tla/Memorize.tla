------------------------------ MODULE Memorize ------------------------------
(***************************************************************************)
(* The write path of the memory service in chat mode: POST /add and        *)
(* POST /flush.  A request runs under the lock of its session: it reads    *)
(* the session's rows of unprocessed_buffer, merges its own messages into  *)
(* them, lets the boundary detector cut memory cells off the front, writes *)
(* the cells to the memcell ledger, puts the tail back into the buffer and *)
(* runs the user pipeline, which writes one episode per cell.              *)
(*                                                                         *)
(* Buffer and ledger are two tables written in two transactions, and the   *)
(* lock lives in the process; a request may fail at each of its awaits.    *)
(***************************************************************************)
EXTENDS Naturals, FiniteSets, Sequences

CONSTANTS Slots,     \* requests that can be in the server at the same time
          Sessions,  \* session ids
          MaxCells   \* bound: cells the detector carves in one call

VARIABLES
    buffer,   \* unprocessed_buffer: session -> set of messages
    ledger,   \* memcell: sequence of cells, with what became of each
    request   \* slot -> the request being served, RAM only

serverVars == <<buffer, ledger, request>>

(* A message of a request, as ingest makes it canonical; two messages of   *)
(* one session with one timestamp and one index have one message_id.       *)
MessageId(m) == <<m.session, m.ts, m.idx>>

Idle == [at |-> "idle", session |-> CHOOSE s \in Sessions : TRUE,
         final |-> FALSE, deferred |-> FALSE, messages |-> {}, merged |-> {},
         cells |-> <<>>, mine |-> {}]

InitServer == /\ buffer = [s \in Sessions |-> {}]
              /\ ledger = <<>>
              /\ request = [r \in Slots |-> Idle]

-----------------------------------------------------------------------------
(* Helpers of the boundary stage. *)

FilterForMode(M) == {m \in M : m.role # "tool"}

(* A buffered row wins over a new one of the same id. *)
MergeDedupe(old, new) ==
    old \cup {m \in new : MessageId(m) \notin {MessageId(b) : b \in old}}

(* The order of the merged rows: by timestamp, then by message id. *)
Precedes(m, n) == m.ts < n.ts \/ (m.ts = n.ts /\ m.idx < n.idx)

Slices(M) == {P \in SUBSET M :
                 P # {} /\ \A m \in P, n \in M \ P : ~ Precedes(n, m)}

(* The detector cuts consecutive slices off the front; a flush leaves no   *)
(* tail.  No cell at all means that the conversation goes on.              *)
Cuts(M, final) ==
    LET one == {<<P>> : P \in Slices(M)}
        two == IF MaxCells = 1 THEN {}
               ELSE UNION {{<<P, Q>> : Q \in Slices(M \ P)} : P \in Slices(M)}
        Cut(c) == UNION {c[i] : i \in DOMAIN c}
    IN  IF final THEN {c \in one \cup two : Cut(c) = M}
                 ELSE {<<>>} \cup one \cup two

Carved(r) == UNION {request[r].cells[i] : i \in DOMAIN request[r].cells}

(* Mutant: the carved messages stay in the buffer. *)
TailOf_Everything(r) == request[r].merged

TailOf(r) == request[r].merged \ Carved(r)
HasUser(M) == \E m \in M : m.role = "user"

Working == {"detect", "keep", "kept", "cut", "listed", "emit", "extract", "announce"}

(* Mutant: no lock. *)
LockFree_Always(r) == TRUE

(* The lock of the session, held from the read to the answer. *)
LockFree(r) == \A q \in Slots : request[q].at \in Working
                                   => request[q].session # request[r].session

Go(r, step) == request' = [request EXCEPT ![r].at = step]

-----------------------------------------------------------------------------
(* The handler, from the request's arrival to its answer: "ok" and "err"   *)
(* wait for the caller to take the answer.                                 *)

(* A call takes any slot that is free; the slots are alike. *)
FreeSlot == CHOOSE q \in Slots : request[q].at = "idle"

Accept(r, session, messages, final, deferred) ==
    /\ request[r].at = "idle"
    /\ r = FreeSlot
    /\ request' = [request EXCEPT ![r] =
           [Idle EXCEPT !.at = "queued", !.session = session, !.final = final,
                        !.deferred = deferred, !.messages = messages]]
    /\ UNCHANGED <<buffer, ledger>>

Read(r) ==
    LET q      == request[r]
        fresh  == FilterForMode(q.messages)
        merged == MergeDedupe(buffer[q.session], fresh)
        next   == IF fresh = {} /\ ~ q.final THEN "ok"
                  ELSE IF merged = {} THEN "ok"
                  ELSE IF ~ q.final /\ (q.deferred \/ ~ HasUser(merged)) THEN "keep"
                  ELSE "detect"
    IN  /\ q.at = "queued"
        /\ LockFree(r)
        /\ request' = [request EXCEPT ![r].at = next, ![r].merged = merged]
        /\ UNCHANGED <<buffer, ledger>>

Detect(r) ==
    /\ request[r].at = "detect"
    /\ \E cells \in Cuts(request[r].merged, request[r].final) :
          request' = [request EXCEPT ![r].cells = cells,
                                     ![r].at = IF cells = <<>> THEN "keep" ELSE "cut"]
    /\ UNCHANGED <<buffer, ledger>>

(* Everything goes back into the buffer; what is left is the timestamp of  *)
(* the conversation, which may still fail.                                 *)
KeepAll(r) ==
    /\ request[r].at = "keep"
    /\ buffer' = [buffer EXCEPT ![request[r].session] = request[r].merged]
    /\ Go(r, "kept")
    /\ UNCHANGED ledger

TouchLastMessage(r) ==
    /\ request[r].at = "kept"
    /\ Go(r, "ok")
    /\ UNCHANGED <<buffer, ledger>>

InsertCells(r) ==
    LET q == request[r]
        rows == [i \in DOMAIN q.cells |->
                   [session |-> q.session, items |-> q.cells[i], done |-> "row"]]
    IN  /\ q.at = "cut"
        /\ ledger' = ledger \o rows
        /\ request' = [request EXCEPT
               ![r].at = "listed",
               ![r].mine = Len(ledger) + 1 .. Len(ledger) + Len(rows)]
        /\ UNCHANGED buffer

ReplaceTail(r) ==
    /\ request[r].at = "listed"
    /\ buffer' = [buffer EXCEPT ![request[r].session] = TailOf(r)]
    /\ Go(r, "emit")
    /\ UNCHANGED ledger

First(S) == CHOOSE i \in S : \A j \in S : i <= j
Waiting(r, done) == {i \in request[r].mine : ledger[i].done = done}

(* The user pipeline announces every cell to the engine first ...          *)
EmitStarted(r) ==
    /\ request[r].at = "emit"
    /\ ledger' = [ledger EXCEPT ![First(Waiting(r, "row"))].done = "started"]
    /\ Go(r, IF Cardinality(Waiting(r, "row")) = 1 THEN "extract" ELSE "emit")
    /\ UNCHANGED buffer

(* ... then extracts and appends one episode per cell; a cell that nobody  *)
(* of the users speaks in has no episode.                                  *)
WriteEpisode(r) ==
    LET i == First(Waiting(r, "started"))
    IN  /\ request[r].at = "extract"
        /\ Waiting(r, "started") # {}
        /\ IF HasUser(ledger[i].items)
             THEN /\ ledger' = [ledger EXCEPT ![i].done = "episode"]
                  /\ Go(r, "announce")
             ELSE /\ ledger' = [ledger EXCEPT ![i].done = "skipped"]
                  /\ UNCHANGED request
        /\ UNCHANGED buffer

EmitExtracted(r) ==
    /\ request[r].at = "announce"
    /\ ledger' = [ledger EXCEPT ![First(Waiting(r, "episode"))].done = "announced"]
    /\ Go(r, "extract")
    /\ UNCHANGED buffer

(* Mutant: the answer does not wait for the last episode. *)
AllWritten_ButOne(r) == Cardinality(Waiting(r, "started")) <= 1

AllWritten(r) == Waiting(r, "started") = {}

Answer(r) ==
    /\ request[r].at = "extract"
    /\ AllWritten(r)
    /\ Go(r, "ok")
    /\ UNCHANGED <<buffer, ledger>>

(* The session-lock timeout, the third malformed answer of the model, a    *)
(* store or an emit that raises: the lock is released on the way out.      *)
Fails(r) ==
    /\ request[r].at \in Working \cup {"queued"}
    /\ Go(r, "err")
    /\ UNCHANGED <<buffer, ledger>>

(* The process dies with every request in it. *)
Crash ==
    /\ request' = [r \in Slots |->
                     IF request[r].at = "idle" THEN Idle ELSE [Idle EXCEPT !.at = "err"]]
    /\ UNCHANGED <<buffer, ledger>>

Serve(r) ==
    \/ Read(r) \/ Detect(r)
    \/ KeepAll(r) \/ TouchLastMessage(r)
    \/ InsertCells(r) \/ ReplaceTail(r)
    \/ EmitStarted(r) \/ WriteEpisode(r) \/ EmitExtracted(r) \/ Answer(r)

(* The caller has taken the answer, or is gone. *)
Release(r) ==
    /\ request[r].at \in {"ok", "err"}
    /\ request' = [request EXCEPT ![r] = Idle]
    /\ UNCHANGED <<buffer, ledger>>
=============================================================================
