--------------------------- MODULE IntakeProperties --------------------------
(***************************************************************************)
(* What the intake promises.                                               *)
(***************************************************************************)
EXTENDS Intake

Message == [session : Sessions, ts : Nat, idx : Nat, body : Nat,
            role : {"user", "assistant", "tool"}]
\* What the other clients add has the form that ingest makes of it.
ASSUME ClientAssumption ==
    \A b \in ClientBatches : /\ b.session \in Sessions
                             /\ b.deferred \in BOOLEAN
                             /\ b.messages \subseteq Message

Step == Working \cup {"idle", "queued", "ok", "err"}

\* Types of the file, the call in flight, the buffer, the ledger and the
\* requests; the cursor stays within the file.
TypeOK ==
    /\ lines \in Seq([wall : BOOLEAN, day : 0 .. MaxDay, ts : 1 .. MaxLines,
                      role : {"user", "assistant"}])
    /\ cursor \in 0 .. Len(lines)
    /\ flight \in Slots \cup {None}
    /\ batch \in 0 .. Len(lines)
    /\ synced \in BOOLEAN
    /\ day \in 0 .. MaxDay
    /\ \A s \in Sessions : \A m \in buffer[s] : m \in Message
    /\ \A i \in DOMAIN ledger :
          /\ ledger[i].session \in Sessions
          /\ \A m \in ledger[i].items : m \in Message
          /\ ledger[i].done \in {"row", "started", "episode", "announced", "skipped"}
    /\ \A r \in Slots :
          /\ request[r].at \in Step
          /\ request[r].session \in Sessions
          /\ request[r].mine \subseteq DOMAIN ledger
    /\ calls \in 0 .. MaxCalls
    /\ faults \in 0 .. MaxFaults

InLedger == UNION {ledger[i].items : i \in DOMAIN ledger}
Stored   == InLedger \cup UNION {buffer[s] : s \in Sessions}

\* What other clients may put into the tables.
Foreign == FilterForMode(UNION {b.messages : b \in ClientBatches})

\* A message is a dated line of the device, of the second it was written in.
OfLine(x) == /\ x.body \in DOMAIN lines /\ lines[x.body].wall
             /\ x.ts = lines[x.body].ts

\* A message may have the id of a line: it has its second and an index of a
\* batch.  It is the line itself, another line of its second, which was the
\* first, second, ... of another batch, or a message of another client.
MayBe(x, n) ==
    /\ x.ts = lines[n].ts
    /\ x.idx < MaxBatch
    /\ (x \in Foreign \/ OfLine(x))

\* What the service has answered with a 2xx it has stored under its id, and the
\* cursor of the device never passes a dated line for which nothing is stored
\* that may have its id, whatever was lost, given up, repeated or torn on the
\* way: a line that is alone in its second is stored.
Retained ==
    /\ \A r \in Slots : request[r].at = "ok" =>
          \A m \in FilterForMode(request[r].messages) :
             \E x \in Stored : MessageId(x) = MessageId(m)
    /\ \A n \in 1 .. cursor : lines[n].wall => \E x \in Stored : MayBe(x, n)

\* Device and service implement Upload: what the service has taken in is a
\* dated line that was written, or a message of another client that is not a
\* tool's; no request, failure or crash drops it again, and the cursor moves
\* forward only over lines that are there, or for which a message of their
\* second is there, all of this step by step.
Contract == INSTANCE Upload WITH
    dated   <- [n \in DOMAIN lines |-> IF lines[n].wall THEN lines[n].ts ELSE 0],
    kept    <- Stored,
    Seconds <- 1 .. MaxLines,
    NoDate  <- 0,
    Alike   <- {m \in Foreign : m.idx < MaxBatch}
Uploads  == Contract!Spec

\* As long as nothing fails, no line is in two cells, and none is in a cell
\* and in the buffer except while the request that carved it moves it.
OnceWithoutFaults ==
    faults = 0 =>
      /\ \A i, j \in DOMAIN ledger :
            (\E x \in ledger[i].items, y \in ledger[j].items : x.body = y.body) => i = j
      /\ \A s \in Sessions : \A x \in buffer[s], y \in InLedger :
            x.body = y.body =>
              \E r \in Slots : request[r].at = "listed" /\ request[r].session = s

\* An answer "extracted" means that the episode of every cell of the request
\* is on disk, and as long as nothing fails every cell of the ledger has its
\* episode or a request at work on it.
EpisodesFollow ==
    LET Settled(i) == ledger[i].done \in {"announced", "skipped"} IN
    /\ \A r \in Slots : request[r].at = "ok" => \A i \in request[r].mine : Settled(i)
    /\ faults = 0 => \A i \in DOMAIN ledger :
          Settled(i) \/ \E r \in Slots : request[r].at \in Working /\ i \in request[r].mine

\* Every line the agent writes is uploaded or skipped sooner or later.
Uploaded == []<>(cursor = Len(lines))
=============================================================================
