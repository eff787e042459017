----------------------------- MODULE DeviceSync -----------------------------
(***************************************************************************)
(* The device's side of the upload: the agent appends lines to             *)
(* memory.jsonl, and syncNow reads a batch of them from the cursor on,     *)
(* posts it, and saves the cursor behind it once the server has answered   *)
(* with a 2xx.  The cursor is a file of its own on the SD card; the call   *)
(* in progress is in RAM.  Offsets count lines.                            *)
(***************************************************************************)
EXTENDS Naturals, FiniteSets, Sequences

CONSTANTS MaxBatch,  \* kMaxBatchMessages
          MaxLines,  \* bound: lines the agent writes
          MaxDay,    \* bound: the last day
          None       \* no request in flight

VARIABLES
    lines,   \* memory.jsonl
    cursor,  \* .sync_cursor: the number of lines behind it
    flight,  \* the slot of the request whose answer syncNow waits for
    batch,   \* the offset the cursor will be moved to
    synced,  \* time(nullptr) is past kTimeValidEpochSec
    day      \* the UTC day

deviceVars == <<lines, cursor, flight, batch, synced, day>>

InitDevice == /\ lines = <<>>
              /\ cursor = 0
              /\ flight = None
              /\ batch = 0
              /\ synced = FALSE
              /\ day = 0

-----------------------------------------------------------------------------
(* The clock counts whole seconds: a dated line may be of the second of    *)
(* the dated line before it.  A start takes longer than a second.          *)
SameSecond == LET n == Len(lines) IN
    n > 0 /\ lines[n].wall /\ synced /\ day = lines[n].day
Seconds == LET last == IF lines = <<>> THEN 0 ELSE lines[Len(lines)].ts IN
    {last + 1} \cup (IF SameSecond THEN {last} ELSE {})

(* The agent's question and answer lines; before the time is known a line  *)
(* carries the uptime instead of a date.                                   *)
Remember ==
    /\ flight = None
    /\ Len(lines) < MaxLines
    /\ \E t \in Seconds :
          lines' = Append(lines,
             [wall |-> synced, day |-> day, ts |-> t,
              role |-> IF Len(lines) % 2 = 0 THEN "user" ELSE "assistant"])
    /\ UNCHANGED <<cursor, flight, batch, synced, day>>

ShouldInclude(n) == lines[n].wall

(* The lines a batch takes when it ends behind line n, and whether the     *)
(* loop of syncNow ends there: the batch is full or the file is read.      *)
Taken(n) == {k \in cursor + 1 .. n : ShouldInclude(k)}
EndsAt(n) ==
    /\ n \in cursor + 1 .. Len(lines)
    /\ \/ Cardinality(Taken(n)) = MaxBatch /\ ShouldInclude(n)
       \/ Cardinality(Taken(n)) < MaxBatch /\ n = Len(lines)

(* The session of a batch is the day of the upload, not of the lines,      *)
(* unless the device does not know the time.                               *)
FirstOf(K) == CHOOSE k \in K : \A j \in K : k <= j
SessionId(K) == IF synced THEN day ELSE lines[FirstOf(K)].day

(* The index of a message, which ingest makes a part of its id, is its     *)
(* place in the batch.                                                     *)
ToSyncMessage(k, K) ==
    [session |-> SessionId(K), ts |-> lines[k].ts, role |-> lines[k].role,
     idx |-> Cardinality({j \in K : j < k}), body |-> k]

(* Mutant: the saved offset is one line too far. *)
Written_Beyond(n, torn) == {n + 1}

(* The offsets a save of n may leave.  The file is opened with O_TRUNC: a  *)
(* save that is cut short leaves a prefix of the digits, a smaller offset, *)
(* or no digit, which is read as 0.                                        *)
Written(n, torn) == IF torn THEN 0 .. n ELSE {n}

(* Mutant: a batch without a dated line leaves the cursor where it is. *)
SkipUptime_NoSave(torn) ==
    /\ flight = None
    /\ \E n \in 1 .. Len(lines) : EndsAt(n) /\ Taken(n) = {}
    /\ UNCHANGED deviceVars

(* A batch of nothing but uptime lines is skipped without a request. *)
SkipUptime(torn) ==
    /\ flight = None
    /\ \E n \in 1 .. Len(lines) :
          EndsAt(n) /\ Taken(n) = {} /\ cursor' \in Written(n, torn)
    /\ UNCHANGED <<lines, flight, batch, synced, day>>

(* What of syncNow comes before the request; K is the batch, n its end.    *)
PostBatch(n, slot) ==
    /\ flight = None
    /\ EndsAt(n)
    /\ Taken(n) # {}
    /\ flight' = slot
    /\ batch' = n
    /\ UNCHANGED <<lines, cursor, synced, day>>

Hangup == flight' = None /\ batch' = 0

(* The answer is a 2xx: the cursor moves behind the batch.                 *)
SaveCursor(torn) ==
    /\ cursor' \in Written(batch, torn)
    /\ Hangup
    /\ UNCHANGED <<lines, synced, day>>

(* No 2xx, or no answer within 8 s: the cursor stays, syncNow reports an   *)
(* error and a later call posts the batch again.                           *)
KeepCursor ==
    /\ Hangup
    /\ UNCHANGED <<lines, cursor, synced, day>>

(* The power goes and comes back; the time is not known until NTP answers. *)
Reboot ==
    /\ Hangup
    /\ synced' = FALSE
    /\ UNCHANGED <<lines, cursor, day>>

NtpAnswers ==
    /\ ~ synced
    /\ synced' = TRUE
    /\ UNCHANGED <<lines, cursor, flight, batch, day>>

Midnight ==
    /\ day < MaxDay
    /\ day' = day + 1
    /\ UNCHANGED <<lines, cursor, flight, batch, synced>>
=============================================================================
