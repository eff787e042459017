------------------------------ MODULE OmeProofs -------------------------------
(***************************************************************************)
(* Safety of the offline memory engine, and that it implements Delivery,   *)
(* proved for every set of engines and strategies, every routing, every    *)
(* retry and concurrency budget and every bound on events, runs, crashes   *)
(* and faults.                                                             *)
(***************************************************************************)
EXTENDS OmeProperties, FiniteSetTheorems, TLAPS

AnyCause == Cause \cup {<<0, 0>>}

Row == [status : Status, at : Nat]

\* A run was handed out; two runs are of one task; a run has its result.
Made(r)    == run[r].pc # "unused"
Same(r, q) == /\ run[r].strategy = run[q].strategy
              /\ run[r].cause = run[q].cause
Over(r)    == run[r].pc \in {"done", "dead"}

\* The body of the attempt has not emitted; its row is written.
Early == {"queued", "waiting", "starting", "body"}
Begun == {"body", "await", "resumed", "ended"}

\* A row that a recovery may still resume: it is RUNNING, or taken up by a
\* recovery that is under way.
Running(i) == record[i].status = "running"
InBoot(i)  == \E g \in Engine : i \in boot[g].todo \cup boot[g].taken
Claims(i)  == Running(i) \/ InBoot(i)

\* One engine at a time is up, it holds the lock, and only a recovering one
\* has rows to deal with.
Lock ==
    \A g \in Engine :
        /\ mode[g] # "down" => locked = {g}
        /\ mode[g] # "recovering" => boot[g].todo = {} /\ boot[g].taken = {}
        /\ mode[g] = "recovering" => g \in Recovers

\* A job in the store and a coroutine belong to an engine that is not down.
Owned == \A r \in Run : Live(r) => mode[run[r].engine] # "down"

\* Runs are handed out in order, and only a failed attempt with budget left
\* is slept off.
Issued ==
    \A r \in Run :
        /\ Made(r) => r <= issued
        /\ run[r].pc = "backoff" => run[r].attempt < MaxRetries

\* An event was emitted before a run of it was handed out, and an attempt
\* emits once.
Causes ==
    \A r \in Run : Made(r) =>
        /\ run[r].cause[1] = 0 => run[r].cause[2] <= events
        /\ \A q \in Run : run[r].cause[1] = q =>
             /\ Made(q)
             /\ run[r].cause[2] <= run[q].attempt
             /\ run[r].cause[2] = run[q].attempt => run[q].pc \notin Early

\* The clock is ahead of every row.
Dated == \A i \in RowId : record[i].at <= now

Shapes == TypeOK /\ Lock /\ Owned /\ Issued /\ Causes /\ Dated

\* A claim is of a run that was handed out.
Claimed == \A i \in RowId : Claims(i) => Made(i[1])

\* One row at most of a task can be resumed.
OneClaim ==
    \A i, j \in RowId : Claims(i) /\ Claims(j) /\ Same(i[1], j[1]) => i = j

\* While a run of a task is live that row is the one of its attempt.
LiveClaim ==
    \A q \in Run : \A i \in RowId :
        Live(q) /\ Claims(i) /\ Same(q, i[1])
          => i = Attempt(q) /\ run[q].pc \in Begun /\ ~InBoot(i)

\* A task that has its result is neither under way nor to be resumed, and
\* has one result.
Final ==
    \A q, r \in Run : Over(q) /\ Same(q, r) =>
        /\ ~Live(r)
        /\ \A i \in RowId : i[1] = r => ~Claims(i)
        /\ Over(r) => r = q

\* A row that was marked is no longer RUNNING, nor still to be marked.
Boots ==
    \A g \in Engine : \A i \in boot[g].taken :
        ~Running(i) /\ i \notin boot[g].todo

Tokens == OneRunPerTask /\ Claimed /\ OneClaim /\ LiveClaim /\ Final

-----------------------------------------------------------------------------
(* Types.                                                                  *)

\* Constants of the model.
LEMMA Constants ==
    /\ Engine # {} /\ Strategy # {} /\ Recovers \subseteq Engine
    /\ Routes \in Seq(Strategy) /\ ChildRoutes \in Seq(Strategy)
    /\ \A i, j \in 1..Len(Routes) : Routes[i] = Routes[j] => i = j
    /\ \A i, j \in 1..Len(ChildRoutes) :
         ChildRoutes[i] = ChildRoutes[j] => i = j
    /\ MaxRetries \in Nat /\ MaxRuns \in Nat /\ MaxEvents \in Nat
<1>1. DOMAIN Routes = 1..Len(Routes) /\ DOMAIN ChildRoutes = 1..Len(ChildRoutes)
  BY OmeAssumption
<1>. QED BY <1>1, OmeAssumption

\* A run that was not handed out.
LEMMA UnusedTyped ==
    /\ Unused \in Job /\ Unused.pc = "unused" /\ Unused.attempt = 0
<1>1. (CHOOSE s \in Strategy : TRUE) \in Strategy
  BY Constants
<1>2. (CHOOSE g \in Engine : TRUE) \in Engine
  BY Constants
<1>3. "unused" \in Pc /\ "ok" \in Verdict /\ <<0, 0>> \in AnyCause
  BY DEF Pc, Verdict, AnyCause
<1>. QED BY <1>1, <1>2, <1>3 DEF Unused, Job, AnyCause

\* Fields of a run.
LEMMA JobParts ==
    ASSUME NEW j \in Job
    PROVE  /\ j.pc \in Pc /\ j.strategy \in Strategy /\ j.cause \in AnyCause
           /\ j.engine \in Engine /\ j.attempt \in Nat /\ j.verdict \in Verdict
BY DEF Job, AnyCause

\* A run that goes to another step.
LEMMA TurnParts ==
    ASSUME NEW j \in Job, NEW p \in Pc,
           NEW x, x = [j EXCEPT !.pc = p]
    PROVE  /\ x \in Job /\ x.pc = p /\ x.strategy = j.strategy
           /\ x.cause = j.cause /\ x.engine = j.engine /\ x.attempt = j.attempt
BY DEF Job

\* A new job.
Queued(s, c, g) == [Unused EXCEPT !.pc = "queued", !.strategy = s,
                                  !.cause = c, !.engine = g]

\* Fields of a new job.
LEMMA QueuedParts ==
    ASSUME NEW s \in Strategy, NEW c \in AnyCause, NEW g \in Engine
    PROVE  /\ Queued(s, c, g) \in Job /\ Queued(s, c, g).pc = "queued"
           /\ Queued(s, c, g).strategy = s /\ Queued(s, c, g).cause = c
           /\ Queued(s, c, g).engine = g /\ Queued(s, c, g).attempt = 0
<1>1. "queued" \in Pc
  BY DEF Pc
<1>2. PICK u \in Job : u = Unused /\ u.attempt = 0
  BY UnusedTyped
<1>3. PICK x : x = [u EXCEPT !.pc = "queued", !.strategy = s, !.cause = c,
                             !.engine = g]
  OBVIOUS
<1>4. Queued(s, c, g) = x
  BY <1>2, <1>3 DEF Queued
<1>5. /\ x \in Job /\ x.pc = "queued" /\ x.strategy = s /\ x.cause = c
      /\ x.engine = g /\ x.attempt = 0
  BY <1>1, <1>2, <1>3 DEF Job, AnyCause
<1>. QED BY <1>4, <1>5

\* The runs that k new jobs are given.
New(k) == (issued + 1)..(issued + k)

\* Enqueued hands out the next k runs.
LEMMA EnqueuedParts ==
    ASSUME run \in [Run -> Job], issued \in 0..MaxRuns,
           NEW g \in Engine, NEW c \in AnyCause, NEW routes \in Seq(Strategy),
           NEW k \in 0..Len(routes), NEW f, f = Enqueued(g, c, routes, k)
    PROVE  /\ f \in [Run -> Job]
           /\ \A q \in Run : q \notin New(k) => f[q] = run[q]
           /\ \A q \in Run : q \in New(k) =>
                /\ f[q].pc = "queued" /\ f[q].strategy = routes[q - issued]
                /\ f[q].cause = c /\ f[q].engine = g /\ f[q].attempt = 0
<1>1. \A q \in Run : q \notin New(k) => f[q] = run[q]
  BY DEF Enqueued, New
<1>2. ASSUME NEW q \in Run, q \in New(k)
      PROVE  /\ f[q] \in Job
             /\ f[q].pc = "queued" /\ f[q].strategy = routes[q - issued]
             /\ f[q].cause = c /\ f[q].engine = g /\ f[q].attempt = 0
  <2>1. q - issued \in 1..Len(routes)
    BY <1>2, Constants DEF New, Run
  <2>2. PICK s \in Strategy : s = routes[q - issued]
    BY <2>1
  <2>3. f[q] = Queued(s, c, g)
    BY <1>2, <2>2 DEF Enqueued, New, Queued
  <2>. QED BY <2>2, <2>3, QueuedParts
<1>3. f \in [Run -> Job]
  <2>1. \A q \in Run : f[q] \in Job
    BY <1>1, <1>2
  <2>2. f = [q \in Run |-> f[q]]
    BY DEF Enqueued
  <2>. QED BY <2>1, <2>2
<1>. QED BY <1>1, <1>2, <1>3

-----------------------------------------------------------------------------
(* What the steps of a run do.                                             *)

\* Run r goes on, and no other.
Advances(r) ==
    /\ run' \in [Run -> Job]
    /\ \A q \in Run : q # r => run'[q] = run[q]
    /\ run'[r].strategy = run[r].strategy
    /\ run'[r].cause = run[r].cause
    /\ run'[r].engine = run[r].engine

\* Engines, jobs and events are left alone.
Stay == /\ locked' = locked /\ mode' = mode /\ boot' = boot
        /\ issued' = issued /\ events' = events

\* Step(r, t) is an advance of r.
LEMMA StepParts ==
    ASSUME run \in [Run -> Job], NEW r \in Run, NEW t \in Job, Step(r, t),
           t.strategy = run[r].strategy, t.cause = run[r].cause,
           t.engine = run[r].engine
    PROVE  Advances(r) /\ Stay /\ run'[r] = t
<1>1. run' = [run EXCEPT ![r] = t]
  BY DEF Step
<1>2. /\ run' \in [Run -> Job] /\ run'[r] = t
      /\ \A q \in Run : q # r => run'[q] = run[q]
  BY <1>1
<1>3. Stay
  BY DEF Step, life, queue, Stay
<1>. QED BY <1>2, <1>3 DEF Advances

\* A step that changes where the run is.
LEMMA TurnStep ==
    ASSUME run \in [Run -> Job], NEW r \in Run, NEW p \in Pc,
           Step(r, [run[r] EXCEPT !.pc = p])
    PROVE  /\ Advances(r) /\ Stay
           /\ run'[r].pc = p /\ run'[r].attempt = run[r].attempt
<1>1. PICK j \in Job : j = run[r]
  OBVIOUS
<1>2. PICK t : t = [j EXCEPT !.pc = p]
  OBVIOUS
<1>3. /\ t \in Job /\ t.pc = p /\ t.strategy = j.strategy
      /\ t.cause = j.cause /\ t.engine = j.engine /\ t.attempt = j.attempt
  BY <1>2, TurnParts
<1>4. Step(r, t)
  BY <1>1, <1>2
<1>. QED BY <1>1, <1>3, <1>4, StepParts

\* A step that ends the attempt.
LEMMA EndStep ==
    ASSUME run \in [Run -> Job], NEW r \in Run, NEW v \in Verdict,
           Step(r, [run[r] EXCEPT !.pc = "ended", !.verdict = v])
    PROVE  /\ Advances(r) /\ Stay
           /\ run'[r].pc = "ended" /\ run'[r].attempt = run[r].attempt
<1>1. PICK j \in Job : j = run[r]
  OBVIOUS
<1>2. PICK p \in Pc : p = "ended"
  BY DEF Pc
<1>3. PICK t : t = [j EXCEPT !.pc = p, !.verdict = v]
  OBVIOUS
<1>4. /\ t \in Job /\ t.pc = p /\ t.strategy = j.strategy
      /\ t.cause = j.cause /\ t.engine = j.engine /\ t.attempt = j.attempt
  BY <1>3 DEF Job
<1>5. Step(r, t)
  BY <1>1, <1>2, <1>3
<1>. QED BY <1>1, <1>2, <1>4, <1>5, StepParts

\* The step that starts the next attempt.
LEMMA NextStep ==
    ASSUME run \in [Run -> Job], NEW r \in Run,
           Step(r, [run[r] EXCEPT !.pc = "waiting", !.attempt = @ + 1])
    PROVE  /\ Advances(r) /\ Stay
           /\ run'[r].pc = "waiting" /\ run'[r].attempt = run[r].attempt + 1
<1>1. PICK j \in Job : j = run[r]
  OBVIOUS
<1>2. PICK p \in Pc : p = "waiting"
  BY DEF Pc
<1>6. PICK n \in Nat : n = run[r].attempt + 1
  BY JobParts
<1>3. PICK t : t = [j EXCEPT !.pc = p, !.attempt = n]
  OBVIOUS
<1>4. /\ t \in Job /\ t.pc = p /\ t.strategy = j.strategy
      /\ t.cause = j.cause /\ t.engine = j.engine
      /\ t.attempt = n
  BY <1>3 DEF Job
<1>5. Step(r, t)
  BY <1>1, <1>2, <1>3, <1>6
<1>. QED BY <1>1, <1>2, <1>4, <1>5, <1>6, StepParts

\* The other tables are left alone.
Aside == /\ active' = active /\ stopping' = stopping
         /\ record' = record /\ now' = now
         /\ crashes' = crashes /\ faults' = faults

\* A step of run r between two writes of its row.
Quiet(r) ==
    \/ Fire(r) \/ Drop(r) \/ Acquire(r) \/ BodyEnds(r)
    \/ WaitReturns(r) \/ WaitTimesOut(r) \/ Wake(r)

\* Where such a step leads.
Leads(r) ==
    \/ /\ run'[r].attempt = run[r].attempt
       /\ \/ run[r].pc = "queued" /\ run'[r].pc = "waiting"
          \/ run[r].pc = "orphan" /\ run'[r].pc = "lost"
          \/ run[r].pc = "waiting" /\ run'[r].pc = "starting"
          \/ run[r].pc \in {"body", "resumed"} /\ run'[r].pc = "ended"
          \/ run[r].pc = "await" /\ run'[r].pc = "resumed"
          \/ run[r].pc = "await" /\ run'[r].pc = "ended"
    \/ /\ run'[r].attempt = run[r].attempt + 1
       /\ run[r].pc = "backoff" /\ run'[r].pc = "waiting"

\* Quiet steps touch nothing but their run.
LEMMA QuietShape ==
    ASSUME run \in [Run -> Job], NEW r \in Run, Quiet(r)
    PROVE  Advances(r) /\ Stay /\ Aside /\ Leads(r)
<1>. USE DEF load, ledger, bounds, Aside
<1>0. /\ "waiting" \in Pc /\ "lost" \in Pc /\ "starting" \in Pc
      /\ "resumed" \in Pc /\ {"ok", "error"} \subseteq Verdict
  BY DEF Pc, Verdict
<1>1. CASE Fire(r)
  <2>1. /\ run[r].pc = "queued" /\ Aside
        /\ Step(r, [run[r] EXCEPT !.pc = "waiting"])
    BY <1>1 DEF Fire, Step
  <2>. QED BY <1>0, <2>1, TurnStep DEF Leads
<1>2. CASE Drop(r)
  <2>1. run[r].pc = "orphan" /\ Aside /\ Step(r, [run[r] EXCEPT !.pc = "lost"])
    BY <1>2 DEF Drop, Step
  <2>. QED BY <1>0, <2>1, TurnStep DEF Leads
<1>3. CASE Acquire(r)
  <2>1. run[r].pc = "waiting" /\ Aside
        /\ Step(r, [run[r] EXCEPT !.pc = "starting"])
    BY <1>3 DEF Acquire
  <2>. QED BY <1>0, <2>1, TurnStep DEF Leads
<1>4. CASE BodyEnds(r)
  <2>1. run[r].pc \in {"body", "resumed"} /\ Aside
    BY <1>4 DEF BodyEnds
  <2>2. PICK v \in Verdict :
          Step(r, [run[r] EXCEPT !.pc = "ended", !.verdict = v])
    BY <1>4 DEF BodyEnds
  <2>. QED BY <2>1, <2>2, EndStep DEF Leads
<1>5. CASE WaitReturns(r)
  <2>1. run[r].pc = "await" /\ Aside
        /\ Step(r, [run[r] EXCEPT !.pc = "resumed"])
    BY <1>5 DEF WaitReturns
  <2>. QED BY <1>0, <2>1, TurnStep DEF Leads
<1>6. CASE WaitTimesOut(r)
  <2>1. run[r].pc = "await" /\ Aside
    BY <1>6 DEF WaitTimesOut
  <2>2. PICK v \in Verdict :
          Step(r, [run[r] EXCEPT !.pc = "ended", !.verdict = v])
    BY <1>0, <1>6 DEF WaitTimesOut
  <2>. QED BY <2>1, <2>2, EndStep DEF Leads
<1>7. CASE Wake(r)
  <2>1. run[r].pc = "backoff" /\ Aside
        /\ Step(r, [run[r] EXCEPT !.pc = "waiting", !.attempt = @ + 1])
    BY <1>7 DEF Wake
  <2>. QED BY <2>1, NextStep DEF Leads
<1>. QED BY <1>1, <1>2, <1>3, <1>4, <1>5, <1>6, <1>7 DEF Quiet

\* A row is set to another status than RUNNING, if it is there.
LEMMA SetStatusParts ==
    ASSUME record \in [RowId -> Row], NEW i \in RowId, NEW st \in Status,
           st # "running", SetStatus(i, st)
    PROVE  /\ record' \in [RowId -> Row]
           /\ \A j \in RowId : j # i => record'[j] = record[j]
           /\ record'[i].status # "running"
           /\ record'[i].at = record[i].at
           /\ record'[i].status = "none" => record[i].status = "none"
                                              \/ st = "none"
<1>1. CASE record[i].status = "none"
  BY <1>1 DEF SetStatus
<1>2. CASE record[i].status # "none"
  <2>1. PICK x \in Row : x = record[i]
    OBVIOUS
  <2>2. PICK y : y = [x EXCEPT !.status = st]
    OBVIOUS
  <2>3. y \in Row /\ y.status = st /\ y.at = x.at
    BY <2>2 DEF Row
  <2>4. record' = [record EXCEPT ![i] = y]
    BY <1>2, <2>1, <2>2 DEF SetStatus
  <2>. QED BY <2>1, <2>3, <2>4
<1>. QED BY <1>1, <1>2

\* The attempt of a run has a row.
LEMMA AttemptRow ==
    ASSUME TypeOK, NEW r \in Run
    PROVE  Attempt(r) \in RowId /\ Attempt(r)[1] = r
           /\ Attempt(r)[2] = run[r].attempt
BY DEF TypeOK, Attempt, RowId

\* The start of an attempt: its row is RUNNING, and rows are trimmed.
LEMMA RecordStartShape ==
    ASSUME TypeOK, NEW r \in Run, RecordStart(r)
    PROVE  /\ Advances(r) /\ Stay
           /\ active' = active /\ stopping' = stopping
           /\ crashes' = crashes /\ faults' = faults
           /\ run[r].pc = "starting" /\ run'[r].pc = "body"
           /\ run'[r].attempt = run[r].attempt
           /\ now' = now + 1
           /\ record' \in [RowId -> Row]
           /\ \A i \in RowId : i # Attempt(r) =>
                record'[i] = record[i] \/ record'[i] = NoRow
           /\ record'[Attempt(r)].at = now + 1
<1>1. /\ run[r].pc = "starting" /\ now' = now + 1
      /\ active' = active /\ stopping' = stopping
      /\ crashes' = crashes /\ faults' = faults
      /\ Step(r, [run[r] EXCEPT !.pc = "body"])
  BY DEF RecordStart, load, bounds
<1>2. /\ Advances(r) /\ Stay /\ run'[r].pc = "body"
      /\ run'[r].attempt = run[r].attempt
  <2>1. "body" \in Pc /\ run \in [Run -> Job]
    BY DEF Pc, TypeOK
  <2>. QED BY <1>1, <2>1, TurnStep
<1>3. /\ record \in [RowId -> Row] /\ now \in Nat
      /\ NoRow \in Row /\ [status |-> "running", at |-> now + 1] \in Row
  BY DEF TypeOK, Row, NoRow, Status
<1>4. PICK y \in Row : y = [status |-> "running", at |-> now + 1]
  BY <1>3
<1>5. y.at = now + 1
  BY <1>4
<1>6. PICK f \in [RowId -> BOOLEAN] :
        record' = [i \in RowId |-> IF i = Attempt(r) THEN y
                                   ELSE IF f[i] THEN NoRow ELSE record[i]]
  <2>1. PICK f : f = [i \in RowId |->
                 /\ record[i].status # "none"
                 /\ run[i[1]].strategy = run[r].strategy
                 /\ Cardinality(Newer(i, run[r].strategy)) + 1 >= MaxRecords]
    OBVIOUS
  <2>2. f \in [RowId -> BOOLEAN]
    BY <2>1
  <2>. QED BY <1>4, <2>1, <2>2 DEF RecordStart
<1>7. \A i \in RowId : i # Attempt(r) =>
        record'[i] = record[i] \/ record'[i] = NoRow
  BY <1>6
<1>8. record'[Attempt(r)] = y
  BY <1>6, AttemptRow
<1>9. record' \in [RowId -> Row]
  BY <1>3, <1>6
<1>. QED BY <1>1, <1>2, <1>5, <1>7, <1>8, <1>9

\* A run whose store call raised.
Fails(r) == RecordStartFails(r) \/ MarkFails(r)

\* Such a run is given up, and its row is left as it is.
LEMMA FailShape ==
    ASSUME run \in [Run -> Job], NEW r \in Run, Fails(r)
    PROVE  /\ Advances(r) /\ Stay /\ Close(r)
           /\ run[r].pc \in {"starting", "ended"} /\ run'[r].pc = "lost"
           /\ run'[r].attempt = run[r].attempt
           /\ record' = record /\ now' = now
           /\ crashes' = crashes /\ faults' = faults + 1
<1>1. /\ Raise /\ run[r].pc \in {"starting", "ended"} /\ Close(r)
      /\ Step(r, [run[r] EXCEPT !.pc = "lost"]) /\ UNCHANGED ledger
  BY DEF Fails, RecordStartFails, MarkFails
<1>2. "lost" \in Pc
  BY DEF Pc
<1>. QED BY <1>1, <1>2, TurnStep DEF Raise, ledger

\* The end of an attempt: its row is no longer RUNNING, and the run either
\* has its result or sleeps before the next attempt.
LEMMA MarkShape ==
    ASSUME TypeOK, NEW r \in Run, Mark(r)
    PROVE  /\ Advances(r) /\ Stay
           /\ run[r].pc = "ended" /\ run'[r].attempt = run[r].attempt
           /\ \/ run'[r].pc \in {"done", "dead"} /\ Close(r)
              \/ /\ run'[r].pc = "backoff" /\ run[r].attempt < MaxRetries
                 /\ active' = active /\ stopping' = stopping
           /\ record' \in [RowId -> Row]
           /\ \A i \in RowId : i # Attempt(r) => record'[i] = record[i]
           /\ record'[Attempt(r)].status # "running"
           /\ record'[Attempt(r)].at = record[Attempt(r)].at
           /\ now' = now /\ crashes' = crashes /\ faults' = faults
<1>. USE DEF load, bounds
<1>0. /\ run[r].pc = "ended"
      /\ now' = now /\ crashes' = crashes /\ faults' = faults
      /\ run \in [Run -> Job] /\ record \in [RowId -> Row]
      /\ Attempt(r) \in RowId
  BY AttemptRow DEF Mark, TypeOK, Row
<1>1. PICK p \in Pc, st \in Status :
        /\ SetStatus(Attempt(r), st) /\ st # "running"
        /\ Step(r, [run[r] EXCEPT !.pc = p])
        /\ \/ p \in {"done", "dead"} /\ Close(r)
           \/ /\ p = "backoff" /\ run[r].attempt < MaxRetries
              /\ active' = active /\ stopping' = stopping
  <2>0. /\ "done" \in Pc /\ "backoff" \in Pc /\ "dead" \in Pc
        /\ {"success", "failed", "dead_letter"} \subseteq Status
    BY DEF Pc, Status
  <2>1. CASE /\ SetStatus(Attempt(r), "success")
             /\ Step(r, [run[r] EXCEPT !.pc = "done"]) /\ Close(r)
    BY <2>0, <2>1
  <2>2. CASE /\ MayRetry(r) /\ SetStatus(Attempt(r), "failed")
             /\ Step(r, [run[r] EXCEPT !.pc = "backoff"]) /\ UNCHANGED load
    BY <2>0, <2>2 DEF MayRetry
  <2>3. CASE /\ SetStatus(Attempt(r), "dead_letter")
             /\ Step(r, [run[r] EXCEPT !.pc = "dead"]) /\ Close(r)
    BY <2>0, <2>3
  <2>. QED BY <2>1, <2>2, <2>3 DEF Mark
<1>2. /\ Advances(r) /\ Stay
      /\ run'[r].pc = p /\ run'[r].attempt = run[r].attempt
  BY <1>0, <1>1, TurnStep
<1>3. /\ record' \in [RowId -> Row]
      /\ \A j \in RowId : j # Attempt(r) => record'[j] = record[j]
      /\ record'[Attempt(r)].status # "running"
      /\ record'[Attempt(r)].at = record[Attempt(r)].at
  BY <1>0, <1>1, SetStatusParts
<1>. QED BY <1>0, <1>1, <1>2, <1>3

\* Engine g is handed k jobs of the event c, the first k of its routes.
Grants(g, c, routes, k) ==
    /\ run' \in [Run -> Job]
    /\ \A q \in Run : q \in New(k) =>
         /\ run'[q].pc = "queued" /\ run'[q].strategy = routes[q - issued]
         /\ run'[q].cause = c /\ run'[q].engine = g /\ run'[q].attempt = 0
    /\ New(k) \subseteq Run
    /\ issued' = issued + k
    /\ active' = [active EXCEPT ![g] = @ + k]
    /\ stopping' = stopping /\ record' = record /\ now' = now
    /\ locked' = locked /\ mode' = mode
    /\ crashes' = crashes /\ faults' \in {faults, faults + 1}

\* New runs are runs when there is room for them.
LEMMA NewRuns ==
    ASSUME issued \in 0..MaxRuns, NEW n \in Nat, NEW k \in 0..n,
           issued + n <= MaxRuns
    PROVE  New(k) \subseteq Run
BY Constants DEF New, Run

\* An event of a pipeline.
LEMMA EmitShape ==
    ASSUME TypeOK, NEW g \in Engine, Emit(g)
    PROVE  /\ mode[g] = "up" /\ events' = events + 1 /\ events < MaxEvents
           /\ <<0, events + 1>> \in AnyCause
           /\ boot' = boot
           /\ \E k \in 0..Len(Routes) :
                /\ Grants(g, <<0, events + 1>>, Routes, k)
                /\ \A q \in Run : q \notin New(k) => run'[q] = run[q]
<1>. USE DEF life, ledger, bounds
<1>0. /\ run \in [Run -> Job] /\ issued \in 0..MaxRuns
      /\ events \in 0..MaxEvents
  BY DEF TypeOK
<1>1. /\ mode[g] = "up" /\ events' = events + 1 /\ events < MaxEvents
      /\ locked' = locked /\ mode' = mode /\ boot' = boot
      /\ record' = record /\ now' = now
  BY DEF Emit
<1>2. <<0, events + 1>> \in AnyCause
  BY <1>0, <1>1, Constants DEF AnyCause, Cause
<1>3. PICK c \in AnyCause : c = <<0, events + 1>>
  BY <1>2
<1>4. PICK k \in 0..Len(Routes) :
        /\ Dispatch(g, c, Routes, k)
        /\ run' = Enqueued(g, c, Routes, k)
        /\ IF k < Len(Routes) THEN Raise ELSE UNCHANGED bounds
  BY <1>3 DEF Emit
<1>5. crashes' = crashes /\ faults' \in {faults, faults + 1}
  BY <1>4 DEF Raise
<1>6. /\ run' \in [Run -> Job]
      /\ \A q \in Run : q \notin New(k) => run'[q] = run[q]
      /\ \A q \in Run : q \in New(k) =>
           /\ run'[q].pc = "queued" /\ run'[q].strategy = Routes[q - issued]
           /\ run'[q].cause = c /\ run'[q].engine = g /\ run'[q].attempt = 0
  BY <1>0, <1>4, Constants, EnqueuedParts
<1>7. /\ issued' = issued + k /\ issued + Len(Routes) <= MaxRuns
      /\ active' = [active EXCEPT ![g] = @ + k] /\ stopping' = stopping
  BY <1>4 DEF Dispatch, Counted
<1>8. New(k) \subseteq Run
  <2>1. Len(Routes) \in Nat
    BY Constants
  <2>. QED BY <1>0, <1>7, <2>1, NewRuns
<1>9. Grants(g, c, Routes, k)
  BY <1>1, <1>5, <1>6, <1>7, <1>8 DEF Grants
<1>. QED BY <1>1, <1>2, <1>3, <1>6, <1>9

\* An event that a strategy emits and waits for.
LEMMA BodyEmitsShape ==
    ASSUME TypeOK, Issued, NEW r \in Run, BodyEmits(r)
    PROVE  /\ run[r].pc = "body" /\ events' = events /\ boot' = boot
           /\ Attempt(r) \in AnyCause
           /\ run'[r].pc \in {"await", "ended"}
           /\ run'[r].attempt = run[r].attempt
           /\ run'[r].strategy = run[r].strategy
           /\ run'[r].cause = run[r].cause
           /\ run'[r].engine = run[r].engine
           /\ \E k \in 0..Len(ChildRoutes) :
                /\ Grants(run[r].engine, Attempt(r), ChildRoutes, k)
                /\ \A q \in Run : q \notin New(k) /\ q # r => run'[q] = run[q]
                /\ r \notin New(k)
<1>. USE DEF life, ledger, bounds
<1>0. /\ run \in [Run -> Job] /\ issued \in 0..MaxRuns
      /\ run[r] \in Job /\ run[r].engine \in Engine
  BY JobParts DEF TypeOK
<1>1. /\ run[r].pc = "body" /\ events' = events
      /\ locked' = locked /\ mode' = mode /\ boot' = boot
      /\ record' = record /\ now' = now
  BY DEF BodyEmits
<1>2. Attempt(r) \in AnyCause
  BY AttemptRow DEF AnyCause, Cause
<1>3. PICK c \in AnyCause, g \in Engine : c = Attempt(r) /\ g = run[r].engine
  BY <1>0, <1>2
<1>4. PICK k \in 0..Len(ChildRoutes) :
        /\ Dispatch(g, c, ChildRoutes, k)
        /\ run' = [Enqueued(g, c, ChildRoutes, k) EXCEPT ![r] =
                     IF mode[g] = "up" /\ k = Len(ChildRoutes)
                     THEN [@ EXCEPT !.pc = "await"]
                     ELSE [@ EXCEPT !.pc = "ended", !.verdict = "error"]]
        /\ IF mode[g] = "up" /\ k < Len(ChildRoutes)
           THEN Raise ELSE UNCHANGED bounds
  BY <1>3 DEF BodyEmits
<1>5. crashes' = crashes /\ faults' \in {faults, faults + 1}
  BY <1>4 DEF Raise
<1>6. PICK f : f = Enqueued(g, c, ChildRoutes, k)
  OBVIOUS
<1>7. /\ f \in [Run -> Job]
      /\ \A q \in Run : q \notin New(k) => f[q] = run[q]
      /\ \A q \in Run : q \in New(k) =>
           /\ f[q].pc = "queued" /\ f[q].strategy = ChildRoutes[q - issued]
           /\ f[q].cause = c /\ f[q].engine = g /\ f[q].attempt = 0
  BY <1>0, <1>4, <1>6, Constants, EnqueuedParts
<1>8. /\ issued' = issued + k /\ issued + Len(ChildRoutes) <= MaxRuns
      /\ active' = [active EXCEPT ![g] = @ + k] /\ stopping' = stopping
  BY <1>4 DEF Dispatch, Counted
<1>9. New(k) \subseteq Run
  <2>1. Len(ChildRoutes) \in Nat
    BY Constants
  <2>. QED BY <1>0, <1>8, <2>1, NewRuns
<1>10. r \notin New(k)
  <2>1. r <= issued
    BY <1>1 DEF Issued, Made
  <2>. QED BY <1>0, <2>1 DEF New, Run
<1>11. PICK y \in Job :
         /\ run' = [f EXCEPT ![r] = y]
         /\ y.pc \in {"await", "ended"} /\ y.attempt = run[r].attempt
         /\ y.strategy = run[r].strategy /\ y.cause = run[r].cause
         /\ y.engine = run[r].engine
  <2>1. PICK j \in Job : j = run[r] /\ j = f[r]
    BY <1>0, <1>7, <1>10
  <2>2. "await" \in Pc /\ "ended" \in Pc /\ "error" \in Verdict
    BY DEF Pc, Verdict
  <2>3. CASE mode[g] = "up" /\ k = Len(ChildRoutes)
    <3>1. PICK y : y = [j EXCEPT !.pc = "await"]
      OBVIOUS
    <3>2. /\ y \in Job /\ y.pc = "await" /\ y.strategy = j.strategy
          /\ y.cause = j.cause /\ y.engine = j.engine
          /\ y.attempt = j.attempt
      BY <2>2, <3>1 DEF Job
    <3>3. run' = [f EXCEPT ![r] = y]
      BY <1>4, <1>6, <2>1, <2>3, <3>1
    <3>. QED BY <2>1, <3>2, <3>3
  <2>4. CASE ~(mode[g] = "up" /\ k = Len(ChildRoutes))
    <3>1. PICK y : y = [j EXCEPT !.pc = "ended", !.verdict = "error"]
      OBVIOUS
    <3>2. /\ y \in Job /\ y.pc = "ended" /\ y.strategy = j.strategy
          /\ y.cause = j.cause /\ y.engine = j.engine
          /\ y.attempt = j.attempt
      BY <2>2, <3>1 DEF Job
    <3>3. run' = [f EXCEPT ![r] = y]
      BY <1>4, <1>6, <2>1, <2>4, <3>1
    <3>. QED BY <2>1, <3>2, <3>3
  <2>. QED BY <2>3, <2>4
<1>12. /\ run' \in [Run -> Job] /\ run'[r] = y
       /\ \A q \in Run : q # r => run'[q] = f[q]
  BY <1>7, <1>11
<1>13. \A q \in Run : q \notin New(k) /\ q # r => run'[q] = run[q]
  BY <1>7, <1>12
<1>14. \A q \in Run : q \in New(k) =>
         /\ run'[q].pc = "queued" /\ run'[q].strategy = ChildRoutes[q - issued]
         /\ run'[q].cause = c /\ run'[q].engine = g /\ run'[q].attempt = 0
  BY <1>7, <1>10, <1>12
<1>15. Grants(g, c, ChildRoutes, k)
  BY <1>1, <1>5, <1>8, <1>9, <1>12, <1>14 DEF Grants
<1>. QED BY <1>1, <1>2, <1>3, <1>10, <1>11, <1>12, <1>13, <1>15

-----------------------------------------------------------------------------
(* What the steps of an engine do.                                         *)

Boot == [todo : SUBSET RowId, taken : SUBSET RowId]

\* Types of what a recovery works on.
LEMMA BootParts ==
    ASSUME TypeOK, NEW g \in Engine
    PROVE  /\ boot \in [Engine -> Boot]
           /\ boot[g].todo \subseteq RowId /\ boot[g].taken \subseteq RowId
BY DEF TypeOK, Boot

\* The start of an engine when none is up.
LEMMA StartShape ==
    ASSUME TypeOK, NEW g \in Engine, Start(g)
    PROVE  /\ mode[g] = "down" /\ locked = {} /\ locked' = {g}
           /\ boot' \in [Engine -> Boot]
           /\ \A h \in Engine : h # g => boot'[h] = boot[h]
           /\ \/ /\ g \in Recovers
                 /\ mode' = [mode EXCEPT ![g] = "recovering"]
                 /\ boot'[g].taken = boot[g].taken
                 /\ \E cutoff \in IF LateRestart THEN {now} ELSE 0..now :
                      boot'[g].todo = Crashed(cutoff)
              \/ /\ g \notin Recovers
                 /\ mode' = [mode EXCEPT ![g] = "up"]
                 /\ boot' = boot
           /\ run' = run /\ issued' = issued /\ events' = events
           /\ Aside
<1>. USE DEF queue, load, ledger, bounds, Aside
<1>1. /\ mode[g] = "down" /\ locked = {} /\ locked' = {g}
      /\ run' = run /\ issued' = issued /\ events' = events /\ Aside
  BY DEF Start, LockFree
<1>2. boot \in [Engine -> Boot]
  BY BootParts
<1>3. CASE g \in Recovers
  <2>1. mode' = [mode EXCEPT ![g] = "recovering"]
    BY <1>3 DEF Start
  <2>2. PICK cutoff \in IF LateRestart THEN {now} ELSE 0..now :
          boot' = [boot EXCEPT ![g].todo = Crashed(cutoff)]
    BY <1>3 DEF Start
  <2>3. PICK x \in Boot : x = boot[g]
    BY <1>2
  <2>4. PICK c \in SUBSET RowId : c = Crashed(cutoff)
    BY DEF Crashed
  <2>5. PICK y : y = [x EXCEPT !.todo = c]
    OBVIOUS
  <2>6. y \in Boot /\ y.todo = c /\ y.taken = x.taken
    BY <2>5 DEF Boot
  <2>7. boot' = [boot EXCEPT ![g] = y]
    BY <2>2, <2>3, <2>4, <2>5
  <2>8. /\ boot' \in [Engine -> Boot] /\ boot'[g] = y
        /\ \A h \in Engine : h # g => boot'[h] = boot[h]
    BY <1>2, <2>6, <2>7
  <2>. QED BY <1>1, <1>3, <2>1, <2>3, <2>4, <2>6, <2>8
<1>4. CASE g \notin Recovers
  <2>1. mode' = [mode EXCEPT ![g] = "up"] /\ boot' = boot
    BY <1>4 DEF Start
  <2>. QED BY <1>1, <1>2, <1>4, <2>1
<1>. QED BY <1>3, <1>4

\* A row is marked: the recovery holds it and nothing else.
LEMMA MarkCrashedShape ==
    ASSUME TypeOK, NEW g \in Engine, NEW i \in boot[g].todo, MarkCrashed(g, i)
    PROVE  /\ i \in RowId /\ boot[g].taken = {}
           /\ boot' \in [Engine -> Boot]
           /\ \A h \in Engine : h # g => boot'[h] = boot[h]
           /\ boot'[g].todo = boot[g].todo \ {i} /\ boot'[g].taken = {i}
           /\ record' \in [RowId -> Row]
           /\ \A j \in RowId : j # i => record'[j] = record[j]
           /\ record'[i].status # "running" /\ record'[i].at = record[i].at
           /\ locked' = locked /\ mode' = mode /\ run' = run
           /\ issued' = issued /\ events' = events
           /\ active' = active /\ stopping' = stopping
           /\ now' = now /\ crashes' = crashes /\ faults' = faults
<1>. USE DEF queue, load, bounds
<1>1. /\ boot[g].taken = {}
      /\ locked' = locked /\ mode' = mode /\ run' = run
      /\ issued' = issued /\ events' = events
      /\ active' = active /\ stopping' = stopping
      /\ now' = now /\ crashes' = crashes /\ faults' = faults
  BY DEF MarkCrashed
<1>2. i \in RowId /\ boot \in [Engine -> Boot]
  BY BootParts
<1>3. /\ record' \in [RowId -> Row]
      /\ \A j \in RowId : j # i => record'[j] = record[j]
      /\ record'[i].status # "running" /\ record'[i].at = record[i].at
  <2>1. PICK st \in Status : st = "crashed"
    BY DEF Status
  <2>2. SetStatus(i, st) /\ st # "running"
    BY <2>1 DEF MarkCrashed
  <2>3. record \in [RowId -> Row]
    BY DEF TypeOK, Row
  <2>. QED BY <1>2, <2>2, <2>3, SetStatusParts
<1>4. PICK x \in Boot : x = boot[g]
  BY <1>2
<1>5. PICK y : y = [todo |-> x.todo \ {i}, taken |-> {i}]
  OBVIOUS
<1>6. y \in Boot /\ y.todo = x.todo \ {i} /\ y.taken = {i}
  BY <1>2, <1>5 DEF Boot
<1>7. boot' = [boot EXCEPT ![g] = y]
  BY <1>2, <1>4, <1>5 DEF MarkCrashed, Boot
<1>. QED BY <1>1, <1>2, <1>3, <1>4, <1>6, <1>7

\* The row that a recovery holds is let go.
LetGo(g) ==
    /\ boot' \in [Engine -> Boot]
    /\ \A h \in Engine : h # g => boot'[h] = boot[h]
    /\ boot'[g].todo = boot[g].todo /\ boot'[g].taken = {}

\* What letting a row go does.
LEMMA LetGoParts ==
    ASSUME TypeOK, NEW g \in Engine, boot' = [boot EXCEPT ![g].taken = {}]
    PROVE  LetGo(g)
<1>1. boot \in [Engine -> Boot]
  BY BootParts
<1>2. PICK x \in Boot : x = boot[g]
  BY <1>1
<1>3. PICK y : y = [x EXCEPT !.taken = {}]
  OBVIOUS
<1>4. y \in Boot /\ y.todo = x.todo /\ y.taken = {}
  BY <1>3 DEF Boot
<1>5. boot' = [boot EXCEPT ![g] = y]
  BY <1>2, <1>3
<1>. QED BY <1>1, <1>2, <1>4, <1>5 DEF LetGo

\* The event of a marked row becomes a job.
LEMMA RequeueShape ==
    ASSUME TypeOK, NEW g \in Engine, NEW i \in boot[g].taken, Requeue(g, i)
    PROVE  /\ i \in RowId /\ i[1] \in Run /\ LetGo(g) /\ events' = events
           /\ Grants(g, run[i[1]].cause, <<run[i[1]].strategy>>, 1)
           /\ \A q \in Run : q \notin New(1) => run'[q] = run[q]
<1>0. /\ run \in [Run -> Job] /\ issued \in 0..MaxRuns
  BY DEF TypeOK
<1>1. i \in RowId /\ i[1] \in Run
  BY BootParts DEF RowId
<1>2. PICK s \in Strategy, c \in AnyCause :
        s = run[i[1]].strategy /\ c = run[i[1]].cause
  BY <1>0, <1>1, JobParts
<1>3. /\ issued < MaxRuns /\ issued' = issued + 1
      /\ run' = Enqueued(g, c, <<s>>, 1)
      /\ active' = [active EXCEPT ![g] = @ + 1] /\ stopping' = stopping
      /\ boot' = [boot EXCEPT ![g].taken = {}]
      /\ locked' = locked /\ mode' = mode /\ events' = events
      /\ record' = record /\ now' = now
      /\ crashes' = crashes /\ faults' = faults
  BY <1>2 DEF Requeue, ledger, bounds
<1>4. PICK routes \in Seq(Strategy) : routes = <<s>> /\ Len(routes) = 1
  <2>1. <<s>> \in Seq(Strategy) /\ Len(<<s>>) = 1
    BY <1>2
  <2>. QED BY <2>1
<1>5. /\ run' \in [Run -> Job]
      /\ \A q \in Run : q \notin New(1) => run'[q] = run[q]
      /\ \A q \in Run : q \in New(1) =>
           /\ run'[q].pc = "queued" /\ run'[q].strategy = routes[q - issued]
           /\ run'[q].cause = c /\ run'[q].engine = g /\ run'[q].attempt = 0
  <2>1. PICK k \in 0..Len(routes) : k = 1
    BY <1>4
  <2>2. run' = Enqueued(g, c, routes, k)
    BY <1>3, <1>4, <2>1
  <2>3. /\ run' \in [Run -> Job]
        /\ \A q \in Run : q \notin New(k) => run'[q] = run[q]
        /\ \A q \in Run : q \in New(k) =>
             /\ run'[q].pc = "queued" /\ run'[q].strategy = routes[q - issued]
             /\ run'[q].cause = c /\ run'[q].engine = g
             /\ run'[q].attempt = 0
    BY <1>0, <2>2, EnqueuedParts
  <2>. QED BY <2>1, <2>3
<1>6. New(1) \subseteq Run
  BY <1>0, <1>3, Constants DEF New, Run
<1>7. Grants(g, c, routes, 1)
  BY <1>3, <1>5, <1>6 DEF Grants
<1>8. Grants(g, run[i[1]].cause, <<run[i[1]].strategy>>, 1)
  BY <1>2, <1>4, <1>7
<1>. QED BY <1>1, <1>3, <1>5, <1>8, LetGoParts

\* What is left of an engine that goes down.
Falls(g) ==
    /\ run' \in [Run -> Job]
    /\ \A q \in Run :
         /\ run'[q].strategy = run[q].strategy /\ run'[q].cause = run[q].cause
         /\ run'[q].engine = run[q].engine
         /\ run'[q].attempt = run[q].attempt
         /\ IF run[q].engine = g /\ Live(q)
            THEN run'[q].pc \in {"orphan", "lost"}
            ELSE run'[q] = run[q]
    /\ locked' = locked \ {g}
    /\ mode' = [mode EXCEPT ![g] = "down"]
    /\ boot' \in [Engine -> Boot]
    /\ \A h \in Engine : h # g => boot'[h] = boot[h]
    /\ boot'[g].todo = {} /\ boot'[g].taken = {}
    /\ active' = [active EXCEPT ![g] = 0]
    /\ stopping' = [stopping EXCEPT ![g] = "no"]
    /\ issued' = issued /\ events' = events /\ record' = record /\ now' = now
    /\ faults' = faults

\* GoDown does that.
LEMMA GoDownShape ==
    ASSUME TypeOK, NEW g \in Engine, GoDown(g), faults' = faults
    PROVE  Falls(g)
<1>0. run \in [Run -> Job] /\ boot \in [Engine -> Boot]
  BY BootParts DEF TypeOK
<1>1. ASSUME NEW q \in Run
      PROVE  /\ run'[q] \in Job
             /\ run'[q].strategy = run[q].strategy
             /\ run'[q].cause = run[q].cause
             /\ run'[q].engine = run[q].engine
             /\ run'[q].attempt = run[q].attempt
             /\ IF run[q].engine = g /\ Live(q)
                THEN run'[q].pc \in {"orphan", "lost"}
                ELSE run'[q] = run[q]
  <2>1. PICK j \in Job : j = run[q]
    BY <1>0
  <2>2. "orphan" \in Pc /\ "lost" \in Pc
    BY DEF Pc
  <2>3. run'[q] = CASE run[q].engine = g /\ run[q].pc = "queued" ->
                         [run[q] EXCEPT !.pc = "orphan"]
                    [] run[q].engine = g /\ run[q].pc \in InFlight ->
                         [run[q] EXCEPT !.pc = "lost"]
                    [] OTHER -> run[q]
    BY DEF GoDown
  <2>4. CASE run[q].engine = g /\ run[q].pc = "queued"
    <3>1. PICK x : x = [j EXCEPT !.pc = "orphan"]
      OBVIOUS
    <3>2. run[q].pc \notin InFlight
      BY <2>4 DEF InFlight, InSlot
    <3>3. run'[q] = x
      BY <2>1, <2>3, <2>4, <3>1, <3>2
    <3>4. x \in Job /\ x.pc = "orphan" /\ x.strategy = j.strategy
          /\ x.cause = j.cause /\ x.engine = j.engine
          /\ x.attempt = j.attempt
      BY <2>2, <3>1 DEF Job
    <3>. QED BY <2>1, <2>4, <3>3, <3>4 DEF Live
  <2>5. CASE run[q].engine = g /\ run[q].pc \in InFlight
    <3>1. PICK x : x = [j EXCEPT !.pc = "lost"]
      OBVIOUS
    <3>2. run[q].pc # "queued"
      BY <2>5 DEF InFlight, InSlot
    <3>3. run'[q] = x
      BY <2>1, <2>3, <2>5, <3>1, <3>2
    <3>4. x \in Job /\ x.pc = "lost" /\ x.strategy = j.strategy
          /\ x.cause = j.cause /\ x.engine = j.engine
          /\ x.attempt = j.attempt
      BY <2>2, <3>1 DEF Job
    <3>. QED BY <2>1, <2>5, <3>3, <3>4 DEF Live
  <2>6. CASE ~(run[q].engine = g /\ Live(q))
    <3>1. /\ ~(run[q].engine = g /\ run[q].pc = "queued")
          /\ ~(run[q].engine = g /\ run[q].pc \in InFlight)
      BY <2>6 DEF Live
    <3>2. run'[q] = run[q]
      BY <2>3, <3>1
    <3>. QED BY <2>1, <2>6, <3>2
  <2>. QED BY <2>4, <2>5, <2>6 DEF Live
<1>2. run' \in [Run -> Job]
  <2>1. run' = [q \in Run |-> run'[q]]
    BY DEF GoDown
  <2>. QED BY <1>1, <2>1
<1>3. PICK y \in Boot : y = [todo |-> {}, taken |-> {}]
  BY DEF Boot
<1>4. boot' = [boot EXCEPT ![g] = y]
  BY <1>3 DEF GoDown
<1>5. /\ boot' \in [Engine -> Boot] /\ boot'[g] = y
      /\ \A h \in Engine : h # g => boot'[h] = boot[h]
  BY <1>0, <1>4
<1>6. /\ locked' = locked \ {g} /\ mode' = [mode EXCEPT ![g] = "down"]
      /\ active' = [active EXCEPT ![g] = 0]
      /\ stopping' = [stopping EXCEPT ![g] = "no"]
      /\ issued' = issued /\ events' = events /\ record' = record
      /\ now' = now
  BY DEF GoDown, queue, ledger
<1>. QED BY <1>1, <1>2, <1>3, <1>5, <1>6 DEF Falls

\* An engine goes down in three ways.
Down(g) == Die(g) \/ (Stop(g) /\ GoDown(g)) \/ Shutdown(g)

\* None of them is a call that raises.
LEMMA DownShape ==
    ASSUME TypeOK, NEW g \in Engine, Down(g)
    PROVE  Falls(g) /\ crashes' \in {crashes, crashes + 1}
<1>1. GoDown(g) /\ faults' = faults /\ crashes' \in {crashes, crashes + 1}
  BY DEF Down, Die, Stop, Shutdown, bounds
<1>. QED BY <1>1, GoDownShape

-----------------------------------------------------------------------------
(* The kinds of steps.                                                     *)

\* How a run gets from one step to the next.
Hops(r) ==
    \/ Leads(r)
    \/ /\ run'[r].attempt = run[r].attempt
       /\ \/ run[r].pc = "starting" /\ run'[r].pc \in {"body", "lost"}
          \/ run[r].pc = "ended" /\ run'[r].pc \in {"done", "dead", "lost"}
          \/ /\ run[r].pc = "ended" /\ run'[r].pc = "backoff"
             /\ run[r].attempt < MaxRetries

\* A row is RUNNING from the start of its attempt to its end.
RowsMove(r) ==
    /\ record' \in [RowId -> Row]
    /\ now' \in {now, now + 1}
    /\ \A i \in RowId : record'[i].at <= record[i].at \/ record'[i].at <= now'
    /\ \A i \in RowId : record'[i].status = "running" =>
         \/ Running(i)
         \/ /\ i = Attempt(r)
            /\ run[r].pc = "starting" /\ run'[r].pc = "body"
    /\ run[r].pc = "ended" /\ run'[r].pc # "lost" =>
         record'[Attempt(r)].status # "running"

\* The engine counts the run until it closes.
Balance(r) ==
    \/ Close(r) /\ run[r].pc \in {"starting", "ended"}
       /\ run'[r].pc \in {"done", "dead", "lost"}
    \/ active' = active /\ stopping' = stopping
       /\ run'[r].pc \notin {"done", "dead"}
       /\ (run'[r].pc = "lost" => run[r].pc = "orphan")

\* A run loses its row only to a call that raised.
Blame(r) == faults' = IF run[r].pc \in {"starting", "ended"}
                         /\ run'[r].pc = "lost"
                      THEN faults + 1 ELSE faults

\* A step of one run.
Turn(r) ==
    /\ Advances(r) /\ Stay /\ Hops(r) /\ RowsMove(r) /\ Balance(r)
    /\ Blame(r) /\ crashes' = crashes

\* The steps of a run that hand out no job.
LEMMA TurnShape ==
    ASSUME Shapes, NEW r \in Run,
           Quiet(r) \/ RecordStart(r) \/ Fails(r) \/ Mark(r)
    PROVE  Turn(r)
<1>0. /\ TypeOK /\ run \in [Run -> Job] /\ record \in [RowId -> Row]
      /\ now \in Nat /\ faults \in Nat /\ Attempt(r) \in RowId
      /\ \A i \in RowId : record[i].at <= now /\ record[i].at \in Nat
  BY AttemptRow DEF Shapes, TypeOK, Row, Dated
<1>1. CASE Quiet(r)
  <2>1. Advances(r) /\ Stay /\ Aside /\ Leads(r)
    BY <1>0, <1>1, QuietShape
  <2>2. RowsMove(r)
    BY <1>0, <2>1 DEF RowsMove, Aside, Running, Leads
  <2>3. Balance(r) /\ Blame(r)
    BY <2>1 DEF Balance, Blame, Aside, Leads
  <2>. QED BY <2>1, <2>2, <2>3 DEF Turn, Hops, Aside
<1>2. CASE RecordStart(r)
  <2>1. /\ Advances(r) /\ Stay
        /\ active' = active /\ stopping' = stopping
        /\ crashes' = crashes /\ faults' = faults
        /\ run[r].pc = "starting" /\ run'[r].pc = "body"
        /\ run'[r].attempt = run[r].attempt
        /\ now' = now + 1
        /\ record' \in [RowId -> Row]
        /\ \A i \in RowId : i # Attempt(r) =>
             record'[i] = record[i] \/ record'[i] = NoRow
        /\ record'[Attempt(r)].at = now + 1
    BY <1>0, <1>2, RecordStartShape
  <2>2. RowsMove(r)
    <3>1. NoRow.status = "none" /\ NoRow.at = 0
      BY DEF NoRow
    <3>2. \A i \in RowId :
              record'[i].at <= record[i].at \/ record'[i].at <= now'
      <4>. SUFFICES ASSUME NEW i \in RowId
                    PROVE record'[i].at <= record[i].at \/ record'[i].at <= now'
        OBVIOUS
      <4>1. CASE i = Attempt(r)
        BY <1>0, <2>1, <4>1
      <4>2. CASE record'[i] = record[i]
        BY <1>0, <4>2
      <4>3. CASE record'[i] = NoRow
        BY <1>0, <3>1, <4>3
      <4>. QED BY <2>1, <4>1, <4>2, <4>3
    <3>3. \A i \in RowId : record'[i].status = "running" =>
            Running(i) \/ i = Attempt(r)
      BY <2>1, <3>1 DEF Running
    <3>. QED BY <2>1, <3>2, <3>3 DEF RowsMove
  <2>3. Balance(r) /\ Blame(r)
    BY <2>1 DEF Balance, Blame
  <2>. QED BY <2>1, <2>2, <2>3 DEF Turn, Hops
<1>3. CASE Fails(r)
  <2>1. /\ Advances(r) /\ Stay /\ Close(r)
        /\ run[r].pc \in {"starting", "ended"} /\ run'[r].pc = "lost"
        /\ run'[r].attempt = run[r].attempt
        /\ record' = record /\ now' = now
        /\ crashes' = crashes /\ faults' = faults + 1
    BY <1>0, <1>3, FailShape
  <2>2. RowsMove(r)
    BY <1>0, <2>1 DEF RowsMove, Running
  <2>3. Balance(r) /\ Blame(r) /\ Hops(r)
    BY <2>1 DEF Balance, Blame, Hops
  <2>. QED BY <2>1, <2>2, <2>3 DEF Turn
<1>4. CASE Mark(r)
  <2>1. /\ Advances(r) /\ Stay
        /\ run[r].pc = "ended" /\ run'[r].attempt = run[r].attempt
        /\ \/ run'[r].pc \in {"done", "dead"} /\ Close(r)
           \/ /\ run'[r].pc = "backoff" /\ run[r].attempt < MaxRetries
              /\ active' = active /\ stopping' = stopping
        /\ record' \in [RowId -> Row]
        /\ \A i \in RowId : i # Attempt(r) => record'[i] = record[i]
        /\ record'[Attempt(r)].status # "running"
        /\ record'[Attempt(r)].at = record[Attempt(r)].at
        /\ now' = now /\ crashes' = crashes /\ faults' = faults
    BY <1>0, <1>4, MarkShape
  <2>2. RowsMove(r)
    <3>1. \A i \in RowId : record'[i].at = record[i].at
      BY <2>1
    <3>2. \A i \in RowId : record'[i].status = "running" => Running(i)
      BY <2>1 DEF Running
    <3>. QED BY <1>0, <2>1, <3>1, <3>2 DEF RowsMove
  <2>3. Balance(r) /\ Blame(r) /\ Hops(r)
    BY <2>1 DEF Balance, Blame, Hops
  <2>. QED BY <2>1, <2>2, <2>3 DEF Turn
<1>. QED BY <1>1, <1>2, <1>3, <1>4

\* Runs, jobs and rows are left alone.
Rests ==
    /\ run' = run /\ locked' = locked /\ issued' = issued /\ events' = events
    /\ active' = active /\ record' = record /\ now' = now
    /\ boot' \in [Engine -> Boot]
    /\ \A h \in Engine : /\ boot'[h].todo = boot[h].todo
                         /\ boot'[h].taken \subseteq boot[h].taken
    /\ mode' \in [Engine -> Mode]
    /\ \A h \in Engine : \/ mode'[h] = mode[h]
                         \/ /\ mode[h] = "recovering" /\ mode'[h] = "up"
                            /\ Recovered(h)
    /\ stopping' \in [Engine -> Stopping]
    /\ crashes' = crashes /\ faults' \in {faults, faults + 1}

\* A recovery that cannot enqueue, one that is through, a stop that waits.
LEMMA RestShape ==
    ASSUME TypeOK,
           \/ UNCHANGED vars
           \/ \E g \in Engine :
                \/ \E i \in boot[g].taken : RequeueFails(g, i)
                \/ Ready(g)
                \/ Stop(g) /\ ~GoDown(g)
    PROVE  Rests
<1>. USE DEF queue, load, ledger, bounds
<1>0. /\ boot \in [Engine -> Boot] /\ mode \in [Engine -> Mode]
      /\ stopping \in [Engine -> Stopping]
  BY DEF TypeOK, Boot
<1>1. CASE UNCHANGED vars
  BY <1>0, <1>1 DEF vars, Rests
<1>2. ASSUME NEW g \in Engine, NEW i \in boot[g].taken, RequeueFails(g, i)
      PROVE  Rests
  <2>1. /\ run' = run /\ locked' = locked /\ issued' = issued
        /\ events' = events /\ active' = active /\ record' = record
        /\ now' = now /\ mode' = mode /\ stopping' = stopping
        /\ crashes' = crashes /\ faults' = faults + 1
        /\ boot' = [boot EXCEPT ![g].taken = {}]
    BY <1>2 DEF RequeueFails, Raise
  <2>2. LetGo(g)
    BY <2>1, LetGoParts
  <2>3. \A h \in Engine : /\ boot'[h].todo = boot[h].todo
                          /\ boot'[h].taken \subseteq boot[h].taken
    BY <2>2 DEF LetGo
  <2>. QED BY <1>0, <2>1, <2>2, <2>3 DEF Rests, LetGo
<1>3. ASSUME NEW g \in Engine, Ready(g)
      PROVE  Rests
  <2>1. /\ run' = run /\ locked' = locked /\ issued' = issued
        /\ events' = events /\ active' = active /\ record' = record
        /\ now' = now /\ stopping' = stopping /\ boot' = boot
        /\ crashes' = crashes /\ faults' = faults
        /\ mode' = [mode EXCEPT ![g] = "up"]
        /\ Recovered(g) /\ mode[g] = "recovering"
    BY <1>3 DEF Ready, Recovered
  <2>2. mode' \in [Engine -> Mode]
    BY <1>0, <2>1 DEF Mode
  <2>3. \A h \in Engine :
          \/ mode'[h] = mode[h]
          \/ mode[h] = "recovering" /\ mode'[h] = "up" /\ Recovered(h)
    BY <1>0, <2>1
  <2>. QED BY <1>0, <2>1, <2>2, <2>3 DEF Rests
<1>4. ASSUME NEW g \in Engine, Stop(g), ~GoDown(g)
      PROVE  Rests
  <2>1. /\ run' = run /\ locked' = locked /\ issued' = issued
        /\ events' = events /\ active' = active /\ record' = record
        /\ now' = now /\ mode' = mode /\ boot' = boot
        /\ crashes' = crashes /\ faults' = faults
        /\ stopping' = [stopping EXCEPT ![g] = "waiting"]
    BY <1>4 DEF Stop, life
  <2>2. stopping' \in [Engine -> Stopping]
    BY <1>0, <2>1 DEF Stopping
  <2>. QED BY <1>0, <2>1, <2>2 DEF Rests
<1>. QED BY <1>1, <1>2, <1>3, <1>4

\* The kinds of steps there are.
LEMMA Kinds ==
    ASSUME Shapes, [Next]_vars
    PROVE  \/ \E r \in Run : Turn(r) \/ BodyEmits(r)
           \/ \E g \in Engine :
                \/ Emit(g) \/ Start(g) \/ Down(g)
                \/ \E i \in boot[g].todo : MarkCrashed(g, i)
                \/ \E i \in boot[g].taken : Requeue(g, i)
           \/ Rests
<1>0. TypeOK
  BY DEF Shapes
<1>1. CASE UNCHANGED vars
  BY <1>0, <1>1, RestShape
<1>2. ASSUME NEW r \in Run, RunStep(r)
      PROVE  Turn(r) \/ BodyEmits(r)
  BY <1>2, TurnShape DEF RunStep, Quiet, Fails
<1>3. ASSUME NEW g \in Engine, Booting(g)
      PROVE  \/ Start(g) \/ Rests
             \/ \E i \in boot[g].todo : MarkCrashed(g, i)
             \/ \E i \in boot[g].taken : Requeue(g, i)
  BY <1>0, <1>3, RestShape DEF Booting
<1>4. ASSUME NEW g \in Engine, Die(g) \/ Stop(g) \/ Shutdown(g)
      PROVE  Down(g) \/ Rests
  BY <1>0, <1>4, RestShape DEF Down
<1>. QED BY <1>1, <1>2, <1>3, <1>4 DEF Next

-----------------------------------------------------------------------------
(* Shapes are kept.                                                        *)

\* Conjuncts of the shapes that a step of runs and rows touches.
LEMMA Parts ==
    ASSUME Shapes
    PROVE  /\ run \in [Run -> Job] /\ record \in [RowId -> Row]
           /\ \A r \in Run : run[r].attempt \in 0..MaxRetries
           /\ issued \in 0..MaxRuns /\ events \in 0..MaxEvents
           /\ active \in [Engine -> Nat] /\ now \in Nat /\ faults \in Nat
           /\ mode \in [Engine -> Mode] /\ boot \in [Engine -> Boot]
BY DEF Shapes, TypeOK, Row, Boot

\* Steps of a live run, whatever it does.
LEMMA LiveOf ==
    ASSUME NEW r \in Run
    PROVE  /\ Live(r) <=> run[r].pc \in {"queued", "waiting", "starting",
                            "body", "await", "resumed", "ended", "backoff"}
           /\ Live(r)' <=> run'[r].pc \in {"queued", "waiting", "starting",
                            "body", "await", "resumed", "ended", "backoff"}
BY DEF Live, InFlight, InSlot

\* A step of one run keeps the shapes.
LEMMA TurnKeeps ==
    ASSUME Shapes, NEW r \in Run, Turn(r)
    PROVE  Shapes'
<1>0. /\ run \in [Run -> Job] /\ record \in [RowId -> Row]
      /\ issued \in 0..MaxRuns /\ events \in 0..MaxEvents
      /\ active \in [Engine -> Nat] /\ now \in Nat /\ faults \in Nat
      /\ \A q \in Run : run[q].attempt \in 0..MaxRetries
  BY Parts
<1>1. /\ Advances(r) /\ Stay /\ Hops(r) /\ RowsMove(r) /\ Balance(r)
      /\ Blame(r) /\ crashes' = crashes
  BY DEF Turn
<1>2. /\ run' \in [Run -> Job]
      /\ \A q \in Run : q # r => run'[q] = run[q]
      /\ \A q \in Run : /\ run'[q].strategy = run[q].strategy
                        /\ run'[q].cause = run[q].cause
                        /\ run'[q].engine = run[q].engine
  BY <1>1 DEF Advances
<1>3. /\ locked' = locked /\ mode' = mode /\ boot' = boot
      /\ issued' = issued /\ events' = events
  BY <1>1 DEF Stay
<1>4. \/ run'[r].attempt = run[r].attempt
      \/ run'[r].attempt = run[r].attempt + 1 /\ run[r].pc = "backoff"
         /\ run'[r].pc = "waiting"
  BY <1>1 DEF Hops, Leads
<1>5. /\ run[r].pc # "unused" /\ run'[r].pc # "unused"
      /\ (run'[r].pc = "backoff" =>
            run[r].attempt < MaxRetries /\ run'[r].attempt = run[r].attempt)
      /\ (Live(r)' => Live(r))
      /\ (run'[r].attempt = run[r].attempt /\ run[r].pc \notin Early =>
            run'[r].pc \notin Early)
  <2>1. /\ run[r].pc # "unused" /\ run'[r].pc # "unused"
        /\ (run'[r].pc = "backoff" =>
              run[r].attempt < MaxRetries /\ run'[r].attempt = run[r].attempt)
    BY <1>1 DEF Hops, Leads
  <2>2. Live(r)' => Live(r)
    BY <1>1, LiveOf DEF Hops, Leads
  <2>3. run'[r].attempt # run[r].attempt + 1 \/ run'[r].attempt # run[r].attempt
    BY <1>0, JobParts
  <2>4. run'[r].attempt = run[r].attempt /\ run[r].pc \notin Early =>
            run'[r].pc \notin Early
    BY <1>1, <2>3 DEF Hops, Leads, Early
  <2>. QED BY <2>1, <2>2, <2>4
<1>6. TypeOK'
  <2>1. \A q \in Run : run'[q].attempt \in 0..MaxRetries
    <3>1. run[r].pc = "backoff" => run[r].attempt < MaxRetries
      BY DEF Shapes, Issued
    <3>2. run'[r].attempt \in 0..MaxRetries
      BY <1>0, <1>4, <3>1, Constants
    <3>. QED BY <1>0, <1>2, <3>2
  <2>2. active' \in [Engine -> Nat] /\ stopping' \in [Engine -> Stopping]
    <3>1. stopping \in [Engine -> Stopping]
      BY DEF Shapes, TypeOK
    <3>2. CASE Close(r)
      <4>1. PICK g \in Engine : g = run[r].engine
        BY <1>0, JobParts
      <4>2. active' = [active EXCEPT ![g] = IF @ > 0 THEN @ - 1 ELSE 0]
        BY <3>2, <4>1 DEF Close
      <4>3. active' \in [Engine -> Nat]
        BY <1>0, <4>2
      <4>4. stopping' = [stopping EXCEPT ![g] =
              IF @ = "waiting" /\ active'[g] = 0 THEN "signalled" ELSE @]
        BY <3>2, <4>1 DEF Close
      <4>5. stopping' \in [Engine -> Stopping]
        BY <3>1, <4>4 DEF Stopping
      <4>. QED BY <4>3, <4>5
    <3>. QED BY <1>0, <1>1, <3>1, <3>2 DEF Balance
  <2>3. /\ record' \in [RowId -> [status : Status, at : Nat]]
        /\ now' \in Nat /\ faults' \in Nat
    BY <1>0, <1>1 DEF RowsMove, Row, Blame
  <2>4. /\ locked' \subseteq Engine /\ mode' \in [Engine -> Mode]
        /\ boot' \in [Engine -> [todo : SUBSET RowId, taken : SUBSET RowId]]
        /\ issued' \in 0..MaxRuns /\ events' \in 0..MaxEvents
        /\ crashes' \in Nat
    BY <1>0, <1>1, <1>3 DEF Shapes, TypeOK
  <2>. QED BY <1>2, <2>1, <2>2, <2>3, <2>4 DEF TypeOK
<1>7. Lock'
  BY <1>3 DEF Shapes, Lock
<1>8. Owned'
  <2>1. \A q \in Run : Live(q)' => Live(q)
    BY <1>2, <1>5, LiveOf
  <2>. QED BY <1>2, <1>3, <2>1 DEF Shapes, Owned
<1>9. Issued'
  <2>1. \A q \in Run : Made(q) => q <= issued
    BY DEF Shapes, Issued
  <2>2. \A q \in Run : Made(q)' => q <= issued'
    BY <1>2, <1>3, <1>5, <2>1 DEF Made
  <2>3. \A q \in Run : run'[q].pc = "backoff" => run'[q].attempt < MaxRetries
    <3>1. \A q \in Run : run[q].pc = "backoff" => run[q].attempt < MaxRetries
      BY DEF Shapes, Issued
    <3>. QED BY <1>2, <1>5, <3>1
  <2>. QED BY <2>2, <2>3 DEF Issued
<1>10. Causes'
  <2>. SUFFICES ASSUME NEW q \in Run, Made(q)'
                PROVE  /\ run'[q].cause[1] = 0 => run'[q].cause[2] <= events'
                       /\ \A p \in Run : run'[q].cause[1] = p =>
                            /\ Made(p)'
                            /\ run'[q].cause[2] <= run'[p].attempt
                            /\ run'[q].cause[2] = run'[p].attempt =>
                                 run'[p].pc \notin Early
    BY DEF Causes
  <2>1. Made(q)
    BY <1>2, <1>5 DEF Made
  <2>2. PICK c \in AnyCause : c = run[q].cause /\ c = run'[q].cause
    BY <1>0, <1>2, JobParts
  <2>3. /\ c[1] = 0 => c[2] <= events
        /\ \A p \in Run : c[1] = p =>
             /\ Made(p) /\ c[2] <= run[p].attempt
             /\ c[2] = run[p].attempt => run[p].pc \notin Early
    BY <2>1, <2>2 DEF Shapes, Causes
  <2>4. ASSUME NEW p \in Run, c[1] = p
        PROVE  /\ Made(p)' /\ c[2] <= run'[p].attempt
               /\ c[2] = run'[p].attempt => run'[p].pc \notin Early
    <3>1. /\ Made(p) /\ c[2] <= run[p].attempt
          /\ c[2] = run[p].attempt => run[p].pc \notin Early
      BY <2>3, <2>4
    <3>2. Made(p)'
      BY <1>2, <1>5, <3>1 DEF Made
    <3>3. CASE p # r
      BY <1>2, <3>1, <3>2, <3>3
    <3>4. CASE p = r /\ run'[r].attempt = run[r].attempt
      BY <1>5, <3>1, <3>2, <3>4
    <3>5. CASE p = r /\ run'[r].attempt = run[r].attempt + 1
      <4>1. c[2] \in Nat /\ run[r].attempt \in Nat
        <5>1. c[2] \in Nat
          BY Constants DEF AnyCause, Cause, RowId
        <5>. QED BY <1>0, <5>1, JobParts
      <4>. QED BY <3>1, <3>2, <3>5, <4>1
    <3>. QED BY <1>4, <3>3, <3>4, <3>5
  <2>. QED BY <1>3, <2>2, <2>3, <2>4
<1>11. Dated'
  <2>1. \A i \in RowId : record[i].at <= now /\ record[i].at \in Nat
    BY <1>0 DEF Shapes, Dated, Row
  <2>2. \A i \in RowId : record'[i].at \in Nat
    BY <1>1 DEF RowsMove, Row
  <2>3. now' \in {now, now + 1}
    BY <1>1 DEF RowsMove
  <2>4. \A i \in RowId : record'[i].at <= record[i].at \/ record'[i].at <= now'
    BY <1>1 DEF RowsMove
  <2>. QED BY <1>0, <2>1, <2>2, <2>3, <2>4 DEF Dated
<1>. QED BY <1>6, <1>7, <1>8, <1>9, <1>10, <1>11 DEF Shapes

\* The runs that were handed out go on, at most past the emit of their body.
Kept(k) ==
    \A q \in Run : q \notin New(k) =>
        /\ run'[q].strategy = run[q].strategy /\ run'[q].cause = run[q].cause
        /\ run'[q].engine = run[q].engine /\ run'[q].attempt = run[q].attempt
        /\ \/ run'[q].pc = run[q].pc
           \/ run[q].pc = "body" /\ run'[q].pc \in {"await", "ended"}

\* An event that a run may be handed out for.
Emitted(c) ==
    /\ c[1] = 0 => c[2] <= events'
    /\ \A q \in Run : c[1] = q =>
         /\ Made(q) /\ c[2] <= run[q].attempt
         /\ c[2] = run[q].attempt => run'[q].pc \notin Early

\* A step that hands out jobs.
Adds(g, c, routes, k) ==
    /\ mode[g] # "down" /\ Grants(g, c, routes, k) /\ Kept(k) /\ Emitted(c)
    /\ events' \in 0..MaxEvents /\ events <= events'
    /\ boot' \in [Engine -> Boot]
    /\ \A h \in Engine : /\ boot'[h].todo = boot[h].todo
                         /\ boot'[h].taken \subseteq boot[h].taken

\* A run that was handed out is not handed out again.
LEMMA OldRuns ==
    ASSUME Shapes, NEW k \in Nat, NEW q \in Run
    PROVE  /\ Made(q) => q \notin New(k)
           /\ Live(q) => Made(q)
           /\ Live(q)' => Made(q)'
<1>1. Made(q) => q <= issued
  BY DEF Shapes, Issued
<1>2. Made(q) => q \notin New(k)
  <2>1. q \in Nat /\ issued \in Nat
    BY Parts, Constants DEF Run
  <2>. QED BY <1>1, <2>1 DEF New
<1>3. (Live(q) => Made(q)) /\ (Live(q)' => Made(q)')
  BY LiveOf DEF Made
<1>. QED BY <1>2, <1>3

\* Handing out jobs keeps the shapes.
LEMMA AddsKeep ==
    ASSUME Shapes, NEW g \in Engine, NEW c \in AnyCause,
           NEW routes \in Seq(Strategy), NEW k \in 0..Len(routes),
           Adds(g, c, routes, k)
    PROVE  Shapes'
<1>0. /\ run \in [Run -> Job] /\ record \in [RowId -> Row]
      /\ issued \in 0..MaxRuns /\ events \in 0..MaxEvents
      /\ active \in [Engine -> Nat] /\ now \in Nat /\ faults \in Nat
      /\ \A q \in Run : run[q].attempt \in 0..MaxRetries
      /\ k \in Nat
  BY Parts
<1>1. /\ run' \in [Run -> Job]
      /\ \A q \in Run : q \in New(k) =>
           /\ run'[q].pc = "queued" /\ run'[q].strategy = routes[q - issued]
           /\ run'[q].cause = c /\ run'[q].engine = g /\ run'[q].attempt = 0
      /\ New(k) \subseteq Run
      /\ issued' = issued + k
      /\ active' = [active EXCEPT ![g] = @ + k]
      /\ stopping' = stopping /\ record' = record /\ now' = now
      /\ locked' = locked /\ mode' = mode
      /\ crashes' = crashes /\ faults' \in {faults, faults + 1}
  BY DEF Adds, Grants
<1>2. \A q \in Run : q \notin New(k) =>
        /\ run'[q].strategy = run[q].strategy /\ run'[q].cause = run[q].cause
        /\ run'[q].engine = run[q].engine /\ run'[q].attempt = run[q].attempt
        /\ \/ run'[q].pc = run[q].pc
           \/ run[q].pc = "body" /\ run'[q].pc \in {"await", "ended"}
  BY DEF Adds, Kept
<1>3. /\ mode[g] # "down" /\ Emitted(c)
      /\ events' \in 0..MaxEvents /\ events <= events'
      /\ boot' \in [Engine -> Boot]
      /\ \A h \in Engine : /\ boot'[h].todo = boot[h].todo
                           /\ boot'[h].taken \subseteq boot[h].taken
  BY DEF Adds
<1>4. \A q \in Run : /\ Made(q) => q \notin New(k)
                     /\ Live(q) => Made(q)
                     /\ Live(q)' => Made(q)'
  BY <1>0, OldRuns
<1>5. issued + k \in 0..MaxRuns
  <2>1. CASE k = 0
    BY <1>0, <2>1
  <2>2. CASE k # 0
    <3>1. issued + k \in New(k)
      BY <1>0, <2>2 DEF New
    <3>. QED BY <1>0, <1>1, <3>1, Constants DEF Run
  <2>. QED BY <2>1, <2>2
<1>6. TypeOK'
  <2>1. \A q \in Run : run'[q].attempt \in 0..MaxRetries
    BY SMTT(30), <1>0, <1>1, <1>2, Constants
  <2>2. active' \in [Engine -> Nat]
    BY <1>0, <1>1
  <2>3. /\ record' \in [RowId -> [status : Status, at : Nat]]
        /\ now' \in Nat /\ faults' \in Nat
    BY <1>0, <1>1 DEF Row
  <2>4. /\ locked' \subseteq Engine /\ mode' \in [Engine -> Mode]
        /\ stopping' \in [Engine -> Stopping] /\ crashes' \in Nat
    BY <1>1 DEF Shapes, TypeOK
  <2>5. boot' \in [Engine -> [todo : SUBSET RowId, taken : SUBSET RowId]]
    BY <1>3 DEF Boot
  <2>. QED BY <1>1, <1>3, <1>5, <2>1, <2>2, <2>3, <2>4, <2>5 DEF TypeOK
<1>7. Lock'
  BY <1>1, <1>3 DEF Shapes, Lock
<1>8. Owned'
  <2>. SUFFICES ASSUME NEW q \in Run, Live(q)'
                PROVE  mode'[run'[q].engine] # "down"
    BY DEF Owned
  <2>1. CASE q \in New(k)
    BY <1>1, <1>3, <2>1
  <2>2. CASE q \notin New(k)
    <3>1. Live(q)
      BY <1>2, <2>2, LiveOf
    <3>. QED BY <1>1, <1>2, <2>2, <3>1 DEF Shapes, Owned
  <2>. QED BY <2>1, <2>2
<1>9. Issued'
  <2>. SUFFICES ASSUME NEW q \in Run
                PROVE  /\ Made(q)' => q <= issued'
                       /\ run'[q].pc = "backoff" =>
                            run'[q].attempt < MaxRetries
    BY DEF Issued
  <2>1. CASE q \in New(k)
    BY <1>0, <1>1, <2>1 DEF New
  <2>2. CASE q \notin New(k)
    <3>1. /\ Made(q) => q <= issued
          /\ run[q].pc = "backoff" => run[q].attempt < MaxRetries
      BY DEF Shapes, Issued
    <3>2. Made(q)' => Made(q)
      BY <1>2, <2>2 DEF Made
    <3>3. q <= issued => q <= issued'
      BY <1>0, <1>1 DEF Run
    <3>. QED BY <1>2, <2>2, <3>1, <3>2, <3>3
  <2>. QED BY <2>1, <2>2
<1>10. Causes'
  <2>0. ASSUME NEW p \in Run, Made(p)
        PROVE  /\ Made(p)' /\ run'[p].attempt = run[p].attempt
               /\ run[p].pc \notin Early => run'[p].pc \notin Early
    <3>1. p \notin New(k)
      BY <1>4, <2>0
    <3>. QED BY <1>2, <2>0, <3>1 DEF Made, Early
  <2>. SUFFICES ASSUME NEW q \in Run, Made(q)'
                PROVE  /\ run'[q].cause[1] = 0 => run'[q].cause[2] <= events'
                       /\ \A p \in Run : run'[q].cause[1] = p =>
                            /\ Made(p)'
                            /\ run'[q].cause[2] <= run'[p].attempt
                            /\ run'[q].cause[2] = run'[p].attempt =>
                                 run'[p].pc \notin Early
    BY DEF Causes
  <2>1. CASE q \in New(k)
    <3>1. run'[q].cause = c
      BY <1>1, <2>1
    <3>. QED BY <1>3, <2>0, <3>1 DEF Emitted
  <2>2. CASE q \notin New(k)
    <3>1. Made(q)
      BY <1>2, <2>2 DEF Made
    <3>2. PICK d \in AnyCause : d = run[q].cause /\ d = run'[q].cause
      BY <1>0, <1>2, <2>2, JobParts
    <3>3. /\ d[1] = 0 => d[2] <= events
          /\ \A p \in Run : d[1] = p =>
               /\ Made(p) /\ d[2] <= run[p].attempt
               /\ d[2] = run[p].attempt => run[p].pc \notin Early
      BY <3>1, <3>2 DEF Shapes, Causes
    <3>4. d[2] \in Int
      BY Constants DEF AnyCause, Cause, RowId
    <3>5. d[1] = 0 => d[2] <= events'
      BY <1>0, <1>3, <3>3, <3>4
    <3>. QED BY <2>0, <3>2, <3>3, <3>5
  <2>. QED BY <2>1, <2>2
<1>11. Dated'
  BY <1>1 DEF Shapes, Dated
<1>. QED BY <1>6, <1>7, <1>8, <1>9, <1>10, <1>11 DEF Shapes

\* An event of a pipeline hands out jobs.
LEMMA EmitAdds ==
    ASSUME Shapes, NEW g \in Engine, Emit(g)
    PROVE  \E c \in AnyCause : \E k \in 0..Len(Routes) :
             /\ Adds(g, c, Routes, k)
             /\ c[1] = 0 /\ c[2] = events + 1
             /\ boot' = boot
             /\ \A q \in Run : q \notin New(k) => run'[q] = run[q]
<1>0. TypeOK /\ events \in 0..MaxEvents /\ boot \in [Engine -> Boot]
  BY Parts DEF Shapes
<1>1. /\ mode[g] = "up" /\ events' = events + 1 /\ events < MaxEvents
      /\ <<0, events + 1>> \in AnyCause
      /\ boot' = boot
  BY <1>0, EmitShape
<1>2. PICK c \in AnyCause : c = <<0, events + 1>>
  BY <1>1
<1>3. PICK k \in 0..Len(Routes) :
        /\ Grants(g, c, Routes, k)
        /\ \A q \in Run : q \notin New(k) => run'[q] = run[q]
  BY <1>0, <1>2, EmitShape
<1>4. Kept(k)
  BY <1>3 DEF Kept
<1>5. c[1] = 0 /\ c[2] = events + 1
  BY <1>2
<1>6. Emitted(c)
  BY <1>0, <1>1, <1>5, Constants DEF Emitted, Run
<1>7. events' \in 0..MaxEvents /\ events <= events'
  BY <1>0, <1>1, Constants
<1>8. Adds(g, c, Routes, k)
  BY <1>0, <1>1, <1>3, <1>4, <1>6, <1>7 DEF Adds
<1>. QED BY <1>1, <1>3, <1>5, <1>8

\* So does the event of a strategy that waits.
LEMMA BodyEmitsAdds ==
    ASSUME Shapes, NEW r \in Run, BodyEmits(r)
    PROVE  /\ run[r].pc = "body" /\ run'[r].pc \in {"await", "ended"}
           /\ boot' = boot /\ events' = events
           /\ \E c \in AnyCause : \E k \in 0..Len(ChildRoutes) :
                /\ Adds(run[r].engine, c, ChildRoutes, k)
                /\ c[1] = r /\ c[2] = run[r].attempt /\ r \notin New(k)
                /\ \A q \in Run : q \notin New(k) /\ q # r => run'[q] = run[q]
<1>0. /\ TypeOK /\ Issued /\ events \in 0..MaxEvents
      /\ boot \in [Engine -> Boot] /\ run \in [Run -> Job]
  BY Parts DEF Shapes
<1>1. /\ run[r].pc = "body" /\ events' = events /\ boot' = boot
      /\ Attempt(r) \in AnyCause
      /\ run'[r].pc \in {"await", "ended"}
      /\ run'[r].attempt = run[r].attempt
      /\ run'[r].strategy = run[r].strategy
      /\ run'[r].cause = run[r].cause
      /\ run'[r].engine = run[r].engine
  BY <1>0, BodyEmitsShape
<1>2. PICK c \in AnyCause : c = Attempt(r)
  BY <1>1
<1>3. PICK k \in 0..Len(ChildRoutes) :
        /\ Grants(run[r].engine, c, ChildRoutes, k)
        /\ \A q \in Run : q \notin New(k) /\ q # r => run'[q] = run[q]
        /\ r \notin New(k)
  BY <1>0, <1>2, BodyEmitsShape
<1>4. Kept(k)
  BY <1>1, <1>3 DEF Kept
<1>5. c[1] = r /\ c[2] = run[r].attempt
  BY <1>2 DEF Attempt
<1>6. Emitted(c)
  <2>1. c[1] # 0 /\ run[r].attempt \in Nat /\ Made(r)
    BY <1>0, <1>1, <1>5, JobParts DEF Run, Made
  <2>2. run'[r].pc \notin Early
    BY <1>1 DEF Early
  <2>. QED BY <1>5, <2>1, <2>2 DEF Emitted
<1>7. mode[run[r].engine] # "down"
  <2>1. Live(r)
    BY <1>1, LiveOf
  <2>. QED BY <2>1 DEF Shapes, Owned
<1>8. Adds(run[r].engine, c, ChildRoutes, k)
  BY <1>0, <1>1, <1>3, <1>4, <1>6, <1>7 DEF Adds
<1>. QED BY <1>1, <1>3, <1>5, <1>8

\* So does the recovery of a row.
LEMMA RequeueAdds ==
    ASSUME Shapes, Claimed, NEW g \in Engine, NEW i \in boot[g].taken,
           Requeue(g, i)
    PROVE  /\ i \in RowId /\ i[1] \in Run /\ Made(i[1]) /\ LetGo(g)
           /\ Adds(g, run[i[1]].cause, <<run[i[1]].strategy>>, 1)
           /\ \A q \in Run : q \notin New(1) => run'[q] = run[q]
<1>0. /\ TypeOK /\ events \in 0..MaxEvents /\ run \in [Run -> Job]
      /\ boot \in [Engine -> Boot]
  BY Parts DEF Shapes
<1>1. /\ i \in RowId /\ i[1] \in Run /\ LetGo(g) /\ events' = events
      /\ Grants(g, run[i[1]].cause, <<run[i[1]].strategy>>, 1)
      /\ \A q \in Run : q \notin New(1) => run'[q] = run[q]
  BY <1>0, RequeueShape
<1>2. Made(i[1])
  BY <1>1 DEF Claimed, Claims, InBoot
<1>3. Kept(1)
  BY <1>1 DEF Kept
<1>4. PICK c \in AnyCause : c = run[i[1]].cause
  BY <1>0, <1>1, JobParts
<1>5. Emitted(c)
  <2>1. /\ c[1] = 0 => c[2] <= events
        /\ \A q \in Run : c[1] = q =>
             /\ Made(q) /\ c[2] <= run[q].attempt
             /\ c[2] = run[q].attempt => run[q].pc \notin Early
    BY <1>1, <1>2, <1>4 DEF Shapes, Causes
  <2>2. \A q \in Run : Made(q) => run'[q] = run[q]
    <3>1. \A q \in Run : Made(q) => q \notin New(1)
      BY OldRuns
    <3>. QED BY <1>1, <3>1
  <2>. QED BY <1>1, <2>1, <2>2 DEF Emitted
<1>6. mode[g] # "down"
  BY DEF Shapes, Lock
<1>7. /\ boot' \in [Engine -> Boot]
      /\ \A h \in Engine : /\ boot'[h].todo = boot[h].todo
                           /\ boot'[h].taken \subseteq boot[h].taken
  BY <1>1 DEF LetGo
<1>8. Adds(g, run[i[1]].cause, <<run[i[1]].strategy>>, 1)
  <2>1. events' \in 0..MaxEvents /\ events <= events'
    BY <1>0, <1>1, Constants
  <2>. QED BY <1>1, <1>3, <1>4, <1>5, <1>6, <1>7, <2>1 DEF Adds
<1>. QED BY <1>1, <1>2, <1>8

\* The same with the event, the strategy and the number of jobs named.
LEMMA RequeueGrants ==
    ASSUME Shapes, Claimed, NEW g \in Engine, NEW i \in boot[g].taken,
           Requeue(g, i)
    PROVE  \E c \in AnyCause : \E s \in Strategy : \E routes \in Seq(Strategy) :
             \E k \in 0..Len(routes) :
               /\ c = run[i[1]].cause /\ s = run[i[1]].strategy
               /\ routes = <<s>> /\ k = 1
               /\ Adds(g, c, routes, k)
<1>1. /\ i[1] \in Run /\ Adds(g, run[i[1]].cause, <<run[i[1]].strategy>>, 1)
  BY RequeueAdds
<1>2. PICK c \in AnyCause, s \in Strategy :
        c = run[i[1]].cause /\ s = run[i[1]].strategy
  BY <1>1, Parts, JobParts
<1>3. PICK routes \in Seq(Strategy) : routes = <<s>>
  <2>1. <<s>> \in Seq(Strategy)
    OBVIOUS
  <2>. QED BY <2>1
<1>4. PICK k \in 0..Len(routes) : k = 1
  BY <1>3
<1>5. Adds(g, c, routes, k)
  BY <1>1, <1>2, <1>3, <1>4
<1>. QED BY <1>2, <1>3, <1>4, <1>5

\* The start of an engine keeps the shapes.
LEMMA StartKeeps ==
    ASSUME Shapes, NEW g \in Engine, Start(g)
    PROVE  Shapes'
<1>0. TypeOK
  BY DEF Shapes
<1>1. /\ mode[g] = "down" /\ locked = {} /\ locked' = {g}
      /\ boot' \in [Engine -> Boot]
      /\ \A h \in Engine : h # g => boot'[h] = boot[h]
      /\ \/ g \in Recovers /\ mode' = [mode EXCEPT ![g] = "recovering"]
         \/ mode' = [mode EXCEPT ![g] = "up"] /\ boot' = boot
      /\ run' = run /\ issued' = issued /\ events' = events
      /\ Aside
  BY <1>0, StartShape
<1>2. /\ active' = active /\ stopping' = stopping /\ record' = record
      /\ now' = now /\ crashes' = crashes /\ faults' = faults
  BY <1>1 DEF Aside
<1>3. mode \in [Engine -> Mode]
  BY Parts
<1>4. \A h \in Engine : mode[h] = "down"
  BY <1>1 DEF Shapes, Lock
<1>5. TypeOK'
  <2>1. mode' \in [Engine -> Mode]
    BY <1>1, <1>3 DEF Mode
  <2>2. boot' \in [Engine -> [todo : SUBSET RowId, taken : SUBSET RowId]]
    BY <1>1 DEF Boot
  <2>. QED BY <1>0, <1>1, <1>2, <2>1, <2>2 DEF TypeOK
<1>6. Lock'
  <2>. SUFFICES ASSUME NEW h \in Engine
                PROVE  /\ mode'[h] # "down" => locked' = {h}
                       /\ mode'[h] # "recovering" =>
                            boot'[h].todo = {} /\ boot'[h].taken = {}
                       /\ mode'[h] = "recovering" => h \in Recovers
    BY DEF Lock
  <2>1. boot[h].todo = {} /\ boot[h].taken = {}
    BY <1>4 DEF Shapes, Lock
  <2>2. CASE h = g
    BY <1>1, <1>3, <2>1, <2>2
  <2>3. CASE h # g
    BY <1>1, <1>3, <1>4, <2>1, <2>3
  <2>. QED BY <2>2, <2>3
<1>7. Owned'
  <2>1. \A q \in Run : ~Live(q)
    BY <1>4, Parts, JobParts DEF Shapes, Owned
  <2>2. \A q \in Run : ~Live(q)'
    BY <1>1, <2>1, LiveOf
  <2>. QED BY <2>2 DEF Owned
<1>8. Issued'
  BY <1>1 DEF Shapes, Issued, Made
<1>9. Causes'
  BY <1>1 DEF Shapes, Causes, Made
<1>10. Dated'
  BY <1>2 DEF Shapes, Dated
<1>. QED BY <1>5, <1>6, <1>7, <1>8, <1>9, <1>10 DEF Shapes

\* The mark of a row keeps the shapes.
LEMMA MarkCrashedKeeps ==
    ASSUME Shapes, NEW g \in Engine, NEW i \in boot[g].todo, MarkCrashed(g, i)
    PROVE  Shapes'
<1>0. TypeOK
  BY DEF Shapes
<1>1. /\ i \in RowId /\ boot[g].taken = {}
      /\ boot' \in [Engine -> Boot]
      /\ \A h \in Engine : h # g => boot'[h] = boot[h]
      /\ record' \in [RowId -> Row]
      /\ \A j \in RowId : j # i => record'[j] = record[j]
      /\ record'[i].at = record[i].at
      /\ locked' = locked /\ mode' = mode /\ run' = run
      /\ issued' = issued /\ events' = events
      /\ active' = active /\ stopping' = stopping
      /\ now' = now /\ crashes' = crashes /\ faults' = faults
  BY <1>0, MarkCrashedShape
<1>2. TypeOK'
  <2>1. /\ boot' \in [Engine -> [todo : SUBSET RowId, taken : SUBSET RowId]]
        /\ record' \in [RowId -> [status : Status, at : Nat]]
    BY <1>1 DEF Boot, Row
  <2>. QED BY <1>0, <1>1, <2>1 DEF TypeOK
<1>3. Lock'
  <2>. SUFFICES ASSUME NEW h \in Engine
                PROVE  /\ mode[h] # "down" => locked = {h}
                       /\ mode[h] # "recovering" =>
                            boot'[h].todo = {} /\ boot'[h].taken = {}
                       /\ mode[h] = "recovering" => h \in Recovers
    BY <1>1 DEF Lock
  <2>1. mode[g] = "recovering"
    BY DEF Shapes, Lock
  <2>. QED BY <1>1, <2>1 DEF Shapes, Lock
<1>4. Owned'
  BY <1>1, LiveOf DEF Shapes, Owned
<1>5. Issued'
  BY <1>1 DEF Shapes, Issued, Made
<1>6. Causes'
  BY <1>1 DEF Shapes, Causes, Made
<1>7. Dated'
  BY <1>1 DEF Shapes, Dated
<1>. QED BY <1>2, <1>3, <1>4, <1>5, <1>6, <1>7 DEF Shapes

\* The end of an engine keeps the shapes.
LEMMA FallKeeps ==
    ASSUME Shapes, NEW g \in Engine, Falls(g),
           crashes' \in {crashes, crashes + 1}
    PROVE  Shapes'
<1>0. TypeOK /\ run \in [Run -> Job] /\ mode \in [Engine -> Mode]
  BY Parts DEF Shapes
<1>1. /\ run' \in [Run -> Job]
      /\ \A q \in Run :
           /\ run'[q].cause = run[q].cause
           /\ run'[q].engine = run[q].engine
           /\ run'[q].attempt = run[q].attempt
           /\ IF run[q].engine = g /\ Live(q)
              THEN run'[q].pc \in {"orphan", "lost"}
              ELSE run'[q] = run[q]
      /\ locked' = locked \ {g}
      /\ mode' = [mode EXCEPT ![g] = "down"]
      /\ boot' \in [Engine -> Boot]
      /\ \A h \in Engine : h # g => boot'[h] = boot[h]
      /\ boot'[g].todo = {} /\ boot'[g].taken = {}
      /\ active' = [active EXCEPT ![g] = 0]
      /\ stopping' = [stopping EXCEPT ![g] = "no"]
      /\ issued' = issued /\ events' = events /\ record' = record
      /\ now' = now /\ faults' = faults
  BY DEF Falls
<1>2. TypeOK'
  <2>1. active' \in [Engine -> Nat] /\ stopping' \in [Engine -> Stopping]
    BY <1>0, <1>1 DEF TypeOK, Stopping
  <2>2. mode' \in [Engine -> Mode]
    BY <1>0, <1>1 DEF Mode
  <2>3. boot' \in [Engine -> [todo : SUBSET RowId, taken : SUBSET RowId]]
    BY <1>1 DEF Boot
  <2>4. crashes' \in Nat /\ locked' \subseteq Engine
    BY <1>0, <1>1 DEF TypeOK
  <2>5. \A q \in Run : run'[q].attempt \in 0..MaxRetries
    BY <1>1, Parts
  <2>. QED BY <1>0, <1>1, <2>1, <2>2, <2>3, <2>4, <2>5 DEF TypeOK
<1>3. Lock'
  <2>. SUFFICES ASSUME NEW h \in Engine
                PROVE  /\ mode'[h] # "down" => locked' = {h}
                       /\ mode'[h] # "recovering" =>
                            boot'[h].todo = {} /\ boot'[h].taken = {}
                       /\ mode'[h] = "recovering" => h \in Recovers
    BY DEF Lock
  <2>1. CASE h = g
    BY <1>0, <1>1, <2>1
  <2>2. CASE h # g
    BY <1>0, <1>1, <2>2 DEF Shapes, Lock
  <2>. QED BY <2>1, <2>2
<1>4. Owned'
  <2>. SUFFICES ASSUME NEW q \in Run, Live(q)'
                PROVE  mode'[run'[q].engine] # "down"
    BY DEF Owned
  <2>1. ~(run[q].engine = g /\ Live(q))
    BY <1>1, LiveOf
  <2>2. run'[q] = run[q]
    BY <1>1, <2>1
  <2>3. Live(q) /\ run[q].engine # g
    BY <2>1, <2>2, LiveOf
  <2>. QED BY <1>0, <1>1, <2>2, <2>3, JobParts DEF Shapes, Owned
<1>5. \A q \in Run :
        /\ Made(q) => Made(q)'
        /\ Made(q)' => Made(q)
        /\ run[q].pc \notin Early => run'[q].pc \notin Early
        /\ run'[q].pc = "backoff" => run[q].pc = "backoff"
  BY <1>1, LiveOf DEF Made, Early
<1>6. Issued'
  BY <1>1, <1>5 DEF Shapes, Issued
<1>7. Causes'
  <2>. SUFFICES ASSUME NEW q \in Run, Made(q)'
                PROVE  /\ run'[q].cause[1] = 0 => run'[q].cause[2] <= events'
                       /\ \A p \in Run : run'[q].cause[1] = p =>
                            /\ Made(p)'
                            /\ run'[q].cause[2] <= run'[p].attempt
                            /\ run'[q].cause[2] = run'[p].attempt =>
                                 run'[p].pc \notin Early
    BY DEF Causes
  <2>1. /\ run[q].cause[1] = 0 => run[q].cause[2] <= events
        /\ \A p \in Run : run[q].cause[1] = p =>
             /\ Made(p) /\ run[q].cause[2] <= run[p].attempt
             /\ run[q].cause[2] = run[p].attempt => run[p].pc \notin Early
    BY <1>5 DEF Shapes, Causes
  <2>. QED BY <1>1, <1>5, <2>1
<1>8. Dated'
  BY <1>1 DEF Shapes, Dated
<1>. QED BY <1>2, <1>3, <1>4, <1>6, <1>7, <1>8 DEF Shapes

\* What leaves runs and rows alone keeps the shapes.
LEMMA RestKeeps ==
    ASSUME Shapes, Rests
    PROVE  Shapes'
<1>0. TypeOK /\ run \in [Run -> Job] /\ mode \in [Engine -> Mode]
  BY Parts DEF Shapes
<1>1. /\ run' = run /\ locked' = locked /\ issued' = issued
      /\ events' = events /\ active' = active /\ record' = record
      /\ now' = now
      /\ boot' \in [Engine -> Boot]
      /\ \A h \in Engine : /\ boot'[h].todo = boot[h].todo
                           /\ boot'[h].taken \subseteq boot[h].taken
      /\ mode' \in [Engine -> Mode]
      /\ \A h \in Engine :
           \/ mode'[h] = mode[h]
           \/ mode[h] = "recovering" /\ mode'[h] = "up" /\ Recovered(h)
      /\ stopping' \in [Engine -> Stopping]
      /\ crashes' = crashes /\ faults' \in {faults, faults + 1}
  BY DEF Rests
<1>2. TypeOK'
  <2>1. boot' \in [Engine -> [todo : SUBSET RowId, taken : SUBSET RowId]]
    BY <1>1 DEF Boot
  <2>2. faults' \in Nat
    BY <1>1, Parts
  <2>. QED BY <1>0, <1>1, <2>1, <2>2 DEF TypeOK
<1>3. Lock'
  <2>. SUFFICES ASSUME NEW h \in Engine
                PROVE  /\ mode'[h] # "down" => locked' = {h}
                       /\ mode'[h] # "recovering" =>
                            boot'[h].todo = {} /\ boot'[h].taken = {}
                       /\ mode'[h] = "recovering" => h \in Recovers
    BY DEF Lock
  <2>1. CASE mode'[h] = mode[h]
    BY <1>1, <2>1 DEF Shapes, Lock
  <2>2. CASE mode[h] = "recovering" /\ mode'[h] = "up" /\ Recovered(h)
    <3>1. boot[h].todo = {} /\ boot[h].taken = {}
      BY <2>2 DEF Recovered
    <3>. QED BY <1>1, <2>2, <3>1 DEF Shapes, Lock
  <2>. QED BY <1>1, <2>1, <2>2
<1>4. Owned'
  <2>1. \A h \in Engine : mode[h] # "down" => mode'[h] # "down"
    BY <1>1
  <2>2. \A q \in Run : run[q].engine \in Engine
    BY <1>0, JobParts
  <2>. QED BY <1>1, <2>1, <2>2, LiveOf DEF Shapes, Owned
<1>5. Issued'
  BY <1>1 DEF Shapes, Issued, Made
<1>6. Causes'
  BY <1>1 DEF Shapes, Causes, Made
<1>7. Dated'
  BY <1>1 DEF Shapes, Dated
<1>. QED BY <1>2, <1>3, <1>4, <1>5, <1>6, <1>7 DEF Shapes

-----------------------------------------------------------------------------
(* One run and one row of a task at a time.                                *)

\* The attempt whose row a step writes.
Starts(i) ==
    /\ i = Attempt(i[1])
    /\ run[i[1]].pc = "starting" /\ run'[i[1]].pc = "body"
    /\ run'[i[1]].attempt = run[i[1]].attempt

\* No row of the attempt can be resumed after the step.
Freed(q) == \A i \in RowId : i = Attempt(q) => ~Claims(i)'

\* What a step does to a run that was handed out: a dead one stays dead, a
\* result comes with the row written, and the row that is written is the
\* one of the attempt until it is no longer RUNNING.
Serves(q) ==
    /\ run'[q].strategy = run[q].strategy /\ run'[q].cause = run[q].cause
    /\ run'[q].pc # "unused"
    /\ Live(q)' => Live(q)
    /\ Over(q)' => Over(q) \/ (Live(q) /\ Freed(q))
    /\ Live(q)' /\ run[q].pc \in Begun =>
         \/ run'[q].attempt = run[q].attempt /\ run'[q].pc \in Begun
         \/ Freed(q)

\* What a step does to the rows that can be resumed.
Holds(i) ==
    /\ Claims(i)' => Claims(i) \/ Starts(i)
    /\ InBoot(i)' => Claims(i) /\ (InBoot(i) \/ \A q \in Run : ~Live(q)')

\* Run q is handed out: every other run of its task was lost.
Opens(q) ==
    /\ run'[q].pc = "queued"
    /\ \A p \in Run : p # q /\ Made(p)' /\ Same(p, q)' =>
         /\ Made(p) /\ ~Live(p)' /\ ~Over(p)'
         /\ \A i \in RowId : i[1] = p => ~Claims(i)'

\* Every step does that.
Serving ==
    /\ \A q \in Run : Made(q) => Serves(q)
    /\ \A i \in RowId : Holds(i)
    /\ \A q \in Run : ~Made(q) /\ Made(q)' => Opens(q)

\* A run that was handed out has a row of its attempt; tasks do not change.
LEMMA SameKept ==
    ASSUME NEW p \in Run, NEW q \in Run,
           run'[p].strategy = run[p].strategy, run'[p].cause = run[p].cause,
           run'[q].strategy = run[q].strategy, run'[q].cause = run[q].cause
    PROVE  Same(p, q)' <=> Same(p, q)
BY DEF Same

\* Sameness of tasks is symmetric.
LEMMA SameSym == ASSUME NEW p, NEW q PROVE /\ Same(p, q) <=> Same(q, p)
                                           /\ Same(p, q)' <=> Same(q, p)'
                                           /\ Same(p, p)
BY DEF Same

\* The engine keeps one run and one row of a task.
LEMMA TokensKept ==
    ASSUME Shapes, Tokens, Serving
    PROVE  Tokens'
<1>1. /\ \A q \in Run : Made(q) => Serves(q)
      /\ \A i \in RowId : Holds(i)
      /\ \A q \in Run : ~Made(q) /\ Made(q)' => Opens(q)
  BY DEF Serving
<1>2. \A q \in Run : /\ Live(q) => Made(q)
                     /\ Live(q)' => Made(q)'
                     /\ Over(q)' => Made(q)'
                     /\ Over(q)' => ~Live(q)'
                     /\ run[q].pc = "starting" => Live(q)
  BY LiveOf DEF Over, Made
<1>3. \A i \in RowId : i[1] \in Run
  BY DEF RowId
<1>4. \A p, q \in Run : Live(p) /\ Live(q) /\ Same(p, q) => p = q
  BY DEF Tokens, OneRunPerTask, Same
<1>5. \A i \in RowId : Claims(i) => Made(i[1])
  BY DEF Tokens, Claimed
<1>6. \A i \in RowId : Claims(i)' =>
        /\ Made(i[1]) /\ Serves(i[1])
        /\ \/ Claims(i)
           \/ Starts(i) /\ Live(i[1]) /\ run[i[1]].pc \notin Begun
  <2>. SUFFICES ASSUME NEW i \in RowId, Claims(i)'
                PROVE  /\ Made(i[1]) /\ Serves(i[1])
                       /\ \/ Claims(i)
                          \/ /\ Starts(i) /\ Live(i[1])
                             /\ run[i[1]].pc \notin Begun
    OBVIOUS
  <2>1. Claims(i) \/ Starts(i)
    BY <1>1 DEF Holds
  <2>2. CASE Claims(i)
    BY <1>1, <1>3, <1>5, <2>2
  <2>3. CASE Starts(i)
    <3>1. run[i[1]].pc = "starting"
      BY <2>3 DEF Starts
    <3>2. run[i[1]].pc \notin Begun
      BY <3>1 DEF Begun
    <3>. QED BY <1>1, <1>2, <1>3, <2>3, <3>1, <3>2
  <2>. QED BY <2>1, <2>2, <2>3
<1>7. \A p, q \in Run : Made(p) /\ Made(q) /\ Same(p, q)' => Same(p, q)
  BY <1>1, SameKept DEF Serves
<1>8. \A q \in Run, i \in RowId : Live(q) /\ Claims(i) /\ Same(q, i[1]) =>
        i = Attempt(q) /\ run[q].pc \in Begun /\ ~InBoot(i)
  BY DEF Tokens, LiveClaim
<1>9. \A q, r \in Run : Over(q) /\ Same(q, r) =>
        /\ ~Live(r)
        /\ \A i \in RowId : i[1] = r => ~Claims(i)
        /\ Over(r) => r = q
  BY DEF Tokens, Final
<1>10. \A q \in Run : Made(q) /\ Live(q)' => Live(q)
  BY <1>1 DEF Serves
<1>11. OneRunPerTask'
  <2>. SUFFICES ASSUME NEW p \in Run, NEW q \in Run, Live(p)', Live(q)',
                       Same(p, q)'
                PROVE  p = q
    BY DEF OneRunPerTask, Same
  <2>1. Made(p)' /\ Made(q)'
    BY <1>2
  <2>2. CASE Made(p) /\ Made(q)
    BY <1>4, <1>7, <1>10, <2>2
  <2>3. CASE ~Made(q)
    BY <1>1, <2>1, <2>3 DEF Opens
  <2>4. CASE ~Made(p)
    <3>1. Same(q, p)'
      BY SameSym
    <3>. QED BY <1>1, <2>1, <2>4, <3>1 DEF Opens
  <2>. QED BY <2>2, <2>3, <2>4
<1>12. Claimed'
  <2>1. \A i \in RowId : Claims(i)' => Made(i[1])'
    BY <1>3, <1>6 DEF Serves, Made
  <2>. QED BY <2>1 DEF Claimed
<1>13. OneClaim'
  <2>. SUFFICES ASSUME NEW i \in RowId, NEW j \in RowId, Claims(i)',
                       Claims(j)', Same(i[1], j[1])'
                PROVE  i = j
    BY DEF OneClaim
  <2>1. Same(i[1], j[1]) /\ Same(j[1], i[1])
    BY <1>3, <1>6, <1>7, SameSym
  <2>2. CASE Claims(i) /\ Claims(j)
    BY <2>1, <2>2 DEF Tokens, OneClaim
  <2>3. CASE ~Claims(i) /\ Claims(j)
    BY <1>3, <1>6, <1>8, <2>1, <2>3
  <2>4. CASE Claims(i) /\ ~Claims(j)
    BY <1>3, <1>6, <1>8, <2>1, <2>4
  <2>5. CASE ~Claims(i) /\ ~Claims(j)
    <3>1. /\ Starts(i) /\ Live(i[1])
          /\ Starts(j) /\ Live(j[1])
      BY <1>6, <2>5
    <3>2. i[1] = j[1]
      BY <1>3, <1>4, <2>1, <3>1
    <3>3. i = Attempt(i[1]) /\ j = Attempt(j[1])
      BY <3>1 DEF Starts
    <3>. QED BY <3>2, <3>3
  <2>. QED BY <2>2, <2>3, <2>4, <2>5
<1>14. LiveClaim'
  <2>. SUFFICES ASSUME NEW q \in Run, NEW i \in RowId, Live(q)', Claims(i)',
                       Same(q, i[1])'
                PROVE  i = <<q, run'[q].attempt>> /\ run'[q].pc \in Begun
                       /\ ~InBoot(i)'
    BY DEF LiveClaim, Attempt
  <2>1. Made(i[1]) /\ i[1] \in Run
    BY <1>3, <1>6
  <2>2. CASE ~Made(q)
    <3>1. Made(q)' /\ i[1] # q /\ Same(i[1], q)' /\ Made(i[1])'
      BY <1>1, <1>2, <2>1, <2>2, SameSym DEF Serves, Made
    <3>. QED BY <1>1, <2>1, <2>2, <3>1 DEF Opens
  <2>3. CASE Made(q) /\ Claims(i)
    <3>1. Live(q) /\ Same(q, i[1])
      BY <1>7, <1>10, <2>1, <2>3
    <3>2. i = Attempt(q) /\ run[q].pc \in Begun /\ ~InBoot(i)
      BY <1>8, <2>3, <3>1
    <3>3. ~Freed(q)
      BY <3>2 DEF Freed
    <3>4. run'[q].attempt = run[q].attempt /\ run'[q].pc \in Begun
      BY <1>1, <2>3, <3>2, <3>3 DEF Serves
    <3>5. ~InBoot(i)'
      BY <1>1, <3>2 DEF Holds
    <3>. QED BY <3>2, <3>4, <3>5 DEF Attempt
  <2>4. CASE Made(q) /\ ~Claims(i)
    <3>1. Live(q) /\ Same(q, i[1]) /\ Starts(i) /\ Live(i[1])
      BY <1>6, <1>7, <1>10, <2>1, <2>4
    <3>2. q = i[1]
      BY <1>4, <2>1, <3>1
    <3>3. ~InBoot(i)'
      BY <1>1, <2>4 DEF Holds
    <3>4. run'[q].pc = "body" /\ i = Attempt(q)
          /\ run'[q].attempt = run[q].attempt
      BY <3>1, <3>2 DEF Starts
    <3>. QED BY <3>3, <3>4 DEF Begun, Attempt
  <2>. QED BY <2>2, <2>3, <2>4
<1>15. Final'
  <2>. SUFFICES ASSUME NEW q \in Run, NEW r \in Run, Over(q)', Same(q, r)'
                PROVE  /\ ~Live(r)'
                       /\ \A i \in RowId : i[1] = r => ~Claims(i)'
                       /\ Over(r)' => r = q
    BY DEF Final
  <2>1. Made(q)' /\ ~Live(q)'
    BY <1>2
  <2>2. CASE ~Made(q)
    <3>1. run'[q].pc = "queued"
      BY <1>1, <2>1, <2>2 DEF Opens
    <3>. QED BY <3>1 DEF Over
  <2>3. CASE Made(q) /\ ~Made(r)
    <3>1. ~Made(r)'
      <4>1. SUFFICES ASSUME Made(r)' PROVE FALSE
        OBVIOUS
      <4>2. Opens(r)
        BY <1>1, <2>3, <4>1
      <4>3. q # r
        BY <2>3
      <4>. QED BY <2>1, <4>2, <4>3 DEF Opens
    <3>2. ~Live(r)' /\ ~Over(r)'
      BY <1>2, <3>1
    <3>3. \A i \in RowId : i[1] = r => ~Claims(i)'
      BY <1>6, <2>3
    <3>. QED BY <3>2, <3>3
  <2>4. CASE Made(q) /\ Made(r)
    <3>1. Same(q, r) /\ Serves(q) /\ Serves(r) /\ Same(r, q)
      BY <1>1, <1>7, <2>4, SameSym
    <3>2. CASE Over(q)
      <4>1. /\ ~Live(r)
            /\ \A i \in RowId : i[1] = r => ~Claims(i)
            /\ Over(r) => r = q
        BY <1>9, <3>1, <3>2
      <4>2. ~Live(r)'
        BY <1>10, <2>4, <4>1
      <4>3. \A i \in RowId : i[1] = r => ~Claims(i)'
        BY <1>6, <4>1
      <4>4. Over(r)' => r = q
        BY <3>1, <4>1 DEF Serves
      <4>. QED BY <4>2, <4>3, <4>4
    <3>3. CASE Live(q) /\ Freed(q)
      <4>1. ~Live(r)'
        BY <1>4, <1>10, <2>1, <2>4, <3>1, <3>3
      <4>2. Over(r)' => r = q
        BY <1>4, <1>9, <3>1, <3>3 DEF Serves
      <4>3. ASSUME NEW i \in RowId, i[1] = r, Claims(i)'
            PROVE  FALSE
        <5>1. CASE Claims(i)
          <6>1. i = Attempt(q)
            BY <1>8, <3>1, <3>3, <4>3, <5>1
          <6>. QED BY <3>3, <4>3, <6>1 DEF Freed
        <5>2. CASE ~Claims(i)
          <6>1. Starts(i) /\ Live(r)
            BY <1>6, <4>3, <5>2
          <6>2. r = q
            BY <1>4, <3>1, <3>3, <6>1
          <6>3. run'[q].pc = "body"
            BY <4>3, <6>1, <6>2 DEF Starts
          <6>. QED BY <6>3 DEF Over
        <5>. QED BY <5>1, <5>2
      <4>. QED BY <4>1, <4>2, <4>3
    <3>. QED BY <3>1, <3>2, <3>3 DEF Serves
  <2>. QED BY <2>2, <2>3, <2>4
<1>. QED BY <1>11, <1>12, <1>13, <1>14, <1>15 DEF Tokens

\* A row of a live run is not held by a recovery.
LEMMA LiveNotInBoot ==
    ASSUME Tokens, NEW r \in Run, Live(r), NEW i \in RowId, i[1] = r
    PROVE  ~InBoot(i) /\ (Claims(i) => i = Attempt(r) /\ run[r].pc \in Begun)
BY SameSym DEF Tokens, LiveClaim, Claims

\* A step of one run.
LEMMA TurnServes ==
    ASSUME Shapes, Tokens, NEW r \in Run, Turn(r)
    PROVE  Serving
<1>0. /\ run \in [Run -> Job] /\ TypeOK /\ Attempt(r) \in RowId
      /\ Attempt(r)[1] = r
  BY Parts, AttemptRow DEF Shapes
<1>1. /\ Advances(r) /\ Stay /\ Hops(r) /\ RowsMove(r)
  BY DEF Turn
<1>2. /\ \A q \in Run : q # r => run'[q] = run[q]
      /\ run'[r].strategy = run[r].strategy /\ run'[r].cause = run[r].cause
      /\ boot' = boot
  BY <1>1 DEF Advances, Stay
<1>3. \A i \in RowId : InBoot(i)' <=> InBoot(i)
  BY <1>2 DEF InBoot
<1>4. /\ \A i \in RowId : record'[i].status = "running" =>
           Running(i) \/ (i = Attempt(r) /\ run[r].pc = "starting"
                          /\ run'[r].pc = "body")
      /\ run[r].pc = "ended" /\ run'[r].pc # "lost" =>
           record'[Attempt(r)].status # "running"
  BY <1>1 DEF RowsMove
<1>5. run[r].pc = "ended" /\ run'[r].pc # "lost" => Freed(r)
  <2>. SUFFICES ASSUME run[r].pc = "ended", run'[r].pc # "lost"
                PROVE  Freed(r)
    OBVIOUS
  <2>1. Live(r)
    BY LiveOf
  <2>2. ~InBoot(Attempt(r))
    BY <1>0, <2>1, LiveNotInBoot
  <2>3. \A i \in RowId : i = Attempt(r) => ~InBoot(i)'
    BY <1>3, <2>2
  <2>4. \A i \in RowId : i = Attempt(r) => ~Running(i)'
    BY <1>4 DEF Running
  <2>. QED BY <2>3, <2>4 DEF Freed, Claims
<1>6. Serves(r)
  <2>1. run'[r].pc # "unused" /\ (Live(r)' => Live(r))
    BY <1>1, LiveOf DEF Hops, Leads
  <2>2. Over(r)' => Live(r) /\ Freed(r)
    BY <1>1, <1>5, LiveOf DEF Hops, Leads, Over
  <2>3. Live(r)' /\ run[r].pc \in Begun =>
          \/ run'[r].attempt = run[r].attempt /\ run'[r].pc \in Begun
          \/ Freed(r)
    BY <1>1, <1>5, LiveOf DEF Hops, Leads, Begun
  <2>. QED BY <1>2, <2>1, <2>2, <2>3 DEF Serves
<1>7. ASSUME NEW q \in Run, Made(q), q # r
      PROVE  Serves(q)
  <2>1. run'[q] = run[q]
    BY <1>2, <1>7
  <2>. QED BY <1>7, <2>1, LiveOf DEF Serves, Over, Made
<1>8. ASSUME NEW i \in RowId
      PROVE  Holds(i)
  <2>1. Claims(i)' => Claims(i) \/ Starts(i)
    <3>. SUFFICES ASSUME Claims(i)' PROVE Claims(i) \/ Starts(i)
      OBVIOUS
    <3>1. CASE InBoot(i)'
      BY <1>3, <3>1 DEF Claims
    <3>2. CASE record'[i].status = "running" /\ Running(i)
      BY <3>2 DEF Claims
    <3>3. CASE /\ i = Attempt(r) /\ run[r].pc = "starting"
               /\ run'[r].pc = "body"
      <4>1. run'[r].attempt = run[r].attempt
        BY <1>1, <3>3 DEF Hops, Leads
      <4>. QED BY <1>0, <3>3, <4>1 DEF Starts
    <3>. QED BY <1>4, <3>1, <3>2, <3>3 DEF Claims, Running
  <2>. QED BY <1>3, <2>1 DEF Holds, Claims
<1>9. Made(r)
  BY <1>1 DEF Hops, Leads, Made
<1>10. \A q \in Run : Made(q)' => Made(q)
  BY <1>2, <1>9 DEF Made
<1>. QED BY <1>6, <1>7, <1>8, <1>10 DEF Serving

\* Jobs that are handed out, when they open their tasks.
LEMMA AddsServe ==
    ASSUME Shapes, NEW g \in Engine, NEW c \in AnyCause,
           NEW routes \in Seq(Strategy), NEW k \in 0..Len(routes),
           Adds(g, c, routes, k), \A q \in New(k) : Opens(q)
    PROVE  Serving
<1>0. k \in Nat
  OBVIOUS
<1>1. /\ Kept(k) /\ record' = record
      /\ \A h \in Engine : /\ boot'[h].todo = boot[h].todo
                           /\ boot'[h].taken \subseteq boot[h].taken
  BY DEF Adds, Grants
<1>2. ASSUME NEW q \in Run, Made(q)
      PROVE  Serves(q)
  <2>1. q \notin New(k)
    BY <1>0, <1>2, OldRuns
  <2>2. /\ run'[q].strategy = run[q].strategy /\ run'[q].cause = run[q].cause
        /\ run'[q].attempt = run[q].attempt
        /\ \/ run'[q].pc = run[q].pc
           \/ run[q].pc = "body" /\ run'[q].pc \in {"await", "ended"}
    BY <1>1, <2>1 DEF Kept
  <2>3. (Live(q)' => Live(q)) /\ run'[q].pc # "unused"
    BY <1>2, <2>2, LiveOf DEF Made
  <2>4. Over(q)' => Over(q)
    BY <2>2 DEF Over
  <2>5. run[q].pc \in Begun => run'[q].pc \in Begun
    BY <2>2 DEF Begun
  <2>. QED BY <2>2, <2>3, <2>4, <2>5 DEF Serves
<1>3. ASSUME NEW i \in RowId
      PROVE  Holds(i)
  <2>1. InBoot(i)' => InBoot(i)
    BY <1>1 DEF InBoot
  <2>2. Running(i)' => Running(i)
    BY <1>1 DEF Running
  <2>. QED BY <2>1, <2>2 DEF Holds, Claims
<1>4. ASSUME NEW q \in Run, ~Made(q), Made(q)'
      PROVE  Opens(q)
  <2>1. q \in New(k)
    BY <1>1, <1>4 DEF Kept, Made
  <2>. QED BY <2>1
<1>. QED BY <1>2, <1>3, <1>4 DEF Serving

\* Two jobs of one event are of two strategies.
LEMMA NewDiffer ==
    ASSUME Shapes, NEW g \in Engine, NEW c \in AnyCause,
           NEW routes \in Seq(Strategy), NEW k \in 0..Len(routes),
           \A a, b \in 1..Len(routes) : routes[a] = routes[b] => a = b,
           Adds(g, c, routes, k),
           NEW p \in New(k), NEW q \in New(k), Same(p, q)'
    PROVE  p = q
<1>0. issued \in Nat /\ Len(routes) \in Nat
  BY Parts, Constants
<1>1. /\ p \in Run /\ q \in Run
      /\ run'[p].strategy = routes[p - issued]
      /\ run'[q].strategy = routes[q - issued]
  BY DEF Adds, Grants
<1>2. p \in Int /\ q \in Int /\ p - issued \in 1..Len(routes)
      /\ q - issued \in 1..Len(routes)
  BY <1>0 DEF New
<1>3. PICK a \in 1..Len(routes), b \in 1..Len(routes) :
        a = p - issued /\ b = q - issued
  BY <1>2
<1>4. routes[a] = routes[b]
  BY <1>1, <1>3 DEF Same
<1>5. a = b
  BY <1>4
<1>. QED BY <1>0, <1>2, <1>3, <1>5

\* Run q is the first of its task.
Fresh(q) ==
    /\ run'[q].pc = "queued"
    /\ \A p \in Run : p # q /\ Made(p)' => ~Same(p, q)'

\* The event of a pipeline is a new one.
LEMMA EmitFresh ==
    ASSUME Shapes, NEW g \in Engine, Emit(g)
    PROVE  \E c \in AnyCause : \E k \in 0..Len(Routes) :
             Adds(g, c, Routes, k) /\ \A q \in New(k) : Fresh(q)
<1>1. PICK c \in AnyCause, k \in 0..Len(Routes) :
        /\ Adds(g, c, Routes, k)
        /\ c[1] = 0 /\ c[2] = events + 1
        /\ \A q \in Run : q \notin New(k) => run'[q] = run[q]
  BY EmitAdds
<1>2. ASSUME NEW q \in New(k)
      PROVE  Fresh(q)
  <2>1. q \in Run /\ run'[q].pc = "queued" /\ run'[q].cause = c
    BY <1>1 DEF Adds, Grants
  <2>2. ASSUME NEW p \in Run, p # q, Made(p)', Same(p, q)'
        PROVE  FALSE
    <3>1. p \notin New(k)
      BY <1>1, <2>2, Constants, NewDiffer
    <3>2. run'[p] = run[p]
      BY <1>1, <3>1
    <3>3. Made(p) /\ run[p].cause = c
      BY <2>1, <2>2, <3>2 DEF Made, Same
    <3>4. events + 1 <= events
      BY <1>1, <3>3 DEF Shapes, Causes
    <3>. QED BY <3>4, Parts
  <2>. QED BY <2>1, <2>2 DEF Fresh
<1>. QED BY <1>1, <1>2

\* An attempt emits once.
LEMMA BodyEmitsFresh ==
    ASSUME Shapes, NEW r \in Run, BodyEmits(r)
    PROVE  \E c \in AnyCause : \E k \in 0..Len(ChildRoutes) :
             /\ Adds(run[r].engine, c, ChildRoutes, k)
             /\ \A q \in New(k) : Fresh(q)
<1>0. run[r].engine \in Engine
  BY Parts, JobParts
<1>1. PICK c \in AnyCause, k \in 0..Len(ChildRoutes) :
        /\ Adds(run[r].engine, c, ChildRoutes, k)
        /\ c[1] = r /\ c[2] = run[r].attempt /\ r \notin New(k)
        /\ \A q \in Run : q \notin New(k) /\ q # r => run'[q] = run[q]
  BY BodyEmitsAdds
<1>2. run[r].pc = "body" /\ run'[r].pc \in {"await", "ended"}
  BY BodyEmitsAdds
<1>3. ASSUME NEW q \in New(k)
      PROVE  Fresh(q)
  <2>1. q \in Run /\ run'[q].pc = "queued" /\ run'[q].cause = c
    BY <1>1 DEF Adds, Grants
  <2>2. ASSUME NEW p \in Run, p # q, Made(p)', Same(p, q)'
        PROVE  FALSE
    <3>1. p \notin New(k)
      BY <1>0, <1>1, <2>2, Constants, NewDiffer
    <3>2. run'[p].cause = run[p].cause /\ (Made(p)' => Made(p))
      BY <1>1, <1>2, <3>1 DEF Adds, Kept, Made
    <3>3. Made(p) /\ run[p].cause = c
      BY <2>1, <2>2, <3>2 DEF Same
    <3>4. run[r].pc \notin Early
      BY <1>1, <3>3 DEF Shapes, Causes
    <3>. QED BY <1>2, <3>4 DEF Early
  <2>. QED BY <2>1, <2>2 DEF Fresh
<1>. QED BY <1>1, <1>3

\* A run that is the first of its task opens it.
LEMMA EmitsServe ==
    ASSUME Shapes, NEW g \in Engine, NEW c \in AnyCause,
           NEW routes \in Seq(Strategy), NEW k \in 0..Len(routes),
           Adds(g, c, routes, k), \A q \in New(k) : Fresh(q)
    PROVE  Serving
<1>1. \A q \in New(k) : Opens(q)
  BY DEF Fresh, Opens
<1>. QED BY <1>1, AddsServe

\* One engine at a time deals with rows.
LEMMA OneBoots ==
    ASSUME Shapes, NEW g \in Engine, NEW i \in boot[g].todo \cup boot[g].taken
    PROVE  /\ i \in RowId /\ InBoot(i) /\ mode[g] = "recovering"
           /\ \A h \in Engine : h # g =>
                boot[h].todo = {} /\ boot[h].taken = {}
<1>1. i \in RowId
  BY BootParts DEF Shapes
<1>2. mode[g] = "recovering" /\ locked = {g}
  BY DEF Shapes, Lock
<1>3. \A h \in Engine : h # g => boot[h].todo = {} /\ boot[h].taken = {}
  BY <1>2 DEF Shapes, Lock
<1>. QED BY <1>1, <1>2, <1>3 DEF InBoot

\* A row that is re-enqueued was the last claim of its task.
LEMMA RequeueServes ==
    ASSUME Shapes, Tokens, Boots, NEW g \in Engine, NEW i \in boot[g].taken,
           Requeue(g, i)
    PROVE  Serving
<1>0. Claimed /\ issued \in Nat
  BY Parts DEF Tokens
<1>1. /\ i \in RowId /\ i[1] \in Run /\ Made(i[1]) /\ LetGo(g)
      /\ Adds(g, run[i[1]].cause, <<run[i[1]].strategy>>, 1)
      /\ \A q \in Run : q \notin New(1) => run'[q] = run[q]
  BY <1>0, RequeueAdds
<1>2. PICK c \in AnyCause, s \in Strategy, routes \in Seq(Strategy) :
        \E k \in 0..Len(routes) :
          /\ c = run[i[1]].cause /\ s = run[i[1]].strategy
          /\ routes = <<s>> /\ k = 1
          /\ Adds(g, c, routes, k)
  BY <1>0, RequeueGrants
<1>3. PICK k \in 0..Len(routes) :
        /\ c = run[i[1]].cause /\ s = run[i[1]].strategy
        /\ routes = <<s>> /\ k = 1
        /\ Adds(g, c, routes, k)
  BY <1>2
<1>4. Adds(g, c, routes, k)
  BY <1>3
<1>5. /\ InBoot(i) /\ Claims(i)
      /\ \A h \in Engine : h # g => boot[h].todo = {} /\ boot[h].taken = {}
  BY OneBoots DEF Claims
<1>6. record' = record
  BY <1>4 DEF Adds, Grants
<1>7. ~Claims(i)'
  <2>1. ~Running(i) /\ i \notin boot[g].todo
    BY DEF Boots
  <2>2. ~Running(i)'
    BY <1>6, <2>1 DEF Running
  <2>3. ~InBoot(i)'
    BY <1>1, <1>5, <2>1 DEF LetGo, InBoot
  <2>. QED BY <2>2, <2>3 DEF Claims
<1>8. \A j \in RowId : Claims(j)' => Claims(j)
  <2>1. \A j \in RowId : InBoot(j)' => InBoot(j)
    BY <1>1 DEF LetGo, InBoot
  <2>. QED BY <1>6, <2>1 DEF Claims, Running
<1>9. ASSUME NEW q \in New(k)
      PROVE  Opens(q)
  <2>1. /\ q \in Run /\ run'[q].pc = "queued" /\ run'[q].cause = c
        /\ run'[q].strategy = s
    <3>1. q - issued = 1
      BY <1>0, <1>3 DEF New
    <3>2. routes[1] = s
      BY <1>3
    <3>. QED BY <1>4, <3>1, <3>2 DEF Adds, Grants
  <2>2. ASSUME NEW p \in Run, p # q, Made(p)', Same(p, q)'
        PROVE  /\ Made(p) /\ ~Live(p)' /\ ~Over(p)'
               /\ \A j \in RowId : j[1] = p => ~Claims(j)'
    <3>1. p \notin New(k)
      BY <1>0, <1>3, <2>2 DEF New
    <3>2. run'[p] = run[p]
      BY <1>1, <1>3, <3>1
    <3>3. Made(p) /\ Same(p, i[1])
      BY <1>3, <2>1, <2>2, <3>2 DEF Made, Same
    <3>4. ~Live(p)'
      <4>1. ~Live(p)
        BY <1>1, <1>5, <3>3 DEF Tokens, LiveClaim
      <4>. QED BY <3>2, <4>1, LiveOf
    <3>5. ~Over(p)'
      <4>1. ~Over(p)
        BY <1>1, <1>5, <3>3 DEF Tokens, Final
      <4>. QED BY <3>2, <4>1 DEF Over
    <3>6. ASSUME NEW j \in RowId, j[1] = p, Claims(j)'
          PROVE  FALSE
      <4>1. j = i
        BY <1>1, <1>5, <1>8, <3>3, <3>6 DEF Tokens, OneClaim
      <4>. QED BY <1>7, <3>6, <4>1
    <3>. QED BY <3>3, <3>4, <3>5, <3>6
  <2>. QED BY <2>1, <2>2 DEF Opens
<1>. QED BY <1>4, <1>9, AddsServe

\* No run changes; rows and claims only get fewer.
LEMMA SameRunsServe ==
    ASSUME Shapes, run' = run, \A i \in RowId : Holds(i)
    PROVE  Serving
<1>1. ASSUME NEW q \in Run, Made(q)
      PROVE  Serves(q)
  BY <1>1, LiveOf DEF Serves, Over, Made
<1>2. \A q \in Run : Made(q)' => Made(q)
  BY DEF Made
<1>. QED BY <1>1, <1>2 DEF Serving

\* A recovery takes up RUNNING rows, and no run is live when it starts.
LEMMA StartServes ==
    ASSUME Shapes, NEW g \in Engine, Start(g)
    PROVE  Serving
<1>1. /\ mode[g] = "down" /\ locked = {}
      /\ \A h \in Engine : h # g => boot'[h] = boot[h]
      /\ \/ /\ boot'[g].taken = boot[g].taken
            /\ \E cutoff \in IF LateRestart THEN {now} ELSE 0..now :
                 boot'[g].todo = Crashed(cutoff)
         \/ boot' = boot
      /\ run' = run /\ Aside
  BY StartShape DEF Shapes
<1>2. \A h \in Engine :
          mode[h] = "down" /\ boot[h].todo = {} /\ boot[h].taken = {}
  <2>1. \A h \in Engine : mode[h] = "down"
    BY <1>1 DEF Shapes, Lock
  <2>. QED BY <2>1 DEF Shapes, Lock
<1>3. \A q \in Run : ~Live(q)'
  <2>1. \A q \in Run : ~Live(q)
    BY <1>2, Parts, JobParts DEF Shapes, Owned
  <2>. QED BY <1>1, <2>1, LiveOf
<1>4. ASSUME NEW i \in RowId, InBoot(i)'
      PROVE  Running(i)
  <2>1. PICK h \in Engine : i \in boot'[h].todo \cup boot'[h].taken
    BY <1>4 DEF InBoot
  <2>2. h = g /\ boot' # boot
    BY <1>1, <1>2, <2>1
  <2>3. PICK cutoff : boot'[g].todo = Crashed(cutoff)
    BY <1>1, <2>2
  <2>4. i \in Crashed(cutoff)
    BY <1>1, <1>2, <2>1, <2>2, <2>3
  <2>. QED BY <2>4 DEF Crashed, Running
<1>5. ASSUME NEW i \in RowId
      PROVE  Holds(i)
  <2>1. Running(i)' => Running(i)
    BY <1>1 DEF Running, Aside
  <2>. QED BY <1>3, <1>4, <2>1 DEF Holds, Claims
<1>. QED BY <1>1, <1>5, SameRunsServe

\* A row that is marked stays claimed by its recovery.
LEMMA MarkCrashedServes ==
    ASSUME Shapes, NEW g \in Engine, NEW i \in boot[g].todo, MarkCrashed(g, i)
    PROVE  Serving
<1>1. /\ i \in RowId
      /\ \A h \in Engine : h # g => boot'[h] = boot[h]
      /\ boot'[g].todo = boot[g].todo \ {i} /\ boot'[g].taken = {i}
      /\ \A j \in RowId : j # i => record'[j] = record[j]
      /\ record'[i].status # "running"
      /\ run' = run
  BY MarkCrashedShape DEF Shapes
<1>2. ASSUME NEW j \in RowId
      PROVE  Holds(j)
  <2>1. Running(j)' => Running(j)
    BY <1>1 DEF Running
  <2>2. InBoot(j)' => InBoot(j)
    BY <1>1 DEF InBoot
  <2>. QED BY <2>1, <2>2 DEF Holds, Claims
<1>. QED BY <1>1, <1>2, SameRunsServe

\* What an engine that goes down leaves is lost, not settled.
LEMMA FallServes ==
    ASSUME Shapes, NEW g \in Engine, Falls(g)
    PROVE  Serving
<1>1. /\ \A q \in Run :
           /\ run'[q].strategy = run[q].strategy
           /\ run'[q].cause = run[q].cause
           /\ IF run[q].engine = g /\ Live(q)
              THEN run'[q].pc \in {"orphan", "lost"}
              ELSE run'[q] = run[q]
      /\ \A h \in Engine : h # g => boot'[h] = boot[h]
      /\ boot'[g].todo = {} /\ boot'[g].taken = {}
      /\ record' = record
  BY DEF Falls
<1>2. ASSUME NEW q \in Run
      PROVE  /\ Made(q) => Serves(q)
             /\ Made(q)' => Made(q)
  <2>1. CASE run[q].engine = g /\ Live(q)
    <3>1. run'[q].pc \in {"orphan", "lost"}
      BY <1>1, <2>1
    <3>. QED BY <1>1, <2>1, <3>1, LiveOf DEF Serves, Over, Made
  <2>2. CASE ~(run[q].engine = g /\ Live(q))
    <3>1. run'[q] = run[q]
      BY <1>1, <2>2
    <3>. QED BY <3>1, LiveOf DEF Serves, Over, Made
  <2>. QED BY <2>1, <2>2
<1>3. ASSUME NEW i \in RowId
      PROVE  Holds(i)
  <2>1. Running(i)' => Running(i)
    BY <1>1 DEF Running
  <2>2. InBoot(i)' => InBoot(i)
    BY <1>1 DEF InBoot
  <2>. QED BY <2>1, <2>2 DEF Holds, Claims
<1>. QED BY <1>2, <1>3 DEF Serving

\* The rest changes neither.
LEMMA RestServes ==
    ASSUME Shapes, Rests
    PROVE  Serving
<1>1. /\ run' = run /\ record' = record
      /\ \A h \in Engine : /\ boot'[h].todo = boot[h].todo
                           /\ boot'[h].taken \subseteq boot[h].taken
  BY DEF Rests
<1>2. ASSUME NEW i \in RowId
      PROVE  Holds(i)
  <2>1. Running(i)' => Running(i)
    BY <1>1 DEF Running
  <2>2. InBoot(i)' => InBoot(i)
    BY <1>1 DEF InBoot
  <2>. QED BY <2>1, <2>2 DEF Holds, Claims
<1>. QED BY <1>1, <1>2, SameRunsServe

\* What is known of every state.
Known == Shapes /\ Tokens /\ Boots

\* No recovery takes up more rows, and none of its rows starts to run.
LEMMA BootsKept ==
    ASSUME Known,
           \A h \in Engine : /\ boot'[h].todo \subseteq boot[h].todo
                             /\ boot'[h].taken \subseteq boot[h].taken,
           \A i \in RowId : Running(i)' => Running(i) \/ Starts(i)
    PROVE  Boots'
<1>. SUFFICES ASSUME NEW h \in Engine, NEW i \in boot'[h].taken
              PROVE  ~Running(i)' /\ i \notin boot'[h].todo
  BY DEF Boots
<1>1. i \in boot[h].taken /\ i \notin boot'[h].todo /\ ~Running(i)
  BY DEF Known, Boots
<1>2. i \in RowId /\ InBoot(i) /\ i[1] \in Run
  BY <1>1, OneBoots DEF Known, RowId
<1>3. ~Starts(i)
  <2>. SUFFICES ASSUME Starts(i) PROVE FALSE
    OBVIOUS
  <2>1. Live(i[1])
    BY <1>2, LiveOf DEF Starts
  <2>. QED BY <1>2, <2>1, LiveNotInBoot DEF Known
<1>. QED BY <1>1, <1>2, <1>3

\* Nothing is known to be wrong at the start.
LEMMA InitKnown == Init => Known
<1>. SUFFICES ASSUME Init PROVE Known
  OBVIOUS
<1>1. \A r \in Run : run[r] = Unused /\ ~Live(r) /\ ~Made(r) /\ ~Over(r)
                     /\ run[r].attempt = 0 /\ run[r].pc # "backoff"
  BY UnusedTyped, LiveOf DEF Init, Made, Over
<1>2. \A g \in Engine : /\ mode[g] = "down"
                        /\ boot[g].todo = {} /\ boot[g].taken = {}
  BY DEF Init
<1>3. \A i \in RowId : record[i].status = "none" /\ record[i].at = 0
  BY DEF Init, NoRow
<1>4. \A i \in RowId : ~Claims(i)
  BY <1>2, <1>3 DEF Claims, Running, InBoot
<1>5. TypeOK
  <2>1. run \in [Run -> Job]
    BY UnusedTyped DEF Init
  <2>2. \A r \in Run : run[r].attempt \in 0..MaxRetries
    BY <1>1, Constants
  <2>3. /\ mode \in [Engine -> Mode] /\ stopping \in [Engine -> Stopping]
        /\ active \in [Engine -> Nat] /\ locked \subseteq Engine
    BY DEF Init, Mode, Stopping
  <2>4. boot \in [Engine -> [todo : SUBSET RowId, taken : SUBSET RowId]]
    BY DEF Init
  <2>5. record \in [RowId -> [status : Status, at : Nat]]
    BY DEF Init, NoRow, Status
  <2>6. /\ issued \in 0..MaxRuns /\ events \in 0..MaxEvents
        /\ now \in Nat /\ crashes \in Nat /\ faults \in Nat
    BY Constants DEF Init
  <2>. QED BY <2>1, <2>2, <2>3, <2>4, <2>5, <2>6 DEF TypeOK
<1>6. Lock /\ Owned /\ Issued /\ Causes /\ Dated
  <2>1. Lock /\ Owned
    BY <1>1, <1>2 DEF Lock, Owned
  <2>2. Issued /\ Causes
    BY <1>1 DEF Issued, Causes
  <2>3. Dated
    BY <1>3 DEF Dated, Init
  <2>. QED BY <2>1, <2>2, <2>3
<1>7. Tokens
  BY <1>1, <1>4 DEF Tokens, OneRunPerTask, Claimed, OneClaim, LiveClaim, Final
<1>8. Boots
  BY <1>2 DEF Boots
<1>. QED BY <1>5, <1>6, <1>7, <1>8 DEF Known, Shapes

\* Every step serves the runs, and keeps what is known.
LEMMA StepKnown ==
    ASSUME Known, [Next]_vars
    PROVE  Known' /\ Serving
<1>0. Shapes /\ Tokens /\ Boots /\ Claimed /\ TypeOK
  BY DEF Known, Tokens, Shapes
<1>1. ASSUME NEW r \in Run, Turn(r)
      PROVE  Shapes' /\ Boots' /\ Serving
  <2>1. Shapes' /\ Serving
    BY <1>0, <1>1, TurnKeeps, TurnServes
  <2>2. boot' = boot
    BY <1>1 DEF Turn, Stay
  <2>3. \A i \in RowId : Running(i)' => Running(i) \/ Starts(i)
    <3>. SUFFICES ASSUME NEW i \in RowId, Running(i)', ~Running(i)
                  PROVE  Starts(i)
      OBVIOUS
    <3>1. i = Attempt(r) /\ run[r].pc = "starting" /\ run'[r].pc = "body"
      BY <1>1 DEF Turn, RowsMove, Running
    <3>2. run'[r].attempt = run[r].attempt
      BY <1>1, <3>1 DEF Turn, Hops, Leads
    <3>. QED BY <1>0, <3>1, <3>2, AttemptRow DEF Starts
  <2>. QED BY <2>1, <2>2, <2>3, BootsKept
<1>2. ASSUME NEW r \in Run, BodyEmits(r)
      PROVE  Shapes' /\ Boots' /\ Serving
  <2>1. run[r].engine \in Engine
    BY <1>0, Parts, JobParts
  <2>2. PICK c \in AnyCause, k \in 0..Len(ChildRoutes) :
          /\ Adds(run[r].engine, c, ChildRoutes, k)
          /\ \A q \in New(k) : Fresh(q)
    BY <1>0, <1>2, BodyEmitsFresh
  <2>3. Shapes'
    BY <1>0, <2>1, <2>2, Constants, AddsKeep
  <2>4. boot' = boot /\ record' = record
    BY <1>0, <1>2, <2>2, BodyEmitsAdds DEF Adds, Grants
  <2>5. \A i \in RowId : Running(i)' => Running(i)
    BY <2>4 DEF Running
  <2>6. Serving
    BY <1>0, <2>1, <2>2, Constants, EmitsServe
  <2>. QED BY <2>3, <2>4, <2>5, <2>6, BootsKept
<1>3. ASSUME NEW g \in Engine, Emit(g)
      PROVE  Shapes' /\ Boots' /\ Serving
  <2>1. PICK c \in AnyCause, k \in 0..Len(Routes) :
          Adds(g, c, Routes, k) /\ \A q \in New(k) : Fresh(q)
    BY <1>0, <1>3, EmitFresh
  <2>2. Shapes' /\ Serving
    BY <1>0, <2>1, Constants, AddsKeep, EmitsServe
  <2>3. record' = record /\ boot' = boot
    BY <1>0, <1>3, <2>1, EmitAdds DEF Adds, Grants
  <2>4. \A i \in RowId : Running(i)' => Running(i)
    BY <2>3 DEF Running
  <2>. QED BY <2>2, <2>3, <2>4, BootsKept
<1>4. ASSUME NEW g \in Engine, Start(g)
      PROVE  Shapes' /\ Boots' /\ Serving
  <2>1. Shapes' /\ Serving
    BY <1>0, <1>4, StartKeeps, StartServes
  <2>2. \A h \in Engine : boot'[h].taken = boot[h].taken
    BY <1>0, <1>4, StartShape
  <2>3. \A h \in Engine : boot[h].taken = {}
    <3>1. locked = {}
      BY <1>4 DEF Start, LockFree
    <3>. QED BY <1>0, <3>1 DEF Shapes, Lock
  <2>. QED BY <2>1, <2>2, <2>3 DEF Boots
<1>5. ASSUME NEW g \in Engine, NEW i \in boot[g].todo, MarkCrashed(g, i)
      PROVE  Shapes' /\ Boots' /\ Serving
  <2>1. Shapes' /\ Serving
    BY <1>0, <1>5, MarkCrashedKeeps, MarkCrashedServes
  <2>2. /\ \A h \in Engine : h # g => boot'[h] = boot[h]
        /\ boot'[g].todo = boot[g].todo \ {i} /\ boot'[g].taken = {i}
        /\ record'[i].status # "running"
    BY <1>0, <1>5, MarkCrashedShape
  <2>3. \A h \in Engine : h # g => boot[h].taken = {}
    BY <1>0, <1>5, OneBoots
  <2>. QED BY <2>1, <2>2, <2>3 DEF Boots, Running
<1>6. ASSUME NEW g \in Engine, NEW i \in boot[g].taken, Requeue(g, i)
      PROVE  Shapes' /\ Boots' /\ Serving
  <2>1. PICK c \in AnyCause, s \in Strategy, routes \in Seq(Strategy) :
          \E k \in 0..Len(routes) : Adds(g, c, routes, k)
    BY <1>0, <1>6, RequeueGrants
  <2>5. PICK k \in 0..Len(routes) : Adds(g, c, routes, k)
    BY <2>1
  <2>6. Shapes'
    BY <1>0, <2>5, AddsKeep
  <2>7. record' = record
    BY <2>5 DEF Adds, Grants
  <2>8. \A j \in RowId : Running(j)' => Running(j)
    BY <2>7 DEF Running
  <2>9. \A h \in Engine : /\ boot'[h].todo \subseteq boot[h].todo
                          /\ boot'[h].taken \subseteq boot[h].taken
    BY <2>5 DEF Adds
  <2>. QED BY <1>0, <1>6, <2>6, <2>8, <2>9, RequeueServes, BootsKept
<1>7. ASSUME NEW g \in Engine, Down(g)
      PROVE  Shapes' /\ Boots' /\ Serving
  <2>1. Falls(g) /\ crashes' \in {crashes, crashes + 1}
    BY <1>0, <1>7, DownShape
  <2>2. Shapes' /\ Serving
    BY <1>0, <2>1, FallKeeps, FallServes
  <2>3. /\ record' = record
        /\ \A h \in Engine : /\ boot'[h].todo \subseteq boot[h].todo
                             /\ boot'[h].taken \subseteq boot[h].taken
    BY <2>1 DEF Falls
  <2>4. \A j \in RowId : Running(j)' => Running(j)
    BY <2>3 DEF Running
  <2>. QED BY <2>2, <2>3, <2>4, BootsKept
<1>8. ASSUME Rests
      PROVE  Shapes' /\ Boots' /\ Serving
  <2>1. Shapes' /\ Serving
    BY <1>0, <1>8, RestKeeps, RestServes
  <2>2. /\ record' = record
        /\ \A h \in Engine : /\ boot'[h].todo \subseteq boot[h].todo
                             /\ boot'[h].taken \subseteq boot[h].taken
    BY <1>8 DEF Rests
  <2>3. \A j \in RowId : Running(j)' => Running(j)
    BY <2>2 DEF Running
  <2>. QED BY <2>1, <2>2, <2>3, BootsKept
<1>9. Shapes' /\ Boots' /\ Serving
  BY <1>0, <1>1, <1>2, <1>3, <1>4, <1>5, <1>6, <1>7, <1>8, Kinds
<1>10. Tokens'
  BY <1>0, <1>9, TokensKept
<1>. QED BY <1>9, <1>10 DEF Known

\* Types of the engines, the runs and their records; an attempt never
\* exceeds the retry budget.
THEOREM TypeCorrect == Spec => []TypeOK
<1>1. Known /\ [Next]_vars => Known'
  BY StepKnown
<1>2. Known => TypeOK
  BY DEF Known, Shapes
<1>. QED BY <1>1, <1>2, InitKnown, PTL DEF Spec

\* One strategy never handles one event twice at the same time: while a run
\* of a task is live, no other is and no row of the task can be resumed.
THEOREM TasksDoNotOverlap == Spec => []OneRunPerTask
<1>1. Known /\ [Next]_vars => Known'
  BY StepKnown
<1>2. Known => OneRunPerTask
  BY DEF Known, Tokens
<1>. QED BY <1>1, <1>2, InitKnown, PTL DEF Spec

-----------------------------------------------------------------------------
(* What an engine counts.                                                  *)

\* The jobs and coroutines of an engine.
Jobs(g) == {r \in Run : run[r].engine = g /\ Live(r)}

Counts == \A g \in Engine : active[g] = Cardinality(Jobs(g))

\* They are finitely many, before a step and after it.
LEMMA JobsFinite ==
    ASSUME NEW g
    PROVE  /\ IsFiniteSet(Jobs(g)) /\ Cardinality(Jobs(g)) \in Nat
           /\ IsFiniteSet(Jobs(g)')
<1>1. IsFiniteSet(Run)
  BY Constants, FS_Interval DEF Run
<1>2. Jobs(g) \in SUBSET Run /\ Jobs(g)' \in SUBSET Run
  BY DEF Jobs
<1>. QED BY <1>1, <1>2, FS_Subset, FS_CardinalityType

\* A run that goes on is counted on; one that closes is not.
LEMMA TurnCounts ==
    ASSUME Shapes, Counts, NEW r \in Run, Turn(r)
    PROVE  Counts'
<1>0. active \in [Engine -> Nat] /\ run[r].engine \in Engine
  BY Parts, JobParts
<1>1. Advances(r) /\ Hops(r) /\ Balance(r)
  BY DEF Turn
<1>2. /\ \A q \in Run : run'[q].engine = run[q].engine
      /\ \A q \in Run : q # r => (Live(q)' <=> Live(q))
  BY <1>1, LiveOf DEF Advances
<1>3. CASE /\ Close(r) /\ run[r].pc \in {"starting", "ended"}
           /\ run'[r].pc \in {"done", "dead", "lost"}
  <2>1. Live(r) /\ ~Live(r)'
    BY <1>3, LiveOf
  <2>2. PICK g \in Engine : g = run[r].engine
    BY <1>0
  <2>3. active' = [active EXCEPT ![g] = IF @ > 0 THEN @ - 1 ELSE 0]
    BY <1>3, <2>2 DEF Close
  <2>4. Jobs(g)' = Jobs(g) \ {r} /\ r \in Jobs(g)
    BY <1>2, <2>1, <2>2 DEF Jobs
  <2>5. /\ Cardinality(Jobs(g) \ {r}) = Cardinality(Jobs(g)) - 1
        /\ Cardinality(Jobs(g) \ {r}) \in Nat
    BY <2>4, JobsFinite, FS_RemoveElement, FS_CardinalityType
  <2>6. active[g] = Cardinality(Jobs(g))
    BY DEF Counts
  <2>7. active'[g] = Cardinality(Jobs(g)')
    BY <1>0, <2>3, <2>4, <2>5, <2>6
  <2>8. \A h \in Engine : h # g => Jobs(h)' = Jobs(h)
    BY <1>2, <2>2 DEF Jobs
  <2>9. \A h \in Engine : h # g => active'[h] = Cardinality(Jobs(h)')
    BY <1>0, <2>3, <2>8 DEF Counts
  <2>. QED BY <2>7, <2>9 DEF Counts
<1>4. CASE /\ active' = active
           /\ run'[r].pc \notin {"done", "dead"}
           /\ (run'[r].pc = "lost" => run[r].pc = "orphan")
  <2>1. Live(r)' <=> Live(r)
    BY <1>1, <1>4, LiveOf DEF Hops, Leads
  <2>2. \A h \in Engine : Jobs(h)' = Jobs(h)
    BY <1>2, <2>1 DEF Jobs
  <2>. QED BY <1>4, <2>2 DEF Counts
<1>. QED BY <1>1, <1>3, <1>4 DEF Balance

\* Every job that is handed out is counted.
LEMMA AddsCount ==
    ASSUME Shapes, Counts, NEW g \in Engine, NEW c \in AnyCause,
           NEW routes \in Seq(Strategy), NEW k \in 0..Len(routes),
           Adds(g, c, routes, k)
    PROVE  Counts'
<1>0. /\ active \in [Engine -> Nat] /\ issued \in Nat /\ k \in Nat
  BY Parts
<1>1. /\ \A q \in Run : q \in New(k) =>
           run'[q].pc = "queued" /\ run'[q].engine = g
      /\ New(k) \subseteq Run
      /\ active' = [active EXCEPT ![g] = @ + k]
      /\ Kept(k)
  BY DEF Adds, Grants
<1>2. ASSUME NEW q \in Run, q \notin New(k)
      PROVE  run'[q].engine = run[q].engine /\ (Live(q)' <=> Live(q))
  BY <1>1, <1>2, LiveOf DEF Kept
<1>3. \A q \in New(k) : q \in Run /\ ~Live(q) /\ Live(q)'
  BY <1>0, <1>1, OldRuns, LiveOf
<1>4. Jobs(g)' = Jobs(g) \cup New(k) /\ Jobs(g) \cap New(k) = {}
  BY <1>1, <1>2, <1>3 DEF Jobs
<1>5. \A h \in Engine : h # g => Jobs(h)' = Jobs(h)
  BY <1>1, <1>2, <1>3 DEF Jobs
<1>6. IsFiniteSet(New(k)) /\ Cardinality(New(k)) = k
  <2>1. PICK a \in Int, b \in Int : a = issued + 1 /\ b = issued + k
    BY <1>0
  <2>2. IsFiniteSet(a..b) /\ Cardinality(a..b) = IF a > b THEN 0 ELSE b - a + 1
    BY FS_Interval
  <2>3. (IF a > b THEN 0 ELSE b - a + 1) = k
    BY <1>0, <2>1
  <2>. QED BY <2>1, <2>2, <2>3 DEF New
<1>7. Cardinality(Jobs(g)') = Cardinality(Jobs(g)) + k
  <2>1. Cardinality(Jobs(g) \cup New(k)) =
          Cardinality(Jobs(g)) + Cardinality(New(k))
            - Cardinality(Jobs(g) \cap New(k))
    BY <1>6, JobsFinite, FS_Union
  <2>2. Cardinality(Jobs(g) \cap New(k)) = 0
    BY <1>4, FS_EmptySet
  <2>. QED BY <1>0, <1>4, <1>6, <2>1, <2>2, JobsFinite
<1>8. active'[g] = Cardinality(Jobs(g)')
  BY <1>0, <1>1, <1>7 DEF Counts
<1>9. \A h \in Engine : h # g => active'[h] = Cardinality(Jobs(h)')
  BY <1>0, <1>1, <1>5 DEF Counts
<1>. QED BY <1>8, <1>9 DEF Counts

\* An engine that went down has nothing to count.
LEMMA FallCounts ==
    ASSUME Shapes, Counts, NEW g \in Engine, Falls(g)
    PROVE  Counts'
<1>0. active \in [Engine -> Nat]
  BY Parts
<1>1. /\ active' = [active EXCEPT ![g] = 0]
      /\ \A q \in Run :
           /\ run'[q].engine = run[q].engine
           /\ IF run[q].engine = g /\ Live(q)
              THEN run'[q].pc \in {"orphan", "lost"}
              ELSE run'[q] = run[q]
  BY DEF Falls
<1>2. Jobs(g)' = {}
  <2>. SUFFICES ASSUME NEW q \in Run, run'[q].engine = g, Live(q)'
                PROVE  FALSE
    BY DEF Jobs
  <2>1. CASE Live(q)
    <3>1. run'[q].pc \in {"orphan", "lost"}
      BY <1>1, <2>1
    <3>. QED BY <3>1, LiveOf
  <2>2. CASE ~Live(q)
    <3>1. run'[q] = run[q]
      BY <1>1, <2>2
    <3>. QED BY <2>2, <3>1, LiveOf
  <2>. QED BY <2>1, <2>2
<1>3. ASSUME NEW h \in Engine, h # g
      PROVE  Jobs(h)' = Jobs(h)
  <2>1. \A q \in Run : run[q].engine = h => run'[q] = run[q]
    BY <1>1, <1>3
  <2>2. \A q \in Run : run[q].engine = h => (Live(q)' <=> Live(q))
    BY <2>1, LiveOf
  <2>. QED BY <1>1, <2>2 DEF Jobs
<1>4. active'[g] = Cardinality(Jobs(g)')
  BY <1>0, <1>1, <1>2, FS_EmptySet
<1>5. \A h \in Engine : h # g => active'[h] = Cardinality(Jobs(h)')
  BY <1>0, <1>1, <1>3 DEF Counts
<1>. QED BY <1>4, <1>5 DEF Counts

\* Nothing else changes the count.
LEMMA SameCounts ==
    ASSUME Counts, run' = run, active' = active
    PROVE  Counts'
<1>1. \A q \in Run : Live(q)' <=> Live(q)
  BY LiveOf
<1>2. \A h \in Engine : Jobs(h)' = Jobs(h)
  BY <1>1 DEF Jobs
<1>. QED BY <1>2 DEF Counts

\* Every step keeps the counts.
LEMMA StepCounts ==
    ASSUME Known, Counts, [Next]_vars
    PROVE  Counts'
<1>0. Shapes /\ TypeOK /\ Claimed
  BY DEF Known, Tokens, Shapes
<1>1. ASSUME NEW r \in Run, Turn(r)
      PROVE  Counts'
  BY <1>0, <1>1, TurnCounts
<1>2. ASSUME NEW r \in Run, BodyEmits(r)
      PROVE  Counts'
  <2>1. run[r].engine \in Engine
    BY <1>0, Parts, JobParts
  <2>. QED BY <1>0, <1>2, <2>1, BodyEmitsAdds, Constants, AddsCount
<1>3. ASSUME NEW g \in Engine, Emit(g)
      PROVE  Counts'
  BY <1>0, <1>3, EmitAdds, Constants, AddsCount
<1>4. ASSUME NEW g \in Engine, Start(g)
      PROVE  Counts'
  BY <1>0, <1>4, StartShape, SameCounts DEF Aside
<1>5. ASSUME NEW g \in Engine, NEW i \in boot[g].todo, MarkCrashed(g, i)
      PROVE  Counts'
  BY <1>0, <1>5, MarkCrashedShape, SameCounts
<1>6. ASSUME NEW g \in Engine, NEW i \in boot[g].taken, Requeue(g, i)
      PROVE  Counts'
  BY <1>0, <1>6, RequeueGrants, AddsCount
<1>7. ASSUME NEW g \in Engine, Down(g)
      PROVE  Counts'
  BY <1>0, <1>7, DownShape, FallCounts
<1>8. ASSUME Rests
      PROVE  Counts'
  BY <1>8, SameCounts DEF Rests
<1>. QED BY <1>0, <1>1, <1>2, <1>3, <1>4, <1>5, <1>6, <1>7, <1>8, Kinds

\* _active_runs counts the jobs in the store and the coroutines under way.
THEOREM CountIsExact == Spec => []ActiveCounts
<1>. DEFINE I == Known /\ Counts
<1>1. Init => I
  <2>. SUFFICES ASSUME Init PROVE I
    OBVIOUS
  <2>1. \A r \in Run : ~Live(r)
    BY UnusedTyped, LiveOf DEF Init
  <2>2. \A g \in Engine : Jobs(g) = {} /\ active[g] = 0
    BY <2>1 DEF Init, Jobs
  <2>. QED BY <2>2, FS_EmptySet, InitKnown DEF Counts
<1>2. I /\ [Next]_vars => I'
  BY StepKnown, StepCounts
<1>3. I => ActiveCounts
  BY DEF Counts, ActiveCounts, Jobs
<1>. QED BY <1>1, <1>2, <1>3, PTL DEF Spec

-----------------------------------------------------------------------------
(* Rows that nobody runs.                                                  *)

\* The ghosts that a recovery does not have on its list.
Missed(g) == {i \in Ghosts : i \notin boot[g].todo}

\* While a recovering engine is not down, each of them is the work of a
\* call that raised.
Haunts ==
    \A g \in Recovers :
        mode[g] # "down" => Cardinality(Missed(g)) <= faults

\* Ghosts, before a step and after it.
LEMMA MissedParts ==
    ASSUME NEW g, NEW i
    PROVE  /\ i \in Missed(g) <=> /\ i \in RowId /\ Running(i)
                                  /\ run[i[1]].pc \notin InSlot
                                  /\ i \notin boot[g].todo
           /\ i \in Missed(g)' <=> /\ i \in RowId /\ Running(i)'
                                   /\ run'[i[1]].pc \notin InSlot
                                   /\ i \notin boot'[g].todo
BY DEF Missed, Ghosts, Running

\* They are finitely many.
LEMMA MissedFinite ==
    ASSUME NEW g
    PROVE  /\ IsFiniteSet(Missed(g)) /\ Cardinality(Missed(g)) \in Nat
           /\ IsFiniteSet(Missed(g)') /\ Cardinality(Missed(g)') \in Nat
<1>1. IsFiniteSet(Run) /\ IsFiniteSet(0..MaxRetries)
  BY Constants, FS_Interval DEF Run
<1>2. IsFiniteSet(RowId)
  BY <1>1, FS_Product DEF RowId
<1>3. Missed(g) \in SUBSET RowId /\ Missed(g)' \in SUBSET RowId
  BY MissedParts
<1>. QED BY <1>2, <1>3, FS_Subset, FS_CardinalityType

\* A step that leaves no more of them behind than calls that raised.
LEMMA Fewer ==
    ASSUME Shapes, Haunts, NEW g \in Recovers, mode[g] # "down",
           faults' \in Nat,
           \/ Missed(g)' \subseteq Missed(g) /\ faults <= faults'
           \/ /\ faults' = faults + 1
              /\ \E i : Missed(g)' \subseteq Missed(g) \cup {i}
    PROVE  Cardinality(Missed(g)') <= faults'
<1>0. faults \in Nat
  BY Parts
<1>1. /\ Cardinality(Missed(g)) <= faults
      /\ IsFiniteSet(Missed(g)) /\ Cardinality(Missed(g)) \in Nat
      /\ Cardinality(Missed(g)') \in Nat
  BY MissedFinite DEF Haunts
<1>2. CASE Missed(g)' \subseteq Missed(g) /\ faults <= faults'
  <2>1. Cardinality(Missed(g)') <= Cardinality(Missed(g))
    BY <1>1, <1>2, FS_Subset
  <2>. QED BY <1>0, <1>1, <1>2, <2>1
<1>3. ASSUME NEW i, faults' = faults + 1,
             Missed(g)' \subseteq Missed(g) \cup {i}
      PROVE  Cardinality(Missed(g)') <= faults'
  <2>1. /\ IsFiniteSet(Missed(g) \cup {i})
        /\ Cardinality(Missed(g) \cup {i}) =
             IF i \in Missed(g) THEN Cardinality(Missed(g))
             ELSE Cardinality(Missed(g)) + 1
    BY <1>1, FS_AddElement
  <2>2. Cardinality(Missed(g)') <= Cardinality(Missed(g) \cup {i})
    BY <1>3, <2>1, FS_Subset
  <2>3. Cardinality(Missed(g) \cup {i}) \in Nat
    BY <2>1, FS_CardinalityType
  <2>. QED BY <1>0, <1>1, <1>3, <2>1, <2>2, <2>3
<1>. QED BY <1>2, <1>3

\* A run loses its row only to a call that raised.
LEMMA TurnHaunts ==
    ASSUME Shapes, Tokens, Haunts, NEW r \in Run, Turn(r)
    PROVE  Haunts'
<1>. SUFFICES ASSUME NEW g \in Recovers, mode'[g] # "down"
              PROVE  Cardinality(Missed(g)') <= faults'
  BY DEF Haunts
<1>0. faults \in Nat /\ Attempt(r)[1] = r /\ Attempt(r) \in RowId
  BY Parts, AttemptRow DEF Shapes
<1>1. /\ Advances(r) /\ Stay /\ Hops(r) /\ RowsMove(r) /\ Blame(r)
  BY DEF Turn
<1>2. /\ \A q \in Run : q # r => run'[q] = run[q]
      /\ mode' = mode /\ boot' = boot
  BY <1>1 DEF Advances, Stay
<1>3. \A i \in RowId : Running(i)' =>
        Running(i) \/ (i = Attempt(r) /\ run[r].pc = "starting"
                       /\ run'[r].pc = "body")
  BY <1>1 DEF RowsMove, Running
<1>4. ASSUME NEW i \in RowId, i \in Missed(g)', i \notin Missed(g)
      PROVE  /\ run[r].pc \in {"starting", "ended"} /\ run'[r].pc = "lost"
             /\ i = Attempt(r)
  <2>1. /\ Running(i)' /\ run'[i[1]].pc \notin InSlot
        /\ i \notin boot[g].todo /\ i[1] \in Run
        /\ ~Running(i) \/ run[i[1]].pc \in InSlot
    BY <1>2, <1>4, MissedParts DEF RowId
  <2>2. i[1] = r
    <3>1. CASE i[1] # r
      <4>1. run'[i[1]] = run[i[1]]
        BY <1>2, <2>1, <3>1
      <4>. QED BY <1>0, <1>3, <2>1, <3>1, <4>1
    <3>. QED BY <3>1
  <2>3. Running(i) /\ run[r].pc \in InSlot
    BY <1>3, <2>1, <2>2 DEF InSlot
  <2>4. i = Attempt(r) /\ run[r].pc \in Begun
    <3>1. Live(r)
      BY <2>3, LiveOf DEF InSlot
    <3>. QED BY <2>2, <2>3, <3>1, LiveNotInBoot DEF Claims
  <2>5. run[r].pc = "ended"
    BY <1>1, <2>1, <2>2, <2>4 DEF Hops, Leads, Begun, InSlot
  <2>6. run'[r].pc = "lost"
    BY <1>1, <2>1, <2>4, <2>5 DEF RowsMove, Running
  <2>. QED BY <2>4, <2>5, <2>6
<1>5. \A i : i \in Missed(g)' => i \in RowId
  BY MissedParts
<1>6. CASE run[r].pc \in {"starting", "ended"} /\ run'[r].pc = "lost"
  <2>1. faults' = faults + 1
    BY <1>1, <1>6 DEF Blame
  <2>2. Missed(g)' \subseteq Missed(g) \cup {Attempt(r)}
    BY <1>4, <1>5
  <2>3. faults' \in Nat
    BY <1>0, <2>1
  <2>. QED BY <1>2, <2>1, <2>2, <2>3, Fewer
<1>7. CASE ~(run[r].pc \in {"starting", "ended"} /\ run'[r].pc = "lost")
  <2>1. faults' = faults
    BY <1>1, <1>7 DEF Blame
  <2>2. Missed(g)' \subseteq Missed(g)
    BY <1>4, <1>5, <1>7
  <2>. QED BY <1>0, <1>2, <2>1, <2>2, Fewer
<1>. QED BY <1>6, <1>7

\* A job that is handed out has no row.
LEMMA AddsHaunt ==
    ASSUME Shapes, Tokens, Haunts, NEW g \in Engine, NEW c \in AnyCause,
           NEW routes \in Seq(Strategy), NEW k \in 0..Len(routes),
           Adds(g, c, routes, k)
    PROVE  Haunts'
<1>. SUFFICES ASSUME NEW h \in Recovers, mode'[h] # "down"
              PROVE  Cardinality(Missed(h)') <= faults'
  BY DEF Haunts
<1>0. faults \in Nat /\ h \in Engine /\ k \in Nat
  BY Parts, Constants
<1>1. /\ mode' = mode /\ record' = record
      /\ faults' \in {faults, faults + 1}
      /\ boot'[h].todo = boot[h].todo /\ Kept(k)
  BY <1>0 DEF Adds, Grants
<1>2. ASSUME NEW i, i \in Missed(h)'
      PROVE  i \in Missed(h)
  <2>1. /\ i \in RowId /\ i[1] \in Run /\ Running(i)'
        /\ run'[i[1]].pc \notin InSlot /\ i \notin boot[h].todo
    BY <1>1, <1>2, MissedParts DEF RowId
  <2>2. Running(i)
    BY <1>1, <2>1 DEF Running
  <2>3. Made(i[1])
    BY <2>1, <2>2 DEF Tokens, Claimed, Claims
  <2>4. i[1] \notin New(k)
    BY <1>0, <2>1, <2>3, OldRuns
  <2>5. run[i[1]].pc \notin InSlot
    BY <1>1, <2>1, <2>4 DEF Kept, InSlot
  <2>. QED BY <2>1, <2>2, <2>5, MissedParts
<1>3. faults' \in Nat /\ faults <= faults'
  BY <1>0, <1>1
<1>. QED BY <1>1, <1>2, <1>3, Fewer

\* An engine that starts late enough has every RUNNING row on its list.
LEMMA StartHaunts ==
    ASSUME LateRestart, Shapes, Haunts, NEW g \in Engine, Start(g)
    PROVE  Haunts'
<1>. SUFFICES ASSUME NEW h \in Recovers, mode'[h] # "down"
              PROVE  Cardinality(Missed(h)') <= faults'
  BY DEF Haunts
<1>0. faults \in Nat /\ h \in Engine /\ mode \in [Engine -> Mode]
  BY Parts, Constants
<1>1. /\ mode[g] = "down" /\ locked = {}
      /\ \/ /\ mode' = [mode EXCEPT ![g] = "recovering"]
            /\ \E cutoff \in IF LateRestart THEN {now} ELSE 0..now :
                 boot'[g].todo = Crashed(cutoff)
         \/ g \notin Recovers /\ mode' = [mode EXCEPT ![g] = "up"]
      /\ Aside
  BY StartShape DEF Shapes
<1>2. mode[h] = "down"
  BY <1>0, <1>1 DEF Shapes, Lock
<1>3. h = g
  BY <1>0, <1>1, <1>2
<1>4. boot'[g].todo = Crashed(now)
  BY <1>1, <1>3
<1>5. Missed(h)' = {}
  <2>. SUFFICES ASSUME NEW i, i \in Missed(h)' PROVE FALSE
    OBVIOUS
  <2>1. i \in RowId /\ Running(i)' /\ i \notin boot'[g].todo
    BY <1>3, MissedParts
  <2>2. Running(i)
    BY <1>1, <2>1 DEF Running, Aside
  <2>3. record[i].at <= now
    BY <2>1 DEF Shapes, Dated
  <2>. QED BY <1>4, <2>1, <2>2, <2>3 DEF Crashed, Running
<1>6. Cardinality(Missed(h)') = 0 /\ faults' = faults
  BY <1>1, <1>5, FS_EmptySet DEF Aside
<1>. QED BY <1>0, <1>6

\* A row that is marked is no ghost.
LEMMA MarkCrashedHaunts ==
    ASSUME Shapes, Haunts, NEW g \in Engine, NEW i \in boot[g].todo,
           MarkCrashed(g, i)
    PROVE  Haunts'
<1>. SUFFICES ASSUME NEW h \in Recovers, mode'[h] # "down"
              PROVE  Cardinality(Missed(h)') <= faults'
  BY DEF Haunts
<1>0. faults \in Nat /\ h \in Engine
  BY Parts, Constants
<1>1. /\ i \in RowId
      /\ \A e \in Engine : e # g => boot'[e] = boot[e]
      /\ boot'[g].todo = boot[g].todo \ {i}
      /\ \A j \in RowId : j # i => record'[j] = record[j]
      /\ record'[i].status # "running"
      /\ mode' = mode /\ run' = run /\ faults' = faults
  BY MarkCrashedShape DEF Shapes
<1>2. ASSUME NEW j, j \in Missed(h)'
      PROVE  j \in Missed(h)
  <2>1. /\ j \in RowId /\ Running(j)'
        /\ run'[j[1]].pc \notin InSlot /\ j \notin boot'[h].todo
    BY <1>2, MissedParts
  <2>2. j # i /\ Running(j)
    BY <1>1, <2>1 DEF Running
  <2>3. j \notin boot[h].todo
    BY <1>0, <1>1, <2>1, <2>2
  <2>. QED BY <1>1, <2>1, <2>2, <2>3, MissedParts
<1>. QED BY <1>0, <1>1, <1>2, Fewer

\* What an engine that went down leaves is for the next one to deal with.
LEMMA FallHaunts ==
    ASSUME Shapes, Haunts, NEW g \in Engine, Falls(g)
    PROVE  Haunts'
<1>. SUFFICES ASSUME NEW h \in Recovers, mode'[h] # "down"
              PROVE  Cardinality(Missed(h)') <= faults'
  BY DEF Haunts
<1>0. faults \in Nat /\ h \in Engine /\ mode \in [Engine -> Mode]
      /\ run \in [Run -> Job]
  BY Parts, Constants
<1>1. /\ mode' = [mode EXCEPT ![g] = "down"]
      /\ \A e \in Engine : e # g => boot'[e] = boot[e]
      /\ record' = record /\ faults' = faults
      /\ \A q \in Run : IF run[q].engine = g /\ Live(q)
                        THEN run'[q].pc \in {"orphan", "lost"}
                        ELSE run'[q] = run[q]
  BY DEF Falls
<1>2. h # g /\ mode[h] # "down"
  BY <1>0, <1>1
<1>3. mode[g] = "down"
  BY <1>0, <1>2 DEF Shapes, Lock
<1>4. \A q \in Run : run'[q] = run[q]
  <2>1. \A q \in Run : ~(run[q].engine = g /\ Live(q))
    BY <1>3 DEF Shapes, Owned
  <2>. QED BY <1>1, <2>1
<1>5. ASSUME NEW i, i \in Missed(h)'
      PROVE  i \in Missed(h)
  <2>1. /\ i \in RowId /\ i[1] \in Run /\ Running(i)'
        /\ run'[i[1]].pc \notin InSlot /\ i \notin boot'[h].todo
    BY <1>5, MissedParts DEF RowId
  <2>2. Running(i)
    BY <1>1, <2>1 DEF Running
  <2>3. run'[i[1]] = run[i[1]] /\ boot'[h] = boot[h]
    BY <1>0, <1>1, <1>2, <1>4, <2>1
  <2>. QED BY <2>1, <2>2, <2>3, MissedParts
<1>. QED BY <1>0, <1>1, <1>2, <1>5, Fewer

\* The rest leaves no ghost.
LEMMA RestHaunts ==
    ASSUME Shapes, Haunts, Rests
    PROVE  Haunts'
<1>. SUFFICES ASSUME NEW h \in Recovers, mode'[h] # "down"
              PROVE  Cardinality(Missed(h)') <= faults'
  BY DEF Haunts
<1>0. faults \in Nat /\ h \in Engine
  BY Parts, Constants
<1>1. /\ run' = run /\ record' = record
      /\ boot'[h].todo = boot[h].todo
      /\ mode'[h] = mode[h] \/ mode[h] = "recovering"
      /\ faults' \in {faults, faults + 1}
  BY <1>0 DEF Rests
<1>2. mode[h] # "down"
  BY <1>1
<1>3. ASSUME NEW i, i \in Missed(h)'
      PROVE  i \in Missed(h)
  BY <1>1, <1>3, MissedParts DEF Running
<1>4. faults' \in Nat /\ faults <= faults'
  BY <1>0, <1>1
<1>. QED BY <1>2, <1>3, <1>4, Fewer

\* Every step of an engine that starts late keeps it.
LEMMA StepHaunts ==
    ASSUME LateRestart, Known, Haunts, [Next]_vars
    PROVE  Haunts'
<1>0. Shapes /\ TypeOK /\ Tokens /\ Claimed
  BY DEF Known, Tokens, Shapes
<1>1. ASSUME NEW r \in Run, Turn(r)
      PROVE  Haunts'
  BY <1>0, <1>1, TurnHaunts
<1>2. ASSUME NEW r \in Run, BodyEmits(r)
      PROVE  Haunts'
  <2>1. run[r].engine \in Engine
    BY <1>0, Parts, JobParts
  <2>. QED BY <1>0, <1>2, <2>1, BodyEmitsAdds, Constants, AddsHaunt
<1>3. ASSUME NEW g \in Engine, Emit(g)
      PROVE  Haunts'
  BY <1>0, <1>3, EmitAdds, Constants, AddsHaunt
<1>4. ASSUME NEW g \in Engine, Start(g)
      PROVE  Haunts'
  BY <1>0, <1>4, StartHaunts
<1>5. ASSUME NEW g \in Engine, NEW i \in boot[g].todo, MarkCrashed(g, i)
      PROVE  Haunts'
  BY <1>0, <1>5, MarkCrashedHaunts
<1>6. ASSUME NEW g \in Engine, NEW i \in boot[g].taken, Requeue(g, i)
      PROVE  Haunts'
  BY <1>0, <1>6, RequeueGrants, AddsHaunt
<1>7. ASSUME NEW g \in Engine, Down(g)
      PROVE  Haunts'
  BY <1>0, <1>7, DownShape, FallHaunts
<1>8. ASSUME Rests
      PROVE  Haunts'
  BY <1>0, <1>8, RestHaunts
<1>. QED BY <1>0, <1>1, <1>2, <1>3, <1>4, <1>5, <1>6, <1>7, <1>8, Kinds

\* If engines start later than the recovery timeout, a crash leaves no run
\* behind that nobody will look at again: every RUNNING row without a
\* coroutine is the work of a store call that raised.
THEOREM CrashesLeaveNoGhosts == LateRestart => (Spec => []NoGhosts)
<1>. SUFFICES ASSUME LateRestart PROVE Spec => []NoGhosts
  OBVIOUS
<1>. DEFINE I == Known /\ Haunts
<1>1. Init => I
  <2>1. Init => Haunts
    BY Constants DEF Init, Haunts
  <2>. QED BY <2>1, InitKnown
<1>2. I /\ [Next]_vars => I'
  BY StepKnown, StepHaunts
<1>3. I => NoGhosts
  <2>. SUFFICES ASSUME I, NEW g \in Recovers, mode[g] = "up"
                PROVE  Cardinality(Ghosts) <= faults
    BY DEF NoGhosts
  <2>1. g \in Engine /\ boot[g].todo = {}
    BY Constants DEF Known, Shapes, Lock
  <2>2. Missed(g) = Ghosts
    BY <2>1 DEF Missed
  <2>. QED BY <2>2 DEF Haunts
<1>. QED BY <1>1, <1>2, <1>3, PTL DEF Spec

-----------------------------------------------------------------------------
(* The engine implements Delivery.                                         *)

\* Run r is a run of task t.
Of(t, r) == /\ run[r].strategy = t[1] /\ run[r].cause = t[2]
            /\ Made(r)

\* How far a task is, told by a run that is live or has its result.
Tells(t) ==
    /\ \A r \in Run : Of(t, r) /\ Live(r) =>
         Reached(t) = IF run[r].pc \in InSlot THEN "running" ELSE "pending"
    /\ \A r \in Run : Of(t, r) /\ run[r].pc = "done" => Reached(t) = "done"
    /\ \A r \in Run : Of(t, r) /\ run[r].pc = "dead" => Reached(t) = "dead"
    /\ (\E r \in Run : Of(t, r))
         /\ (\A r \in Run : Of(t, r) => ~Live(r) /\ ~Over(r))
       => Reached(t) = "lost"
    /\ (\A r \in Run : ~Of(t, r)) => Reached(t) = "none"

\* Reached is what such a run tells.
LEMMA ReachedIs == Tokens => \A t \in Task : Tells(t)
<1>. SUFFICES ASSUME Tokens, NEW t \in Task PROVE Tells(t)
  OBVIOUS
<1>1. PICK pcs : pcs = {run[r].pc : r \in RunsOf(t)}
  OBVIOUS
<1>2. /\ pcs \cap InSlot # {} => Reached(t) = "running"
      /\ pcs \cap InSlot = {} =>
           /\ pcs \cap {"queued", "waiting", "backoff"} # {} =>
                Reached(t) = "pending"
           /\ pcs \cap {"queued", "waiting", "backoff"} = {} =>
                /\ "done" \in pcs => Reached(t) = "done"
                /\ "done" \notin pcs /\ "dead" \in pcs => Reached(t) = "dead"
                /\ "done" \notin pcs /\ "dead" \notin pcs =>
                     /\ pcs # {} => Reached(t) = "lost"
                     /\ pcs = {} => Reached(t) = "none"
  <2>1. PICK busy \in BOOLEAN : busy <=> pcs \cap InSlot # {}
    OBVIOUS
  <2>2. PICK held \in BOOLEAN :
            held <=> pcs \cap {"queued", "waiting", "backoff"} # {}
    OBVIOUS
  <2>3. PICK done \in BOOLEAN : done <=> "done" \in pcs
    OBVIOUS
  <2>4. PICK dead \in BOOLEAN : dead <=> "dead" \in pcs
    OBVIOUS
  <2>5. PICK some \in BOOLEAN : some <=> pcs # {}
    OBVIOUS
  <2>6. Reached(t) = IF busy THEN "running"
                     ELSE IF held THEN "pending"
                     ELSE IF done THEN "done"
                     ELSE IF dead THEN "dead"
                     ELSE IF some THEN "lost" ELSE "none"
    BY <1>1, <2>1, <2>2, <2>3, <2>4, <2>5 DEF Reached
  <2>7. /\ busy => Reached(t) = "running"
        /\ ~busy /\ held => Reached(t) = "pending"
        /\ ~busy /\ ~held /\ done => Reached(t) = "done"
        /\ ~busy /\ ~held /\ ~done /\ dead => Reached(t) = "dead"
        /\ ~busy /\ ~held /\ ~done /\ ~dead /\ some => Reached(t) = "lost"
        /\ ~busy /\ ~held /\ ~done /\ ~dead /\ ~some => Reached(t) = "none"
    BY <2>6
  <2>. QED BY <2>1, <2>2, <2>3, <2>4, <2>5, <2>7
<1>3. \A r \in Run : Of(t, r) => run[r].pc \in pcs
  BY <1>1 DEF RunsOf, Of, Made
<1>4. \A p \in pcs : \E r \in Run : Of(t, r) /\ run[r].pc = p
  BY <1>1 DEF RunsOf, Of, Made
<1>5. \A r, q \in Run : Of(t, r) /\ Of(t, q) => Same(r, q)
  BY DEF Of, Same
<1>6. \A r, q \in Run : Of(t, r) /\ Of(t, q) /\ Live(r) /\ Live(q) => r = q
  BY <1>5 DEF Tokens, OneRunPerTask, Same
<1>7. \A r, q \in Run : Of(t, r) /\ Of(t, q) /\ Over(r) =>
        ~Live(q) /\ (Over(q) => q = r)
  BY <1>5 DEF Tokens, Final
<1>8. ASSUME NEW r \in Run, Of(t, r), Live(r)
      PROVE  Reached(t) = IF run[r].pc \in InSlot THEN "running" ELSE "pending"
  <2>1. CASE run[r].pc \in InSlot
    <3>1. pcs \cap InSlot # {}
      BY <1>3, <1>8, <2>1
    <3>2. Reached(t) = "running"
      BY <1>2, <3>1
    <3>. QED BY <2>1, <3>2
  <2>2. CASE run[r].pc \notin InSlot
    <3>1. pcs \cap InSlot = {}
      <4>. SUFFICES ASSUME NEW p \in pcs, p \in InSlot PROVE FALSE
        OBVIOUS
      <4>1. PICK q \in Run : Of(t, q) /\ run[q].pc = p
        BY <1>4
      <4>2. Live(q)
        BY <4>1, LiveOf DEF InSlot
      <4>. QED BY <1>6, <1>8, <2>2, <4>1, <4>2
    <3>2. run[r].pc \in {"queued", "waiting", "backoff"}
      BY <1>8, <2>2, LiveOf DEF InSlot
    <3>3. pcs \cap {"queued", "waiting", "backoff"} # {}
      BY <1>3, <1>8, <3>2
    <3>4. Reached(t) = "pending"
      BY <1>2, <3>1, <3>3
    <3>. QED BY <2>2, <3>4
  <2>. QED BY <2>1, <2>2
<1>9. ASSUME \A r \in Run : Of(t, r) => ~Live(r)
      PROVE  /\ pcs \cap InSlot = {}
             /\ pcs \cap {"queued", "waiting", "backoff"} = {}
  <2>. SUFFICES ASSUME NEW p \in pcs,
                       p \in InSlot \/ p \in {"queued", "waiting", "backoff"}
                PROVE  FALSE
    OBVIOUS
  <2>1. PICK q \in Run : Of(t, q) /\ run[q].pc = p
    BY <1>4
  <2>2. Live(q)
    BY <2>1, LiveOf DEF InSlot
  <2>. QED BY <1>9, <2>1, <2>2
<1>10. ASSUME NEW r \in Run, Of(t, r), run[r].pc = "done"
       PROVE  Reached(t) = "done"
  <2>1. /\ pcs \cap InSlot = {}
        /\ pcs \cap {"queued", "waiting", "backoff"} = {}
    BY <1>7, <1>9, <1>10 DEF Over
  <2>2. "done" \in pcs
    BY <1>3, <1>10
  <2>. QED BY <1>2, <2>1, <2>2
<1>11. ASSUME NEW r \in Run, Of(t, r), run[r].pc = "dead"
       PROVE  Reached(t) = "dead"
  <2>1. /\ pcs \cap InSlot = {}
        /\ pcs \cap {"queued", "waiting", "backoff"} = {}
    BY <1>7, <1>9, <1>11 DEF Over
  <2>2. "done" \notin pcs
    <3>. SUFFICES ASSUME "done" \in pcs PROVE FALSE
      OBVIOUS
    <3>1. PICK q \in Run : Of(t, q) /\ run[q].pc = "done"
      BY <1>4
    <3>. QED BY <1>7, <1>11, <3>1 DEF Over
  <2>3. "dead" \in pcs
    BY <1>3, <1>11
  <2>. QED BY <1>2, <2>1, <2>2, <2>3
<1>12. ASSUME NEW q \in Run, Of(t, q),
              \A r \in Run : Of(t, r) => ~Live(r) /\ ~Over(r)
       PROVE  Reached(t) = "lost"
  <2>1. /\ pcs \cap InSlot = {}
        /\ pcs \cap {"queued", "waiting", "backoff"} = {}
    BY <1>9, <1>12
  <2>2. "done" \notin pcs /\ "dead" \notin pcs
    BY <1>4, <1>12 DEF Over
  <2>3. pcs # {}
    BY <1>3, <1>12
  <2>. QED BY <1>2, <2>1, <2>2, <2>3
<1>13. ASSUME \A r \in Run : ~Of(t, r)
       PROVE  Reached(t) = "none"
  <2>1. pcs = {}
    BY <1>4, <1>13
  <2>2. /\ pcs \cap InSlot = {}
        /\ pcs \cap {"queued", "waiting", "backoff"} = {}
        /\ "done" \notin pcs /\ "dead" \notin pcs
    BY <2>1
  <2>. QED BY <1>2, <2>1, <2>2
<1>. QED BY <1>8, <1>10, <1>11, <1>12, <1>13 DEF Tells

\* Every task is as far as its runs tell.
AllTell == \A t \in Task : Tells(t)

\* So it is after a step.
LEMMA ReachedNext == Tokens' => \A t \in Task : Tells(t)'
<1>1. Tokens => AllTell
  BY ReachedIs DEF AllTell
<1>2. Tokens' => AllTell'
  BY <1>1, PTL
<1>. QED BY <1>2 DEF AllTell

\* What a run tells of its task before and after the step.
Alike(r) ==
    \/ run'[r].pc = run[r].pc
    \/ run[r].pc \in {"orphan", "lost"} /\ run'[r].pc \in {"orphan", "lost"}
    \/ run[r].pc \in InSlot /\ run'[r].pc \in InSlot

\* A task whose runs all tell the same is as far as it was.
LEMMA SameReached ==
    ASSUME Tokens, Tokens', NEW t \in Task,
           \A r \in Run : /\ Of(t, r)' => Of(t, r)
                          /\ Of(t, r) => Of(t, r)' /\ Alike(r)
    PROVE  Reached(t)' = Reached(t)
<1>1. Tells(t) /\ Tells(t)'
  BY ReachedIs, ReachedNext
<1>2. ASSUME NEW r \in Run, Of(t, r), Live(r)
      PROVE  Reached(t)' = Reached(t)
  <2>1. Live(r)' /\ (run'[r].pc \in InSlot <=> run[r].pc \in InSlot)
    BY <1>2, LiveOf DEF Alike, InSlot
  <2>2. Of(t, r)'
    BY <1>2
  <2>3. Reached(t) = IF run[r].pc \in InSlot THEN "running" ELSE "pending"
    BY <1>1, <1>2 DEF Tells
  <2>4. Reached(t)' = IF run'[r].pc \in InSlot THEN "running" ELSE "pending"
    BY <1>1, <2>1, <2>2 DEF Tells
  <2>. QED BY <2>1, <2>3, <2>4
<1>3. ASSUME NEW r \in Run, Of(t, r), run[r].pc = "done"
      PROVE  Reached(t)' = Reached(t)
  <2>1. Of(t, r)' /\ run'[r].pc = "done"
    BY <1>3 DEF Alike, InSlot
  <2>. QED BY <1>1, <1>3, <2>1 DEF Tells
<1>4. ASSUME NEW r \in Run, Of(t, r), run[r].pc = "dead"
      PROVE  Reached(t)' = Reached(t)
  <2>1. Of(t, r)' /\ run'[r].pc = "dead"
    BY <1>4 DEF Alike, InSlot
  <2>. QED BY <1>1, <1>4, <2>1 DEF Tells
<1>5. CASE \A r \in Run : Of(t, r) => ~Live(r) /\ ~Over(r)
  <2>1. \A r \in Run : Of(t, r)' => ~Live(r)' /\ ~Over(r)'
    BY <1>5, LiveOf DEF Alike, Over, InSlot
  <2>2. CASE \E r \in Run : Of(t, r)
    <3>1. \E r \in Run : Of(t, r)'
      BY <2>2
    <3>2. Reached(t) = "lost"
      BY <1>1, <1>5, <2>2 DEF Tells
    <3>3. Reached(t)' = "lost"
      BY <1>1, <2>1, <3>1 DEF Tells
    <3>. QED BY <3>2, <3>3
  <2>3. CASE \A r \in Run : ~Of(t, r)
    <3>1. \A r \in Run : ~Of(t, r)'
      BY <2>3
    <3>2. Reached(t) = "none"
      BY <1>1, <2>3 DEF Tells
    <3>3. Reached(t)' = "none"
      BY <1>1, <3>1 DEF Tells
    <3>. QED BY <3>2, <3>3
  <2>. QED BY <2>2, <2>3
<1>. QED BY <1>2, <1>3, <1>4, <1>5 DEF Over

\* The mapped variable before and after a step.
LEMMA ProgressIs ==
    /\ Progress = [t \in Task |-> Reached(t)]
    /\ Progress' = [t \in Task |-> Reached(t)']
    /\ \A t \in Task : Progress[t] = Reached(t) /\ Progress'[t] = Reached(t)'
BY DEF Progress

\* Steps that Delivery calls Submit and Lose.
LEMMA MapsToMany ==
    ASSUME \/ \A t \in Task : \/ Reached(t)' = Reached(t)
                              \/ Reached(t) = "none" /\ Reached(t)' = "pending"
           \/ \A t \in Task : \/ Reached(t)' = Reached(t)
                              \/ /\ Reached(t) \in {"pending", "running"}
                                 /\ Reached(t)' = "lost"
    PROVE  Abstract!Next
<1>1. Progress' = [t \in Task |-> Progress'[t]]
  BY ProgressIs
<1>2. Abstract!Submit \/ Abstract!Lose
  BY ProgressIs DEF Abstract!Submit, Abstract!Lose, Abstract!Move
<1>. QED BY <1>1, <1>2 DEF Abstract!Next

\* Steps of one task.
LEMMA MapsToOne ==
    ASSUME NEW u,
           \A t \in Task : t # u => Reached(t)' = Reached(t),
           u \in Task =>
             \/ Reached(u)' = Reached(u)
             \/ Reached(u) = "pending" /\ Reached(u)' = "running"
             \/ Reached(u) = "running" /\ Reached(u)' = "pending"
             \/ Reached(u) = "running" /\ Reached(u)' = "done"
             \/ Reached(u) = "running" /\ Reached(u)' = "dead"
             \/ Reached(u) = "lost" /\ Reached(u)' = "pending"
    PROVE  Abstract!Next \/ Progress' = Progress
<1>1. CASE u \in Task /\ Reached(u)' # Reached(u)
  <2>1. Progress' = [t \in Task |-> Progress'[t]]
    BY ProgressIs
  <2>3. Abstract!OneMoves
    BY <1>1, ProgressIs DEF Abstract!OneMoves
  <2>4. \/ Abstract!Begin \/ Abstract!Retry \/ Abstract!Finish
        \/ Abstract!Resume
    BY <1>1, ProgressIs
       DEF Abstract!Begin, Abstract!Retry, Abstract!Finish, Abstract!Resume,
           Abstract!Move
  <2>. QED BY <2>1, <2>3, <2>4 DEF Abstract!Next
<1>2. CASE ~(u \in Task /\ Reached(u)' # Reached(u))
  <2>1. \A t \in Task : Reached(t)' = Reached(t)
    BY <1>2
  <2>. QED BY <2>1, ProgressIs
<1>. QED BY <1>1, <1>2

\* A step of one run.
LEMMA TurnMaps ==
    ASSUME Shapes, Tokens, Tokens', NEW r \in Run, Turn(r)
    PROVE  Abstract!Next \/ Progress' = Progress
<1>1. Advances(r) /\ Hops(r)
  BY DEF Turn
<1>2. /\ \A q \in Run : q # r => run'[q] = run[q]
      /\ run'[r].strategy = run[r].strategy /\ run'[r].cause = run[r].cause
  BY <1>1 DEF Advances
<1>3. PICK u : u = <<run[r].strategy, run[r].cause>>
  OBVIOUS
<1>4. Made(r) /\ Made(r)'
  BY <1>1 DEF Hops, Leads, Made
<1>5. \A t \in Task : \A q \in Run : Of(t, q)' <=> Of(t, q)
  BY <1>2, <1>4 DEF Of, Made
<1>6. \A t \in Task : t # u => ~Of(t, r)
  BY <1>3 DEF Of, Task
<1>7. ASSUME NEW t \in Task, t # u
      PROVE  Reached(t)' = Reached(t)
  <2>1. \A q \in Run : Of(t, q) => Alike(q)
    BY <1>2, <1>6, <1>7 DEF Alike
  <2>. QED BY <1>5, <2>1, SameReached
<1>8. CASE u \notin Task
  BY <1>7, <1>8, MapsToOne
<1>9. CASE u \in Task /\ Live(r) /\ ~(run'[r].pc = "lost")
  <2>1. Of(u, r) /\ Of(u, r)'
    BY <1>2, <1>3, <1>4 DEF Of
  <2>2. Tells(u) /\ Tells(u)'
    BY <1>9, ReachedIs, ReachedNext
  <2>3. Reached(u) = IF run[r].pc \in InSlot THEN "running" ELSE "pending"
    BY <1>9, <2>1, <2>2 DEF Tells
  <2>4. CASE Live(r)'
    <3>1. Reached(u)' = IF run'[r].pc \in InSlot THEN "running" ELSE "pending"
      BY <2>1, <2>2, <2>4 DEF Tells
    <3>. QED BY <1>7, <2>3, <3>1, MapsToOne
  <2>5. CASE ~Live(r)'
    <3>1. run[r].pc = "ended" /\ run'[r].pc \in {"done", "dead"}
      BY <1>1, <1>9, <2>5, LiveOf DEF Hops, Leads
    <3>2. Reached(u) = "running"
      BY <2>3, <3>1 DEF InSlot
    <3>3. Reached(u)' = "done" \/ Reached(u)' = "dead"
      BY <2>1, <2>2, <3>1 DEF Tells
    <3>. QED BY <1>7, <3>2, <3>3, MapsToOne
  <2>. QED BY <2>4, <2>5
<1>10. CASE u \in Task /\ Live(r) /\ run'[r].pc = "lost"
  <2>1. Of(u, r) /\ Of(u, r)'
    BY <1>2, <1>3, <1>4 DEF Of
  <2>2. Tells(u) /\ Tells(u)'
    BY <1>10, ReachedIs, ReachedNext
  <2>3. Reached(u) \in {"pending", "running"}
    BY <1>10, <2>1, <2>2 DEF Tells
  <2>4. ASSUME NEW q \in Run, Of(u, q)'
        PROVE  ~Live(q)' /\ ~Over(q)'
    <3>1. CASE q = r
      BY <1>10, <3>1, LiveOf DEF Over
    <3>2. CASE q # r
      <4>1. Same(q, r) /\ run'[q] = run[q]
        BY <1>2, <1>3, <1>5, <1>10, <2>1, <2>4, <3>2 DEF Of, Same
      <4>2. ~Live(q) /\ ~Over(q)
        BY <1>10, <3>2, <4>1 DEF Tokens, OneRunPerTask, Final, Same
      <4>. QED BY <4>1, <4>2, LiveOf DEF Over
    <3>. QED BY <3>1, <3>2
  <2>5. Reached(u)' = "lost"
    BY <2>1, <2>2, <2>4 DEF Tells
  <2>. QED BY <1>7, <2>3, <2>5, MapsToMany
<1>11. CASE u \in Task /\ ~Live(r)
  <2>1. run[r].pc = "orphan" /\ run'[r].pc = "lost"
    BY <1>1, <1>11, LiveOf DEF Hops, Leads
  <2>2. \A q \in Run : Alike(q)
    BY <1>2, <2>1 DEF Alike
  <2>3. Reached(u)' = Reached(u)
    BY <1>5, <1>11, <2>2, SameReached
  <2>. QED BY <1>7, <2>3, MapsToOne
<1>. QED BY <1>8, <1>9, <1>10, <1>11

\* A run that is handed out is live and waits.
LEMMA NewPends ==
    ASSUME Tokens', NEW t \in Task, NEW q \in Run, Of(t, q)',
           run'[q].pc = "queued"
    PROVE  Reached(t)' = "pending"
<1>1. Tells(t)'
  BY ReachedNext
<1>2. Live(q)' /\ run'[q].pc \notin InSlot
  BY LiveOf DEF InSlot
<1>. QED BY <1>1, <1>2 DEF Tells

\* A task without a new run is as far as it was.
LEMMA AddsSame ==
    ASSUME Shapes, Tokens, Tokens', NEW g \in Engine, NEW c \in AnyCause,
           NEW routes \in Seq(Strategy), NEW k \in 0..Len(routes),
           Adds(g, c, routes, k),
           NEW t \in Task, \A q \in New(k) : ~Of(t, q)'
    PROVE  Reached(t)' = Reached(t)
<1>1. \A q \in Run : q \notin New(k) =>
        /\ run'[q].strategy = run[q].strategy /\ run'[q].cause = run[q].cause
        /\ \/ run'[q].pc = run[q].pc
           \/ run[q].pc = "body" /\ run'[q].pc \in {"await", "ended"}
  BY DEF Adds, Kept
<1>2. ASSUME NEW q \in Run
      PROVE  /\ Of(t, q)' => Of(t, q)
             /\ Of(t, q) => Of(t, q)' /\ Alike(q)
  <2>1. CASE q \in New(k)
    <3>1. k \in Nat
      OBVIOUS
    <3>2. ~Made(q)
      BY <2>1, <3>1, OldRuns
    <3>. QED BY <2>1, <3>2 DEF Of
  <2>2. CASE q \notin New(k)
    BY <1>1, <2>2 DEF Of, Made, Alike, InSlot
  <2>. QED BY <2>1, <2>2
<1>. QED BY <1>2, SameReached

\* Runs that are the first of their tasks are submitted.
LEMMA FreshMaps ==
    ASSUME Shapes, Tokens, Tokens', NEW g \in Engine, NEW c \in AnyCause,
           NEW routes \in Seq(Strategy), NEW k \in 0..Len(routes),
           Adds(g, c, routes, k), \A q \in New(k) : Fresh(q)
    PROVE  Abstract!Next
<1>1. ASSUME NEW t \in Task
      PROVE  \/ Reached(t)' = Reached(t)
             \/ Reached(t) = "none" /\ Reached(t)' = "pending"
  <2>1. CASE \A q \in New(k) : ~Of(t, q)'
    BY <2>1, AddsSame
  <2>2. ASSUME NEW q \in New(k), Of(t, q)'
        PROVE  Reached(t) = "none" /\ Reached(t)' = "pending"
    <3>1. /\ q \in Run /\ run'[q].pc = "queued" /\ ~Made(q)
          /\ \A p \in Run : p # q /\ Made(p)' => ~Same(p, q)'
      <4>1. q \in Run /\ k \in Nat
        BY DEF Adds, Grants
      <4>. QED BY <4>1, OldRuns DEF Fresh
    <3>2. \A p \in Run : ~Of(t, p)
      <4>. SUFFICES ASSUME NEW p \in Run, Of(t, p) PROVE FALSE
        OBVIOUS
      <4>1. Made(p) /\ p # q
        BY <3>1 DEF Of
      <4>2. p \notin New(k)
        <5>1. k \in Nat
          OBVIOUS
        <5>. QED BY <4>1, <5>1, OldRuns
      <4>3. Of(t, p)'
        BY <4>1, <4>2 DEF Adds, Kept, Of, Made
      <4>. QED BY <2>2, <3>1, <4>1, <4>3 DEF Of, Same
    <3>3. Reached(t) = "none"
      BY <3>2, ReachedIs DEF Tells
    <3>. QED BY <2>2, <3>1, <3>3, NewPends
  <2>. QED BY <2>1, <2>2
<1>. QED BY <1>1, MapsToMany

\* The job of a recovery resumes a task that was lost.
LEMMA RequeueMaps ==
    ASSUME Known, Tokens', Serving, NEW g \in Engine,
           NEW i \in boot[g].taken, Requeue(g, i)
    PROVE  Abstract!Next \/ Progress' = Progress
<1>0. Shapes /\ Tokens /\ Claimed /\ issued \in Nat
  BY Parts DEF Known, Tokens
<1>1. PICK c \in AnyCause, s \in Strategy, routes \in Seq(Strategy) :
        \E k \in 0..Len(routes) :
          /\ c = run[i[1]].cause /\ s = run[i[1]].strategy
          /\ routes = <<s>> /\ k = 1
          /\ Adds(g, c, routes, k)
  BY <1>0, RequeueGrants
<1>2. PICK k \in 0..Len(routes) :
        /\ c = run[i[1]].cause /\ s = run[i[1]].strategy
        /\ routes = <<s>> /\ k = 1
        /\ Adds(g, c, routes, k)
  BY <1>1
<1>3. i[1] \in Run /\ Made(i[1])
  BY <1>0, RequeueAdds
<1>4. PICK q \in Run : q = issued + 1 /\ q \in New(k)
  <2>1. issued + 1 \in New(k)
    BY <1>0, <1>2 DEF New
  <2>. QED BY <1>2, <2>1 DEF Adds, Grants
<1>5. \A p \in New(k) : p = q
  BY <1>0, <1>2, <1>4 DEF New
<1>6. /\ run'[q].pc = "queued" /\ run'[q].cause = c /\ run'[q].strategy = s
  <2>1. q - issued = 1 /\ routes[1] = s
    BY <1>0, <1>2, <1>4
  <2>. QED BY <1>2, <1>4, <2>1 DEF Adds, Grants
<1>7. PICK u : u = <<s, c>>
  OBVIOUS
<1>8. ASSUME NEW t \in Task, t # u
      PROVE  Reached(t)' = Reached(t)
  <2>1. \A p \in New(k) : ~Of(t, p)'
    BY <1>5, <1>6, <1>7, <1>8 DEF Of, Task
  <2>. QED BY <1>0, <1>2, <2>1, AddsSame
<1>9. CASE u \in Task
  <2>1. Reached(u)' = "pending"
    BY <1>6, <1>7, <1>9, NewPends DEF Of, Made
  <2>2. Of(u, i[1])
    BY <1>2, <1>3, <1>7 DEF Of
  <2>3. ASSUME NEW p \in Run, Of(u, p)
        PROVE  ~Live(p) /\ ~Over(p)
    <3>1. Same(p, i[1])
      BY <2>2, <2>3 DEF Of, Same
    <3>2. InBoot(i) /\ Claims(i) /\ i \in RowId
      BY <1>0, OneBoots DEF Claims
    <3>3. ~Live(p)
      BY <1>0, <3>1, <3>2 DEF Tokens, LiveClaim
    <3>4. ~Over(p)
      BY <1>0, <1>3, <3>1, <3>2 DEF Tokens, Final
    <3>. QED BY <3>3, <3>4
  <2>4. Reached(u) = "lost"
    BY <1>0, <1>3, <1>9, <2>2, <2>3, ReachedIs DEF Tells
  <2>. QED BY <1>8, <2>1, <2>4, MapsToOne
<1>10. CASE u \notin Task
  BY <1>8, <1>10, MapsToOne
<1>. QED BY <1>9, <1>10

\* What was under way in an engine that goes down is lost.
LEMMA FallMaps ==
    ASSUME Tokens, Tokens', NEW g \in Engine, Falls(g)
    PROVE  Abstract!Next
<1>1. \A q \in Run :
        /\ run'[q].strategy = run[q].strategy /\ run'[q].cause = run[q].cause
        /\ IF run[q].engine = g /\ Live(q)
           THEN run'[q].pc \in {"orphan", "lost"}
           ELSE run'[q] = run[q]
  BY DEF Falls
<1>2. \A t \in Task : \A q \in Run : Of(t, q)' <=> Of(t, q)
  BY <1>1, LiveOf DEF Of, Made
<1>3. ASSUME NEW t \in Task
      PROVE  \/ Reached(t)' = Reached(t)
             \/ /\ Reached(t) \in {"pending", "running"}
                /\ Reached(t)' = "lost"
  <2>1. CASE \A q \in Run : Of(t, q) => ~(run[q].engine = g /\ Live(q))
    <3>1. \A q \in Run : Of(t, q) => Alike(q)
      BY <1>1, <2>1 DEF Alike
    <3>. QED BY <1>2, <3>1, SameReached
  <2>2. ASSUME NEW q \in Run, Of(t, q), run[q].engine = g, Live(q)
        PROVE  /\ Reached(t) \in {"pending", "running"}
               /\ Reached(t)' = "lost"
    <3>1. Tells(t) /\ Tells(t)'
      BY ReachedIs, ReachedNext
    <3>2. Reached(t) \in {"pending", "running"}
      BY <2>2, <3>1 DEF Tells
    <3>3. ASSUME NEW p \in Run, Of(t, p)'
          PROVE  ~Live(p)' /\ ~Over(p)'
      <4>1. CASE p = q
        <5>1. run'[p].pc \in {"orphan", "lost"}
          BY <1>1, <2>2, <4>1
        <5>. QED BY <5>1, LiveOf DEF Over
      <4>2. CASE p # q
        <5>1. Same(p, q)
          BY <1>2, <2>2, <3>3 DEF Of, Same
        <5>2. ~Live(p) /\ ~Over(p)
          BY <2>2, <4>2, <5>1 DEF Tokens, OneRunPerTask, Final, Same
        <5>3. run'[p] = run[p]
          BY <1>1, <5>2
        <5>. QED BY <5>2, <5>3, LiveOf DEF Over
      <4>. QED BY <4>1, <4>2
    <3>4. Reached(t)' = "lost"
      BY <1>2, <2>2, <3>1, <3>3 DEF Tells
    <3>. QED BY <3>2, <3>4
  <2>. QED BY <2>1, <2>2
<1>. QED BY <1>3, MapsToMany

\* Tasks do not care for the rest.
LEMMA SameRunsMap ==
    ASSUME Tokens, Tokens', run' = run
    PROVE  Progress' = Progress
<1>1. \A t \in Task : \A q \in Run : (Of(t, q)' <=> Of(t, q)) /\ Alike(q)
  BY DEF Of, Made, Alike
<1>2. \A t \in Task : Reached(t)' = Reached(t)
  BY <1>1, SameReached
<1>. QED BY <1>2, ProgressIs

\* Every step of the engine is one of Delivery, or leaves every task as far
\* as it was.
LEMMA StepMaps ==
    ASSUME Known, [Next]_vars
    PROVE  Abstract!Next \/ Progress' = Progress
<1>0. /\ Shapes /\ Tokens /\ Tokens' /\ Serving /\ TypeOK
  BY StepKnown DEF Known, Shapes
<1>1. ASSUME NEW r \in Run, Turn(r)
      PROVE  Abstract!Next \/ Progress' = Progress
  BY <1>0, <1>1, TurnMaps
<1>2. ASSUME NEW r \in Run, BodyEmits(r)
      PROVE  Abstract!Next
  <2>1. run[r].engine \in Engine
    BY <1>0, Parts, JobParts
  <2>. QED BY <1>0, <1>2, <2>1, BodyEmitsFresh, Constants, FreshMaps
<1>3. ASSUME NEW g \in Engine, Emit(g)
      PROVE  Abstract!Next
  BY <1>0, <1>3, EmitFresh, Constants, FreshMaps
<1>4. ASSUME NEW g \in Engine, Start(g)
      PROVE  Progress' = Progress
  BY <1>0, <1>4, StartShape, SameRunsMap
<1>5. ASSUME NEW g \in Engine, NEW i \in boot[g].todo, MarkCrashed(g, i)
      PROVE  Progress' = Progress
  BY <1>0, <1>5, MarkCrashedShape, SameRunsMap
<1>6. ASSUME NEW g \in Engine, NEW i \in boot[g].taken, Requeue(g, i)
      PROVE  Abstract!Next \/ Progress' = Progress
  BY <1>0, <1>6, RequeueMaps
<1>7. ASSUME NEW g \in Engine, Down(g)
      PROVE  Abstract!Next
  BY <1>0, <1>7, DownShape, FallMaps
<1>8. ASSUME Rests
      PROVE  Progress' = Progress
  BY <1>0, <1>8, SameRunsMap DEF Rests
<1>. QED BY <1>0, <1>1, <1>2, <1>3, <1>4, <1>5, <1>6, <1>7, <1>8, Kinds

\* The engine implements Delivery: attempts of a task never overlap, a
\* success or a dead letter is never followed by another attempt, and only
\* what was lost is resumed.
THEOREM EngineDelivers == Spec => Delivers
<1>1. Init => Abstract!Init
  <2>. SUFFICES ASSUME Init PROVE Abstract!Init
    OBVIOUS
  <2>1. \A t \in Task : \A r \in Run : ~Of(t, r)
    BY UnusedTyped DEF Init, Of, Made
  <2>2. \A t \in Task : Reached(t) = "none"
    BY <2>1, InitKnown, ReachedIs DEF Tells, Known
  <2>. QED BY <2>2 DEF Abstract!Init, Progress
<1>2. Known /\ [Next]_vars => Known'
  BY StepKnown
<1>3. Known /\ [Next]_vars => [Abstract!Next]_Progress
  BY StepMaps
<1>. QED BY <1>1, <1>2, <1>3, InitKnown, PTL
         DEF Spec, Delivers, Abstract!Spec
=============================================================================
