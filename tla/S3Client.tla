------------------------------ MODULE S3Client ------------------------------
(***************************************************************************)
(* The operations of S3Client (src/client.rs) against the two halves of    *)
(* the pool and the per-operation metrics (src/metrics.rs).  A task runs   *)
(* one operation at a time: it starts the metrics, queues for its permits, *)
(* talks to S3, gives the permits back and records the outcome - or is     *)
(* dropped at one of the awaits on the way.                                *)
(*                                                                         *)
(* Each half of the pool is FifoPool, which HalfPool implements.  What     *)
(* happens inside one exchange with S3 is abstracted to its result;        *)
(* MultipartPut and RangeGet open up the two that consist of many.         *)
(***************************************************************************)
EXTENDS Integers, Sequences, FiniteSets

CONSTANTS
  Tasks,             \* tasks that share the client
  Mix,               \* the operations they call
  ReadConnections, ReadConcurrency,
  WriteConnections, WriteConcurrency,
  MaxOps,            \* bound: operations started in one behaviour
  MaxDrops,          \* bound: operations dropped mid-flight
  MaxTicks           \* bound: clock ticks one operation may live through

\* S3ConfigBuilder::validate.
ASSUME ClientAssumption ==
  /\ IsFiniteSet(Tasks)
  /\ Mix \subseteq {"put", "get", "delete", "head", "list"}
  /\ ReadConcurrency \in Nat \ {0} /\ ReadConnections \in Nat
  /\ ReadConnections >= ReadConcurrency + 1
  /\ WriteConcurrency \in Nat \ {0} /\ WriteConnections \in Nat
  /\ WriteConnections >= WriteConcurrency + 1
  /\ MaxOps \in Nat /\ MaxDrops \in Nat /\ MaxTicks \in Nat

VARIABLES
  rline, rask, rheld,   \* the read half of the pool
  wline, wask, wheld,   \* the write half
  op,        \* the operation each task runs
  step,      \* "stat" while get or head asks for the size, "data" otherwise
  big,       \* TRUE if the data goes by parts or ranges
  at,        \* how far the step is
  result,    \* what the step returned
  clock,     \* the operation's times, in ticks
  counters,  \* s3.op.total, s3.op.ok, s3.op.err, s3.op.cancelled
  recorded,  \* history: the last OpMetrics::record
  dropped    \* history: operations dropped mid-flight

readPool == <<rline, rask, rheld>>
writePool == <<wline, wask, wheld>>
vars == <<rline, rask, rheld, wline, wask, wheld, op, step, big, at, result,
          clock, counters, recorded, dropped>>

Read == INSTANCE FifoPool WITH
  Callers <- Tasks, Capacity <- ReadConnections,
  line <- rline, ask <- rask, held <- rheld
Write == INSTANCE FifoPool WITH
  Callers <- Tasks, Capacity <- WriteConnections,
  line <- wline, ask <- wask, held <- wheld

\* Mutant of Reads: list queues for the wrong half.
ReadsExceptList == {"get", "head"}
Reads == {"get", "head", "list"}
\* These keep their permit in the frame that records the outcome; the others
\* in a helper that returns before it (stat, simple_put, multipart_put, ...).
InlinePermit == {"delete", "list"}

\* `waiting` is the pool's clock for the current acquire, `known` what
\* add_queue_wait has been told, `backend` (history) the time with permits.
NewClock == [life |-> 0, waiting |-> 0, known |-> 0, backend |-> 0]
NoRecord == [status |-> "none", latency |-> 0, queue_wait |-> 0, duration |-> 0,
             backend |-> 0, untold |-> 0]

Init ==
  /\ Read!FifoInit
  /\ Write!FifoInit
  /\ op = [t \in Tasks |-> "none"]
  /\ step = [t \in Tasks |-> "data"]
  /\ big = [t \in Tasks |-> FALSE]
  /\ at = [t \in Tasks |-> "idle"]
  /\ result = [t \in Tasks |-> "none"]
  /\ clock = [t \in Tasks |-> NewClock]
  /\ counters = [total |-> 0, ok |-> 0, err |-> 0, cancelled |-> 0]
  /\ recorded = NoRecord
  /\ dropped = 0

-----------------------------------------------------------------------------
(* The pool, as an operation sees it *)

Reading(t) == op[t] \in Reads

Holds(t) == IF Reading(t) THEN rheld[t] > 0 ELSE wheld[t] > 0

\* One permit, or all the transfer may use at a time.
Need(t) ==
  IF big[t] /\ step[t] = "data"
  THEN IF Reading(t) THEN ReadConcurrency ELSE WriteConcurrency
  ELSE 1

\* An action of the half the task uses; the other half does not notice.
Arrive(t) ==
  IF Reading(t) THEN Read!Arrive(t, Need(t)) /\ UNCHANGED writePool
                ELSE Write!Arrive(t, Need(t)) /\ UNCHANGED readPool

Return(t) ==
  IF Reading(t) THEN Read!Return(t) /\ UNCHANGED writePool
                ELSE Write!Return(t) /\ UNCHANGED readPool

\* Mutant of GiveUp: permits granted in the meantime are left behind.
GiveUpPlace(t) ==
  IF Holds(t) THEN UNCHANGED <<readPool, writePool>>
  ELSE IF Reading(t) THEN Read!Abandon(t) /\ UNCHANGED writePool
                     ELSE Write!Abandon(t) /\ UNCHANGED readPool
\* An acquire that is given up may have been served since (HalfPool's Elapse).
GiveUp(t) ==
  IF Holds(t) THEN Return(t)
  ELSE IF Reading(t) THEN Read!Abandon(t) /\ UNCHANGED writePool
                     ELSE Write!Abandon(t) /\ UNCHANGED readPool

Goto(t, from, to) ==
  /\ at[t] = from
  /\ at' = [at EXCEPT ![t] = to]

\* Mutant of Duration: subtracted the wrong way round.
DurationBackwards(c) == c.known - c.life
\* latency.saturating_sub(queue_wait).
Duration(c) == IF c.life >= c.known THEN c.life - c.known ELSE 0

\* OpMetrics::record: three histograms, the queue wait's only if it is not zero.
\* `backend` and `untold` (history) are what the operation went through: its time
\* with permits, and the wait that add_queue_wait never heard of.
Record(t, status) ==
  recorded' = [status     |-> status,
               latency    |-> clock[t].life,
               queue_wait |-> clock[t].known,
               duration   |-> Duration(clock[t]),
               backend    |-> clock[t].backend,
               untold     |-> clock[t].waiting]

-----------------------------------------------------------------------------
(* One operation *)

\* start_operation.  A put knows from the body whether it goes by parts.
Start(t, o, b) ==
  /\ counters.total < MaxOps
  /\ b => o = "put"
  /\ Goto(t, "idle", "acquire")
  /\ op' = [op EXCEPT ![t] = o]
  /\ step' = [step EXCEPT ![t] = IF o \in {"get", "head"} THEN "stat" ELSE "data"]
  /\ big' = [big EXCEPT ![t] = b]
  /\ clock' = [clock EXCEPT ![t] = NewClock]
  /\ counters' = [counters EXCEPT !.total = @ + 1]
  /\ result' = [result EXCEPT ![t] = "none"]
  /\ UNCHANGED <<readPool, writePool, recorded, dropped>>

\* pool.read(), pool.write(), pool.read_bulk(n) or pool.write_bulk(n).  A
\* request served at its first poll never awaits: no timer, no queue wait.
Acquire(t) ==
  /\ at[t] = "acquire"
  /\ Arrive(t)
  /\ at' = [at EXCEPT ![t] =
              IF rheld'[t] + wheld'[t] > 0 THEN "busy" ELSE "waiting"]
  /\ UNCHANGED <<op, step, big, result, clock, counters, recorded, dropped>>

\* Mutant of QueueWait: only the last wait is told.
LastWait(c) == c.waiting
\* queue_wait += d.
QueueWait(c) == c.known + c.waiting

\* The wait is over: add_queue_wait(qw), then the request is sent.
Resume(t) ==
  /\ Holds(t)
  /\ Goto(t, "waiting", "busy")
  /\ clock' = [clock EXCEPT ![t].known = QueueWait(clock[t]), ![t].waiting = 0]
  /\ UNCHANGED <<readPool, writePool, op, step, big, result, counters,
                 recorded, dropped>>

\* ErrorKind::Timeout from the pool.  The `?` leaves a helper with the error,
\* but delete_object and list_objects themselves: finish() is skipped and the
\* metrics are dropped as they are.
TimeOut(t) ==
  /\ Goto(t, "waiting", IF op[t] \in InlinePermit THEN "dropped" ELSE "returned")
  /\ GiveUp(t)
  /\ result' = [result EXCEPT ![t] = "err"]
  /\ UNCHANGED <<op, step, big, clock, counters, recorded, dropped>>

\* S3 answers, or the SDK gives up.
Answer(t, r) ==
  /\ Goto(t, "busy", "answered")
  /\ result' = [result EXCEPT ![t] = r]
  /\ UNCHANGED <<readPool, writePool, op, step, big, clock, counters,
                 recorded, dropped>>

\* Mutant of EndOfStat: stat's permit lives as long as the whole get.
EndOfStatKeeping(t) == UNCHANGED <<readPool, writePool>>
\* stat returns, and _p with it.
EndOfStat(t) == Return(t)

\* The helper returns and its permit goes back.  A get that knows the size
\* goes on, queueing anew for one permit or for read_concurrency.
Release(t) ==
  /\ op[t] \notin InlinePermit
  /\ IF op[t] = "get" /\ step[t] = "stat" /\ result[t] = "ok"
     THEN /\ Goto(t, "answered", "acquire")
          /\ EndOfStat(t)
          /\ step' = [step EXCEPT ![t] = "data"]
          /\ \E b \in BOOLEAN : big' = [big EXCEPT ![t] = b]
     ELSE Goto(t, "answered", "returned") /\ Return(t) /\ UNCHANGED <<step, big>>
  /\ UNCHANGED <<op, result, clock, counters, recorded, dropped>>

\* The call returns: its frame is gone.
Forget(t) ==
  /\ op' = [op EXCEPT ![t] = "none"]
  /\ step' = [step EXCEPT ![t] = "data"]
  /\ big' = [big EXCEPT ![t] = FALSE]
  /\ result' = [result EXCEPT ![t] = "none"]
  /\ clock' = [clock EXCEPT ![t] = NewClock]

\* Mutant of Done: `done` is not set, so that the metrics' drop records too.
NotDone == "dropped"
\* With `done` set the drop has nothing to record.
Done == "idle"

\* finish(): m.ok() or m.err(), after which the metrics' drop does nothing.
Finish(t) ==
  /\ \/ /\ op[t] \notin InlinePermit
        /\ Goto(t, "returned", Done)
        /\ Forget(t)
     \/ /\ op[t] \in InlinePermit
        /\ Goto(t, "answered", "finished")
        /\ UNCHANGED <<op, step, big, result, clock>>
  /\ counters' = [counters EXCEPT ![result[t]] = @ + 1]
  /\ Record(t, result[t])
  /\ UNCHANGED <<readPool, writePool, dropped>>

\* delete_object and list_objects give the permit back last.
ReleaseLate(t) ==
  /\ Goto(t, "finished", "idle")
  /\ Return(t)
  /\ Forget(t)
  /\ UNCHANGED <<counters, recorded, dropped>>

\* The caller drops the future at an await: permits go first ...
Drop(t) ==
  /\ dropped < MaxDrops
  /\ Goto(t, "waiting", "dropped") \/ Goto(t, "busy", "dropped")
  /\ GiveUp(t)
  /\ dropped' = dropped + 1
  /\ UNCHANGED <<op, step, big, result, clock, counters, recorded>>

\* ... then OpMetrics, not done.
DropMetrics(t) ==
  /\ Goto(t, "dropped", "idle")
  /\ Forget(t)
  /\ counters' = [counters EXCEPT !.cancelled = @ + 1]
  /\ Record(t, "cancelled")
  /\ UNCHANGED <<readPool, writePool, dropped>>

\* Time passes while every running task awaits a permit or S3: what the client
\* computes in between takes none.
Tick ==
  /\ \E t \in Tasks : at[t] # "idle"
  /\ \A t \in Tasks :
       at[t] = "idle" \/ (at[t] \in {"waiting", "busy"} /\ clock[t].life < MaxTicks)
  /\ clock' = [t \in Tasks |->
       IF at[t] = "idle" THEN clock[t]
       ELSE [clock[t] EXCEPT !.life = @ + 1,
               !.waiting = IF at[t] = "waiting" THEN @ + 1 ELSE @,
               !.backend = IF at[t] = "busy" THEN @ + 1 ELSE @]]
  /\ UNCHANGED <<readPool, writePool, op, step, big, at, result, counters,
                 recorded, dropped>>

AdmitRead ==
  /\ Read!Admit
  /\ UNCHANGED <<writePool, op, step, big, at, result, clock, counters,
                 recorded, dropped>>
AdmitWrite ==
  /\ Write!Admit
  /\ UNCHANGED <<readPool, op, step, big, at, result, clock, counters,
                 recorded, dropped>>

\* Nobody uses the client.
Rest == (\A t \in Tasks : at[t] = "idle") /\ UNCHANGED vars

\* What a task does on its own once its permits and its answer are there.
Proceed(t) ==
  \/ Acquire(t) \/ Resume(t) \/ Release(t) \/ Finish(t) \/ ReleaseLate(t)
  \/ DropMetrics(t)

\* The operations that read.
Fetching(t) == op[t] \in {"get", "head", "list"}

Served(t) == \E r \in {"ok", "err"} : Answer(t, r)

PatientNext ==
  \/ \E t \in Tasks :
       \/ \E o \in Mix, b \in BOOLEAN : Start(t, o, b)
       \/ Proceed(t)
       \/ Served(t)
  \/ AdmitRead \/ AdmitWrite \/ Tick \/ Rest

Next ==
  \/ PatientNext
  \/ \E t \in Tasks : TimeOut(t) \/ Drop(t)

Spec == Init /\ [][Next]_vars

\* Without deadlines and drops.  The runtime and the pool run, and S3 answers
\* reads; it need not answer any write.
PatientSpec ==
  /\ Init /\ [][PatientNext]_vars
  /\ \A t \in Tasks : WF_vars(Proceed(t)) /\ WF_vars(Fetching(t) /\ Served(t))
  /\ WF_vars(AdmitRead) /\ WF_vars(AdmitWrite)

-----------------------------------------------------------------------------
(* Properties *)

TypeOK ==
  /\ rline \in Seq(Tasks) /\ wline \in Seq(Tasks)
  /\ rask \in [Tasks -> 0 .. ReadConnections]
  /\ rheld \in [Tasks -> 0 .. ReadConnections]
  /\ wask \in [Tasks -> 0 .. WriteConnections]
  /\ wheld \in [Tasks -> 0 .. WriteConnections]
  /\ op \in [Tasks -> Mix \cup {"none"}]
  /\ step \in [Tasks -> {"stat", "data"}]
  /\ big \in [Tasks -> BOOLEAN]
  /\ at \in [Tasks -> {"idle", "acquire", "waiting", "busy", "answered",
                       "returned", "finished", "dropped"}]
  /\ result \in [Tasks -> {"none", "ok", "err"}]
  /\ clock \in [Tasks -> [life : Nat, waiting : Nat, known : Nat, backend : Nat]]
  /\ counters \in [total : Nat, ok : Nat, err : Nat, cancelled : Nat]
  /\ recorded \in [status : {"none", "ok", "err", "cancelled"},
                   latency : Nat, queue_wait : Nat, duration : Nat,
                   backend : Nat, untold : Nat]
  /\ dropped \in 0 .. MaxDrops

\* Every operation that was started and is not under way any more has been
\* counted once, as ok, err or cancelled: no path skips the metrics, and none
\* records twice.
EachOperationCountedOnce ==
  counters.total = counters.ok + counters.err + counters.cancelled
                   + Cardinality({t \in Tasks : at[t] \notin {"idle", "finished"}})

\* A task that queues has given back what it held, in both halves: stat's
\* permit is gone before get queues for the data, or gets could wait for each
\* other's.
NoHoldAndWait ==
  \A t \in Tasks :
    (at[t] = "acquire" \/ (at[t] = "waiting" /\ ~Holds(t)))
      => rheld[t] = 0 /\ wheld[t] = 0

\* An operation that is over, however it ended, holds no permit and has no
\* place in a line.
NothingLeftBehind ==
  \A t \in Tasks :
    at[t] \in {"idle", "returned", "dropped"} =>
      /\ rheld[t] = 0 /\ wheld[t] = 0 /\ rask[t] = 0 /\ wask[t] = 0
      /\ t \notin {rline[i] : i \in 1 .. Len(rline)}
      /\ t \notin {wline[i] : i \in 1 .. Len(wline)}

\* What the three histograms tell, however the operation ends and however often
\* it queued: latency is queue wait and duration, and duration is the time with
\* permits - and the last wait of an operation that was refused or dropped in
\* line, which the metrics are not told of.
DurationCountsTheLostWait ==
  /\ recorded.latency = recorded.queue_wait + recorded.duration
  /\ recorded.duration = recorded.backend + recorded.untold
  /\ recorded.status = "ok" => recorded.untold = 0

\* Reads and writes do not contend: if S3 never answers a write and every
\* write permit is taken for ever, reads still come to an end.
ReadsFinishWhileWritesStall ==
  \A t \in Tasks : (at[t] # "idle" /\ Fetching(t)) ~> (at[t] = "idle")

\* "s3.op.cancelled: operations dropped mid-flight".
OnlyDropsCountAsCancelled == counters.cancelled <= dropped

\* "s3.op.duration = backend time (excludes queue wait)" (README), "latency minus
\* queue wait" (docs/design.md), of every operation that is recorded.
DurationExcludesQueueWait == recorded.duration = recorded.backend
=============================================================================
