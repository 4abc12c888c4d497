------------------------------ MODULE HalfPool ------------------------------
(***************************************************************************)
(* One half (read or write) of the connection pool of src/pool.rs: a tokio *)
(* semaphore, the two atomic counters beside it and the two gauges that    *)
(* publish them.  Callers run on a multi-threaded runtime, so every atomic *)
(* operation, every gauge update and every critical section of the         *)
(* semaphore is a step of its own.                                         *)
(*                                                                         *)
(* The semaphore is tokio's and not in this repository: it is modelled as  *)
(* a FIFO wait list under a mutex.  A caller that finds too few permits    *)
(* takes what there is and joins the list; permits given back are dealt to *)
(* the list from its oldest end, under the mutex, before any is put back.  *)
(***************************************************************************)
EXTENDS Integers, Sequences, Totals

CONSTANTS
  Callers,     \* tasks that use this half of the pool
  Capacity,    \* read_connections or write_connections
  Sizes,       \* permits one request may ask for: 1 and the concurrency
  MaxCancels   \* bound: futures dropped while they wait, in one behaviour

ASSUME PoolAssumption ==
  /\ IsFiniteSet(Callers)
  /\ Capacity \in Nat \ {0}
  \* What S3ConfigBuilder::validate leaves, up to u32::MAX: beyond it acquire_bulk
  \* asks for `n as u32` and counts `n as u64`, which is Config's to show.
  /\ Sizes \subseteq 1 .. Capacity
  /\ MaxCancels \in Nat

VARIABLES
  permits,      \* permits in the semaphore
  spare,        \* permits being dealt out; the mutex is held while spare > 0
  waiters,      \* the semaphore's wait list, oldest first
  got,          \* permits assigned to each caller's waiter or permit guard
  want,         \* permits each caller's request is for, 0 outside a request
  active,       \* HalfPool.active
  queued,       \* HalfPool.queued
  activeGauge,  \* last value published as s3.pool.active
  queuedGauge,  \* last value published as s3.pool.queued
  pc,           \* where each caller is
  reg,          \* the local variable each caller last read a counter into
  cancelled     \* history: futures dropped while they waited

semaphore == <<permits, spare, waiters, got>>
vars == <<permits, spare, waiters, got, want, active, queued,
          activeGauge, queuedGauge, pc, reg, cancelled>>

\* Between queued.fetch_add and queued.fetch_sub of one request.
Queueing == {"entered", "loaded", "polling", "waiting", "elapsed",
             "granted", "refused"}
\* Between active.fetch_add and active.fetch_sub of one request.
Counted == {"counted", "holding"}
\* The caller's request has been served in full and not given back.
Owning == {"granted", "leaving_ok", "counting", "counted", "holding",
           "uncounted", "dropping"}
Steps == {"idle", "leaving_err"} \cup Queueing \cup Owning

Init ==
  /\ permits = Capacity
  /\ spare = 0
  /\ waiters = << >>
  /\ got = [c \in Callers |-> 0]
  /\ want = [c \in Callers |-> 0]
  /\ active = 0 /\ queued = 0
  /\ activeGauge = 0 /\ queuedGauge = 0
  /\ pc = [c \in Callers |-> "idle"]
  /\ reg = [c \in Callers |-> 0]
  /\ cancelled = 0

Goto(c, from, to) ==
  /\ pc[c] = from
  /\ pc' = [pc EXCEPT ![c] = to]

MutexFree == spare = 0

InLine(c) == \E i \in 1 .. Len(waiters) : waiters[i] = c

\* The wait list without one of its callers.
Without(s, c) ==
  IF \E i \in 1 .. Len(s) : s[i] = c
  THEN LET i == CHOOSE j \in 1 .. Len(s) : s[j] = c
       IN  [j \in 1 .. (Len(s) - 1) |-> IF j < i THEN s[j] ELSE s[j + 1]]
  ELSE s

-----------------------------------------------------------------------------
(* acquire(n): entering the queue *)

\* Mutant of Enter: a bulk request reserves one permit for itself as well.
EnterAskingOneMore(c, n) ==
  /\ Goto(c, "idle", "entered")
  /\ want' = [want EXCEPT ![c] = n + 1]
  /\ queued' = queued + 1
  /\ UNCHANGED <<semaphore, active, activeGauge, queuedGauge, reg, cancelled>>

\* queued.fetch_add(1).  acquire and acquire_bulk differ only in n, which is one
\* number for the semaphore and for `active` (PoolAssumption).
Enter(c, n) ==
  /\ Goto(c, "idle", "entered")
  /\ want' = [want EXCEPT ![c] = n]
  /\ queued' = queued + 1
  /\ UNCHANGED <<semaphore, active, activeGauge, queuedGauge, reg, cancelled>>

\* queued.load for the gauge's argument ...
LoadQueued(c) ==
  /\ Goto(c, "entered", "loaded")
  /\ reg' = [reg EXCEPT ![c] = queued]
  /\ UNCHANGED <<semaphore, want, active, queued, activeGauge, queuedGauge,
                 cancelled>>

\* ... and the gauge's set, after which the value is dead.
ShowEntered(c) ==
  /\ Goto(c, "loaded", "polling")
  /\ queuedGauge' = reg[c]
  /\ reg' = [reg EXCEPT ![c] = 0]
  /\ UNCHANGED <<semaphore, want, active, queued, activeGauge, cancelled>>

\* First poll of the acquire future: enough permits, taken in one exchange.
PollReady(c) ==
  /\ MutexFree
  /\ permits >= want[c]
  /\ Goto(c, "polling", "granted")
  /\ permits' = permits - want[c]
  /\ got' = [got EXCEPT ![c] = want[c]]
  /\ UNCHANGED <<spare, waiters, want, active, queued, activeGauge,
                 queuedGauge, reg, cancelled>>

\* Mutants of PollPending: the waiter leaves the permits it found in the pool;
\* the waiter joins the list at its head.
PollPendingEmptyHanded(c) ==
  /\ MutexFree
  /\ permits < want[c]
  /\ Goto(c, "polling", "waiting")
  /\ waiters' = Append(waiters, c)
  /\ UNCHANGED <<permits, got, spare, want, active, queued, activeGauge,
                 queuedGauge, reg, cancelled>>
PollPendingLifo(c) ==
  /\ MutexFree
  /\ permits < want[c]
  /\ Goto(c, "polling", "waiting")
  /\ got' = [got EXCEPT ![c] = permits]
  /\ permits' = 0
  /\ waiters' = <<c>> \o waiters
  /\ UNCHANGED <<spare, want, active, queued, activeGauge, queuedGauge, reg,
                 cancelled>>

\* First poll: too few.  The caller pockets what is left and joins the list.
PollPending(c) ==
  /\ MutexFree
  /\ permits < want[c]
  /\ Goto(c, "polling", "waiting")
  /\ got' = [got EXCEPT ![c] = permits]
  /\ permits' = 0
  /\ waiters' = Append(waiters, c)
  /\ UNCHANGED <<spare, want, active, queued, activeGauge, queuedGauge, reg,
                 cancelled>>

-----------------------------------------------------------------------------
(* acquire(n): leaving the queue *)

\* Woken after the dealer served it in full.
Repoll(c) ==
  /\ MutexFree
  /\ ~InLine(c)
  /\ Goto(c, "waiting", "granted")
  /\ UNCHANGED <<semaphore, want, active, queued, activeGauge, queuedGauge,
                 reg, cancelled>>

\* Mutant of Elapse: a waiter that was dealt something is not timed out.
ElapseEmptyHanded(c) ==
  /\ InLine(c) /\ got[c] = 0
  /\ Goto(c, "waiting", "elapsed")
  /\ UNCHANGED <<semaphore, want, active, queued, activeGauge, queuedGauge,
                 reg, cancelled>>

\* tokio::time::timeout polls the acquire first and the timer second: it
\* gives up only on a caller the poll found still in line.
Elapse(c) ==
  /\ InLine(c)
  /\ Goto(c, "waiting", "elapsed")
  /\ UNCHANGED <<semaphore, want, active, queued, activeGauge, queuedGauge,
                 reg, cancelled>>

\* The waiter's destructor: leave the list, give back whatever the dealer
\* assigned so far - all of it, if it was served since the timer fired.
Unlink(c) ==
  /\ MutexFree
  /\ waiters' = Without(waiters, c)
  /\ spare' = got[c]
  /\ got' = [got EXCEPT ![c] = 0]
  /\ UNCHANGED permits

DropWaiter(c) ==
  /\ Goto(c, "elapsed", "refused")
  /\ Unlink(c)
  /\ UNCHANGED <<want, active, queued, activeGauge, queuedGauge, reg,
                 cancelled>>

\* Mutant of Cancel: the waiter stays in the list.
CancelWithoutUnlink(c) ==
  /\ cancelled < MaxCancels
  /\ Goto(c, "waiting", "idle")
  /\ want' = [want EXCEPT ![c] = 0]
  /\ cancelled' = cancelled + 1
  /\ UNCHANGED <<semaphore, active, queued, activeGauge, queuedGauge, reg>>

\* The caller's task is dropped at the await: the waiter's destructor runs,
\* the rest of acquire does not.
Cancel(c) ==
  /\ cancelled < MaxCancels
  /\ Goto(c, "waiting", "idle")
  /\ Unlink(c)
  /\ want' = [want EXCEPT ![c] = 0]
  /\ cancelled' = cancelled + 1
  /\ UNCHANGED <<active, queued, activeGauge, queuedGauge, reg>>

\* Mutant of Leave: the early return of a timed-out acquire skips the counter.
LeaveOnSuccessOnly(c) ==
  /\ reg' = [reg EXCEPT ![c] = queued]
  /\ \/ Goto(c, "granted", "leaving_ok") /\ queued' = queued - 1
     \/ Goto(c, "refused", "leaving_err") /\ UNCHANGED queued
  /\ UNCHANGED <<semaphore, want, active, activeGauge, queuedGauge, cancelled>>

\* queued.fetch_sub(1), whatever the outcome.
Leave(c) ==
  /\ \/ Goto(c, "granted", "leaving_ok")
     \/ Goto(c, "refused", "leaving_err")
  /\ reg' = [reg EXCEPT ![c] = queued]
  /\ queued' = queued - 1
  /\ UNCHANGED <<semaphore, want, active, activeGauge, queuedGauge, cancelled>>

\* The gauge's set, with saturating_sub.
ShowLeft(c) ==
  /\ queuedGauge' = IF reg[c] = 0 THEN 0 ELSE reg[c] - 1
  /\ reg' = [reg EXCEPT ![c] = 0]
  /\ UNCHANGED <<semaphore, active, queued, activeGauge, cancelled>>

\* On to the permit guard ...
Admitted(c) ==
  /\ Goto(c, "leaving_ok", "counting")
  /\ ShowLeft(c)
  /\ UNCHANGED want

\* ... or out with ErrorKind::Timeout.
TimedOut(c) ==
  /\ Goto(c, "leaving_err", "idle")
  /\ ShowLeft(c)
  /\ want' = [want EXCEPT ![c] = 0]

-----------------------------------------------------------------------------
(* The permit guard *)

\* Mutant of CountActive: a bulk request counts as one permit.
CountActiveOnce(c) ==
  /\ Goto(c, "counting", "counted")
  /\ active' = active + 1
  /\ reg' = [reg EXCEPT ![c] = active + 1]
  /\ UNCHANGED <<semaphore, want, queued, activeGauge, queuedGauge, cancelled>>

\* active.fetch_add(n) ...
CountActive(c) ==
  /\ Goto(c, "counting", "counted")
  /\ active' = active + want[c]
  /\ reg' = [reg EXCEPT ![c] = active + want[c]]
  /\ UNCHANGED <<semaphore, want, queued, activeGauge, queuedGauge, cancelled>>

\* ... and its gauge.
ShowActive(c) ==
  /\ Goto(c, "counted", "holding")
  /\ activeGauge' = reg[c]
  /\ reg' = [reg EXCEPT ![c] = 0]
  /\ UNCHANGED <<semaphore, want, active, queued, queuedGauge, cancelled>>

\* Mutant of UncountActive: BulkPermit's drop subtracts what Permit's does.
UncountActiveOnce(c) ==
  /\ Goto(c, "holding", "uncounted")
  /\ reg' = [reg EXCEPT ![c] = active]
  /\ active' = active - 1
  /\ UNCHANGED <<semaphore, want, queued, activeGauge, queuedGauge, cancelled>>

\* Drop::drop of Permit and BulkPermit, on return and on cancellation alike:
\* active.fetch_sub(count) ...
UncountActive(c) ==
  /\ Goto(c, "holding", "uncounted")
  /\ reg' = [reg EXCEPT ![c] = active]
  /\ active' = active - want[c]
  /\ UNCHANGED <<semaphore, want, queued, activeGauge, queuedGauge, cancelled>>

\* ... its gauge ...
ShowInactive(c) ==
  /\ Goto(c, "uncounted", "dropping")
  /\ activeGauge' = reg[c] - want[c]
  /\ reg' = [reg EXCEPT ![c] = 0]
  /\ UNCHANGED <<semaphore, want, active, queued, queuedGauge, cancelled>>

\* Mutant of Release: _inner.forget() where the permit should be dropped.
ReleaseForgetting(c) ==
  /\ MutexFree
  /\ Goto(c, "dropping", "idle")
  /\ got' = [got EXCEPT ![c] = 0]
  /\ want' = [want EXCEPT ![c] = 0]
  /\ UNCHANGED <<permits, spare, waiters, active, queued, activeGauge,
                 queuedGauge, reg, cancelled>>

\* ... and only then the field _inner, which gives the permits back.
Release(c) ==
  /\ MutexFree
  /\ Goto(c, "dropping", "idle")
  /\ spare' = got[c]
  /\ got' = [got EXCEPT ![c] = 0]
  /\ want' = [want EXCEPT ![c] = 0]
  /\ UNCHANGED <<permits, waiters, active, queued, activeGauge, queuedGauge,
                 reg, cancelled>>

-----------------------------------------------------------------------------
(* The semaphore's dealer: add_permits_locked, one waiter at a time *)

\* Serve the oldest waiter as far as the spare permits go.
DealToHead ==
  /\ spare > 0
  /\ waiters # << >>
  /\ LET h    == Head(waiters)
         need == want[h] - got[h]
     IN  IF spare >= need
         THEN /\ got' = [got EXCEPT ![h] = want[h]]
              /\ spare' = spare - need
              /\ waiters' = Tail(waiters)
         ELSE /\ got' = [got EXCEPT ![h] = got[h] + spare]
              /\ spare' = 0
              /\ UNCHANGED waiters
  /\ UNCHANGED <<permits, want, active, queued, activeGauge, queuedGauge, pc,
                 reg, cancelled>>

\* Mutant of DealToPool: permits go back to the pool past the waiters.
DealToPoolPastWaiters ==
  /\ spare > 0
  /\ permits' = permits + spare
  /\ spare' = 0
  /\ UNCHANGED <<waiters, got, want, active, queued, activeGauge,
                 queuedGauge, pc, reg, cancelled>>

\* Nobody waits: what is left goes back to the pool.
DealToPool ==
  /\ spare > 0
  /\ waiters = << >>
  /\ permits' = permits + spare
  /\ spare' = 0
  /\ UNCHANGED <<waiters, got, want, active, queued, activeGauge,
                 queuedGauge, pc, reg, cancelled>>

Deal == DealToHead \/ DealToPool

\* What a caller's thread does without waiting for anything but the mutex.
Proceed(c) ==
  \/ LoadQueued(c) \/ ShowEntered(c) \/ PollReady(c) \/ PollPending(c)
  \/ Repoll(c) \/ DropWaiter(c) \/ Leave(c) \/ Admitted(c) \/ TimedOut(c)
  \/ CountActive(c) \/ ShowActive(c) \/ ShowInactive(c) \/ Release(c)

Next ==
  \/ \E c \in Callers :
       \/ \E n \in Sizes : Enter(c, n)
       \/ Proceed(c)
       \/ Elapse(c)
       \/ Cancel(c)
       \/ UncountActive(c)
  \/ Deal

Spec == Init /\ [][Next]_vars

-----------------------------------------------------------------------------
(* Properties *)

TypeOK ==
  /\ permits \in 0 .. Capacity
  /\ spare \in 0 .. Capacity
  /\ waiters \in Seq(Callers)
  /\ got \in [Callers -> 0 .. Capacity]
  /\ want \in [Callers -> {0} \cup Sizes]
  /\ active \in Int /\ queued \in Int
  /\ activeGauge \in Int /\ queuedGauge \in Int
  /\ pc \in [Callers -> Steps]
  /\ reg \in [Callers -> Int]
  /\ cancelled \in 0 .. MaxCancels

\* No timeout, cancellation or release, in any order, loses a permit or makes
\* one: what is free, in the dealer's hands and assigned is the capacity.
PermitsConserved == permits + spare + Total(got) = Capacity

\* When every call is over the pool is as new: no path out of acquire or of a
\* permit guard keeps a permit or a count (README, "Permits are always
\* released via RAII").
NoPermitLeak ==
  ((\A c \in Callers : pc[c] = "idle") /\ spare = 0)
    => (permits = Capacity /\ active = 0 /\ waiters = << >>)

\* `active` never claims a permit the semaphore could still give to someone
\* else: it is raised after the permits are taken, lowered before they go
\* back.
ActiveIsBacked == active + permits + spare <= Capacity

\* The debug_assert of both Drop impls, and the same for `queued`: no counter
\* is taken below zero, where an unsigned counter wraps.
CountersNeverUnderflow ==
  \A c \in Callers :
    /\ pc[c] = "holding" => active >= want[c]
    /\ pc[c] = "uncounted" => reg[c] >= want[c]
    /\ pc[c] \in {"granted", "refused"} => queued >= 1

\* `queued` counts the calls inside acquire - and every call that was dropped
\* there, for ever.
QueuedCountsCallsAndCancels ==
  queued = Cardinality({c \in Callers : pc[c] \in Queueing}) + cancelled

\* No permit lies idle while somebody waits, and only the caller whose turn it
\* is holds part of what it asked for: two bulk requests can never starve each
\* other with half a reservation each (acquire_many, not n times acquire).
OnlyTheHeadAccumulates ==
  /\ waiters # << >> => permits = 0
  /\ \A i \in 2 .. Len(waiters) : got[waiters[i]] = 0

\* A request exists for FifoPool from the first poll to the release or the end
\* of the wait.
Fifo == INSTANCE FifoPool WITH
  line <- waiters,
  ask  <- [c \in Callers |->
             IF pc[c] \in {"waiting", "elapsed"} \cup Owning
             THEN want[c] ELSE 0],
  held <- [c \in Callers |->
             IF pc[c] \in {"waiting", "elapsed"} \cup Owning /\ got[c] = want[c]
             THEN got[c] ELSE 0]

\* "Callers queue in FIFO order": every step is one of FifoPool's or none.
\* Requests are served in full, in order of arrival, through timeouts,
\* cancellations and releases.
KeepsFifoOrder == Fifo!FifoInit /\ [][Fifo!FifoNext]_(Fifo!fifoVars)

\* What the README says of s3.pool.queued: it "shows how many callers are
\* waiting", none when nobody calls.
IdlePoolCountsNoWaiter ==
  (\A c \in Callers : pc[c] = "idle") => queued = 0

\* What the README says of s3.pool.active: "permits currently held", none when
\* nobody calls.
IdlePoolShowsNoPermit ==
  (\A c \in Callers : pc[c] = "idle") => activeGauge = 0
=============================================================================
