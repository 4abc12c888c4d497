# Verification of the s3o client

TLA+ models of the S3 client in this repository (crate sources in `src/`), the
TLC runs that check them and the theorems TLAPS proves about them. Paths such
as `pool.rs:69` are relative to the crate's `src/` directory; `README.md` and
`docs/` below are the repository's own.

## The system

`S3Client` is a clonable handle: any number of tasks of a multi-threaded tokio
runtime call it at once. A call starts its metrics, queues for permits in one
half of a connection pool, talks to S3 through `aws-sdk-s3` (which retries on
its own), gives the permits back and records the outcome. Any call may also be
dropped at any of its awaits.

| Component | State | Operations |
|---|---|---|
| `HalfPool` (`pool.rs`) | tokio semaphore, `active` and `queued` atomics, two gauges | `acquire`, `acquire_bulk(n)`, `Drop` of `Permit` and `BulkPermit` |
| `Pool` (`pool.rs`) | a read half and a write half | `read`, `write`, `read_bulk`, `write_bulk` |
| `S3Client` (`client.rs`) | none of its own; one future per call | `put_object`, `get_object`, `delete_object`, `head_object`, `list_objects` |
| `OpMetrics` (`metrics.rs`) | start, queue wait, bytes, `done` | `start_operation`, `add_queue_wait`, `ok`, `err`, `Drop` |
| `multipart_put` (`client.rs`) | upload id, results of the parts | create, upload parts, abort or complete |
| `stat`, `simple_get`, `range_get` (`client.rs`) | size, results of the ranges | HEAD, GET, reassembly |
| `paginated_list` (`client.rs`) | continuation token, entries | pages until none is left |
| `S3ConfigBuilder` (`config.rs`) | options | `validate`, `build`, `max_throughput` |
| `classify`, `ErrorKind` (`error.rs`) | none | SDK error to one of nine kinds |

How they interact: a transfer of one request takes one permit, a multipart
upload or ranged download takes its whole concurrency at once, and its parts
rotate inside that reservation (`buffer_unordered`). HEAD, LIST and GET use the
read half, PUT and DELETE the write half. `get_object` queues twice, for HEAD
and for the data. The metrics learn of the queue wait when the permit arrives. A
list holds one permit for all its pages. Every SDK error goes through `classify`;
the pool's sizes are the ones `validate` let pass.

What is hard here, and what correctness means for each part:

* **Pool.** Counter, gauge and semaphore change in separate steps; a deadline
  can pass while a waiter is being served; a future can be dropped while it
  waits; bulk and single requests share one line. Correct: no permit is lost
  or made, the counters match the calls, service is first come first served,
  reservations are not gathered piecemeal, and a wait is bounded by the deadline.
* **Client and metrics.** Four ways out of a call (Ok, Err, `?`, drop). Correct:
  counted once, nothing left in the pool, no queueing with permits in hand,
  durations without queue waits, reads independent of writes.
* **Multipart upload.** Parts fail and finish in any order; answers get lost,
  requests are repeated; the future may be dropped half way; somebody else puts
  the same key. Correct: the object is one whole body or none, Ok means
  stored, nothing is completed or aborted while a part is under way, and an
  upload left open at the store has a known reason.
* **Ranged get.** The object may change between HEAD and the ranges, ranges
  finish in any order. Correct: bytes in order, none missing because a range
  failed, the object itself if nobody changed it.
* **Listing.** Keys and whole directories appear and vanish between two pages;
  a page fails half way; the store repeats a token or leaves it out. Correct: what
  stayed is listed, nothing twice, and no failed page passes for the last one.
* **Configuration.** Setters and preset in any order, values at the ends of
  `usize`, `u32` and the semaphore's range. Correct: no client comes out whose
  reservations its pool can never grant, and who follows a complaint gets on.
* **Errors.** Overlapping arms whose order matters. Correct: callers back off, give
  up and try again for the errors the store meant it for.

`PROJECT.json` lists the hazards line by line with the properties that cover them.

## Modules

| Module | Models |
|---|---|
| `FifoPool` | The contract of one half: a line, what each caller asked for and what it holds. A request is served in full, in order. |
| `Totals` | The sum of a function into Nat, as the size of a finite set. |
| `HalfPool` | `pool.rs`, one half, at the grain of atomics, gauges and the semaphore's critical sections. |
| `HalfPoolLiveness` | `HalfPool` under either kind of timeout, with its fairness: what must happen. |
| `S3Client` | The five operations, `OpMetrics` and both halves of the pool (two instances of `FifoPool`). |
| `Chunks` | How `range_get` cuts an object into pieces. |
| `MultipartPut` | `multipart_put` for several uploaders of one key, and the store they talk to. |
| `RangeGet` | One `get_object` against a key that others overwrite and delete. |
| `ErrorKinds` | `classify`, and the kinds an error may be given. |
| `Listing` | One `list_objects` over the pages of a bucket that others change. |
| `Reads` | `RangeGet` and `Listing` together, one call of either per behaviour. |
| `Config` | `S3ConfigBuilder`, `validate` and a caller who follows its messages. |
| `MC*` | Instances for TLC. |
| `TotalsProofs`, `HalfPoolProofs`, `S3ClientProofs`, `ChunksProofs`, `MultipartPutProofs`, `ListingProofs`, `ReadsProofs`, `ConfigProofs` | Theorems. |

`HalfPool` implements `FifoPool`, two of which are the pool of `S3Client`. What
`S3Client` calls one exchange is opened up in `MultipartPut`, `RangeGet`, which cuts with
`Chunks`, and `Listing`, which classifies with `ErrorKinds`. `Config` gives
the sizes that the other modules assume.

### HalfPool and the code

`pc[c]` is where caller `c` is in `acquire`/`acquire_bulk` or in its guard's
life. The two functions differ only in the number of permits, `want[c]`, which is
both the `n as u32` asked of the semaphore and the `n as u64` counted in `active`: the
module is of sizes up to `u32::MAX`, above which `Config` shows that they differ.
`Enter`, `LoadQueued`, `ShowEntered` are the `fetch_add`, the `load` and the
gauge of lines 63-68; `PollReady` and `PollPending` are the first poll of the
semaphore; `Repoll` and `Elapse` the two ends of `tokio::time::timeout`, which
polls the acquire before the timer; `Leave`, `ShowLeft` are lines 70-71,
reached on success and on timeout alike; `CountActive`, `ShowActive` lines
77-78; `UncountActive`, `ShowInactive`, `Release` the destructors, which lower
the counter before their field `_inner` returns the permits. `reg[c]` is the
local copy between a counter's update and its gauge. `Cancel` is the drop of
the future at its only await.

The semaphore is tokio's, modelled from how `pool.rs` uses it: a request that
finds too few permits pockets what is there and joins the list; released
permits are dealt to the oldest waiter first, waiter by waiter, under a mutex
(`spare > 0`); the destructor of a waiting request unlinks it and gives back
what it was dealt, all of it if it was served in the meantime. Wake-ups are
not modelled apart (tokio wakes in batches of 32): a waiter that was served can
poll. The branch for a closed semaphore is left out, since nothing in the
repository closes one. A task dropped between its grant and the next poll is
the `Cancel` of a waiter that owns all it wants.

### S3Client and the code

`at[t]` goes acquire, waiting, busy, answered, returned. `stat`, `simple_put`,
`simple_get`, `multipart_put` and `range_get` return their permit before the
caller records the outcome (`Release`, then `Finish`); `delete_object` and
`list_objects` hold it in the same frame as the metrics (`Finish`, then
`ReleaseLate`), and a pool timeout leaves them by `?` past `finish` (`TimeOut`
to `dropped`, then `DropMetrics`). `clock` is counted in ticks that pass only
at awaits: `known` is what `add_queue_wait` was told, `waiting` a wait it has not
been told of yet. `recorded` is what `OpMetrics::record` published last - latency, queue
wait and duration - beside what it was: `backend`, the time with S3, and `untold`,
the wait it did not know. One exchange with S3 is one `Answer`.

### MultipartPut, RangeGet, Listing and the code

`launched`, `flight`/`sent`, `results` are the state of
`buffer_unordered(..).collect()`: requests start in order, at most the
concurrency at once, and finish in any order. All of them are tried even after
one has failed. `Collect`/`Finish` is the code after the `collect`. The store
answers a request when it executes it; a request may be lost, executed
without its answer arriving, arrive after the SDK has given up on it, or be repeated by the
SDK: after its answer was lost (`Retry`) or while it was still on its way, in
which case the store executes one of the two and the other stays on its way, and only
the later attempt's answer is read (`ExecuteOneOfTwo`: for a create, which opens an
upload nobody knows of; a part, complete or abort executed once more changes nothing).
The store's rules are the S3 documentation's as far as the code
relies on them: a completed upload closes, its list of parts must ascend and
name stored parts, an unknown upload is an error, a range that starts past the
end is an error, one that ends past it is cut. In `RangeGet` a response carries a
slice: a version and the positions from its first byte up to its end, so that a body
of several versions can be told apart. `Tile` says that slices meet, from the first
byte to the last. The version of a response is fixed when the response begins. A HEAD may
be answered without a length, which the code takes for an empty object; that is no fault.

`reserved[u]` is `_bulk` of `multipart_put`: taken before create, given back on
return or drop. Which uploader gets it first is `FifoPool`'s matter; here it is
any that fits.

In `Listing` a key is a number, the order of the names; `Entries` rolls the keys of a
directory up into one entry that stands where its first key does, as the store
does for the delimiter. `token` is the last entry of the page before; a page
begins behind it, as the store's tokens do. `times` is the vector `entries`: how
often it has each. A page may be short. The store may answer with any SDK error
(`LosePage`), with the token it was asked with, or with a truncated page and no
token; `quirks` remembers the last two, at which the properties make their exceptions. A
last page may carry a token too, which is no fault and means nothing.

### Config, ErrorKinds and the code

`option` is the builder's numeric fields, `Value` their `unwrap_or`. `Build` is
`build` with `validate` and `S3Client::from_config`'s `Semaphore::new`: the first of
`Checks` that fails is the complaint, and a pool above `MAX_PERMITS` panics.
`PlusOne` wraps as `+ 1` does in a release build, `Reserved` truncates as `n as u32`
does. `Repair` is the caller: it sets the least that the message asks for and builds again.
The options `build` does not look at are left out. `Classify` has the arms of
`classify` in their order; the text of an error is reduced to what the arms look for.

## Runs

| Run | Question | Result |
|---|---|---|
| `half_pool_safety` | Permits, counters, order of service under all interleavings, timeouts and a cancellation | holds, 420 000 states |
| `half_pool_liveness` | Does every acquire return although holders never do; without deadlines, is everybody served, promptly, if holders finish? | holds, 95 000 states |
| `half_pool_cancelled_waiter` | Does `queued` show how many are waiting? | violated, finding 1 |
| `half_pool_stale_gauge` | Does the gauge show the permits held? | violated, finding 2 |
| `client_safety` | Accounting, hold-and-wait, leftovers and durations of all five operations | holds, 1 230 000 states |
| `client_isolation` | Do reads end while no write is ever answered? | holds, 142 000 states |
| `client_timeout_cancelled` | Does `cancelled` count dropped operations? | violated, finding 3 |
| `client_refused_duration` | Does the recorded duration exclude the queue wait? | violated, finding 5 |
| `multipart` | Two uploads of one key under faults | holds, 547 000 states |
| `multipart_orphan` | Is a failed upload aborted? | violated, finding 4 |
| `range_get` | Reassembly while the key changes; listing while the bucket changes | holds, 170 000 states |
| `config` | Does a bad pool pass, does advice lead anywhere? | holds, 718 000 states |

Why the bounds are enough:

* Pool: capacity 3 and requests for 1 or 2 give every relation of request and
  remainder: served at once, partly served, two served by one release. Three
  callers make a holder, a head and somebody behind it. `half_pool_liveness`
  takes capacity 2, where a bulk request needs all. Where its deadlines pass only two
  callers call, since a holder never lets go and a third caller would only wait likewise;
  where none passes the third (`Extra`) calls too, for single permits.
* Client: three operations by three tasks, on halves of 3 permits with
  concurrency 2, the least `validate` accepts for it, so that a bulk transfer leaves
  one permit over and the third caller, or a second bulk one, waits. Two ticks are enough
  for one in each of a get's two waits.
* Multipart: three parts at width two reach a part in flight, one finished and one not
  begun; two faults let a part and its abort fail, a request be
  repeated and its answer be lost again, or three attempts of a create be under way; two uploaders of one key, whose reservations fit
  side by side.
* Ranged get: pieces of two positions, lengths from none to five, so that an
  object ends inside, at the start and at the end of a piece, and is above, at
  or below the threshold; two overwrites and one fault.
* Listing: five keys, two of them a directory, and pages of at most two, so that
  there are up to five pages and the directory lies within a page or on
  its border. Two changes let a directory vanish, or a key move; one page fails or is
  answered wrongly, with an error behind each arm of `classify` or next to one.
* Configuration: `usize`, `u32` and `MAX_PERMITS` are scaled down to 127, 31 and 63,
  which keeps their order; three calls, of values at and around each limit, are
  enough to set connections and concurrency of a half and override them by the preset, and repairs may
  follow.

Each property has a mutant: a variant of one mapped definition, defined beside
it, that a plausible mistake would make of the code and that the run detects
(`PROJECT.json`, "mutants"). The definitions whose comment begins "Mutant" are
those; no specification uses them.

Symmetry is used only in `half_pool_safety` and `client_safety`, which check
invariants and one step property, all symmetric in callers and tasks. No run
switches deadlock checking off: the client at rest and a finished transfer are
explicit `Rest` steps, and the callers of the pool can always call again.

### Fairness

* `HalfPoolLiveness!Running`: the executor polls a task that can go on, and the thread
  that holds the semaphore's mutex goes on dealing. Strong fairness for
  callers, because the mutex they need is taken and released by others: a
  thread is not overtaken for ever at `parking_lot`'s or std's mutex.
* `TimersFire` adds, for the timeout that callers run into, that timers fire (tokio's time
  driver), and nothing about holders. `HoldersFinish` adds, for the timeout that nobody
  lives to see, that holders finish.
* `S3Client!PatientSpec`: tasks are polled, the pool admits (which `HalfPool`
  implements), S3 answers reads. Nothing is assumed of writes.
* `MultipartPut!FairSpec`, `Reads!FairReadsSpec`: the future is polled and a
  request that is sent ends. That is assumed of the environment: the SDK bounds its
  attempts, but `from_config` sets no timeout for one. Nothing is assumed of the
  others who use the bucket; their changes and the store's faults are bounded,
  since a store that repeats one token for ever keeps `list_objects` for ever.

## What is proved

TLAPS checks these for every value of the constants that satisfies the
module's assumption. `PoolAssumption`: finitely many callers, a positive capacity, request sizes
from 1 to the capacity (what `validate` ensures, as connections exceed the
concurrency), any number of cancellations. `ClientAssumption`: finitely many tasks,
connections above the concurrency in each half, any number of operations,
drops and ticks. `UploadAssumption`: finitely many uploaders, any positive number of parts,
a positive concurrency with more connections than that, any number of faults.
`RangeAssumption`: any positive chunk size and concurrency, any threshold and set of
lengths, any number of overwrites and faults. `ListingAssumption`: any finite set of
keys, a directory whose keys are neighbours, any page size, any number of
changes and faults. `ConfigAssumption`: `u32` narrower than the semaphore's bound
and that narrower than `usize`, any values, any number of calls.

| Module | Theorem | States |
|---|---|---|
| `HalfPoolProofs` | `TypeCorrect` | `[]TypeOK`; permits and the dealer's hand stay within the capacity |
| | `NoPermitLostOrMade` | `[]PermitsConserved` |
| | `QuiescentPoolIsFull` | `[]NoPermitLeak` |
| | `ActiveWithinCapacity` | `[]ActiveIsBacked` |
| | `NoUnderflow` | `[]CountersNeverUnderflow` |
| | `QueuedDrifts` | `[]QueuedCountsCallsAndCancels` |
| | `NoPartialHolders` | `[]OnlyTheHeadAccumulates` |
| | `StaysFifo` | `KeepsFifoOrder`: each step is one of `FifoPool` or a stutter |
| `S3ClientProofs` | `TypeCorrect` | `[]TypeOK` |
| | `CountedOnce` | `[]EachOperationCountedOnce` |
| | `EmptyHanded` | `[]NoHoldAndWait` |
| | `AllGivenBack` | `[]NothingLeftBehind` |
| | `DurationsAddUp` | `[]DurationCountsTheLostWait` |
| | `NeverOverbooked` | no more permits are held than a half has connections |
| `ChunksProofs` | `PiecesFit`, `PiecesTile` | every length is tiled by its pieces, none empty or too long, each byte in exactly one |
| `MultipartPutProofs` | `TypeCorrect` | `[]TypeOK` |
| | `WholeOrNothing` | `[]ObjectIsOneWholeBody` |
| | `OkIsStored` | `[]OkMeansStored` |
| | `PartsHavePermits` | `[]RequestsHavePermits` |
| | `PartsSettledFirst` | `[]EveryPartSettledFirst` |
| | `FaultFreeSucceeds` | `[]FaultFreeUploadSucceeds` |
| | `OrphansHaveCauses` | `[]EveryOrphanHasACause` |
| `ReadsProofs` | `QuietGetsSucceed` | `[]QuietGetSucceeds` |
| | `QuietGetReturns` | `[]QuietGetReturnsTheObject` |
| | `OrderedBytes` | `[]BytesInOrder` |
| | `WholeUnlessShrunk` | `[]OkIsWholeUnlessShrunk` |
| | `EveryRead` | `ReadsSpec => Spec /\ ListSpec`: what holds of either call holds of a client with both |
| | `ReadsTypeCorrect` | `ReadsSpec => []ReadsTypeOK` |
| `ListingProofs` | `ListsOnce` | `ListSpec => []NothingListedTwice` |
| | `ListsWhatStayed` | `ListSpec => []OkListsWhatStayed` |
| | `ListsErrorKind`, `ClassifyFits` | `ListSpec => []ListErrorFits`; every error of the SDK, whatever its status, gets a kind that fits |
| `ConfigProofs` | `TypeCorrect` | `[]TypeOK` |
| | `EveryClientCanTransfer` | `[]ClientCanTransfer`, at any width of the integers |
| | `DefaultsAndPresetBuild` | `[]DefaultsAndPresetPass` |
| | `AdviceSettles` | `[]AdviceIsEnough` |

The argument for the pool (`HalfPoolProofs`). None of the properties is
inductive alone. `IInv` adds what ties the parts together: `Asking` (a caller
has asked for something exactly while it is in a call), `LineOK` (the list
holds waiting callers, each once), `Owned` (a caller in line has less than it
wants, one taken out of the line has all of it, before and after it has
nothing), `ActiveCounts` (`active` is the total of what the callers between
`fetch_add` and `fetch_sub` want) and `RegOK` (the value a destructor read
covers what it subtracts). Conservation needs `Owned`, or a release could give
back something else than was taken; `Owned` needs `LineOK`, or the dealer could
serve a caller that has left; the bounds of `TypeOK` need conservation. One
lemma per conjunct goes through the actions one by one. Sums are cardinalities
of finite sets (`Totals`), and `TotalsProofs` has what the argument needs of
them: a total changes by what one element changes, is monotone and covers each
element.

The argument for the client (`S3ClientProofs`). Its `IInv` adds `Halves` (in each half,
who is in line is there once and holds nothing, who holds something holds what it asked for),
`Placed` (only an operation between its acquire and its release has asked for anything,
and only in its own half), `Resulted` (what `finish` counts is there) and `Clocked` (an
operation's life is known waits, one unknown wait and time with S3; the unknown one is
under way, or was the last). `NoHoldAndWait` and `NothingLeftBehind` follow from the first two:
every way out of a call passes `Return` or `Abandon`, after which its task has
asked for nothing. Counting needs that the operations under way change one at a time.
`NeverOverbooked` follows from the contract's guards and `TotalsProofs`.

The argument for the listing (`ListingProofs`). `ListIInv` adds that the token
splits the entries (`TokenSplits`: what is listed lies at or before it, what stayed and
lies there is listed, and while the call runs nothing behind it is listed) and
that a call that has not begun has nothing (`Untouched`). A page holds the least entries
behind the token and its last one becomes the token (`PageFacts`), so the split moves
on. A change between two pages only shrinks what stayed and only grows what was there.

The refinement (`StaysFifo`, in `HalfPoolProofs`). A caller is in `FifoPool`'s line while
it is in the semaphore's, asks for `want` from its first poll to its release, and holds
all of it or nothing: `got` counts only once it is `want`. So `FifoPool`'s free
permits are the spare ones and what the head of the line was dealt so far
(`NoPartialHolders`). One lemma for each action finds the step it is: a first poll arrives,
the dealer's hand that fills the head's request admits it, a timeout or drop in
line leaves it, a release gives back, and the counters, the gauges and every hand
that does not fill a request are stutters. A waiter that is served and dropped
before its next poll gives back what it held.

The argument for the uploads (`MultipartPutProofs`). `IInv` adds `Rotation` (what was
launched is in flight or has ended, once), `OneAnswer` (an answer goes to somebody
who awaits it and is the only one: of two attempts one is read), `Numbered` (at most one
id more than there were faults), `CompleteIsDue` (a complete is sent, or on its way, only
when all parts ended well), `AnswersTrue` (what a good answer tells is so at the store)
and `ClosedOrLost`. `WholeOrNothing` needs `CompleteIsDue` also for a request that is
still on its way when its caller has gone. For `FaultFreeSucceeds` the state without a
fault is described in full (`Faultless`): every request is awaited, every answer good, and
the store has the upload and each part the client counts.

The argument for the gets (`ReadsProofs`). `GetIInv` adds `EachPieceOnce` (a launched
piece is waited for, read or finished, once), `SlicesRight` (whatever came for
piece *i* is piece *i* as HEAD's size cuts it, from the version HEAD saw or a later one,
cut short only by that version's end), `ErrorsDue` (a piece fails by a fault, or because
the key has changed) and `Complete` (the body of a success is such a slice in each place). As many
results as pieces, all different, are all the pieces (`AllPiecesIn`, a counting argument), so
the sorted body lacks none. `PiecesFit` then makes the slices meet (`PiecesMeet`).
`QuietGetSucceeds` needs that no piece begins at the end of the object, which is again
`PiecesFit`.

The argument for the configuration (`ConfigProofs`). That a client can transfer follows from
the type invariant: the verdict is a function of the options, and a half that passes
`TooFew` has more connections than `concurrency`, unless `concurrency + 1` has wrapped.
The other two are about the past, and `History` says what it leaves: `Judged` (the
verdict is the one on the options there are), `Untouched` (where nothing was set since the
preset, the options are the defaults or the preset) and `Settled` (a complaint that was
followed passes now, and so does each check before it in `Checks`). `RepairSettles` is the step: what one
repair sets for a later check leaves the earlier ones passing.

Only model-checked: the liveness properties (`EveryAcquireReturns`, `NoStarvation`,
`ReadsFinishWhileWritesStall`, `EveryUploadEnds`, `EveryGetEnds`, `EveryListEnds`) and
`ImplementsFifoPool`, whose safety part is `StaysFifo` and whose fairness part needs
ENABLED. TLAPS does not prove these, and each run checks them on its instance only.

## Findings

1. A future dropped while it waits for a permit stays counted in `queued`
   (`pool.rs:69`, `pool.rs:98`): the gauge never returns to zero. `QueuedDrifts`
   proves by exactly how much it drifts.
2. Counter and gauge are updated in two steps; the gauges may end on a stale
   value (`pool.rs:77`, `pool.rs:22`, and for `queued` lines 63-71).
3. `delete_object` and `list_objects` skip `finish` when the pool times out
   (`client.rs:110`, `client.rs:147`): counted as `cancelled`, not as `err`.
4. A failed `CompleteMultipartUpload` is not followed by an abort
   (`client.rs:366-379`).
5. A wait that ends in a timeout or a drop is never told to the metrics
   (`client.rs:158`, `metrics.rs:67-69`), so `s3.op.duration` of such an operation
   contains it, although the repository's README says that the duration excludes queue
   wait (line 54, line 140; `docs/design.md:94-103` likewise). `DurationsAddUp` proves by
   exactly how much, and that no operation that succeeds is concerned.

Others were met and are not kept as runs, because nothing in the repository says
otherwise or only an absurd input shows them; the properties name them as exceptions:

* A range GET that fails leaves by `?` before `metrics::http` (`client.rs:415-422`), so
  it is in no `s3.http` metric, unlike a failed simple GET.
* At a concurrency of `usize::MAX` the check's `+ 1` wraps to zero and any pool passes
  (`config.rs:134`); above `u32::MAX` `n as u32` reserves less than the concurrency
  (`pool.rs:98`); above tokio's `MAX_PERMITS` `from_config` panics on a configuration that
  `validate` accepted (`pool.rs:53`); `max_retries as u32 + 1` wraps (`client.rs:45`).
* A store that repeats a token makes `list_objects` list entries twice, or run for as long as it
  does; a truncated page without a token ends the listing with Ok (`client.rs:265-267`).

What is by design and no finding: a ranged get of a key that is being overwritten
may return bytes of several versions, and a get of one that shrank may return
fewer bytes than HEAD told, with bytes missing in the middle when a piece of an
older, longer version follows (no request is conditional, nothing in the
documentation promises otherwise). `BytesInOrder` and `OkIsWholeUnlessShrunk` state what is left.

## Not modelled

Byte counters, the byte rate and the `s3.http` metrics, which decide nothing;
tracing and error messages; checksums; the options `build` does not look at; a negative
`content_length`, which only a broken store sends; the store's limit of 10 000 parts,
which nothing in the code could hold off; the example; SDK internals (signing, TLS, HTTP,
back-off). The interview exercise is a teaching copy of the pool outside the crate,
whose lines are `HalfPool`'s actions one for one: a model of it would be `HalfPool`
again.

## Plan

Done: the models above, in the order of importance (the pool is what every operation goes
through, the transfers are where data can be lost, the listing is where it can be
overlooked), and the proofs of every safety property of every passing run. What could
come next: an abstract register that the uploads and the gets of one key implement, so that
`ObjectIsOneWholeBody` and `QuietGetReturnsTheObject` meet in one statement.
