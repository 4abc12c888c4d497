---------------------------- MODULE MultipartPut ----------------------------
(***************************************************************************)
(* S3Client::multipart_put (src/client.rs): uploaders that each put one    *)
(* large body under the same key, by parts, against an object store that   *)
(* may answer late, execute a request whose answer is lost, or never see   *)
(* it.  An uploader runs from the moment the pool grants it its            *)
(* write_concurrency permits to the moment multipart_put returns; the      *)
(* queue before that is FifoPool's.                                        *)
(*                                                                         *)
(* The store and the SDK's retries are not in this repository: they are    *)
(* modelled from the calls the code makes, at the level of the four        *)
(* requests of a multipart upload.                                         *)
(***************************************************************************)
EXTENDS Integers, Sequences, FiniteSets, Totals

CONSTANTS
  Uploaders,         \* calls of put_object on one key
  NParts,            \* parts of each body: total.div_ceil(chunk_size)
  WriteConnections,  \* permits of the write half
  WriteConcurrency,  \* permits reserved, and the width of buffer_unordered
  MaxFaults          \* bound: failures, retries and drops, in one behaviour

\* A body goes by parts only if it is longer than multipart_threshold, so it
\* has a part.
ASSUME UploadAssumption ==
  /\ IsFiniteSet(Uploaders)
  /\ NParts \in Nat \ {0}
  /\ WriteConcurrency \in Nat \ {0}
  /\ WriteConnections \in Nat /\ WriteConnections >= WriteConcurrency + 1
  /\ MaxFaults \in Nat

VARIABLES
  phase,     \* where each uploader is
  reserved,  \* permits it holds: _bulk
  uid,       \* the upload id it was given, 0 before
  launched,  \* parts handed to buffer_unordered so far, in order
  flight,    \* parts whose future is being polled
  results,   \* the finished parts in order of completion: <<part, ok or err>>
  outcome,   \* what multipart_put returned
  network,   \* requests on their way to the store
  answers,   \* the store's answers on their way back
  created,   \* upload ids the store has given each uploader
  open,      \* uploads the store keeps: <<uploader, id>>
  partsAt,   \* parts the store keeps: <<<<uploader, id>>, part>>
  object,    \* the object under the key: whose body, which parts in order
  stored,    \* history: uploaders whose upload the store has completed
  faults,    \* faults so far
  lost       \* history: <<uploader, request kind>> an uploader saw fail

client == <<phase, reserved, uid, launched, flight, results, outcome>>
store == <<created, open, partsAt, object, stored>>
vars == <<phase, reserved, uid, launched, flight, results, outcome, network,
          answers, created, open, partsAt, object, stored, faults, lost>>

Parts == 1 .. NParts

Request(u, kind, n) == [by |-> u, kind |-> kind, n |-> n]
Requests ==
  {Request(u, kind, 0) : u \in Uploaders, kind \in {"create", "complete", "abort"}}
    \cup {Request(u, "part", n) : u \in Uploaders, n \in Parts}

\* The request an uploader's future awaits, if any; for parts, one per future.
Awaits(r) ==
  CASE r.kind = "create"   -> phase[r.by] = "creating"
    [] r.kind = "part"     -> phase[r.by] = "uploading" /\ r.n \in flight[r.by]
    [] r.kind = "complete" -> phase[r.by] = "completing"
    [] r.kind = "abort"    -> phase[r.by] = "aborting"

Init ==
  /\ phase = [u \in Uploaders |-> "idle"]
  /\ reserved = [u \in Uploaders |-> 0]
  /\ uid = [u \in Uploaders |-> 0]
  /\ launched = [u \in Uploaders |-> 0]
  /\ flight = [u \in Uploaders |-> {}]
  /\ results = [u \in Uploaders |-> << >>]
  /\ outcome = [u \in Uploaders |-> "none"]
  /\ network = {} /\ answers = {}
  /\ created = [u \in Uploaders |-> 0]
  /\ open = {} /\ partsAt = {}
  /\ object = [by |-> "nobody", parts |-> << >>]
  /\ stored = {}
  /\ faults = 0
  /\ lost = {}

-----------------------------------------------------------------------------
(* The uploader *)

\* write_bulk(wc) is granted, and create_multipart_upload sent.
Create(u) ==
  /\ phase[u] = "idle"
  /\ Total(reserved) + WriteConcurrency <= WriteConnections
  /\ reserved' = [reserved EXCEPT ![u] = WriteConcurrency]
  /\ phase' = [phase EXCEPT ![u] = "creating"]
  /\ network' = network \cup {Request(u, "create", 0)}
  /\ UNCHANGED <<uid, launched, flight, results, outcome, answers, store, faults,
                 lost>>

\* Mutant of MoreParts: one part more than the body has.
MorePartsThanBody(u) == launched[u] <= NParts
MoreParts(u) == launched[u] < NParts

\* Mutant of WidthFree: one part more in flight than there are permits.
WidthAndOneFree(u) == Cardinality(flight[u]) <= WriteConcurrency
WidthFree(u) == Cardinality(flight[u]) < WriteConcurrency

\* buffer_unordered(wc) polls the next part as soon as fewer than wc are in
\* flight, whether the others succeeded or not.
LaunchPart(u) ==
  /\ phase[u] = "uploading"
  /\ MoreParts(u)
  /\ WidthFree(u)
  /\ launched' = [launched EXCEPT ![u] = @ + 1]
  /\ flight' = [flight EXCEPT ![u] = @ \cup {launched[u] + 1}]
  /\ network' = network \cup {Request(u, "part", launched[u] + 1)}
  /\ UNCHANGED <<phase, reserved, uid, results, outcome, answers, store, faults,
                 lost>>

PartsThatEnded(u, verdict) ==
  {n \in Parts : \E i \in 1 .. Len(results[u]) : results[u][i] = <<n, verdict>>}
OkParts(u) == PartsThatEnded(u, "ok")
FailedParts(u) == PartsThatEnded(u, "err")

\* Mutant of Collected: the first error does not wait for the other parts.
CollectedAtFirstError(u) == Len(results[u]) = NParts \/ FailedParts(u) # {}
\* collect().await
Collected(u) == Len(results[u]) = NParts

\* Mutants of AfterParts: the parts that succeeded are completed; an error is
\* returned without an abort; the abort is waited for but never sent.
AfterPartsIgnoringErrors(u) == "completing"
AfterPartsNoAbort(u) == IF FailedParts(u) # {} THEN "ended" ELSE "completing"
AfterPartsWaiting(u) == IF FailedParts(u) # {} THEN "uploading" ELSE "completing"
\* Any error aborts the upload, none completes it.
AfterParts(u) == IF FailedParts(u) # {} THEN "aborting" ELSE "completing"

\* All parts are in.
Collect(u) ==
  /\ phase[u] = "uploading"
  /\ Collected(u)
  /\ phase' = [phase EXCEPT ![u] = AfterParts(u)]
  /\ network' = network \cup
       {Request(u, kind, 0) : kind \in
          {k \in {"complete", "abort"} :
             <<phase'[u], k>> \in {<<"completing", "complete">>, <<"aborting", "abort">>}}}
  /\ UNCHANGED <<reserved, uid, launched, flight, results, outcome, answers,
                 store, faults, lost>>

\* What multipart_put returns after its last request: Ok only for a complete
\* that was answered well.  Mutant: nobody looks at that answer.
ReturnedUnchecked(r, ok) == IF r.kind = "complete" THEN "ok" ELSE "err"
Returned(r, ok) == IF r.kind = "complete" /\ ok THEN "ok" ELSE "err"

\* What an uploader does when the request it awaits comes to an end, well or
\* not.  A failed abort is only logged; the error returned is the first part's.
Settled(r, ok, id) ==
  LET u == r.by
      verdict == IF ok THEN "ok" ELSE "err"
  IN  /\ lost' = IF ok THEN lost ELSE lost \cup {<<u, r.kind>>}
      /\ CASE r.kind = "create" /\ ok ->
                /\ phase' = [phase EXCEPT ![u] = "uploading"]
                /\ uid' = [uid EXCEPT ![u] = id]
                /\ UNCHANGED <<reserved, launched, flight, results, outcome>>
           [] r.kind = "part" ->
                /\ flight' = [flight EXCEPT ![u] = @ \ {r.n}]
                /\ results' = [results EXCEPT ![u] = Append(@, <<r.n, verdict>>)]
                /\ UNCHANGED <<phase, reserved, uid, launched, outcome>>
           [] OTHER ->
                /\ phase' = [phase EXCEPT ![u] = "ended"]
                /\ reserved' = [reserved EXCEPT ![u] = 0]
                /\ outcome' = [outcome EXCEPT ![u] = Returned(r, ok)]
                /\ UNCHANGED <<uid, launched, flight, results>>

Answered(r) == \E a \in answers : a.to = r

Receive(r) ==
  /\ Awaits(r)
  /\ \E a \in answers :
       /\ a.to = r
       /\ answers' = answers \ {a}
       /\ Settled(r, a.ok, a.id)
  /\ UNCHANGED <<network, store, faults>>

\* The SDK gives up on the request: it is lost, or may yet reach the store, or
\* its answer is lost.
Fail(r) ==
  /\ faults < MaxFaults
  /\ Awaits(r)
  /\ Settled(r, FALSE, 0)
  /\ network' \in {network, network \ {r}}
  /\ answers' = {a \in answers : a.to # r}
  /\ faults' = faults + 1
  /\ UNCHANGED store

\* The SDK sends the request again (max_retries): its answer is lost.
Retry(r) ==
  /\ faults < MaxFaults
  /\ Awaits(r)
  /\ Answered(r)
  /\ network' = network \cup {r}
  /\ answers' = {a \in answers : a.to # r}
  /\ faults' = faults + 1
  /\ UNCHANGED <<client, store, lost>>

\* put_object's future is dropped, and _bulk with it: nothing is sent any
\* more, and no answer is read.
Drop(u) ==
  /\ faults < MaxFaults
  /\ phase[u] \notin {"idle", "ended", "dropped"}
  /\ phase' = [phase EXCEPT ![u] = "dropped"]
  /\ reserved' = [reserved EXCEPT ![u] = 0]
  /\ answers' = {a \in answers : a.to.by # u}
  /\ faults' = faults + 1
  /\ UNCHANGED <<uid, launched, flight, results, outcome, network, store, lost>>

-----------------------------------------------------------------------------
(* The store *)

\* parts.sort_by_key(part_number) of the parts that carry an etag.
\* Mutant: they stay in order of completion.
ListedUnsorted(u) == [i \in 1 .. Len(results[u]) |-> results[u][i][1]]
Listed(u) ==
  LET parts == OkParts(u)
  IN  [i \in 1 .. Cardinality(parts) |->
         CHOOSE n \in parts : Cardinality({m \in parts : m <= n}) = i]

Ascending(s) == \A i, j \in 1 .. Len(s) : i < j => s[i] < s[j]

Close(id) ==
  /\ open' = open \ {id}
  /\ partsAt' = {p \in partsAt : p[1] # id}

\* The effect of a request, and the answer to it.
Effect(r, ok) ==
  LET u  == r.by
      id == <<u, uid[u]>>
  IN
    \/ /\ ok /\ r.kind = "create"
       /\ created' = [created EXCEPT ![u] = @ + 1]
       /\ open' = open \cup {<<u, created[u] + 1>>}
       /\ UNCHANGED <<partsAt, object, stored>>
    \/ /\ ok /\ r.kind = "part" /\ id \in open
       /\ partsAt' = partsAt \cup {<<id, r.n>>}
       /\ UNCHANGED <<created, open, object, stored>>
    \/ /\ ok /\ r.kind = "complete" /\ id \in open
       /\ Ascending(Listed(u))
       /\ \A i \in 1 .. Len(Listed(u)) : <<id, Listed(u)[i]>> \in partsAt
       /\ object' = [by |-> u, parts |-> Listed(u)]
       /\ stored' = stored \cup {u}
       /\ Close(id)
       /\ UNCHANGED created
    \/ /\ ok /\ r.kind = "abort" /\ id \in open
       /\ Close(id)
       /\ UNCHANGED <<created, object, stored>>
    \/ /\ ~ok /\ r.kind # "create"
       /\ id \notin open \/ (r.kind = "complete" /\ ~Ascending(Listed(u)))
       /\ UNCHANGED store

\* An answer is kept for who awaits it and has not been answered yet.
Execution(r, ok) ==
  /\ Effect(r, ok)
  /\ answers' = IF Awaits(r) /\ ~Answered(r)
                THEN answers \cup {[to |-> r, ok |-> ok, id |-> created'[r.by]]}
                ELSE answers
  /\ UNCHANGED <<client, lost>>

Execute(r) ==
  /\ r \in network
  /\ network' = network \ {r}
  /\ \E ok \in BOOLEAN : Execution(r, ok)
  /\ UNCHANGED faults

\* The SDK has sent a create again while an attempt that took too long was
\* still on its way.  Only the later attempt's answer is read.  That the store
\* executes it first and the other is still to come is this step; that the
\* other is first comes to the same as Execute and Retry.  A part, complete or
\* abort that was executed changes nothing when it is executed once more, so
\* that a second attempt at it need not be kept.
ExecuteOneOfTwo(r) ==
  /\ r \in network /\ r.kind = "create"
  /\ faults < MaxFaults
  /\ faults' = faults + 1
  /\ \E ok \in BOOLEAN : Execution(r, ok)
  /\ UNCHANGED network

\* Every call is over and nothing is on its way.
Rest ==
  /\ \A u \in Uploaders : phase[u] \in {"ended", "dropped"}
  /\ network = {}
  /\ UNCHANGED vars

Next ==
  \/ \E u \in Uploaders : Create(u) \/ LaunchPart(u) \/ Collect(u) \/ Drop(u)
  \/ \E r \in Requests : Receive(r) \/ Fail(r) \/ Retry(r) \/ Execute(r)
                           \/ ExecuteOneOfTwo(r)
  \/ Rest

Spec == Init /\ [][Next]_vars

\* The runtime polls what can go on, and the store executes and answers.
\* Nothing of it can be done for ever, so that nothing is passed over.
Running ==
  \/ \E u \in Uploaders : Create(u) \/ LaunchPart(u) \/ Collect(u)
  \/ \E r \in Requests : Execute(r) \/ Receive(r)
FairSpec == Spec /\ WF_vars(Running)

-----------------------------------------------------------------------------
(* Properties *)

TypeOK ==
  /\ phase \in [Uploaders -> {"idle", "creating", "uploading", "completing",
                              "aborting", "ended", "dropped"}]
  /\ reserved \in [Uploaders -> 0 .. WriteConcurrency]
  /\ uid \in [Uploaders -> 0 .. (MaxFaults + 1)]
  /\ launched \in [Uploaders -> 0 .. NParts]
  /\ flight \in [Uploaders -> SUBSET Parts]
  /\ results \in [Uploaders -> Seq(Parts \X {"ok", "err"})]
  /\ outcome \in [Uploaders -> {"none", "ok", "err"}]
  /\ network \subseteq Requests
  /\ answers \subseteq [to : Requests, ok : BOOLEAN, id : 0 .. (MaxFaults + 1)]
  /\ created \in [Uploaders -> 0 .. (MaxFaults + 1)]
  /\ open \subseteq Uploaders \X (1 .. (MaxFaults + 1))
  /\ partsAt \subseteq open \X Parts
  /\ object.parts \in Seq(Parts)
  /\ stored \subseteq Uploaders
  /\ faults \in 0 .. MaxFaults

\* Whatever fails, is retried, arrives late or is dropped, and whoever else
\* puts the same key: the object is absent or one body, whole and in order.
ObjectIsOneWholeBody ==
  object.by # "nobody" => object.parts = [i \in Parts |-> i]

\* put_object returns Ok only for a body the store has taken.
OkMeansStored ==
  \A u \in Uploaders : outcome[u] = "ok" => u \in stored

\* "Parts flow within reserved slots": every request an upload awaits, from
\* create to the abort or complete, has a permit of its own among the ones the
\* upload still holds, and the uploads together hold no more than there are.
RequestsHavePermits ==
  /\ \A u \in Uploaders :
       Cardinality({r \in Requests : r.by = u /\ Awaits(r)}) <= reserved[u]
  /\ Total(reserved) <= WriteConnections

\* The upload is completed or aborted only when no part of it is awaited any
\* more, and every part was tried.
EveryPartSettledFirst ==
  \A u \in Uploaders :
    phase[u] \in {"completing", "aborting"} =>
      flight[u] = {} /\ {results[u][i][1] : i \in 1 .. Len(results[u])} = Parts

\* An upload that nothing fails, that is not retried and not dropped succeeds:
\* parts that finish out of order are listed in order.
FaultFreeUploadSucceeds ==
  faults = 0 => \A u \in Uploaders : outcome[u] # "err"

\* A failed part alone leaves nothing at the store: an upload that stays open
\* when the call has returned failed in create, complete or abort, or was
\* created twice by a retry - whatever of it is still on its way.
EveryOrphanHasACause ==
  \A u \in Uploaders :
    phase[u] = "ended" =>
      \A id \in open :
        id[1] = u => \/ id[2] # uid[u]
                     \/ <<u, "complete">> \in lost
                     \/ <<u, "abort">> \in lost

\* The calls end: no failure leaves one of them waiting.
EveryUploadEnds ==
  <>(\A u \in Uploaders : phase[u] \in {"ended", "dropped"})

\* "Abort on failure: explicit AbortMultipartUpload": an upload whose call
\* failed, and whose abort did not, is not left open at the store.
FailedUploadIsAborted ==
  \A u \in Uploaders :
    (outcome[u] = "err" /\ uid[u] # 0 /\ <<u, "abort">> \notin lost
       /\ \A r \in network : r.by # u)
      => <<u, uid[u]>> \notin open
=============================================================================
