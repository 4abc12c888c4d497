------------------------- MODULE MultipartPutProofs -------------------------
(***************************************************************************)
(* The safety of multipart_put, for any number of uploaders of one key,    *)
(* any number of parts, any width and any number of faults.                *)
(***************************************************************************)
EXTENDS MultipartPut, TotalsProofs, SequenceTheorems

-----------------------------------------------------------------------------
(* The inductive invariant *)

\* The phases in which an uploader holds its reservation.
Live == {"creating", "uploading", "completing", "aborting"}

\* The reservation is held from create to the return or drop.
PermitsHeld ==
  \A u \in Uploaders :
    reserved[u] = IF phase[u] \in Live THEN WriteConcurrency ELSE 0

\* The parts of uploader u that have ended.
Done(u) == {results[u][i][1] : i \in 1 .. Len(results[u])}

\* What was launched is in flight or has ended, never both, and each part
\* ends once.
Rotation ==
  \A u \in Uploaders :
    /\ flight[u] \cup Done(u) = 1 .. launched[u]
    /\ flight[u] \cap Done(u) = {}
    /\ Len(results[u]) + Cardinality(flight[u]) = launched[u]
    /\ Cardinality(flight[u]) <= WriteConcurrency
    /\ phase[u] \in {"completing", "aborting"} => Len(results[u]) = NParts

\* Before its create is answered an uploader has no upload and no part.
Fresh ==
  \A u \in Uploaders :
    phase[u] \in {"idle", "creating"} => uid[u] = 0 /\ launched[u] = 0

\* The store gives no more ids than it was asked for, and nobody knows of an
\* id it has not given.
Numbered ==
  /\ \A u \in Uploaders :
       /\ created[u] + (IF Request(u, "create", 0) \in network THEN 1 ELSE 0)
            <= IF phase[u] = "idle" THEN 0 ELSE faults + 1
       /\ uid[u] <= created[u]
  /\ \A a \in answers : a.id <= created[a.to.by]
  /\ \A id \in open : id[2] <= created[id[1]]

\* An answer is on its way to somebody who awaits it, is the only one, and as
\* long as nothing fails the request it answers is not on its way again.
OneAnswer ==
  /\ \A a \in answers : Awaits(a.to) /\ (faults = 0 => a.to \notin network)
  /\ \A a, b \in answers : a.to = b.to => a = b

\* A complete is sent only when every part has ended well.
CompleteIsDue ==
  \A u \in Uploaders :
    phase[u] = "completing" \/ Request(u, "complete", 0) \in network
      => OkParts(u) = Parts

\* What a good answer to the last request tells is so: the upload is closed,
\* and the body is stored if that was a complete.
AnswersTrue ==
  \A a \in answers :
    a.ok => /\ a.to.kind = "complete" => a.to.by \in stored
            /\ a.to.kind \in {"complete", "abort"}
                 => <<a.to.by, uid[a.to.by]>> \notin open

\* The upload of a call that has returned is closed, unless its last request
\* failed.
ClosedOrLost ==
  \A u \in Uploaders :
    phase[u] = "ended" =>
      \/ <<u, uid[u]>> \notin open
      \/ <<u, "complete">> \in lost
      \/ <<u, "abort">> \in lost

\* The upload of u is not completed yet and takes parts.
Pending(u) == phase[u] = "uploading" \/ Request(u, "complete", 0) \in network

\* As long as nothing has failed: every request is awaited, everybody is
\* answered well, and the store has the upload and the parts the client
\* thinks it has.
Smooth(u) ==
  /\ phase[u] \notin {"aborting", "dropped"}
  /\ outcome[u] # "err"
  /\ FailedParts(u) = {}
  /\ Pending(u) => <<u, uid[u]>> \in open
  /\ Pending(u) => \A n \in Done(u) : <<<<u, uid[u]>>, n>> \in partsAt

AnsweredWell(a) ==
  /\ a.ok
  /\ a.to.kind = "create" => <<a.to.by, a.id>> \in open
  /\ a.to.kind = "part" => <<<<a.to.by, uid[a.to.by]>>, a.to.n>> \in partsAt

Faultless ==
  /\ \A r \in network : Awaits(r)
  /\ \A u \in Uploaders : Smooth(u)
  /\ \A a \in answers : AnsweredWell(a)

IInv ==
  /\ TypeOK /\ PermitsHeld /\ Rotation /\ Fresh /\ Numbered /\ OneAnswer
  /\ CompleteIsDue /\ AnswersTrue /\ ClosedOrLost
  /\ ObjectIsOneWholeBody /\ OkMeansStored
  /\ Total(reserved) <= WriteConnections
  /\ faults = 0 => Faultless

-----------------------------------------------------------------------------
(* Requests *)

Kinds == {"create", "part", "complete", "abort"}

\* A request is its uploader, its kind and its part, and there is one for each
\* uploader and kind.
LEMMA RequestFacts ==
  /\ \A r \in Requests :
       /\ r.by \in Uploaders /\ r.kind \in Kinds
       /\ r.kind = "part" => r.n \in Parts
       /\ r = Request(r.by, r.kind, IF r.kind = "part" THEN r.n ELSE 0)
  /\ \A u \in Uploaders :
       /\ \A kind \in Kinds \ {"part"} : Request(u, kind, 0) \in Requests
       /\ \A n \in Parts : Request(u, "part", n) \in Requests
  /\ \A u, kind, n :
       /\ Request(u, kind, n).by = u
       /\ Request(u, kind, n).kind = kind
       /\ Request(u, kind, n).n = n
<1>1. \A u, kind, n :
        /\ Request(u, kind, n).by = u
        /\ Request(u, kind, n).kind = kind
        /\ Request(u, kind, n).n = n
  BY DEF Request
<1>2. ASSUME NEW r \in Requests
      PROVE  /\ r.by \in Uploaders /\ r.kind \in Kinds
             /\ r.kind = "part" => r.n \in Parts
             /\ r = Request(r.by, r.kind, IF r.kind = "part" THEN r.n ELSE 0)
  <2>1. CASE r \in {Request(u, "part", n) : u \in Uploaders, n \in Parts}
    BY <1>1, <2>1 DEF Kinds
  <2>2. CASE r \in {Request(u, kind, 0) :
                     u \in Uploaders, kind \in {"create", "complete", "abort"}}
    BY <1>1, <2>2 DEF Kinds
  <2> QED
    BY <1>2, <2>1, <2>2 DEF Requests
<1>3. ASSUME NEW u \in Uploaders
      PROVE  /\ \A kind \in Kinds \ {"part"} : Request(u, kind, 0) \in Requests
             /\ \A n \in Parts : Request(u, "part", n) \in Requests
  BY DEF Requests, Kinds
<1> QED
  BY <1>1, <1>2, <1>3

\* The ways a request that is awaited may end for its uploader: its create is
\* answered, a part ends, or the call ends.
Opens(u, id) ==
  /\ phase[u] = "creating"
  /\ phase' = [phase EXCEPT ![u] = "uploading"]
  /\ uid' = [uid EXCEPT ![u] = id]
  /\ UNCHANGED <<reserved, launched, flight, results, outcome>>

EndsPart(u, n, verdict) ==
  /\ phase[u] = "uploading" /\ n \in flight[u]
  /\ flight' = [flight EXCEPT ![u] = @ \ {n}]
  /\ results' = [results EXCEPT ![u] = Append(@, <<n, verdict>>)]
  /\ UNCHANGED <<phase, reserved, uid, launched, outcome>>

Ends(u, o) ==
  /\ phase[u] \in {"creating", "completing", "aborting"}
  /\ phase' = [phase EXCEPT ![u] = "ended"]
  /\ reserved' = [reserved EXCEPT ![u] = 0]
  /\ outcome' = [outcome EXCEPT ![u] = o]
  /\ UNCHANGED <<uid, launched, flight, results>>

LEMMA SettledCases ==
  ASSUME NEW r \in Requests, Awaits(r), NEW ok \in BOOLEAN, NEW id,
         Settled(r, ok, id)
  PROVE  /\ lost' = IF ok THEN lost ELSE lost \cup {<<r.by, r.kind>>}
         /\ \/ r.kind = "create" /\ ok /\ Opens(r.by, id)
            \/ /\ r.kind = "part" /\ r.n \in Parts
               /\ EndsPart(r.by, r.n, IF ok THEN "ok" ELSE "err")
            \/ /\ r.kind # "part" /\ ~(r.kind = "create" /\ ok)
               /\ phase[r.by] = "creating" => r.kind = "create"
               /\ phase[r.by] = "completing" => r.kind = "complete"
               /\ phase[r.by] = "aborting" => r.kind = "abort"
               /\ Ends(r.by, Returned(r, ok))
<1>1. r.kind \in Kinds /\ (r.kind = "part" => r.n \in Parts)
  BY RequestFacts
<1>2. CASE r.kind = "create" /\ ok
  BY <1>2 DEF Settled, Awaits, Opens
<1>3. CASE r.kind = "part"
  BY <1>1, <1>3 DEF Settled, Awaits, EndsPart
<1>4. CASE r.kind \in {"create", "complete", "abort"} /\ ~(r.kind = "create" /\ ok)
  BY <1>4 DEF Settled, Awaits, Ends
<1> QED
  BY <1>1, <1>2, <1>3, <1>4 DEF Kinds

-----------------------------------------------------------------------------
(* What a step does to the uploaders *)

Begins(u) ==
  /\ phase[u] = "idle"
  /\ Total(reserved) + WriteConcurrency <= WriteConnections
  /\ phase' = [phase EXCEPT ![u] = "creating"]
  /\ reserved' = [reserved EXCEPT ![u] = WriteConcurrency]
  /\ UNCHANGED <<uid, launched, flight, results, outcome>>

Launches(u) ==
  /\ phase[u] = "uploading" /\ MoreParts(u) /\ WidthFree(u)
  /\ launched' = [launched EXCEPT ![u] = @ + 1]
  /\ flight' = [flight EXCEPT ![u] = @ \cup {launched[u] + 1}]
  /\ UNCHANGED <<phase, reserved, uid, results, outcome>>

Collects(u) ==
  /\ phase[u] = "uploading" /\ Collected(u)
  /\ phase' = [phase EXCEPT ![u] = AfterParts(u)]
  /\ UNCHANGED <<reserved, uid, launched, flight, results, outcome>>

Drops(u) ==
  /\ phase[u] \in Live
  /\ phase' = [phase EXCEPT ![u] = "dropped"]
  /\ reserved' = [reserved EXCEPT ![u] = 0]
  /\ UNCHANGED <<uid, launched, flight, results, outcome>>

ClientTypeOK ==
  /\ phase \in [Uploaders -> {"idle", "creating", "uploading", "completing",
                              "aborting", "ended", "dropped"}]
  /\ reserved \in [Uploaders -> 0 .. WriteConcurrency]
  /\ uid \in [Uploaders -> 0 .. (MaxFaults + 1)]
  /\ launched \in [Uploaders -> 0 .. NParts]
  /\ flight \in [Uploaders -> SUBSET Parts]
  /\ results \in [Uploaders -> Seq(Parts \X {"ok", "err"})]
  /\ outcome \in [Uploaders -> {"none", "ok", "err"}]

StoreTypeOK ==
  /\ network \subseteq Requests
  /\ answers \subseteq [to : Requests, ok : BOOLEAN, id : 0 .. (MaxFaults + 1)]
  /\ created \in [Uploaders -> 0 .. (MaxFaults + 1)]
  /\ open \subseteq Uploaders \X (1 .. (MaxFaults + 1))
  /\ partsAt \subseteq open \X Parts
  /\ object.parts \in Seq(Parts)
  /\ stored \subseteq Uploaders
  /\ faults \in 0 .. MaxFaults

LEMMA TypeParts == TypeOK <=> ClientTypeOK /\ StoreTypeOK
BY DEF TypeOK, ClientTypeOK, StoreTypeOK

\* The store executes a request, the only attempt at it or one of two.
Executes(r) == Execute(r) \/ ExecuteOneOfTwo(r)

\* A step moves one uploader in one of seven ways, or none.
LEMMA ClientWays ==
  ASSUME TypeOK, [Next]_vars
  PROVE  \/ UNCHANGED client
         \/ \E u \in Uploaders :
              \/ Begins(u) \/ Launches(u) \/ Collects(u) \/ Drops(u)
              \/ \E id \in 0 .. (MaxFaults + 1) : Opens(u, id)
              \/ \E n \in Parts, v \in {"ok", "err"} : EndsPart(u, n, v)
              \/ \E o \in {"ok", "err"} : Ends(u, o)
<1>1. ASSUME NEW r \in Requests, NEW ok \in BOOLEAN, NEW id \in 0 .. (MaxFaults + 1),
             Awaits(r), Settled(r, ok, id)
      PROVE  \E u \in Uploaders :
               \/ \E i \in 0 .. (MaxFaults + 1) : Opens(u, i)
               \/ \E n \in Parts, v \in {"ok", "err"} : EndsPart(u, n, v)
               \/ \E o \in {"ok", "err"} : Ends(u, o)
  <2>1. r.by \in Uploaders /\ Returned(r, ok) \in {"ok", "err"}
    BY RequestFacts DEF Returned
  <2> QED
    BY <1>1, <2>1, SettledCases
<1>2. ASSUME NEW r \in Requests, Receive(r) \/ Fail(r)
      PROVE  \E ok \in BOOLEAN, id \in 0 .. (MaxFaults + 1) :
               Awaits(r) /\ Settled(r, ok, id)
  <2>1. CASE Receive(r)
    BY <2>1 DEF Receive, TypeOK
  <2>2. CASE Fail(r)
    <3>1. 0 \in 0 .. (MaxFaults + 1)
      BY UploadAssumption
    <3>2. Awaits(r) /\ Settled(r, FALSE, 0)
      BY <2>2 DEF Fail
    <3> QED
      BY <3>1, <3>2, Zenon
  <2> QED
    BY <1>2, <2>1, <2>2
<1>3. ASSUME NEW r \in Requests,
             Receive(r) \/ Fail(r) \/ Retry(r) \/ Executes(r)
      PROVE  \/ UNCHANGED client
             \/ \E u \in Uploaders :
                  \/ \E id \in 0 .. (MaxFaults + 1) : Opens(u, id)
                  \/ \E n \in Parts, v \in {"ok", "err"} : EndsPart(u, n, v)
                  \/ \E o \in {"ok", "err"} : Ends(u, o)
  <2>1. CASE Receive(r) \/ Fail(r)
    BY <1>1, <1>2, <2>1
  <2>2. CASE Retry(r) \/ Executes(r)
    BY <2>2 DEF Retry, Executes, Execute, ExecuteOneOfTwo, Execution
  <2> QED
    BY <1>3, <2>1, <2>2
<1>4. ASSUME NEW u \in Uploaders,
             Create(u) \/ LaunchPart(u) \/ Collect(u) \/ Drop(u)
      PROVE  Begins(u) \/ Launches(u) \/ Collects(u) \/ Drops(u)
  <2>1. phase[u] \notin {"idle", "ended", "dropped"} => phase[u] \in Live
    BY DEF TypeOK, Live
  <2> QED
    BY <1>4, <2>1 DEF Create, LaunchPart, Collect, Drop,
       Begins, Launches, Collects, Drops
<1>5. CASE Rest \/ UNCHANGED vars
  BY <1>5 DEF Rest, vars, client
<1> QED
  BY <1>3, <1>4, <1>5 DEF Next, Executes

-----------------------------------------------------------------------------
(* The uploaders alone *)

\* The uploaders' own variables keep their types.
LEMMA ClientTyped ==
  ASSUME TypeOK, [Next]_vars
  PROVE  ClientTypeOK'
<1>0. /\ ClientTypeOK
      /\ NParts \in Nat /\ WriteConcurrency \in Nat /\ MaxFaults \in Nat
  BY TypeParts, UploadAssumption
<1>1. CASE UNCHANGED client
  BY <1>0, <1>1 DEF ClientTypeOK, client
<1>2. ASSUME NEW u \in Uploaders, Begins(u)
      PROVE  ClientTypeOK'
  BY <1>0, <1>2 DEF ClientTypeOK, Begins
<1>3. ASSUME NEW u \in Uploaders, Launches(u)
      PROVE  ClientTypeOK'
  <2>1. launched[u] + 1 \in 1 .. NParts
    BY <1>0, <1>3 DEF ClientTypeOK, Launches, MoreParts
  <2> QED
    BY SMTT(30), <1>0, <1>3, <2>1 DEF ClientTypeOK, Launches, Parts
<1>4. ASSUME NEW u \in Uploaders, Collects(u)
      PROVE  ClientTypeOK'
  BY <1>0, <1>4 DEF ClientTypeOK, Collects, AfterParts
<1>5. ASSUME NEW u \in Uploaders, Drops(u)
      PROVE  ClientTypeOK'
  BY <1>0, <1>5 DEF ClientTypeOK, Drops
<1>6. ASSUME NEW u \in Uploaders, NEW id \in 0 .. (MaxFaults + 1), Opens(u, id)
      PROVE  ClientTypeOK'
  BY <1>0, <1>6 DEF ClientTypeOK, Opens
<1>7. ASSUME NEW u \in Uploaders, NEW n \in Parts, NEW v \in {"ok", "err"},
             EndsPart(u, n, v)
      PROVE  ClientTypeOK'
  <2>1. Append(results[u], <<n, v>>) \in Seq(Parts \X {"ok", "err"})
    BY <1>0 DEF ClientTypeOK
  <2>2. results' \in [Uploaders -> Seq(Parts \X {"ok", "err"})]
    <3>1. results' = [results EXCEPT ![u] = Append(results[u], <<n, v>>)]
      BY <1>7 DEF EndsPart
    <3> QED
      BY <1>0, <2>1, <3>1 DEF ClientTypeOK
  <2> QED
    BY <1>0, <1>7, <2>2 DEF ClientTypeOK, EndsPart
<1>8. ASSUME NEW u \in Uploaders, NEW o \in {"ok", "err"}, Ends(u, o)
      PROVE  ClientTypeOK'
  BY <1>0, <1>8 DEF ClientTypeOK, Ends
<1> QED
  BY ClientWays, <1>1, <1>2, <1>3, <1>4, <1>5, <1>6, <1>7, <1>8

\* The reservation is taken with the first request and given back with the
\* last, and the uploads together never reserve more than there is.
LEMMA PermitsKept ==
  ASSUME TypeOK, PermitsHeld, Total(reserved) <= WriteConnections, [Next]_vars
  PROVE  PermitsHeld' /\ (Total(reserved) <= WriteConnections)'
<1>0. /\ ClientTypeOK /\ IsFiniteSet(Uploaders)
      /\ WriteConcurrency \in Nat \ {0} /\ WriteConnections \in Nat
      /\ reserved' \in [Uploaders -> 0 .. WriteConcurrency]
  BY TypeParts, UploadAssumption, ClientTyped DEF ClientTypeOK
<1>1. ASSUME NEW u \in Uploaders, NEW n \in 0 .. WriteConcurrency,
             reserved' = [reserved EXCEPT ![u] = n]
      PROVE  Total(reserved') = Total(reserved) - reserved[u] + n
  <2> DEFINE g == reserved'
  <2>1. /\ g \in [Uploaders -> 0 .. WriteConcurrency] /\ g[u] = n
        /\ reserved \in [Uploaders -> 0 .. WriteConcurrency]
        /\ \A w \in Uploaders : w # u => g[w] = reserved[w]
    BY <1>0, <1>1 DEF ClientTypeOK
  <2> HIDE DEF g
  <2>2. Total(g) = Total(reserved) - reserved[u] + g[u]
    BY <1>0, <2>1, TotalUpdate
  <2> QED
    BY <2>1, <2>2 DEF g
<1>2. Total(reserved) \in Nat
  BY <1>0, UnitsFinite DEF ClientTypeOK
<1>3. CASE UNCHANGED client
  BY <1>3 DEF client, PermitsHeld
<1>4. ASSUME NEW u \in Uploaders, Begins(u)
      PROVE  PermitsHeld' /\ (Total(reserved) <= WriteConnections)'
  <2>1. reserved[u] = 0
    BY <1>4 DEF Begins, PermitsHeld, Live
  <2>2. PermitsHeld'
    BY <1>0, <1>4 DEF Begins, PermitsHeld, Live, ClientTypeOK
  <2>3. Total(reserved') = Total(reserved) - 0 + WriteConcurrency
    BY <1>0, <1>1, <1>4, <2>1 DEF Begins
  <2> QED
    BY <1>0, <1>2, <1>4, <2>2, <2>3 DEF Begins
<1>5. ASSUME NEW u \in Uploaders,
             \/ Launches(u) \/ Collects(u)
             \/ \E id \in 0 .. (MaxFaults + 1) : Opens(u, id)
             \/ \E n \in Parts, v \in {"ok", "err"} : EndsPart(u, n, v)
      PROVE  PermitsHeld' /\ (Total(reserved) <= WriteConnections)'
  <2>1. reserved' = reserved
    BY <1>5 DEF Launches, Collects, Opens, EndsPart
  <2>2. \A w \in Uploaders : phase'[w] \in Live <=> phase[w] \in Live
    BY <1>0, <1>5
       DEF Launches, Collects, Opens, EndsPart, AfterParts, Live, ClientTypeOK
  <2> QED
    BY <2>1, <2>2 DEF PermitsHeld
<1>6. ASSUME NEW u \in Uploaders, Drops(u) \/ \E o \in {"ok", "err"} : Ends(u, o)
      PROVE  PermitsHeld' /\ (Total(reserved) <= WriteConnections)'
  <2>1. /\ reserved' = [reserved EXCEPT ![u] = 0]
        /\ phase'[u] \notin Live
        /\ \A w \in Uploaders : w # u => phase'[w] = phase[w]
    BY <1>0, <1>6 DEF Drops, Ends, Live, ClientTypeOK
  <2>2. PermitsHeld'
    BY <1>0, <2>1 DEF PermitsHeld, ClientTypeOK
  <2>3. Total(reserved') = Total(reserved) - reserved[u] + 0
    BY <1>0, <1>1, <2>1
  <2>4. reserved[u] \in Nat
    BY <1>0 DEF ClientTypeOK
  <2> QED
    BY <1>0, <1>2, <2>2, <2>3, <2>4
<1> QED
  BY ClientWays, <1>3, <1>4, <1>5, <1>6

\* What one more result adds to the parts that have ended.
LEMMA OneMoreDone ==
  ASSUME ClientTypeOK, NEW u \in Uploaders, NEW n \in Parts,
         NEW v \in {"ok", "err"}, EndsPart(u, n, v)
  PROVE  /\ Len(results'[u]) = Len(results[u]) + 1
         /\ \A i \in 1 .. Len(results[u]) : results'[u][i] = results[u][i]
         /\ results'[u][Len(results[u]) + 1] = <<n, v>>
         /\ Len(results[u]) \in Nat
         /\ Done(u)' = Done(u) \cup {n}
         /\ \A w \in Uploaders : w # u => results'[w] = results[w]
<1> DEFINE old == results[u]
           new == Append(old, <<n, v>>)
<1>1. /\ results' = [results EXCEPT ![u] = new]
      /\ results \in [Uploaders -> Seq(Parts \X {"ok", "err"})]
      /\ old \in Seq(Parts \X {"ok", "err"})
  BY DEF EndsPart, ClientTypeOK
<1>2. /\ results'[u] = new
      /\ \A w \in Uploaders : w # u => results'[w] = results[w]
  BY <1>1
<1>3. /\ Len(new) = Len(old) + 1 /\ Len(old) \in Nat
      /\ \A i \in 1 .. Len(old) : new[i] = old[i]
      /\ new[Len(old) + 1] = <<n, v>>
  BY <1>1
<1> HIDE DEF old, new
<1>4. {new[i][1] : i \in 1 .. Len(new)} = {old[i][1] : i \in 1 .. Len(old)} \cup {n}
  <2>1. 1 .. Len(new) = (1 .. Len(old)) \cup {Len(old) + 1}
    BY <1>3
  <2> QED
    BY <1>3, <2>1
<1> QED
  BY <1>2, <1>3, <1>4 DEF Done, old

\* Parts are launched in order and rotate; the uploads that wait for their
\* create have none yet.
LEMMA RotationKept ==
  ASSUME TypeOK, Rotation, Fresh, [Next]_vars
  PROVE  Rotation' /\ Fresh'
<1>0. /\ ClientTypeOK /\ ClientTypeOK'
      /\ NParts \in Nat \ {0} /\ WriteConcurrency \in Nat \ {0}
  BY TypeParts, UploadAssumption, ClientTyped
<1>1. \A u \in Uploaders : /\ IsFiniteSet(flight[u]) /\ Cardinality(flight[u]) \in Nat
                           /\ Len(results[u]) \in Nat
                           /\ launched[u] \in Nat
                           /\ flight[u] \subseteq Parts
  <2>1. IsFiniteSet(Parts)
    BY <1>0, FS_Interval DEF Parts
  <2>2. \A u \in Uploaders : /\ flight[u] \in SUBSET Parts
                             /\ results[u] \in Seq(Parts \X {"ok", "err"})
                             /\ launched[u] \in Nat
    BY <1>0 DEF ClientTypeOK
  <2> QED
    BY <2>1, <2>2, FS_Subset, FS_CardinalityType
<1>2. CASE UNCHANGED client
  BY <1>2 DEF client, Rotation, Fresh, Done
<1>3. ASSUME NEW u \in Uploaders,
             \/ Begins(u) \/ Drops(u) \/ \E o \in {"ok", "err"} : Ends(u, o)
             \/ \E id \in 0 .. (MaxFaults + 1) : Opens(u, id)
      PROVE  Rotation' /\ Fresh'
  <2>1. /\ UNCHANGED <<launched, flight, results>>
        /\ \A w \in Uploaders : w # u => phase'[w] = phase[w] /\ uid'[w] = uid[w]
        /\ phase'[u] \notin {"completing", "aborting"}
    BY <1>0, <1>3 DEF ClientTypeOK, Begins, Drops, Ends, Opens
  <2>2. phase'[u] \in {"idle", "creating"} => phase[u] = "idle" /\ uid' = uid
    BY <1>0, <1>3 DEF ClientTypeOK, Begins, Drops, Ends, Opens
  <2>3. Rotation'
    BY <2>1 DEF Rotation, Done
  <2>4. Fresh'
    BY <2>1, <2>2 DEF Fresh
  <2> QED
    BY <2>3, <2>4
<1>4. ASSUME NEW u \in Uploaders, Launches(u)
      PROVE  Rotation' /\ Fresh'
  <2> DEFINE n == launched[u] + 1
  <2>1. /\ UNCHANGED <<phase, uid, results>>
        /\ phase[u] = "uploading"
        /\ \A w \in Uploaders :
             w # u => launched'[w] = launched[w] /\ flight'[w] = flight[w]
        /\ launched'[u] = n /\ flight'[u] = flight[u] \cup {n}
        /\ Cardinality(flight[u]) < WriteConcurrency
    BY <1>0, <1>4 DEF ClientTypeOK, Launches, WidthFree
  <2>2. n \notin flight[u] \cup Done(u)
    BY <1>1 DEF Rotation
  <2>3. Cardinality(flight[u] \cup {n}) = Cardinality(flight[u]) + 1
    BY <1>1, <2>2, FS_AddElement
  <2>4. /\ (flight[u] \cup {n}) \cup Done(u) = 1 .. n
        /\ (flight[u] \cup {n}) \cap Done(u) = {}
    <3>1. 1 .. n = (1 .. launched[u]) \cup {n}
      BY <1>1
    <3> QED
      BY <2>2, <3>1 DEF Rotation
  <2>5. /\ Len(results[u]) + (Cardinality(flight[u]) + 1) = n
        /\ Cardinality(flight[u]) + 1 <= WriteConcurrency
    <3>1. Len(results[u]) + Cardinality(flight[u]) = launched[u]
      BY DEF Rotation
    <3>2. /\ Cardinality(flight[u]) \in Nat /\ Len(results[u]) \in Nat
          /\ launched[u] \in Nat /\ WriteConcurrency \in Nat
      BY <1>0, <1>1
    <3>3. Cardinality(flight[u]) < WriteConcurrency
      BY <2>1
    <3>4. \A a, b, c, d \in Nat :
            a + b = c /\ b < d => a + (b + 1) = c + 1 /\ b + 1 <= d
      OBVIOUS
    <3> QED
      BY <3>1, <3>2, <3>3, <3>4
  <2>6. \A w \in Uploaders : Done(w)' = Done(w)
    BY <2>1 DEF Done
  <2> HIDE DEF n
  <2>7. Rotation'
    <3>1. ASSUME NEW w \in Uploaders, w # u
          PROVE  /\ flight'[w] = flight[w] /\ launched'[w] = launched[w]
                 /\ results'[w] = results[w] /\ phase'[w] = phase[w]
                 /\ Done(w)' = Done(w)
      BY <2>1, <2>6, <3>1
    <3>2. /\ flight'[u] \cup Done(u)' = 1 .. launched'[u]
          /\ flight'[u] \cap Done(u)' = {}
      BY <2>1, <2>4, <2>6
    <3>3. /\ Len(results'[u]) + Cardinality(flight'[u]) = launched'[u]
          /\ Cardinality(flight'[u]) <= WriteConcurrency
          /\ phase'[u] = "uploading"
      BY <2>1, <2>3, <2>5
    <3> QED
      BY <3>1, <3>2, <3>3 DEF Rotation
  <2>8. ASSUME NEW w \in Uploaders, phase'[w] \in {"idle", "creating"}
        PROVE  uid'[w] = 0 /\ launched'[w] = 0
    BY <2>1, <2>8 DEF Fresh
  <2> QED
    BY <2>7, <2>8 DEF Fresh
<1>5. ASSUME NEW u \in Uploaders, Collects(u)
      PROVE  Rotation' /\ Fresh'
  <2>1. /\ UNCHANGED <<launched, flight, results, uid>>
        /\ \A w \in Uploaders : w # u => phase'[w] = phase[w]
        /\ phase'[u] \in {"completing", "aborting"}
        /\ Len(results[u]) = NParts
    BY <1>0, <1>5 DEF ClientTypeOK, Collects, Collected, AfterParts
  <2> QED
    BY <2>1 DEF Rotation, Fresh, Done
<1>6. ASSUME NEW u \in Uploaders, NEW n \in Parts, NEW v \in {"ok", "err"},
             EndsPart(u, n, v)
      PROVE  Rotation' /\ Fresh'
  <2>1. /\ UNCHANGED <<phase, uid, launched>>
        /\ phase[u] = "uploading" /\ n \in flight[u]
        /\ flight'[u] = flight[u] \ {n}
        /\ \A w \in Uploaders : w # u => flight'[w] = flight[w]
    BY <1>0, <1>6 DEF ClientTypeOK, EndsPart
  <2>2. /\ Len(results'[u]) = Len(results[u]) + 1
        /\ Done(u)' = Done(u) \cup {n}
        /\ \A w \in Uploaders : w # u => results'[w] = results[w]
    BY <1>0, <1>6, OneMoreDone
  <2>3. Cardinality(flight[u] \ {n}) = Cardinality(flight[u]) - 1
    BY <1>1, <2>1, FS_RemoveElement
  <2>4. /\ (flight[u] \ {n}) \cup (Done(u) \cup {n}) = 1 .. launched[u]
        /\ (flight[u] \ {n}) \cap (Done(u) \cup {n}) = {}
    BY <2>1 DEF Rotation
  <2>5. /\ (Len(results[u]) + 1) + (Cardinality(flight[u]) - 1) = launched[u]
        /\ Cardinality(flight[u]) - 1 <= WriteConcurrency
    BY <1>0, <1>1 DEF Rotation
  <2>6. \A w \in Uploaders : w # u => Done(w)' = Done(w)
    BY <2>2 DEF Done
  <2>7. Rotation'
    BY <2>1, <2>2, <2>3, <2>4, <2>5, <2>6 DEF Rotation
  <2> QED
    BY <2>1, <2>7 DEF Fresh
<1> QED
  BY ClientWays, <1>2, <1>3, <1>4, <1>5, <1>6

-----------------------------------------------------------------------------
(* What a step does to the store and to the requests on their way *)

\* After its parts an uploader sends one request, by which it goes on.
LEMMA CollectSends ==
  ASSUME TypeOK, NEW u \in Uploaders, Collect(u)
  PROVE  /\ phase[u] = "uploading" /\ Len(results[u]) = NParts
         /\ UNCHANGED <<reserved, uid, launched, flight, results, outcome, answers,
                        store, faults, lost>>
         /\ \/ /\ FailedParts(u) = {}
               /\ phase' = [phase EXCEPT ![u] = "completing"]
               /\ network' = network \cup {Request(u, "complete", 0)}
            \/ /\ FailedParts(u) # {}
               /\ phase' = [phase EXCEPT ![u] = "aborting"]
               /\ network' = network \cup {Request(u, "abort", 0)}
<1>1. phase'[u] = AfterParts(u)
  BY DEF Collect, TypeOK
<1>2. CASE FailedParts(u) = {}
  <2>1. phase'[u] = "completing"
    BY <1>1, <1>2 DEF AfterParts
  <2>2. {k \in {"complete", "abort"} :
           <<phase'[u], k>> \in {<<"completing", "complete">>, <<"aborting", "abort">>}}
          = {"complete"}
    BY <2>1
  <2> QED
    BY <1>2, <2>2 DEF Collect, Collected, AfterParts
<1>3. CASE FailedParts(u) # {}
  <2>1. phase'[u] = "aborting"
    BY <1>1, <1>3 DEF AfterParts
  <2>2. {k \in {"complete", "abort"} :
           <<phase'[u], k>> \in {<<"completing", "complete">>, <<"aborting", "abort">>}}
          = {"abort"}
    BY <2>1
  <2> QED
    BY <1>3, <2>2 DEF Collect, Collected, AfterParts
<1> QED
  BY <1>2, <1>3

\* The parts that ended well, and only those, are what a complete lists: with
\* every part among them it lists the whole body in order.
LEMMA ListsWholeBody ==
  ASSUME NEW u \in Uploaders, OkParts(u) = Parts
  PROVE  /\ Listed(u) = [i \in Parts |-> i]
         /\ Ascending(Listed(u))
         /\ Listed(u) \in Seq(Parts)
         /\ \A i \in 1 .. Len(Listed(u)) : Listed(u)[i] \in Parts
<1>1. NParts \in Nat /\ Cardinality(Parts) = NParts
  BY UploadAssumption, FS_Interval DEF Parts
<1>2. ASSUME NEW n \in Parts
      PROVE  Cardinality({m \in Parts : m <= n}) = n
  <2>1. {m \in Parts : m <= n} = 1 .. n
    BY <1>1 DEF Parts
  <2>2. n \in Nat \ {0}
    BY <1>1 DEF Parts
  <2>3. Cardinality(1 .. n) = n
    BY <2>2, FS_Interval
  <2> QED
    BY <2>1, <2>3
<1>3. ASSUME NEW i \in Parts
      PROVE  (CHOOSE n \in Parts : Cardinality({m \in Parts : m <= n}) = i) = i
  BY <1>2
<1>4. Listed(u) = [i \in Parts |-> i]
  <2>1. 1 .. Cardinality(OkParts(u)) = Parts
    BY <1>1 DEF Parts
  <2>2. Listed(u) = [i \in Parts |->
                       CHOOSE n \in Parts : Cardinality({m \in Parts : m <= n}) = i]
    BY <2>1 DEF Listed
  <2> QED
    BY <1>3, <2>2
<1>5. [i \in Parts |-> i] \in Seq(Parts) /\ Len([i \in Parts |-> i]) = NParts
  BY <1>1 DEF Parts
<1>6. Ascending([i \in Parts |-> i])
  BY <1>1, <1>5 DEF Ascending, Parts
<1> QED
  BY <1>4, <1>5, <1>6 DEF Parts

\* What the store may do with a request that reaches it.
UploadOf(r) == <<r.by, uid[r.by]>>

GivesId(r) ==
  /\ r.kind = "create"
  /\ created' = [created EXCEPT ![r.by] = @ + 1]
  /\ open' = open \cup {<<r.by, created[r.by] + 1>>}
  /\ UNCHANGED <<partsAt, object, stored>>

TakesPart(r) ==
  /\ r.kind = "part" /\ UploadOf(r) \in open
  /\ partsAt' = partsAt \cup {<<UploadOf(r), r.n>>}
  /\ UNCHANGED <<created, open, object, stored>>

Completes(r) ==
  /\ r.kind = "complete" /\ UploadOf(r) \in open
  /\ object' = [by |-> r.by, parts |-> [i \in Parts |-> i]]
  /\ stored' = stored \cup {r.by}
  /\ open' = open \ {UploadOf(r)}
  /\ partsAt' = {p \in partsAt : p[1] # UploadOf(r)}
  /\ UNCHANGED created

Aborts(r) ==
  /\ r.kind = "abort" /\ UploadOf(r) \in open
  /\ open' = open \ {UploadOf(r)}
  /\ partsAt' = {p \in partsAt : p[1] # UploadOf(r)}
  /\ UNCHANGED <<created, object, stored>>

\* It does not know the upload, or misses a part of it.
Refuses(r) ==
  /\ r.kind # "create" /\ UploadOf(r) \notin open
  /\ UNCHANGED <<created, open, partsAt, object, stored>>

AnswerTo(r, ok) == [to |-> r, ok |-> ok, id |-> created'[r.by]]

LEMMA ExecuteCases ==
  ASSUME TypeOK, CompleteIsDue, NEW r \in Requests, Executes(r)
  PROVE  \E ok \in BOOLEAN :
           /\ r \in network
           /\ \/ network' = network \ {r} /\ faults' = faults
              \/ network' = network /\ faults' = faults + 1 /\ faults < MaxFaults
           /\ \/ answers' = answers /\ (~Awaits(r) \/ Answered(r))
              \/ /\ Awaits(r) /\ ~Answered(r)
                 /\ answers' = answers \cup {AnswerTo(r, ok)}
           /\ UNCHANGED <<client, lost>>
           /\ \/ ok /\ (GivesId(r) \/ TakesPart(r) \/ Completes(r) \/ Aborts(r))
              \/ ~ok /\ Refuses(r)
<1>0. faults \in Nat
  BY TypeParts, UploadAssumption DEF StoreTypeOK
<1>1. PICK ok \in BOOLEAN :
        /\ Effect(r, ok)
        /\ r \in network
        /\ \/ network' = network \ {r} /\ faults' = faults
           \/ network' = network /\ faults' = faults + 1 /\ faults < MaxFaults
        /\ \/ answers' = answers /\ (~Awaits(r) \/ Answered(r))
           \/ /\ Awaits(r) /\ ~Answered(r)
              /\ answers' = answers \cup {AnswerTo(r, ok)}
        /\ UNCHANGED <<client, lost>>
  <2>1. CASE Execute(r)
    BY <2>1 DEF Execute, Execution, AnswerTo
  <2>2. CASE ExecuteOneOfTwo(r)
    BY <1>0, <2>2 DEF ExecuteOneOfTwo, Execution, AnswerTo
  <2> QED
    BY <2>1, <2>2 DEF Executes
<1>2. r.kind = "complete" => OkParts(r.by) = Parts
  <2>1. r.kind = "complete" => Request(r.by, "complete", 0) \in network
    BY <1>1, RequestFacts
  <2> QED
    BY <2>1, RequestFacts DEF CompleteIsDue
<1>3. r.kind = "complete" =>
        /\ Listed(r.by) = [i \in Parts |-> i]
        /\ Ascending(Listed(r.by))
  BY <1>2, ListsWholeBody, RequestFacts
<1>4. \/ ok /\ (GivesId(r) \/ TakesPart(r) \/ Completes(r) \/ Aborts(r))
      \/ ~ok /\ Refuses(r)
  BY <1>1, <1>3 DEF Effect, Close, UploadOf, GivesId, TakesPart, Completes,
     Aborts, Refuses, store
<1> QED
  BY <1>1, <1>4

\* Requests are sent by uploaders in a phase that awaits their answer.
LEMMA RequestOf ==
  ASSUME NEW r \in Requests, Awaits(r)
  PROVE  /\ r.by \in Uploaders /\ phase[r.by] \in Live
         /\ phase[r.by] = "creating" <=> r.kind = "create"
         /\ phase[r.by] = "uploading" <=> r.kind = "part"
         /\ phase[r.by] = "completing" <=> r.kind = "complete"
         /\ phase[r.by] = "aborting" <=> r.kind = "abort"
         /\ r.kind = "part" => r.n \in flight[r.by]
BY RequestFacts DEF Awaits, Kinds, Live

-----------------------------------------------------------------------------
(* The requests, their answers and the store *)

\* An id is given for a create that was sent, once for each time.
LEMMA NumberedKept ==
  ASSUME TypeOK, Fresh, Numbered, CompleteIsDue, [Next]_vars
  PROVE  Numbered'
<1> DEFINE sent(u) == IF Request(u, "create", 0) \in network THEN 1 ELSE 0
           bound(u) == IF phase[u] = "idle" THEN 0 ELSE faults + 1
<1>0. /\ ClientTypeOK /\ StoreTypeOK /\ MaxFaults \in Nat
      /\ faults \in Nat
      /\ \A u \in Uploaders : created[u] \in Nat /\ uid[u] \in Nat
      /\ \A a \in answers : a.to \in Requests /\ a.to.by \in Uploaders /\ a.id \in Nat
      /\ \A id \in open : id[1] \in Uploaders /\ id[2] \in Nat
  <2>1. ClientTypeOK /\ StoreTypeOK /\ MaxFaults \in Nat
    BY TypeParts, UploadAssumption
  <2>2. /\ faults \in Nat
        /\ \A u \in Uploaders : created[u] \in Nat /\ uid[u] \in Nat
    BY <2>1 DEF ClientTypeOK, StoreTypeOK
  <2>3. \A a \in answers : a.to \in Requests /\ a.id \in Nat
    BY <2>1 DEF StoreTypeOK
  <2>4. \A id \in open : id[1] \in Uploaders /\ id[2] \in Nat
    BY <2>1 DEF StoreTypeOK
  <2> QED
    BY <2>1, <2>2, <2>3, <2>4, RequestFacts
<1>1. \A u \in Uploaders : created[u] + sent(u) <= bound(u) /\ uid[u] <= created[u]
  BY DEF Numbered
<1>3. ASSUME NEW u \in Uploaders, Create(u)
      PROVE  Numbered'
  <2>1. /\ phase[u] = "idle" /\ phase'[u] = "creating"
        /\ \A w \in Uploaders : w # u => phase'[w] = phase[w]
        /\ network' = network \cup {Request(u, "create", 0)}
        /\ UNCHANGED <<uid, answers, created, open, faults>>
    BY <1>0, <1>3 DEF Create, ClientTypeOK, store
  <2>2. \A w \in Uploaders : w # u => sent(w)' = sent(w) /\ bound(w)' = bound(w)
    BY <2>1, RequestFacts
  <2>3. created[u] = 0
    BY <1>0, <1>1, <2>1
  <2>4. created'[u] + sent(u)' <= bound(u)'
    BY <1>0, <2>1, <2>3
  <2> QED
    BY <1>0, <1>1, <2>1, <2>2, <2>4 DEF Numbered
<1>4. ASSUME NEW u \in Uploaders, LaunchPart(u) \/ Collect(u) \/ Drop(u)
      PROVE  Numbered'
  <2>1. /\ UNCHANGED <<uid, created, open>> /\ answers' \subseteq answers
        /\ faults' >= faults /\ faults' \in Nat
        /\ \A w \in Uploaders : phase'[w] = "idle" <=> phase[w] = "idle"
    BY <1>0, <1>4 DEF LaunchPart, Collect, Drop, ClientTypeOK, store, AfterParts
  <2>2. \A w \in Uploaders : sent(w)' = sent(w)
    <3>1. CASE LaunchPart(u)
      BY <3>1, RequestFacts DEF LaunchPart
    <3>2. CASE Collect(u)
      BY <3>2, CollectSends, RequestFacts
    <3>3. CASE Drop(u)
      BY <3>3 DEF Drop
    <3> QED
      BY <1>4, <3>1, <3>2, <3>3
  <2> QED
    BY <1>0, <1>1, <2>1, <2>2 DEF Numbered
<1>5. ASSUME NEW r \in Requests, Receive(r) \/ Fail(r)
      PROVE  Numbered'
  <2>1. /\ UNCHANGED <<created, open>>
        /\ answers' \subseteq answers
        /\ network' \subseteq network
        /\ faults' >= faults /\ faults' \in Nat
    <3>1. CASE Receive(r)
      BY <1>0, <3>1 DEF Receive, store
    <3>2. CASE Fail(r)
      BY <1>0, <3>2 DEF Fail, store
    <3> QED
      BY <1>5, <3>1, <3>2
  <2>2. /\ \A w \in Uploaders : phase'[w] = "idle" <=> phase[w] = "idle"
        /\ \A w \in Uploaders : uid'[w] <= created[w]
    <3>1. CASE Receive(r)
      <4>1. PICK a \in answers : a.to = r /\ Awaits(r) /\ Settled(r, a.ok, a.id)
        BY <3>1 DEF Receive
      <4>2. a.ok \in BOOLEAN /\ a.id <= created[r.by] /\ r.by \in Uploaders
        BY <1>0, <4>1 DEF Numbered, StoreTypeOK
      <4>3. \/ Opens(r.by, a.id)
            \/ EndsPart(r.by, r.n, IF a.ok THEN "ok" ELSE "err")
            \/ Ends(r.by, Returned(r, a.ok))
        BY <4>1, <4>2, SettledCases
      <4> QED
        BY <1>0, <1>1, <4>2, <4>3 DEF Opens, EndsPart, Ends, ClientTypeOK
    <3>2. CASE Fail(r)
      <4>1. \/ EndsPart(r.by, r.n, "err")
            \/ Ends(r.by, Returned(r, FALSE))
        BY <3>2, SettledCases DEF Fail
      <4>2. r.by \in Uploaders
        BY RequestFacts
      <4> QED
        BY <1>0, <1>1, <4>1, <4>2 DEF EndsPart, Ends, ClientTypeOK
    <3> QED
      BY <1>5, <3>1, <3>2
  <2>3. \A w \in Uploaders : sent(w)' \in {0, sent(w)}
    BY <2>1
  <2> QED
    BY <1>0, <1>1, <2>1, <2>2, <2>3 DEF Numbered
<1>6. ASSUME NEW r \in Requests, Retry(r)
      PROVE  Numbered'
  <2>1. /\ UNCHANGED <<phase, uid, created, open>> /\ answers' \subseteq answers
        /\ faults' = faults + 1
        /\ network' = network \cup {r} /\ Awaits(r)
    BY <1>6 DEF Retry, client, store
  <2>2. r.by \in Uploaders /\ phase[r.by] # "idle"
    BY <2>1, RequestOf DEF Live
  <2>3. \A w \in Uploaders : /\ w # r.by => sent(w)' = sent(w)
                             /\ sent(w)' \in {0, 1} /\ sent(w) \in {0, 1}
    BY <2>1, RequestFacts
  <2> QED
    BY <1>0, <1>1, <2>1, <2>2, <2>3 DEF Numbered
<1>7. ASSUME NEW r \in Requests, Executes(r)
      PROVE  Numbered'
  <2>1. /\ r \in network
        /\ \/ network' = network \ {r} /\ faults' = faults
           \/ network' = network /\ faults' = faults + 1
        /\ UNCHANGED <<phase, uid>>
        /\ \A a \in answers' : a \in answers \/ (a.to = r /\ a.id = created'[r.by])
        /\ \/ GivesId(r)
           \/ created' = created /\ open' \subseteq open
    BY <1>7, ExecuteCases
       DEF client, TakesPart, Completes, Aborts, Refuses, AnswerTo
  <2>2. r.by \in Uploaders
    BY RequestFacts
  <2>3. CASE GivesId(r)
    <3>1. /\ r = Request(r.by, "create", 0)
          /\ created'[r.by] = created[r.by] + 1
          /\ \A w \in Uploaders : w # r.by => created'[w] = created[w]
          /\ open' = open \cup {<<r.by, created[r.by] + 1>>}
      BY <1>0, <2>3, RequestFacts DEF GivesId, StoreTypeOK
    <3>2. /\ sent(r.by) = 1
          /\ \/ sent(r.by)' = 0 /\ faults' = faults
             \/ sent(r.by)' = 1 /\ faults' = faults + 1
          /\ \A w \in Uploaders : w # r.by => sent(w)' = sent(w)
      BY <2>1, <3>1, RequestFacts
    <3> QED
      BY <1>0, <1>1, <2>1, <2>2, <3>1, <3>2 DEF Numbered
  <2>4. CASE created' = created /\ open' \subseteq open
    <3>1. \A w \in Uploaders : sent(w)' \in {0, sent(w)}
      BY <2>1
    <3> QED
      BY <1>0, <1>1, <2>1, <2>2, <2>4, <3>1 DEF Numbered
  <2> QED
    BY <2>1, <2>3, <2>4
<1>8. CASE Rest \/ UNCHANGED vars
  BY <1>8 DEF Rest, vars, Numbered
<1> QED
  BY <1>3, <1>4, <1>5, <1>6, <1>7, <1>8 DEF Next, Executes

\* The store's variables, the requests and the answers keep their types.
LEMMA StoreTyped ==
  ASSUME TypeOK, Fresh, Numbered, CompleteIsDue, [Next]_vars
  PROVE  StoreTypeOK'
<1>0. /\ ClientTypeOK /\ StoreTypeOK
      /\ MaxFaults \in Nat /\ NParts \in Nat
      /\ faults \in 0 .. MaxFaults
  BY TypeParts, UploadAssumption DEF StoreTypeOK
<1>1. ASSUME NEW u \in Uploaders,
             Create(u) \/ LaunchPart(u) \/ Collect(u) \/ Drop(u)
      PROVE  StoreTypeOK'
  <2>1. network' \subseteq Requests
    <3>1. CASE Create(u)
      BY <1>0, <3>1, RequestFacts DEF Create, StoreTypeOK, Kinds
    <3>2. CASE LaunchPart(u)
      <4>1. launched[u] + 1 \in Parts
        BY <1>0, <3>2 DEF LaunchPart, MoreParts, ClientTypeOK, Parts
      <4> QED
        BY <1>0, <3>2, <4>1, RequestFacts DEF LaunchPart, StoreTypeOK
    <3>3. CASE Collect(u)
      BY <1>0, <3>3, CollectSends, RequestFacts DEF StoreTypeOK, Kinds
    <3>4. CASE Drop(u)
      BY <1>0, <3>4 DEF Drop, StoreTypeOK
    <3> QED
      BY <1>1, <3>1, <3>2, <3>3, <3>4
  <2>2. /\ UNCHANGED <<created, open, partsAt, object, stored>>
        /\ answers' \subseteq answers
        /\ faults' \in 0 .. MaxFaults
    BY <1>0, <1>1 DEF Create, LaunchPart, Collect, Drop, store
  <2> QED
    BY <1>0, <2>1, <2>2 DEF StoreTypeOK
<1>2. ASSUME NEW r \in Requests, Receive(r) \/ Fail(r) \/ Retry(r)
      PROVE  StoreTypeOK'
  <2>1. /\ network' \subseteq network \cup {r}
        /\ UNCHANGED <<created, open, partsAt, object, stored>>
        /\ answers' \subseteq answers
        /\ faults' \in 0 .. MaxFaults
    <3>1. CASE Receive(r)
      BY <1>0, <3>1 DEF Receive, store
    <3>2. CASE Fail(r)
      BY <1>0, <3>2 DEF Fail, store
    <3>3. CASE Retry(r)
      BY <1>0, <3>3 DEF Retry, store
    <3> QED
      BY <1>2, <3>1, <3>2, <3>3
  <2> QED
    BY <1>0, <2>1 DEF StoreTypeOK
<1>3. ASSUME NEW r \in Requests, Executes(r)
      PROVE  StoreTypeOK'
  <2>1. PICK ok \in BOOLEAN :
          /\ r \in network /\ network' \subseteq network
          /\ answers' \subseteq answers \cup {AnswerTo(r, ok)}
          /\ faults' \in 0 .. MaxFaults
          /\ UNCHANGED <<client, lost>>
          /\ GivesId(r) \/ TakesPart(r) \/ Completes(r) \/ Aborts(r) \/ Refuses(r)
    BY <1>0, <1>3, ExecuteCases
  <2>2. r.by \in Uploaders /\ (r.kind = "part" => r.n \in Parts)
    BY RequestFacts
  <2>3. /\ created' \in [Uploaders -> 0 .. (MaxFaults + 1)]
        /\ GivesId(r) => created[r.by] + 1 \in 1 .. (MaxFaults + 1)
    <3>1. CASE GivesId(r)
      <4>1. r \in network /\ r = Request(r.by, "create", 0)
        BY <2>1, <3>1, RequestFacts DEF GivesId
      <4>2. created[r.by] + 1 <= IF phase[r.by] = "idle" THEN 0 ELSE faults + 1
        BY <2>2, <4>1 DEF Numbered
      <4>3. created[r.by] \in 0 .. (MaxFaults + 1)
        BY <1>0, <2>2 DEF StoreTypeOK
      <4>4. created[r.by] + 1 \in 1 .. (MaxFaults + 1)
        BY <1>0, <4>2, <4>3
      <4> QED
        BY <1>0, <2>2, <3>1, <4>4 DEF GivesId, StoreTypeOK
    <3>2. CASE ~GivesId(r)
      BY <1>0, <2>1, <3>2 DEF TakesPart, Completes, Aborts, Refuses, StoreTypeOK
    <3> QED
      BY <3>1, <3>2
  <2>4. answers' \subseteq [to : Requests, ok : BOOLEAN, id : 0 .. (MaxFaults + 1)]
    <3>1. created'[r.by] \in 0 .. (MaxFaults + 1)
      BY <2>2, <2>3
    <3> QED
      BY <1>0, <2>1, <3>1 DEF StoreTypeOK, AnswerTo
  <2>5. /\ open' \subseteq Uploaders \X (1 .. (MaxFaults + 1))
        /\ partsAt' \subseteq open' \X Parts
        /\ object'.parts \in Seq(Parts)
        /\ stored' \subseteq Uploaders
    <3>1. CASE GivesId(r)
      <4>1. <<r.by, created[r.by] + 1>> \in Uploaders \X (1 .. (MaxFaults + 1))
        BY <2>2, <2>3, <3>1
      <4> QED
        BY <1>0, <3>1, <4>1 DEF GivesId, StoreTypeOK
    <3>2. CASE TakesPart(r)
      BY <1>0, <2>2, <3>2 DEF TakesPart, StoreTypeOK
    <3>3. CASE Completes(r)
      <4>1. [i \in Parts |-> i] \in Seq(Parts)
        BY <1>0 DEF Parts
      <4>2. object'.parts = [i \in Parts |-> i]
        BY <3>3 DEF Completes
      <4>3. partsAt' \subseteq open' \X Parts
        BY <1>0, <3>3 DEF Completes, StoreTypeOK
      <4> QED
        BY <1>0, <2>2, <3>3, <4>1, <4>2, <4>3 DEF Completes, StoreTypeOK
    <3>4. CASE Aborts(r)
      BY <1>0, <3>4 DEF Aborts, StoreTypeOK
    <3>5. CASE Refuses(r)
      BY <1>0, <3>5 DEF Refuses, StoreTypeOK
    <3> QED
      BY <2>1, <3>1, <3>2, <3>3, <3>4, <3>5
  <2> QED
    BY <1>0, <2>1, <2>3, <2>4, <2>5 DEF StoreTypeOK
<1>4. CASE Rest \/ UNCHANGED vars
  BY <1>0, <1>4 DEF Rest, vars, StoreTypeOK
<1> QED
  BY <1>1, <1>2, <1>3, <1>4 DEF Next, Executes

\* When one request ends for its uploader, the others stay awaited.
LEMMA OthersStillAwaited ==
  ASSUME TypeOK, NEW r \in Requests, Awaits(r), NEW ok \in BOOLEAN, NEW id,
         Settled(r, ok, id), NEW q \in Requests, Awaits(q), q # r
  PROVE  Awaits(q)'
<1>0. ClientTypeOK /\ r.by \in Uploaders /\ q.by \in Uploaders
  BY TypeParts, RequestFacts
<1>1. \/ Opens(r.by, id)
      \/ r.kind = "part" /\ EndsPart(r.by, r.n, IF ok THEN "ok" ELSE "err")
      \/ Ends(r.by, Returned(r, ok))
  BY SettledCases
<1>2. CASE q.by # r.by
  <2>1. phase'[q.by] = phase[q.by] /\ flight'[q.by] = flight[q.by]
    BY <1>0, <1>1, <1>2 DEF Opens, EndsPart, Ends, ClientTypeOK
  <2> QED
    BY <2>1 DEF Awaits
<1>3. CASE q.by = r.by
  <2>1. q.kind = r.kind
    BY <1>3, RequestOf, RequestFacts DEF Kinds
  <2>2. q.kind = "part" /\ q.n # r.n
    BY <1>3, <2>1, RequestFacts
  <2>3. EndsPart(r.by, r.n, IF ok THEN "ok" ELSE "err")
    <3>1. r.kind = "part" /\ phase[r.by] = "uploading"
      BY <2>1, <2>2, RequestOf
    <3> QED
      BY <1>1, <3>1 DEF Opens, Ends
  <2>4. phase'[q.by] = "uploading" /\ q.n \in flight'[q.by]
    <3>1. phase[q.by] = "uploading" /\ q.n \in flight[q.by]
      BY <2>2, RequestOf
    <3> QED
      BY <1>0, <1>3, <2>2, <2>3, <3>1 DEF EndsPart, ClientTypeOK
  <2> QED
    BY <2>2, <2>4 DEF Awaits
<1> QED
  BY <1>2, <1>3

\* An uploader that has all its results has nothing in flight, and tried every
\* part.
LEMMA AllIn ==
  ASSUME TypeOK, Rotation, NEW u \in Uploaders, Len(results[u]) = NParts
  PROVE  flight[u] = {} /\ Done(u) = Parts
<1>1. /\ IsFiniteSet(flight[u]) /\ Cardinality(flight[u]) \in Nat
      /\ launched[u] \in 0 .. NParts /\ NParts \in Nat
  <2>1. /\ flight[u] \in SUBSET Parts /\ IsFiniteSet(Parts)
        /\ launched[u] \in 0 .. NParts /\ NParts \in Nat
    BY TypeParts, UploadAssumption, FS_Interval DEF ClientTypeOK, Parts
  <2> QED
    BY <2>1, FS_Subset, FS_CardinalityType
<1>2. Len(results[u]) + Cardinality(flight[u]) = launched[u]
  BY DEF Rotation
<1>3. Cardinality(flight[u]) = 0 /\ launched[u] = NParts
  BY <1>1, <1>2
<1>4. flight[u] = {}
  BY <1>1, <1>3, FS_EmptySet
<1> QED
  BY <1>3, <1>4 DEF Rotation, Parts

\* Every answer is the only one to a request that is awaited and not on its way.
LEMMA OneAnswerKept ==
  ASSUME TypeOK, Rotation, OneAnswer, CompleteIsDue, [Next]_vars
  PROVE  OneAnswer'
<1>0. /\ ClientTypeOK
      /\ \A a \in answers : a.to \in Requests /\ a.ok \in BOOLEAN
      /\ \A a \in answers : Awaits(a.to) /\ (faults = 0 => a.to \notin network)
      /\ faults \in Nat
      /\ \A a, b \in answers : a.to = b.to => a = b
  BY TypeParts, UploadAssumption DEF OneAnswer, StoreTypeOK
<1>1. ASSUME NEW u \in Uploaders, Create(u)
      PROVE  OneAnswer'
  <2>1. /\ phase[u] = "idle" /\ answers' = answers /\ flight' = flight
        /\ faults' = faults
        /\ \A w \in Uploaders : w # u => phase'[w] = phase[w]
        /\ network' = network \cup {Request(u, "create", 0)}
    BY <1>0, <1>1 DEF Create, ClientTypeOK
  <2>2. ASSUME NEW a \in answers
        PROVE  a.to.by \in Uploaders \ {u}
    BY <1>0, <2>1, <2>2, RequestOf DEF Live
  <2>3. ASSUME NEW a \in answers
        PROVE  Awaits(a.to)' /\ (faults' = 0 => a.to \notin network')
    <3>1. phase'[a.to.by] = phase[a.to.by] /\ flight'[a.to.by] = flight[a.to.by]
      BY <2>1, <2>2
    <3>2. Awaits(a.to)' <=> Awaits(a.to)
      BY <3>1 DEF Awaits
    <3>3. a.to # Request(u, "create", 0)
      BY <2>2, RequestFacts
    <3> QED
      BY <1>0, <2>1, <3>2, <3>3
  <2> QED
    BY <1>0, <2>1, <2>3 DEF OneAnswer
<1>2. ASSUME NEW u \in Uploaders, LaunchPart(u)
      PROVE  OneAnswer'
  <2>1. /\ answers' = answers /\ phase' = phase /\ faults' = faults
        /\ \A w \in Uploaders : flight[w] \subseteq flight'[w]
        /\ network' = network \cup {Request(u, "part", launched[u] + 1)}
    BY <1>0, <1>2 DEF LaunchPart, ClientTypeOK
  <2>2. launched[u] + 1 \notin flight[u]
    BY <1>0 DEF Rotation, ClientTypeOK
  <2>3. ASSUME NEW a \in answers
        PROVE  Awaits(a.to)' /\ (faults' = 0 => a.to \notin network')
    <3>1. Awaits(a.to)'
      BY <1>0, <2>1, RequestFacts DEF Awaits, Kinds
    <3>2. a.to # Request(u, "part", launched[u] + 1)
      BY <1>0, <2>2, RequestOf, RequestFacts
    <3> QED
      BY <1>0, <2>1, <3>1, <3>2
  <2> QED
    BY <1>0, <2>1, <2>3 DEF OneAnswer
<1>3. ASSUME NEW u \in Uploaders, Collect(u)
      PROVE  OneAnswer'
  <2>1. /\ answers' = answers /\ flight' = flight /\ phase[u] = "uploading"
        /\ \A w \in Uploaders : w # u => phase'[w] = phase[w]
        /\ \A q \in network' : q \in network \/ q.by = u
        /\ Len(results[u]) = NParts /\ faults' = faults
    <3>1. PICK kind \in {"complete", "abort"} :
            network' = network \cup {Request(u, kind, 0)}
      BY <1>3, CollectSends
    <3>2. \A q \in network' : q \in network \/ q.by = u
      BY <3>1, RequestFacts
    <3>3. /\ answers' = answers /\ flight' = flight /\ phase[u] = "uploading"
          /\ Len(results[u]) = NParts
      BY <1>3, CollectSends
    <3>4. \A w \in Uploaders : w # u => phase'[w] = phase[w]
      BY <1>0, <1>3 DEF Collect, ClientTypeOK
    <3>5. faults' = faults
      BY <1>3 DEF Collect
    <3> QED
      BY <3>2, <3>3, <3>4, <3>5
  <2>2. flight[u] = {}
    BY <2>1, AllIn
  <2>3. ASSUME NEW a \in answers
        PROVE  a.to.by \in Uploaders \ {u}
    BY <1>0, <2>1, <2>2, RequestOf
  <2>4. ASSUME NEW a \in answers
        PROVE  Awaits(a.to)' /\ (faults' = 0 => a.to \notin network')
    <3>1. phase'[a.to.by] = phase[a.to.by] /\ flight'[a.to.by] = flight[a.to.by]
      BY <2>1, <2>3
    <3>2. Awaits(a.to)' <=> Awaits(a.to)
      BY <3>1 DEF Awaits
    <3> QED
      BY <1>0, <2>1, <2>3, <3>2
  <2> QED
    BY <1>0, <2>1, <2>4 DEF OneAnswer
<1>4. ASSUME NEW u \in Uploaders, Drop(u)
      PROVE  OneAnswer'
  <2>1. /\ answers' = {a \in answers : a.to.by # u} /\ network' = network
        /\ flight' = flight /\ faults' = faults + 1
        /\ \A w \in Uploaders : w # u => phase'[w] = phase[w]
    BY <1>0, <1>4 DEF Drop, ClientTypeOK
  <2>2. ASSUME NEW a \in answers'
        PROVE  Awaits(a.to)' /\ (faults' = 0 => a.to \notin network')
    <3>1. a \in answers /\ a.to.by # u /\ a.to.by \in Uploaders
      BY <1>0, <2>1, RequestFacts
    <3>2. phase'[a.to.by] = phase[a.to.by] /\ flight'[a.to.by] = flight[a.to.by]
      BY <2>1, <3>1
    <3>3. Awaits(a.to)' <=> Awaits(a.to)
      BY <3>2 DEF Awaits
    <3> QED
      BY <1>0, <2>1, <3>1, <3>3
  <2> QED
    BY <1>0, <2>1, <2>2 DEF OneAnswer
<1>5. ASSUME NEW r \in Requests, Receive(r) \/ Fail(r)
      PROVE  OneAnswer'
  <2>1. /\ \A a \in answers' : a \in answers /\ a.to # r
        /\ network' \subseteq network /\ (faults' = 0 => faults = 0)
        /\ Awaits(r)
        /\ \E ok \in BOOLEAN, id \in Nat : Settled(r, ok, id)
    <3>1. CASE Receive(r)
      <4>1. PICK a \in answers : /\ a.to = r /\ answers' = answers \ {a}
                                 /\ Settled(r, a.ok, a.id)
        BY <3>1 DEF Receive
      <4>2. a.ok \in BOOLEAN /\ a.id \in Nat
        <5>1. StoreTypeOK /\ MaxFaults \in Nat
          BY TypeParts, UploadAssumption
        <5> QED
          BY <5>1 DEF StoreTypeOK
      <4>3. network' = network /\ Awaits(r) /\ faults' = faults
        BY <3>1 DEF Receive
      <4> QED
        BY <1>0, <4>1, <4>2, <4>3
    <3>2. CASE Fail(r)
      <4>1. FALSE \in BOOLEAN /\ 0 \in Nat
        OBVIOUS
      <4>2. /\ Settled(r, FALSE, 0) /\ Awaits(r)
            /\ answers' = {a \in answers : a.to # r}
            /\ network' \in {network, network \ {r}}
        BY <3>2 DEF Fail
      <4>3. /\ \A a \in answers' : a \in answers /\ a.to # r
            /\ network' \subseteq network
        BY <4>2
      <4>4. faults' = 0 => faults = 0
        BY <1>0, <3>2 DEF Fail
      <4> QED
        BY <4>1, <4>2, <4>3, <4>4, Zenon
    <3> QED
      BY <1>5, <3>1, <3>2
  <2>2. ASSUME NEW a \in answers'
        PROVE  Awaits(a.to)' /\ (faults' = 0 => a.to \notin network')
    BY <1>0, <2>1, OthersStillAwaited
  <2> QED
    BY <1>0, <2>1, <2>2 DEF OneAnswer
<1>6. ASSUME NEW r \in Requests, Retry(r)
      PROVE  OneAnswer'
  <2>1. /\ UNCHANGED <<phase, flight>> /\ answers' \subseteq answers
        /\ faults' # 0
    BY <1>0, <1>6 DEF Retry, client
  <2>2. \A a \in answers : Awaits(a.to)' <=> Awaits(a.to)
    BY <2>1 DEF Awaits
  <2> QED
    BY <1>0, <2>1, <2>2 DEF OneAnswer
<1>7. ASSUME NEW r \in Requests, Executes(r)
      PROVE  OneAnswer'
  <2>1. PICK ok \in BOOLEAN :
          /\ r \in network
          /\ network' = network \ {r} \/ faults' = faults + 1
          /\ network' \subseteq network /\ faults' >= faults /\ faults' \in Nat
          /\ \/ answers' = answers
             \/ /\ Awaits(r) /\ ~Answered(r)
                /\ answers' = answers \cup {AnswerTo(r, ok)}
          /\ UNCHANGED <<phase, flight>>
    BY <1>0, <1>7, ExecuteCases DEF client
  <2>2. \A q \in Requests : Awaits(q)' <=> Awaits(q)
    BY <2>1 DEF Awaits
  <2>3. ASSUME NEW a \in answers
        PROVE  Awaits(a.to)' /\ (faults' = 0 => a.to \notin network')
    BY <1>0, <2>1, <2>2
  <2>4. CASE answers' = answers
    BY <1>0, <2>3, <2>4 DEF OneAnswer
  <2>5. CASE /\ Awaits(r) /\ ~Answered(r)
             /\ answers' = answers \cup {AnswerTo(r, ok)}
    <3>1. AnswerTo(r, ok).to = r
      BY DEF AnswerTo
    <3>2. Awaits(r)' /\ (faults' = 0 => r \notin network')
      BY <1>0, <2>1, <2>2, <2>5
    <3>3. \A a \in answers : a.to # r
      BY <2>5 DEF Answered
    <3> QED
      BY <1>0, <2>3, <2>5, <3>1, <3>2, <3>3 DEF OneAnswer
  <2> QED
    BY <2>1, <2>4, <2>5
<1>8. CASE Rest \/ UNCHANGED vars
  BY <1>8 DEF Rest, vars, OneAnswer, Awaits
<1> QED
  BY <1>1, <1>2, <1>3, <1>4, <1>5, <1>6, <1>7, <1>8 DEF Next, Executes

\* What has ended well stays so.
LEMMA OkPartsGrow ==
  ASSUME TypeOK, [Next]_vars, NEW u \in Uploaders
  PROVE  OkParts(u) \subseteq OkParts(u)'
<1>0. ClientTypeOK
  BY TypeParts
<1>1. CASE UNCHANGED results
  BY <1>1 DEF OkParts, PartsThatEnded
<1>2. ASSUME NEW w \in Uploaders, NEW n \in Parts, NEW v \in {"ok", "err"},
             EndsPart(w, n, v)
      PROVE  OkParts(u) \subseteq OkParts(u)'
  <2>1. /\ \A i \in 1 .. Len(results[u]) : results'[u][i] = results[u][i]
        /\ Len(results'[u]) >= Len(results[u])
        /\ Len(results[u]) \in Nat /\ Len(results'[u]) \in Nat
    <3>1. CASE u = w
      BY <1>0, <1>2, <3>1, OneMoreDone
    <3>2. CASE u # w
      <4>1. results[u] \in Seq(Parts \X {"ok", "err"})
        BY <1>0 DEF ClientTypeOK
      <4>2. results'[u] = results[u] /\ Len(results[u]) \in Nat
        BY <1>0, <1>2, <3>2, <4>1, OneMoreDone
      <4> QED
        BY <4>2
    <3> QED
      BY <3>1, <3>2
  <2>2. 1 .. Len(results[u]) \subseteq 1 .. Len(results'[u])
    BY <2>1
  <2> QED
    BY <2>1, <2>2 DEF OkParts, PartsThatEnded
<1>3. UNCHANGED results \/ \E w \in Uploaders :
        \E n \in Parts, v \in {"ok", "err"} : EndsPart(w, n, v)
  BY ClientWays DEF client, Begins, Launches, Collects, Drops, Opens, Ends
<1> QED
  BY <1>1, <1>2, <1>3

\* No complete is under way before every part has ended well.
LEMMA CompleteIsDueKept ==
  ASSUME TypeOK, Rotation, CompleteIsDue, [Next]_vars
  PROVE  CompleteIsDue'
<1>0. ClientTypeOK /\ StoreTypeOK /\ ClientTypeOK'
  BY TypeParts, ClientTyped
<1>1. ASSUME NEW u \in Uploaders, OkParts(u) = Parts
      PROVE  OkParts(u)' = Parts
  BY <1>1, OkPartsGrow DEF OkParts, PartsThatEnded
<1>2. ASSUME NEW u \in Uploaders,
             phase'[u] = "completing" \/ Request(u, "complete", 0) \in network',
             ~(phase[u] = "completing" \/ Request(u, "complete", 0) \in network)
      PROVE  OkParts(u)' = Parts
  <2>1. Collect(u)
    <3>1. ASSUME NEW w \in Uploaders, Create(w) \/ LaunchPart(w) \/ Drop(w)
          PROVE  FALSE
      <4>1. phase'[u] # "completing" \/ phase[u] = "completing"
        BY <1>0, <3>1 DEF Create, LaunchPart, Drop, ClientTypeOK
      <4>2. Request(u, "complete", 0) \in network' =>
              Request(u, "complete", 0) \in network
        BY <3>1, RequestFacts DEF Create, LaunchPart, Drop
      <4> QED
        BY <1>2, <4>1, <4>2
    <3>2. ASSUME NEW w \in Uploaders, w # u, Collect(w)
          PROVE  FALSE
      <4>1. phase'[u] = phase[u]
        BY <1>0, <3>2 DEF Collect, ClientTypeOK
      <4>2. PICK kind \in {"complete", "abort"} :
              network' = network \cup {Request(w, kind, 0)}
        BY <3>2, CollectSends
      <4> QED
        BY <1>2, <3>2, <4>1, <4>2, RequestFacts
    <3>3. ASSUME NEW r \in Requests, Receive(r) \/ Fail(r)
          PROVE  FALSE
      <4>1. network' \subseteq network
        BY <3>3 DEF Receive, Fail
      <4>2. phase'[u] # "completing"
        <5>1. \A a \in answers : a.ok \in BOOLEAN
          BY <1>0 DEF StoreTypeOK
        <5>2. \E ok \in BOOLEAN : \E id : Awaits(r) /\ Settled(r, ok, id)
          BY <3>3, <5>1 DEF Receive, Fail
        <5>3. \/ \E id : Opens(r.by, id)
              \/ \E n, v : EndsPart(r.by, n, v)
              \/ \E o : Ends(r.by, o)
          BY <5>2, SettledCases
        <5> QED
          BY SMTT(30), <1>0, <1>2, <5>3, RequestFacts DEF Opens, EndsPart, Ends, ClientTypeOK
      <4> QED
        BY <1>2, <4>1, <4>2
    <3>4. ASSUME NEW r \in Requests, Retry(r)
          PROVE  FALSE
      <4>1. /\ phase' = phase /\ network' = network \cup {r} /\ Awaits(r)
        BY <3>4 DEF Retry, client
      <4>2. r = Request(u, "complete", 0)
        BY <1>2, <4>1
      <4>3. phase[u] = "completing"
        BY <4>1, <4>2, RequestOf, RequestFacts
      <4> QED
        BY <1>2, <4>3
    <3>5. ASSUME NEW r \in Requests, Executes(r)
          PROVE  FALSE
      BY <1>2, <3>5 DEF Executes, Execute, ExecuteOneOfTwo, Execution, client
    <3>6. CASE Rest \/ UNCHANGED vars
      BY <1>2, <3>6 DEF Rest, vars
    <3> QED
      BY <3>1, <3>2, <3>3, <3>4, <3>5, <3>6 DEF Next, Executes
  <2>2. Len(results[u]) = NParts /\ results' = results
    BY <2>1, CollectSends
  <2>3. FailedParts(u) = {}
    <3>1. CASE FailedParts(u) # {}
      <4>1. /\ phase'[u] = "aborting"
            /\ network' = network \cup {Request(u, "abort", 0)}
        BY <1>0, <2>1, <3>1, CollectSends DEF ClientTypeOK
      <4> QED
        BY <1>2, <4>1, RequestFacts
    <3> QED
      BY <3>1
  <2>4. ASSUME NEW n \in Parts
        PROVE  n \in OkParts(u)
    <3>1. n \in Done(u)
      BY <2>2, AllIn
    <3>2. PICK i \in 1 .. Len(results[u]) : results[u][i][1] = n
      BY <3>1 DEF Done
    <3>3. results[u][i] \in Parts \X {"ok", "err"}
      BY <1>0, ElementOfSeq DEF ClientTypeOK
    <3>4. results[u][i] # <<n, "err">>
      BY <2>3 DEF FailedParts, PartsThatEnded
    <3>5. results[u][i] = <<n, "ok">>
      BY <3>2, <3>3, <3>4
    <3> QED
      BY <3>5 DEF OkParts, PartsThatEnded
  <2> QED
    BY <2>4, <1>1 DEF OkParts, PartsThatEnded
<1> QED
  BY <1>1, <1>2 DEF CompleteIsDue

\* A step that is not the store's leaves the store alone.
LEMMA StoreAlone ==
  ASSUME [Next]_vars, ~ \E r \in Requests : Executes(r)
  PROVE  UNCHANGED <<created, open, partsAt, object, stored>>
BY DEF Next, Create, LaunchPart, Collect, Drop, Receive, Fail, Retry, Rest,
   vars, store, Executes

\* A body that is stored stays counted so, and an id that is given is not
\* opened again.
LEMMA StoreGoesOn ==
  ASSUME TypeOK, CompleteIsDue, [Next]_vars
  PROVE  /\ stored \subseteq stored'
         /\ \A u \in Uploaders : \A i \in 0 .. created[u] :
              <<u, i>> \notin open => <<u, i>> \notin open'
<1>1. CASE UNCHANGED <<created, open, partsAt, object, stored>>
  BY <1>1
<1>2. ASSUME NEW r \in Requests, Executes(r)
      PROVE  /\ stored \subseteq stored'
             /\ \A u \in Uploaders : \A i \in 0 .. created[u] :
                  <<u, i>> \notin open => <<u, i>> \notin open'
  <2>1. GivesId(r) \/ TakesPart(r) \/ Completes(r) \/ Aborts(r) \/ Refuses(r)
    BY <1>2, ExecuteCases
  <2>2. CASE GivesId(r)
    <3>1. created[r.by] \in Nat
      BY TypeParts, UploadAssumption, RequestFacts DEF StoreTypeOK
    <3> QED
      BY <2>2, <3>1 DEF GivesId
  <2>3. CASE TakesPart(r) \/ Completes(r) \/ Aborts(r) \/ Refuses(r)
    BY <2>3 DEF TakesPart, Completes, Aborts, Refuses
  <2> QED
    BY <2>1, <2>2, <2>3
<1> QED
  BY <1>1, <1>2, StoreAlone

\* An uploader's id changes only with the answer to its create, and no phase
\* leads back from the end.
LEMMA UidSettles ==
  ASSUME TypeOK, [Next]_vars, NEW u \in Uploaders
  PROVE  /\ phase[u] \notin {"creating"} => uid'[u] = uid[u]
         /\ phase[u] = "ended" => phase'[u] = "ended"
<1>0. ClientTypeOK
  BY TypeParts
<1>1. CASE UNCHANGED client
  BY <1>1 DEF client
<1>2. ASSUME NEW w \in Uploaders,
             \/ Begins(w) \/ Launches(w) \/ Collects(w) \/ Drops(w)
             \/ \E id \in 0 .. (MaxFaults + 1) : Opens(w, id)
             \/ \E n \in Parts, v \in {"ok", "err"} : EndsPart(w, n, v)
             \/ \E o \in {"ok", "err"} : Ends(w, o)
      PROVE  /\ phase[u] \notin {"creating"} => uid'[u] = uid[u]
             /\ phase[u] = "ended" => phase'[u] = "ended"
  BY <1>0, <1>2 DEF Begins, Launches, Collects, Drops, Opens, EndsPart, Ends,
     ClientTypeOK, Live
<1> QED
  BY ClientWays, <1>1, <1>2

\* A good answer to the last request tells the truth for as long as it is on
\* its way.
LEMMA AnswersTrueKept ==
  ASSUME TypeOK, Numbered, OneAnswer, CompleteIsDue, AnswersTrue, [Next]_vars
  PROVE  AnswersTrue'
<1>0. /\ StoreTypeOK
      /\ \A u \in Uploaders : uid[u] \in 0 .. created[u]
  <2>1. ClientTypeOK /\ StoreTypeOK /\ MaxFaults \in Nat
    BY TypeParts, UploadAssumption
  <2>2. \A u \in Uploaders : uid[u] \in Nat /\ created[u] \in Nat
    BY <2>1 DEF ClientTypeOK, StoreTypeOK
  <2> QED
    BY <2>1, <2>2 DEF Numbered
<1>1. ASSUME NEW a \in answers' \cap answers, a.ok
      PROVE  /\ a.to.kind = "complete" => a.to.by \in stored'
             /\ a.to.kind \in {"complete", "abort"}
                  => <<a.to.by, uid'[a.to.by]>> \notin open'
  <2>1. /\ a.to \in Requests /\ a.to.by \in Uploaders /\ Awaits(a.to)
    BY <1>0, RequestFacts DEF StoreTypeOK, OneAnswer
  <2>2. a.to.kind \in {"complete", "abort"} => uid'[a.to.by] = uid[a.to.by]
    BY <2>1, RequestOf, UidSettles
  <2> QED
    BY <1>0, <1>1, <2>1, <2>2, StoreGoesOn DEF AnswersTrue
<1>2. ASSUME NEW a \in answers' \ answers, a.ok
      PROVE  /\ a.to.kind = "complete" => a.to.by \in stored'
             /\ a.to.kind \in {"complete", "abort"}
                  => <<a.to.by, uid'[a.to.by]>> \notin open'
  <2>1. PICK r \in Requests : Executes(r)
    BY <1>2 DEF Next, Create, LaunchPart, Collect, Drop, Receive, Fail, Retry,
       Rest, vars, Executes
  <2>2. PICK ok \in BOOLEAN :
          /\ answers' \subseteq answers \cup {AnswerTo(r, ok)}
          /\ uid' = uid
          /\ \/ ok /\ (GivesId(r) \/ TakesPart(r) \/ Completes(r) \/ Aborts(r))
             \/ ~ok /\ Refuses(r)
    BY <2>1, ExecuteCases DEF client
  <2>3. a = AnswerTo(r, ok)
    BY <1>2, <2>2
  <2>4. a.to = r /\ ok
    BY <1>2, <2>3 DEF AnswerTo
  <2> QED
    BY <1>2, <2>2, <2>4 DEF GivesId, TakesPart, Completes, Aborts, UploadOf
<1> QED
  BY <1>1, <1>2 DEF AnswersTrue

\* How a call that has just ended came to its end.
LEMMA EndOfCall ==
  ASSUME TypeOK, [Next]_vars, NEW u \in Uploaders,
         phase[u] # "ended", phase'[u] = "ended"
  PROVE  /\ UNCHANGED <<uid, created, open, partsAt, object, stored>>
         /\ \E r \in Requests, ok \in BOOLEAN :
              /\ r.by = u /\ Awaits(r) /\ r.kind # "part"
              /\ outcome' = [outcome EXCEPT ![u] = Returned(r, ok)]
              /\ IF ok THEN r.kind # "create" /\ \E a \in answers : a.to = r /\ a.ok
                       ELSE <<u, r.kind>> \in lost'
<1>0. ClientTypeOK /\ StoreTypeOK
  BY TypeParts
<1>1. \E r \in Requests : Receive(r) \/ Fail(r)
  <2>1. ASSUME NEW w \in Uploaders,
               Create(w) \/ LaunchPart(w) \/ Collect(w) \/ Drop(w)
        PROVE  FALSE
    BY <1>0, <2>1 DEF Create, LaunchPart, Collect, Drop, AfterParts, ClientTypeOK
  <2>2. ASSUME NEW r \in Requests, Retry(r) \/ Executes(r)
        PROVE  FALSE
    BY <2>2 DEF Retry, Executes, Execute, ExecuteOneOfTwo, Execution, client
  <2>3. CASE Rest \/ UNCHANGED vars
    BY <2>3 DEF Rest, vars
  <2> QED
    BY <2>1, <2>2, <2>3 DEF Next, Executes
<1>2. PICK r \in Requests : Receive(r) \/ Fail(r)
  BY <1>1
<1>3. /\ UNCHANGED <<created, open, partsAt, object, stored>>
      /\ Awaits(r)
  BY <1>2 DEF Receive, Fail, store
<1>4. PICK ok \in BOOLEAN : \E id :
        /\ Settled(r, ok, id)
        /\ ok => \E a \in answers : a.to = r /\ a.ok
  <2>1. CASE Receive(r)
    <3>1. PICK a \in answers : a.to = r /\ Settled(r, a.ok, a.id)
      BY <2>1 DEF Receive
    <3>2. a.ok \in BOOLEAN
      BY <1>0 DEF StoreTypeOK
    <3> QED
      BY <3>1, <3>2
  <2>2. CASE Fail(r)
    <3>1. FALSE \in BOOLEAN /\ Settled(r, FALSE, 0)
      BY <2>2 DEF Fail
    <3> QED
      BY <3>1, Zenon
  <2> QED
    BY <1>2, <2>1, <2>2
<1>5. PICK id : Settled(r, ok, id)
  BY <1>4
<1>6. /\ r.by = u /\ r.kind # "part" /\ ~(r.kind = "create" /\ ok)
      /\ Ends(r.by, Returned(r, ok))
      /\ lost' = IF ok THEN lost ELSE lost \cup {<<r.by, r.kind>>}
  <2>1. r.by \in Uploaders
    BY RequestFacts
  <2> QED
    BY SMTT(30), <1>0, <1>3, <1>5, <2>1, SettledCases DEF Opens, EndsPart, Ends, ClientTypeOK
<1>7. IF ok THEN r.kind # "create" /\ \E a \in answers : a.to = r /\ a.ok
            ELSE <<u, r.kind>> \in lost'
  BY <1>4, <1>6
<1> QED
  BY <1>3, <1>6, <1>7 DEF Ends

\* A call that has returned leaves its upload closed, unless its last request
\* failed; what it returned as Ok is stored.
LEMMA EndsKept ==
  ASSUME TypeOK, Fresh, Numbered, OneAnswer, CompleteIsDue, AnswersTrue,
         ClosedOrLost, OkMeansStored, [Next]_vars
  PROVE  ClosedOrLost' /\ OkMeansStored'
<1>0. /\ ClientTypeOK /\ StoreTypeOK /\ ClientTypeOK'
      /\ \A u \in Uploaders : uid[u] \in 0 .. created[u]
  <2>1. ClientTypeOK /\ StoreTypeOK /\ MaxFaults \in Nat
    BY TypeParts, UploadAssumption
  <2>2. \A u \in Uploaders : uid[u] \in Nat /\ created[u] \in Nat
    BY <2>1 DEF ClientTypeOK, StoreTypeOK
  <2> QED
    BY <2>1, <2>2, ClientTyped DEF Numbered
<1>1. lost \subseteq lost'
  <2>1. ASSUME NEW r \in Requests, Receive(r) \/ Fail(r)
        PROVE  lost \subseteq lost'
    BY <2>1 DEF Receive, Fail, Settled
  <2> QED
    BY <2>1 DEF Next, Create, LaunchPart, Collect, Drop, Retry, Execute,
       ExecuteOneOfTwo, Execution, Rest, vars
<1>2. ASSUME NEW u \in Uploaders, phase[u] = "ended"
      PROVE  /\ \/ <<u, uid'[u]>> \notin open'
                \/ <<u, "complete">> \in lost'
                \/ <<u, "abort">> \in lost'
  <2>1. uid'[u] = uid[u]
    BY <1>2, UidSettles
  <2> QED
    BY <1>0, <1>1, <1>2, <2>1, StoreGoesOn DEF ClosedOrLost
<1>3. ASSUME NEW u \in Uploaders, phase[u] # "ended", phase'[u] = "ended"
      PROVE  /\ \/ <<u, uid'[u]>> \notin open'
                \/ <<u, "complete">> \in lost'
                \/ <<u, "abort">> \in lost'
             /\ outcome'[u] = "ok" => u \in stored'
  <2>1. UNCHANGED <<uid, created, open, partsAt, object, stored>>
    BY <1>3, EndOfCall
  <2>2. PICK r \in Requests, ok \in BOOLEAN :
          /\ r.by = u /\ Awaits(r) /\ r.kind # "part"
          /\ outcome' = [outcome EXCEPT ![u] = Returned(r, ok)]
          /\ IF ok THEN r.kind # "create" /\ \E a \in answers : a.to = r /\ a.ok
                   ELSE <<u, r.kind>> \in lost'
    BY <1>3, EndOfCall
  <2>3. r.kind \in Kinds
    BY RequestFacts
  <2>4. outcome'[u] = Returned(r, ok)
    BY <1>0, <2>2 DEF ClientTypeOK
  <2>5. CASE ok
    <3>1. PICK a \in answers : a.to = r /\ a.ok
      BY <2>2, <2>5
    <3>2. r.kind \in {"complete", "abort"}
      BY <2>2, <2>3, <2>5 DEF Kinds
    <3>3. <<u, uid[u]>> \notin open /\ (r.kind = "complete" => u \in stored)
      BY <2>2, <3>1, <3>2 DEF AnswersTrue
    <3>4. r.kind = "abort" => outcome'[u] = "err"
      BY <2>4 DEF Returned
    <3> QED
      BY <2>1, <3>2, <3>3, <3>4
  <2>6. CASE ~ok
    <3>1. outcome'[u] = "err"
      BY <2>4, <2>6 DEF Returned
    <3>2. r.kind = "create" => uid[u] = 0
      BY <2>2, RequestOf DEF Fresh
    <3>3. <<u, 0>> \notin open
      BY <1>0 DEF StoreTypeOK
    <3> QED
      BY <2>1, <2>2, <2>3, <2>6, <3>1, <3>2, <3>3 DEF Kinds
  <2> QED
    BY <2>5, <2>6, Zenon
<1>4. ASSUME NEW u \in Uploaders, outcome'[u] = "ok"
      PROVE  u \in stored'
  <2>1. CASE outcome[u] = "ok"
    BY <2>1, StoreGoesOn DEF OkMeansStored
  <2>2. CASE outcome[u] # "ok"
    <3>1. phase[u] # "ended" /\ phase'[u] = "ended"
      <4>1. outcome' # outcome
        BY <1>4, <2>2
      <4>2. PICK w \in Uploaders : \E o \in {"ok", "err"} : Ends(w, o)
        BY <4>1, ClientWays
           DEF client, Begins, Launches, Collects, Drops, Opens, EndsPart
      <4>3. /\ phase[w] # "ended" /\ phase' = [phase EXCEPT ![w] = "ended"]
            /\ \E o : outcome' = [outcome EXCEPT ![w] = o]
        BY <4>2 DEF Ends
      <4>4. w = u
        BY <1>0, <1>4, <2>2, <4>3 DEF ClientTypeOK
      <4> QED
        BY <1>0, <4>3, <4>4 DEF ClientTypeOK
    <3> QED
      BY <1>3, <1>4, <3>1
  <2> QED
    BY <2>1, <2>2
<1> QED
  BY <1>2, <1>3, <1>4 DEF ClosedOrLost, OkMeansStored

\* Only a complete that lists every part makes an object.
LEMMA ObjectKept ==
  ASSUME TypeOK, CompleteIsDue, ObjectIsOneWholeBody, [Next]_vars
  PROVE  ObjectIsOneWholeBody'
<1>1. CASE UNCHANGED object
  BY <1>1 DEF ObjectIsOneWholeBody
<1>2. ASSUME NEW r \in Requests, Executes(r)
      PROVE  ObjectIsOneWholeBody'
  <2>1. object' = object \/ object'.parts = [i \in Parts |-> i]
    BY <1>2, ExecuteCases DEF GivesId, TakesPart, Completes, Aborts, Refuses
  <2> QED
    BY <2>1 DEF ObjectIsOneWholeBody
<1> QED
  BY <1>1, <1>2, StoreAlone

-----------------------------------------------------------------------------
(* As long as nothing fails *)

\* One more good part does not make a failed one.
LEMMA NoFailedPart ==
  ASSUME TypeOK, NEW u \in Uploaders, NEW n \in Parts, EndsPart(u, n, "ok"),
         FailedParts(u) = {}
  PROVE  FailedParts(u)' = {}
<1>0. ClientTypeOK
  BY TypeParts
<1>1. /\ Len(results'[u]) = Len(results[u]) + 1
      /\ \A i \in 1 .. Len(results[u]) : results'[u][i] = results[u][i]
      /\ results'[u][Len(results[u]) + 1] = <<n, "ok">>
      /\ Len(results[u]) \in Nat
  BY <1>0, OneMoreDone
<1>2. ASSUME NEW m \in Parts, NEW i \in 1 .. Len(results'[u]),
             results'[u][i] = <<m, "err">>
      PROVE  FALSE
  <2>1. i \in 1 .. Len(results[u]) \/ i = Len(results[u]) + 1
    BY <1>1
  <2>2. CASE i \in 1 .. Len(results[u])
    BY <1>1, <1>2, <2>2 DEF FailedParts, PartsThatEnded
  <2>3. CASE i = Len(results[u]) + 1
    BY <1>1, <1>2, <2>3
  <2> QED
    BY <2>1, <2>2, <2>3
<1> QED
  BY <1>2 DEF FailedParts, PartsThatEnded

\* An uploader that begins, launches a part or collects its parts.
LEMMA FaultlessBegun ==
  ASSUME TypeOK, Rotation, Faultless, OneAnswer, NEW u \in Uploaders,
         Create(u) \/ LaunchPart(u) \/ Collect(u)
  PROVE  Faultless'
<1>0. /\ ClientTypeOK /\ StoreTypeOK
      /\ \A w \in Uploaders : Smooth(w)
      /\ \A q \in network : q \in Requests /\ Awaits(q)
  BY TypeParts DEF Faultless, StoreTypeOK
<1>1. /\ UNCHANGED <<uid, results, outcome, answers, created, open, partsAt>>
      /\ \A w \in Uploaders : w # u => phase'[w] = phase[w]
      /\ phase[u] \in {"idle", "uploading"}
      /\ phase'[u] \in {"creating", "uploading", "completing"}
      /\ phase'[u] = "uploading" => phase[u] = "uploading"
  <2>1. CASE Create(u)
    BY <1>0, <2>1 DEF Create, store, ClientTypeOK
  <2>2. CASE LaunchPart(u)
    BY <1>0, <2>2 DEF LaunchPart, store, ClientTypeOK
  <2>3. CASE Collect(u)
    <3>1. FailedParts(u) = {}
      BY <1>0 DEF Smooth
    <3> QED
      BY <1>0, <2>3, <3>1, CollectSends DEF store, ClientTypeOK
  <2> QED
    BY <2>1, <2>2, <2>3
<1>2. /\ \A q \in network' : q \in network \/ Awaits(q)'
      /\ \A q \in network : q.by = u => Awaits(q)'
      /\ \A w \in Uploaders : w # u => flight'[w] = flight[w]
      /\ \A w \in Uploaders :
           Request(w, "complete", 0) \in network' =>
             Request(w, "complete", 0) \in network \/ (w = u /\ Collect(u))
  <2>1. CASE Create(u)
    <3>1. /\ phase[u] = "idle" /\ phase'[u] = "creating" /\ flight' = flight
          /\ network' = network \cup {Request(u, "create", 0)}
      BY <1>0, <2>1 DEF Create, ClientTypeOK
    <3>2. \A q \in network' : q \in network \/ Awaits(q)'
      <4>1. PICK q : q = Request(u, "create", 0)
        OBVIOUS
      <4>2. q.by = u /\ q.kind = "create"
        BY <4>1, RequestFacts
      <4>3. Awaits(q)'
        BY <3>1, <4>2 DEF Awaits
      <4> QED
        BY <3>1, <4>1, <4>3
    <3>3. \A q \in network : q.by # u
      BY <1>0, <3>1, RequestOf DEF Live
    <3>4. \A w \in Uploaders :
            Request(w, "complete", 0) \in network' => Request(w, "complete", 0) \in network
      BY <3>1, RequestFacts
    <3> QED
      BY <3>1, <3>2, <3>3, <3>4
  <2>2. CASE LaunchPart(u)
    <3>1. /\ phase' = phase /\ phase[u] = "uploading"
          /\ flight' = [flight EXCEPT ![u] = @ \cup {launched[u] + 1}]
          /\ network' = network \cup {Request(u, "part", launched[u] + 1)}
      BY <2>2 DEF LaunchPart
    <3>2. /\ flight'[u] = flight[u] \cup {launched[u] + 1}
          /\ \A w \in Uploaders : w # u => flight'[w] = flight[w]
      BY <1>0, <3>1 DEF ClientTypeOK
    <3>3. \A q \in network' : q \in network \/ Awaits(q)'
      <4>1. PICK q : q = Request(u, "part", launched[u] + 1)
        OBVIOUS
      <4>2. q.by = u /\ q.kind = "part" /\ q.n = launched[u] + 1
        BY <4>1, RequestFacts
      <4>3. Awaits(q)'
        BY <3>1, <3>2, <4>2 DEF Awaits
      <4> QED
        BY <3>1, <4>1, <4>3
    <3>4. ASSUME NEW q \in network, q.by = u
          PROVE  Awaits(q)'
      <4>1. q.kind = "part" /\ q.n \in flight[u]
        BY <1>0, <3>1, <3>4, RequestOf
      <4> QED
        BY <3>1, <3>2, <3>4, <4>1 DEF Awaits
    <3>5. \A w \in Uploaders :
            Request(w, "complete", 0) \in network' => Request(w, "complete", 0) \in network
      BY <3>1, RequestFacts
    <3> QED
      BY <3>1, <3>2, <3>3, <3>4, <3>5
  <2>3. CASE Collect(u)
    <3>1. FailedParts(u) = {}
      BY <1>0 DEF Smooth
    <3>2. /\ phase[u] = "uploading" /\ Len(results[u]) = NParts
          /\ phase'[u] = "completing" /\ flight' = flight
          /\ network' = network \cup {Request(u, "complete", 0)}
      BY <1>0, <2>3, <3>1, CollectSends DEF ClientTypeOK
    <3>3. \A q \in network : q.by # u
      <4>1. flight[u] = {}
        BY <3>2, AllIn
      <4> QED
        BY <1>0, <3>2, <4>1, RequestOf
    <3>4. \A q \in network' : q \in network \/ Awaits(q)'
      <4>1. PICK q : q = Request(u, "complete", 0)
        OBVIOUS
      <4>2. q.by = u /\ q.kind = "complete"
        BY <4>1, RequestFacts
      <4>3. Awaits(q)'
        BY <3>2, <4>2 DEF Awaits
      <4> QED
        BY <3>2, <4>1, <4>3
    <3>5. \A w \in Uploaders :
            Request(w, "complete", 0) \in network' =>
              Request(w, "complete", 0) \in network \/ w = u
      BY <3>2, RequestFacts
    <3> QED
      BY <2>3, <3>2, <3>3, <3>4, <3>5
  <2> QED
    BY <2>1, <2>2, <2>3
<1>3. ASSUME NEW q \in network'
      PROVE  Awaits(q)'
  <2>1. CASE q \in network /\ q.by # u
    <3>1. /\ phase'[q.by] = phase[q.by] /\ flight'[q.by] = flight[q.by]
          /\ Awaits(q)
      BY <1>0, <1>1, <1>2, <2>1, RequestFacts
    <3> QED
      BY <3>1 DEF Awaits
  <2> QED
    BY <1>2, <2>1
<1>4. ASSUME NEW w \in Uploaders
      PROVE  Smooth(w)'
  <2>1. Pending(w)' => Pending(w)
    <3>1. Collect(u) => phase[u] = "uploading"
      BY DEF Collect
    <3> QED
      BY <1>1, <1>2, <3>1 DEF Pending
  <2>2. FailedParts(w)' = FailedParts(w) /\ Done(w)' = Done(w)
    BY <1>1 DEF FailedParts, PartsThatEnded, Done
  <2>3. phase'[w] \notin {"aborting", "dropped"}
    BY <1>0, <1>1 DEF Smooth
  <2> QED
    BY <1>0, <1>1, <2>1, <2>2, <2>3 DEF Smooth
<1>5. \A a \in answers' : AnsweredWell(a)'
  BY <1>1 DEF Faultless, AnsweredWell
<1> QED
  BY <1>3, <1>4, <1>5 DEF Faultless

\* An answer that is received.
LEMMA FaultlessReceived ==
  ASSUME TypeOK, Rotation, Fresh, OneAnswer, faults = 0, Faultless,
         NEW r \in Requests, Receive(r)
  PROVE  Faultless'
<1> DEFINE u == r.by
<1>0. /\ ClientTypeOK /\ StoreTypeOK /\ u \in Uploaders
      /\ \A w \in Uploaders : Smooth(w)
      /\ \A q \in network : q \in Requests /\ Awaits(q)
      /\ \A b \in answers : b.to \in Requests /\ AnsweredWell(b) /\ Awaits(b.to)
  BY TypeParts, RequestFacts DEF Faultless, StoreTypeOK, OneAnswer
<1>1. PICK a \in answers : /\ a.to = r /\ answers' = answers \ {a}
                           /\ Settled(r, a.ok, a.id)
  BY DEF Receive
<1>2. /\ Awaits(r) /\ r \notin network /\ \A b \in answers' : b.to # r
      /\ a.ok = TRUE /\ a.ok
      /\ UNCHANGED <<network, created, open, partsAt, object, stored>>
  <2>1. a.ok \in BOOLEAN /\ a.ok
    BY <1>0, <1>1 DEF StoreTypeOK, AnsweredWell
  <2> QED
    BY <1>1, <2>1 DEF Receive, OneAnswer, store
<1>3. \/ r.kind = "create" /\ Opens(u, a.id)
      \/ r.kind = "part" /\ r.n \in Parts /\ EndsPart(u, r.n, "ok")
      \/ r.kind = "complete" /\ Ends(u, "ok")
  <2>1. \/ r.kind = "create" /\ Opens(u, a.id)
        \/ r.kind = "part" /\ r.n \in Parts /\ EndsPart(u, r.n, "ok")
        \/ r.kind \notin {"part", "create"} /\ Ends(u, Returned(r, TRUE))
    <3>1. Settled(r, TRUE, a.id)
      BY <1>1, <1>2
    <3> QED
      BY <1>2, <3>1, SettledCases
  <2>2. r.kind # "abort"
    BY <1>0, <1>2, RequestOf DEF Smooth
  <2>3. r.kind \in Kinds
    BY RequestFacts
  <2> QED
    BY <2>1, <2>2, <2>3 DEF Kinds, Returned
<1>4. \A q \in network' : Awaits(q)'
  <2>1. \A q \in network : q # r /\ q \in Requests /\ Awaits(q)
    BY <1>0, <1>2
  <2>2. Settled(r, TRUE, a.id)
    BY <1>1, <1>2
  <2> QED
    BY <1>2, <2>1, <2>2, OthersStillAwaited
<1>5. ASSUME NEW w \in Uploaders, w # u
      PROVE  Smooth(w)'
  <2>1. /\ phase'[w] = phase[w] /\ uid'[w] = uid[w] /\ results'[w] = results[w]
        /\ outcome'[w] = outcome[w]
    BY <1>0, <1>3, <1>5 DEF Opens, EndsPart, Ends, ClientTypeOK
  <2>2. /\ FailedParts(w)' = FailedParts(w) /\ Done(w)' = Done(w)
        /\ Pending(w)' <=> Pending(w)
    BY <1>2, <2>1 DEF FailedParts, PartsThatEnded, Done, Pending
  <2> QED
    BY <1>0, <1>2, <2>1, <2>2 DEF Smooth
<1>6. Smooth(u)'
  <2>1. CASE r.kind = "create" /\ Opens(u, a.id)
    <3>1. /\ phase[u] = "creating" /\ phase'[u] = "uploading" /\ uid'[u] = a.id
          /\ UNCHANGED <<launched, results, outcome>>
      BY <1>0, <2>1 DEF Opens, ClientTypeOK
    <3>2. FailedParts(u)' = FailedParts(u) /\ Done(u)' = Done(u)
      BY <3>1 DEF FailedParts, PartsThatEnded, Done
    <3>3. Done(u) = {}
      BY <1>0, <3>1 DEF Fresh, Rotation
    <3>4. <<u, a.id>> \in open
      BY <1>0, <1>1, <2>1 DEF AnsweredWell
    <3> QED
      BY <1>0, <1>2, <3>1, <3>2, <3>3, <3>4 DEF Smooth
  <2>2. CASE r.kind = "part" /\ r.n \in Parts /\ EndsPart(u, r.n, "ok")
    <3>1. phase[u] = "uploading" /\ UNCHANGED <<phase, uid, outcome>>
      BY <2>2 DEF EndsPart
    <3>2. FailedParts(u)' = {}
      BY <1>0, <2>2, NoFailedPart DEF Smooth
    <3>3. Done(u)' = Done(u) \cup {r.n}
      BY <1>0, <2>2, OneMoreDone
    <3>4. <<<<u, uid[u]>>, r.n>> \in partsAt
      BY <1>0, <1>1, <2>2 DEF AnsweredWell
    <3>5. Pending(u)
      BY <3>1 DEF Pending
    <3> QED
      BY <1>0, <1>2, <3>1, <3>2, <3>3, <3>4, <3>5 DEF Smooth
  <2>3. CASE r.kind = "complete" /\ Ends(u, "ok")
    <3>1. phase'[u] = "ended" /\ outcome'[u] = "ok" /\ results' = results
      BY <1>0, <2>3 DEF Ends, ClientTypeOK
    <3>2. FailedParts(u)' = FailedParts(u)
      BY <3>1 DEF FailedParts, PartsThatEnded
    <3>3. r = Request(u, "complete", 0)
      BY <2>3, RequestFacts
    <3>4. ~Pending(u)'
      BY <1>2, <3>1, <3>3 DEF Pending
    <3> QED
      BY <1>0, <3>1, <3>2, <3>4 DEF Smooth
  <2> QED
    BY <1>3, <2>1, <2>2, <2>3
<1>7. ASSUME NEW b \in answers'
      PROVE  AnsweredWell(b)'
  <2>1. b \in answers /\ b.to # r /\ b.to.by \in Uploaders /\ AnsweredWell(b)
    BY <1>0, <1>1, <1>2, RequestFacts
  <2>2. b.to.kind = "part" => uid'[b.to.by] = uid[b.to.by]
    <3>1. b.to.kind = "part" => phase[b.to.by] = "uploading"
      BY <1>0, <2>1, RequestOf
    <3> QED
      BY <1>0, <1>3, <2>1, <3>1 DEF Opens, EndsPart, Ends, ClientTypeOK
  <2> QED
    BY <1>2, <2>1, <2>2 DEF AnsweredWell
<1> QED
  BY <1>4, <1>5, <1>6, <1>7 DEF Faultless

\* A request that reaches the store.
LEMMA FaultlessExecuted ==
  ASSUME TypeOK, Numbered, OneAnswer, CompleteIsDue, faults = 0, Faultless,
         NEW r \in Requests, Execute(r)
  PROVE  Faultless'
<1> DEFINE u == r.by
<1>0. /\ ClientTypeOK /\ StoreTypeOK /\ u \in Uploaders
      /\ \A w \in Uploaders : Smooth(w)
      /\ \A q \in network : q \in Requests /\ Awaits(q)
      /\ \A b \in answers : b.to \in Requests /\ AnsweredWell(b) /\ Awaits(b.to)
  BY TypeParts, RequestFacts DEF Faultless, StoreTypeOK, OneAnswer
<1>1. PICK ok \in BOOLEAN :
        /\ r \in network /\ network' = network \ {r}
        /\ \/ answers' = answers /\ (~Awaits(r) \/ Answered(r))
           \/ answers' = answers \cup {AnswerTo(r, ok)}
        /\ UNCHANGED client
        /\ \/ ok /\ (GivesId(r) \/ TakesPart(r) \/ Completes(r) \/ Aborts(r))
           \/ ~ok /\ Refuses(r)
  <2>1. network' = network \ {r} /\ faults' = faults /\ Executes(r)
    BY DEF Execute, Executes
  <2> QED
    BY <2>1, ExecuteCases
<1>2. /\ Awaits(r)
      /\ UNCHANGED <<phase, uid, flight, results, outcome>>
      /\ \A b \in answers : b.to # r
  BY <1>0, <1>1 DEF client, OneAnswer
<1>3. r.kind # "abort" /\ (r.kind # "create" => Pending(u))
  <2>1. r.kind # "abort"
    BY <1>0, <1>2, RequestOf DEF Smooth
  <2>2. r.kind = "part" => Pending(u)
    BY <1>2, RequestOf DEF Pending
  <2>3. r.kind = "complete" => r = Request(u, "complete", 0)
    BY RequestFacts
  <2>4. r.kind = "complete" => Pending(u)
    BY <1>1, <2>3 DEF Pending
  <2> QED
    BY <2>1, <2>2, <2>4, RequestFacts DEF Kinds
<1>4. ok /\ (GivesId(r) \/ TakesPart(r) \/ Completes(r))
  BY <1>0, <1>1, <1>3 DEF Refuses, Aborts, UploadOf, Smooth
<1>5. answers' = answers \cup {[to |-> r, ok |-> TRUE, id |-> created'[u]]}
  <2>1. ok = TRUE
    BY <1>4
  <2>2. ~Answered(r)
    BY <1>2 DEF Answered
  <2> QED
    BY <1>1, <1>2, <2>1, <2>2 DEF AnswerTo
<1>6. \A q \in network' : Awaits(q)'
  <2>1. \A q \in network : Awaits(q)' <=> Awaits(q)
    BY <1>2 DEF Awaits
  <2> QED
    BY <1>0, <1>1, <2>1
<1>7. \A w \in Uploaders :
        /\ FailedParts(w)' = FailedParts(w) /\ Done(w)' = Done(w)
        /\ Pending(w)' => Pending(w)
  BY <1>1, <1>2 DEF FailedParts, PartsThatEnded, Done, Pending
<1>8. CASE GivesId(r)
  <2>1. /\ partsAt' = partsAt /\ created'[u] = created[u] + 1
        /\ open' = open \cup {<<u, created[u] + 1>>}
        /\ r.kind = "create"
    BY <1>0, <1>8 DEF GivesId, StoreTypeOK
  <2>2. \A w \in Uploaders : Smooth(w)'
    BY <1>0, <1>2, <1>7, <2>1 DEF Smooth
  <2>3. ASSUME NEW b \in answers'
        PROVE  AnsweredWell(b)'
    <3>1. CASE b \in answers
      BY <1>0, <1>2, <2>1, <3>1 DEF AnsweredWell
    <3>2. CASE b = [to |-> r, ok |-> TRUE, id |-> created'[u]]
      <4>1. b.to = r /\ b.ok = TRUE /\ b.id = created'[u]
        BY <3>2
      <4> QED
        BY <2>1, <4>1 DEF AnsweredWell
    <3> QED
      BY <1>5, <3>1, <3>2
  <2> QED
    BY <1>6, <2>2, <2>3 DEF Faultless
<1>9. CASE TakesPart(r)
  <2>1. /\ open' = open /\ r.kind = "part"
        /\ partsAt' = partsAt \cup {<<<<u, uid[u]>>, r.n>>}
    BY <1>9 DEF TakesPart, UploadOf
  <2>2. \A w \in Uploaders : Smooth(w)'
    BY <1>0, <1>2, <1>7, <2>1 DEF Smooth
  <2>3. ASSUME NEW b \in answers'
        PROVE  AnsweredWell(b)'
    <3>1. CASE b \in answers
      BY <1>0, <1>2, <2>1, <3>1 DEF AnsweredWell
    <3>2. CASE b = [to |-> r, ok |-> TRUE, id |-> created'[u]]
      <4>1. b.to = r /\ b.ok = TRUE
        BY <3>2
      <4> QED
        BY <1>2, <2>1, <4>1 DEF AnsweredWell
    <3> QED
      BY <1>5, <3>1, <3>2
  <2> QED
    BY <1>6, <2>2, <2>3 DEF Faultless
<1>10. CASE Completes(r)
  <2>1. /\ r.kind = "complete" /\ r = Request(u, "complete", 0)
        /\ open' = open \ {<<u, uid[u]>>}
        /\ partsAt' = {p \in partsAt : p[1] # <<u, uid[u]>>}
        /\ phase[u] = "completing"
    BY <1>2, <1>10, RequestFacts, RequestOf DEF Completes, UploadOf
  <2>2. ~Pending(u)'
    BY <1>1, <1>2, <2>1 DEF Pending
  <2>3. ASSUME NEW w \in Uploaders
        PROVE  Smooth(w)'
    <3>1. CASE w = u
      BY <1>0, <1>2, <1>7, <2>2, <3>1 DEF Smooth
    <3>2. CASE w # u
      <4>1. \A i : <<w, i>> # <<u, uid[u]>>
        BY <3>2
      <4>2. \A i, n : /\ <<w, i>> \in open => <<w, i>> \in open'
                      /\ <<<<w, i>>, n>> \in partsAt => <<<<w, i>>, n>> \in partsAt'
        BY <2>1, <4>1
      <4> QED
        BY <1>0, <1>2, <1>7, <4>2 DEF Smooth
    <3> QED
      BY <3>1, <3>2
  <2>4. ASSUME NEW b \in answers'
        PROVE  AnsweredWell(b)'
    <3>1. CASE b \in answers
      <4>1. AnsweredWell(b) /\ b.to \in Requests /\ Awaits(b.to)
        BY <1>0, <3>1
      <4>2. b.to.kind \in {"create", "part"} => b.to.by # u
        BY <2>1, <4>1, RequestOf
      <4> QED
        BY <1>2, <2>1, <4>1, <4>2 DEF AnsweredWell
    <3>2. CASE b = [to |-> r, ok |-> TRUE, id |-> created'[u]]
      <4>1. b.to = r /\ b.ok = TRUE
        BY <3>2
      <4> QED
        BY <2>1, <4>1 DEF AnsweredWell
    <3> QED
      BY <1>5, <3>1, <3>2
  <2> QED
    BY <1>6, <2>3, <2>4 DEF Faultless
<1> QED
  BY <1>4, <1>8, <1>9, <1>10

LEMMA FaultlessKept ==
  ASSUME TypeOK, Rotation, Fresh, Numbered, OneAnswer, CompleteIsDue,
         faults = 0 => Faultless, [Next]_vars, faults' = 0
  PROVE  Faultless'
<1>0. faults \in Nat
  BY TypeParts, UploadAssumption DEF StoreTypeOK
<1>1. ASSUME NEW u \in Uploaders, Create(u) \/ LaunchPart(u) \/ Collect(u)
      PROVE  Faultless'
  <2>1. faults' = faults
    BY <1>1 DEF Create, LaunchPart, Collect
  <2> QED
    BY <1>1, <2>1, FaultlessBegun
<1>2. ASSUME NEW r \in Requests, Receive(r)
      PROVE  Faultless'
  <2>1. faults' = faults
    BY <1>2 DEF Receive
  <2> QED
    BY <1>2, <2>1, FaultlessReceived
<1>3. ASSUME NEW r \in Requests, Execute(r)
      PROVE  Faultless'
  <2>1. faults' = faults
    BY <1>3 DEF Execute
  <2> QED
    BY <1>3, <2>1, FaultlessExecuted
<1>4. ASSUME \/ \E u \in Uploaders : Drop(u)
             \/ \E r \in Requests : Fail(r) \/ Retry(r) \/ ExecuteOneOfTwo(r)
      PROVE  FALSE
  <2>1. faults' = faults + 1
    BY <1>4 DEF Drop, Fail, Retry, ExecuteOneOfTwo
  <2>2. faults \in Nat /\ faults' = 0
    BY <1>0
  <2> QED
    BY <2>1, <2>2
<1>5. CASE Rest \/ UNCHANGED vars
  <2>1. UNCHANGED vars /\ Faultless
    BY <1>5 DEF Rest, vars
  <2> QED
    BY <2>1 DEF vars, Faultless, Smooth, AnsweredWell, Awaits, Pending,
       FailedParts, PartsThatEnded, Done
<1> QED
  BY <1>1, <1>2, <1>3, <1>4, <1>5 DEF Next

-----------------------------------------------------------------------------
(* Theorems *)

LEMMA Initially == Init => IInv
<1> SUFFICES ASSUME Init PROVE IInv
  OBVIOUS
<1>0. /\ IsFiniteSet(Uploaders) /\ WriteConnections \in Nat
      /\ WriteConcurrency \in Nat /\ NParts \in Nat /\ MaxFaults \in Nat
  BY UploadAssumption
<1>1. TypeOK
  <2>1. << >> \in Seq(Parts \X {"ok", "err"}) /\ << >> \in Seq(Parts)
    OBVIOUS
  <2>2. object.parts = << >>
    BY DEF Init
  <2> QED
    BY <1>0, <2>1, <2>2 DEF Init, TypeOK
<1>2. PermitsHeld /\ Fresh /\ OneAnswer /\ AnswersTrue /\ ClosedOrLost
  BY DEF Init, PermitsHeld, Live, Fresh, OneAnswer, AnswersTrue, ClosedOrLost
<1>3. \A u \in Uploaders : Done(u) = {} /\ FailedParts(u) = {} /\ Len(results[u]) = 0
  BY DEF Init, Done, FailedParts, PartsThatEnded
<1>4. Rotation
  <2>1. Cardinality({}) = 0
    BY FS_EmptySet
  <2> QED
    BY <1>0, <1>3, <2>1 DEF Init, Rotation
<1>5. Numbered /\ CompleteIsDue
  BY DEF Init, Numbered, CompleteIsDue
<1>6. ObjectIsOneWholeBody /\ OkMeansStored
  BY DEF Init, ObjectIsOneWholeBody, OkMeansStored
<1>7. Total(reserved) <= WriteConnections
  <2>1. reserved \in [Uploaders -> {0}]
    BY DEF Init
  <2>2. Total(reserved) = 0
    BY <2>1, TotalZero
  <2> QED
    BY <1>0, <2>2
<1>8. Faultless
  BY <1>3 DEF Init, Faultless, Smooth, Pending
<1> QED
  BY <1>1, <1>2, <1>4, <1>5, <1>6, <1>7, <1>8 DEF IInv

LEMMA Kept == IInv /\ [Next]_vars => IInv'
<1> SUFFICES ASSUME IInv, [Next]_vars PROVE IInv'
  OBVIOUS
<1>1. TypeOK'
  <2>1. ClientTypeOK' /\ StoreTypeOK'
    BY ClientTyped, StoreTyped DEF IInv
  <2> QED
    BY <2>1 DEF TypeOK, ClientTypeOK, StoreTypeOK
<1>2. PermitsHeld' /\ (Total(reserved) <= WriteConnections)'
  BY PermitsKept DEF IInv
<1>3. Rotation' /\ Fresh'
  BY RotationKept DEF IInv
<1>4. Numbered' /\ OneAnswer' /\ CompleteIsDue' /\ AnswersTrue'
  BY NumberedKept, OneAnswerKept, CompleteIsDueKept, AnswersTrueKept DEF IInv
<1>5. ClosedOrLost' /\ OkMeansStored' /\ ObjectIsOneWholeBody'
  BY EndsKept, ObjectKept DEF IInv
<1>6. (faults = 0 => Faultless)'
  BY FaultlessKept DEF IInv
<1> QED
  BY <1>1, <1>2, <1>3, <1>4, <1>5, <1>6 DEF IInv

\* The strengthened invariant holds in every state of the uploads.
THEOREM Inductive == Spec => []IInv
BY Initially, Kept, PTL DEF Spec

\* Type correctness: no more ids and faults than the bounds, and the store's
\* parts belong to uploads it keeps.
THEOREM TypeCorrect == Spec => []TypeOK
<1>1. IInv => TypeOK
  BY DEF IInv
<1> QED
  BY Inductive, <1>1, PTL

\* Whatever fails, is repeated, comes late or is dropped, the object under the
\* key is one body, whole and in order, or none.
THEOREM WholeOrNothing == Spec => []ObjectIsOneWholeBody
<1>1. IInv => ObjectIsOneWholeBody
  BY DEF IInv
<1> QED
  BY Inductive, <1>1, PTL

\* multipart_put returns Ok only for a body the store has taken.
THEOREM OkIsStored == Spec => []OkMeansStored
<1>1. IInv => OkMeansStored
  BY DEF IInv
<1> QED
  BY Inductive, <1>1, PTL

\* The parts rotate inside the reservation: no request is awaited without a
\* permit, and the reservations fit into the write half.
THEOREM PartsHavePermits == Spec => []RequestsHavePermits
<1>1. ASSUME IInv
      PROVE  RequestsHavePermits
  <2> SUFFICES ASSUME NEW u \in Uploaders
               PROVE  Cardinality({r \in Requests : r.by = u /\ Awaits(r)}) <= reserved[u]
    BY <1>1 DEF IInv, RequestsHavePermits
  <2> DEFINE mine == {r \in Requests : r.by = u /\ Awaits(r)}
  <2>0. /\ ClientTypeOK /\ WriteConcurrency \in Nat \ {0}
        /\ reserved[u] = IF phase[u] \in Live THEN WriteConcurrency ELSE 0
        /\ Cardinality(flight[u]) <= WriteConcurrency
    BY <1>1, TypeParts, UploadAssumption DEF IInv, PermitsHeld, Rotation
  <2>1. CASE phase[u] \notin Live
    <3>1. mine = {}
      BY <2>1, RequestOf
    <3> QED
      BY <2>0, <2>1, <3>1, FS_EmptySet
  <2>2. CASE phase[u] \in Live \ {"uploading"}
    <3>1. PICK kind : kind = IF phase[u] = "creating" THEN "create"
                             ELSE IF phase[u] = "completing" THEN "complete"
                             ELSE "abort"
      OBVIOUS
    <3>2. ASSUME NEW r \in mine
          PROVE  r = Request(u, kind, 0)
      <4>1. r.by = u /\ r.kind = kind /\ r.kind # "part"
        BY <2>2, <3>1, RequestOf DEF Live
      <4> QED
        BY <4>1, RequestFacts
    <3>3. mine \in SUBSET {Request(u, kind, 0)}
      BY <3>2
    <3>4. Cardinality(mine) <= 1 /\ IsFiniteSet(mine)
      <4>1. PICK q : q = Request(u, kind, 0)
        OBVIOUS
      <4>2. IsFiniteSet({q}) /\ Cardinality({q}) = 1
        BY FS_Singleton
      <4>3. mine \in SUBSET {q}
        BY <3>3, <4>1
      <4> HIDE DEF mine
      <4> QED
        BY <4>2, <4>3, FS_Subset
    <3>6. Cardinality(mine) \in Nat
      BY <3>4, FS_CardinalityType
    <3> QED
      BY <2>0, <2>2, <3>4, <3>6
  <2>3. CASE phase[u] = "uploading"
    <3>1. ASSUME NEW r \in mine
          PROVE  r.n \in flight[u] /\ r = Request(u, "part", r.n)
      <4>1. r.kind = "part" /\ r.by = u /\ r.n \in flight[u]
        BY <2>3, RequestOf
      <4> QED
        BY <4>1, RequestFacts
    <3>2. IsFiniteSet(flight[u])
      <4>1. flight[u] \in SUBSET Parts /\ IsFiniteSet(Parts)
        BY <2>0, UploadAssumption, FS_Interval DEF ClientTypeOK, Parts
      <4> QED
        BY <4>1, FS_Subset
    <3> DEFINE part == [r \in mine |-> r.n]
    <3>3. part \in Injection(mine, flight[u])
      <4>1. part \in [mine -> flight[u]]
        BY <3>1
      <4>2. \A q, r \in mine : part[q] = part[r] => q = r
        BY <3>1
      <4> QED
        BY <4>1, <4>2 DEF Injection, IsInjective
    <3>4. IsFiniteSet(mine) /\ Cardinality(mine) <= Cardinality(flight[u])
      BY <3>2, <3>3, FS_Injection
    <3>5. Cardinality(mine) \in Nat /\ Cardinality(flight[u]) \in Nat
      BY <3>2, <3>4, FS_CardinalityType
    <3> QED
      BY <2>0, <2>3, <3>4, <3>5 DEF Live
  <2> QED
    BY <2>1, <2>2, <2>3
<1> QED
  BY Inductive, <1>1, PTL

\* An upload is completed or aborted only when every part was tried and none
\* is under way.
THEOREM PartsSettledFirst == Spec => []EveryPartSettledFirst
<1>1. ASSUME IInv
      PROVE  EveryPartSettledFirst
  <2>1. ASSUME NEW u \in Uploaders, phase[u] \in {"completing", "aborting"}
        PROVE  flight[u] = {} /\ Done(u) = Parts
    <3>1. TypeOK /\ Rotation /\ Len(results[u]) = NParts
      BY <1>1, <2>1 DEF IInv, Rotation
    <3> QED
      BY <3>1, AllIn
  <2> QED
    BY <2>1 DEF EveryPartSettledFirst, Done
<1> QED
  BY Inductive, <1>1, PTL

\* As long as nothing fails no upload does, in whatever order the parts finish
\* and however many others put the key.
THEOREM FaultFreeSucceeds == Spec => []FaultFreeUploadSucceeds
<1>1. IInv => FaultFreeUploadSucceeds
  BY DEF IInv, Faultless, Smooth, FaultFreeUploadSucceeds
<1> QED
  BY Inductive, <1>1, PTL

\* An upload left open by a call that has returned has a cause other than a
\* failed part.
THEOREM OrphansHaveCauses == Spec => []EveryOrphanHasACause
<1>1. ASSUME IInv
      PROVE  EveryOrphanHasACause
  <2>1. ASSUME NEW u \in Uploaders, phase[u] = "ended", NEW id \in open, id[1] = u
        PROVE  \/ id[2] # uid[u]
               \/ <<u, "complete">> \in lost
               \/ <<u, "abort">> \in lost
    <3>1. id = <<id[1], id[2]>>
      BY <1>1 DEF IInv, TypeOK
    <3> QED
      BY <1>1, <2>1, <3>1 DEF IInv, ClosedOrLost
  <2> QED
    BY <2>1 DEF EveryOrphanHasACause
<1> QED
  BY Inductive, <1>1, PTL
=============================================================================
