------------------------------ MODULE RangeGet ------------------------------
(***************************************************************************)
(* get_object of src/client.rs, once its metrics run: HEAD for the size,   *)
(* then one GET (simple_get) or parallel range GETs (range_get), against a *)
(* key that others overwrite or delete meanwhile.  No request carries a    *)
(* condition (If-Match, version id), so each sees the version of its time. *)
(*                                                                         *)
(* Bytes come as slices: the positions `from` up to, not including, `to`   *)
(* of one version.  The store is modelled from the requests the code       *)
(* makes; an error is what is left of a request when the SDK has no retry  *)
(* left.  Dropping the future leaves nothing behind here: S3Client's Drop  *)
(* has it.                                                                 *)
(***************************************************************************)
EXTENDS Chunks, Sequences, FiniteSets

CONSTANTS
  ChunkSize,        \* config.chunk_size, in positions
  Threshold,        \* config.multipart_threshold, in positions
  ReadConcurrency,  \* permits reserved, and the width of buffer_unordered
  Lengths,          \* lengths the key's object may have; Absent: no object
  MaxWrites,        \* bound: overwrites and deletions
  MaxFaults         \* bound: requests that fail

Absent == -1

ASSUME RangeAssumption ==
  /\ ChunkSize \in Nat \ {0}
  /\ Threshold \in Nat
  /\ ReadConcurrency \in Nat \ {0}
  /\ Lengths \subseteq Nat \cup {Absent}
  /\ MaxWrites \in Nat /\ MaxFaults \in Nat

VARIABLES
  versions,  \* the lengths the object has had; the last is the current one
  phase,     \* how far the call is
  total,     \* the size HEAD told, -1 before
  seen,      \* history: the version HEAD saw
  launched,  \* requests handed to buffer_unordered so far, in order
  sent,      \* pieces whose response has not begun
  reading,   \* pieces whose body is being read, with the slice on its way
  results,   \* finished pieces, in order of completion
  body,      \* what get_object returned: slices, one behind the other
  outcome,   \* none, ok or err
  faults

call == <<phase, total, seen, launched, sent, reading, results, body, outcome>>
vars == <<versions, phase, total, seen, launched, sent, reading, results, body,
          outcome, faults>>

Current == Len(versions)

Init ==
  /\ \E n \in Lengths : versions = <<n>>
  /\ phase = "idle"
  /\ total = -1 /\ seen = 0
  /\ launched = 0
  /\ sent = {} /\ reading = {}
  /\ results = << >>
  /\ body = << >>
  /\ outcome = "none"
  /\ faults = 0

\* Longer than the threshold: the object is read by ranges.
Ranged == total > Threshold
Requests == IF Ranged THEN NPieces(total, ChunkSize) ELSE 1

Slice(version, from, to) == [version |-> version, from |-> from, to |-> to]

-----------------------------------------------------------------------------
(* Somebody else puts or deletes the key *)

Write(n) ==
  /\ Len(versions) <= MaxWrites
  /\ versions' = Append(versions, n)
  /\ UNCHANGED <<call, faults>>

-----------------------------------------------------------------------------
(* stat *)

Call ==
  /\ phase = "idle"
  /\ phase' = "heading"
  /\ UNCHANGED <<versions, total, seen, launched, sent, reading, results, body,
                 outcome, faults>>

Fault == faults < MaxFaults /\ faults' = faults + 1

\* content_length.unwrap_or(0): a server may send no length, which is no error
\* and makes it a simple GET.
HeadAnswered ==
  /\ phase = "heading"
  /\ versions[Current] # Absent
  /\ phase' = "queueing"
  /\ total' \in {versions[Current], 0}
  /\ seen' = Current
  /\ UNCHANGED <<versions, launched, sent, reading, results, body, outcome,
                 faults>>

\* No such object, a fault, or no permit in time before or after HEAD.
GetFails ==
  /\ \/ phase = "heading" /\ versions[Current] = Absent /\ UNCHANGED faults
     \/ phase \in {"heading", "queueing"} /\ Fault
  /\ phase' = "ended"
  /\ outcome' = "err"
  /\ UNCHANGED <<versions, total, seen, launched, sent, reading, results, body>>

\* The permits for the data are granted.
Admitted ==
  /\ phase = "queueing"
  /\ phase' = "reading"
  /\ UNCHANGED <<versions, total, seen, launched, sent, reading, results, body,
                 outcome, faults>>

-----------------------------------------------------------------------------
(* simple_get, range_get *)

\* Mutant of MoreRanges: one range too many.
MoreRangesThanPieces == launched <= Requests
MoreRanges == launched < Requests

\* buffer_unordered(rc) sends the next range as soon as fewer than rc are in
\* flight, whether the others succeeded or not.
Launch ==
  /\ phase = "reading"
  /\ MoreRanges
  /\ Cardinality(sent) + Cardinality(reading) < ReadConcurrency
  /\ sent' = sent \cup {launched}
  /\ launched' = launched + 1
  /\ UNCHANGED <<versions, phase, total, seen, reading, results, body, outcome,
                 faults>>

\* What the store has of piece i, now.
Served(i) ==
  LET n == versions[Current]
      to == IF Ranged THEN End(i, total, ChunkSize) ELSE n
  IN  Slice(Current, Start(i, ChunkSize), IF to <= n THEN to ELSE n)

\* 404, or 416 for a range that starts behind the end.
Refused(i) ==
  \/ versions[Current] = Absent
  \/ Ranged /\ Start(i, ChunkSize) >= versions[Current]

\* send() returns: the response has begun, and with it its version is fixed.
Respond(i) ==
  /\ i \in sent
  /\ ~Refused(i)
  /\ sent' = sent \ {i}
  /\ reading' = reading \cup {[piece |-> i, slice |-> Served(i)]}
  /\ UNCHANGED <<versions, phase, total, seen, launched, results, body, outcome,
                 faults>>

\* Body and headers are in.
Read(r) ==
  /\ r \in reading
  /\ reading' = reading \ {r}
  /\ results' = Append(results, [piece |-> r.piece, ok |-> TRUE, slice |-> r.slice])
  /\ UNCHANGED <<versions, phase, total, seen, launched, sent, body, outcome,
                 faults>>

\* Mutant of Lost: what failed passes for an empty piece.
LostQuietly(i) == [piece |-> i, ok |-> TRUE, slice |-> Slice(seen, 0, 0)]
\* An error comes without bytes.
Lost(i) == [piece |-> i, ok |-> FALSE, slice |-> Slice(seen, 0, 0)]

\* The future of piece i ends with an error.
Lose(i) ==
  /\ results' = Append(results, Lost(i))
  /\ UNCHANGED <<versions, phase, total, seen, launched, body, outcome>>

\* Mutant: what the store refuses is asked for again.
FailsBeforeHeadersNever == (\E i \in sent : Refused(i)) /\ UNCHANGED vars

\* The store refuses the request, or the SDK gives up on it.
FailsBeforeHeaders ==
  \E i \in sent :
    /\ \/ Refused(i) /\ UNCHANGED faults
       \/ Fault
    /\ sent' = sent \ {i}
    /\ Lose(i)
    /\ UNCHANGED reading

\* The body breaks off.
BreaksOff ==
  \E r \in reading :
    /\ Fault
    /\ reading' = reading \ {r}
    /\ Lose(r.piece)
    /\ UNCHANGED sent

\* parts.sort_by_key(index), then one buffer.
\* Mutant: the pieces stay in order of completion.
InCompletionOrder(rs) == [k \in 1 .. Len(rs) |-> rs[k].slice]
Reassembled(rs) ==
  [k \in 1 .. Len(rs) |->
     (CHOOSE r \in {rs[j] : j \in 1 .. Len(rs)} : r.piece = k - 1).slice]

\* Every piece is in.  The first error in order of completion is returned.
Finish ==
  /\ phase = "reading"
  /\ Len(results) = Requests
  /\ phase' = "ended"
  /\ IF \A k \in 1 .. Len(results) : results[k].ok
     THEN outcome' = "ok" /\ body' = Reassembled(results)
     ELSE outcome' = "err" /\ UNCHANGED body
  /\ UNCHANGED <<versions, total, seen, launched, sent, reading, results,
                 faults>>

\* The call is over.
Rest == phase = "ended" /\ UNCHANGED vars

Proceed ==
  \/ Call \/ HeadAnswered \/ GetFails \/ Admitted \/ Launch \/ Finish
  \/ FailsBeforeHeaders \/ BreaksOff
  \/ \E i \in sent : Respond(i)
  \/ \E r \in reading : Read(r)

Next == Proceed \/ (\E n \in Lengths : Write(n)) \/ Rest

Spec == Init /\ [][Next]_vars

-----------------------------------------------------------------------------
(* Properties *)

Pieces == 0 .. (Requests - 1)
Slices ==
  {s \in [version : 1 .. Current, from : Nat, to : Nat] :
     s.from <= s.to /\ s.to <= versions[s.version]}

TypeOK ==
  /\ versions \in Seq(Lengths)
  /\ phase \in {"idle", "heading", "queueing", "reading", "ended"}
  /\ total \in {-1, 0} \cup (Lengths \ {Absent})
  /\ seen \in 0 .. Current
  /\ launched \in 0 .. Requests
  /\ sent \subseteq Pieces
  /\ reading \subseteq [piece : Pieces, slice : Slices]
  /\ results \in Seq([piece : Pieces, ok : BOOLEAN, slice : Slices])
  /\ body \in Seq(Slices)
  /\ outcome \in {"none", "ok", "err"}
  /\ faults \in 0 .. MaxFaults

\* The slices, one behind the other, are the positions 0 up to n: none is
\* missing, none comes twice and none out of its place.
Tile(slices, n) ==
  /\ slices # << >> /\ slices[1].from = 0 /\ slices[Len(slices)].to = n
  /\ \A k \in 2 .. Len(slices) : slices[k - 1].to = slices[k].from

\* A get that nobody overtakes returns the object HEAD saw, byte for byte, in
\* whatever order the ranges finish.
QuietGetReturnsTheObject ==
  (outcome = "ok" /\ Current = seen) =>
    Tile(body, versions[seen]) /\ \A k \in 1 .. Len(body) : body[k].version = seen

\* And it does return it: an object that is there, is not touched after HEAD
\* and whose requests do not fail is read, whatever its length - also one that
\* ends where a piece ends, or is empty.
QuietGetSucceeds ==
  outcome = "err" => faults > 0 \/ seen = 0 \/ Current # seen

\* However others overwrite the key meanwhile: the bytes come in ascending
\* positions, each from a version HEAD saw or a later one, and a ranged get
\* returns none behind the size HEAD told.
BytesInOrder ==
  /\ \A j, k \in 1 .. Len(body) : j < k => body[j].to <= body[k].from
  /\ \A k \in 1 .. Len(body) :
       body[k].version >= seen /\ (Ranged => body[k].to <= total)

\* A ranged get that succeeds has all the bytes HEAD promised, unless the
\* object became shorter meanwhile: no failed range is passed over.
OkIsWholeUnlessShrunk ==
  (outcome = "ok" /\ Ranged /\ \A v \in seen .. Current : versions[v] >= total)
    => Tile(body, total)

\* The call ends, whatever fails or is overwritten.
EveryGetEnds == phase = "heading" ~> phase = "ended"
=============================================================================
