---------------------------- MODULE ReadsProofs ----------------------------
(***************************************************************************)
(* What get_object returns while its key is overwritten and deleted, for   *)
(* every chunk size, threshold, concurrency and set of lengths, and every  *)
(* number of overwrites and failures; and that a call of Reads is one of   *)
(* RangeGet or of Listing.                                                 *)
(***************************************************************************)
EXTENDS Reads, ListingProofs, ChunksProofs, SequenceTheorems

-----------------------------------------------------------------------------
(* The inductive invariant of get_object *)

\* Nothing is asked for before the permits are granted, nothing is on its way
\* after the call, and what it returns is set at its end.
InPhase ==
  /\ Current # 0
  /\ phase \in {"idle", "heading"} => seen = 0 /\ total = -1
  /\ phase \in {"queueing", "reading"} => seen # 0
  /\ phase \in {"idle", "heading", "queueing"} => launched = 0 /\ results = << >>
  /\ phase # "reading" => sent = {} /\ reading = {}
  /\ outcome = "none" <=> phase # "ended"
  /\ outcome # "ok" => body = << >>

\* What HEAD told is the length of the version it saw, or nothing.
Told ==
  seen # 0 =>
    /\ versions[seen] # Absent
    /\ total \in {versions[seen], 0}

\* A launched piece is waited for, read or finished, and only once.
EachPieceOnce ==
  /\ \A i \in sent : i < launched
  /\ \A r \in reading : r.piece < launched /\ r.piece \notin sent
  /\ \A q, r \in reading : q.piece = r.piece => q = r
  /\ \A k \in 1 .. Len(results) :
       /\ results[k].piece < launched /\ results[k].piece \notin sent
       /\ \A r \in reading : r.piece # results[k].piece
  /\ \A j, k \in 1 .. Len(results) : results[j].piece = results[k].piece => j = k

\* The bytes of piece i of n that HEAD promised: its own, from the version HEAD
\* saw or a later one, cut only where that version ends.
Right(lengths, n, first, i, s) ==
  /\ s.version >= first
  /\ s.from = Start(i, ChunkSize)
  /\ IF n > Threshold
     THEN /\ s.from < s.to
          /\ s.to = IF End(i, n, ChunkSize) <= lengths[s.version]
                    THEN End(i, n, ChunkSize) ELSE lengths[s.version]
     ELSE s.to = lengths[s.version]

SlicesRight ==
  /\ \A r \in reading : Right(versions, total, seen, r.piece, r.slice)
  /\ \A k \in 1 .. Len(results) :
       results[k].ok =>
         Right(versions, total, seen, results[k].piece, results[k].slice)

\* A piece fails because of a fault or because the key has changed.
ErrorsDue ==
  \A k \in 1 .. Len(results) : ~results[k].ok => faults > 0 \/ Current # seen

\* A get that succeeds returns every piece in its place.
Complete ==
  outcome = "ok" =>
    /\ Len(body) = Requests
    /\ \A k \in 1 .. Requests : Right(versions, total, seen, k - 1, body[k])

GetIInv ==
  /\ TypeOK
  /\ InPhase
  /\ Told
  /\ EachPieceOnce
  /\ SlicesRight
  /\ ErrorsDue
  /\ Complete
  /\ QuietGetSucceeds

-----------------------------------------------------------------------------
(* Sizes and slices *)

LEMMA SizeFacts ==
  ASSUME TypeOK
  PROVE  /\ ChunkSize \in Nat \ {0} /\ Threshold \in Nat /\ MaxFaults \in Nat
         /\ total \in Int /\ Requests \in Nat \ {0}
         /\ Ranged <=> total > Threshold
         /\ Ranged => total \in Nat \ {0} /\ Requests = NPieces(total, ChunkSize)
         /\ ~Ranged => Requests = 1
         /\ Pieces = 0 .. (Requests - 1)
<1>1. ChunkSize \in Nat \ {0} /\ Threshold \in Nat /\ MaxFaults \in Nat
  BY RangeAssumption
<1>2. total \in Int
  BY RangeAssumption DEF TypeOK, Absent
<1>3. Ranged => total \in Nat \ {0} /\ Requests = NPieces(total, ChunkSize)
  BY <1>1, <1>2 DEF Ranged, Requests
<1>4. ASSUME Ranged
      PROVE  NPieces(total, ChunkSize) \in Nat \ {0}
  <2> DEFINE n == NPieces(total, ChunkSize)
  <2>1. n \in Nat /\ total <= n * ChunkSize /\ total > 0
    BY <1>1, <1>3, <1>4, NPiecesFacts
  <2>2. 0 * ChunkSize = 0
    BY <1>1
  <2> HIDE DEF n
  <2>3. n # 0
    BY <2>1, <2>2, <1>2
  <2> QED
    BY <2>1, <2>3 DEF n
<1> QED
  BY <1>1, <1>2, <1>3, <1>4 DEF Requests, Ranged, Pieces

LEMMA ResultFacts ==
  ASSUME TypeOK
  PROVE  /\ Len(results) \in Nat
         /\ \A k \in 1 .. Len(results) :
              /\ results[k] \in [piece : Pieces, ok : BOOLEAN, slice : Slices]
              /\ results[k].piece \in Pieces /\ results[k].ok \in BOOLEAN
              /\ results[k].slice \in Slices
<1> DEFINE R == [piece : Pieces, ok : BOOLEAN, slice : Slices]
<1>1. results \in Seq(R)
  BY DEF TypeOK
<1>2. Len(results) \in Nat /\ \A k \in 1 .. Len(results) : results[k] \in R
  <2> HIDE DEF R
  <2> QED
    BY <1>1, ElementOfSeq
<1> QED
  BY <1>2

\* What is a slice today is one when the key has had another version.
LEMMA SlicesGrow ==
  ASSUME TypeOK, NEW n \in Lengths, versions' = Append(versions, n)
  PROVE  /\ versions' \in Seq(Lengths) /\ Current' = Current + 1
         /\ Current \in Nat
         /\ \A v \in 1 .. Current : versions'[v] = versions[v]
         /\ Slices \subseteq Slices'
<1>1. /\ versions' \in Seq(Lengths) /\ Current' = Current + 1 /\ Current \in Nat
      /\ \A v \in 1 .. Current : versions'[v] = versions[v]
  BY AppendProperties DEF TypeOK, Current
<1>2. 1 .. Current \subseteq 1 .. Current'
  BY <1>1
<1> QED
  BY <1>1, <1>2 DEF Slices

LEMMA SeqGrows ==
  ASSUME NEW S, NEW T, S \subseteq T, NEW s \in Seq(S)
  PROVE  s \in Seq(T)
<1>1. s \in [1 .. Len(s) -> S] /\ Len(s) \in Nat
  BY LenProperties
<1>2. s \in [1 .. Len(s) -> T]
  BY <1>1
<1> QED
  BY <1>1, <1>2

LEMMA RightGrows ==
  ASSUME TypeOK, NEW n \in Lengths, versions' = Append(versions, n),
         NEW i, NEW s \in Slices, Right(versions, total, seen, i, s)
  PROVE  Right(versions', total, seen, i, s)
<1>1. versions'[s.version] = versions[s.version]
  BY SlicesGrow DEF Slices
<1> QED
  BY <1>1 DEF Right

\* What the store sends of piece i is right.
LEMMA ServedRight ==
  ASSUME TypeOK, seen # 0, NEW i \in Pieces, ~Refused(i)
  PROVE  /\ Served(i) \in Slices
         /\ Right(versions, total, seen, i, Served(i))
<1> DEFINE n == versions[Current]
<1>1. /\ Current \in Nat \ {0} /\ seen <= Current
      /\ n \in Lengths
  BY DEF TypeOK, Current
<1>2. n \in Nat
  BY <1>1, RangeAssumption DEF Refused
<1>3. CASE Ranged
  <2> DEFINE e == End(i, total, ChunkSize)
             f == Start(i, ChunkSize)
  <2>1. f \in Nat /\ e \in Nat /\ f < e /\ e <= total
    <3>1. ChunkSize \in Nat \ {0} /\ total \in Nat /\ i \in 0 .. (NPieces(total, ChunkSize) - 1)
      BY <1>3, SizeFacts
    <3>2. f \in Int /\ e \in Int
      BY <3>1 DEF Start, End
    <3> QED
      BY <3>1, <3>2, PiecesFit
  <2>2. f < n
    BY <1>2, <1>3, <2>1 DEF Refused
  <2>3. Served(i) = Slice(Current, f, IF e <= n THEN e ELSE n)
    BY <1>3 DEF Served
  <2> HIDE DEF e, f, n
  <2>4. Served(i) \in Slices
    BY <1>1, <1>2, <2>1, <2>2, <2>3 DEF Slice, Slices, n
  <2>5. Right(versions, total, seen, i, Served(i))
    BY <1>1, <1>2, <1>3, <2>1, <2>2, <2>3, SizeFacts DEF Slice, Right, Ranged, e, f, n
  <2> QED
    BY <2>4, <2>5
<1>4. CASE ~Ranged
  <2>1. i = 0 /\ ChunkSize \in Nat
    BY <1>4, SizeFacts
  <2>2. Start(i, ChunkSize) = 0
    BY <2>1 DEF Start
  <2>3. Served(i) = Slice(Current, 0, n)
    BY <1>2, <1>4, <2>2 DEF Served
  <2> HIDE DEF n
  <2>4. Served(i) \in Slices
    BY <1>1, <1>2, <2>3 DEF Slice, Slices, n
  <2>5. Right(versions, total, seen, i, Served(i))
    BY <1>1, <1>2, <1>4, <2>2, <2>3 DEF Slice, Right, Ranged, n
  <2> QED
    BY <2>4, <2>5
<1> QED
  BY <1>3, <1>4

-----------------------------------------------------------------------------
(* One lemma per kind of step *)

\* A get starts with nothing asked for and nothing returned.
LEMMA GetBegins ==
  ASSUME Init
  PROVE  GetIInv
<1>1. PICK n \in Lengths : versions = <<n>>
  BY DEF Init
<1>2. versions \in Seq(Lengths) /\ Current = 1
  BY <1>1 DEF Current
<1>3. TypeOK
  <2>1. << >> \in Seq(Slices) /\ 0 \in 0 .. MaxFaults
        /\ << >> \in Seq([piece : Pieces, ok : BOOLEAN, slice : Slices])
    BY RangeAssumption, EmptySeq
  <2>2. Requests \in Nat /\ 0 \in 0 .. Requests
    BY RangeAssumption DEF Init, Requests, Ranged
  <2> QED
    BY <1>2, <2>1, <2>2 DEF Init, TypeOK
<1>4. InPhase /\ Told /\ QuietGetSucceeds /\ Complete
  BY <1>2 DEF Init, InPhase, Told, QuietGetSucceeds, Complete
<1>5. EachPieceOnce /\ SlicesRight /\ ErrorsDue
  BY EmptySeq DEF Init, EachPieceOnce, SlicesRight, ErrorsDue
<1> QED
  BY <1>3, <1>4, <1>5 DEF GetIInv

\* Before the permits for the data are granted, or without any.
LEMMA BeforeReading ==
  ASSUME GetIInv, Call \/ HeadAnswered \/ GetFails \/ Admitted
  PROVE  GetIInv'
<1>1. /\ phase \in {"idle", "heading", "queueing"}
      /\ launched = 0 /\ results = << >> /\ sent = {} /\ reading = {}
      /\ body = << >> /\ outcome = "none"
  BY DEF GetIInv, InPhase, Call, HeadAnswered, GetFails, Admitted
<1>2. /\ versions' = versions /\ launched' = launched /\ results' = results
      /\ sent' = sent /\ reading' = reading /\ body' = body
  BY DEF Call, HeadAnswered, GetFails, Admitted
<1>3. /\ versions \in Seq(Lengths) /\ Current \in Nat \ {0}
      /\ versions[Current] \in Lengths
      /\ seen \in 0 .. Current /\ faults \in 0 .. MaxFaults /\ MaxFaults \in Nat
      /\ total \in {-1, 0} \cup (Lengths \ {Absent})
      /\ phase \in {"idle", "heading"} => seen = 0 /\ total = -1
      /\ phase = "queueing" => seen # 0
  BY RangeAssumption DEF GetIInv, TypeOK, InPhase, Current
<1>4. faults' \in 0 .. MaxFaults /\ faults' >= faults
  BY <1>3 DEF Call, HeadAnswered, GetFails, Admitted, Fault
<1>5. Current' = Current /\ Slices' = Slices
  BY <1>2 DEF Current, Slices
<1>6. /\ seen' \in 0 .. Current
      /\ total' \in {-1, 0} \cup (Lengths \ {Absent})
      /\ phase' \in {"heading", "queueing", "reading", "ended"}
      /\ outcome' = IF phase' = "ended" THEN "err" ELSE "none"
      /\ phase' = "heading" => seen' = 0 /\ total' = -1
      /\ phase' \in {"queueing", "reading"} => seen' # 0
  BY <1>1, <1>3 DEF Call, HeadAnswered, GetFails, Admitted
<1>7. TypeOK'
  <2>1. Requests' \in Nat
    <3>1. total' \in Int /\ ChunkSize \in Nat \ {0} /\ Threshold \in Nat
      BY <1>6, RangeAssumption DEF Absent
    <3>2. total' > Threshold => NPieces(total', ChunkSize) \in Nat
      BY <3>1, NPiecesFacts
    <3> QED
      BY <3>2 DEF Requests, Ranged
  <2>2. /\ << >> \in Seq(Slices')
        /\ << >> \in Seq([piece : Pieces', ok : BOOLEAN, slice : Slices'])
    BY EmptySeq
  <2>3. /\ launched' = 0 /\ results' = << >> /\ sent' = {} /\ reading' = {}
        /\ body' = << >> /\ outcome' \in {"none", "ok", "err"}
        /\ phase' \in {"idle", "heading", "queueing", "reading", "ended"}
    BY <1>1, <1>2, <1>6
  <2>4. 0 \in 0 .. Requests'
    BY <2>1
  <2> QED
    BY <1>2, <1>3, <1>4, <1>5, <1>6, <2>2, <2>3, <2>4 DEF TypeOK
<1>8. InPhase'
  BY <1>1, <1>2, <1>3, <1>5, <1>6 DEF InPhase
<1>9. Told'
  <2>1. CASE HeadAnswered
    BY <1>2, <1>3, <2>1 DEF HeadAnswered, Told, Absent
  <2>2. CASE Call \/ GetFails \/ Admitted
    <3>1. seen' = seen /\ total' = total /\ Told
      BY <2>2 DEF Call, GetFails, Admitted, GetIInv
    <3> QED
      BY <1>2, <3>1 DEF Told
  <2> QED
    BY <2>1, <2>2
<1>10. EachPieceOnce' /\ SlicesRight' /\ ErrorsDue'
  <2>1. results' = << >> /\ sent' = {} /\ reading' = {}
    BY <1>1, <1>2
  <2> QED
    BY <2>1, EmptySeq DEF EachPieceOnce, SlicesRight, ErrorsDue
<1>11. Complete'
  BY <1>6 DEF Complete
<1>12. QuietGetSucceeds'
  <2>1. phase' = "ended" => GetFails
    BY DEF Call, HeadAnswered, Admitted
  <2>2. GetFails => seen' = seen /\ (faults' > 0 \/ seen = 0)
    BY <1>3 DEF GetFails, Fault
  <2> QED
    BY <1>6, <2>1, <2>2 DEF QuietGetSucceeds
<1> QED
  BY <1>7, <1>8, <1>9, <1>10, <1>11, <1>12 DEF GetIInv

\* Overwriting or deleting the key changes nothing that has been answered.
LEMMA WriteKeeps ==
  ASSUME GetIInv, NEW n \in Lengths, Write(n)
  PROVE  GetIInv'
<1>1. /\ versions' = Append(versions, n)
      /\ phase' = phase /\ total' = total /\ seen' = seen /\ launched' = launched
      /\ sent' = sent /\ reading' = reading /\ results' = results
      /\ body' = body /\ outcome' = outcome /\ faults' = faults
  BY DEF Write, call
<1>2. TypeOK
  BY DEF GetIInv
<1>3. /\ versions' \in Seq(Lengths) /\ Current' = Current + 1 /\ Current \in Nat
      /\ \A v \in 1 .. Current : versions'[v] = versions[v]
      /\ Slices \subseteq Slices'
  BY <1>1, <1>2, SlicesGrow
<1>4. Requests' = Requests /\ Pieces' = Pieces
  BY <1>1 DEF Requests, Pieces, Ranged
<1>5. seen \in 0 .. Current
  BY <1>2 DEF TypeOK
<1>6. TypeOK'
  <2>1. reading \subseteq [piece : Pieces, slice : Slices']
    BY <1>2, <1>3 DEF TypeOK
  <2>2. results \in Seq([piece : Pieces, ok : BOOLEAN, slice : Slices'])
    <3>1. [piece : Pieces, ok : BOOLEAN, slice : Slices]
            \subseteq [piece : Pieces, ok : BOOLEAN, slice : Slices']
      BY <1>3
    <3>2. results \in Seq([piece : Pieces, ok : BOOLEAN, slice : Slices])
      BY <1>2 DEF TypeOK
    <3> QED
      BY <3>1, <3>2, SeqGrows
  <2>3. body \in Seq(Slices')
    BY <1>2, <1>3, SeqGrows DEF TypeOK
  <2>4. seen \in 0 .. Current'
    BY <1>3, <1>5
  <2> QED
    BY <1>1, <1>2, <1>3, <1>4, <2>1, <2>2, <2>3, <2>4 DEF TypeOK
<1>7. InPhase'
  BY <1>1, <1>3 DEF GetIInv, InPhase
<1>8. Told'
  <2>1. seen # 0 => versions'[seen] = versions[seen]
    BY <1>3, <1>5
  <2> QED
    BY <1>1, <2>1 DEF GetIInv, Told
<1>9. EachPieceOnce'
  BY <1>1 DEF GetIInv, EachPieceOnce
<1>10. SlicesRight'
  <2>1. \A r \in reading : r.slice \in Slices
    BY <1>2 DEF TypeOK
  <2>2. \A k \in 1 .. Len(results) : results[k].slice \in Slices
    BY <1>2, ResultFacts
  <2>3. ASSUME NEW r \in reading
        PROVE  Right(versions', total, seen, r.piece, r.slice)
    BY <1>1, <1>2, <2>1, RightGrows DEF GetIInv, SlicesRight
  <2>4. ASSUME NEW k \in 1 .. Len(results), results[k].ok
        PROVE  Right(versions', total, seen, results[k].piece, results[k].slice)
    BY <1>1, <1>2, <2>2, <2>4, RightGrows DEF GetIInv, SlicesRight
  <2> QED
    BY <1>1, <2>3, <2>4 DEF SlicesRight
<1>11. ErrorsDue' /\ QuietGetSucceeds'
  <2>1. Current' # seen'
    BY <1>1, <1>3, <1>5
  <2> QED
    BY <2>1 DEF ErrorsDue, QuietGetSucceeds
<1>12. Complete'
  <2>1. ASSUME outcome = "ok", NEW k \in 1 .. Requests
        PROVE  Right(versions', total, seen, k - 1, body[k])
    <3>1. Len(body) = Requests /\ Right(versions, total, seen, k - 1, body[k])
      BY <2>1 DEF GetIInv, Complete
    <3>2. body[k] \in Slices
      BY <1>2, <3>1, ElementOfSeq DEF TypeOK
    <3> QED
      BY <1>1, <1>2, <3>1, <3>2, RightGrows
  <2> QED
    BY <1>1, <1>4, <2>1 DEF GetIInv, Complete
<1> QED
  BY <1>6, <1>7, <1>8, <1>9, <1>10, <1>11, <1>12 DEF GetIInv

\* A request is sent: the piece is new.
LEMMA LaunchKeeps ==
  ASSUME GetIInv, Launch
  PROVE  GetIInv'
<1>1. /\ phase = "reading" /\ launched < Requests
      /\ sent' = sent \cup {launched} /\ launched' = launched + 1
      /\ versions' = versions /\ phase' = phase /\ total' = total /\ seen' = seen
      /\ reading' = reading /\ results' = results
      /\ body' = body /\ outcome' = outcome /\ faults' = faults
  BY DEF Launch, MoreRanges
<1>2. TypeOK /\ launched \in 0 .. Requests
  BY DEF GetIInv, TypeOK
<1>3. /\ Requests' = Requests /\ Pieces' = Pieces /\ Slices' = Slices
      /\ Current' = Current
  BY <1>1 DEF Requests, Pieces, Slices, Ranged, Current
<1>4. /\ launched \in Pieces /\ launched' \in 0 .. Requests
      /\ Pieces \subseteq Nat /\ launched \in Nat
  BY <1>1, <1>2, SizeFacts
<1>5. TypeOK'
  BY <1>1, <1>2, <1>3, <1>4 DEF TypeOK
<1>6. InPhase' /\ Told' /\ QuietGetSucceeds' /\ ErrorsDue'
  BY <1>1, <1>3 DEF GetIInv, InPhase, Told, QuietGetSucceeds, ErrorsDue
<1>7. EachPieceOnce'
  <2>1. \A i \in sent' : i < launched'
    <3>1. \A i \in sent : i \in Nat /\ i < launched
      BY <1>2, <1>4 DEF GetIInv, TypeOK, EachPieceOnce
    <3> QED
      BY <1>1, <1>4, <3>1
  <2>2. \A r \in reading : r.piece < launched' /\ r.piece \notin sent'
    <3>1. \A r \in reading : r.piece \in Nat /\ r.piece < launched /\ r.piece \notin sent
      BY <1>2, <1>4 DEF GetIInv, TypeOK, EachPieceOnce
    <3> QED
      BY <1>1, <1>4, <3>1
  <2>3. \A k \in 1 .. Len(results) :
          results[k].piece < launched' /\ results[k].piece \notin sent'
    <3>1. \A k \in 1 .. Len(results) :
            /\ results[k].piece \in Nat /\ results[k].piece < launched
            /\ results[k].piece \notin sent
      BY <1>2, <1>4, ResultFacts DEF GetIInv, EachPieceOnce
    <3> QED
      BY <1>1, <1>4, <3>1
  <2> QED
    BY <1>1, <2>1, <2>2, <2>3 DEF GetIInv, EachPieceOnce
<1>8. SlicesRight'
  BY <1>1 DEF GetIInv, SlicesRight
<1>9. Complete'
  BY <1>1, <1>3 DEF GetIInv, Complete
<1> QED
  BY <1>5, <1>6, <1>7, <1>8, <1>9 DEF GetIInv

\* A response begins, with the bytes of the version of that moment.
LEMMA RespondKeeps ==
  ASSUME GetIInv, NEW i \in sent, Respond(i)
  PROVE  GetIInv'
<1> DEFINE r0 == [piece |-> i, slice |-> Served(i)]
<1>1. /\ ~Refused(i)
      /\ sent' = sent \ {i} /\ reading' = reading \cup {r0}
      /\ versions' = versions /\ phase' = phase /\ total' = total /\ seen' = seen
      /\ launched' = launched /\ results' = results
      /\ body' = body /\ outcome' = outcome /\ faults' = faults
  BY DEF Respond
<1>2. TypeOK
  BY DEF GetIInv
<1>3. /\ Requests' = Requests /\ Pieces' = Pieces /\ Slices' = Slices
      /\ Current' = Current
  BY <1>1 DEF Requests, Pieces, Slices, Ranged, Current
<1>4. phase = "reading" /\ seen # 0 /\ i \in Pieces /\ i < launched
  BY DEF GetIInv, TypeOK, InPhase, EachPieceOnce
<1>5. /\ Served(i) \in Slices
      /\ Right(versions, total, seen, i, Served(i))
  BY <1>1, <1>2, <1>4, ServedRight
<1>a. r0.piece = i /\ r0.slice = Served(i) /\ r0 \in [piece : Pieces, slice : Slices]
  BY <1>4, <1>5
<1> HIDE DEF r0
<1>6. TypeOK'
  BY <1>1, <1>2, <1>3, <1>a DEF TypeOK
<1>7. InPhase' /\ Told' /\ QuietGetSucceeds' /\ ErrorsDue'
  BY <1>1, <1>3, <1>4 DEF GetIInv, InPhase, Told, QuietGetSucceeds, ErrorsDue
<1>8. EachPieceOnce'
  <2>1. EachPieceOnce
    BY DEF GetIInv
  <2>2. \A r \in reading : r.piece # i
    BY <2>1 DEF EachPieceOnce
  <2>3. \A k \in 1 .. Len(results) : results[k].piece # i
    BY <2>1 DEF EachPieceOnce
  <2>4. \A q, r \in reading' : q.piece = r.piece => q = r
    BY <1>1, <1>a, <2>1, <2>2 DEF EachPieceOnce
  <2> QED
    BY <1>1, <1>4, <1>a, <2>1, <2>2, <2>3, <2>4 DEF EachPieceOnce
<1>9. SlicesRight'
  BY <1>1, <1>5, <1>a DEF GetIInv, SlicesRight
<1>10. Complete'
  BY <1>1, <1>3 DEF GetIInv, Complete
<1> QED
  BY <1>6, <1>7, <1>8, <1>9, <1>10 DEF GetIInv

\* A piece has come to its end, well or not.
LEMMA PieceEnds ==
  ASSUME GetIInv, NEW x \in [piece : Pieces, ok : BOOLEAN, slice : Slices],
         results' = Append(results, x),
         UNCHANGED <<versions, phase, total, seen, launched, body, outcome>>,
         faults' \in faults .. MaxFaults,
         \/ /\ x.piece \in sent
            /\ sent' = sent \ {x.piece} /\ reading' = reading
         \/ \E r \in reading : /\ r.piece = x.piece
                               /\ reading' = reading \ {r} /\ sent' = sent,
         x.ok => Right(versions, total, seen, x.piece, x.slice),
         ~x.ok => faults' > 0 \/ Current # seen
  PROVE  GetIInv'
<1>1. /\ versions' = versions /\ phase' = phase /\ total' = total /\ seen' = seen
      /\ launched' = launched /\ body' = body /\ outcome' = outcome
  OBVIOUS
<1>2. TypeOK /\ EachPieceOnce /\ faults \in 0 .. MaxFaults /\ MaxFaults \in Nat
  BY RangeAssumption DEF GetIInv, TypeOK
<1>3. /\ Requests' = Requests /\ Pieces' = Pieces /\ Slices' = Slices
      /\ Current' = Current
  BY <1>1 DEF Requests, Pieces, Slices, Ranged, Current
<1>4. /\ sent' \subseteq sent /\ reading' \subseteq reading
      /\ x.piece \notin sent' /\ \A r \in reading' : r.piece # x.piece
      /\ x.piece < launched /\ phase = "reading"
      /\ \A k \in 1 .. Len(results) : results[k].piece # x.piece
  <2>1. CASE x.piece \in sent /\ sent' = sent \ {x.piece} /\ reading' = reading
    BY <1>2, <2>1 DEF EachPieceOnce, GetIInv, InPhase
  <2>2. CASE \E r \in reading : /\ r.piece = x.piece
                                /\ reading' = reading \ {r} /\ sent' = sent
    BY <1>2, <2>2 DEF EachPieceOnce, GetIInv, InPhase
  <2> QED
    BY <2>1, <2>2
<1>5. /\ Len(results) \in Nat /\ Len(results') = Len(results) + 1
      /\ \A k \in 1 .. Len(results) : results'[k] = results[k]
      /\ results'[Len(results) + 1] = x
      /\ results' \in Seq([piece : Pieces, ok : BOOLEAN, slice : Slices])
  <2> DEFINE R == [piece : Pieces, ok : BOOLEAN, slice : Slices]
  <2>1. results \in Seq(R) /\ x \in R
    BY <1>2 DEF TypeOK
  <2> HIDE DEF R
  <2>2. /\ Len(results) \in Nat /\ Len(results') = Len(results) + 1
        /\ \A k \in 1 .. Len(results) : results'[k] = results[k]
        /\ results'[Len(results) + 1] = x
        /\ results' \in Seq(R)
    BY <2>1, AppendProperties, LenProperties
  <2> QED
    BY <2>2 DEF R
<1>6. \A k \in 1 .. Len(results') : k \in 1 .. Len(results) \/ k = Len(results) + 1
  BY <1>5
<1>7. TypeOK'
  <2>1. faults' \in 0 .. MaxFaults
    BY <1>2
  <2> QED
    BY <1>1, <1>2, <1>3, <1>4, <1>5, <2>1 DEF TypeOK
<1>8. InPhase' /\ Told' /\ QuietGetSucceeds'
  <2>1. faults > 0 => faults' > 0
    BY <1>2
  <2> QED
    BY <1>1, <1>3, <1>4, <2>1 DEF GetIInv, InPhase, Told, QuietGetSucceeds
<1>9. EachPieceOnce'
  <2>1. ASSUME NEW k \in 1 .. Len(results')
        PROVE  /\ results'[k].piece < launched' /\ results'[k].piece \notin sent'
               /\ \A r \in reading' : r.piece # results'[k].piece
    BY <1>1, <1>2, <1>4, <1>5, <1>6 DEF EachPieceOnce
  <2>2. ASSUME NEW j \in 1 .. Len(results'), NEW k \in 1 .. Len(results'),
               results'[j].piece = results'[k].piece
        PROVE  j = k
    BY <1>2, <1>4, <1>5, <1>6, <2>2 DEF EachPieceOnce
  <2> QED
    BY <1>1, <1>2, <1>4, <2>1, <2>2 DEF EachPieceOnce
<1>10. SlicesRight'
  <2>1. ASSUME NEW k \in 1 .. Len(results'), results'[k].ok
        PROVE  Right(versions, total, seen, results'[k].piece, results'[k].slice)
    BY <1>5, <1>6, <2>1 DEF GetIInv, SlicesRight
  <2> QED
    BY <1>1, <1>4, <2>1 DEF GetIInv, SlicesRight
<1>11. ErrorsDue'
  <2>1. faults > 0 => faults' > 0
    BY <1>2
  <2> QED
    BY <1>1, <1>3, <1>5, <1>6, <2>1 DEF GetIInv, ErrorsDue
<1>12. Complete'
  BY <1>1, <1>3 DEF GetIInv, Complete
<1> QED
  BY <1>7, <1>8, <1>9, <1>10, <1>11, <1>12 DEF GetIInv

\* Read to its end, refused, given up or broken off.
LEMMA EndsKeep ==
  ASSUME GetIInv,
         (\E r \in reading : Read(r)) \/ FailsBeforeHeaders \/ BreaksOff
  PROVE  GetIInv'
<1>1. /\ TypeOK /\ faults \in 0 .. MaxFaults /\ MaxFaults \in Nat
      /\ seen \in 0 .. Current /\ Current \in Nat
  BY RangeAssumption DEF GetIInv, TypeOK, Current
<1>2. ASSUME NEW r \in reading, Read(r)
      PROVE  GetIInv'
  <2> DEFINE x == [piece |-> r.piece, ok |-> TRUE, slice |-> r.slice]
  <2>1. r.piece \in Pieces /\ r.slice \in Slices
    BY <1>1 DEF TypeOK
  <2>2. /\ x \in [piece : Pieces, ok : BOOLEAN, slice : Slices]
        /\ x.piece = r.piece /\ x.ok = TRUE /\ x.slice = r.slice
    BY <2>1
  <2>3. /\ results' = Append(results, x)
        /\ reading' = reading \ {r} /\ sent' = sent
        /\ UNCHANGED <<versions, phase, total, seen, launched, body, outcome>>
        /\ faults' = faults
    BY <1>2 DEF Read
  <2>4. Right(versions, total, seen, r.piece, r.slice)
    BY DEF GetIInv, SlicesRight
  <2>5. faults' \in faults .. MaxFaults
    BY <1>1, <2>3
  <2> HIDE DEF x
  <2> QED
    BY <2>2, <2>3, <2>4, <2>5, PieceEnds
<1>3. ASSUME NEW i \in Pieces, Lose(i),
             \/ i \in sent /\ sent' = sent \ {i} /\ reading' = reading
             \/ \E r \in reading : /\ r.piece = i
                                   /\ reading' = reading \ {r} /\ sent' = sent,
             (i \in sent /\ Refused(i) /\ faults' = faults) \/ Fault
      PROVE  GetIInv'
  <2> DEFINE x == Lost(i)
  <2>1. phase = "reading" /\ seen # 0
    BY <1>3 DEF GetIInv, InPhase
  <2>2. /\ seen \in 1 .. Current /\ versions[seen] \in Lengths
        /\ versions[seen] # Absent
        /\ total \in {versions[seen], 0}
    BY <1>1, <2>1 DEF GetIInv, Told, TypeOK, Current
  <2>3. versions[seen] \in Nat
    BY <2>2, RangeAssumption
  <2>4. /\ x \in [piece : Pieces, ok : BOOLEAN, slice : Slices]
        /\ x.piece = i /\ x.ok = FALSE
    BY <1>3, <2>2, <2>3 DEF Lost, Slice, Slices
  <2>5. /\ results' = Append(results, x)
        /\ UNCHANGED <<versions, phase, total, seen, launched, body, outcome>>
    BY <1>3 DEF Lose
  <2>6. faults' \in faults .. MaxFaults
    BY <1>1, <1>3 DEF Fault
  <2>7. faults' > 0 \/ Current # seen
    <3>1. CASE Fault
      BY <1>1, <3>1 DEF Fault
    <3>2. CASE Refused(i) /\ faults' = faults
      <4> SUFFICES ASSUME faults = 0, Current = seen
                   PROVE  FALSE
        BY <1>1, <3>2
      <4>1. Ranged /\ Start(i, ChunkSize) >= versions[seen]
        BY <2>2, <3>2 DEF Refused
      <4>2. Ranged /\ Start(i, ChunkSize) >= total
        BY <2>2, <4>1, RangeAssumption DEF Ranged
      <4>3. /\ total \in Nat /\ ChunkSize \in Nat \ {0}
            /\ i \in 0 .. (NPieces(total, ChunkSize) - 1)
        BY <1>1, <4>2, SizeFacts
      <4>4. /\ Start(i, ChunkSize) \in Int /\ End(i, total, ChunkSize) \in Int
        BY <4>3 DEF Start, End
      <4> QED
        BY <4>2, <4>3, <4>4, PiecesFit
    <3> QED
      BY <1>3, <3>1, <3>2
  <2> HIDE DEF x
  <2> QED
    BY <1>3, <2>4, <2>5, <2>6, <2>7, PieceEnds
<1>4. CASE FailsBeforeHeaders
  <2>1. PICK i \in sent : /\ (Refused(i) /\ faults' = faults) \/ Fault
                          /\ sent' = sent \ {i} /\ Lose(i) /\ reading' = reading
    BY <1>4 DEF FailsBeforeHeaders
  <2>2. i \in Pieces
    BY <1>1 DEF TypeOK
  <2> QED
    BY <1>3, <2>1, <2>2
<1>5. CASE BreaksOff
  <2>1. PICK r \in reading : /\ Fault /\ reading' = reading \ {r}
                             /\ Lose(r.piece) /\ sent' = sent
    BY <1>5 DEF BreaksOff
  <2>2. r.piece \in Pieces
    BY <1>1 DEF TypeOK
  <2> QED
    BY <1>3, <2>1, <2>2
<1> QED
  BY <1>2, <1>4, <1>5

\* As many results as pieces: every piece is in, and none is on its way.
LEMMA AllPiecesIn ==
  ASSUME GetIInv, Len(results) = Requests
  PROVE  /\ \A i \in Pieces : \E k \in 1 .. Len(results) : results[k].piece = i
         /\ sent = {} /\ reading = {}
<1>1. /\ TypeOK /\ EachPieceOnce
      /\ Requests \in Nat \ {0} /\ Pieces = 0 .. (Requests - 1)
  BY SizeFacts DEF GetIInv
<1> DEFINE piece == [k \in 1 .. Len(results) |-> results[k].piece]
<1>2. piece \in Injection(1 .. Len(results), Pieces)
  <2>1. piece \in [1 .. Len(results) -> Pieces]
    BY <1>1, ResultFacts
  <2>2. \A j, k \in 1 .. Len(results) : piece[j] = piece[k] => j = k
    BY <1>1 DEF EachPieceOnce
  <2> HIDE DEF piece
  <2> QED
    BY <2>1, <2>2 DEF Injection, IsInjective
<1>3. IsFiniteSet(Pieces) /\ Cardinality(Pieces) = Requests
  BY <1>1, FS_Interval
<1>4. Cardinality(1 .. Len(results)) = Requests
  BY <1>1, FS_Interval
<1>5. piece \in Surjection(1 .. Len(results), Pieces)
  <2> HIDE DEF piece
  <2> QED
    BY <1>2, <1>3, <1>4, FS_Injection
<1>6. \A i \in Pieces : \E k \in 1 .. Len(results) : results[k].piece = i
  <2>1. \A i \in Pieces : \E k \in 1 .. Len(results) : piece[k] = i
    <3> HIDE DEF piece
    <3> QED
      BY <1>5 DEF Surjection
  <2> QED
    BY <2>1
<1>7. sent = {}
  <2>1. \A i \in sent : i \in Pieces
    BY <1>1 DEF TypeOK
  <2> QED
    BY <1>1, <1>6, <2>1 DEF EachPieceOnce
<1>8. reading = {}
  <2>1. \A r \in reading : r.piece \in Pieces
    BY <1>1 DEF TypeOK
  <2> QED
    BY <1>1, <1>6, <2>1 DEF EachPieceOnce
<1> QED
  BY <1>6, <1>7, <1>8

\* The pieces are put together, or the first error is returned.
LEMMA FinishKeeps ==
  ASSUME GetIInv, Finish
  PROVE  GetIInv'
<1>1. /\ phase = "reading" /\ Len(results) = Requests
      /\ phase' = "ended" /\ outcome' \in {"ok", "err"}
      /\ versions' = versions /\ total' = total /\ seen' = seen
      /\ launched' = launched /\ sent' = sent /\ reading' = reading
      /\ results' = results /\ faults' = faults
  BY DEF Finish
<1>2. TypeOK /\ EachPieceOnce /\ body = << >> /\ seen # 0
  BY <1>1 DEF GetIInv, InPhase
<1>3. /\ Requests' = Requests /\ Pieces' = Pieces /\ Slices' = Slices
      /\ Current' = Current
  BY <1>1 DEF Requests, Pieces, Slices, Ranged, Current
<1>4. Requests \in Nat \ {0} /\ Pieces = 0 .. (Requests - 1)
  BY <1>2, SizeFacts
<1>5. ASSUME outcome' = "ok"
      PROVE  /\ body' \in Seq(Slices) /\ Len(body') = Requests
             /\ \A k \in 1 .. Requests : Right(versions, total, seen, k - 1, body'[k])
  <2>1. /\ \A k \in 1 .. Len(results) : results[k].ok
        /\ body' = Reassembled(results)
    BY <1>5 DEF Finish
  <2> DEFINE rs == {results[j] : j \in 1 .. Len(results)}
             nth(k) == CHOOSE r \in rs : r.piece = k - 1
  <2>2. ASSUME NEW k \in 1 .. Requests
        PROVE  nth(k).slice \in Slices /\ Right(versions, total, seen, k - 1, nth(k).slice)
    <3>1. k - 1 \in Pieces
      BY <1>4
    <3>2. \E r \in rs : r.piece = k - 1
      BY <1>1, <3>1, AllPiecesIn
    <3>3. nth(k) \in rs /\ nth(k).piece = k - 1
      BY <3>2
    <3>4. PICK j \in 1 .. Len(results) : nth(k) = results[j]
      BY <3>3
    <3>5. /\ results[j].slice \in Slices
          /\ Right(versions, total, seen, results[j].piece, results[j].slice)
      BY <1>2, <2>1, ResultFacts DEF GetIInv, SlicesRight
    <3> QED
      BY <3>3, <3>4, <3>5
  <2>3. body' = [k \in 1 .. Requests |-> nth(k).slice]
    BY <1>1, <2>1 DEF Reassembled
  <2> HIDE DEF nth
  <2> QED
    BY <1>4, <2>2, <2>3
<1>6. outcome' = "err" => body' = << >>
  BY <1>2 DEF Finish
<1>7. TypeOK'
  <2>1. body' \in Seq(Slices)
    BY <1>1, <1>5, <1>6, EmptySeq
  <2> QED
    BY <1>1, <1>2, <1>3, <2>1 DEF TypeOK
<1>8. InPhase'
  <2>1. sent' = {} /\ reading' = {}
    BY <1>1, AllPiecesIn
  <2> QED
    BY <1>1, <1>2, <1>3, <1>6, <2>1 DEF GetIInv, InPhase
<1>9. Told' /\ EachPieceOnce' /\ SlicesRight' /\ ErrorsDue'
  BY <1>1, <1>3 DEF GetIInv, Told, EachPieceOnce, SlicesRight, ErrorsDue
<1>10. Complete'
  BY <1>1, <1>3, <1>5 DEF Complete
<1>11. QuietGetSucceeds'
  <2>1. ASSUME outcome' = "err"
        PROVE  faults > 0 \/ Current # seen
    <3>1. \E k \in 1 .. Len(results) : ~results[k].ok
      BY <2>1 DEF Finish
    <3> QED
      BY <3>1 DEF GetIInv, ErrorsDue
  <2> QED
    BY <1>1, <1>3, <2>1 DEF QuietGetSucceeds
<1> QED
  BY <1>7, <1>8, <1>9, <1>10, <1>11 DEF GetIInv

LEMMA GetRests ==
  ASSUME GetIInv, UNCHANGED vars
  PROVE  GetIInv'
<1>1. /\ versions' = versions /\ phase' = phase /\ total' = total /\ seen' = seen
      /\ launched' = launched /\ sent' = sent /\ reading' = reading
      /\ results' = results /\ body' = body /\ outcome' = outcome /\ faults' = faults
  BY DEF vars
<1>2. /\ Requests' = Requests /\ Pieces' = Pieces /\ Slices' = Slices
      /\ Current' = Current
  BY <1>1 DEF Requests, Pieces, Slices, Ranged, Current
<1>3. TypeOK' /\ InPhase' /\ Told' /\ EachPieceOnce'
  BY <1>1, <1>2 DEF GetIInv, TypeOK, InPhase, Told, EachPieceOnce
<1>4. SlicesRight' /\ ErrorsDue' /\ Complete' /\ QuietGetSucceeds'
  BY <1>1, <1>2 DEF GetIInv, SlicesRight, ErrorsDue, Complete, QuietGetSucceeds
<1> QED
  BY <1>3, <1>4 DEF GetIInv

-----------------------------------------------------------------------------
(* Theorems *)

\* The invariant of get_object holds in every reachable state.
THEOREM GetInductive == Spec => []GetIInv
<1>1. Init => GetIInv
  BY GetBegins
<1>2. GetIInv /\ [Next]_vars => GetIInv'
  <2> SUFFICES ASSUME GetIInv, [Next]_vars PROVE GetIInv'
    OBVIOUS
  <2>1. CASE Proceed
    BY <2>1, BeforeReading, LaunchKeeps, RespondKeeps, EndsKeep, FinishKeeps
       DEF Proceed
  <2>2. CASE \E n \in Lengths : Write(n)
    BY <2>2, WriteKeeps
  <2>3. CASE Rest \/ UNCHANGED vars
    BY <2>3, GetRests DEF Rest
  <2> QED
    BY <2>1, <2>2, <2>3 DEF Next
<1> QED
  BY <1>1, <1>2, PTL DEF Spec

\* A quiet get never fails: an object that is there and is left alone, of any
\* length, is read unless a request fails (client.rs, get_object and stat).
THEOREM QuietGetsSucceed == Spec => []QuietGetSucceeds
<1>1. GetIInv => QuietGetSucceeds
  BY DEF GetIInv
<1> QED
  BY <1>1, GetInductive, PTL

\* The state of get_object has its types.
THEOREM GetTypeCorrect == Spec => []TypeOK
<1>1. GetIInv => TypeOK
  BY DEF GetIInv
<1> QED
  BY <1>1, GetInductive, PTL

-----------------------------------------------------------------------------
(* What a successful get returns *)

LEMMA LengthFacts ==
  ASSUME TypeOK, NEW v \in 1 .. Current
  PROVE  versions[v] \in Int
<1>1. ASSUME NEW n \in Lengths PROVE n \in Int
  BY RangeAssumption DEF Absent
<1>2. versions[v] \in Lengths
  <2>1. versions \in Seq(Lengths) /\ v \in 1 .. Len(versions)
    BY DEF TypeOK, Current
  <2> QED
    BY <2>1, ElementOfSeq
<1> QED
  BY <1>1, <1>2

\* The pieces of a ranged get, one behind the other, are 0 up to total.
LEMMA PiecesMeet ==
  ASSUME TypeOK
  PROVE  /\ Start(0, ChunkSize) = 0
         /\ Ranged => End(Requests - 1, total, ChunkSize) = total
         /\ Ranged => \A i \in 0 .. (Requests - 1) :
              /\ End(i, total, ChunkSize) \in Int /\ Start(i, ChunkSize) \in Int
              /\ End(i, total, ChunkSize) <= total
              /\ i < Requests - 1 =>
                   End(i, total, ChunkSize) = Start(i + 1, ChunkSize)
              /\ \A j \in 0 .. (Requests - 1) : i < j =>
                   End(i, total, ChunkSize) <= Start(j, ChunkSize)
<1>1. /\ ChunkSize \in Nat \ {0} /\ Requests \in Nat \ {0}
      /\ Ranged => total \in Nat /\ Requests = NPieces(total, ChunkSize)
  BY SizeFacts
<1>2. Start(0, ChunkSize) = 0
  BY <1>1 DEF Start
<1>3. ASSUME Ranged, NEW i \in 0 .. (Requests - 1)
      PROVE  /\ End(i, total, ChunkSize) <= total
             /\ i < Requests - 1 =>
                  End(i, total, ChunkSize) = Start(i + 1, ChunkSize)
             /\ i = Requests - 1 => End(i, total, ChunkSize) = total
  BY <1>1, <1>3, PiecesFit
<1>4. ASSUME NEW i \in 0 .. (Requests - 1)
      PROVE  Start(i, ChunkSize) \in Int
  <2>1. i * ChunkSize \in Int
    BY <1>1, Z3
  <2> QED
    BY <2>1 DEF Start
<1>5. ASSUME Ranged, NEW i \in 0 .. (Requests - 1)
      PROVE  /\ End(i, total, ChunkSize) \in Int
             /\ End(i, total, ChunkSize) <= Start(i, ChunkSize) + ChunkSize
  <2>1. i * ChunkSize \in Int /\ total \in Int /\ ChunkSize \in Int
    BY <1>1, <1>4, <1>5 DEF Start
  <2>2. i * ChunkSize + ChunkSize \in Int
    BY <2>1
  <2> QED
    BY <2>1, <2>2 DEF End, Start
<1>6. ASSUME NEW i \in 0 .. (Requests - 1), NEW j \in 0 .. (Requests - 1), i < j
      PROVE  Start(i, ChunkSize) + ChunkSize <= Start(j, ChunkSize)
  <2>1. i * ChunkSize + ChunkSize <= j * ChunkSize
    BY <1>1, <1>6, ProductOrder
  <2> QED
    BY <2>1 DEF Start
<1>7. ASSUME Ranged, NEW i \in 0 .. (Requests - 1),
             NEW j \in 0 .. (Requests - 1), i < j
      PROVE  End(i, total, ChunkSize) <= Start(j, ChunkSize)
  <2>1. ChunkSize \in Int /\ Start(i, ChunkSize) \in Int
        /\ Start(j, ChunkSize) \in Int
    BY <1>1, <1>4
  <2>2. /\ End(i, total, ChunkSize) \in Int
        /\ End(i, total, ChunkSize) <= Start(i, ChunkSize) + ChunkSize
        /\ Start(i, ChunkSize) + ChunkSize <= Start(j, ChunkSize)
    BY <1>5, <1>6, <1>7
  <2> QED
    BY <2>1, <2>2
<1>8. Ranged => End(Requests - 1, total, ChunkSize) = total
  BY <1>1, <1>3
<1> QED
  BY <1>2, <1>3, <1>4, <1>5, <1>7, <1>8

\* Slice k of what a successful get returns.
LEMMA BodyFacts ==
  ASSUME GetIInv, outcome = "ok", NEW k \in 1 .. Len(body)
  PROVE  /\ Len(body) = Requests /\ k - 1 \in 0 .. (Requests - 1)
         /\ body[k] \in Slices
         /\ body[k].version \in 1 .. Current
         /\ body[k].from \in Nat /\ body[k].to \in Nat
         /\ body[k].version >= seen
         /\ body[k].from = Start(k - 1, ChunkSize)
         /\ Ranged => body[k].to =
              IF End(k - 1, total, ChunkSize) <= versions[body[k].version]
              THEN End(k - 1, total, ChunkSize) ELSE versions[body[k].version]
         /\ ~Ranged => body[k].to = versions[body[k].version]
<1>1. TypeOK /\ body \in Seq(Slices) /\ Requests \in Nat \ {0}
  BY SizeFacts DEF GetIInv, TypeOK
<1>2. Len(body) = Requests /\ Right(versions, total, seen, k - 1, body[k])
  BY DEF GetIInv, Complete
<1>3. body[k] \in Slices
  BY <1>1, ElementOfSeq
<1>4. k - 1 \in 0 .. (Requests - 1)
  BY <1>1, <1>2
<1>5. /\ body[k].version \in 1 .. Current
      /\ body[k].from \in Nat /\ body[k].to \in Nat
  BY <1>3 DEF Slices
<1> QED
  BY <1>2, <1>3, <1>4, <1>5 DEF Right, Ranged

\* However often the key is overwritten or deleted meanwhile, the bytes come in
\* order, from the version HEAD saw or a later one, and a ranged get returns
\* none behind the size HEAD told (client.rs, range_get: sort_by_key(index)).
THEOREM OrderedBytes == Spec => []BytesInOrder
<1>1. ASSUME GetIInv PROVE BytesInOrder
  <2>1. TypeOK /\ Requests \in Nat \ {0} /\ total \in Int
    BY <1>1, SizeFacts DEF GetIInv
  <2>2. CASE outcome # "ok"
    BY <1>1, <2>2 DEF GetIInv, InPhase, BytesInOrder
  <2>3. CASE outcome = "ok"
    <3>1. ASSUME NEW k \in 1 .. Len(body), Ranged
          PROVE  /\ body[k].to <= End(k - 1, total, ChunkSize)
                 /\ End(k - 1, total, ChunkSize) \in Int
                 /\ End(k - 1, total, ChunkSize) <= total
                 /\ body[k].to \in Nat
      <4>1. versions[body[k].version] \in Int
        <5>1. body[k].version \in 1 .. Current
          BY <1>1, <2>3, BodyFacts
        <5> QED
          BY <2>1, <5>1, LengthFacts
      <4>2. /\ k - 1 \in 0 .. (Requests - 1) /\ body[k].to \in Nat
            /\ body[k].to =
                 IF End(k - 1, total, ChunkSize) <= versions[body[k].version]
                 THEN End(k - 1, total, ChunkSize)
                 ELSE versions[body[k].version]
        BY <1>1, <2>3, <3>1, BodyFacts
      <4>3. /\ End(k - 1, total, ChunkSize) \in Int
            /\ End(k - 1, total, ChunkSize) <= total
        BY <2>1, <3>1, <4>2, PiecesMeet
      <4> QED
        BY <4>1, <4>2, <4>3
    <3>2. ASSUME NEW k \in 1 .. Len(body)
          PROVE  body[k].version >= seen /\ (Ranged => body[k].to <= total)
      <4>1. body[k].version >= seen
        BY <1>1, <2>3, BodyFacts
      <4> QED
        BY <3>1, <4>1, <2>1
    <3>3. ASSUME NEW j \in 1 .. Len(body), NEW k \in 1 .. Len(body), j < k
          PROVE  body[j].to <= body[k].from
      <4>1. /\ Len(body) = Requests
            /\ j - 1 \in 0 .. (Requests - 1) /\ k - 1 \in 0 .. (Requests - 1)
            /\ body[k].from = Start(k - 1, ChunkSize) /\ body[k].from \in Nat
        BY <1>1, <2>3, BodyFacts
      <4>2. Ranged
        BY <2>1, <3>3, <4>1, SizeFacts
      <4>3. End(j - 1, total, ChunkSize) <= Start(k - 1, ChunkSize)
        <5>1. j - 1 < k - 1
          BY <3>3
        <5> QED
          BY <2>1, <4>1, <4>2, <5>1, PiecesMeet
      <4> QED
        BY <3>1, <4>1, <4>2, <4>3
    <3> QED
      BY <3>2, <3>3 DEF BytesInOrder
  <2> QED
    BY <2>2, <2>3
<1> QED
  BY <1>1, GetInductive, PTL

\* A ranged get reads all that HEAD promised if no version since is shorter.
LEMMA WholeBody ==
  ASSUME GetIInv, outcome = "ok", Ranged,
         \A v \in seen .. Current : versions[v] >= total
  PROVE  Tile(body, total)
<1>1. /\ TypeOK /\ body \in Seq(Slices) /\ Requests \in Nat \ {0}
      /\ total \in Int /\ seen \in Int /\ Current \in Nat
      /\ Len(body) = Requests
  <2>1. Current \in Nat
    BY DEF GetIInv, TypeOK, Current
  <2> QED
    BY <2>1, SizeFacts DEF GetIInv, TypeOK, Complete
<1>2. ASSUME NEW k \in 1 .. Requests
      PROVE  /\ body[k].to = End(k - 1, total, ChunkSize)
             /\ body[k].from = Start(k - 1, ChunkSize)
             /\ k - 1 \in 0 .. (Requests - 1)
  <2>1. /\ body[k].version \in seen .. Current
        /\ body[k].from = Start(k - 1, ChunkSize)
        /\ k - 1 \in 0 .. (Requests - 1)
        /\ body[k].to =
             IF End(k - 1, total, ChunkSize) <= versions[body[k].version]
             THEN End(k - 1, total, ChunkSize) ELSE versions[body[k].version]
    BY <1>1, BodyFacts
  <2>2. /\ End(k - 1, total, ChunkSize) <= total
        /\ End(k - 1, total, ChunkSize) \in Int
    BY <1>1, <2>1, PiecesMeet
  <2>3. versions[body[k].version] >= total /\ versions[body[k].version] \in Int
    <3>1. body[k].version \in 1 .. Current
      BY <1>1, BodyFacts
    <3> QED
      BY <1>1, <2>1, <3>1, LengthFacts
  <2> QED
    BY <1>1, <2>1, <2>2, <2>3
<1>3. body # << >> /\ body[1].from = 0 /\ body[Len(body)].to = total
  <2>1. 1 \in 1 .. Requests /\ Requests \in 1 .. Requests /\ 1 - 1 = 0
    BY <1>1
  <2>2. body[1].from = 0
    BY <1>1, <1>2, <2>1, PiecesMeet
  <2>3. body[Requests].to = total
    BY <1>1, <1>2, <2>1, PiecesMeet
  <2> QED
    BY <1>1, <2>2, <2>3
<1>4. ASSUME NEW k \in 2 .. Len(body)
      PROVE  body[k - 1].to = body[k].from
  <2>1. /\ k - 1 \in 1 .. Requests /\ k \in 1 .. Requests
        /\ (k - 1) - 1 \in 0 .. (Requests - 1)
        /\ (k - 1) - 1 < Requests - 1 /\ ((k - 1) - 1) + 1 = k - 1
    BY <1>1
  <2>2. End((k - 1) - 1, total, ChunkSize) = Start(k - 1, ChunkSize)
    BY <1>1, <2>1, PiecesMeet
  <2> QED
    BY <1>2, <2>1, <2>2
<1> QED
  BY <1>3, <1>4 DEF Tile

\* A ranged get that succeeds lacks no byte that HEAD promised unless a version
\* since was shorter: no failed range is passed over (client.rs, range_get:
\* collect::<Result<_>>()).
THEOREM WholeUnlessShrunk == Spec => []OkIsWholeUnlessShrunk
<1>1. GetIInv => OkIsWholeUnlessShrunk
  BY WholeBody DEF OkIsWholeUnlessShrunk
<1> QED
  BY <1>1, GetInductive, PTL

\* A get that nobody overtakes returns the object HEAD saw, byte for byte,
\* whichever of its requests finishes first (client.rs, get_object).
THEOREM QuietGetReturns == Spec => []QuietGetReturnsTheObject
<1>1. ASSUME GetIInv, outcome = "ok", Current = seen
      PROVE  /\ Tile(body, versions[seen])
             /\ \A k \in 1 .. Len(body) : body[k].version = seen
  <2>1. /\ TypeOK /\ Current # 0 /\ Told /\ total \in Int
        /\ Threshold \in Nat /\ seen \in Nat
        /\ Ranged <=> total > Threshold
        /\ Requests \in Nat \ {0} /\ Len(body) = Requests
    <3>1. Current \in Nat
      BY <1>1 DEF GetIInv, TypeOK, Current
    <3> QED
      BY <1>1, <3>1, SizeFacts DEF GetIInv, InPhase, Complete
  <2>2. ASSUME NEW k \in 1 .. Len(body)
        PROVE  body[k].version = seen
    <3>1. body[k].version \in 1 .. Current /\ body[k].version >= seen
      BY <1>1, BodyFacts
    <3> QED
      BY <1>1, <2>1, <3>1
  <2>3. CASE Ranged
    <3>1. total = versions[seen]
      BY <1>1, <2>1, <2>3 DEF Told
    <3>2. \A v \in seen .. Current : versions[v] >= total
      BY <1>1, <2>1, <3>1
    <3> QED
      BY <1>1, <2>2, <2>3, <3>1, <3>2, WholeBody
  <2>4. CASE ~Ranged
    <3>1. Requests = 1 /\ Len(body) = 1 /\ 1 \in 1 .. Len(body) /\ 1 - 1 = 0
      BY <2>1, <2>4, SizeFacts
    <3>2. body[1].from = Start(1 - 1, ChunkSize) /\ body[1].to = versions[seen]
      BY <1>1, <2>2, <2>4, <3>1, BodyFacts
    <3>3. body[1].from = 0
      BY <2>1, <3>1, <3>2, PiecesMeet
    <3>4. body # << >>
      BY <3>1
    <3> QED
      BY <2>2, <3>1, <3>2, <3>3, <3>4 DEF Tile
  <2> QED
    BY <2>3, <2>4
<1>2. GetIInv => QuietGetReturnsTheObject
  BY <1>1 DEF QuietGetReturnsTheObject
<1> QED
  BY <1>2, GetInductive, PTL

-----------------------------------------------------------------------------
(* Reads: each call is one of RangeGet or of Listing *)

\* Whichever method is called, the behaviour is one of get_object and one of
\* list_objects: what is proved of either holds of a client that has both.
THEOREM EveryRead == ReadsSpec => Spec /\ ListSpec
<1>1. ReadsInit => Init /\ ListInit
  BY DEF ReadsInit
<1>2. [ReadsNext]_readVars => [Next]_vars /\ [ListNext]_listVars
  BY DEF ReadsNext, readVars
<1> QED
  BY <1>1, <1>2, PTL DEF ReadsSpec, Spec, ListSpec

\* The state of both calls has its types.
THEOREM ReadsTypeCorrect == ReadsSpec => []ReadsTypeOK
<1> DEFINE M == method \in {"get_object", "list_objects"}
<1>1. ReadsInit => M
  BY DEF ReadsInit
<1>2. M /\ [ReadsNext]_readVars => M'
  BY DEF ReadsNext, readVars
<1>3. TypeOK /\ ListTypeOK /\ M => ReadsTypeOK
  BY DEF ReadsTypeOK
<1> QED
  BY <1>1, <1>2, <1>3, EveryRead, GetTypeCorrect, TypeCorrect, PTL DEF ReadsSpec
=============================================================================
