--------------------------- MODULE S3ClientProofs ---------------------------
(***************************************************************************)
(* The safety of the client's operations, for any tasks, any sizes of the  *)
(* pool that validate accepts and any number of operations, drops and      *)
(* ticks.                                                                  *)
(***************************************************************************)
EXTENDS S3Client, TotalsProofs, SequenceTheorems

-----------------------------------------------------------------------------
(* The inductive invariant *)

\* One half of the pool: who is in line is there once, has asked and holds
\* nothing; who holds something holds what it asked for.
HalfOK(line, ask, held, capacity) ==
  /\ line \in Seq(Tasks)
  /\ ask \in [Tasks -> 0 .. capacity]
  /\ held \in [Tasks -> 0 .. capacity]
  /\ \A i, j \in 1 .. Len(line) : line[i] = line[j] => i = j
  /\ \A i \in 1 .. Len(line) : ask[line[i]] > 0 /\ held[line[i]] = 0
  /\ \A t \in Tasks : held[t] = 0 \/ held[t] = ask[t]

Halves ==
  /\ HalfOK(rline, rask, rheld, ReadConnections)
  /\ HalfOK(wline, wask, wheld, WriteConnections)

\* Only an operation between its acquire and its release has asked for
\* permits, and only in its own half.
Placed ==
  \A t \in Tasks :
    /\ at[t] \in {"idle", "acquire", "returned", "dropped"}
         => rask[t] = 0 /\ wask[t] = 0
    /\ Reading(t) => wask[t] = 0
    /\ ~Reading(t) => rask[t] = 0

\* What finish() counts is there when it is called.
Resulted ==
  \A t \in Tasks : at[t] \in {"answered", "returned"} => result[t] \in {"ok", "err"}

\* The life of an operation is waits it knows of, one it does not, and time
\* with S3; the one it does not know is under way or was its last.
Clocked ==
  \A t \in Tasks :
    /\ clock[t].life = clock[t].waiting + clock[t].known + clock[t].backend
    /\ clock[t].waiting > 0 =>
         at[t] \in {"waiting", "dropped"} \/ (at[t] = "returned" /\ result[t] = "err")

IInv ==
  /\ TypeOK /\ Halves /\ Placed /\ Resulted /\ Clocked
  /\ EachOperationCountedOnce /\ DurationCountsTheLostWait

-----------------------------------------------------------------------------
(* One half of the pool *)

\* The sequence without its element p, as FifoPool's Abandon has it.
Without(s, p) == SubSeq(s, 1, p - 1) \o SubSeq(s, p + 1, Len(s))

LEMMA TakenOut ==
  ASSUME NEW S, NEW s \in Seq(S), NEW p \in 1 .. Len(s)
  PROVE  /\ Without(s, p) \in Seq(S)
         /\ Len(Without(s, p)) = Len(s) - 1
         /\ \A k \in 1 .. Len(Without(s, p)) :
              Without(s, p)[k] = IF k < p THEN s[k] ELSE s[k + 1]
<1> DEFINE a == SubSeq(s, 1, p - 1)
           b == SubSeq(s, p + 1, Len(s))
<1>1. Len(s) \in Nat
  OBVIOUS
<1>2. a \in Seq(S) /\ Len(a) = p - 1 /\ \A k \in 1 .. (p - 1) : a[k] = s[k]
  OBVIOUS
<1>3. /\ b \in Seq(S) /\ Len(b) = Len(s) - p
      /\ \A k \in 1 .. (Len(s) - p) : b[k] = s[p + k]
  OBVIOUS
<1> HIDE DEF a, b
<1>4. /\ a \o b \in Seq(S) /\ Len(a \o b) = Len(s) - 1
      /\ \A k \in 1 .. Len(a \o b) :
           (a \o b)[k] = IF k <= p - 1 THEN a[k] ELSE b[k - (p - 1)]
  <2>1. /\ a \o b \in Seq(S) /\ Len(a \o b) = Len(a) + Len(b)
        /\ \A i \in 1 .. Len(a) + Len(b) :
             (a \o b)[i] = IF i <= Len(a) THEN a[i] ELSE b[i - Len(a)]
    BY <1>2, <1>3, ConcatProperties
  <2>2. Len(a) + Len(b) = Len(s) - 1
    BY <1>1, <1>2, <1>3
  <2> QED
    BY <1>2, <2>1, <2>2
<1>5. ASSUME NEW k \in 1 .. Len(a \o b)
      PROVE  (a \o b)[k] = IF k < p THEN s[k] ELSE s[k + 1]
  <2>1. CASE k <= p - 1
    BY <1>1, <1>2, <1>4, <2>1
  <2>2. CASE ~(k <= p - 1)
    <3>1. k - (p - 1) \in 1 .. (Len(s) - p) /\ p + (k - (p - 1)) = k + 1
      BY <1>1, <1>4, <2>2
    <3> QED
      BY <1>3, <1>4, <2>2, <3>1
  <2> QED
    BY <2>1, <2>2
<1> QED
  <2>1. Without(s, p) = a \o b
    BY DEF Without, a, b
  <2> QED
    BY <1>4, <1>5, <2>1

LEMMA Arrives ==
  ASSUME NEW capacity \in Nat, NEW line, NEW ask, NEW held,
         HalfOK(line, ask, held, capacity),
         NEW t \in Tasks, NEW n \in 1 .. capacity, ask[t] = 0,
         NEW line2, NEW held2,
         \/ held2 = [held EXCEPT ![t] = n] /\ line2 = line
         \/ line2 = Append(line, t) /\ held2 = held
  PROVE  HalfOK(line2, [ask EXCEPT ![t] = n], held2, capacity)
<1> DEFINE ask2 == [ask EXCEPT ![t] = n]
<1>0. \A i \in 1 .. Len(line) : line[i] \in Tasks /\ ask[line[i]] > 0
  BY ElementOfSeq DEF HalfOK
<1>1. /\ ask2 \in [Tasks -> 0 .. capacity] /\ held2 \in [Tasks -> 0 .. capacity]
      /\ \A u \in Tasks : ask2[u] = IF u = t THEN n ELSE ask[u]
      /\ \A i \in 1 .. Len(line) : line[i] \in Tasks /\ line[i] # t
      /\ Len(line) \in Nat /\ held[t] = 0
  <2>1. /\ ask \in [Tasks -> 0 .. capacity] /\ held \in [Tasks -> 0 .. capacity]
        /\ line \in Seq(Tasks) /\ (held[t] = 0 \/ held[t] = ask[t])
    BY DEF HalfOK
  <2>2. [held EXCEPT ![t] = n] \in [Tasks -> 0 .. capacity]
    BY <2>1
  <2>3. held2 \in [Tasks -> 0 .. capacity]
    BY <2>1, <2>2
  <2> QED
    BY <1>0, <2>1, <2>3
<1> HIDE DEF ask2
<1>2. CASE held2 = [held EXCEPT ![t] = n] /\ line2 = line
  BY <1>1, <1>2 DEF HalfOK
<1>3. CASE line2 = Append(line, t) /\ held2 = held
  <2>1. /\ line2 \in Seq(Tasks) /\ Len(line2) = Len(line) + 1
        /\ line2[Len(line) + 1] = t
        /\ \A i \in 1 .. Len(line) : line2[i] = line[i]
    BY <1>3 DEF HalfOK
  <2> QED
    BY <1>1, <1>3, <2>1 DEF HalfOK
<1> QED
  BY <1>2, <1>3 DEF ask2

LEMMA Returns ==
  ASSUME NEW capacity \in Nat, NEW line, NEW ask, NEW held,
         HalfOK(line, ask, held, capacity), NEW t \in Tasks, held[t] > 0
  PROVE  HalfOK(line, [ask EXCEPT ![t] = 0], [held EXCEPT ![t] = 0], capacity)
<1>1. \A i \in 1 .. Len(line) : line[i] \in Tasks /\ line[i] # t
  BY ElementOfSeq DEF HalfOK
<1> QED
  BY <1>1 DEF HalfOK

LEMMA Abandons ==
  ASSUME NEW capacity \in Nat, NEW line, NEW ask, NEW held,
         HalfOK(line, ask, held, capacity),
         NEW t \in Tasks, NEW p \in 1 .. Len(line), line[p] = t
  PROVE  HalfOK(Without(line, p), [ask EXCEPT ![t] = 0], held, capacity)
<1> DEFINE w == Without(line, p)
           ask2 == [ask EXCEPT ![t] = 0]
<1>1. /\ line \in Seq(Tasks) /\ Len(line) \in Nat
      /\ ask \in [Tasks -> 0 .. capacity] /\ held \in [Tasks -> 0 .. capacity]
      /\ \A i, j \in 1 .. Len(line) : line[i] = line[j] => i = j
      /\ \A i \in 1 .. Len(line) : ask[line[i]] > 0 /\ held[line[i]] = 0
      /\ \A u \in Tasks : held[u] = 0 \/ held[u] = ask[u]
  BY DEF HalfOK
<1>2. \A i \in 1 .. Len(line) : line[i] \in Tasks
  BY <1>1, ElementOfSeq
<1>3. /\ ask2 \in [Tasks -> 0 .. capacity]
      /\ \A u \in Tasks : ask2[u] = IF u = t THEN 0 ELSE ask[u]
  BY <1>1
<1>4. /\ w \in Seq(Tasks) /\ Len(w) = Len(line) - 1
      /\ \A k \in 1 .. Len(w) : w[k] = IF k < p THEN line[k] ELSE line[k + 1]
  BY <1>1, TakenOut
<1> HIDE DEF w, ask2
<1>5. ASSUME NEW k \in 1 .. Len(w)
      PROVE  \E i \in 1 .. Len(line) :
               /\ i # p /\ i = (IF k < p THEN k ELSE k + 1)
               /\ w[k] = line[i]
  <2>1. CASE k < p
    <3>0. Len(line) \in Nat /\ Len(w) = Len(line) - 1
      BY <1>1, <1>4
    <3>1. k \in 1 .. Len(line) /\ k # p
      BY <2>1, <3>0
    <3>2. w[k] = line[k]
      BY <1>4, <2>1
    <3> QED
      BY <2>1, <3>1, <3>2
  <2>2. CASE ~(k < p)
    <3>1. k + 1 \in 1 .. Len(line) /\ k + 1 # p /\ w[k] = line[k + 1]
      BY <1>1, <1>4, <2>2
    <3> QED
      BY <2>2, <3>1
  <2> QED
    BY <2>1, <2>2
<1>6. ASSUME NEW k \in 1 .. Len(w)
      PROVE  ask2[w[k]] > 0 /\ held[w[k]] = 0
  <2>1. PICK i \in 1 .. Len(line) : i # p /\ w[k] = line[i]
    BY <1>5
  <2>2. w[k] \in Tasks /\ w[k] # t /\ ask[w[k]] > 0 /\ held[w[k]] = 0
    BY <1>1, <1>2, <2>1
  <2> QED
    BY <1>3, <2>2
<1>7. ASSUME NEW k \in 1 .. Len(w), NEW l \in 1 .. Len(w), w[k] = w[l]
      PROVE  k = l
  <2>1. PICK i \in 1 .. Len(line) :
          i = (IF k < p THEN k ELSE k + 1) /\ w[k] = line[i]
    BY <1>5
  <2>2. PICK j \in 1 .. Len(line) :
          j = (IF l < p THEN l ELSE l + 1) /\ w[l] = line[j]
    BY <1>5
  <2>3. i = j
    BY <1>1, <1>7, <2>1, <2>2
  <2>4. k \in Int /\ l \in Int /\ p \in Int
    BY <1>1, <1>4
  <2> QED
    BY <2>1, <2>2, <2>3, <2>4
<1>8. \A u \in Tasks : held[u] = 0 \/ held[u] = ask2[u]
  BY <1>1, <1>3
<1>9. HalfOK(w, ask2, held, capacity)
  BY <1>1, <1>3, <1>4, <1>6, <1>7, <1>8 DEF HalfOK
<1> QED
  BY <1>9 DEF w, ask2

LEMMA Admits ==
  ASSUME NEW capacity \in Nat, NEW line, NEW ask, NEW held,
         HalfOK(line, ask, held, capacity), line # << >>
  PROVE  HalfOK(Tail(line), ask, [held EXCEPT ![Head(line)] = ask[Head(line)]],
                capacity)
<1> DEFINE h == line[1]
           held2 == [held EXCEPT ![h] = ask[h]]
<1>1. /\ Len(line) \in Nat \ {0} /\ Head(line) = h
      /\ Tail(line) \in Seq(Tasks) /\ Len(Tail(line)) = Len(line) - 1
      /\ \A i \in 1 .. Len(Tail(line)) : Tail(line)[i] = line[i + 1]
      /\ \A i \in 1 .. Len(line) : line[i] \in Tasks
  BY DEF HalfOK
<1>2. h \in Tasks
  BY <1>1
<1>3. /\ held2 \in [Tasks -> 0 .. capacity]
      /\ \A u \in Tasks : held2[u] = IF u = h THEN ask[h] ELSE held[u]
  BY <1>2 DEF HalfOK
<1>4. \A i \in 1 .. Len(Tail(line)) : Tail(line)[i] # h /\ Tail(line)[i] \in Tasks
  BY <1>1 DEF HalfOK
<1> HIDE DEF held2, h
<1>5. HalfOK(Tail(line), ask, held2, capacity)
  BY <1>1, <1>3, <1>4 DEF HalfOK
<1> QED
  BY <1>1, <1>5 DEF held2, h

\* The part of TypeOK that the pool does not have.
Frames ==
  /\ op \in [Tasks -> Mix \cup {"none"}]
  /\ step \in [Tasks -> {"stat", "data"}]
  /\ big \in [Tasks -> BOOLEAN]
  /\ at \in [Tasks -> {"idle", "acquire", "waiting", "busy", "answered",
                       "returned", "finished", "dropped"}]
  /\ result \in [Tasks -> {"none", "ok", "err"}]

Numbers ==
  /\ clock \in [Tasks -> [life : Nat, waiting : Nat, known : Nat, backend : Nat]]
  /\ counters \in [total : Nat, ok : Nat, err : Nat, cancelled : Nat]
  /\ recorded \in [status : {"none", "ok", "err", "cancelled"},
                   latency : Nat, queue_wait : Nat, duration : Nat,
                   backend : Nat, untold : Nat]
  /\ dropped \in 0 .. MaxDrops

-----------------------------------------------------------------------------
(* The way of an operation *)

\* The actions that leave the pool alone.
Still(t) ==
  \/ \E o \in Mix, b \in BOOLEAN : Start(t, o, b)
  \/ Resume(t) \/ Served(t) \/ Finish(t) \/ DropMetrics(t)

LEMMA StillIsStill ==
  ASSUME NEW t \in Tasks, Still(t)
  PROVE  UNCHANGED <<readPool, writePool>>
BY DEF Still, Start, Resume, Served, Answer, Finish, DropMetrics

\* A task's step is no other task's.
LEMMA OthersWait ==
  ASSUME Frames, NEW t \in Tasks,
         \/ Still(t) \/ Acquire(t) \/ Release(t) \/ ReleaseLate(t)
         \/ TimeOut(t) \/ Drop(t),
         NEW u \in Tasks, u # t
  PROVE  at'[u] = at[u] /\ op'[u] = op[u] /\ result'[u] = result[u]
<1>0. /\ \E R : at \in [Tasks -> R]
      /\ \E R : op \in [Tasks -> R]
      /\ \E R : result \in [Tasks -> R]
  BY DEF Frames
<1>1. ASSUME NEW x, at' = [at EXCEPT ![t] = x]
      PROVE  at'[u] = at[u]
  BY <1>0, <1>1
<1>2. ASSUME Forget(t)
      PROVE  op'[u] = op[u] /\ result'[u] = result[u]
  BY <1>0, <1>2 DEF Forget
<1>3. ASSUME NEW o \in Mix, NEW b \in BOOLEAN, Start(t, o, b)
      PROVE  at'[u] = at[u] /\ op'[u] = op[u] /\ result'[u] = result[u]
  BY <1>0, <1>3 DEF Start, Goto
<1>4. ASSUME Resume(t) \/ Served(t)
      PROVE  at'[u] = at[u] /\ op'[u] = op[u] /\ result'[u] = result[u]
  BY <1>0, <1>4 DEF Resume, Served, Answer, Goto
<1>5. ASSUME Finish(t)
      PROVE  at'[u] = at[u] /\ op'[u] = op[u] /\ result'[u] = result[u]
  BY <1>1, <1>2, <1>5 DEF Finish, Goto
<1>6. ASSUME DropMetrics(t) \/ ReleaseLate(t)
      PROVE  at'[u] = at[u] /\ op'[u] = op[u] /\ result'[u] = result[u]
  BY <1>1, <1>2, <1>6 DEF DropMetrics, ReleaseLate, Goto
<1>7. ASSUME Acquire(t) \/ Release(t)
      PROVE  at'[u] = at[u] /\ op'[u] = op[u] /\ result'[u] = result[u]
  BY <1>1, <1>7 DEF Acquire, Release, Goto
<1>8. ASSUME TimeOut(t) \/ Drop(t)
      PROVE  at'[u] = at[u] /\ op'[u] = op[u] /\ result'[u] = result[u]
  BY <1>0, <1>1, <1>8 DEF TimeOut, Drop, Goto
<1> QED
  BY <1>3, <1>4, <1>5, <1>6, <1>7, <1>8 DEF Still

\* Where each action takes its task, and from where.
LEMMA Ways ==
  ASSUME Frames, NEW t \in Tasks
  PROVE  /\ (\E o \in Mix, b \in BOOLEAN : Start(t, o, b)) =>
              at[t] = "idle" /\ at'[t] = "acquire"
         /\ Acquire(t) =>
              /\ at[t] = "acquire" /\ at'[t] \in {"busy", "waiting"}
              /\ op' = op /\ result' = result
         /\ Resume(t) =>
              /\ at[t] = "waiting" /\ at'[t] = "busy"
              /\ op' = op /\ result' = result
         /\ TimeOut(t) =>
              /\ at[t] = "waiting" /\ at'[t] \in {"dropped", "returned"}
              /\ op' = op /\ result'[t] = "err"
         /\ Served(t) =>
              /\ at[t] = "busy" /\ at'[t] = "answered"
              /\ op' = op /\ result'[t] \in {"ok", "err"}
         /\ Release(t) =>
              /\ at[t] = "answered" /\ at'[t] \in {"acquire", "returned"}
              /\ op' = op /\ result' = result
         /\ Finish(t) =>
              \/ at[t] = "returned" /\ at'[t] = "idle" /\ Forget(t)
              \/ /\ at[t] = "answered" /\ at'[t] = "finished"
                 /\ op' = op /\ result' = result /\ clock' = clock
         /\ ReleaseLate(t) => at[t] = "finished" /\ at'[t] = "idle"
         /\ Drop(t) =>
              /\ at[t] \in {"waiting", "busy"} /\ at'[t] = "dropped"
              /\ op' = op /\ result' = result
         /\ DropMetrics(t) => at[t] = "dropped" /\ at'[t] = "idle"
<1>0. \E R : at \in [Tasks -> R]
  BY DEF Frames
<1>1. ASSUME NEW x, at' = [at EXCEPT ![t] = x]
      PROVE  at'[t] = x
  BY <1>0, <1>1
<1>2. \A o, b : Start(t, o, b) => at[t] = "idle" /\ at'[t] = "acquire"
  BY <1>1 DEF Start, Goto
<1>3. Acquire(t) => /\ at[t] = "acquire" /\ at'[t] \in {"busy", "waiting"}
                    /\ op' = op /\ result' = result
  BY <1>1 DEF Acquire
<1>4. Resume(t) => /\ at[t] = "waiting" /\ at'[t] = "busy"
                   /\ op' = op /\ result' = result
  BY <1>1 DEF Resume, Goto
<1>5. TimeOut(t) => /\ at[t] = "waiting" /\ at'[t] \in {"dropped", "returned"}
                    /\ op' = op /\ result'[t] = "err"
  <2>1. \E R : result \in [Tasks -> R]
    BY DEF Frames
  <2> QED
    BY <1>1, <2>1 DEF TimeOut, Goto
<1>6. ASSUME NEW r \in {"ok", "err"}, Answer(t, r)
      PROVE  /\ at[t] = "busy" /\ at'[t] = "answered"
             /\ op' = op /\ result'[t] \in {"ok", "err"}
  <2>1. \E R : result \in [Tasks -> R]
    BY DEF Frames
  <2> QED
    BY <1>1, <1>6, <2>1 DEF Answer, Goto
<1>7. Release(t) => /\ at[t] = "answered" /\ at'[t] \in {"acquire", "returned"}
                    /\ op' = op /\ result' = result
  BY <1>1 DEF Release, Goto
<1>8. Finish(t) =>
        \/ at[t] = "returned" /\ at'[t] = "idle" /\ Forget(t)
        \/ /\ at[t] = "answered" /\ at'[t] = "finished"
           /\ op' = op /\ result' = result /\ clock' = clock
  BY <1>1 DEF Finish, Goto, Done
<1>9. ReleaseLate(t) => at[t] = "finished" /\ at'[t] = "idle"
  BY <1>1 DEF ReleaseLate, Goto
<1>10. Drop(t) => /\ at[t] \in {"waiting", "busy"} /\ at'[t] = "dropped"
                  /\ op' = op /\ result' = result
  BY <1>1 DEF Drop, Goto
<1>11. DropMetrics(t) => at[t] = "dropped" /\ at'[t] = "idle"
  BY <1>1 DEF DropMetrics, Goto
<1> QED
  BY <1>2, <1>3, <1>4, <1>5, <1>6, <1>7, <1>8, <1>9, <1>10, <1>11 DEF Served

-----------------------------------------------------------------------------
(* Both halves, as the actions move them *)

\* Task t has moved in its half; the others have not noticed.
Moved(t) ==
  /\ Halves'
  /\ \A u \in Tasks : u # t => rask'[u] = rask[u] /\ wask'[u] = wask[u]
  /\ Reading(t) => wask' = wask
  /\ ~Reading(t) => rask' = rask

LEMMA Sizes ==
  ASSUME TypeOK, NEW t \in Tasks
  PROVE  /\ ReadConnections \in Nat /\ WriteConnections \in Nat
         /\ Reading(t) => Need(t) \in 1 .. ReadConnections
         /\ ~Reading(t) => Need(t) \in 1 .. WriteConnections
BY ClientAssumption DEF Need

LEMMA ArriveMoves ==
  ASSUME TypeOK, Halves, NEW t \in Tasks, Arrive(t)
  PROVE  Moved(t)
<1>1. CASE Reading(t)
  <2>1. Read!Arrive(t, Need(t)) /\ UNCHANGED writePool
    BY <1>1 DEF Arrive
  <2>2. HalfOK(rline', rask', rheld', ReadConnections)
    <3>1. /\ rask[t] = 0 /\ rask' = [rask EXCEPT ![t] = Need(t)]
          /\ \/ rheld' = [rheld EXCEPT ![t] = Need(t)] /\ rline' = rline
             \/ rline' = Append(rline, t) /\ rheld' = rheld
      BY <2>1 DEF Read!Arrive
    <3> QED
      BY <1>1, <3>1, Sizes, Arrives DEF Halves
  <2>3. \A u \in Tasks : u # t => rask'[u] = rask[u]
    BY <2>1 DEF Read!Arrive, TypeOK
  <2> QED
    BY <1>1, <2>1, <2>2, <2>3 DEF Moved, Halves, writePool
<1>2. CASE ~Reading(t)
  <2>1. Write!Arrive(t, Need(t)) /\ UNCHANGED readPool
    BY <1>2 DEF Arrive
  <2>2. HalfOK(wline', wask', wheld', WriteConnections)
    <3>1. /\ wask[t] = 0 /\ wask' = [wask EXCEPT ![t] = Need(t)]
          /\ \/ wheld' = [wheld EXCEPT ![t] = Need(t)] /\ wline' = wline
             \/ wline' = Append(wline, t) /\ wheld' = wheld
      BY <2>1 DEF Write!Arrive
    <3> QED
      BY <1>2, <3>1, Sizes, Arrives DEF Halves
  <2>3. \A u \in Tasks : u # t => wask'[u] = wask[u]
    BY <2>1 DEF Write!Arrive, TypeOK
  <2> QED
    BY <1>2, <2>1, <2>2, <2>3 DEF Moved, Halves, readPool
<1> QED
  BY <1>1, <1>2

\* Whichever way a task leaves its half, it has asked for nothing afterwards.
LEMMA LeaveMoves ==
  ASSUME TypeOK, Halves, Placed, NEW t \in Tasks, Return(t) \/ GiveUp(t)
  PROVE  Moved(t) /\ rask'[t] = 0 /\ wask'[t] = 0
<1>1. CASE Reading(t)
  <2>1. Read!Return(t) \/ Read!Abandon(t)
    BY <1>1 DEF Return, GiveUp
  <2>2. UNCHANGED writePool
    BY <1>1 DEF Return, GiveUp
  <2>3. rask' = [rask EXCEPT ![t] = 0]
    BY <2>1 DEF Read!Return, Read!Abandon
  <2>4. HalfOK(rline', rask', rheld', ReadConnections)
    <3>1. CASE Read!Return(t)
      BY <3>1, Sizes, Returns DEF Read!Return, Halves
    <3>2. CASE Read!Abandon(t)
      <4>1. rheld' = rheld
        BY <3>2 DEF Read!Abandon
      <4>2. PICK p \in 1 .. Len(rline) : rline[p] = t /\ rline' = Without(rline, p)
        BY <3>2 DEF Read!Abandon, Without
      <4> QED
        BY <2>3, <4>1, <4>2, Sizes, Abandons DEF Halves
    <3> QED
      BY <2>1, <3>1, <3>2
  <2> QED
    BY <1>1, <2>2, <2>3, <2>4 DEF Moved, Halves, writePool, TypeOK, Placed
<1>2. CASE ~Reading(t)
  <2>1. Write!Return(t) \/ Write!Abandon(t)
    BY <1>2 DEF Return, GiveUp
  <2>2. UNCHANGED readPool
    BY <1>2 DEF Return, GiveUp
  <2>3. wask' = [wask EXCEPT ![t] = 0]
    BY <2>1 DEF Write!Return, Write!Abandon
  <2>4. HalfOK(wline', wask', wheld', WriteConnections)
    <3>1. CASE Write!Return(t)
      BY <3>1, Sizes, Returns DEF Write!Return, Halves
    <3>2. CASE Write!Abandon(t)
      <4>1. wheld' = wheld
        BY <3>2 DEF Write!Abandon
      <4>2. PICK p \in 1 .. Len(wline) : wline[p] = t /\ wline' = Without(wline, p)
        BY <3>2 DEF Write!Abandon, Without
      <4> QED
        BY <2>3, <4>1, <4>2, Sizes, Abandons DEF Halves
    <3> QED
      BY <2>1, <3>1, <3>2
  <2> QED
    BY <1>2, <2>2, <2>3, <2>4 DEF Moved, Halves, readPool, TypeOK, Placed
<1> QED
  BY <1>1, <1>2

\* An admission changes what is held, and nothing that was asked for.
LEMMA AdmitMoves ==
  ASSUME TypeOK, Halves, AdmitRead \/ AdmitWrite
  PROVE  Halves' /\ rask' = rask /\ wask' = wask
<1>0. ReadConnections \in Nat /\ WriteConnections \in Nat
  BY ClientAssumption
<1>1. CASE AdmitRead
  BY <1>0, <1>1, Admits DEF AdmitRead, Read!Admit, Halves, writePool
<1>2. CASE AdmitWrite
  BY <1>0, <1>2, Admits DEF AdmitWrite, Write!Admit, Halves, readPool
<1> QED
  BY <1>1, <1>2

-----------------------------------------------------------------------------
(* Every step keeps the invariant *)

\* A release gives the permits back, wherever the call goes on.
LEMMA ReleaseReturns ==
  ASSUME NEW t \in Tasks, Release(t)
  PROVE  Return(t)
BY DEF Release, EndOfStat

LEMMA HalvesStep ==
  ASSUME IInv, Next
  PROVE  Halves'
<1>0. TypeOK /\ Halves /\ Placed
  BY DEF IInv
<1>1. ASSUME NEW t \in Tasks, Still(t)
      PROVE  Halves'
  BY <1>0, <1>1, StillIsStill DEF Halves, readPool, writePool
<1>2. ASSUME NEW t \in Tasks, Acquire(t)
      PROVE  Halves'
  BY <1>0, <1>2, ArriveMoves DEF Acquire, Moved
<1>3. ASSUME NEW t \in Tasks,
             Release(t) \/ ReleaseLate(t) \/ TimeOut(t) \/ Drop(t)
      PROVE  Halves'
  <2>1. Return(t) \/ GiveUp(t)
    BY <1>3, ReleaseReturns DEF ReleaseLate, TimeOut, Drop
  <2> QED
    BY <1>0, <2>1, LeaveMoves DEF Moved
<1>4. CASE AdmitRead \/ AdmitWrite
  BY <1>0, <1>4, AdmitMoves
<1>5. CASE Tick \/ Rest
  BY <1>0, <1>5 DEF Tick, Rest, vars, Halves, readPool, writePool
<1> QED
  BY <1>1, <1>2, <1>3, <1>4, <1>5 DEF Next, PatientNext, Proceed, Still

LEMMA TypeHasFrames ==
  ASSUME TypeOK
  PROVE  Frames /\ Numbers
BY DEF TypeOK, Frames, Numbers

LEMMA PlacedStep ==
  ASSUME IInv, Next
  PROVE  Placed'
<1>0. TypeOK /\ Halves /\ Placed /\ Frames
  BY TypeHasFrames DEF IInv
<1>1. ASSUME NEW t \in Tasks, Still(t)
      PROVE  Placed'
  <2>1. rask' = rask /\ wask' = wask
    BY <1>1, StillIsStill DEF readPool, writePool
  <2>2. \A u \in Tasks : u # t => at'[u] = at[u] /\ op'[u] = op[u]
    BY <1>0, <1>1, OthersWait
  <2>3. op'[t] = op[t] \/ at[t] \in {"idle", "returned", "dropped"}
    BY <1>0, <1>1, Ways DEF Still
  <2>4. \/ at'[t] \notin {"idle", "acquire", "returned", "dropped"}
        \/ at[t] \in {"idle", "returned", "dropped"}
    BY <1>0, <1>1, Ways DEF Still
  <2> QED
    BY <1>0, <2>1, <2>2, <2>3, <2>4 DEF Placed, Reading
<1>2. ASSUME NEW t \in Tasks, Acquire(t)
      PROVE  Placed'
  <2>1. Moved(t)
    BY <1>0, <1>2, ArriveMoves DEF Acquire
  <2>2. \A u \in Tasks : u # t => at'[u] = at[u]
    BY <1>0, <1>2, OthersWait
  <2>3. op' = op /\ at'[t] \in {"busy", "waiting"}
    BY <1>0, <1>2, Ways
  <2> QED
    BY <1>0, <2>1, <2>2, <2>3 DEF Placed, Moved, Reading
<1>3. ASSUME NEW t \in Tasks,
             Release(t) \/ ReleaseLate(t) \/ TimeOut(t) \/ Drop(t)
      PROVE  Placed'
  <2>1. Return(t) \/ GiveUp(t)
    BY <1>3, ReleaseReturns DEF ReleaseLate, TimeOut, Drop
  <2>2. Moved(t) /\ rask'[t] = 0 /\ wask'[t] = 0
    BY <1>0, <2>1, LeaveMoves
  <2>3. \A u \in Tasks : u # t => at'[u] = at[u] /\ op'[u] = op[u]
    BY <1>0, <1>3, OthersWait
  <2> QED
    BY <1>0, <2>2, <2>3 DEF Placed, Moved, Reading
<1>4. CASE AdmitRead \/ AdmitWrite
  BY <1>0, <1>4, AdmitMoves DEF AdmitRead, AdmitWrite, Placed, Reading
<1>5. CASE Tick \/ Rest
  BY <1>0, <1>5 DEF Tick, Rest, vars, readPool, writePool, Placed, Reading
<1> QED
  BY <1>1, <1>2, <1>3, <1>4, <1>5 DEF Next, PatientNext, Proceed, Still

LEMMA ResultedStep ==
  ASSUME IInv, Next
  PROVE  Resulted'
<1>0. Frames /\ Resulted
  BY TypeHasFrames DEF IInv
<1>1. ASSUME NEW t \in Tasks,
             \/ Still(t) \/ Acquire(t) \/ Release(t) \/ ReleaseLate(t)
             \/ TimeOut(t) \/ Drop(t)
      PROVE  Resulted'
  <2>1. \A u \in Tasks : u # t => at'[u] = at[u] /\ result'[u] = result[u]
    BY <1>0, <1>1, OthersWait
  <2>2. \/ at'[t] \notin {"answered", "returned"}
        \/ result'[t] \in {"ok", "err"}
        \/ at[t] = "answered" /\ result'[t] = result[t]
    BY <1>0, <1>1, Ways DEF Still
  <2> QED
    BY <1>0, <2>1, <2>2 DEF Resulted
<1>2. CASE AdmitRead \/ AdmitWrite \/ Tick \/ Rest
  BY <1>0, <1>2 DEF AdmitRead, AdmitWrite, Tick, Rest, vars, Resulted
<1> QED
  BY <1>1, <1>2 DEF Next, PatientNext, Proceed, Still

\* The clock of one task, and the clocks of the others.
LEMMA ClockTyped ==
  ASSUME TypeOK, NEW t \in Tasks
  PROVE  /\ clock[t].life \in Nat /\ clock[t].waiting \in Nat
         /\ clock[t].known \in Nat /\ clock[t].backend \in Nat
BY DEF TypeOK

LEMMA ClockedStep ==
  ASSUME IInv, Next
  PROVE  Clocked'
<1>0. TypeOK /\ Frames /\ Clocked
  BY TypeHasFrames DEF IInv
<1> DEFINE Elsewhere(t) ==
             \A u \in Tasks : u # t => at'[u] = at[u] /\ result'[u] = result[u]
<1>1. ASSUME NEW t \in Tasks, clock' = [clock EXCEPT ![t] = NewClock], Elsewhere(t)
      PROVE  Clocked'
  <2>1. /\ clock'[t] = NewClock
        /\ \A u \in Tasks : u # t => clock'[u] = clock[u]
    BY <1>0, <1>1 DEF TypeOK
  <2> QED
    BY <1>0, <1>1, <2>1 DEF Clocked, NewClock
<1>2. ASSUME NEW t \in Tasks, clock' = clock, Elsewhere(t),
             \/ at[t] \notin {"waiting", "dropped", "returned"}
             \/ at'[t] = "dropped"
             \/ at'[t] = "returned" /\ result'[t] = "err"
      PROVE  Clocked'
  BY <1>0, <1>2 DEF Clocked
<1>3. ASSUME NEW t \in Tasks,
             \/ Still(t) \/ Acquire(t) \/ Release(t) \/ ReleaseLate(t)
             \/ TimeOut(t) \/ Drop(t)
      PROVE  Elsewhere(t)
  BY <1>0, <1>3, OthersWait
<1> HIDE DEF Elsewhere
<1>4. ASSUME NEW t \in Tasks,
             \/ \E o \in Mix, b \in BOOLEAN : Start(t, o, b)
             \/ DropMetrics(t) \/ ReleaseLate(t)
      PROVE  Clocked'
  <2>1. clock' = [clock EXCEPT ![t] = NewClock]
    BY <1>4 DEF Start, DropMetrics, ReleaseLate, Forget
  <2> QED
    BY <1>1, <1>3, <1>4, <2>1 DEF Still
<1>5. ASSUME NEW t \in Tasks, Resume(t)
      PROVE  Clocked'
  <2>1. /\ clock'[t].life = clock[t].life
        /\ clock'[t].known = clock[t].known + clock[t].waiting
        /\ clock'[t].waiting = 0
        /\ clock'[t].backend = clock[t].backend
        /\ \A u \in Tasks : u # t => clock'[u] = clock[u]
    BY <1>0, <1>5 DEF Resume, QueueWait, TypeOK
  <2>2. \A u \in Tasks : u # t => at'[u] = at[u] /\ result'[u] = result[u]
    BY <1>3, <1>5 DEF Still, Elsewhere
  <2>3. clock'[t].life = clock'[t].waiting + clock'[t].known + clock'[t].backend
    BY <1>0, <2>1, ClockTyped DEF Clocked
  <2> QED
    BY <1>0, <2>1, <2>2, <2>3 DEF Clocked
<1>6. ASSUME NEW t \in Tasks, Finish(t)
      PROVE  Clocked'
  <2>1. Elsewhere(t)
    BY <1>3, <1>6 DEF Still
  <2>2. CASE Forget(t)
    BY <1>1, <2>1, <2>2 DEF Forget
  <2>3. CASE at[t] = "answered" /\ clock' = clock
    BY <1>2, <2>1, <2>3
  <2> QED
    BY <1>0, <1>6, <2>2, <2>3, Ways
<1>7. ASSUME NEW t \in Tasks,
             Acquire(t) \/ Served(t) \/ Release(t) \/ TimeOut(t) \/ Drop(t)
      PROVE  Clocked'
  <2>1. clock' = clock
    BY <1>7 DEF Acquire, Served, Answer, Release, TimeOut, Drop
  <2>2. \/ at[t] \notin {"waiting", "dropped", "returned"}
        \/ at'[t] = "dropped"
        \/ at'[t] = "returned" /\ result'[t] = "err"
    BY <1>0, <1>7, Ways
  <2> QED
    BY <1>2, <1>3, <1>7, <2>1, <2>2 DEF Still
<1>8. CASE AdmitRead \/ AdmitWrite \/ Rest
  BY <1>0, <1>8 DEF AdmitRead, AdmitWrite, Rest, vars, Clocked
<1>9. CASE Tick
  <2>1. at' = at /\ result' = result
    BY <1>9 DEF Tick
  <2>2. ASSUME NEW t \in Tasks, at[t] = "idle"
        PROVE  clock'[t] = clock[t]
    BY <1>9, <2>2 DEF Tick
  <2>3. ASSUME NEW t \in Tasks, at[t] # "idle"
        PROVE  /\ at[t] \in {"waiting", "busy"}
               /\ clock'[t].life = clock[t].life + 1
               /\ clock'[t].known = clock[t].known
               /\ clock'[t].waiting = clock[t].waiting
                                      + (IF at[t] = "waiting" THEN 1 ELSE 0)
               /\ clock'[t].backend = clock[t].backend
                                      + (IF at[t] = "busy" THEN 1 ELSE 0)
    <3>1. at[t] \in {"waiting", "busy"}
      BY <1>9, <2>3 DEF Tick
    <3>2. clock'[t] =
            [clock[t] EXCEPT !.life = @ + 1,
               !.waiting = IF at[t] = "waiting" THEN @ + 1 ELSE @,
               !.backend = IF at[t] = "busy" THEN @ + 1 ELSE @]
      BY <1>9, <2>3 DEF Tick
    <3>3. clock[t] \in [life : Nat, waiting : Nat, known : Nat, backend : Nat]
      BY <1>0 DEF TypeOK
    <3> QED
      BY <3>1, <3>2, <3>3
  <2>4. ASSUME NEW t \in Tasks
        PROVE  clock'[t].life = clock'[t].waiting + clock'[t].known
                                + clock'[t].backend
    BY <1>0, <2>2, <2>3, ClockTyped DEF Clocked
  <2>5. ASSUME NEW t \in Tasks, clock'[t].waiting > 0
        PROVE  \/ at[t] \in {"waiting", "dropped"}
               \/ at[t] = "returned" /\ result[t] = "err"
    BY <1>0, <2>2, <2>3, <2>5, ClockTyped DEF Clocked
  <2> QED
    BY <2>1, <2>4, <2>5 DEF Clocked
<1> QED
  BY <1>4, <1>5, <1>6, <1>7, <1>8, <1>9 DEF Next, PatientNext, Proceed

LEMMA FramesStep ==
  ASSUME IInv, Next
  PROVE  Frames'
<1>0. Frames
  BY DEF IInv, TypeOK, Frames
<1> USE <1>0 DEF Frames, Goto
<1>1. ASSUME NEW t \in Tasks, NEW o \in Mix, NEW b \in BOOLEAN, Start(t, o, b)
      PROVE  Frames'
  BY <1>1 DEF Start
<1>2. ASSUME NEW t \in Tasks, Acquire(t) \/ Resume(t) \/ Drop(t)
      PROVE  Frames'
  BY <1>2 DEF Acquire, Resume, Drop
<1>3. ASSUME NEW t \in Tasks, NEW r \in {"ok", "err"}, Answer(t, r)
      PROVE  Frames'
  BY <1>3 DEF Answer
<1>4. ASSUME NEW t \in Tasks, TimeOut(t)
      PROVE  Frames'
  BY <1>4 DEF TimeOut
<1>5. ASSUME NEW t \in Tasks, Release(t)
      PROVE  Frames'
  BY <1>5 DEF Release
<1>6. ASSUME NEW t \in Tasks, Forget(t), at' = [at EXCEPT ![t] = "idle"]
      PROVE  Frames'
  BY <1>6 DEF Forget
<1>7. ASSUME NEW t \in Tasks, ReleaseLate(t) \/ DropMetrics(t)
      PROVE  Frames'
  BY <1>6, <1>7 DEF ReleaseLate, DropMetrics
<1>8. ASSUME NEW t \in Tasks, Finish(t)
      PROVE  Frames'
  <2>1. CASE op[t] \notin InlinePermit
    BY <1>6, <1>8, <2>1 DEF Finish, Done
  <2>2. CASE op[t] \in InlinePermit
    BY <1>8, <2>2 DEF Finish
  <2> QED
    BY <2>1, <2>2
<1>9. CASE AdmitRead \/ AdmitWrite \/ Tick \/ Rest
  BY <1>9 DEF AdmitRead, AdmitWrite, Tick, Rest, vars
<1> QED
  BY <1>1, <1>2, <1>3, <1>4, <1>5, <1>7, <1>8, <1>9
  DEF Next, PatientNext, Proceed, Served

\* What record() publishes at the end of an operation.
LEMMA Records ==
  ASSUME TypeOK, Clocked, NEW t \in Tasks, NEW s, Record(t, s)
  PROVE  /\ recorded' = [status |-> s, latency |-> recorded'.latency,
                         queue_wait |-> recorded'.queue_wait,
                         duration |-> recorded'.duration,
                         backend |-> recorded'.backend,
                         untold |-> recorded'.untold]
         /\ recorded'.latency = clock[t].life
         /\ recorded'.queue_wait = clock[t].known
         /\ recorded'.status = s
         /\ recorded'.backend = clock[t].backend
         /\ recorded'.untold = clock[t].waiting
         /\ recorded'.duration = clock[t].backend + clock[t].waiting
         /\ recorded'.latency = recorded'.queue_wait + recorded'.duration
<1>1. clock[t].life - clock[t].known = clock[t].backend + clock[t].waiting
  BY ClockTyped DEF Clocked
<1>2. clock[t].life >= clock[t].known
  BY <1>1, ClockTyped
<1>3. Duration(clock[t]) = clock[t].backend + clock[t].waiting
  BY <1>1, <1>2 DEF Duration
<1>4. clock[t].life = clock[t].known + (clock[t].backend + clock[t].waiting)
  BY <1>1, ClockTyped
<1> QED
  BY <1>3, <1>4 DEF Record

\* The ends of an operation that a metric tells of.
LEMMA FinishCounts ==
  ASSUME IInv, NEW t \in Tasks, Finish(t)
  PROVE  /\ \/ result[t] = "ok" /\ counters' = [counters EXCEPT !.ok = @ + 1]
            \/ result[t] = "err" /\ counters' = [counters EXCEPT !.err = @ + 1]
         /\ Record(t, result[t])
         /\ at[t] \in {"answered", "returned"}
         /\ at' \in {[at EXCEPT ![t] = "idle"], [at EXCEPT ![t] = "finished"]}
<1>1. at[t] \in {"answered", "returned"}
  BY DEF Finish, Goto
<1>2. result[t] \in {"ok", "err"}
  BY <1>1 DEF IInv, Resulted
<1> QED
  BY <1>1, <1>2 DEF Finish, Goto, Done

LEMMA NumbersStep ==
  ASSUME IInv, Next
  PROVE  Numbers'
<1>0. TypeOK /\ Numbers /\ Clocked
  BY DEF IInv, TypeOK, Numbers
<1> USE <1>0
<1>1. ASSUME NEW t \in Tasks, NEW o \in Mix, NEW b \in BOOLEAN, Start(t, o, b)
      PROVE  Numbers'
  <2>1. NewClock \in [life : Nat, waiting : Nat, known : Nat, backend : Nat]
    BY DEF NewClock
  <2>2. counters' \in [total : Nat, ok : Nat, err : Nat, cancelled : Nat]
    BY <1>1 DEF Start, Numbers
  <2> QED
    BY <1>1, <2>1, <2>2 DEF Start, Numbers
<1>2. ASSUME NEW t \in Tasks, Acquire(t) \/ Served(t) \/ Release(t) \/ TimeOut(t)
      PROVE  Numbers'
  BY <1>2 DEF Acquire, Served, Answer, Release, TimeOut, Numbers
<1>3. ASSUME NEW t \in Tasks, Resume(t)
      PROVE  Numbers'
  <2>1. QueueWait(clock[t]) \in Nat
    BY ClockTyped DEF QueueWait
  <2>2. clock[t] \in [life : Nat, waiting : Nat, known : Nat, backend : Nat]
    BY DEF TypeOK
  <2>3. [clock[t] EXCEPT !.known = QueueWait(clock[t]), !.waiting = 0]
          \in [life : Nat, waiting : Nat, known : Nat, backend : Nat]
    BY <2>1, <2>2
  <2>4. clock' = [clock EXCEPT ![t] =
                    [clock[t] EXCEPT !.known = QueueWait(clock[t]), !.waiting = 0]]
    BY <1>3 DEF Resume, TypeOK
  <2> QED
    BY <1>3, <2>3, <2>4 DEF Resume, Numbers
<1>4. ASSUME NEW t \in Tasks, Forget(t) \/ UNCHANGED clock
      PROVE  clock' \in [Tasks -> [life : Nat, waiting : Nat, known : Nat,
                                   backend : Nat]]
  BY <1>4 DEF Forget, NewClock, Numbers
<1>5. ASSUME NEW t \in Tasks, NEW s \in {"ok", "err", "cancelled"}, Record(t, s)
      PROVE  recorded' \in [status : {"none", "ok", "err", "cancelled"},
                            latency : Nat, queue_wait : Nat, duration : Nat,
                            backend : Nat, untold : Nat]
  BY <1>5, Records, ClockTyped
<1>6. ASSUME NEW t \in Tasks, Finish(t)
      PROVE  Numbers'
  <2>1. counters' \in [total : Nat, ok : Nat, err : Nat, cancelled : Nat]
    BY <1>6, FinishCounts DEF Numbers
  <2>2. recorded' \in [status : {"none", "ok", "err", "cancelled"},
                       latency : Nat, queue_wait : Nat, duration : Nat,
                       backend : Nat, untold : Nat]
    BY <1>5, <1>6, FinishCounts
  <2>3. Forget(t) \/ UNCHANGED clock
    BY <1>6 DEF Finish
  <2>4. dropped' = dropped
    BY <1>6 DEF Finish
  <2> QED
    BY <1>4, <2>1, <2>2, <2>3, <2>4 DEF Numbers
<1>7. ASSUME NEW t \in Tasks, DropMetrics(t)
      PROVE  Numbers'
  <2>1. counters' \in [total : Nat, ok : Nat, err : Nat, cancelled : Nat]
    BY <1>7 DEF DropMetrics, Numbers
  <2> QED
    BY <1>4, <1>5, <1>7, <2>1 DEF DropMetrics, Numbers
<1>8. ASSUME NEW t \in Tasks, ReleaseLate(t)
      PROVE  Numbers'
  BY <1>4, <1>8 DEF ReleaseLate, Numbers
<1>9. ASSUME NEW t \in Tasks, Drop(t)
      PROVE  Numbers'
  BY <1>9, ClientAssumption DEF Drop, Numbers
<1>10. CASE Tick
  <2>1. ASSUME NEW t \in Tasks
        PROVE  [clock[t] EXCEPT !.life = @ + 1,
                  !.waiting = IF at[t] = "waiting" THEN @ + 1 ELSE @,
                  !.backend = IF at[t] = "busy" THEN @ + 1 ELSE @]
                 \in [life : Nat, waiting : Nat, known : Nat, backend : Nat]
    <3>1. clock[t] \in [life : Nat, waiting : Nat, known : Nat, backend : Nat]
      BY DEF TypeOK
    <3>2. /\ clock[t].life + 1 \in Nat
          /\ (IF at[t] = "waiting" THEN clock[t].waiting + 1
              ELSE clock[t].waiting) \in Nat
          /\ (IF at[t] = "busy" THEN clock[t].backend + 1 ELSE clock[t].backend) \in Nat
      BY ClockTyped
    <3> QED
      BY <3>1, <3>2
  <2>2. clock' \in [Tasks -> [life : Nat, waiting : Nat, known : Nat, backend : Nat]]
    BY <1>10, <2>1 DEF Tick, Numbers
  <2> QED
    BY <1>10, <2>2 DEF Tick, Numbers
<1>11. CASE AdmitRead \/ AdmitWrite \/ Rest
  BY <1>11 DEF AdmitRead, AdmitWrite, Rest, vars, Numbers
<1> QED
  BY <1>1, <1>2, <1>3, <1>6, <1>7, <1>8, <1>9, <1>10, <1>11
  DEF Next, PatientNext, Proceed

LEMMA TypeStep ==
  ASSUME IInv, Next
  PROVE  TypeOK'
<1>1. Halves' /\ Frames' /\ Numbers'
  BY HalvesStep, FramesStep, NumbersStep
<1> QED
  BY <1>1 DEF TypeOK, Halves, HalfOK, Frames, Numbers

\* The operations that are under way and not yet counted.
Uncounted == {t \in Tasks : at[t] \notin {"idle", "finished"}}

LEMMA UncountedMoves ==
  ASSUME TypeOK, NEW t \in Tasks, \A u \in Tasks : u # t => at'[u] = at[u]
  PROVE  /\ IsFiniteSet(Uncounted) /\ Cardinality(Uncounted) \in Nat
         /\ (t \in Uncounted <=> t \in Uncounted') =>
              Cardinality(Uncounted') = Cardinality(Uncounted)
         /\ (t \notin Uncounted /\ t \in Uncounted') =>
              Cardinality(Uncounted') = Cardinality(Uncounted) + 1
         /\ (t \in Uncounted /\ t \notin Uncounted') =>
              Cardinality(Uncounted') = Cardinality(Uncounted) - 1
<1>1. IsFiniteSet(Tasks) /\ Uncounted \subseteq Tasks
  BY ClientAssumption DEF Uncounted
<1>2. IsFiniteSet(Uncounted)
  BY <1>1, FS_Subset
<1>3. Cardinality(Uncounted) \in Nat
  BY <1>2, FS_CardinalityType
<1>4. \A u \in Tasks : u # t => (u \in Uncounted <=> u \in Uncounted')
  BY DEF Uncounted
<1>5. Uncounted' \subseteq Tasks
  BY DEF Uncounted
<1>6. ASSUME t \in Uncounted <=> t \in Uncounted'
      PROVE  Uncounted' = Uncounted
  BY <1>1, <1>4, <1>5, <1>6
<1>7. ASSUME t \notin Uncounted, t \in Uncounted'
      PROVE  Cardinality(Uncounted') = Cardinality(Uncounted) + 1
  <2>1. Uncounted' = Uncounted \cup {t}
    BY <1>1, <1>4, <1>5, <1>7
  <2> QED
    BY <1>2, <1>7, <2>1, FS_AddElement
<1>8. ASSUME t \in Uncounted, t \notin Uncounted'
      PROVE  Cardinality(Uncounted') = Cardinality(Uncounted) - 1
  <2>1. Uncounted' = Uncounted \ {t}
    BY <1>1, <1>4, <1>5, <1>8
  <2> QED
    BY <1>2, <1>8, <2>1, FS_RemoveElement
<1> QED
  BY <1>2, <1>3, <1>6, <1>7, <1>8

LEMMA CountedStep ==
  ASSUME IInv, Next
  PROVE  EachOperationCountedOnce'
<1>0. /\ TypeOK
      /\ counters.total = counters.ok + counters.err + counters.cancelled
                          + Cardinality(Uncounted)
  BY DEF IInv, EachOperationCountedOnce, Uncounted
<1>1. /\ counters.total \in Nat /\ counters.ok \in Nat /\ counters.err \in Nat
      /\ counters.cancelled \in Nat
  BY <1>0 DEF TypeOK
<1>2. SUFFICES counters'.total = counters'.ok + counters'.err + counters'.cancelled
                                 + Cardinality(Uncounted')
  BY DEF EachOperationCountedOnce, Uncounted
<1>3. ASSUME NEW t \in Tasks, NEW o \in Mix, NEW b \in BOOLEAN, Start(t, o, b)
      PROVE  counters'.total = counters'.ok + counters'.err + counters'.cancelled
                               + Cardinality(Uncounted')
  <2>1. counters' = [counters EXCEPT !.total = counters.total + 1]
    BY <1>3 DEF Start
  <2>2. /\ \A u \in Tasks : u # t => at'[u] = at[u]
        /\ t \notin Uncounted /\ t \in Uncounted'
    BY <1>0, <1>3 DEF Start, Goto, Uncounted, TypeOK
  <2>3. /\ Cardinality(Uncounted') = Cardinality(Uncounted) + 1
        /\ Cardinality(Uncounted) \in Nat
    BY <1>0, <2>2, UncountedMoves
  <2>4. /\ counters'.total = counters.total + 1 /\ counters'.ok = counters.ok
        /\ counters'.err = counters.err /\ counters'.cancelled = counters.cancelled
    BY <1>0, <2>1 DEF TypeOK
  <2> QED
    BY <1>0, <1>1, <2>3, <2>4
<1>4. ASSUME NEW t \in Tasks, Finish(t) \/ DropMetrics(t)
      PROVE  counters'.total = counters'.ok + counters'.err + counters'.cancelled
                               + Cardinality(Uncounted')
  <2>1. \/ counters' = [counters EXCEPT !.ok = counters.ok + 1]
        \/ counters' = [counters EXCEPT !.err = counters.err + 1]
        \/ counters' = [counters EXCEPT !.cancelled = counters.cancelled + 1]
    BY <1>4, FinishCounts DEF DropMetrics
  <2>2. /\ \A u \in Tasks : u # t => at'[u] = at[u]
        /\ t \in Uncounted /\ t \notin Uncounted'
    <3>1. \A u \in Tasks : u # t => at'[u] = at[u]
      BY <1>0, <1>4, OthersWait, TypeHasFrames DEF Still
    <3>2. /\ at[t] \in {"answered", "returned", "dropped"}
          /\ at'[t] \in {"idle", "finished"}
      BY <1>0, <1>4, Ways, TypeHasFrames
    <3> QED
      BY <3>1, <3>2 DEF Uncounted
  <2>3. /\ Cardinality(Uncounted') = Cardinality(Uncounted) - 1
        /\ Cardinality(Uncounted) \in Nat
    BY <1>0, <2>2, UncountedMoves
  <2>4. counters \in [total : Nat, ok : Nat, err : Nat, cancelled : Nat]
    BY <1>0 DEF TypeOK
  <2>5. CASE counters' = [counters EXCEPT !.ok = counters.ok + 1]
    BY <1>0, <1>1, <2>3, <2>4, <2>5
  <2>6. CASE counters' = [counters EXCEPT !.err = counters.err + 1]
    BY <1>0, <1>1, <2>3, <2>4, <2>6
  <2>7. CASE counters' = [counters EXCEPT !.cancelled = counters.cancelled + 1]
    BY <1>0, <1>1, <2>3, <2>4, <2>7
  <2> QED
    BY <2>1, <2>5, <2>6, <2>7
<1>5. ASSUME NEW t \in Tasks, counters' = counters,
             \A u \in Tasks : u # t => at'[u] = at[u],
             t \in Uncounted <=> t \in Uncounted'
      PROVE  counters'.total = counters'.ok + counters'.err + counters'.cancelled
                               + Cardinality(Uncounted')
  BY <1>0, <1>5, UncountedMoves
<1>6. ASSUME NEW t \in Tasks,
             \/ Acquire(t) \/ Resume(t) \/ Served(t) \/ Release(t)
             \/ ReleaseLate(t) \/ TimeOut(t) \/ Drop(t)
      PROVE  counters'.total = counters'.ok + counters'.err + counters'.cancelled
                               + Cardinality(Uncounted')
  <2>1. counters' = counters
    BY <1>6 DEF Acquire, Resume, Served, Answer, Release, ReleaseLate, TimeOut, Drop
  <2>2. \A u \in Tasks : u # t => at'[u] = at[u]
    BY <1>0, <1>6, OthersWait, TypeHasFrames DEF Still
  <2>3. t \in Uncounted <=> t \in Uncounted'
    BY <1>0, <1>6, Ways, TypeHasFrames DEF Uncounted
  <2> QED
    BY <1>5, <2>1, <2>2, <2>3
<1>7. CASE AdmitRead \/ AdmitWrite \/ Tick \/ Rest
  BY <1>0, <1>7 DEF AdmitRead, AdmitWrite, Tick, Rest, vars, Uncounted
<1> QED
  BY <1>3, <1>4, <1>6, <1>7 DEF Next, PatientNext, Proceed

LEMMA DurationStep ==
  ASSUME IInv, Next
  PROVE  DurationCountsTheLostWait'
<1>0. TypeOK /\ Clocked /\ DurationCountsTheLostWait
  BY DEF IInv
<1>1. ASSUME NEW t \in Tasks, Finish(t)
      PROVE  DurationCountsTheLostWait'
  <2>1. Record(t, result[t]) /\ at[t] \in {"answered", "returned"}
    BY <1>1, FinishCounts
  <2>2. result[t] = "ok" => clock[t].waiting = 0
    BY <1>0, <2>1, ClockTyped DEF Clocked
  <2> QED
    BY <1>0, <2>1, <2>2, Records DEF DurationCountsTheLostWait
<1>2. ASSUME NEW t \in Tasks, DropMetrics(t)
      PROVE  DurationCountsTheLostWait'
  BY <1>0, <1>2, Records DEF DropMetrics, DurationCountsTheLostWait
<1>3. CASE UNCHANGED recorded
  BY <1>0, <1>3 DEF DurationCountsTheLostWait
<1> QED
  BY <1>1, <1>2, <1>3
  DEF Next, PatientNext, Proceed, Served, Start, Acquire, Resume, Answer, Release,
      ReleaseLate, TimeOut, Drop, Tick, AdmitRead, AdmitWrite, Rest, vars

-----------------------------------------------------------------------------
(* The theorems *)

LEMMA Initially ==
  ASSUME Init
  PROVE  IInv
<1>0. ReadConnections \in Nat /\ WriteConnections \in Nat /\ MaxDrops \in Nat
  BY ClientAssumption
<1>1. /\ rline = << >> /\ wline = << >>
      /\ rask = [t \in Tasks |-> 0] /\ rheld = [t \in Tasks |-> 0]
      /\ wask = [t \in Tasks |-> 0] /\ wheld = [t \in Tasks |-> 0]
  BY DEF Init, Read!FifoInit, Write!FifoInit
<1>2. Halves
  BY <1>0, <1>1 DEF Halves, HalfOK
<1>3. Frames
  BY DEF Init, Frames
<1>4. Numbers
  BY <1>0 DEF Init, Numbers, NewClock, NoRecord
<1>5. TypeOK
  BY <1>2, <1>3, <1>4 DEF TypeOK, Halves, HalfOK, Frames, Numbers
<1>6. Placed /\ Resulted
  BY <1>1 DEF Init, Placed, Resulted
<1>7. Clocked
  BY DEF Init, Clocked, NewClock
<1>8. EachOperationCountedOnce
  <2>1. {t \in Tasks : at[t] \notin {"idle", "finished"}} = {}
    BY DEF Init
  <2> QED
    BY <2>1, FS_EmptySet DEF Init, EachOperationCountedOnce
<1>9. DurationCountsTheLostWait
  BY DEF Init, DurationCountsTheLostWait, NoRecord
<1> QED
  BY <1>2, <1>5, <1>6, <1>7, <1>8, <1>9 DEF IInv

LEMMA Kept ==
  ASSUME IInv, [Next]_vars
  PROVE  IInv'
<1>1. CASE Next
  BY <1>1, TypeStep, HalvesStep, PlacedStep, ResultedStep, ClockedStep,
     CountedStep, DurationStep DEF IInv
<1>2. CASE UNCHANGED vars
  <2>1. TypeOK'
    BY <1>2 DEF vars, IInv, TypeOK
  <2>2. Halves' /\ Placed' /\ Resulted'
    BY <1>2 DEF vars, IInv, Halves, Placed, Reading, Resulted
  <2>3. Clocked' /\ EachOperationCountedOnce' /\ DurationCountsTheLostWait'
    BY <1>2 DEF vars, IInv, Clocked, EachOperationCountedOnce, DurationCountsTheLostWait
  <2> QED
    BY <2>1, <2>2, <2>3 DEF IInv
<1> QED
  BY <1>1, <1>2

\* The strengthened invariant holds in every state of the client.
THEOREM Inductive == Spec => []IInv
BY Initially, Kept, PTL DEF Spec

\* Type correctness: no variable of the client leaves its type.
THEOREM TypeCorrect == Spec => []TypeOK
<1>1. IInv => TypeOK
  BY DEF IInv
<1> QED
  BY Inductive, <1>1, PTL

\* Whichever way operations end, by return, `?`, a timeout or a drop, each is
\* counted once, as ok, err or cancelled.
THEOREM CountedOnce == Spec => []EachOperationCountedOnce
<1>1. IInv => EachOperationCountedOnce
  BY DEF IInv
<1> QED
  BY Inductive, <1>1, PTL

\* No task queues in either half with a permit of either half in its hands.
THEOREM EmptyHanded == Spec => []NoHoldAndWait
<1>1. ASSUME IInv
      PROVE  NoHoldAndWait
  <2>1. ASSUME NEW t \in Tasks
        PROVE  /\ rheld[t] = 0 \/ (rheld[t] = rask[t] /\ rheld[t] > 0)
               /\ wheld[t] = 0 \/ (wheld[t] = wask[t] /\ wheld[t] > 0)
    <3>1. ReadConnections \in Nat /\ WriteConnections \in Nat
      BY ClientAssumption
    <3>2. /\ rheld[t] \in 0 .. ReadConnections
          /\ wheld[t] \in 0 .. WriteConnections
      BY <1>1 DEF IInv, Halves, HalfOK
    <3>3. /\ rheld[t] = 0 \/ rheld[t] = rask[t]
          /\ wheld[t] = 0 \/ wheld[t] = wask[t]
      BY <1>1 DEF IInv, Halves, HalfOK
    <3>4. rheld[t] = 0 \/ rheld[t] > 0
      BY <3>1, <3>2
    <3>5. wheld[t] = 0 \/ wheld[t] > 0
      BY <3>1, <3>2
    <3> QED
      BY <3>3, <3>4, <3>5, Zenon
  <2>2. ASSUME NEW t \in Tasks, at[t] = "acquire"
        PROVE  rheld[t] = 0 /\ wheld[t] = 0
    BY <1>1, <2>1, <2>2 DEF IInv, Placed
  <2>3. ASSUME NEW t \in Tasks, ~Holds(t)
        PROVE  rheld[t] = 0 /\ wheld[t] = 0
    BY <1>1, <2>1, <2>3 DEF IInv, Placed, Holds
  <2> QED
    BY <2>2, <2>3 DEF NoHoldAndWait
<1> QED
  BY Inductive, <1>1, PTL

\* An operation that is over, also one dropped at an await or refused in line,
\* has no permit and no place in line.
THEOREM AllGivenBack == Spec => []NothingLeftBehind
<1>1. ASSUME IInv
      PROVE  NothingLeftBehind
  <2>1. ASSUME NEW t \in Tasks, at[t] \in {"idle", "returned", "dropped"}
        PROVE  rask[t] = 0 /\ wask[t] = 0 /\ rheld[t] = 0 /\ wheld[t] = 0
    BY <1>1, <2>1 DEF IInv, Placed, Halves, HalfOK
  <2>2. ASSUME NEW t \in Tasks, rask[t] = 0, wask[t] = 0
        PROVE  /\ t \notin {rline[i] : i \in 1 .. Len(rline)}
               /\ t \notin {wline[i] : i \in 1 .. Len(wline)}
    <3>1. /\ \A i \in 1 .. Len(rline) : rask[rline[i]] > 0
          /\ \A i \in 1 .. Len(wline) : wask[wline[i]] > 0
      BY <1>1 DEF IInv, Halves, HalfOK
    <3>2. ~(0 > 0)
      OBVIOUS
    <3>3. ASSUME NEW i \in 1 .. Len(rline), rline[i] = t
          PROVE  FALSE
      BY <2>2, <3>1, <3>2, <3>3
    <3>4. ASSUME NEW i \in 1 .. Len(wline), wline[i] = t
          PROVE  FALSE
      BY <2>2, <3>1, <3>2, <3>4
    <3> QED
      BY <3>3, <3>4
  <2> QED
    BY <2>1, <2>2 DEF NothingLeftBehind
<1> QED
  BY Inductive, <1>1, PTL

\* Latency, queue wait and duration add up, and the duration that is recorded is
\* the time with permits, however often the operation queued and however it
\* ended, with nothing added but the last wait of one refused or dropped in line.
THEOREM DurationsAddUp == Spec => []DurationCountsTheLostWait
<1>1. IInv => DurationCountsTheLostWait
  BY DEF IInv
<1> QED
  BY Inductive, <1>1, PTL

-----------------------------------------------------------------------------
(* The halves of the pool: what the client asks of the contract *)

\* A step of both halves, or of one, or of none.
PoolStep ==
  /\ [Read!FifoNext]_(Read!fifoVars)
  /\ [Write!FifoNext]_(Write!fifoVars)

\* A step of the client is a step of its contract for each half, or none.
LEMMA StepsOfThePool ==
  ASSUME TypeOK, [Next]_vars
  PROVE  PoolStep
<1>1. ASSUME UNCHANGED <<readPool, writePool>> PROVE PoolStep
  BY <1>1 DEF readPool, writePool, Read!fifoVars, Write!fifoVars, PoolStep
<1>2. ASSUME NEW t \in Tasks, Arrive(t) PROVE PoolStep
  <2>1. CASE Reading(t)
    <3>1. Read!Arrive(t, Need(t)) /\ UNCHANGED writePool
      BY <1>2, <2>1 DEF Arrive
    <3>2. Need(t) \in 1 .. ReadConnections
      BY <2>1, Sizes
    <3> QED
      BY <3>1, <3>2 DEF Read!FifoNext, writePool, Write!fifoVars, PoolStep
  <2>2. CASE ~Reading(t)
    <3>1. Write!Arrive(t, Need(t)) /\ UNCHANGED readPool
      BY <1>2, <2>2 DEF Arrive
    <3>2. Need(t) \in 1 .. WriteConnections
      BY <2>2, Sizes
    <3> QED
      BY <3>1, <3>2 DEF Write!FifoNext, readPool, Read!fifoVars, PoolStep
  <2> QED
    BY <2>1, <2>2
<1>3. ASSUME NEW t \in Tasks, Return(t) \/ GiveUp(t) PROVE PoolStep
  <2>1. CASE Reading(t)
    BY <1>3, <2>1
       DEF PoolStep, Return, GiveUp, Read!FifoNext, writePool, Write!fifoVars
  <2>2. CASE ~Reading(t)
    BY <1>3, <2>2
       DEF PoolStep, Return, GiveUp, Write!FifoNext, readPool, Read!fifoVars
  <2> QED
    BY <2>1, <2>2
<1>4. ASSUME NEW t \in Tasks, Still(t) PROVE PoolStep
  BY <1>1, <1>4, StillIsStill
<1>5. ASSUME NEW t \in Tasks, Acquire(t) PROVE PoolStep
  BY <1>2, <1>5 DEF Acquire
<1>6. ASSUME NEW t \in Tasks,
             Release(t) \/ ReleaseLate(t) \/ TimeOut(t) \/ Drop(t)
      PROVE  PoolStep
  <2>1. Return(t) \/ GiveUp(t)
    BY <1>6, ReleaseReturns DEF ReleaseLate, TimeOut, Drop
  <2> QED
    BY <1>3, <2>1
<1>7. CASE AdmitRead \/ AdmitWrite
  BY <1>7 DEF AdmitRead, AdmitWrite, Read!FifoNext, Write!FifoNext,
              readPool, writePool, Read!fifoVars, Write!fifoVars, PoolStep
<1>8. CASE Tick \/ Rest \/ UNCHANGED vars
  <2>1. UNCHANGED <<readPool, writePool>>
    BY <1>8 DEF Tick, Rest, vars, readPool, writePool
  <2> QED
    BY <1>1, <2>1
<1>9. CASE Next
  BY <1>4, <1>5, <1>6, <1>7, <1>8, <1>9 DEF Next, PatientNext, Proceed, Still
<1> QED
  BY <1>8, <1>9

\* No more permits are in use than the half has connections.
NoOverbooking == Read!Free >= 0 /\ Write!Free >= 0

LEMMA FreeIsLeft ==
  /\ Read!Free = ReadConnections - Total(rheld)
  /\ Write!Free = WriteConnections - Total(wheld)
  /\ (Read!Free)' = ReadConnections - Total(rheld')
  /\ (Write!Free)' = WriteConnections - Total(wheld')
BY DEF Read!Free, Write!Free, Read!Total, Write!Total, Read!UnitsOf,
       Write!UnitsOf, Read!Cardinality, Write!Cardinality, Cardinality,
       Total, UnitsOf

\* A grant takes no more than is left; a return only gives back.
LEMMA GrantFits ==
  ASSUME NEW capacity \in Nat, NEW held \in [Tasks -> 0 .. capacity],
         NEW t \in Tasks, NEW n \in 0 .. capacity,
         n = 0 \/ n <= capacity - Total(held)
  PROVE  Total(held) <= capacity => Total([held EXCEPT ![t] = n]) <= capacity
<1> DEFINE g == [held EXCEPT ![t] = n]
<1>1. /\ g \in [Tasks -> 0 .. capacity] /\ g[t] = n
      /\ \A u \in Tasks : u # t => g[u] = held[u]
  OBVIOUS
<1>2. IsFiniteSet(Tasks)
  BY ClientAssumption
<1> HIDE DEF g
<1>3. Total(g) = Total(held) - held[t] + n
  BY <1>1, <1>2, TotalUpdate
<1>4. Total(held) \in Nat /\ held[t] \in 0 .. capacity
  BY <1>2, UnitsFinite
<1> QED
  BY <1>3, <1>4 DEF g

LEMMA ReadFits ==
  ASSUME TypeOK, Halves', Read!Free >= 0, [Read!FifoNext]_(Read!fifoVars)
  PROVE  (Read!Free >= 0)'
<1> DEFINE n == ReadConnections
<1>1. /\ n \in Nat /\ rheld \in [Tasks -> 0 .. n] /\ rheld' \in [Tasks -> 0 .. n]
      /\ rline \in Seq(Tasks) /\ rask \in [Tasks -> 0 .. n]
      /\ IsFiniteSet(Tasks)
  BY ClientAssumption DEF TypeOK, Halves, HalfOK
<1>2. Total(rheld) \in Nat /\ Total(rheld') \in Nat
  BY <1>1, UnitsFinite
<1>3. Read!Free = n - Total(rheld) /\ (Read!Free)' = n - Total(rheld')
  BY FreeIsLeft
<1>4. Total(rheld) <= n
  BY <1>1, <1>2, <1>3
<1>5. ASSUME NEW t \in Tasks, NEW k \in 0 .. n, k = 0 \/ k <= Read!Free,
             rheld' = [rheld EXCEPT ![t] = k]
      PROVE  Total(rheld') <= n
  BY <1>1, <1>3, <1>4, <1>5, GrantFits
<1> HIDE DEF n
<1>6. ASSUME NEW t \in Tasks, NEW k \in 1 .. n, Read!Arrive(t, k)
      PROVE  Total(rheld') <= n
  <2>1. \/ rheld' = rheld
        \/ k <= Read!Free /\ rheld' = [rheld EXCEPT ![t] = k]
    BY <1>6 DEF Read!Arrive
  <2> QED
    BY <1>1, <1>4, <1>5, <2>1
<1>7. ASSUME Read!Admit
      PROVE  Total(rheld') <= n
  <2> DEFINE h == Head(rline)
  <2>1. /\ rline # << >> /\ rask[h] <= Read!Free
        /\ rheld' = [rheld EXCEPT ![h] = rask[h]]
    BY <1>7 DEF Read!Admit
  <2>2. h \in Tasks
    BY <1>1, <2>1
  <2> HIDE DEF h
  <2> QED
    BY <1>1, <1>5, <2>1, <2>2
<1>8. ASSUME NEW t \in Tasks, Read!Abandon(t) \/ Read!Return(t)
      PROVE  Total(rheld') <= n
  <2>1. rheld' = rheld \/ rheld' = [rheld EXCEPT ![t] = 0]
    BY <1>8 DEF Read!Abandon, Read!Return
  <2> QED
    BY <1>1, <1>4, <1>5, <2>1
<1>9. Total(rheld') <= n
  <2>1. CASE Read!FifoNext
    BY <1>6, <1>7, <1>8, <2>1 DEF Read!FifoNext, n
  <2>2. CASE UNCHANGED Read!fifoVars
    BY <1>4, <2>2 DEF Read!fifoVars
  <2> QED
    BY <2>1, <2>2
<1> QED
  BY <1>1, <1>2, <1>3, <1>9

LEMMA WriteFits ==
  ASSUME TypeOK, Halves', Write!Free >= 0, [Write!FifoNext]_(Write!fifoVars)
  PROVE  (Write!Free >= 0)'
<1> DEFINE n == WriteConnections
<1>1. /\ n \in Nat /\ wheld \in [Tasks -> 0 .. n] /\ wheld' \in [Tasks -> 0 .. n]
      /\ wline \in Seq(Tasks) /\ wask \in [Tasks -> 0 .. n]
      /\ IsFiniteSet(Tasks)
  BY ClientAssumption DEF TypeOK, Halves, HalfOK
<1>2. Total(wheld) \in Nat /\ Total(wheld') \in Nat
  BY <1>1, UnitsFinite
<1>3. Write!Free = n - Total(wheld) /\ (Write!Free)' = n - Total(wheld')
  BY FreeIsLeft
<1>4. Total(wheld) <= n
  BY <1>1, <1>2, <1>3
<1>5. ASSUME NEW t \in Tasks, NEW k \in 0 .. n, k = 0 \/ k <= Write!Free,
             wheld' = [wheld EXCEPT ![t] = k]
      PROVE  Total(wheld') <= n
  BY <1>1, <1>3, <1>4, <1>5, GrantFits
<1> HIDE DEF n
<1>6. ASSUME NEW t \in Tasks, NEW k \in 1 .. n, Write!Arrive(t, k)
      PROVE  Total(wheld') <= n
  <2>1. \/ wheld' = wheld
        \/ k <= Write!Free /\ wheld' = [wheld EXCEPT ![t] = k]
    BY <1>6 DEF Write!Arrive
  <2> QED
    BY <1>1, <1>4, <1>5, <2>1
<1>7. ASSUME Write!Admit
      PROVE  Total(wheld') <= n
  <2> DEFINE h == Head(wline)
  <2>1. /\ wline # << >> /\ wask[h] <= Write!Free
        /\ wheld' = [wheld EXCEPT ![h] = wask[h]]
    BY <1>7 DEF Write!Admit
  <2>2. h \in Tasks
    BY <1>1, <2>1
  <2> HIDE DEF h
  <2> QED
    BY <1>1, <1>5, <2>1, <2>2
<1>8. ASSUME NEW t \in Tasks, Write!Abandon(t) \/ Write!Return(t)
      PROVE  Total(wheld') <= n
  <2>1. wheld' = wheld \/ wheld' = [wheld EXCEPT ![t] = 0]
    BY <1>8 DEF Write!Abandon, Write!Return
  <2> QED
    BY <1>1, <1>4, <1>5, <2>1
<1>9. Total(wheld') <= n
  <2>1. CASE Write!FifoNext
    BY <1>6, <1>7, <1>8, <2>1 DEF Write!FifoNext, n
  <2>2. CASE UNCHANGED Write!fifoVars
    BY <1>4, <2>2 DEF Write!fifoVars
  <2> QED
    BY <2>1, <2>2
<1> QED
  BY <1>1, <1>2, <1>3, <1>9

\* The operations never hold more permits than a half of the pool has
\* connections, however bulk and single requests, timeouts and drops fall.
THEOREM NeverOverbooked == Spec => []NoOverbooking
<1>1. Init => NoOverbooking
  <2> SUFFICES ASSUME Init PROVE NoOverbooking
    OBVIOUS
  <2>1. rheld \in [Tasks -> {0}] /\ wheld \in [Tasks -> {0}]
    BY DEF Init, Read!FifoInit, Write!FifoInit
  <2>2. Total(rheld) = 0 /\ Total(wheld) = 0
    BY <2>1, TotalZero
  <2> QED
    BY <2>2, FreeIsLeft, ClientAssumption DEF NoOverbooking
<1>2. NoOverbooking /\ IInv /\ IInv' /\ [Next]_vars => NoOverbooking'
  BY StepsOfThePool, ReadFits, WriteFits DEF NoOverbooking, IInv, PoolStep
<1> QED
  BY <1>1, <1>2, Inductive, PTL DEF Spec
=============================================================================
