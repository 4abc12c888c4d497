--------------------------- MODULE HalfPoolProofs ---------------------------
(***************************************************************************)
(* The safety of HalfPool for every set of callers, capacity, set of       *)
(* request sizes and number of cancellations.                              *)
(***************************************************************************)
EXTENDS HalfPool, TotalsProofs, SequenceTheorems

-----------------------------------------------------------------------------
(* The inductive invariant *)

\* A caller has asked for something exactly while it is in a call.
Asking ==
  \A c \in Callers : IF pc[c] = "idle" THEN want[c] = 0 ELSE want[c] \in Sizes

\* A caller owns nothing before it joins the line and after it left with
\* nothing, the whole request once granted; one that waits owns it all as soon
\* as the dealer took it out of the line, and not before.
Owned ==
  \A c \in Callers :
    /\ pc[c] \in Owning => got[c] = want[c]
    /\ pc[c] \in {"waiting", "elapsed"} =>
         IF InLine(c) THEN got[c] < want[c] ELSE got[c] = want[c]
    /\ pc[c] \notin Owning \cup {"waiting", "elapsed"} => got[c] = 0

\* The wait list holds callers that wait, each once.
LineOK ==
  /\ \A i \in 1 .. Len(waiters) : pc[waiters[i]] \in {"waiting", "elapsed"}
  /\ \A i, j \in 1 .. Len(waiters) : waiters[i] = waiters[j] => i = j

\* `active` is the permits of the callers between fetch_add and fetch_sub.
CountedPermits ==
  [c \in Callers |-> IF pc[c] \in Counted THEN want[c] ELSE 0]
ActiveCounts == active = Total(CountedPermits)

\* Between fetch_sub and the gauge a caller remembers no less than it returns.
RegOK == \A c \in Callers : pc[c] = "uncounted" => reg[c] >= want[c]

IInv ==
  /\ TypeOK
  /\ Asking
  /\ Owned
  /\ LineOK
  /\ PermitsConserved
  /\ ActiveCounts
  /\ RegOK
  /\ QueuedCountsCallsAndCancels
  /\ OnlyTheHeadAccumulates

-----------------------------------------------------------------------------
(* The wait list without a caller *)

\* Without keeps the others, each once, in an order that only moves up.
LEMMA WithoutFacts ==
  ASSUME NEW S, NEW s \in Seq(S), NEW c,
         \A i, j \in 1 .. Len(s) : s[i] = s[j] => i = j
  PROVE  LET w == Without(s, c) IN
         /\ w \in Seq(S)
         /\ \A k \in 1 .. Len(w) :
              w[k] # c /\ \E j \in 1 .. Len(s) : j >= k /\ w[k] = s[j]
         /\ \A k, l \in 1 .. Len(w) : w[k] = w[l] => k = l
         /\ \A i \in 1 .. Len(s) :
              s[i] # c => \E k \in 1 .. Len(w) : w[k] = s[i]
<1> DEFINE w == Without(s, c)
<1>1. CASE ~ \E i \in 1 .. Len(s) : s[i] = c
  <2>1. w = s
    BY <1>1 DEF Without
  <2> QED
    BY <1>1, <2>1
<1>2. CASE \E i \in 1 .. Len(s) : s[i] = c
  <2> DEFINE i == CHOOSE j \in 1 .. Len(s) : s[j] = c
             f(j) == IF j < i THEN s[j] ELSE s[j + 1]
  <2>1. i \in 1 .. Len(s) /\ s[i] = c
    BY <1>2
  <2>2. w = [j \in 1 .. (Len(s) - 1) |-> f(j)]
    BY <1>2 DEF Without
  <2> HIDE DEF i, w
  <2>3. Len(s) - 1 \in Nat
    BY <2>1
  <2>4. \A j \in 1 .. (Len(s) - 1) : f(j) \in S
    BY <2>1, ElementOfSeq
  <2>5. w \in Seq(S) /\ Len(w) = Len(s) - 1
    BY <2>2, <2>3, <2>4
  <2>6. ASSUME NEW k \in 1 .. Len(w)
        PROVE  w[k] # c /\ \E j \in 1 .. Len(s) : j >= k /\ w[k] = s[j]
    <3>1. w[k] = f(k)
      BY <2>2, <2>5
    <3>2. CASE k < i
      BY <2>1, <2>5, <3>1, <3>2
    <3>3. CASE ~ (k < i)
      BY <2>1, <2>5, <3>1, <3>3
    <3> QED
      BY <3>2, <3>3
  <2>7. \A k, l \in 1 .. Len(w) : w[k] = w[l] => k = l
    BY <2>1, <2>2, <2>5
  <2>8. ASSUME NEW j \in 1 .. Len(s), s[j] # c
        PROVE  \E k \in 1 .. Len(w) : w[k] = s[j]
    <3>1. CASE j < i
      BY <2>1, <2>2, <2>5, <3>1
    <3>2. CASE j > i
      <4>1. j - 1 \in 1 .. Len(w) /\ w[j - 1] = s[j]
        BY <2>1, <2>2, <2>5, <3>2
      <4> QED
        BY <4>1
    <3> QED
      BY <2>1, <2>8, <3>1, <3>2
  <2> QED
    BY <2>5, <2>6, <2>7, <2>8 DEF w
<1> QED
  BY <1>1, <1>2

\* Out of the line go the caller and nobody else.
LEMMA UnlinkFacts ==
  ASSUME IInv, NEW c \in Callers, Unlink(c)
  PROVE  /\ waiters' \in Seq(Callers)
         /\ ~InLine(c)'
         /\ \A d \in Callers : d # c => (InLine(d)' <=> InLine(d))
         /\ \A i \in 1 .. Len(waiters') :
              \E j \in 1 .. Len(waiters) : j >= i /\ waiters'[i] = waiters[j]
         /\ \A i, j \in 1 .. Len(waiters') : waiters'[i] = waiters'[j] => i = j
<1>1. waiters \in Seq(Callers)
  BY DEF IInv, TypeOK
<1>2. \A i, j \in 1 .. Len(waiters) : waiters[i] = waiters[j] => i = j
  BY DEF IInv, LineOK
<1> DEFINE w == Without(waiters, c)
<1> HIDE DEF w
<1>3. waiters' = w
  BY DEF Unlink, w
<1>4. /\ w \in Seq(Callers)
      /\ \A k \in 1 .. Len(w) :
           w[k] # c /\ \E j \in 1 .. Len(waiters) : j >= k /\ w[k] = waiters[j]
      /\ \A k, l \in 1 .. Len(w) : w[k] = w[l] => k = l
      /\ \A i \in 1 .. Len(waiters) :
           waiters[i] # c => \E k \in 1 .. Len(w) : w[k] = waiters[i]
  BY <1>1, <1>2, WithoutFacts DEF w
<1>5. /\ ~InLine(c)'
      /\ \A d \in Callers : d # c => (InLine(d)' <=> InLine(d))
  <2>1. InLine(c)' <=> \E i \in 1 .. Len(w) : w[i] = c
    BY <1>3 DEF InLine
  <2>2. ~InLine(c)'
    BY <1>4, <2>1
  <2>3. ASSUME NEW d \in Callers, d # c PROVE InLine(d)' <=> InLine(d)
    <3>1. InLine(d)' <=> \E i \in 1 .. Len(w) : w[i] = d
      BY <1>3 DEF InLine
    <3>2. ASSUME NEW i \in 1 .. Len(w), w[i] = d PROVE InLine(d)
      BY <1>4, <3>2 DEF InLine
    <3>3. ASSUME NEW i \in 1 .. Len(waiters), waiters[i] = d
          PROVE  \E k \in 1 .. Len(w) : w[k] = d
      BY <1>4, <2>3, <3>3
    <3> QED
      BY <3>1, <3>2, <3>3 DEF InLine
  <2> QED
    BY <2>2, <2>3
<1> QED
  BY <1>3, <1>4, <1>5, Zenon

\* The ranges the constants' assumption leaves.
LEMMA Ranges ==
  ASSUME IInv
  PROVE  /\ Capacity \in Nat
         /\ Total(got) \in Nat
         /\ \A n \in Sizes : n \in 1 .. Capacity
         /\ \A c \in Callers :
              /\ got[c] \in 0 .. Capacity
              /\ want[c] \in 0 .. Capacity
              /\ pc[c] # "idle" => want[c] \in 1 .. Capacity
              /\ pc[c] = "idle" => want[c] = 0
<1>1. /\ IsFiniteSet(Callers) /\ Capacity \in Nat
      /\ \A n \in Sizes : n \in 1 .. Capacity
      /\ got \in [Callers -> 0 .. Capacity]
  BY PoolAssumption DEF IInv, TypeOK
<1>2. Total(got) \in Nat
  BY <1>1, UnitsFinite
<1>3. \A c \in Callers : IF pc[c] = "idle" THEN want[c] = 0 ELSE want[c] \in Sizes
  BY DEF IInv, Asking
<1> QED
  BY <1>1, <1>2, <1>3

\* DealToHead with its local definitions as parameters.
DealtToHead(h, need) ==
  /\ spare > 0
  /\ UNCHANGED <<permits, want, active, queued, activeGauge, queuedGauge, pc,
                 reg, cancelled>>
  /\ \/ /\ spare >= need
        /\ got' = [got EXCEPT ![h] = want[h]]
        /\ spare' = spare - need
        /\ waiters' = Tail(waiters)
     \/ /\ ~ (spare >= need)
        /\ got' = [got EXCEPT ![h] = got[h] + spare]
        /\ spare' = 0
        /\ waiters' = waiters

\* The caller the dealer serves waits first in line and still needs something.
LEMMA DealFacts ==
  ASSUME IInv, DealToHead, NEW h, h = Head(waiters)
  PROVE  /\ h \in Callers /\ h = waiters[1] /\ InLine(h)
         /\ Len(waiters) \in Nat \ {0}
         /\ Tail(waiters) \in Seq(Callers)
         /\ Len(Tail(waiters)) = Len(waiters) - 1
         /\ \A i \in 1 .. Len(Tail(waiters)) : Tail(waiters)[i] = waiters[i + 1]
         /\ pc[h] \in {"waiting", "elapsed"}
         /\ want[h] \in 0 .. Capacity /\ got[h] \in 0 .. Capacity
         /\ want[h] - got[h] \in 1 .. Capacity
         /\ DealtToHead(h, want[h] - got[h])
<1>1. waiters \in Seq(Callers) /\ waiters # << >>
  BY DEF IInv, TypeOK, DealToHead
<1>2. /\ h \in Callers /\ h = waiters[1]
      /\ Len(waiters) \in Nat \ {0}
      /\ Tail(waiters) \in Seq(Callers)
      /\ Len(Tail(waiters)) = Len(waiters) - 1
      /\ \A i \in 1 .. Len(Tail(waiters)) : Tail(waiters)[i] = waiters[i + 1]
  BY <1>1, HeadTailProperties
<1>3. InLine(h) /\ pc[h] \in {"waiting", "elapsed"}
  BY <1>2 DEF InLine, IInv, LineOK
<1>4. want[h] \in 0 .. Capacity /\ got[h] \in 0 .. Capacity /\ Capacity \in Nat
  BY <1>2, Ranges
<1>5. got[h] < want[h]
  BY <1>2, <1>3 DEF IInv, Owned
<1>6. DealtToHead(h, want[h] - got[h])
  BY DEF DealToHead, DealtToHead
<1>7. want[h] - got[h] \in 1 .. Capacity
  BY <1>4, <1>5
<1> QED
  BY <1>2, <1>3, <1>4, <1>6, <1>7

-----------------------------------------------------------------------------
(* One lemma per conjunct of the invariant, one step per action *)

\* Every action leaves every variable in its type; `permits` and `spare` stay
\* within the capacity because the permits are conserved.
LEMMA TypeStep ==
  ASSUME IInv, Next
  PROVE  TypeOK'
<1>0. TypeOK
  BY DEF IInv
<1> USE <1>0 DEF TypeOK, Goto, Steps, Queueing, Owning, semaphore
<1>1. ASSUME NEW c \in Callers, NEW n \in Sizes, Enter(c, n)
      PROVE  TypeOK'
  BY <1>1 DEF Enter
<1>2. ASSUME NEW c \in Callers, LoadQueued(c)
      PROVE  TypeOK'
  BY <1>2 DEF LoadQueued
<1>3. ASSUME NEW c \in Callers, ShowEntered(c)
      PROVE  TypeOK'
  BY <1>3 DEF ShowEntered
<1>4. ASSUME NEW c \in Callers, PollReady(c)
      PROVE  TypeOK'
  BY <1>4, Ranges DEF PollReady
<1>5. ASSUME NEW c \in Callers, PollPending(c)
      PROVE  TypeOK'
  <2>1. waiters' \in Seq(Callers)
    BY <1>5, AppendProperties DEF PollPending
  <2>2. got' \in [Callers -> 0 .. Capacity] /\ permits' \in 0 .. Capacity
    BY <1>5, PoolAssumption DEF PollPending
  <2>3. pc' \in [Callers -> Steps]
    BY <1>5 DEF PollPending
  <2> QED
    BY <1>5, <2>1, <2>2, <2>3 DEF PollPending
<1>6. ASSUME NEW c \in Callers, Repoll(c)
      PROVE  TypeOK'
  BY <1>6 DEF Repoll
<1>7. ASSUME NEW c \in Callers, Elapse(c)
      PROVE  TypeOK'
  BY <1>7 DEF Elapse
<1>8. ASSUME NEW c \in Callers, DropWaiter(c)
      PROVE  TypeOK'
  <2>1. waiters' \in Seq(Callers)
    BY <1>8, UnlinkFacts DEF DropWaiter
  <2> QED
    BY <1>8, <2>1, Ranges DEF DropWaiter, Unlink
<1>9. ASSUME NEW c \in Callers, Cancel(c)
      PROVE  TypeOK'
  <2>1. waiters' \in Seq(Callers)
    BY <1>9, UnlinkFacts DEF Cancel
  <2> QED
    BY <1>9, <2>1, PoolAssumption DEF Cancel, Unlink
<1>10. ASSUME NEW c \in Callers, Leave(c)
       PROVE  TypeOK'
  <2>1. CASE Goto(c, "granted", "leaving_ok")
    BY <1>10, <2>1 DEF Leave
  <2>2. CASE Goto(c, "refused", "leaving_err")
    BY <1>10, <2>2 DEF Leave
  <2> QED
    BY <1>10, <2>1, <2>2 DEF Leave
<1>11. ASSUME NEW c \in Callers, Admitted(c) \/ TimedOut(c)
       PROVE  TypeOK'
  <2>1. CASE Admitted(c)
    BY <2>1 DEF Admitted, ShowLeft
  <2>2. CASE TimedOut(c)
    BY <2>2 DEF TimedOut, ShowLeft
  <2> QED
    BY <1>11, <2>1, <2>2
<1>12. ASSUME NEW c \in Callers, CountActive(c)
       PROVE  TypeOK'
  <2>1. pc' \in [Callers -> Steps]
    BY <1>12 DEF CountActive
  <2>2. active + want[c] \in Int
    BY <1>12, Ranges
  <2> QED
    BY <1>12, <2>1, <2>2 DEF CountActive
<1>13. ASSUME NEW c \in Callers, ShowActive(c)
       PROVE  TypeOK'
  BY <1>13 DEF ShowActive
<1>14. ASSUME NEW c \in Callers, UncountActive(c)
       PROVE  TypeOK'
  BY <1>14, Ranges DEF UncountActive
<1>15. ASSUME NEW c \in Callers, ShowInactive(c)
       PROVE  TypeOK'
  BY <1>15, Ranges DEF ShowInactive
<1>16. ASSUME NEW c \in Callers, Release(c)
       PROVE  TypeOK'
  <2>1. got' \in [Callers -> 0 .. Capacity] /\ spare' \in 0 .. Capacity
    BY <1>16, PoolAssumption DEF Release
  <2>2. pc' \in [Callers -> Steps]
    BY <1>16 DEF Release
  <2> QED
    BY <1>16, <2>1, <2>2 DEF Release
<1>17. CASE DealToHead
  <2> DEFINE h    == Head(waiters)
             need == want[h] - got[h]
  <2> HIDE DEF h, need
  <2>1. /\ h \in Callers /\ Tail(waiters) \in Seq(Callers)
        /\ need \in 1 .. Capacity
        /\ want[h] \in 0 .. Capacity /\ got[h] \in 0 .. Capacity
    BY <1>17, DealFacts DEF h, need
  <2>2. DealtToHead(h, need)
    BY <1>17, DealFacts DEF h, need
  <2>3. spare \in 0 .. Capacity /\ Capacity \in Nat
    BY PoolAssumption
  <2>4. spare' \in 0 .. Capacity
    <3> HIDE <1>0
    <3> QED
      BY <2>1, <2>2, <2>3 DEF DealtToHead
  <2>5. got' \in [Callers -> 0 .. Capacity]
    <3>1. CASE spare >= need
      BY <2>1, <2>2, <3>1 DEF DealtToHead
    <3>2. CASE ~ (spare >= need)
      <4>1. got[h] + spare \in 0 .. Capacity
        BY <2>1, <2>3, <3>2 DEF need
      <4> QED
        BY <2>1, <2>2, <3>2, <4>1 DEF DealtToHead
    <3> QED
      BY <3>1, <3>2
  <2>6. waiters' \in Seq(Callers)
    BY <2>1, <2>2 DEF DealtToHead, h
  <2> QED
    BY <2>2, <2>4, <2>5, <2>6 DEF DealtToHead
<1>18. CASE DealToPool
  BY <1>18, Ranges DEF DealToPool, IInv, PermitsConserved
<1> QED
  BY <1>1, <1>2, <1>3, <1>4, <1>5, <1>6, <1>7, <1>8, <1>9, <1>10, <1>11,
     <1>12, <1>13, <1>14, <1>15, <1>16, <1>17, <1>18 DEF Next, Proceed, Deal

\* A caller asks for permits exactly while it is inside a request.
LEMMA AskingStep ==
  ASSUME IInv, Next
  PROVE  Asking'
<1>0. Asking /\ TypeOK
  BY DEF IInv
<1> USE <1>0 DEF Asking, Goto
<1>1. ASSUME NEW c \in Callers, NEW n \in Sizes, Enter(c, n)
      PROVE  Asking'
  BY <1>1 DEF Enter, TypeOK
<1>2. ASSUME NEW c \in Callers, Cancel(c) \/ TimedOut(c) \/ Release(c)
      PROVE  Asking'
  BY <1>2 DEF Cancel, TimedOut, Release, TypeOK
<1>3. ASSUME NEW c \in Callers,
             \/ LoadQueued(c) \/ ShowEntered(c) \/ PollReady(c)
             \/ PollPending(c) \/ Repoll(c) \/ Elapse(c) \/ DropWaiter(c)
      PROVE  Asking'
  BY <1>3 DEF LoadQueued, ShowEntered, PollReady, PollPending, Repoll, Elapse,
              DropWaiter, TypeOK
<1>4. ASSUME NEW c \in Callers,
             \/ Leave(c) \/ Admitted(c) \/ CountActive(c) \/ ShowActive(c)
             \/ UncountActive(c) \/ ShowInactive(c)
      PROVE  Asking'
  BY <1>4 DEF Leave, Admitted, CountActive, ShowActive, UncountActive,
              ShowInactive, TypeOK
<1>5. CASE Deal
  BY <1>5 DEF Deal, DealToHead, DealToPool
<1> QED
  BY <1>1, <1>2, <1>3, <1>4, <1>5 DEF Next, Proceed

\* The wait list stays as it is while its members keep waiting.
LEMMA LineKept ==
  ASSUME IInv, waiters' = waiters, NEW c \in Callers,
         \A d \in Callers : d # c => pc'[d] = pc[d],
         InLine(c) => pc'[c] \in {"waiting", "elapsed"}
  PROVE  LineOK'
<1>1. LineOK /\ \A i \in 1 .. Len(waiters) : waiters[i] \in Callers
  BY ElementOfSeq DEF IInv, TypeOK
<1> QED
  BY <1>1 DEF LineOK, InLine

\* Who is in the wait list is waiting, or has just been timed out.
LEMMA InLineWaits ==
  ASSUME IInv, NEW c \in Callers, InLine(c)
  PROVE  pc[c] \in {"waiting", "elapsed"}
BY DEF IInv, LineOK, InLine

\* The wait list holds each caller once, and only callers that wait.
LEMMA LineStep ==
  ASSUME IInv, Next
  PROVE  LineOK'
<1>0. TypeOK /\ LineOK
  BY DEF IInv
<1>1. ASSUME NEW c \in Callers,
             \/ \E n \in Sizes : Enter(c, n)
             \/ LoadQueued(c) \/ ShowEntered(c) \/ PollReady(c) \/ Repoll(c)
             \/ Elapse(c) \/ Leave(c) \/ Admitted(c) \/ TimedOut(c)
      PROVE  LineOK'
  <2>1. waiters' = waiters /\ \A d \in Callers : d # c => pc'[d] = pc[d]
    BY <1>0, <1>1 DEF Enter, LoadQueued, ShowEntered, PollReady, Repoll,
       Elapse, Leave, Admitted, TimedOut, ShowLeft, Goto, TypeOK, semaphore
  <2>2. ASSUME InLine(c) PROVE pc'[c] \in {"waiting", "elapsed"}
    BY <1>0, <1>1, <2>2, InLineWaits DEF Enter, LoadQueued, ShowEntered,
       PollReady, Repoll, Elapse, Leave, Admitted, TimedOut, Goto, TypeOK
  <2> QED
    BY <2>1, <2>2, LineKept
<1>2. ASSUME NEW c \in Callers,
             \/ CountActive(c) \/ ShowActive(c) \/ UncountActive(c)
             \/ ShowInactive(c) \/ Release(c)
      PROVE  LineOK'
  <2>1. waiters' = waiters /\ \A d \in Callers : d # c => pc'[d] = pc[d]
    BY <1>0, <1>2 DEF CountActive, ShowActive, UncountActive, ShowInactive,
       Release, Goto, TypeOK, semaphore
  <2>2. ~InLine(c)
    BY <1>2, InLineWaits DEF CountActive, ShowActive, UncountActive,
       ShowInactive, Release, Goto
  <2> QED
    BY <2>1, <2>2, LineKept
<1>3. ASSUME NEW c \in Callers, PollPending(c)
      PROVE  LineOK'
  <2> DEFINE w == Append(waiters, c)
  <2>1. /\ waiters' = w
        /\ Len(w) = Len(waiters) + 1 /\ Len(waiters) \in Nat
        /\ \A i \in 1 .. Len(w) :
             w[i] = IF i <= Len(waiters) THEN waiters[i] ELSE c
        /\ \A i \in 1 .. Len(waiters) : waiters[i] \in Callers
    BY <1>0, <1>3, AppendProperties, ElementOfSeq, LenProperties
       DEF PollPending, TypeOK
  <2>2. ~InLine(c)
    BY <1>3, InLineWaits DEF PollPending, Goto
  <2>3. \A d \in Callers : pc'[d] = IF d = c THEN "waiting" ELSE pc[d]
    BY <1>0, <1>3 DEF PollPending, Goto, TypeOK
  <2> HIDE DEF w
  <2>4. ASSUME NEW i \in 1 .. Len(w) PROVE pc'[w[i]] \in {"waiting", "elapsed"}
    <3>1. CASE i <= Len(waiters)
      BY <1>0, <2>1, <2>3, <3>1 DEF LineOK
    <3>2. CASE ~ (i <= Len(waiters))
      BY <2>1, <2>3, <3>2
    <3> QED
      BY <3>1, <3>2
  <2>5. \A i, j \in 1 .. Len(w) : w[i] = w[j] => i = j
    BY <1>0, <2>1, <2>2 DEF LineOK, InLine
  <2> QED
    BY <2>1, <2>4, <2>5 DEF LineOK
<1>4. ASSUME NEW c \in Callers, DropWaiter(c) \/ Cancel(c)
      PROVE  LineOK'
  <2>1. Unlink(c) /\ \A d \in Callers : d # c => pc'[d] = pc[d]
    BY <1>0, <1>4 DEF DropWaiter, Cancel, Goto, TypeOK
  <2>2. /\ waiters' \in Seq(Callers)
        /\ ~InLine(c)'
        /\ \A i \in 1 .. Len(waiters') :
             \E j \in 1 .. Len(waiters) : j >= i /\ waiters'[i] = waiters[j]
        /\ \A i, j \in 1 .. Len(waiters') : waiters'[i] = waiters'[j] => i = j
    BY <2>1, UnlinkFacts
  <2>3. ASSUME NEW i \in 1 .. Len(waiters')
        PROVE  pc'[waiters'[i]] \in {"waiting", "elapsed"}
    <3>1. PICK j \in 1 .. Len(waiters) : waiters'[i] = waiters[j]
      BY <2>2
    <3>2. waiters'[i] \in Callers /\ waiters'[i] # c
      BY <2>2, ElementOfSeq DEF InLine
    <3> QED
      BY <1>0, <2>1, <3>1, <3>2 DEF LineOK
  <2> QED
    BY <2>2, <2>3 DEF LineOK
<1>5. CASE DealToHead
  <2> DEFINE t == Tail(waiters)
  <2> HIDE DEF t
  <2>1. /\ pc' = pc
        /\ waiters' = waiters \/ waiters' = t
        /\ Len(waiters) \in Nat
        /\ Len(t) = Len(waiters) - 1
        /\ \A i \in 1 .. Len(t) : t[i] = waiters[i + 1]
    BY <1>5, DealFacts DEF DealtToHead, t
  <2>2. CASE waiters' = waiters
    BY <1>0, <2>1, <2>2 DEF LineOK
  <2>3. CASE waiters' = t
    <3>1. \A i \in 1 .. Len(t) : i + 1 \in 1 .. Len(waiters)
      BY <2>1
    <3>2. ASSUME NEW i \in 1 .. Len(t)
          PROVE  pc'[t[i]] \in {"waiting", "elapsed"}
      BY <1>0, <2>1, <3>1 DEF LineOK
    <3>3. ASSUME NEW i \in 1 .. Len(t), NEW j \in 1 .. Len(t), t[i] = t[j]
          PROVE  i = j
      <4>1. waiters[i + 1] = waiters[j + 1]
        BY <2>1, <3>3
      <4>2. i + 1 = j + 1
        BY <1>0, <3>1, <4>1 DEF LineOK
      <4> QED
        BY <4>2
    <3> QED
      BY <2>3, <3>2, <3>3 DEF LineOK
  <2> QED
    BY <2>1, <2>2, <2>3
<1>6. CASE DealToPool
  BY <1>0, <1>6 DEF DealToPool, LineOK
<1> QED
  BY <1>1, <1>2, <1>3, <1>4, <1>5, <1>6 DEF Next, Proceed, Deal

\* Owned holds on after a step that leaves the semaphore alone and keeps its
\* caller on the same side of the line.
LEMMA OwnedKept ==
  ASSUME IInv, UNCHANGED semaphore, NEW c \in Callers,
         \A d \in Callers : d # c => pc'[d] = pc[d] /\ want'[d] = want[d],
         \/ /\ got[c] = 0
            /\ pc'[c] \notin Owning \cup {"waiting", "elapsed"}
         \/ got[c] = want'[c] /\ pc'[c] \in Owning
         \/ pc[c] = "waiting" /\ pc'[c] = "elapsed" /\ want'[c] = want[c]
  PROVE  Owned'
<1>1. Owned /\ got' = got /\ waiters' = waiters
  BY DEF IInv, semaphore
<1>2. \A d \in Callers : InLine(d)' <=> InLine(d)
  BY <1>1 DEF InLine
<1>3. ASSUME NEW d \in Callers, d # c
      PROVE  /\ pc'[d] \in Owning => got'[d] = want'[d]
             /\ pc'[d] \in {"waiting", "elapsed"} =>
                  IF InLine(d)' THEN got'[d] < want'[d] ELSE got'[d] = want'[d]
             /\ pc'[d] \notin Owning \cup {"waiting", "elapsed"} => got'[d] = 0
  BY <1>1, <1>2, <1>3 DEF Owned
<1>4. /\ pc'[c] \in Owning => got'[c] = want'[c]
      /\ pc'[c] \in {"waiting", "elapsed"} =>
           IF InLine(c)' THEN got'[c] < want'[c] ELSE got'[c] = want'[c]
      /\ pc'[c] \notin Owning \cup {"waiting", "elapsed"} => got'[c] = 0
  <2>1. CASE got[c] = 0 /\ pc'[c] \notin Owning \cup {"waiting", "elapsed"}
    BY <1>1, <2>1 DEF Owning
  <2>2. CASE got[c] = want'[c] /\ pc'[c] \in Owning
    BY <1>1, <2>2 DEF Owning
  <2>3. CASE pc[c] = "waiting" /\ pc'[c] = "elapsed" /\ want'[c] = want[c]
    BY <1>1, <1>2, <2>3 DEF Owned, Owning
  <2> QED
    BY <2>1, <2>2, <2>3
<1> QED
  BY <1>3, <1>4 DEF Owned

\* A caller past the wait owns all it asked for; one before it, nothing; one
\* in line, less than it asked for.
LEMMA OwnedStep ==
  ASSUME IInv, Next
  PROVE  Owned'
<1>0. TypeOK /\ Owned
  BY DEF IInv
<1>1. ASSUME NEW c \in Callers, NEW n \in Sizes, Enter(c, n)
      PROVE  Owned'
  <2>1. /\ UNCHANGED semaphore
        /\ \A d \in Callers : d # c => pc'[d] = pc[d] /\ want'[d] = want[d]
        /\ pc[c] = "idle" /\ pc'[c] = "entered"
    BY <1>0, <1>1 DEF Enter, Goto, TypeOK
  <2>2. got[c] = 0 /\ pc'[c] \notin Owning \cup {"waiting", "elapsed"}
    BY <1>0, <2>1 DEF Owned, Owning
  <2> QED
    BY <2>1, <2>2, OwnedKept
<1>2. ASSUME NEW c \in Callers,
             LoadQueued(c) \/ ShowEntered(c) \/ TimedOut(c)
      PROVE  Owned'
  <2>1. /\ UNCHANGED semaphore
        /\ \A d \in Callers : d # c => pc'[d] = pc[d] /\ want'[d] = want[d]
        /\ pc[c] \in {"entered", "loaded", "leaving_err"}
        /\ pc'[c] \in {"loaded", "polling", "idle"}
    BY <1>0, <1>2 DEF LoadQueued, ShowEntered, TimedOut, ShowLeft, Goto, TypeOK
  <2>2. got[c] = 0 /\ pc'[c] \notin Owning \cup {"waiting", "elapsed"}
    BY <1>0, <2>1 DEF Owned, Owning
  <2> QED
    BY <2>1, <2>2, OwnedKept
<1>3. ASSUME NEW c \in Callers, Leave(c)
      PROVE  Owned'
  <2>1. /\ UNCHANGED semaphore
        /\ \A d \in Callers : d # c => pc'[d] = pc[d] /\ want'[d] = want[d]
        /\ \/ pc[c] = "granted" /\ pc'[c] = "leaving_ok"
           \/ pc[c] = "refused" /\ pc'[c] = "leaving_err"
        /\ want' = want
    BY <1>0, <1>3 DEF Leave, Goto, TypeOK
  <2>2. \/ got[c] = 0 /\ pc'[c] \notin Owning \cup {"waiting", "elapsed"}
        \/ got[c] = want'[c] /\ pc'[c] \in Owning
    BY <1>0, <2>1 DEF Owned, Owning
  <2> QED
    BY <2>1, <2>2, OwnedKept
<1>4. ASSUME NEW c \in Callers,
             \/ Admitted(c) \/ CountActive(c) \/ ShowActive(c)
             \/ UncountActive(c) \/ ShowInactive(c)
      PROVE  Owned'
  <2>1. /\ UNCHANGED semaphore
        /\ \A d \in Callers : d # c => pc'[d] = pc[d] /\ want'[d] = want[d]
        /\ pc[c] \in Owning /\ pc'[c] \in Owning
        /\ want' = want
    BY <1>0, <1>4 DEF Admitted, ShowLeft, CountActive, ShowActive,
       UncountActive, ShowInactive, Goto, TypeOK, Owning
  <2>2. got[c] = want'[c]
    BY <1>0, <2>1 DEF Owned
  <2> QED
    BY <2>1, <2>2, OwnedKept
<1>5. ASSUME NEW c \in Callers, Repoll(c)
      PROVE  Owned'
  <2>1. /\ UNCHANGED semaphore
        /\ \A d \in Callers : d # c => pc'[d] = pc[d] /\ want'[d] = want[d]
        /\ pc[c] = "waiting" /\ pc'[c] = "granted" /\ ~InLine(c)
        /\ want' = want
    BY <1>0, <1>5 DEF Repoll, Goto, TypeOK
  <2>2. got[c] = want'[c] /\ pc'[c] \in Owning
    BY <1>0, <2>1 DEF Owned, Owning
  <2> QED
    BY <2>1, <2>2, OwnedKept
<1>6. ASSUME NEW c \in Callers, Elapse(c)
      PROVE  Owned'
  <2>1. /\ UNCHANGED semaphore
        /\ \A d \in Callers : d # c => pc'[d] = pc[d] /\ want'[d] = want[d]
        /\ pc[c] = "waiting" /\ pc'[c] = "elapsed"
        /\ want'[c] = want[c]
    BY <1>0, <1>6 DEF Elapse, Goto, TypeOK
  <2> QED
    BY <2>1, OwnedKept
<1>7. ASSUME NEW c \in Callers, PollReady(c)
      PROVE  Owned'
  <2>1. /\ \A d \in Callers : d # c => pc'[d] = pc[d] /\ got'[d] = got[d]
        /\ want' = want /\ waiters' = waiters
        /\ pc'[c] = "granted" /\ got'[c] = want[c]
    BY <1>0, <1>7 DEF PollReady, Goto, TypeOK
  <2> QED
    BY <1>0, <2>1 DEF Owned, Owning, InLine
<1>8. ASSUME NEW c \in Callers, PollPending(c)
      PROVE  Owned'
  <2>1. /\ \A d \in Callers : d # c => pc'[d] = pc[d] /\ got'[d] = got[d]
        /\ want' = want /\ waiters' = Append(waiters, c)
        /\ pc'[c] = "waiting" /\ got'[c] < want[c]
    BY <1>0, <1>8 DEF PollPending, Goto, TypeOK
  <2>2. /\ InLine(c)'
        /\ \A d \in Callers : d # c => (InLine(d)' <=> InLine(d))
    <3>1. /\ Len(Append(waiters, c)) = Len(waiters) + 1
          /\ Len(waiters) \in Nat
          /\ \A i \in 1 .. Len(waiters) : Append(waiters, c)[i] = waiters[i]
          /\ Append(waiters, c)[Len(waiters) + 1] = c
      BY <1>0, AppendProperties, LenProperties DEF TypeOK
    <3> QED
      BY <2>1, <3>1 DEF InLine
  <2> QED
    BY <1>0, <2>1, <2>2 DEF Owned, Owning
<1>9. ASSUME NEW c \in Callers, DropWaiter(c) \/ Cancel(c)
      PROVE  Owned'
  <2>1. /\ Unlink(c)
        /\ \A d \in Callers : d # c => /\ pc'[d] = pc[d]
                                       /\ got'[d] = got[d]
                                       /\ want'[d] = want[d]
        /\ pc'[c] \in {"refused", "idle"} /\ got'[c] = 0
    BY <1>0, <1>9 DEF DropWaiter, Cancel, Unlink, Goto, TypeOK
  <2>2. \A d \in Callers : d # c => (InLine(d)' <=> InLine(d))
    BY <2>1, UnlinkFacts
  <2> QED
    BY <1>0, <2>1, <2>2 DEF Owned, Owning
<1>10. ASSUME NEW c \in Callers, Release(c)
       PROVE  Owned'
  <2>1. /\ \A d \in Callers : d # c => /\ pc'[d] = pc[d]
                                       /\ got'[d] = got[d]
                                       /\ want'[d] = want[d]
        /\ pc'[c] = "idle" /\ got'[c] = 0 /\ waiters' = waiters
    BY <1>0, <1>10 DEF Release, Goto, TypeOK
  <2> QED
    BY <1>0, <2>1 DEF Owned, Owning, InLine
<1>11. CASE DealToHead
  <2>0. PICK h \in Callers : h = Head(waiters)
    BY <1>11, DealFacts
  <2> DEFINE need == want[h] - got[h]
             t    == Tail(waiters)
  <2> HIDE DEF need, t
  <2>1. /\ h \in Callers /\ InLine(h) /\ h = waiters[1]
        /\ pc[h] \in {"waiting", "elapsed"}
        /\ Len(waiters) \in Nat \ {0} /\ Len(t) = Len(waiters) - 1
        /\ \A i \in 1 .. Len(t) : t[i] = waiters[i + 1]
        /\ DealtToHead(h, need)
    BY <1>11, <2>0, DealFacts DEF need, t
  <2>2. /\ pc' = pc /\ want' = want
        /\ \A d \in Callers : d # h => got'[d] = got[d]
    BY <1>0, <2>1 DEF DealtToHead, TypeOK
  <2>3. CASE spare >= need
    <3>1. waiters' = t /\ got'[h] = want[h]
      BY <1>0, <2>1, <2>3 DEF DealtToHead, TypeOK, t
    <3>2. ~InLine(h)'
      <4> SUFFICES ASSUME NEW i \in 1 .. Len(t), t[i] = h PROVE FALSE
        BY <3>1 DEF InLine
      <4>1. i + 1 \in 1 .. Len(waiters) /\ waiters[i + 1] = waiters[1]
        BY <2>1
      <4>2. i + 1 = 1
        BY <2>1, <4>1 DEF IInv, LineOK
      <4> QED
        BY <4>2
    <3>3. ASSUME NEW d \in Callers, d # h PROVE InLine(d)' <=> InLine(d)
      <4>1. ASSUME NEW i \in 1 .. Len(t), t[i] = d PROVE InLine(d)
        BY <2>1, <4>1 DEF InLine
      <4>2. ASSUME NEW i \in 1 .. Len(waiters), waiters[i] = d
            PROVE  \E j \in 1 .. Len(t) : t[j] = d
        <5>1. i # 1
          BY <2>1, <3>3, <4>2
        <5>2. i - 1 \in 1 .. Len(t) /\ t[i - 1] = d
          BY <2>1, <4>2, <5>1
        <5> QED
          BY <5>2
      <4> QED
        BY <3>1, <4>1, <4>2 DEF InLine
    <3>4. \A d \in Callers : d # h =>
            /\ pc[d] \in Owning => got'[d] = want[d]
            /\ pc[d] \in {"waiting", "elapsed"} =>
                 IF InLine(d)' THEN got'[d] < want[d] ELSE got'[d] = want[d]
            /\ pc[d] \notin Owning \cup {"waiting", "elapsed"} => got'[d] = 0
      BY <1>0, <2>2, <3>3 DEF Owned
    <3> QED
      BY <2>1, <2>2, <3>1, <3>2, <3>4 DEF Owned, Owning
  <2>4. CASE ~ (spare >= need)
    <3>1. waiters' = waiters /\ got'[h] < want[h]
      <4>1. got[h] \in Int /\ want[h] \in Int /\ spare \in Int
        BY <1>0, <2>1, Ranges DEF TypeOK
      <4>2. waiters' = waiters /\ got'[h] = got[h] + spare
        BY <1>0, <2>1, <2>4 DEF DealtToHead, TypeOK
      <4> QED
        BY <2>4, <4>1, <4>2 DEF need
    <3> QED
      BY <1>0, <2>1, <2>2, <3>1 DEF Owned, Owning, InLine
  <2> QED
    BY <2>3, <2>4
<1>12. CASE DealToPool
  BY <1>0, <1>12 DEF DealToPool, Owned, InLine
<1> QED
  BY <1>1, <1>2, <1>3, <1>4, <1>5, <1>6, <1>7, <1>8, <1>9, <1>10, <1>11,
     <1>12 DEF Next, Proceed, Deal

\* One caller's permits change, and the total with them.
LEMMA GotUpdate ==
  ASSUME IInv, NEW c \in Callers, NEW v \in 0 .. Capacity,
         got' = [got EXCEPT ![c] = v]
  PROVE  Total(got') = Total(got) - got[c] + v
<1>1. /\ IsFiniteSet(Callers) /\ Capacity \in Nat
      /\ got \in [Callers -> 0 .. Capacity]
  BY PoolAssumption DEF IInv, TypeOK
<1> DEFINE g == got'
<1> HIDE DEF g
<1>2. g = [got EXCEPT ![c] = v]
  BY DEF g
<1>3. /\ g \in [Callers -> 0 .. Capacity] /\ g[c] = v
      /\ \A d \in Callers : d # c => g[d] = got[d]
  BY <1>1, <1>2
<1>4. Total(g) = Total(got) - got[c] + g[c]
  <2> HIDE <1>2
  <2> QED
    BY <1>1, <1>3, TotalUpdate
<1> QED
  BY <1>3, <1>4 DEF g

\* What an action takes from one of semaphore, dealer and callers it gives to
\* another (every acquire, release, timeout and cancellation of src/pool.rs).
LEMMA PermitsStep ==
  ASSUME IInv, Next
  PROVE  PermitsConserved'
<1>0. /\ TypeOK /\ Asking /\ Owned /\ PermitsConserved
      /\ Total(got) \in Nat /\ Capacity \in Nat
  BY Ranges DEF IInv
<1>1. ASSUME UNCHANGED semaphore
      PROVE  PermitsConserved'
  BY <1>0, <1>1 DEF semaphore, PermitsConserved
<1>2. ASSUME NEW c \in Callers, PollReady(c)
      PROVE  PermitsConserved'
  <2>1. got[c] = 0 /\ want[c] \in 0 .. Capacity
    BY <1>0, <1>2, Ranges DEF PollReady, Goto, Owned, Owning
  <2>2. Total(got') = Total(got) - got[c] + want[c]
    BY <1>2, <2>1, GotUpdate DEF PollReady
  <2>3. permits' = permits - want[c] /\ spare' = spare
    BY <1>2 DEF PollReady
  <2>4. permits \in Int /\ spare \in Int
    BY <1>0 DEF TypeOK
  <2> QED
    BY <1>0, <2>1, <2>2, <2>3, <2>4 DEF PermitsConserved
<1>3. ASSUME NEW c \in Callers, PollPending(c)
      PROVE  PermitsConserved'
  <2>0. got[c] = 0
    BY <1>0, <1>3 DEF PollPending, Goto, Owned, Owning
  <2>1. permits \in 0 .. Capacity /\ spare \in Int
    BY <1>0 DEF TypeOK
  <2>2. Total(got') = Total(got) - got[c] + permits
    BY <1>3, <2>1, GotUpdate DEF PollPending
  <2>3. permits' = 0 /\ spare' = spare
    BY <1>3 DEF PollPending
  <2> QED
    BY <1>0, <2>0, <2>1, <2>2, <2>3 DEF PermitsConserved
<1>4. ASSUME NEW c \in Callers,
             DropWaiter(c) \/ Cancel(c) \/ Release(c)
      PROVE  PermitsConserved'
  <2>1. /\ spare = 0 /\ spare' = got[c] /\ permits' = permits
        /\ got' = [got EXCEPT ![c] = 0]
    BY <1>4 DEF DropWaiter, Cancel, Release, Unlink, MutexFree
  <2>2. got[c] \in 0 .. Capacity /\ permits \in Int
    BY <1>0 DEF TypeOK
  <2>3. Total(got') = Total(got) - got[c] + 0
    <3>1. 0 \in 0 .. Capacity
      BY <1>0
    <3> QED
      BY <2>1, <3>1, GotUpdate
  <2> QED
    BY <1>0, <2>1, <2>2, <2>3 DEF PermitsConserved
<1>5. CASE DealToHead
  <2>0. PICK h \in Callers : h = Head(waiters)
    BY <1>5, DealFacts
  <2> DEFINE need == want[h] - got[h]
  <2> HIDE DEF need
  <2>1. /\ need \in 1 .. Capacity
        /\ want[h] \in 0 .. Capacity /\ got[h] \in 0 .. Capacity
        /\ DealtToHead(h, need)
    BY <1>5, <2>0, DealFacts DEF need
  <2>2. /\ permits' = permits /\ permits \in Int
        /\ spare \in 0 .. Capacity
    BY <1>0, <2>1 DEF DealtToHead, TypeOK
  <2>3. CASE spare >= need
    <3>1. got' = [got EXCEPT ![h] = want[h]] /\ spare' = spare - need
      BY <2>1, <2>2, <2>3, <1>0 DEF DealtToHead
    <3>2. Total(got') = Total(got) - got[h] + want[h]
      BY <2>1, <3>1, GotUpdate
    <3> QED
      BY <1>0, <2>1, <2>2, <3>1, <3>2 DEF PermitsConserved, need
  <2>4. CASE ~ (spare >= need)
    <3>1. got' = [got EXCEPT ![h] = got[h] + spare] /\ spare' = 0
      BY <2>1, <2>4 DEF DealtToHead
    <3>2. got[h] + spare \in 0 .. Capacity
      BY <1>0, <2>1, <2>2, <2>4 DEF need
    <3>3. Total(got') = Total(got) - got[h] + (got[h] + spare)
      BY <3>1, <3>2, GotUpdate
    <3> QED
      BY <1>0, <2>1, <2>2, <3>1, <3>3 DEF PermitsConserved
  <2> QED
    BY <2>3, <2>4
<1>6. CASE DealToPool
  BY <1>0, <1>6 DEF DealToPool, PermitsConserved, TypeOK
<1>7. ASSUME NEW c \in Callers,
             \/ \E n \in Sizes : Enter(c, n)
             \/ LoadQueued(c) \/ ShowEntered(c) \/ Repoll(c) \/ Elapse(c)
             \/ Leave(c) \/ Admitted(c) \/ TimedOut(c)
             \/ CountActive(c) \/ ShowActive(c) \/ UncountActive(c)
             \/ ShowInactive(c)
      PROVE  UNCHANGED semaphore
  BY <1>7 DEF Enter, LoadQueued, ShowEntered, Repoll, Elapse, Leave, Admitted,
     TimedOut, ShowLeft, CountActive, ShowActive, UncountActive, ShowInactive
<1> QED
  BY <1>1, <1>2, <1>3, <1>4, <1>5, <1>6, <1>7 DEF Next, Proceed, Deal

\* `active` is the total of a bounded function, so it is a natural number.
LEMMA CountedTotal ==
  ASSUME IInv
  PROVE  /\ CountedPermits \in [Callers -> 0 .. Capacity]
         /\ active \in Nat
         /\ \A c \in Callers : CountedPermits[c] <= active
<1>1. CountedPermits \in [Callers -> 0 .. Capacity]
  BY Ranges DEF CountedPermits
<1>2. IsFiniteSet(Callers) /\ Capacity \in Nat
  BY PoolAssumption
<1>3. Total(CountedPermits) \in Nat
  BY <1>1, <1>2, UnitsFinite
<1>4. \A c \in Callers : CountedPermits[c] <= Total(CountedPermits)
  <2> DEFINE f == CountedPermits
  <2> HIDE DEF f
  <2>1. f \in [Callers -> 0 .. Capacity]
    BY <1>1 DEF f
  <2>2. \A c \in Callers : f[c] <= Total(f)
    BY <1>2, <2>1, TotalCovers
  <2> QED
    BY <2>2 DEF f
<1> QED
  BY <1>1, <1>3, <1>4 DEF IInv, ActiveCounts

\* One caller starts or stops counting, and the total with it.
LEMMA CountedUpdate ==
  ASSUME IInv, NEW c \in Callers, NEW v \in 0 .. Capacity,
         CountedPermits' = [CountedPermits EXCEPT ![c] = v]
  PROVE  Total(CountedPermits') = active - CountedPermits[c] + v
<1> DEFINE f == CountedPermits
<1> HIDE DEF f
<1>1. f \in [Callers -> 0 .. Capacity]
  BY CountedTotal DEF f
<1>2. IsFiniteSet(Callers) /\ Capacity \in Nat
  BY PoolAssumption
<1> DEFINE g == CountedPermits'
<1> HIDE DEF g
<1>3. g = [f EXCEPT ![c] = v]
  BY DEF f, g
<1>4. /\ g \in [Callers -> 0 .. Capacity] /\ g[c] = v
      /\ \A d \in Callers : d # c => g[d] = f[d]
  BY <1>1, <1>2, <1>3
<1>5. Total(g) = Total(f) - f[c] + g[c]
  BY <1>1, <1>2, <1>4, TotalUpdate
<1> QED
  BY <1>4, <1>5 DEF f, g, IInv, ActiveCounts

\* HalfPool.active moves by what the acting caller asked for, up once and down
\* once.
LEMMA ActiveStep ==
  ASSUME IInv, Next
  PROVE  ActiveCounts'
<1>0. TypeOK /\ ActiveCounts
  BY DEF IInv
<1>1. ASSUME UNCHANGED <<active, CountedPermits>>
      PROVE  ActiveCounts'
  BY <1>0, <1>1 DEF ActiveCounts
<1>2. ASSUME NEW c \in Callers,
             \/ \E n \in Sizes : Enter(c, n)
             \/ LoadQueued(c) \/ ShowEntered(c) \/ PollReady(c)
             \/ PollPending(c) \/ Repoll(c) \/ Elapse(c) \/ DropWaiter(c)
             \/ Cancel(c)
      PROVE  UNCHANGED <<active, CountedPermits>>
  <2>1. /\ active' = active
        /\ pc[c] \notin Counted /\ pc'[c] \notin Counted
        /\ \A d \in Callers : d # c => pc'[d] = pc[d] /\ want'[d] = want[d]
    BY <1>0, <1>2 DEF Enter, LoadQueued, ShowEntered, PollReady, PollPending,
       Repoll, Elapse, DropWaiter, Cancel, Goto, TypeOK, Counted
  <2>2. CountedPermits' = CountedPermits
    BY <2>1 DEF CountedPermits
  <2> QED
    BY <2>1, <2>2
<1>3. ASSUME NEW c \in Callers,
             \/ Leave(c) \/ Admitted(c) \/ TimedOut(c)
             \/ ShowInactive(c) \/ Release(c)
      PROVE  UNCHANGED <<active, CountedPermits>>
  <2>1. /\ active' = active
        /\ pc[c] \notin Counted /\ pc'[c] \notin Counted
        /\ \A d \in Callers : d # c => pc'[d] = pc[d] /\ want'[d] = want[d]
    BY <1>0, <1>3 DEF Leave, Admitted, TimedOut, ShowLeft, ShowInactive,
       Release, Goto, TypeOK, Counted
  <2>2. CountedPermits' = CountedPermits
    BY <2>1 DEF CountedPermits
  <2> QED
    BY <2>1, <2>2
<1>4. ASSUME NEW c \in Callers, ShowActive(c)
      PROVE  UNCHANGED <<active, CountedPermits>>
  <2>1. /\ active' = active /\ want' = want
        /\ pc[c] \in Counted /\ pc'[c] \in Counted
        /\ \A d \in Callers : d # c => pc'[d] = pc[d]
    BY <1>0, <1>4 DEF ShowActive, Goto, TypeOK, Counted
  <2>2. CountedPermits' = CountedPermits
    BY <2>1 DEF CountedPermits
  <2> QED
    BY <2>1, <2>2
<1>5. CASE Deal
  BY <1>0, <1>5 DEF Deal, DealToHead, DealToPool, ActiveCounts, CountedPermits
<1>6. ASSUME NEW c \in Callers, CountActive(c)
      PROVE  ActiveCounts'
  <2>1. /\ active' = active + want[c] /\ want' = want
        /\ pc[c] = "counting"
        /\ pc' = [pc EXCEPT ![c] = "counted"]
    BY <1>6 DEF CountActive, Goto
  <2>2. /\ CountedPermits[c] = 0
        /\ CountedPermits' = [CountedPermits EXCEPT ![c] = want[c]]
    BY <1>0, <2>1 DEF CountedPermits, Counted, TypeOK
  <2>3. want[c] \in 0 .. Capacity
    BY Ranges
  <2>4. Total(CountedPermits') = active - CountedPermits[c] + want[c]
    BY <2>2, <2>3, CountedUpdate
  <2>5. Total(CountedPermits') = active + want[c]
    BY <2>2, <2>3, <2>4, CountedTotal
  <2> QED
    BY <2>1, <2>5 DEF ActiveCounts
<1>7. ASSUME NEW c \in Callers, UncountActive(c)
      PROVE  ActiveCounts'
  <2>1. /\ active' = active - want[c] /\ want' = want
        /\ pc[c] = "holding"
        /\ pc' = [pc EXCEPT ![c] = "uncounted"]
    BY <1>7 DEF UncountActive, Goto
  <2>2. /\ CountedPermits[c] = want[c]
        /\ CountedPermits' = [CountedPermits EXCEPT ![c] = 0]
    BY <1>0, <2>1 DEF CountedPermits, Counted, TypeOK
  <2>3. want[c] \in 0 .. Capacity /\ 0 \in 0 .. Capacity
    BY Ranges
  <2>4. Total(CountedPermits') = active - CountedPermits[c] + 0
    BY <2>2, <2>3, CountedUpdate
  <2>5. Total(CountedPermits') = active - want[c]
    BY <2>2, <2>3, <2>4, CountedTotal
  <2> QED
    BY <2>1, <2>5 DEF ActiveCounts
<1> QED
  BY <1>1, <1>2, <1>3, <1>4, <1>5, <1>6, <1>7 DEF Next, Proceed

\* The value a Drop read `active` into still covers what it subtracted.
LEMMA RegStep ==
  ASSUME IInv, Next
  PROVE  RegOK'
<1>0. TypeOK /\ RegOK
  BY DEF IInv
<1> USE <1>0 DEF Goto, TypeOK, RegOK
<1>1. ASSUME NEW c \in Callers,
             \/ \E n \in Sizes : Enter(c, n)
             \/ LoadQueued(c) \/ ShowEntered(c) \/ PollReady(c)
             \/ PollPending(c) \/ Repoll(c) \/ Elapse(c) \/ DropWaiter(c)
             \/ Cancel(c)
      PROVE  RegOK'
  BY <1>1 DEF Enter, LoadQueued, ShowEntered, PollReady, PollPending, Repoll,
     Elapse, DropWaiter, Cancel
<1>2. ASSUME NEW c \in Callers,
             \/ Leave(c) \/ Admitted(c) \/ TimedOut(c) \/ CountActive(c)
             \/ ShowActive(c) \/ ShowInactive(c) \/ Release(c)
      PROVE  RegOK'
  BY <1>2 DEF Leave, Admitted, TimedOut, ShowLeft, CountActive, ShowActive,
     ShowInactive, Release
<1>3. ASSUME NEW c \in Callers, UncountActive(c)
      PROVE  RegOK'
  <2>1. CountedPermits[c] = want[c] /\ CountedPermits[c] <= active
    BY <1>3, CountedTotal DEF UncountActive, CountedPermits, Counted
  <2>2. /\ reg' = [reg EXCEPT ![c] = active] /\ want' = want
        /\ pc' = [pc EXCEPT ![c] = "uncounted"]
    BY <1>3 DEF UncountActive
  <2> QED
    BY <2>1, <2>2
<1>4. CASE Deal
  BY <1>4 DEF Deal, DealToHead, DealToPool
<1> QED
  BY <1>1, <1>2, <1>3, <1>4 DEF Next, Proceed

InQueue == {c \in Callers : pc[c] \in Queueing}

\* The calls inside acquire can be counted.
LEMMA InQueueFinite ==
  IsFiniteSet(InQueue) /\ Cardinality(InQueue) \in Nat
<1>1. InQueue \in SUBSET Callers /\ IsFiniteSet(Callers)
  BY PoolAssumption DEF InQueue
<1> QED
  BY <1>1, FS_Subset, FS_CardinalityType

\* HalfPool.queued moves with the calls inside acquire, but not when one is
\* cancelled there.
LEMMA QueuedStep ==
  ASSUME IInv, Next
  PROVE  QueuedCountsCallsAndCancels'
<1>0. /\ TypeOK /\ QueuedCountsCallsAndCancels
      /\ queued = Cardinality(InQueue) + cancelled
      /\ IsFiniteSet(InQueue) /\ Cardinality(InQueue) \in Nat
      /\ cancelled \in Nat
  BY InQueueFinite, PoolAssumption
     DEF IInv, QueuedCountsCallsAndCancels, InQueue, TypeOK
<1>1. ASSUME queued' = Cardinality(InQueue') + cancelled'
      PROVE  QueuedCountsCallsAndCancels'
  BY <1>1 DEF QueuedCountsCallsAndCancels, InQueue
<1>2. ASSUME NEW c \in Callers,
             UNCHANGED <<queued, cancelled>>,
             \A d \in Callers : d # c => pc'[d] = pc[d],
             pc[c] \in Queueing <=> pc'[c] \in Queueing
      PROVE  QueuedCountsCallsAndCancels'
  <2>1. InQueue' = InQueue
    BY <1>2 DEF InQueue
  <2> QED
    BY <1>0, <1>1, <1>2, <2>1
<1>3. ASSUME NEW c \in Callers, NEW n \in Sizes, Enter(c, n)
      PROVE  QueuedCountsCallsAndCancels'
  <2>1. c \notin InQueue /\ InQueue' = InQueue \cup {c}
    BY <1>0, <1>3 DEF Enter, Goto, InQueue, Queueing, TypeOK
  <2>2. Cardinality(InQueue') = Cardinality(InQueue) + 1
    BY <1>0, <2>1, FS_AddElement
  <2>3. queued' = queued + 1 /\ cancelled' = cancelled
    BY <1>3 DEF Enter
  <2> QED
    BY <1>0, <1>1, <2>2, <2>3
<1>4. ASSUME NEW c \in Callers, Leave(c) \/ Cancel(c)
      PROVE  QueuedCountsCallsAndCancels'
  <2>1. c \in InQueue /\ InQueue' = InQueue \ {c}
    BY <1>0, <1>4 DEF Leave, Cancel, Goto, InQueue, Queueing, TypeOK
  <2>2. Cardinality(InQueue') = Cardinality(InQueue) - 1
    BY <1>0, <2>1, FS_RemoveElement
  <2>3. \/ queued' = queued - 1 /\ cancelled' = cancelled
        \/ queued' = queued /\ cancelled' = cancelled + 1
    BY <1>4 DEF Leave, Cancel
  <2> QED
    BY <1>0, <1>1, <2>2, <2>3
<1>5. ASSUME NEW c \in Callers,
             \/ LoadQueued(c) \/ ShowEntered(c) \/ PollReady(c)
             \/ PollPending(c) \/ Repoll(c) \/ Elapse(c) \/ DropWaiter(c)
      PROVE  QueuedCountsCallsAndCancels'
  <2>1. /\ UNCHANGED <<queued, cancelled>>
        /\ \A d \in Callers : d # c => pc'[d] = pc[d]
        /\ pc[c] \in Queueing <=> pc'[c] \in Queueing
    BY <1>0, <1>5 DEF LoadQueued, ShowEntered, PollReady, PollPending, Repoll,
       Elapse, DropWaiter, Goto, TypeOK, Queueing
  <2> QED
    BY <1>2, <2>1
<1>6. ASSUME NEW c \in Callers,
             \/ Admitted(c) \/ TimedOut(c) \/ CountActive(c) \/ ShowActive(c)
             \/ UncountActive(c) \/ ShowInactive(c) \/ Release(c)
      PROVE  QueuedCountsCallsAndCancels'
  <2>1. /\ UNCHANGED <<queued, cancelled>>
        /\ \A d \in Callers : d # c => pc'[d] = pc[d]
        /\ pc[c] \in Queueing <=> pc'[c] \in Queueing
    BY <1>0, <1>6 DEF Admitted, TimedOut, ShowLeft, CountActive, ShowActive,
       UncountActive, ShowInactive, Release, Goto, TypeOK, Queueing
  <2> QED
    BY <1>2, <2>1
<1>7. CASE Deal
  <2>1. UNCHANGED <<queued, cancelled, pc>>
    BY <1>7 DEF Deal, DealToHead, DealToPool
  <2>2. InQueue' = InQueue
    BY <2>1 DEF InQueue
  <2> QED
    BY <1>0, <1>1, <2>1, <2>2
<1> QED
  BY <1>3, <1>4, <1>5, <1>6, <1>7 DEF Next, Proceed

\* No action leaves a permit in the pool, or a part of a request with anybody
\* but the head, while somebody waits.
LEMMA HeadStep ==
  ASSUME IInv, Next
  PROVE  OnlyTheHeadAccumulates'
<1>0. /\ TypeOK /\ OnlyTheHeadAccumulates /\ waiters \in Seq(Callers)
      /\ Len(waiters) \in Nat
      /\ waiters # << >> <=> Len(waiters) > 0
      /\ \A i \in 1 .. Len(waiters) : waiters[i] \in Callers
  <2>1. TypeOK /\ OnlyTheHeadAccumulates /\ waiters \in Seq(Callers)
    BY DEF IInv, TypeOK
  <2> QED
    BY <2>1, ElementOfSeq, LenProperties, EmptySeq
<1>1. ASSUME UNCHANGED semaphore
      PROVE  OnlyTheHeadAccumulates'
  BY <1>0, <1>1 DEF semaphore, OnlyTheHeadAccumulates
<1>2. ASSUME NEW c \in Callers, PollReady(c)
      PROVE  OnlyTheHeadAccumulates'
  <2>1. permits > 0
    <3>1. permits >= want[c] /\ pc[c] # "idle" /\ permits \in Int
      BY <1>0, <1>2 DEF PollReady, Goto, TypeOK
    <3>2. want[c] \in 1 .. Capacity /\ Capacity \in Nat
      BY <3>1, Ranges
    <3> QED
      BY <3>1, <3>2
  <2>2. waiters = << >> /\ waiters' = waiters
    BY <1>0, <1>2, <2>1 DEF OnlyTheHeadAccumulates, PollReady
  <2> QED
    BY <1>0, <2>2 DEF OnlyTheHeadAccumulates
<1>3. ASSUME NEW c \in Callers, PollPending(c)
      PROVE  OnlyTheHeadAccumulates'
  <2> DEFINE w == Append(waiters, c)
  <2> HIDE DEF w
  <2>1. /\ waiters' = w /\ permits' = 0
        /\ got' = [got EXCEPT ![c] = permits]
    BY <1>3 DEF PollPending, w
  <2>2. /\ Len(w) = Len(waiters) + 1
        /\ \A i \in 1 .. Len(waiters) : w[i] = waiters[i]
        /\ w[Len(waiters) + 1] = c
    BY <1>0, AppendProperties, LenProperties DEF w
  <2>3. ~InLine(c)
    BY <1>3, InLineWaits DEF PollPending, Goto
  <2>4. ASSUME NEW i \in 2 .. Len(w) PROVE got'[w[i]] = 0
    <3>1. CASE i <= Len(waiters)
      <4>1. w[i] = waiters[i] /\ i \in 2 .. Len(waiters) /\ waiters[i] # c
        BY <1>0, <2>2, <2>3, <2>4, <3>1 DEF InLine
      <4>2. waiters[i] \in Callers /\ got[waiters[i]] = 0
        BY <1>0, <4>1 DEF OnlyTheHeadAccumulates
      <4> QED
        BY <1>0, <2>1, <4>1, <4>2 DEF TypeOK
    <3>2. CASE ~ (i <= Len(waiters))
      <4>1. w[i] = c /\ Len(waiters) > 0
        BY <1>0, <2>2, <2>4, <3>2
      <4>2. permits = 0
        BY <1>0, <4>1 DEF OnlyTheHeadAccumulates
      <4> QED
        BY <1>0, <2>1, <4>1, <4>2 DEF TypeOK
    <3> QED
      BY <3>1, <3>2
  <2> QED
    BY <2>1, <2>4 DEF OnlyTheHeadAccumulates
<1>4. ASSUME NEW c \in Callers, DropWaiter(c) \/ Cancel(c)
      PROVE  OnlyTheHeadAccumulates'
  <2>1. /\ Unlink(c) /\ permits' = permits
        /\ got' = [got EXCEPT ![c] = 0]
    BY <1>4 DEF DropWaiter, Cancel, Unlink
  <2>2. /\ waiters' \in Seq(Callers)
        /\ \A i \in 1 .. Len(waiters') :
             \E j \in 1 .. Len(waiters) : j >= i /\ waiters'[i] = waiters[j]
    BY <2>1, UnlinkFacts
  <2>3. ASSUME waiters' # << >> PROVE permits' = 0
    <3>1. 1 \in 1 .. Len(waiters')
      BY <2>2, <2>3, LenProperties, EmptySeq
    <3>2. Len(waiters) > 0
      BY <1>0, <2>2, <3>1
    <3> QED
      BY <1>0, <2>1, <3>2 DEF OnlyTheHeadAccumulates
  <2>4. ASSUME NEW i \in 2 .. Len(waiters') PROVE got'[waiters'[i]] = 0
    <3>1. Len(waiters') \in Nat
      BY <2>2, LenProperties
    <3>2. PICK j \in 1 .. Len(waiters) : j >= i /\ waiters'[i] = waiters[j]
      BY <2>2, <3>1
    <3>3. got[waiters[j]] = 0 /\ waiters[j] \in Callers
      BY <1>0, <3>1, <3>2 DEF OnlyTheHeadAccumulates
    <3> QED
      BY <1>0, <2>1, <3>2, <3>3 DEF TypeOK
  <2> QED
    BY <2>3, <2>4 DEF OnlyTheHeadAccumulates
<1>5. ASSUME NEW c \in Callers, Release(c)
      PROVE  OnlyTheHeadAccumulates'
  <2>1. /\ waiters' = waiters /\ permits' = permits
        /\ got' = [got EXCEPT ![c] = 0]
    BY <1>5 DEF Release
  <2> QED
    BY <1>0, <2>1 DEF OnlyTheHeadAccumulates, TypeOK
<1>6. CASE DealToHead
  <2>0. PICK h \in Callers : h = Head(waiters)
    BY <1>6, DealFacts
  <2> DEFINE t == Tail(waiters)
  <2> HIDE DEF t
  <2>1. /\ h = waiters[1] /\ permits' = permits
        /\ \A d \in Callers : d # h => got'[d] = got[d]
        /\ waiters' = waiters \/ waiters' = t
        /\ Len(t) = Len(waiters) - 1
        /\ \A i \in 1 .. Len(t) : t[i] = waiters[i + 1]
        /\ Len(waiters) > 0
    <3>1. /\ h = waiters[1] /\ Len(waiters) > 0
          /\ Len(t) = Len(waiters) - 1
          /\ \A i \in 1 .. Len(t) : t[i] = waiters[i + 1]
          /\ DealtToHead(h, want[h] - got[h])
      BY <1>6, <2>0, DealFacts DEF t
    <3>2. /\ permits' = permits
          /\ waiters' = waiters \/ waiters' = t
          /\ \A d \in Callers : d # h => got'[d] = got[d]
      BY <1>0, <3>1 DEF DealtToHead, TypeOK, t
    <3> QED
      BY <3>1, <3>2
  <2>2. permits' = 0
    BY <1>0, <2>1 DEF OnlyTheHeadAccumulates
  <2>3. ASSUME NEW i \in 2 .. Len(waiters) PROVE got'[waiters[i]] = 0
    <3>1. waiters[i] # h
      BY <1>0, <2>1, <2>3 DEF IInv, LineOK
    <3> QED
      BY <1>0, <2>1, <3>1 DEF OnlyTheHeadAccumulates
  <2>4. CASE waiters' = waiters
    BY <2>2, <2>3, <2>4 DEF OnlyTheHeadAccumulates
  <2>5. CASE waiters' = t
    <3>1. \A i \in 2 .. Len(t) : i + 1 \in 2 .. Len(waiters) /\ t[i] = waiters[i + 1]
      BY <1>0, <2>1
    <3> QED
      BY <2>2, <2>3, <2>5, <3>1 DEF OnlyTheHeadAccumulates
  <2> QED
    BY <2>1, <2>4, <2>5
<1>7. CASE DealToPool
  <2>1. waiters = << >> /\ waiters' = waiters
    BY <1>7 DEF DealToPool
  <2> QED
    BY <1>0, <2>1 DEF OnlyTheHeadAccumulates
<1>8. ASSUME NEW c \in Callers,
             \/ \E n \in Sizes : Enter(c, n)
             \/ LoadQueued(c) \/ ShowEntered(c) \/ Repoll(c) \/ Elapse(c)
             \/ Leave(c) \/ Admitted(c) \/ TimedOut(c)
             \/ CountActive(c) \/ ShowActive(c) \/ UncountActive(c)
             \/ ShowInactive(c)
      PROVE  UNCHANGED semaphore
  BY <1>8 DEF Enter, LoadQueued, ShowEntered, Repoll, Elapse, Leave, Admitted,
     TimedOut, ShowLeft, CountActive, ShowActive, UncountActive, ShowInactive
<1> QED
  BY <1>1, <1>2, <1>3, <1>4, <1>5, <1>6, <1>7, <1>8 DEF Next, Proceed, Deal

-----------------------------------------------------------------------------
(* The invariant *)

\* Every conjunct constrains the present only: a stuttering step keeps it.
LEMMA StutterStep ==
  ASSUME IInv, UNCHANGED vars
  PROVE  IInv'
<1> USE DEF vars
<1>1. TypeOK' /\ Asking'
  BY DEF IInv, TypeOK, Asking
<1>2. Owned' /\ LineOK'
  BY DEF IInv, Owned, LineOK, InLine
<1>3. PermitsConserved' /\ ActiveCounts' /\ RegOK'
  BY DEF IInv, PermitsConserved, ActiveCounts, CountedPermits, RegOK
<1>4. QueuedCountsCallsAndCancels' /\ OnlyTheHeadAccumulates'
  BY DEF IInv, QueuedCountsCallsAndCancels, OnlyTheHeadAccumulates
<1> QED
  BY <1>1, <1>2, <1>3, <1>4 DEF IInv

\* A new pool satisfies the invariant.
LEMMA InitIInv ==
  ASSUME Init
  PROVE  IInv
<1>0. IsFiniteSet(Callers) /\ Capacity \in Nat /\ MaxCancels \in Nat
  BY PoolAssumption
<1>1. TypeOK
  BY <1>0, EmptySeq DEF Init, TypeOK, Steps
<1>2. Asking /\ RegOK
  BY DEF Init, Asking, RegOK
<1>3. Len(waiters) = 0
  BY EmptySeq DEF Init
<1>4. Owned /\ LineOK /\ OnlyTheHeadAccumulates
  BY <1>3 DEF Init, Owned, LineOK, OnlyTheHeadAccumulates, Owning
<1>5. PermitsConserved
  <2>1. got \in [Callers -> {0}]
    BY DEF Init
  <2>2. Total(got) = 0
    BY <2>1, TotalZero
  <2> QED
    BY <1>0, <2>2 DEF Init, PermitsConserved
<1>6. ActiveCounts
  <2>1. CountedPermits \in [Callers -> {0}]
    BY DEF Init, CountedPermits
  <2>2. Total(CountedPermits) = 0
    <3> HIDE DEF CountedPermits
    <3> QED
      BY <2>1, TotalZero
  <2> QED
    BY <2>2 DEF Init, ActiveCounts
<1>7. QueuedCountsCallsAndCancels
  <2>1. {c \in Callers : pc[c] \in Queueing} = {}
    BY DEF Init, Queueing
  <2> QED
    BY <2>1, FS_EmptySet DEF Init, QueuedCountsCallsAndCancels
<1> QED
  BY <1>1, <1>2, <1>4, <1>5, <1>6, <1>7 DEF IInv

\* The invariant holds in every reachable state.
THEOREM Inductive == Spec => []IInv
<1>1. Init => IInv
  BY InitIInv
<1>2. IInv /\ [Next]_vars => IInv'
  <2> SUFFICES ASSUME IInv, [Next]_vars PROVE IInv'
    OBVIOUS
  <2>1. CASE Next
    BY <2>1, TypeStep, AskingStep, OwnedStep, LineStep, PermitsStep,
       ActiveStep, RegStep, QueuedStep, HeadStep DEF IInv
  <2>2. CASE UNCHANGED vars
    BY <2>2, StutterStep
  <2> QED
    BY <2>1, <2>2
<1> QED
  BY <1>1, <1>2, PTL DEF Spec

-----------------------------------------------------------------------------
(* Theorems *)

\* Every variable of the half pool keeps its type, the permits and the
\* dealer's hand within the capacity.
THEOREM TypeCorrect == Spec => []TypeOK
<1>1. IInv => TypeOK
  BY DEF IInv
<1> QED
  BY <1>1, Inductive, PTL

\* However acquires, timeouts, cancellations and releases interleave, no
\* permit is lost and none is made (src/pool.rs: both acquires, both Drops).
THEOREM NoPermitLostOrMade == Spec => []PermitsConserved
<1>1. IInv => PermitsConserved
  BY DEF IInv
<1> QED
  BY <1>1, Inductive, PTL

\* A pool nobody uses is a new pool, for every number of callers.
THEOREM QuiescentPoolIsFull == Spec => []NoPermitLeak
<1>1. IInv => NoPermitLeak
  <2> SUFFICES ASSUME IInv, \A c \in Callers : pc[c] = "idle", spare = 0
               PROVE  permits = Capacity /\ active = 0 /\ waiters = << >>
    BY DEF NoPermitLeak
  <2>0. permits \in Int /\ Capacity \in Nat /\ waiters \in Seq(Callers)
    BY PoolAssumption DEF IInv, TypeOK
  <2>1. permits = Capacity
    <3>1. got \in [Callers -> {0}]
      BY DEF IInv, TypeOK, Owned, Owning
    <3>2. Total(got) = 0
      BY <3>1, TotalZero
    <3> QED
      BY <2>0, <3>2 DEF IInv, PermitsConserved
  <2>2. active = 0
    <3>1. CountedPermits \in [Callers -> {0}]
      BY DEF CountedPermits, Counted
    <3>2. Total(CountedPermits) = 0
      <4> HIDE DEF CountedPermits
      <4> QED
        BY <3>1, TotalZero
    <3> QED
      BY <3>2 DEF IInv, ActiveCounts
  <2>3. ASSUME waiters # << >> PROVE FALSE
    <3>1. 1 \in 1 .. Len(waiters)
      BY <2>0, <2>3, LenProperties, EmptySeq
    <3>2. waiters[1] \in Callers /\ pc[waiters[1]] \in {"waiting", "elapsed"}
      BY <2>0, <3>1, ElementOfSeq DEF IInv, LineOK
    <3> QED
      BY <3>2
  <2> QED
    BY <2>1, <2>2, <2>3
<1> QED
  BY <1>1, Inductive, PTL

\* `active` stays within what the semaphore has handed out: raised after the
\* permits are taken, lowered before they go back.
THEOREM ActiveWithinCapacity == Spec => []ActiveIsBacked
<1>1. IInv => ActiveIsBacked
  <2> SUFFICES ASSUME IInv PROVE active + permits + spare <= Capacity
    BY DEF ActiveIsBacked
  <2> DEFINE f == CountedPermits
  <2>1. /\ f \in [Callers -> 0 .. Capacity]
        /\ active \in Nat
        /\ active = Total(f)
    BY CountedTotal DEF IInv, ActiveCounts
  <2>2. \A c \in Callers : f[c] <= got[c]
    <3> SUFFICES ASSUME NEW c \in Callers PROVE f[c] <= got[c]
      OBVIOUS
    <3>1. got[c] \in 0 .. Capacity
      BY Ranges
    <3>2. pc[c] \in Counted => got[c] = want[c]
      BY DEF IInv, Owned, Owning, Counted
    <3> QED
      BY <3>1, <3>2 DEF CountedPermits
  <2>3. /\ IsFiniteSet(Callers) /\ Capacity \in Nat
        /\ got \in [Callers -> 0 .. Capacity]
        /\ permits \in Int /\ spare \in Int
    BY PoolAssumption DEF IInv, TypeOK
  <2> HIDE DEF f
  <2>4. Total(f) <= Total(got)
    BY <2>1, <2>2, <2>3, TotalMonotone
  <2>5. Total(got) \in Nat /\ permits + spare + Total(got) = Capacity
    BY Ranges DEF IInv, PermitsConserved
  <2> QED
    BY <2>1, <2>3, <2>4, <2>5
<1> QED
  BY <1>1, Inductive, PTL

\* The unsigned counters never wrap, so the debug_assert of Drop never fires.
THEOREM NoUnderflow == Spec => []CountersNeverUnderflow
<1>1. IInv => CountersNeverUnderflow
  <2> SUFFICES ASSUME IInv, NEW c \in Callers
               PROVE  /\ pc[c] = "holding" => active >= want[c]
                      /\ pc[c] = "uncounted" => reg[c] >= want[c]
                      /\ pc[c] \in {"granted", "refused"} => queued >= 1
    BY DEF CountersNeverUnderflow
  <2>1. pc[c] = "holding" => active >= want[c]
    <3>1. pc[c] = "holding" => CountedPermits[c] = want[c]
      BY DEF CountedPermits, Counted
    <3>2. active \in Nat /\ CountedPermits[c] <= active /\ want[c] \in Int
      BY CountedTotal, Ranges
    <3> QED
      BY <3>1, <3>2
  <2>2. pc[c] = "uncounted" => reg[c] >= want[c]
    BY DEF IInv, RegOK
  <2>3. ASSUME pc[c] \in {"granted", "refused"} PROVE queued >= 1
    <3>1. c \in InQueue
      BY <2>3 DEF InQueue, Queueing
    <3>2. Cardinality(InQueue) # 0
      BY <3>1, InQueueFinite, FS_EmptySet
    <3>3. queued = Cardinality(InQueue) + cancelled /\ cancelled \in Nat
      BY PoolAssumption DEF IInv, QueuedCountsCallsAndCancels, InQueue, TypeOK
    <3> QED
      BY <3>2, <3>3, InQueueFinite
  <2> QED
    BY <2>1, <2>2, <2>3
<1> QED
  BY <1>1, Inductive, PTL

\* `queued` is the calls inside acquire and, for ever, the ones dropped there.
THEOREM QueuedDrifts == Spec => []QueuedCountsCallsAndCancels
<1>1. IInv => QueuedCountsCallsAndCancels
  BY DEF IInv
<1> QED
  BY <1>1, Inductive, PTL

\* Permits are idle only when nobody waits, and only the caller whose turn it
\* is holds a part of its request: bulk requests cannot deadlock each other.
THEOREM NoPartialHolders == Spec => []OnlyTheHeadAccumulates
<1>1. IInv => OnlyTheHeadAccumulates
  BY DEF IInv
<1> QED
  BY <1>1, Inductive, PTL

-----------------------------------------------------------------------------
(* FifoPool: a step of the half pool is one of its steps, or none *)

\* The request of a caller as FifoPool sees it, and what it has been granted.
InPool == {"waiting", "elapsed"} \cup Owning
Ask == [c \in Callers |-> IF pc[c] \in InPool THEN want[c] ELSE 0]
Held ==
  [c \in Callers |->
     IF pc[c] \in InPool /\ got[c] = want[c] THEN got[c] ELSE 0]
Unheld == Capacity - Total(Held)

\* FifoPool's actions, told in terms of the half pool.
LEMMA FifoFree == Fifo!Free = Unheld
BY DEF Fifo!Free, Fifo!Total, Fifo!UnitsOf, Fifo!Cardinality, Cardinality, Unheld, Total, UnitsOf, Held, InPool

LEMMA FifoArrives ==
  ASSUME NEW c \in Callers, NEW n \in 1 .. Capacity,
         Ask[c] = 0, Ask' = [Ask EXCEPT ![c] = n],
         \/ /\ waiters = << >> /\ n <= Unheld
            /\ Held' = [Held EXCEPT ![c] = n] /\ waiters' = waiters
         \/ /\ ~(waiters = << >> /\ n <= Unheld)
            /\ waiters' = Append(waiters, c) /\ Held' = Held
  PROVE  Fifo!FifoNext
<1>1. Fifo!Arrive(c, n)
  BY FifoFree DEF Fifo!Arrive, Ask, Held, InPool
<1> QED
  BY <1>1 DEF Fifo!FifoNext

LEMMA FifoAdmits ==
  ASSUME waiters # << >>, Ask[Head(waiters)] <= Unheld,
         Held' = [Held EXCEPT ![Head(waiters)] = Ask[Head(waiters)]],
         waiters' = Tail(waiters), Ask' = Ask
  PROVE  Fifo!FifoNext
<1>1. Fifo!Admit
  BY FifoFree DEF Fifo!Admit, Ask, Held, InPool
<1> QED
  BY <1>1 DEF Fifo!FifoNext

LEMMA FifoAbandons ==
  ASSUME NEW c \in Callers, NEW i \in 1 .. Len(waiters), waiters[i] = c,
         waiters' = SubSeq(waiters, 1, i - 1) \o SubSeq(waiters, i + 1, Len(waiters)),
         Ask' = [Ask EXCEPT ![c] = 0], Held' = Held
  PROVE  Fifo!FifoNext
<1>1. Fifo!Abandon(c)
  BY DEF Fifo!Abandon, Ask, Held, InPool
<1> QED
  BY <1>1 DEF Fifo!FifoNext

LEMMA FifoReturns ==
  ASSUME NEW c \in Callers, Held[c] > 0,
         Held' = [Held EXCEPT ![c] = 0], Ask' = [Ask EXCEPT ![c] = 0],
         waiters' = waiters
  PROVE  Fifo!FifoNext
<1>1. Fifo!Return(c)
  BY DEF Fifo!Return, Ask, Held, InPool
<1> QED
  BY <1>1 DEF Fifo!FifoNext

LEMMA FifoStutters ==
  ASSUME waiters' = waiters, Ask' = Ask, Held' = Held
  PROVE  UNCHANGED Fifo!fifoVars
BY DEF Fifo!fifoVars, Ask, Held, InPool

\* Everybody but the head of the line holds all it owns.
LEMMA HeldAll ==
  ASSUME IInv
  PROVE  /\ Held \in [Callers -> 0 .. Capacity]
         /\ Ask \in [Callers -> 0 .. Capacity]
         /\ \A c \in Callers :
              Held[c] = IF waiters # << >> /\ c = Head(waiters) THEN 0 ELSE got[c]
<1>1. \A c \in Callers : want[c] \in 0 .. Capacity /\ got[c] \in 0 .. Capacity
  BY Ranges
<1>2. Held \in [Callers -> 0 .. Capacity] /\ Ask \in [Callers -> 0 .. Capacity]
  BY <1>1, PoolAssumption DEF Held, Ask
<1>3. ASSUME NEW c \in Callers
      PROVE  Held[c] = IF waiters # << >> /\ c = Head(waiters) THEN 0 ELSE got[c]
  <2>1. waiters \in Seq(Callers)
    BY DEF IInv, TypeOK
  <2>2. Held[c] = IF pc[c] \in InPool /\ got[c] = want[c] THEN got[c] ELSE 0
    BY DEF Held
  <2>3. CASE InLine(c)
    <3>1. PICK i \in 1 .. Len(waiters) : waiters[i] = c
      BY <2>3 DEF InLine
    <3>2. pc[c] \in {"waiting", "elapsed"} /\ got[c] < want[c]
      BY <2>3, InLineWaits DEF IInv, Owned
    <3>3. Held[c] = 0
      BY <1>1, <2>2, <3>2
    <3>4. waiters # << >> /\ Head(waiters) = waiters[1]
      BY <2>1, <3>1, EmptySeq, HeadTailProperties
    <3>5. i = 1 \/ got[c] = 0
      BY <2>1, <3>1 DEF IInv, OnlyTheHeadAccumulates
    <3> QED
      BY <3>1, <3>3, <3>4, <3>5
  <2>4. CASE ~InLine(c)
    <3>1. ~(waiters # << >> /\ c = Head(waiters))
      <4>1. waiters # << >> => Head(waiters) = waiters[1] /\ 1 \in 1 .. Len(waiters)
        BY <2>1, HeadTailProperties
      <4> QED
        BY <2>4, <4>1 DEF InLine
    <3>2. Held[c] = got[c]
      BY <2>2, <2>4 DEF IInv, Owned, InPool
    <3> QED
      BY <3>1, <3>2
  <2> QED
    BY <2>3, <2>4
<1> QED
  BY <1>2, <1>3

\* What FifoPool has free is what the semaphore, the dealer and the head have.
LEMMA FreeForTheHead ==
  ASSUME IInv
  PROVE  Unheld = permits + spare
                    + (IF waiters = << >> THEN 0 ELSE got[Head(waiters)])
<1>1. /\ IsFiniteSet(Callers) /\ Capacity \in Nat
      /\ got \in [Callers -> 0 .. Capacity]
      /\ permits \in 0 .. Capacity /\ spare \in 0 .. Capacity
      /\ permits + spare + Total(got) = Capacity
      /\ waiters \in Seq(Callers)
  BY PoolAssumption DEF IInv, TypeOK, PermitsConserved
<1>2. Total(got) \in Nat
  BY <1>1, UnitsFinite
<1>3. CASE waiters = << >>
  <2>1. Held = got
    BY <1>1, <1>3, HeldAll
  <2> QED
    BY <1>1, <1>2, <1>3, <2>1 DEF Unheld
<1>4. CASE waiters # << >>
  <2>1. PICK h \in Callers : h = Head(waiters)
    BY <1>1, <1>4, HeadTailProperties
  <2>2. /\ Held \in [Callers -> 0 .. Capacity] /\ Held[h] = 0
        /\ \A d \in Callers : d # h => got[d] = Held[d]
    BY <1>4, <2>1, HeldAll
  <2>3. Total(got) = Total(Held) - Held[h] + got[h]
    <3> DEFINE f == Held
               g == got
    <3>1. f \in [Callers -> 0 .. Capacity] /\ g \in [Callers -> 0 .. Capacity]
      BY <1>1, <2>2
    <3>2. \A d \in Callers : d # h => g[d] = f[d]
      BY <2>2
    <3> HIDE DEF Held, f, g
    <3>3. IsFiniteSet(Callers) /\ Capacity \in Nat
      BY <1>1
    <3>4. Total(g) = Total(f) - f[h] + g[h]
      BY <3>1, <3>2, <3>3, TotalUpdate
    <3> QED
      BY <3>4 DEF f, g
  <2>4. Total(Held) \in Nat
    <3> HIDE DEF Held
    <3> QED
      BY <1>1, <2>2, UnitsFinite
  <2>5. got[h] \in Nat
    BY <1>1
  <2> QED
    BY <1>1, <1>2, <1>4, <2>1, <2>2, <2>3, <2>4, <2>5 DEF Unheld
<1> QED
  BY <1>3, <1>4

\* The request of a caller that is being served, or that gives up, changes for
\* nobody else.
LEMMA ViewKept ==
  ASSUME IInv, NEW c \in Callers,
         \A d \in Callers : d # c =>
           /\ pc'[d] \in InPool <=> pc[d] \in InPool
           /\ want'[d] = want[d] /\ got'[d] = got[d]
  PROVE  /\ Ask' = [Ask EXCEPT ![c] = Ask'[c]]
         /\ Held' = [Held EXCEPT ![c] = Held'[c]]
         /\ Ask'[c] = IF pc'[c] \in InPool THEN want'[c] ELSE 0
         /\ Held'[c] = IF pc'[c] \in InPool /\ got'[c] = want'[c]
                       THEN got'[c] ELSE 0
BY DEF Ask, Held

\* And for nobody at all where the caller keeps its own.
LEMMA ViewSame ==
  ASSUME \A d \in Callers :
           /\ pc'[d] \in InPool <=> pc[d] \in InPool
           /\ pc[d] \in InPool =>
                /\ want'[d] = want[d]
                /\ (IF got'[d] = want'[d] THEN got'[d] ELSE 0)
                     = (IF got[d] = want[d] THEN got[d] ELSE 0)
  PROVE  Ask' = Ask /\ Held' = Held
<1>1. ASSUME NEW d \in Callers
      PROVE  /\ (IF pc'[d] \in InPool THEN want'[d] ELSE 0)
                  = (IF pc[d] \in InPool THEN want[d] ELSE 0)
             /\ (IF pc'[d] \in InPool /\ got'[d] = want'[d] THEN got'[d] ELSE 0)
                  = (IF pc[d] \in InPool /\ got[d] = want[d] THEN got[d] ELSE 0)
  OBVIOUS
<1> QED
  BY <1>1 DEF Ask, Held

\* A place given up in the middle of the line closes up.
LEMMA WithoutIsCut ==
  ASSUME NEW S, NEW s \in Seq(S), NEW i \in 1 .. Len(s),
         \A j, k \in 1 .. Len(s) : s[j] = s[k] => j = k
  PROVE  Without(s, s[i]) = SubSeq(s, 1, i - 1) \o SubSeq(s, i + 1, Len(s))
<1> DEFINE w == Without(s, s[i])
           a == SubSeq(s, 1, i - 1)
           b == SubSeq(s, i + 1, Len(s))
<1>1. w = [j \in 1 .. (Len(s) - 1) |-> IF j < i THEN s[j] ELSE s[j + 1]]
  <2>1. (CHOOSE j \in 1 .. Len(s) : s[j] = s[i]) = i
    OBVIOUS
  <2> QED
    BY <2>1 DEF Without
<1>2. Len(s) \in Nat /\ i \in Nat /\ 1 <= i /\ i <= Len(s)
  OBVIOUS
<1>3. /\ a \in Seq(S) /\ Len(a) = i - 1
      /\ \A j \in 1 .. (i - 1) : a[j] = s[j]
  BY <1>2, SubSeqProperties
<1>4. /\ b \in Seq(S) /\ Len(b) = Len(s) - i
      /\ \A j \in 1 .. (Len(s) - i) : b[j] = s[i + j]
  BY <1>2, SubSeqProperties
<1> HIDE DEF a, b, w
<1>5. /\ a \o b \in Seq(S) /\ Len(a \o b) = Len(s) - 1
      /\ \A j \in 1 .. (Len(s) - 1) :
           (a \o b)[j] = IF j <= i - 1 THEN a[j] ELSE b[j - (i - 1)]
  <2>1. /\ a \o b \in Seq(S)
        /\ Len(a \o b) = Len(a) + Len(b)
        /\ \A j \in 1 .. (Len(a) + Len(b)) :
             (a \o b)[j] = IF j <= Len(a) THEN a[j] ELSE b[j - Len(a)]
    <3>1. a \in Seq(S) /\ b \in Seq(S)
      BY <1>3, <1>4
    <3> QED
      BY ONLY <3>1, ConcatProperties
  <2>2. Len(a) + Len(b) = Len(s) - 1 /\ Len(a) = i - 1
    BY <1>2, <1>3, <1>4
  <2> QED
    BY <2>1, <2>2
<1>6. ASSUME NEW j \in 1 .. (Len(s) - 1)
      PROVE  (a \o b)[j] = IF j < i THEN s[j] ELSE s[j + 1]
  <2>1. CASE j < i
    BY <1>2, <1>3, <1>5, <2>1
  <2>2. CASE ~(j < i)
    <3>1. j - (i - 1) \in 1 .. (Len(s) - i) /\ i + (j - (i - 1)) = j + 1
      BY <1>2, <2>2
    <3>2. b[j - (i - 1)] = s[j + 1]
      BY <1>4, <3>1
    <3>3. (a \o b)[j] = b[j - (i - 1)]
      BY <1>2, <1>5, <2>2
    <3> QED
      BY <2>2, <3>2, <3>3
  <2> QED
    BY <2>1, <2>2
<1>7. a \o b = [j \in 1 .. (Len(s) - 1) |-> (a \o b)[j]]
  <2>1. a \o b \in [1 .. Len(a \o b) -> S]
    BY <1>5, LenProperties
  <2> HIDE DEF a, b
  <2> QED
    BY <1>5, <2>1
<1> QED
  BY <1>1, <1>6, <1>7 DEF a, b, w

\* Giving up a place, whether the dealer has served it meanwhile or not.
LEMMA UnlinkImplements ==
  ASSUME IInv, NEW c \in Callers, Unlink(c),
         pc[c] \in {"waiting", "elapsed"}, pc' = [pc EXCEPT ![c] = pc'[c]],
         pc'[c] \notin InPool, want' = [want EXCEPT ![c] = want'[c]]
  PROVE  Fifo!FifoNext
<1>1. /\ pc \in [Callers -> Steps] /\ got \in [Callers -> 0 .. Capacity]
      /\ want[c] \in Nat \ {0} /\ got[c] \in 0 .. Capacity
      /\ want \in [Callers -> {0} \cup Sizes] /\ waiters \in Seq(Callers)
  <2>1. want[c] \in Sizes /\ Sizes \subseteq 1 .. Capacity /\ Capacity \in Nat
    <3>1. pc[c] # "idle"
      OBVIOUS
    <3> QED
      BY <3>1, PoolAssumption DEF IInv, Asking
  <2>2. want[c] \in Nat \ {0}
    <3>1. want[c] \in 1 .. Capacity
      BY <2>1
    <3> QED
      BY ONLY <3>1, <2>1
  <2> QED
    BY <2>2 DEF IInv, TypeOK
<1>2. got' = [got EXCEPT ![c] = 0] /\ waiters' = Without(waiters, c)
  BY DEF Unlink
<1>3. /\ Ask' = [Ask EXCEPT ![c] = 0]
      /\ Held' = [Held EXCEPT ![c] = 0]
  <2>1. \A d \in Callers : d # c =>
           /\ pc'[d] \in InPool <=> pc[d] \in InPool
           /\ want'[d] = want[d] /\ got'[d] = got[d]
    BY <1>1, <1>2
  <2> QED
    BY <2>1, ViewKept
<1>4. CASE InLine(c)
  <2>1. PICK i \in 1 .. Len(waiters) : waiters[i] = c
    BY <1>4 DEF InLine
  <2>2. waiters' = SubSeq(waiters, 1, i - 1) \o SubSeq(waiters, i + 1, Len(waiters))
    BY <1>1, <1>2, <2>1, WithoutIsCut DEF IInv, LineOK
  <2>3. Held[c] = 0 /\ Held \in [Callers -> 0 .. Capacity]
    <3>1. got[c] < want[c]
      BY <1>4 DEF IInv, Owned
    <3>2. Held[c] = IF pc[c] \in InPool /\ got[c] = want[c] THEN got[c] ELSE 0
      BY DEF Held
    <3> QED
      BY <1>1, <3>1, <3>2, HeldAll
  <2>4. Held' = Held
    BY <1>3, <2>3
  <2> HIDE DEF Held, Ask
  <2> QED
    BY <1>3, <2>1, <2>2, <2>4, FifoAbandons
<1>5. CASE ~InLine(c)
  <2>1. waiters' = waiters
    BY <1>2, <1>5 DEF Without, InLine
  <2>2. Held[c] > 0
    <3>1. got[c] = want[c]
      BY <1>5 DEF IInv, Owned
    <3>2. Held[c] = want[c]
      BY <3>1 DEF Held, InPool
    <3> QED
      BY <1>1, <3>2
  <2> HIDE DEF Held, Ask
  <2> QED
    BY <1>3, <2>1, <2>2, FifoReturns
<1> QED
  BY <1>4, <1>5

\* The steps that FifoPool does not see.
LEMMA QuietImplements ==
  ASSUME IInv, NEW c \in Callers,
         \/ \E n \in Sizes : Enter(c, n)
         \/ LoadQueued(c) \/ ShowEntered(c) \/ Repoll(c) \/ Elapse(c)
         \/ Leave(c) \/ Admitted(c) \/ TimedOut(c)
         \/ CountActive(c) \/ ShowActive(c) \/ UncountActive(c) \/ ShowInactive(c)
  PROVE  UNCHANGED Fifo!fifoVars
<1>1. waiters' = waiters /\ got' = got /\ pc \in [Callers -> Steps]
      /\ want \in [Callers -> {0} \cup Sizes]
  BY DEF Enter, LoadQueued, ShowEntered, Repoll, Elapse, Leave, Admitted,
     TimedOut, CountActive, ShowActive, UncountActive, ShowInactive, ShowLeft,
     semaphore, IInv, TypeOK
<1>2. ASSUME NEW d \in Callers
      PROVE  /\ pc'[d] \in InPool <=> pc[d] \in InPool
             /\ pc[d] \in InPool => want'[d] = want[d]
  BY <1>1 DEF Enter, LoadQueued, ShowEntered, Repoll, Elapse, Leave, Admitted,
     TimedOut, CountActive, ShowActive, UncountActive, ShowInactive, ShowLeft,
     Goto, InPool, Owning
<1>3. Ask' = Ask /\ Held' = Held
  BY <1>1, <1>2, ViewSame
<1> QED
  BY <1>1, <1>3, FifoStutters

LEMMA ReadyImplements ==
  ASSUME IInv, NEW c \in Callers, PollReady(c)
  PROVE  Fifo!FifoNext
<1>1. /\ pc \in [Callers -> Steps] /\ got \in [Callers -> 0 .. Capacity]
      /\ permits \in Nat /\ spare = 0 /\ permits >= want[c]
      /\ pc[c] = "polling" /\ pc' = [pc EXCEPT ![c] = "granted"]
      /\ got' = [got EXCEPT ![c] = want[c]] /\ want' = want
      /\ waiters' = waiters
  BY DEF PollReady, Goto, MutexFree, IInv, TypeOK
<1>2. want[c] \in 1 .. Capacity
  BY <1>1, PoolAssumption DEF IInv, Asking
<1>3. waiters = << >>
  BY <1>1, <1>2 DEF IInv, OnlyTheHeadAccumulates
<1>4. want[c] <= Unheld
  BY <1>1, <1>2, <1>3, FreeForTheHead
<1>5. /\ Ask' = [Ask EXCEPT ![c] = want[c]] /\ Ask[c] = 0
      /\ Held' = [Held EXCEPT ![c] = want[c]]
  <2>1. \A d \in Callers : d # c =>
           /\ pc'[d] \in InPool <=> pc[d] \in InPool
           /\ want'[d] = want[d] /\ got'[d] = got[d]
    BY <1>1
  <2>2. pc'[c] \in InPool /\ pc[c] \notin InPool /\ got'[c] = want'[c]
    BY <1>1 DEF InPool, Owning
  <2>3. Ask[c] = 0
    BY <2>2 DEF Ask
  <2> QED
    BY <1>1, <2>1, <2>2, <2>3, ViewKept
<1> HIDE DEF Ask, Held
<1> QED
  BY <1>1, <1>2, <1>3, <1>4, <1>5, FifoArrives

LEMMA PendingImplements ==
  ASSUME IInv, NEW c \in Callers, PollPending(c)
  PROVE  Fifo!FifoNext
<1>1. /\ pc \in [Callers -> Steps] /\ got \in [Callers -> 0 .. Capacity]
      /\ permits \in Nat /\ spare = 0 /\ permits < want[c]
      /\ pc[c] = "polling" /\ pc' = [pc EXCEPT ![c] = "waiting"]
      /\ got' = [got EXCEPT ![c] = permits] /\ want' = want
      /\ waiters' = Append(waiters, c)
  BY DEF PollPending, Goto, MutexFree, IInv, TypeOK
<1>2. want[c] \in 1 .. Capacity
  BY <1>1, PoolAssumption DEF IInv, Asking
<1>3. ~(waiters = << >> /\ want[c] <= Unheld)
  BY <1>1, <1>2, FreeForTheHead
<1>4. /\ Ask' = [Ask EXCEPT ![c] = want[c]] /\ Ask[c] = 0
      /\ Held' = [Held EXCEPT ![c] = 0] /\ Held[c] = 0
  <2>1. \A d \in Callers : d # c =>
           /\ pc'[d] \in InPool <=> pc[d] \in InPool
           /\ want'[d] = want[d] /\ got'[d] = got[d]
    BY <1>1
  <2>2. pc'[c] \in InPool /\ pc[c] \notin InPool /\ got'[c] # want'[c]
    BY <1>1, <1>2 DEF InPool, Owning
  <2>3. Ask[c] = 0 /\ Held[c] = 0
    BY <2>2 DEF Ask, Held
  <2> QED
    BY <1>1, <2>1, <2>2, <2>3, ViewKept
<1>5. Held' = Held
  BY <1>4, HeldAll
<1> HIDE DEF Ask, Held
<1> QED
  BY <1>1, <1>2, <1>3, <1>4, <1>5, FifoArrives

LEMMA ReleaseImplements ==
  ASSUME IInv, NEW c \in Callers, Release(c)
  PROVE  Fifo!FifoNext
<1>1. /\ pc \in [Callers -> Steps] /\ got \in [Callers -> 0 .. Capacity]
      /\ want \in [Callers -> {0} \cup Sizes]
      /\ pc[c] = "dropping" /\ pc' = [pc EXCEPT ![c] = "idle"]
      /\ got' = [got EXCEPT ![c] = 0] /\ want' = [want EXCEPT ![c] = 0]
      /\ waiters' = waiters
  BY DEF Release, Goto, IInv, TypeOK
<1>2. want[c] \in 1 .. Capacity
  BY <1>1, PoolAssumption DEF IInv, Asking
<1>3. /\ Ask' = [Ask EXCEPT ![c] = 0]
      /\ Held' = [Held EXCEPT ![c] = 0]
  <2>1. \A d \in Callers : d # c =>
           /\ pc'[d] \in InPool <=> pc[d] \in InPool
           /\ want'[d] = want[d] /\ got'[d] = got[d]
    BY <1>1
  <2>2. pc'[c] \notin InPool
    BY <1>1 DEF InPool, Owning
  <2> QED
    BY <2>1, <2>2, ViewKept
<1>4. Held[c] > 0
  <2>1. pc[c] \in Owning
    BY <1>1 DEF Owning
  <2>2. got[c] = want[c]
    BY <2>1 DEF IInv, Owned
  <2>3. Held[c] = want[c]
    BY <2>1, <2>2 DEF Held, InPool
  <2> QED
    BY <1>2, <2>3
<1> HIDE DEF Ask, Held
<1> QED
  BY <1>1, <1>3, <1>4, FifoReturns

\* The dealer admits the head when it has all it asked for, and nobody else.
LEMMA DealImplements ==
  ASSUME IInv, DealToHead
  PROVE  [Fifo!FifoNext]_(Fifo!fifoVars)
<1>1. PICK h : h = Head(waiters)
  OBVIOUS
<1>2. /\ h \in Callers /\ waiters # << >> /\ InLine(h)
      /\ pc[h] \in {"waiting", "elapsed"}
      /\ want[h] \in 0 .. Capacity /\ got[h] \in 0 .. Capacity
      /\ want[h] - got[h] \in 1 .. Capacity
      /\ pc' = pc /\ want' = want
      /\ got \in [Callers -> 0 .. Capacity]
      /\ spare \in Nat /\ permits \in Nat
  <2>1. /\ waiters # << >> /\ pc' = pc /\ want' = want
        /\ got \in [Callers -> 0 .. Capacity]
        /\ spare \in Nat /\ permits \in Nat
    BY DEF DealToHead, IInv, TypeOK
  <2> QED
    BY <1>1, <2>1, DealFacts
<1>3. CASE spare >= want[h] - got[h]
  <2>1. got' = [got EXCEPT ![h] = want[h]] /\ waiters' = Tail(waiters)
    BY <1>1, <1>3 DEF DealToHead
  <2>2. want[h] <= Unheld
    BY <1>1, <1>2, <1>3, FreeForTheHead
  <2>3. Ask' = Ask /\ Ask[h] = want[h]
    BY <1>2 DEF Ask, InPool
  <2>4. Held' = [Held EXCEPT ![h] = want[h]]
    <3>1. \A d \in Callers : d # h =>
             /\ pc'[d] \in InPool <=> pc[d] \in InPool
             /\ want'[d] = want[d] /\ got'[d] = got[d]
      BY <1>2, <2>1
    <3>2. pc'[h] \in InPool /\ got'[h] = want[h] /\ want'[h] = want[h]
      BY <1>2, <2>1 DEF InPool
    <3> QED
      BY <1>2, <3>1, <3>2, ViewKept
  <2> HIDE DEF Ask, Held
  <2> QED
    BY <1>1, <1>2, <2>1, <2>2, <2>3, <2>4, FifoAdmits
<1>4. CASE ~(spare >= want[h] - got[h])
  <2>1. got' = [got EXCEPT ![h] = got[h] + spare] /\ waiters' = waiters
    BY <1>1, <1>4 DEF DealToHead
  <2>2. \A d \in Callers :
           /\ pc'[d] \in InPool <=> pc[d] \in InPool
           /\ pc[d] \in InPool =>
                /\ want'[d] = want[d]
                /\ (IF got'[d] = want'[d] THEN got'[d] ELSE 0)
                     = (IF got[d] = want[d] THEN got[d] ELSE 0)
    BY <1>2, <1>4, <2>1
  <2>3. Ask' = Ask /\ Held' = Held
    BY <2>2, ViewSame
  <2> QED
    BY <2>1, <2>3, FifoStutters
<1> QED
  BY <1>3, <1>4

LEMMA PutBackImplements ==
  ASSUME DealToPool \/ UNCHANGED vars
  PROVE  UNCHANGED Fifo!fifoVars
<1>1. waiters' = waiters /\ Ask' = Ask /\ Held' = Held
  BY DEF DealToPool, vars, Ask, Held
<1> QED
  BY <1>1, FifoStutters

\* "Callers queue in FIFO order" (src/pool.rs, docs/design.md): the half pool
\* with its dealer, counters, timers and cancellations takes the steps of
\* FifoPool and no others - requests are served whole, in order of arrival.
THEOREM StaysFifo == Spec => KeepsFifoOrder
<1>1. Init => Fifo!FifoInit
  BY DEF Init, Fifo!FifoInit, Owning
<1>2. IInv /\ [Next]_vars => [Fifo!FifoNext]_(Fifo!fifoVars)
  <2> SUFFICES ASSUME IInv, [Next]_vars
               PROVE  [Fifo!FifoNext]_(Fifo!fifoVars)
    OBVIOUS
  <2>1. ASSUME NEW c \in Callers, DropWaiter(c) \/ Cancel(c)
        PROVE  Fifo!FifoNext
    <3>1. /\ Unlink(c) /\ pc[c] \in {"waiting", "elapsed"}
          /\ pc' = [pc EXCEPT ![c] = pc'[c]] /\ pc'[c] \in {"refused", "idle"}
          /\ want' = [want EXCEPT ![c] = want'[c]]
      <4>1. pc \in [Callers -> Steps] /\ want \in [Callers -> {0} \cup Sizes]
        BY DEF IInv, TypeOK
      <4> QED
        BY <2>1, <4>1 DEF DropWaiter, Cancel, Goto
    <3>2. pc'[c] \notin InPool
      BY <3>1 DEF InPool, Owning
    <3> QED
      BY <3>1, <3>2, UnlinkImplements
  <2>2. CASE Next
    BY <2>1, <2>2, QuietImplements, ReadyImplements, PendingImplements,
       ReleaseImplements, DealImplements, PutBackImplements
    DEF Next, Proceed, Deal
  <2> QED
    BY <2>2, PutBackImplements
<1> QED
  BY <1>1, <1>2, Inductive, PTL DEF Spec, KeepsFifoOrder
=============================================================================
