------------------------------ MODULE FifoPool ------------------------------
(***************************************************************************)
(* What one half of the connection pool promises its callers: a number of  *)
(* permits handed out all at once per request, in order of arrival.  It is *)
(* the contract of docs/design.md ("FIFO semaphore", "acquire_bulk")       *)
(* without the semaphore's bookkeeping, the counters or the gauges, which  *)
(* HalfPool adds and which is shown to implement this module.              *)
(***************************************************************************)
EXTENDS Integers, Sequences, Totals

CONSTANTS
  Callers,   \* tasks that may ask for permits
  Capacity   \* permits in this half of the pool

VARIABLES
  line,      \* callers waiting, in order of arrival
  ask,       \* permits each caller has asked for, 0 when it wants none
  held       \* permits each caller owns

fifoVars == <<line, ask, held>>

Free == Capacity - Total(held)

FifoInit ==
  /\ line = << >>
  /\ ask = [c \in Callers |-> 0]
  /\ held = [c \in Callers |-> 0]

\* A request is granted on the spot only if nobody waits and enough is free.
Arrive(c, n) ==
  /\ ask[c] = 0
  /\ ask' = [ask EXCEPT ![c] = n]
  /\ IF line = << >> /\ n <= Free
     THEN held' = [held EXCEPT ![c] = n] /\ UNCHANGED line
     ELSE line' = Append(line, c) /\ UNCHANGED held

\* The caller that has waited longest gets everything it asked for.
Admit ==
  /\ line # << >>
  /\ ask[Head(line)] <= Free
  /\ held' = [held EXCEPT ![Head(line)] = ask[Head(line)]]
  /\ line' = Tail(line)
  /\ UNCHANGED ask

\* A caller gives up its place (timeout or cancellation).
Abandon(c) ==
  /\ \E i \in 1 .. Len(line) :
       /\ line[i] = c
       /\ line' = SubSeq(line, 1, i - 1) \o SubSeq(line, i + 1, Len(line))
  /\ ask' = [ask EXCEPT ![c] = 0]
  /\ UNCHANGED held

Return(c) ==
  /\ held[c] > 0
  /\ held' = [held EXCEPT ![c] = 0]
  /\ ask' = [ask EXCEPT ![c] = 0]
  /\ UNCHANGED line

FifoNext ==
  \/ \E c \in Callers, n \in 1 .. Capacity : Arrive(c, n)
  \/ Admit
  \/ \E c \in Callers : Abandon(c) \/ Return(c)

\* Free permits are never kept from a caller whose turn it is.
FifoSpec == FifoInit /\ [][FifoNext]_fifoVars /\ WF_fifoVars(Admit)
=============================================================================
