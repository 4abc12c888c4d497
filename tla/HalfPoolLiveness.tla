-------------------------- MODULE HalfPoolLiveness --------------------------
(***************************************************************************)
(* What must happen in one half of the pool, under either kind of timeout  *)
(* it may be built with: one that callers run into, or one so long that    *)
(* none does.  With the first nothing is assumed of the holders of         *)
(* permits; with the second they finish.                                   *)
(***************************************************************************)
EXTENDS HalfPool

CONSTANT Extra   \* bound: callers that call only where no deadline passes, for
                 \* one permit

VARIABLE timeout \* HalfPool.timeout: "short" or "never"

liveVars == <<vars, timeout>>

LiveInit == Init /\ timeout \in {"short", "never"}

\* Deadlines pass, and futures are dropped.
HastyNext ==
  /\ timeout = "short"
  /\ \/ \E c \in Callers \ Extra :
          \/ \E n \in Sizes : Enter(c, n)
          \/ Proceed(c)
          \/ Elapse(c)
          \/ Cancel(c)
          \/ UncountActive(c)
     \/ Deal

\* No deadline passes and no future is dropped.
PatientNext ==
  /\ timeout = "never"
  /\ \/ \E c \in Callers :
          \/ \E n \in Sizes : (c \in Extra => n = 1) /\ Enter(c, n)
          \/ Proceed(c)
          \/ UncountActive(c)
     \/ Deal

LiveNext == (HastyNext \/ PatientNext) /\ UNCHANGED timeout

\* The runtime keeps polling a task that can go on; the mutex is held for a
\* bounded time and a thread that wants it is not overtaken for ever, hence
\* strong fairness.  Nothing obliges a caller to ask or to be cancelled.
Running ==
  /\ \A c \in Callers : SF_liveVars(Proceed(c) /\ UNCHANGED timeout)
  /\ WF_liveVars(Deal /\ UNCHANGED timeout)

\* A short timer fires.
TimersFire ==
  \A c \in Callers \ Extra : WF_liveVars(timeout = "short" /\ Elapse(c) /\ UNCHANGED timeout)

\* Where no deadline passes, a holder finishes; otherwise it may keep its
\* permits for ever.
HoldersFinish ==
  \A c \in Callers :
    WF_liveVars(timeout = "never" /\ UncountActive(c) /\ UNCHANGED timeout)

LiveSpec ==
  /\ LiveInit /\ [][LiveNext]_liveVars
  /\ Running /\ TimersFire /\ HoldersFinish

-----------------------------------------------------------------------------
(* Properties *)

\* All of FifoPool's promise: every step is one of FifoPool's or none, and the
\* head is served as soon as the permits are there, however the dealer, the
\* callers, their deadlines and their cancellations interleave.
ImplementsFifoPool == Fifo!FifoSpec

\* "No infinite blocking": with timers and a running executor every acquire
\* returns, whatever the holders of permits do.
EveryAcquireReturns ==
  \A c \in Callers \ Extra :
    pc[c] \in Queueing ~> pc[c] \in {"idle", "holding"}

\* "Callers served in order.  No starvation": without deadlines every request,
\* bulk or single, is granted if holders finish.
NoStarvation ==
  \A c \in Callers :
    (timeout = "never" /\ pc[c] = "polling") ~> pc[c] = "holding"
=============================================================================
