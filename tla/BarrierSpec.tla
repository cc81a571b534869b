---------------------------- MODULE BarrierSpec ----------------------------
(***************************************************************************)
(* What the worker pool of src/bench.c relies on when it calls             *)
(* vb_barrier_wait: a barrier that the same threads use over and over, and *)
(* from which nobody returns until everybody has come to it that often.    *)
(*                                                                         *)
(* arrived[t] counts the calls thread t has made, passed[t] the calls it   *)
(* has returned from.  The pthread barrier of the platforms that have one  *)
(* is outside the repository; Barrier.tla shows that the mutex and         *)
(* condition-variable fallback of include/vb_threads.h implements this.    *)
(***************************************************************************)
EXTENDS Naturals

CONSTANTS Thread,     \* the threads that share the barrier
          MaxRounds   \* bound: how often each thread comes to the barrier

VARIABLES arrived,    \* calls of vb_barrier_wait made, per thread
          passed      \* calls of vb_barrier_wait returned from, per thread

vars == <<arrived, passed>>

Init ==
  /\ arrived = [t \in Thread |-> 0]
  /\ passed  = [t \in Thread |-> 0]

(* Everybody but t has come to the barrier r times. *)
OthersReached(t, r) == \A s \in Thread \ {t} : arrived[s] >= r

\* A thread calls vb_barrier_wait.
Arrive(t) ==
  /\ arrived[t] = passed[t]
  /\ arrived[t] < MaxRounds
  /\ arrived' = [arrived EXCEPT ![t] = @ + 1]
  /\ UNCHANGED passed

\* The call returns: only after everybody made as many calls.
Pass(t) ==
  /\ passed[t] < arrived[t]
  /\ OthersReached(t, arrived[t])
  /\ passed' = [passed EXCEPT ![t] = @ + 1]
  /\ UNCHANGED arrived

\* The last thread to come opens the barrier and does not block at all.
ArriveAndPass(t) ==
  /\ arrived[t] = passed[t]
  /\ arrived[t] < MaxRounds
  /\ OthersReached(t, arrived[t] + 1)
  /\ arrived' = [arrived EXCEPT ![t] = @ + 1]
  /\ passed'  = [passed EXCEPT ![t] = @ + 1]

Next == \E t \in Thread : Arrive(t) \/ Pass(t) \/ ArriveAndPass(t)

Spec == Init /\ [][Next]_vars

=============================================================================
