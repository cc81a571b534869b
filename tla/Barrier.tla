------------------------------ MODULE Barrier ------------------------------
(***************************************************************************)
(* The fallback barrier of include/vb_threads.h: a mutex, a condition      *)
(* variable, a count of waiting threads and a generation.  It is what      *)
(* carries the worker pool on a platform without pthread_barrier_t.        *)
(*                                                                         *)
(* vb_barrier_wait runs under the mutex except while it sleeps, so it has  *)
(* two kinds of atomic section: from the lock to the sleep or the unlock   *)
(* (WaitLast, WaitBlock), and from a wake-up to the next sleep or the      *)
(* unlock (Return, SleepAgain).                                            *)
(*                                                                         *)
(* The generation is an unsigned int and wraps; the model keeps it modulo  *)
(* GenMod, which is 2^32 in the code and may be as small as 2.             *)
(***************************************************************************)
EXTENDS Naturals, FiniteSets

CONSTANTS Thread,     \* the threads; the threshold is their number
          GenMod,     \* the generation counts modulo this
          MaxRounds   \* bound: how often each thread comes to the barrier

ASSUME ThreadAssumption    == IsFiniteSet(Thread) /\ Thread # {}
ASSUME GenModAssumption    == GenMod \in Nat /\ GenMod >= 2
ASSUME MaxRoundsAssumption == MaxRounds \in Nat

VARIABLES waiting,     \* threads that came since the barrier last opened
          generation,  \* counts the openings, modulo GenMod
          gen,         \* the local of vb_barrier_wait: generation on entry
          sleeping,    \* threads blocked in pthread_cond_wait
          arrived,     \* history: calls made, per thread
          passed       \* history: calls returned from, per thread

barrierVars == <<waiting, generation, gen, sleeping, arrived, passed>>

threshold == Cardinality(Thread)

Inside(t) == passed[t] < arrived[t]

-----------------------------------------------------------------------------

\* vb_barrier_init.
FallbackInit ==
  /\ waiting    = 0
  /\ generation = 0
  /\ gen        = [t \in Thread |-> 0]
  /\ sleeping   = {}
  /\ arrived    = [t \in Thread |-> 0]
  /\ passed     = [t \in Thread |-> 0]

Enter(t) ==
  /\ ~Inside(t)
  /\ arrived[t] < MaxRounds
  /\ gen'     = [gen EXCEPT ![t] = generation]
  /\ arrived' = [arrived EXCEPT ![t] = @ + 1]

(* WaitLast_NoWrap and its like are slips the properties must catch. *)

\* The generation is taken for a counter that never wraps.
WaitLast_NoWrap(t) ==
  /\ Enter(t)
  /\ waiting + 1 = threshold
  /\ waiting'    = 0
  /\ generation' = generation + 1
  /\ sleeping'   = {}
  /\ passed'     = [passed EXCEPT ![t] = @ + 1]

\* The count is not reset when the barrier opens.
WaitLast_NoReset(t) ==
  /\ Enter(t)
  /\ waiting + 1 = threshold
  /\ generation' = (generation + 1) % GenMod
  /\ sleeping'   = {}
  /\ passed'     = [passed EXCEPT ![t] = @ + 1]
  /\ UNCHANGED waiting

\* The thread that makes up the number: open, wake everybody, return.
WaitLast(t) ==
  /\ Enter(t)
  /\ waiting + 1 = threshold
  /\ waiting'    = 0
  /\ generation' = (generation + 1) % GenMod
  /\ sleeping'   = {}
  /\ passed'     = [passed EXCEPT ![t] = @ + 1]

\* Any other thread: counted, and put to sleep.
WaitBlock(t) ==
  /\ Enter(t)
  /\ waiting + 1 # threshold
  /\ waiting' = waiting + 1
  /\ sleeping' = sleeping \cup {t}
  /\ UNCHANGED <<generation, passed>>

\* Any wake-up is taken for the opening of the barrier.
Return_NoRecheck(t) ==
  /\ Inside(t) /\ t \notin sleeping
  /\ passed' = [passed EXCEPT ![t] = @ + 1]
  /\ UNCHANGED <<waiting, generation, gen, sleeping, arrived>>

\* The predicate is the count, not the generation: a thread that comes back
\* early hides the opening from those still waking up.
Return_ByCount(t) ==
  /\ Inside(t) /\ t \notin sleeping
  /\ waiting = 0
  /\ passed' = [passed EXCEPT ![t] = @ + 1]
  /\ UNCHANGED <<waiting, generation, gen, sleeping, arrived>>

\* Awake, and the generation moved on: the barrier opened.
Return(t) ==
  /\ Inside(t) /\ t \notin sleeping
  /\ gen[t] # generation
  /\ passed' = [passed EXCEPT ![t] = @ + 1]
  /\ UNCHANGED <<waiting, generation, gen, sleeping, arrived>>

\* Awake, but only spuriously: back to sleep.
SleepAgain(t) ==
  /\ Inside(t) /\ t \notin sleeping
  /\ gen[t] = generation
  /\ sleeping' = sleeping \cup {t}
  /\ UNCHANGED <<waiting, generation, gen, arrived, passed>>

\* pthread_cond_wait may return without a broadcast.
SpuriousWakeup(t) ==
  /\ t \in sleeping
  /\ sleeping' = sleeping \ {t}
  /\ UNCHANGED <<waiting, generation, gen, arrived, passed>>

Wait(t) == WaitLast(t) \/ WaitBlock(t)

FallbackNext ==
  \E t \in Thread :
    \/ WaitLast(t)
    \/ WaitBlock(t)
    \/ Return(t)
    \/ SleepAgain(t)
    \/ SpuriousWakeup(t)

(* Every thread keeps coming until its rounds are over, and a thread that
   is awake gets the mutex in the end.  Nothing makes a spurious wake-up
   happen. *)
FallbackFairness ==
  \A t \in Thread : WF_barrierVars(Wait(t)) /\ WF_barrierVars(Return(t))

FallbackSpec == FallbackInit /\ [][FallbackNext]_barrierVars /\ FallbackFairness

-----------------------------------------------------------------------------

(* Types.  The generation stays below its modulus: a thread compares it for
   equality only, so that the wrap is no event of its own. *)
FallbackTypes ==
  /\ waiting    \in Nat
  /\ generation \in 0 .. GenMod - 1
  /\ gen        \in [Thread -> 0 .. GenMod - 1]
  /\ sleeping   \in SUBSET Thread
  /\ arrived    \in [Thread -> Nat]
  /\ passed     \in [Thread -> Nat]

(* Nobody has returned from vb_barrier_wait more often than everybody has
   called it: a worker never runs ahead of a thread it must wait for, even
   when it comes back to the barrier before the others have woken up. *)
NobodyRunsAhead ==
  \A s, t \in Thread : passed[t] <= arrived[s]

(* A thread that sleeps will be woken: while it sleeps the barrier has not
   opened since it came. *)
NoLostWakeup ==
  \A t \in sleeping : Inside(t) /\ gen[t] = generation

(* Every thread gets through all its rounds: no wake-up is lost and no
   thread is stranded by a faster one. *)
AllRoundsComplete ==
  \A t \in Thread : <>(passed[t] = MaxRounds)

(* The fallback keeps the promise the pool relies on. *)
Contract == INSTANCE BarrierSpec
              WITH Thread <- Thread, MaxRounds <- MaxRounds,
                   arrived <- arrived, passed <- passed

ImplementsContract == Contract!Spec

=============================================================================
