--------------------------- MODULE WorkerPoolProofs ---------------------------
(***************************************************************************)
(* Proofs about the worker pool of src/bench.c, for any number of threads, *)
(* of batches, of runs, of pools and of allowed CPUs, and first about the  *)
(* barrier of include/vb_threads.h it relies on, for every finite set of   *)
(* threads, every bound on the rounds and every modulus of the generation  *)
(* from 2 up.                                                              *)
(*                                                                         *)
(* Of the barrier, NobodyRunsAhead is not inductive: it says nothing of    *)
(* the count or of the generation, which are what lets a thread go.        *)
(* Phases adds them.  In the k-th phase every thread is outside and has    *)
(* passed k times, or waits for the k-th opening, or has seen it and not   *)
(* yet returned; and the count is the number of those that wait.           *)
(*                                                                         *)
(* Of the pool, four inductive layers on top of the types:                 *)
(*   Places   where the workers can be while the driver is where it is;    *)
(*   Pinning  what is known of the refusals once they have been reported;  *)
(*   Results  what a worker's agree, ok and checksum say of its digests;   *)
(*   Masks    what is saved of the calling thread's CPU mask, and where.   *)
(* The barriers appear only in Places: it is what makes the plain fields   *)
(* of the pool safe to read.                                               *)
(***************************************************************************)
EXTENDS WorkerPool, Barrier, FiniteSetTheorems, TLAPS

-----------------------------------------------------------------------------
(* The barrier. *)

(* Inside, and the barrier has not opened since. *)
Came == { t \in Thread : Inside(t) /\ gen[t] = generation }

InPhase(k, t) ==
  \/ ~Inside(t) /\ arrived[t] = k /\ passed[t] = k
  \/ Inside(t) /\ gen[t] = generation /\ arrived[t] = k + 1 /\ passed[t] = k
  \/ Inside(t) /\ gen[t] # generation /\ arrived[t] = k /\ passed[t] = k - 1

Phases ==
  /\ \E k \in 0 .. MaxRounds : \A t \in Thread : InPhase(k, t)
  /\ waiting = Cardinality(Came)
  /\ waiting < threshold
  /\ NoLostWakeup

FallbackInv == FallbackTypes /\ Phases

-----------------------------------------------------------------------------

(* The generation changes when it is stepped, even where it wraps, and stays
   in range. *)
LEMMA GenerationMoves ==
  ASSUME NEW g \in 0 .. GenMod - 1
  PROVE  /\ (g + 1) % GenMod \in 0 .. GenMod - 1
         /\ (g + 1) % GenMod # g
<1>1. CASE g + 1 = GenMod
  <2>1. (g + 1) % GenMod = 0
    BY <1>1, GenModAssumption
  <2>2. QED
    BY <2>1, <1>1, GenModAssumption
<1>2. CASE g + 1 < GenMod
  <2>1. (g + 1) % GenMod = g + 1
    BY <1>2, GenModAssumption
  <2>2. QED
    BY <2>1, <1>2, GenModAssumption
<1>3. QED
  BY <1>1, <1>2, GenModAssumption

(* The threshold of vb_barrier_init is a positive number. *)
LEMMA ThresholdPositive == threshold \in Nat /\ threshold > 0
BY ThreadAssumption, FS_CardinalityType, FS_EmptySet DEF threshold

(* The set of waiting threads is finite and no larger than the threshold. *)
LEMMA CameFinite == IsFiniteSet(Came) /\ Cardinality(Came) \in Nat
<1>1. Came \subseteq Thread
  BY DEF Came
<1>2. QED
  BY <1>1, ThreadAssumption, FS_Subset, FS_CardinalityType

(* The threads that wait for the opening, with the newcomer, are everybody
   once their number reaches the threshold. *)
LEMMA LastCompletes ==
  ASSUME FallbackTypes, Phases, NEW t \in Thread, ~Inside(t), waiting + 1 = threshold
  PROVE  Came \cup {t} = Thread
<1>1. t \notin Came
  BY DEF Came
<1>2. Cardinality(Came \cup {t}) = Cardinality(Thread)
  BY <1>1, CameFinite, FS_AddElement DEF Phases, threshold
<1>3. Came \cup {t} \subseteq Thread
  BY DEF Came
<1>4. QED
  BY <1>2, <1>3, ThreadAssumption, FS_Subset

-----------------------------------------------------------------------------

LEMMA FallbackStarts == FallbackInit => FallbackInv
<1> SUFFICES ASSUME FallbackInit PROVE FallbackInv
  OBVIOUS
<1>1. FallbackTypes
  BY GenModAssumption DEF FallbackInit, FallbackTypes
<1>2. \A t \in Thread : InPhase(0, t)
  BY DEF FallbackInit, InPhase, Inside
<1>3. Came = {}
  BY DEF FallbackInit, Came, Inside
<1>4. waiting = Cardinality(Came) /\ waiting < threshold
  BY <1>3, FS_EmptySet, ThresholdPositive DEF FallbackInit
<1>5. NoLostWakeup
  BY DEF FallbackInit, NoLostWakeup
<1>6. QED
  BY <1>1, <1>2, <1>4, <1>5, MaxRoundsAssumption DEF FallbackInv, Phases

LEMMA FallbackTypesStep == FallbackTypes /\ [FallbackNext]_barrierVars => FallbackTypes'
<1> SUFFICES ASSUME FallbackTypes, [FallbackNext]_barrierVars PROVE FallbackTypes'
  OBVIOUS
<1> USE DEF FallbackTypes
<1>1. ASSUME NEW t \in Thread, WaitLast(t) PROVE FallbackTypes'
  BY <1>1, GenerationMoves DEF WaitLast, Enter
<1>2. ASSUME NEW t \in Thread, WaitBlock(t) PROVE FallbackTypes'
  BY <1>2 DEF WaitBlock, Enter
<1>3. ASSUME NEW t \in Thread, Return(t) PROVE FallbackTypes'
  BY <1>3 DEF Return
<1>4. ASSUME NEW t \in Thread, SleepAgain(t) PROVE FallbackTypes'
  BY <1>4 DEF SleepAgain
<1>5. ASSUME NEW t \in Thread, SpuriousWakeup(t) PROVE FallbackTypes'
  BY <1>5 DEF SpuriousWakeup
<1>6. CASE UNCHANGED barrierVars
  BY <1>6 DEF barrierVars
<1>7. QED
  BY <1>1, <1>2, <1>3, <1>4, <1>5, <1>6 DEF FallbackNext

(* The opening: everybody else waited, so all of them move to the next phase
   together with the thread that opened. *)
LEMMA PhasesWaitLast ==
  ASSUME FallbackInv, NEW t \in Thread, WaitLast(t)
  PROVE  Phases'
<1> USE DEF FallbackInv
<1>1. PICK k \in 0 .. MaxRounds : \A s \in Thread : InPhase(k, s)
  BY DEF Phases
<1>2. ~Inside(t) /\ waiting + 1 = threshold
  BY DEF WaitLast, Enter
<1>3. \A s \in Thread : s = t \/ s \in Came
  BY <1>2, LastCompletes
<1>4. generation' # generation
  BY GenerationMoves DEF WaitLast, FallbackTypes
<1>5. k + 1 \in 0 .. MaxRounds
  <2>1. arrived[t] = k /\ arrived[t] < MaxRounds
    BY <1>1, <1>2 DEF InPhase, WaitLast, Enter
  <2>2. QED
    BY <2>1, MaxRoundsAssumption
<1>6. \A s \in Thread : InPhase(k + 1, s)'
  <2> TAKE s \in Thread
  <2>1. CASE s = t
    BY <2>1, <1>1, <1>2 DEF InPhase, Inside, WaitLast, Enter, FallbackTypes
  <2>2. CASE s # t
    <3>1. Inside(s) /\ gen[s] = generation /\ arrived[s] = k + 1 /\ passed[s] = k
      BY <2>2, <1>1, <1>3 DEF Came, InPhase
    <3>2. /\ gen'[s] = gen[s] /\ arrived'[s] = arrived[s]
          /\ passed'[s] = passed[s]
      BY <2>2 DEF WaitLast, Enter, FallbackTypes
    <3>3. QED
      BY <3>1, <3>2, <1>4, <1>5 DEF InPhase, Inside
  <2>3. QED
    BY <2>1, <2>2
<1>7. Came' = {}
  <2>1. \A s \in Thread : ~(Inside(s)' /\ gen'[s] = generation')
    <3> TAKE s \in Thread
    <3>1. CASE s = t
      BY <3>1, <1>2 DEF Inside, WaitLast, Enter, FallbackTypes
    <3>2. CASE s # t
      BY <3>2, <1>3, <1>4 DEF Came, WaitLast, Enter, FallbackTypes
    <3>3. QED
      BY <3>1, <3>2
  <2>2. QED
    BY <2>1 DEF Came
<1>8. waiting' = Cardinality(Came') /\ waiting' < threshold'
  BY <1>7, FS_EmptySet, ThresholdPositive DEF WaitLast, threshold
<1>9. NoLostWakeup'
  BY DEF WaitLast, NoLostWakeup
<1>10. QED
  BY <1>5, <1>6, <1>8, <1>9 DEF Phases

(* Somebody else than the last comes: the set of those that wait grows. *)
LEMMA PhasesWaitBlock ==
  ASSUME FallbackInv, NEW t \in Thread, WaitBlock(t)
  PROVE  Phases'
<1> USE DEF FallbackInv
<1>1. PICK k \in 0 .. MaxRounds : \A s \in Thread : InPhase(k, s)
  BY DEF Phases
<1>2. ~Inside(t) /\ t \notin Came
  BY DEF WaitBlock, Enter, Came
<1>3. \A s \in Thread : InPhase(k, s)'
  BY <1>1, <1>2 DEF InPhase, Inside, WaitBlock, Enter, FallbackTypes
<1>4. Came' = Came \cup {t}
  <2>1. \A s \in Thread \ {t} : s \in Came' <=> s \in Came
    BY DEF Came, Inside, WaitBlock, Enter, FallbackTypes
  <2>2. Inside(t)' /\ gen'[t] = generation'
    BY <1>1, <1>2 DEF InPhase, Inside, WaitBlock, Enter, FallbackTypes
  <2>3. t \in Came'
    BY <2>2 DEF Came
  <2>4. Came' \subseteq Thread /\ Came \subseteq Thread
    BY DEF Came
  <2>5. QED
    BY <2>1, <2>3, <2>4
<1>5. waiting' = Cardinality(Came')
  BY <1>2, <1>4, CameFinite, FS_AddElement DEF Phases, WaitBlock
<1>6. waiting' < threshold'
  BY ThresholdPositive, CameFinite DEF Phases, WaitBlock, threshold, FallbackTypes
<1>7. NoLostWakeup'
  <2>1. sleeping' = sleeping \cup {t} /\ sleeping \subseteq Came
    BY DEF Phases, NoLostWakeup, WaitBlock, FallbackTypes, Came
  <2>2. sleeping' \subseteq Came'
    BY <1>4, <2>1
  <2>3. QED
    BY <2>2 DEF NoLostWakeup, Came
<1>8. QED
  BY <1>1, <1>3, <1>5, <1>6, <1>7 DEF Phases

(* A return takes nobody out of the set of those that wait. *)
LEMMA PhasesReturn ==
  ASSUME FallbackInv, NEW t \in Thread, Return(t)
  PROVE  Phases'
<1> USE DEF FallbackInv
<1>1. PICK k \in 0 .. MaxRounds : \A s \in Thread : InPhase(k, s)
  BY DEF Phases
<1>2. \A s \in Thread : InPhase(k, s)'
  BY <1>1 DEF InPhase, Inside, Return, FallbackTypes
<1>3. Came' = Came
  <2>1. \A s \in Thread : s \in Came' <=> s \in Came
    BY <1>1 DEF Came, InPhase, Inside, Return, FallbackTypes
  <2>2. QED
    BY <2>1 DEF Came
<1>4. NoLostWakeup'
  BY DEF Phases, NoLostWakeup, Inside, Return, FallbackTypes
<1>5. QED
  BY <1>1, <1>2, <1>3, <1>4 DEF Phases, Return, threshold

LEMMA PhasesInvariant == FallbackInv /\ [FallbackNext]_barrierVars => FallbackInv'
<1> SUFFICES ASSUME FallbackInv, [FallbackNext]_barrierVars PROVE Phases'
  BY FallbackTypesStep DEF FallbackInv
<1>1. ASSUME NEW t \in Thread, WaitLast(t) PROVE Phases'
  BY <1>1, PhasesWaitLast
<1>2. ASSUME NEW t \in Thread, WaitBlock(t) PROVE Phases'
  BY <1>2, PhasesWaitBlock
<1>3. ASSUME NEW t \in Thread, Return(t) PROVE Phases'
  BY <1>3, PhasesReturn
<1>4. ASSUME NEW t \in Thread, SleepAgain(t) PROVE Phases'
  BY <1>4 DEF SleepAgain, FallbackInv, FallbackTypes, Phases, InPhase, Inside, Came, threshold, NoLostWakeup
<1>5. ASSUME NEW t \in Thread, SpuriousWakeup(t) PROVE Phases'
  BY <1>5 DEF SpuriousWakeup, FallbackInv, FallbackTypes, Phases, InPhase, Inside, Came, threshold, NoLostWakeup
<1>6. CASE UNCHANGED barrierVars
  BY <1>6 DEF barrierVars, FallbackInv, Phases, InPhase, Inside, Came, threshold, NoLostWakeup
<1>7. QED
  BY <1>1, <1>2, <1>3, <1>4, <1>5, <1>6 DEF FallbackNext

LEMMA FallbackAlways == FallbackSpec => []FallbackInv
BY FallbackStarts, PhasesInvariant, PTL DEF FallbackSpec

-----------------------------------------------------------------------------

(* Every variable of the barrier keeps its type; in particular the generation
   stays within its width. *)
THEOREM BarrierTypeOK == FallbackSpec => []FallbackTypes
BY FallbackAlways, PTL DEF FallbackInv

(* No thread returns from vb_barrier_wait more often than every thread has
   called it, for any number of threads and any width of the generation. *)
THEOREM BarrierNobodyRunsAhead == FallbackSpec => []NobodyRunsAhead
<1>1. FallbackInv => NobodyRunsAhead
  <2> SUFFICES ASSUME FallbackInv, NEW s \in Thread, NEW t \in Thread
               PROVE  passed[t] <= arrived[s]
    BY DEF NobodyRunsAhead
  <2>1. PICK k \in 0 .. MaxRounds : \A u \in Thread : InPhase(k, u)
    BY DEF FallbackInv, Phases
  <2>2. passed[t] <= k /\ k <= arrived[s]
    BY <2>1 DEF InPhase, FallbackInv, FallbackTypes
  <2>3. QED
    BY <2>2 DEF FallbackInv, FallbackTypes
<1>2. QED
  BY <1>1, FallbackAlways, PTL

(* The fallback implements the barrier the worker pool relies on: the opening
   is one arrival that passes at once, and every later return is a pass. *)
THEOREM BarrierImplementsContract == FallbackSpec => ImplementsContract
<1>1. FallbackInit => Contract!Init
  BY DEF FallbackInit, Contract!Init
<1>2. FallbackInv /\ [FallbackNext]_barrierVars => [Contract!Next]_(Contract!vars)
  <2> SUFFICES ASSUME FallbackInv, [FallbackNext]_barrierVars
               PROVE  [Contract!Next]_(Contract!vars)
    OBVIOUS
  <2> USE DEF FallbackInv
  <2>1. PICK k \in 0 .. MaxRounds : \A s \in Thread : InPhase(k, s)
    BY DEF Phases
  <2>2. ASSUME NEW t \in Thread, WaitLast(t) PROVE Contract!ArriveAndPass(t)
    <3>1. \A s \in Thread \ {t} : s \in Came
      BY <2>2, LastCompletes DEF WaitLast, Enter
    <3>2. \A s \in Thread \ {t} : arrived[s] = k + 1
      BY <2>1, <3>1 DEF Came, InPhase
    <3>3. ~Inside(t) /\ arrived[t] = k
      BY <2>1, <2>2 DEF InPhase, WaitLast, Enter
    <3>4. Contract!OthersReached(t, arrived[t] + 1)
      BY <3>2, <3>3 DEF Contract!OthersReached
    <3>5. QED
      BY <2>1, <2>2, <3>3, <3>4
      DEF Contract!ArriveAndPass, WaitLast, Enter, InPhase, Inside
  <2>3. ASSUME NEW t \in Thread, WaitBlock(t) PROVE Contract!Arrive(t)
    BY <2>1, <2>3 DEF Contract!Arrive, WaitBlock, Enter, InPhase, Inside
  <2>4. ASSUME NEW t \in Thread, Return(t) PROVE Contract!Pass(t)
    <3>1. Inside(t) /\ arrived[t] = k
      BY <2>1, <2>4 DEF InPhase, Return
    <3>2. \A s \in Thread : arrived[s] >= k
      BY <2>1 DEF InPhase, FallbackTypes
    <3>3. QED
      BY <2>4, <3>1, <3>2
      DEF Contract!Pass, Contract!OthersReached, Return, Inside
  <2>5. ASSUME NEW t \in Thread, SleepAgain(t) \/ SpuriousWakeup(t)
        PROVE  UNCHANGED Contract!vars
    BY <2>5 DEF SleepAgain, SpuriousWakeup, Contract!vars
  <2>6. CASE UNCHANGED barrierVars
    BY <2>6 DEF barrierVars, Contract!vars
  <2>7. QED
    BY <2>2, <2>3, <2>4, <2>5, <2>6 DEF FallbackNext, Contract!Next
<1>3. QED
  BY <1>1, <1>2, FallbackAlways, PTL DEF FallbackSpec, ImplementsContract, Contract!Spec

-----------------------------------------------------------------------------
(* The pool. *)

USE DEF Worker, Spawned, Member, Started, AllAt, Hashing

-----------------------------------------------------------------------------
(* Types. *)

LEMMA DistinctCpusType ==
  ASSUME NEW threads \in Nat, NEW allowed \in Nat \ {0}
  PROVE  DistinctCpus(threads, allowed) \in Nat
<1> DEFINE S == 0 .. threads - 1
           T == { w % allowed : w \in S }
           f == [w \in S |-> w % allowed]
<1>1. f \in Surjection(S, T)
  BY DEF Surjection
<1>2. IsFiniteSet(S)
  BY FS_Interval
<1>3. IsFiniteSet(T)
  BY <1>1, <1>2, FS_Surjection
<1>4. QED
  BY <1>3, FS_CardinalityType DEF DistinctCpus

LEMMA RestoreCallerType ==
  ASSUME TypeOK, RestoreCaller
  PROVE  /\ cachedCpus' \in Nat /\ savedCpus' \in Nat
         /\ callerCpus' \in Nat \ {0} /\ maskLost' \in BOOLEAN /\ maskUnread' \in BOOLEAN
BY DEF TypeOK, RestoreCaller

LEMMA InitTypeOK == Init => TypeOK
<1> SUFFICES ASSUME Init PROVE TypeOK
  OBVIOUS
<1>1. /\ agree \in [Worker -> BOOLEAN] /\ ok \in [Worker -> BOOLEAN]
      /\ pinCpu \in BOOLEAN /\ haveExpected \in BOOLEAN /\ stop \in BOOLEAN
      /\ pinFailed \in BOOLEAN /\ maskLost \in BOOLEAN /\ maskUnread \in BOOLEAN
  BY Zenon DEF Init
<1>2. done \in [Worker -> 0 .. MaxReps] /\ checksum \in [Worker -> Errors]
  BY BoundsAssumption, ErrorsAssumption DEF Init
<1>3. pc \in [Spawned -> WorkerAt]
  BY DEF Init, WorkerAt
<1>4. /\ n \in 1 .. MaxThreads /\ live \in 1 .. MaxThreads /\ gate \in {-1, 0, 1}
      /\ reps \in 0 .. MaxReps /\ runs \in 0 .. MaxRuns /\ pools \in 0 .. MaxPools
      /\ pinnedCpus \in Nat /\ cachedCpus \in Nat
      /\ callerCpus \in Nat \ {0} /\ savedCpus \in Nat
  BY MaxThreadsAssumption, BoundsAssumption, NumCpusAssumption DEF Init
<1>5. /\ driver \in DriverAt /\ verdict \in {"none", "ok", "bad"}
      /\ reported \in {"unread", "failed", "pinned"}
      /\ asleep \in SUBSET Spawned /\ refused \in SUBSET Worker
      /\ wrong \in SUBSET Worker
  BY DEF Init, DriverAt
<1>6. QED
  BY <1>1, <1>2, <1>3, <1>4, <1>5, Zenon DEF TypeOK

LEMMA CreateType ==
  ASSUME TypeOK, NEW threads \in 1 .. MaxThreads, NEW pin \in BOOLEAN,
         NEW have \in BOOLEAN, Create(threads, pin, have)
  PROVE  TypeOK'
<1>0. PICK read \in BOOLEAN :
             /\ cachedCpus' = AllowedCpus(read)
             /\ pinnedCpus' = IF pin THEN DistinctCpus(threads, AllowedCpus(read)) ELSE 0
             /\ maskUnread' = (maskUnread \/ (cachedCpus = 0 /\ ~read))
  BY Zenon DEF Create
<1>1. AllowedCpus(read) \in Nat \ {0}
  BY NumCpusAssumption DEF TypeOK, AllowedCpus
<1>2. pinnedCpus' \in Nat /\ maskUnread' \in BOOLEAN
  <2>1. pinnedCpus' \in Nat
    BY <1>0, <1>1, DistinctCpusType, MaxThreadsAssumption
  <2>2. maskUnread' \in BOOLEAN
    BY <1>0, Zenon
  <2> QED
    BY <2>1, <2>2
<1>3. /\ savedCpus' \in Nat /\ callerCpus' \in Nat \ {0}
      /\ maskLost' \in BOOLEAN /\ pinFailed' \in BOOLEAN
      /\ refused' \in SUBSET Worker
  BY MaxThreadsAssumption DEF Create, PinCaller, TypeOK
<1>4. /\ agree' \in [Worker -> BOOLEAN] /\ ok' \in [Worker -> BOOLEAN]
      /\ pinCpu' \in BOOLEAN /\ haveExpected' \in BOOLEAN /\ stop' \in BOOLEAN
  BY Zenon DEF Create
<1>5. done' \in [Worker -> 0 .. MaxReps] /\ checksum' \in [Worker -> Errors]
  BY BoundsAssumption, ErrorsAssumption DEF Create
<1>6. pc' \in [Spawned -> WorkerAt] /\ asleep' \in SUBSET Spawned
  BY DEF Create, TypeOK
<1>7. n' \in 1 .. MaxThreads /\ pools' \in 0 .. MaxPools /\ cachedCpus' \in Nat
  BY <1>0, <1>1, BoundsAssumption DEF Create, TypeOK
<1>8. /\ live' \in 1 .. MaxThreads /\ gate' \in {-1, 0, 1}
      /\ reps' \in 0 .. MaxReps /\ runs' \in 0 .. MaxRuns
  BY MaxThreadsAssumption, BoundsAssumption DEF Create
<1>9. /\ driver' \in DriverAt /\ verdict' \in {"none", "ok", "bad"}
      /\ reported' \in {"unread", "failed", "pinned"} /\ wrong' \in SUBSET Worker
  BY DEF Create, DriverAt
<1>10. QED
  BY <1>2, <1>3, <1>4, <1>5, <1>6, <1>7, <1>8, <1>9, Zenon DEF TypeOK

LEMMA HashBatchType ==
  ASSUME TypeOK, NEW w \in Worker, NEW e \in Errors, HashBatch(w, e)
  PROVE  TypeOK'
<1> DEFINE a == IF haveExpected THEN done[w] = 0 \/ e = checksum[w] ELSE e = 0
<1>1. a \in BOOLEAN
  BY Zenon DEF TypeOK
<1>2. agree' \in [Worker -> BOOLEAN]
  <2> HIDE DEF a
  <2>1. agree' = [agree EXCEPT ![w] = a]
    BY Zenon DEF HashBatch, a
  <2>2. QED
    BY <1>1, <2>1, Zenon DEF TypeOK
<1>3. done' \in [Worker -> 0 .. MaxReps]
  BY BoundsAssumption DEF HashBatch, TypeOK
<1>4. checksum' \in [Worker -> Errors]
  BY DEF HashBatch, TypeOK
<1>5. wrong' \in SUBSET Worker
  BY DEF HashBatch, TypeOK
<1>6. QED
  BY <1>2, <1>3, <1>4, <1>5
  DEF HashBatch, TypeOK, cfgVars, maskVars, pinVars, gateVars

LEMMA DriverStepType == TypeOK /\ DriverStep => TypeOK'
<1> SUFFICES ASSUME TypeOK, DriverStep PROVE TypeOK'
  OBVIOUS
<1> USE MaxThreadsAssumption, BoundsAssumption
    DEF TypeOK, DriverAt, WorkerAt, runVars, cfgVars, maskVars, pinVars, gateVars
<1>1. CASE SpawnOne
  BY <1>1 DEF SpawnOne
<1>2. CASE SpawnFails
  BY <1>2 DEF SpawnFails, OpenGate
<1>3. CASE SpawnDone
  BY <1>3 DEF SpawnDone, OpenGate
<1>4. CASE Abort
  BY <1>4, RestoreCallerType DEF Abort, Joined
<1>5. ASSUME NEW r \in 1 .. MaxReps, Run(r) PROVE TypeOK'
  BY <1>5 DEF Run
<1>6. CASE StartOpens
  BY <1>6 DEF StartOpens
<1>7. ASSUME NEW e \in Errors, HashBatch(0, e) PROVE TypeOK'
  <2>1. 0 \in Worker
    BY MaxThreadsAssumption
  <2>2. QED
    BY <1>7, <2>1, HashBatchType, Zenon
<1>8. CASE FinishSlice(0)
  BY <1>8 DEF FinishSlice
<1>9. CASE DoneOpens
  BY <1>9 DEF DoneOpens
<1>10. ASSUME NEW cancel \in BOOLEAN, Judge(cancel) PROVE TypeOK'
  BY <1>10 DEF Judge
<1>11. CASE ReadPinFailed
  BY <1>11 DEF ReadPinFailed
<1>12. CASE Destroy
  BY <1>12 DEF Destroy
<1>13. CASE Join
  BY <1>13, RestoreCallerType DEF Join, Joined
<1>14. QED
  BY <1>1, <1>2, <1>3, <1>4, <1>5, <1>6, <1>7, <1>8, <1>9, <1>10, <1>11,
     <1>12, <1>13
  DEF DriverStep, SliceStep

LEMMA WorkerStepType ==
  ASSUME TypeOK, NEW w \in Spawned, WorkerStep(w) \/ GateSpuriousWakeup(w)
  PROVE  TypeOK'
<1> USE MaxThreadsAssumption, BoundsAssumption
    DEF TypeOK, DriverAt, WorkerAt, runVars, cfgVars, maskVars, pinVars, gateVars
<1>1. CASE GateSleep(w)
  BY <1>1 DEF GateSleep
<1>2. CASE PassGate(w)
  BY <1>2 DEF PassGate
<1>3. CASE PinWorker(w)
  BY <1>3 DEF PinWorker
<1>4. CASE CheckStop(w)
  BY <1>4 DEF CheckStop
<1>5. ASSUME NEW e \in Errors, HashBatch(w, e) PROVE TypeOK'
  BY <1>5, HashBatchType
<1>6. CASE FinishSlice(w)
  <2>1. w \in Worker /\ w # 0
    BY DEF Spawned
  <2>2. ok' \in [Worker -> BOOLEAN]
    BY <1>6, <2>1 DEF FinishSlice
  <2>3. pc' \in [Spawned -> WorkerAt] /\ driver' \in DriverAt
    BY <1>6, <2>1 DEF FinishSlice
  <2>4. UNCHANGED <<stop, reps, done, agree, checksum, verdict, wrong, runs, cfgVars, maskVars,
                    pinVars, gateVars>>
    BY <1>6 DEF FinishSlice
  <2> QED
    BY <2>2, <2>3, <2>4
<1>7. CASE GateSpuriousWakeup(w)
  BY <1>7 DEF GateSpuriousWakeup
<1>8. QED
  BY <1>1, <1>2, <1>3, <1>4, <1>5, <1>6, <1>7 DEF WorkerStep, SliceStep

LEMMA TypeInvariant == TypeOK /\ [Next]_vars => TypeOK'
<1> SUFFICES ASSUME TypeOK, [Next]_vars PROVE TypeOK'
  OBVIOUS
<1>1. CASE NewPool
  BY <1>1, CreateType DEF NewPool
<1>2. CASE DriverStep
  BY <1>2, DriverStepType
<1>3. ASSUME NEW w \in Spawned, WorkerStep(w) \/ GateSpuriousWakeup(w)
      PROVE  TypeOK'
  BY <1>3, WorkerStepType
<1>4. CASE UNCHANGED vars
  BY <1>4 DEF vars, runVars, cfgVars, maskVars, pinVars, gateVars, TypeOK
<1>5. QED
  BY <1>1, <1>2, <1>3, <1>4 DEF Next

(* Every field of the pool keeps its type, in particular no worker beyond
   those the pool was sized for is ever started. *)
THEOREM PoolTypeOK == Spec => []TypeOK
BY InitTypeOK, TypeInvariant, PTL DEF Spec

-----------------------------------------------------------------------------
(* Where the workers are. *)

Before(w) == pc[w] \in {"gate", "pin", "start"}
During(w) == pc[w] \in {"check", "slice", "done"}

Places ==
  /\ \A w \in Spawned \ Started : pc[w] = "none"
  /\ driver = "idle"   => \A w \in Spawned : pc[w] = "none"
  /\ driver = "spawn"  => /\ gate = 0 /\ live <= n /\ runs = 0 /\ ~stop
                          /\ verdict = "none" /\ reported = "unread"
                          /\ \A w \in Started :
                               pc[w] = IF w < live THEN "gate" ELSE "none"
  /\ driver = "abort"  => /\ gate = -1 /\ live <= n
                          /\ \A w \in Started :
                               IF w < live THEN pc[w] \in {"gate", "exit"}
                                           ELSE pc[w] = "none"
  /\ driver \in {"ready", "start", "stopping"} => \A w \in Started : Before(w)
  /\ driver \in {"slice", "done"}  => \A w \in Started : During(w)
  /\ driver = "verdict"            => AllAt("start")
  /\ driver = "join"               => \A w \in Started : pc[w] \in {"check", "exit"}
  /\ driver \notin {"idle", "spawn", "abort"} => gate = 1
  /\ driver \in {"ready", "start", "slice", "done", "verdict"} => ~stop
  /\ driver \in {"stopping", "join"} => stop

(* The driver's own part of a run, and every part of it as soon as one worker
   is past the first start_bar, comes after all workers have pinned. *)
Pinning ==
  /\ pinFailed <=> refused # {}
  /\ verdict # "none" => runs >= 1
  /\ driver \in {"start", "slice", "done", "verdict"} => runs >= 1
  /\ driver = "ready" /\ runs >= 1 => AllAt("start")
  /\ reported # "unread" => /\ reported = "failed" <=> refused # {}
                            /\ \A w \in Spawned : pc[w] \notin {"gate", "pin"}
  /\ driver \in {"stopping", "join"} => reported # "unread"

LEMMA InitPlaces == Init => Places /\ Pinning
BY MaxThreadsAssumption DEF Init, Places, Pinning

LEMMA PlacesCreate ==
  ASSUME TypeOK, Places, Pinning, NEW threads \in 1 .. MaxThreads,
         NEW pin \in BOOLEAN, NEW have \in BOOLEAN, Create(threads, pin, have)
  PROVE  Places' /\ Pinning'
<1>1. driver = "idle" /\ driver' = "spawn" /\ n' = threads /\ live' = 1
  BY DEF Create
<1>a. /\ gate' = 0 /\ ~stop' /\ runs' = 0 /\ verdict' = "none"
      /\ reported' = "unread" /\ UNCHANGED pc
  BY DEF Create
<1>b. \A w \in Spawned : pc'[w] = "none"
  BY <1>1, <1>a DEF Places
<1>c. live' <= n' /\ \A w \in Started' : w \in Spawned /\ ~(w < live')
  BY <1>1, MaxThreadsAssumption
<1>d. Places'
  BY <1>1, <1>a, <1>b, <1>c DEF Places
<1>2. Pinning'
  BY DEF Create, PinCaller, Places, Pinning
<1>3. QED
  BY <1>d, <1>2

LEMMA PlacesDriverStep ==
  ASSUME TypeOK, Places, Pinning, DriverStep
  PROVE  Places' /\ Pinning'
<1> USE DEF TypeOK, Places, Pinning, Before, During,
            runVars, cfgVars, maskVars, pinVars, gateVars
<1>s. Started \subseteq Spawned
  BY MaxThreadsAssumption
<1>1. CASE SpawnOne
  <2>1. driver = "spawn" /\ driver' = "spawn" /\ live < n /\ live' = live + 1
    BY <1>1 DEF SpawnOne
  <2>2. live \in Started /\ pc' = [pc EXCEPT ![live] = "gate"]
    BY <1>1 DEF SpawnOne
  <2>3. UNCHANGED <<n, gate, stop, verdict, runs, reported, refused, pinFailed>>
    BY <1>1 DEF SpawnOne
  <2>4. ASSUME NEW w \in Started
        PROVE  pc'[w] = IF w < live' THEN "gate" ELSE "none"
    <3>1. CASE w = live
      BY <1>s, <2>1, <2>2, <3>1
    <3>2. CASE w # live
      <4>1. pc'[w] = pc[w]
        BY <2>2, <3>2
      <4>2. w < live <=> w < live'
        BY <2>1, <3>2
      <4>3. QED
        BY <2>1, <4>1, <4>2
    <3>3. QED
      BY <3>1, <3>2
  <2>5. \A w \in Spawned \ Started : pc'[w] = "none"
    BY <2>1, <2>2, <2>3
  <2>6. Places'
    BY <2>1, <2>3, <2>4, <2>5
  <2>7. QED
    BY <2>1, <2>3, <2>6
<1>2. CASE SpawnFails
  BY <1>2 DEF SpawnFails, OpenGate
<1>3. CASE SpawnDone
  BY <1>3 DEF SpawnDone, OpenGate
<1>4. CASE Abort
  BY <1>4 DEF Abort, Joined
<1>5. ASSUME NEW r \in 1 .. MaxReps, Run(r) PROVE Places' /\ Pinning'
  BY <1>5 DEF Run
<1>6. CASE StartOpens
  <2>1. \/ driver = "start" /\ driver' = "slice"
        \/ driver = "stopping" /\ driver' = "join"
    BY <1>6 DEF StartOpens
  <2>a. AllAt("start") /\ pc' = [w \in Spawned |-> IF w \in Started THEN "check" ELSE pc[w]]
    BY <1>6 DEF StartOpens
  <2>2. \A w \in Started : pc[w] = "start" /\ pc'[w] = "check"
    BY <1>s, <2>a
  <2>3. \A w \in Spawned \ Started : pc'[w] = "none"
    BY <1>6 DEF StartOpens
  <2>4. UNCHANGED <<n, live, gate, stop, verdict, runs, reported, refused, pinFailed>>
    BY <1>6 DEF StartOpens
  <2>5. Places'
    BY <2>1, <2>2, <2>3, <2>4
  <2>6. QED
    BY <2>1, <2>2, <2>3, <2>4, <2>5
<1>7. ASSUME NEW e \in Errors, HashBatch(0, e) PROVE Places' /\ Pinning'
  BY <1>7 DEF HashBatch
<1>8. CASE FinishSlice(0)
  BY <1>8 DEF FinishSlice
<1>9. CASE DoneOpens
  <2>1. driver = "done" /\ driver' = "verdict"
    BY <1>9 DEF DoneOpens
  <2>a. AllAt("done") /\ pc' = [w \in Spawned |-> IF w \in Started THEN "start" ELSE pc[w]]
    BY <1>9 DEF DoneOpens
  <2>2. \A w \in Started : pc[w] = "done" /\ pc'[w] = "start"
    BY <1>s, <2>a
  <2>3. \A w \in Spawned \ Started : pc'[w] = "none"
    BY <1>9 DEF DoneOpens
  <2>4. UNCHANGED <<n, live, gate, stop, verdict, runs, reported, refused, pinFailed>>
    BY <1>9 DEF DoneOpens
  <2>5. Places'
    BY <2>1, <2>2, <2>3, <2>4
  <2>6. QED
    BY <2>1, <2>2, <2>3, <2>4, <2>5
<1>10. ASSUME NEW cancel \in BOOLEAN, Judge(cancel) PROVE Places' /\ Pinning'
  BY <1>10 DEF Judge
<1>11. CASE ReadPinFailed
  <2>1. Places'
    BY <1>11 DEF ReadPinFailed
  <2>2. AllAt("start")
    BY <1>11 DEF ReadPinFailed
  <2>3. \A w \in Spawned : pc[w] \notin {"gate", "pin"}
    BY <1>11, <2>2 DEF ReadPinFailed
  <2>4. reported' = "failed" <=> refused # {}
    BY <1>11 DEF ReadPinFailed
  <2>5. QED
    BY <1>11, <2>1, <2>2, <2>3, <2>4 DEF ReadPinFailed
<1>12. CASE Destroy
  BY <1>12 DEF Destroy
<1>13. CASE Join
  BY <1>13 DEF Join, Joined
<1>14. QED
  BY <1>1, <1>2, <1>3, <1>4, <1>5, <1>6, <1>7, <1>8, <1>9, <1>10, <1>11,
     <1>12, <1>13
  DEF DriverStep, SliceStep

LEMMA PlacesWorkerStep ==
  ASSUME TypeOK, Places, Pinning,
         NEW w \in Spawned, WorkerStep(w) \/ GateSpuriousWakeup(w)
  PROVE  Places' /\ Pinning'
<1> USE DEF TypeOK, Places, Pinning, Before, During,
            runVars, cfgVars, maskVars, pinVars, gateVars
<1>1. CASE GateSleep(w)
  BY <1>1 DEF GateSleep
<1>2. CASE PassGate(w)
  BY <1>2 DEF PassGate
<1>3. CASE PinWorker(w)
  <2>a. pc[w] = "pin"
    BY <1>3 DEF PinWorker
  <2>b. w \in Started
    BY <2>a
  <2>1. pc[w] = "pin" /\ w \in Started /\ driver \in {"ready", "start", "stopping"}
    BY <2>a, <2>b DEF DriverAt
  <2>2. reported = "unread" /\ ~(driver = "ready" /\ runs >= 1)
        /\ driver # "stopping"
    BY <2>1
  <2>3. Places'
    BY <1>3, <2>1 DEF PinWorker
  <2>4. pinFailed' <=> refused' # {}
    BY <1>3 DEF PinWorker
  <2>5. QED
    BY <1>3, <2>2, <2>3, <2>4 DEF PinWorker
<1>4. CASE CheckStop(w)
  BY <1>4 DEF CheckStop
<1>5. ASSUME NEW e \in Errors, HashBatch(w, e) PROVE Places' /\ Pinning'
  BY <1>5 DEF HashBatch
<1>6. CASE FinishSlice(w)
  <2>a. pc[w] = "slice"
    BY <1>6 DEF FinishSlice, Hashing
  <2>b. w \in Started
    BY <2>a
  <2>1. pc[w] = "slice" /\ w \in Started /\ driver \in {"slice", "done"}
    BY <2>a, <2>b DEF DriverAt
  <2>2. pc' = [pc EXCEPT ![w] = "done"] /\ UNCHANGED driver
    BY <1>6 DEF FinishSlice
  <2>3. UNCHANGED <<stop, verdict, runs, cfgVars, gateVars, pinVars>>
    BY <1>6 DEF FinishSlice
  <2>4. QED
    BY <2>1, <2>2, <2>3
<1>7. CASE GateSpuriousWakeup(w)
  BY <1>7 DEF GateSpuriousWakeup
<1>8. QED
  BY <1>1, <1>2, <1>3, <1>4, <1>5, <1>6, <1>7 DEF WorkerStep, SliceStep


LEMMA PlacesInvariant ==
  TypeOK /\ Places /\ Pinning /\ [Next]_vars => Places' /\ Pinning'
<1> SUFFICES ASSUME TypeOK, Places, Pinning, [Next]_vars
             PROVE  Places' /\ Pinning'
  OBVIOUS
<1>1. CASE NewPool
  BY <1>1, PlacesCreate DEF NewPool
<1>2. CASE DriverStep
  BY <1>2, PlacesDriverStep
<1>3. ASSUME NEW w \in Spawned, WorkerStep(w) \/ GateSpuriousWakeup(w)
      PROVE  Places' /\ Pinning'
  BY <1>3, PlacesWorkerStep
<1>4. CASE UNCHANGED vars
  BY <1>4 DEF vars, runVars, cfgVars, maskVars, pinVars, gateVars,
              Places, Pinning, Before, During
<1>5. QED
  BY <1>1, <1>2, <1>3, <1>4 DEF Next

LEMMA AlwaysPlaces == Spec => [](TypeOK /\ Places /\ Pinning)
<1>1. Init => TypeOK /\ Places /\ Pinning
  BY InitTypeOK, InitPlaces
<1>2. TypeOK /\ Places /\ Pinning /\ [Next]_vars
        => (TypeOK /\ Places /\ Pinning)'
  BY TypeInvariant, PlacesInvariant
<1>3. QED
  BY <1>1, <1>2, PTL DEF Spec

(* No thread of an old pool outlives it, and no worker of a pool that gave up
   gets to a barrier its missing peers would never reach. *)
THEOREM PoolTeardownQuiescent == Spec => []TeardownQuiescent
<1>1. TypeOK /\ Places => TeardownQuiescent
  BY MaxThreadsAssumption DEF TypeOK, Places, TeardownQuiescent, DriverAt
<1>2. QED
  BY <1>1, AlwaysPlaces, PTL

(* The pin_failed a result carries is what happened to the workers, although
   they write the field without a lock. *)
THEOREM PoolPinReportComplete == Spec => []PinReportComplete
<1>1. Pinning => PinReportComplete
  BY DEF Pinning, PinReportComplete
<1>2. QED
  BY <1>1, AlwaysPlaces, PTL

(* reps and stop are written only while no worker is between start_bar and
   the end of its slice, where it reads them. *)
THEOREM PoolDriverWritesQuiescent == Spec => DriverWritesQuiescent
<1> DEFINE Quiet == \A w \in Spawned : pc[w] \notin {"check", "slice"}
           Writes == reps' # reps \/ stop' # stop
<1>1. ASSUME TypeOK, Places, [Next]_vars, Writes PROVE Quiet
  <2>1. CASE driver = "idle"
    BY <1>1, <2>1 DEF Places
  <2>2. CASE driver = "ready"
    <3>1. \A w \in Started : Before(w)
      BY <1>1, <2>2 DEF Places
    <3>2. \A w \in Spawned \ Started : pc[w] = "none"
      BY <1>1 DEF Places
    <3>3. QED
      BY <3>1, <3>2 DEF Before
  <2>3. CASE driver \notin {"idle", "ready"}
    <3>1. ~NewPool
      BY <2>3 DEF NewPool, Create
    <3>2. ~DriverStep
      BY <1>1, <2>3 DEF DriverStep, SliceStep, SpawnOne, SpawnFails, SpawnDone,
         Abort, Run, StartOpens, HashBatch, FinishSlice, DoneOpens, Judge,
         ReadPinFailed, Destroy, Join, runVars
    <3>3. \A w \in Spawned : ~(WorkerStep(w) \/ GateSpuriousWakeup(w))
      BY <1>1 DEF WorkerStep, SliceStep, GateSleep, GateSpuriousWakeup, PassGate,
         PinWorker, CheckStop, HashBatch, FinishSlice, runVars
    <3>4. QED
      BY <1>1, <3>1, <3>2, <3>3 DEF Next, vars, runVars
  <2>4. QED
    BY <2>1, <2>2, <2>3
<1>2. TypeOK /\ Places /\ [Next]_vars => [Writes => Quiet]_vars
  BY <1>1
<1>3. QED
  BY <1>2, AlwaysPlaces, PTL DEF Spec, DriverWritesQuiescent

-----------------------------------------------------------------------------
(* What the fields of a worker say of the digests it computed. *)

Judged    == {"slice", "done", "verdict"}
Fresh(w)  == w # 0 /\ pc[w] = "check"
Over(w)   == IF w = 0 THEN driver \in {"done", "verdict"}
                      ELSE driver = "verdict" \/ pc[w] = "done"

Clean(w) == done[w] = 0 /\ w \notin wrong

(* agree is false only for a wrong digest; while it is true the checksum of
   the first batch speaks for all of them. *)
Honest(w) ==
  /\ done[w] <= reps
  /\ done[w] = 0 => w \notin wrong /\ agree[w]
  /\ ~agree[w] => w \in wrong
  /\ agree[w] /\ ~haveExpected => w \notin wrong
  /\ done[w] > 0 /\ haveExpected /\ agree[w] => (w \in wrong <=> checksum[w] # 0)

Results ==
  /\ driver = "start" => /\ reps > 0 /\ wrong = {}
                         /\ \A w \in Worker : done[w] = 0
  /\ driver \in Judged =>
       /\ reps > 0 /\ wrong \subseteq Member
       /\ \A w \in Member :
            /\ IF Fresh(w) THEN Clean(w) ELSE Honest(w)
            /\ Over(w) => /\ ok[w] = agree[w]
                          /\ agree[w] => done[w] = reps
  /\ VerdictSound

LEMMA ResultsHashBatch ==
  ASSUME TypeOK, Places, Results, NEW w \in Worker, NEW e \in Errors,
         HashBatch(w, e)
  PROVE  Results'
<1>1. w \in Member /\ driver \in Judged /\ ~Fresh(w) /\ ~Over(w)
  <2>1. CASE w = 0
    BY <2>1, MaxThreadsAssumption DEF HashBatch, Judged, Fresh, Over, TypeOK
  <2>2. CASE w # 0
    <3>1. w \in Spawned /\ pc[w] = "slice"
      BY <2>2 DEF HashBatch
    <3>2. w \in Started
      BY <3>1 DEF Places
    <3>3. driver \in {"slice", "done"}
      BY <3>1, <3>2, MaxThreadsAssumption DEF Places, Before, TypeOK, DriverAt
    <3>4. QED
      BY <3>1, <3>2, <3>3 DEF Judged, Fresh, Over
  <2>3. QED
    BY <2>1, <2>2
<1>2. Honest(w) /\ agree[w] /\ done[w] < reps /\ reps > 0 /\ wrong \subseteq Member
  BY <1>1 DEF Results, HashBatch
<1>3. UNCHANGED <<driver, pc, n, reps, ok, verdict, haveExpected>>
  BY DEF HashBatch, cfgVars
<1>4. /\ done'[w] = done[w] + 1
      /\ w \in wrong' <=> e # 0 \/ w \in wrong
      /\ haveExpected => checksum'[w] = IF done[w] = 0 THEN e ELSE checksum[w]
  BY DEF HashBatch, TypeOK
<1>5. agree'[w] <=> IF haveExpected THEN done[w] = 0 \/ e = checksum[w] ELSE e = 0
  BY Zenon DEF HashBatch, TypeOK
<1>6. \A v \in Worker \ {w} :
        /\ done'[v] = done[v] /\ checksum'[v] = checksum[v]
        /\ v \in wrong' <=> v \in wrong
  BY DEF HashBatch, TypeOK
<1>7. \A v \in Worker \ {w} : agree'[v] = agree[v]
  BY Zenon DEF HashBatch, TypeOK
<1>8. Honest(w)'
  BY <1>2, <1>3, <1>4, <1>5 DEF Honest, TypeOK
<1>9. \A v \in Member \ {w} :
        /\ IF Fresh(v)' THEN Clean(v)' ELSE Honest(v)'
        /\ Over(v)' => /\ ok'[v] = agree'[v]
                       /\ agree'[v] => done'[v] = reps'
  <2> SUFFICES ASSUME NEW v \in Member \ {w}
               PROVE  /\ IF Fresh(v)' THEN Clean(v)' ELSE Honest(v)'
                      /\ Over(v)' => /\ ok'[v] = agree'[v]
                                     /\ agree'[v] => done'[v] = reps'
    OBVIOUS
  <2>1. v \in Worker \ {w}
    BY MaxThreadsAssumption DEF TypeOK
  <2>2. /\ IF Fresh(v) THEN Clean(v) ELSE Honest(v)
        /\ Over(v) => ok[v] = agree[v] /\ (agree[v] => done[v] = reps)
    BY <1>1 DEF Results
  <2>3. QED
    BY <1>3, <1>6, <1>7, <2>1, <2>2 DEF Fresh, Clean, Honest, Over
<1>10. ~Fresh(w)' /\ ~Over(w)' /\ wrong' \subseteq Member
  BY <1>1, <1>2, <1>3 DEF Fresh, Over, HashBatch
<1>11. QED
  BY <1>1, <1>2, <1>3, <1>8, <1>9, <1>10 DEF Results, Judged, VerdictSound

LEMMA ResultsFinishSlice ==
  ASSUME TypeOK, Places, Results, NEW w \in Worker, FinishSlice(w)
  PROVE  Results'
<1>1. w \in Member /\ driver \in Judged /\ ~Fresh(w) /\ ~Over(w)
  <2>1. CASE w = 0
    BY <2>1, MaxThreadsAssumption DEF FinishSlice, Judged, Fresh, Over, TypeOK
  <2>2. CASE w # 0
    <3>1. w \in Spawned /\ pc[w] = "slice"
      BY <2>2 DEF FinishSlice
    <3>2. w \in Started
      BY <3>1 DEF Places
    <3>3. driver \in {"slice", "done"}
      BY <3>1, <3>2, MaxThreadsAssumption DEF Places, Before, TypeOK, DriverAt
    <3>4. QED
      BY <3>1, <3>2, <3>3 DEF Judged, Fresh, Over
  <2>3. QED
    BY <2>1, <2>2
<1>2. Honest(w) /\ (agree[w] => done[w] = reps) /\ reps > 0 /\ wrong \subseteq Member
  BY <1>1 DEF Results, FinishSlice
<1>3. UNCHANGED <<n, reps, verdict, haveExpected, done, agree, checksum, wrong>>
  BY DEF FinishSlice, cfgVars
<1>4. /\ ok'[w] = agree[w]
      /\ \A v \in Worker \ {w} : ok'[v] = ok[v]
  BY Zenon DEF FinishSlice, TypeOK
<1>5. /\ driver' \in Judged /\ ~Fresh(w)'
      /\ \A v \in Spawned \ {w} : pc'[v] = pc[v]
      /\ \A v \in Member \ {w} : Over(v)' => Over(v)
  <2>1. CASE w = 0
    <3>1. driver' = "done" /\ driver = "slice" /\ UNCHANGED pc
      BY <2>1 DEF FinishSlice
    <3>2. QED
      BY <2>1, <3>1 DEF Judged, Fresh, Over
  <2>2. CASE w # 0
    <3>1. UNCHANGED driver /\ pc' = [pc EXCEPT ![w] = "done"]
      BY <2>2 DEF FinishSlice
    <3>2. pc'[w] = "done" /\ \A v \in Spawned \ {w} : pc'[v] = pc[v]
      BY <2>2, <3>1 DEF TypeOK
    <3>3. \A v \in Member \ {w} : v = 0 \/ v \in Spawned \ {w}
      BY MaxThreadsAssumption DEF TypeOK
    <3>4. QED
      BY <1>1, <2>2, <3>1, <3>2, <3>3 DEF Judged, Fresh, Over
  <2>3. QED
    BY <2>1, <2>2
<1>6. \A v \in Member \ {w} :
        /\ IF Fresh(v)' THEN Clean(v)' ELSE Honest(v)'
        /\ Over(v)' => /\ ok'[v] = agree'[v]
                       /\ agree'[v] => done'[v] = reps'
  <2> SUFFICES ASSUME NEW v \in Member \ {w}
               PROVE  /\ IF Fresh(v)' THEN Clean(v)' ELSE Honest(v)'
                      /\ Over(v)' => /\ ok'[v] = agree'[v]
                                     /\ agree'[v] => done'[v] = reps'
    OBVIOUS
  <2>1. v \in Worker \ {w}
    BY MaxThreadsAssumption DEF TypeOK
  <2>2. /\ IF Fresh(v) THEN Clean(v) ELSE Honest(v)
        /\ Over(v) => ok[v] = agree[v] /\ (agree[v] => done[v] = reps)
    BY <1>1 DEF Results
  <2>3. Fresh(v)' <=> Fresh(v)
    BY <1>5, <2>1 DEF Fresh
  <2>4. QED
    BY <1>3, <1>4, <1>5, <2>1, <2>2, <2>3 DEF Clean, Honest
<1>7. Honest(w)'
  BY <1>2, <1>3 DEF Honest
<1>8. QED
  BY <1>2, <1>3, <1>4, <1>5, <1>6, <1>7 DEF Results, Judged, VerdictSound

LEMMA ResultsStartOpens ==
  ASSUME TypeOK, Places, Results, StartOpens
  PROVE  Results'
<1>1. /\ AllAt("start") /\ UNCHANGED <<n, reps, wrong, verdict, haveExpected>>
      /\ pc' = [w \in Spawned |-> IF w \in Started THEN "check" ELSE pc[w]]
      /\ \/ driver = "start" /\ driver' = "slice"
         \/ driver = "stopping" /\ driver' = "join"
  BY DEF StartOpens, cfgVars
<1>2. CASE driver' = "join"
  BY <1>2 DEF Results, Judged, VerdictSound
<1>3. CASE driver' = "slice"
  <2>1. reps > 0 /\ wrong = {} /\ \A w \in Worker : done[w] = 0
    BY <1>1, <1>3 DEF Results
  <2>2. 0 \in Worker /\ \A w \in Worker : done'[w] = 0
    BY <2>1, MaxThreadsAssumption DEF StartOpens, TypeOK
  <2>3. agree'[0]
    BY <2>2, Zenon DEF StartOpens, TypeOK
  <2>4. \A w \in Started : Fresh(w)' /\ Clean(w)' /\ ~Over(w)'
    <3> SUFFICES ASSUME NEW w \in Started PROVE Fresh(w)' /\ Clean(w)' /\ ~Over(w)'
      OBVIOUS
    <3>1. w \in Spawned /\ w \in Worker /\ w # 0
      BY MaxThreadsAssumption DEF TypeOK
    <3>2. QED
      BY <1>1, <1>3, <2>1, <2>2, <3>1 DEF Fresh, Clean, Over
  <2>5. ~Fresh(0)' /\ Honest(0)' /\ ~Over(0)'
    BY <1>1, <1>3, <2>1, <2>2, <2>3, MaxThreadsAssumption
    DEF Fresh, Honest, Over, TypeOK
  <2>6. \A w \in Member : w = 0 \/ w \in Started
    OBVIOUS
  <2>7. QED
    BY <1>1, <1>3, <2>1, <2>4, <2>5, <2>6 DEF Results, Judged, VerdictSound
<1>4. QED
  BY <1>1, <1>2, <1>3

LEMMA ResultsCheckStop ==
  ASSUME TypeOK, Places, Results, NEW w \in Spawned, CheckStop(w)
  PROVE  Results'
<1>1. /\ pc[w] = "check" /\ w \in Worker /\ w # 0
      /\ UNCHANGED <<driver, n, reps, wrong, ok, checksum, verdict, haveExpected>>
  BY DEF CheckStop, cfgVars
<1>2. CASE driver \notin Judged
  <2>1. driver \notin {"start", "ready"}
    <3>1. w \in Started
      BY <1>1 DEF Places
    <3>2. QED
      BY <1>1, <3>1 DEF Places, Before
  <2>2. QED
    BY <1>1, <1>2, <2>1 DEF Results, VerdictSound
<1>3. CASE driver \in Judged
  <2>1. ~stop /\ w \in Started /\ driver # "verdict"
    BY <1>1, <1>3 DEF Places, Judged
  <2>2. w \in Member /\ Fresh(w) /\ Clean(w)
    BY <1>1, <1>3, <2>1 DEF Results, Fresh
  <2>3. pc'[w] = "slice" /\ \A v \in Spawned \ {w} : pc'[v] = pc[v]
    BY <2>1 DEF CheckStop, TypeOK
  <2>4. done'[w] = 0 /\ \A v \in Worker \ {w} : done'[v] = done[v]
    BY <1>1 DEF CheckStop, TypeOK
  <2>5. agree'[w] /\ \A v \in Worker \ {w} : agree'[v] = agree[v]
    BY <1>1, Zenon DEF CheckStop, TypeOK
  <2>6. reps > 0 /\ wrong \subseteq Member
    BY <1>3 DEF Results
  <2>7. ~Fresh(w)' /\ Honest(w)' /\ ~Over(w)'
    BY <1>1, <1>3, <2>1, <2>2, <2>3, <2>4, <2>5, <2>6
    DEF Fresh, Clean, Honest, Over, Judged, TypeOK
  <2>8. ASSUME NEW v \in Member \ {w}
        PROVE  /\ IF Fresh(v)' THEN Clean(v)' ELSE Honest(v)'
               /\ Over(v)' => /\ ok'[v] = agree'[v]
                              /\ agree'[v] => done'[v] = reps'
    <3>1. v \in Worker \ {w} /\ (v = 0 \/ v \in Spawned \ {w})
      BY MaxThreadsAssumption DEF TypeOK
    <3>2. /\ IF Fresh(v) THEN Clean(v) ELSE Honest(v)
          /\ Over(v) => ok[v] = agree[v] /\ (agree[v] => done[v] = reps)
      BY <1>3 DEF Results
    <3>3. (Fresh(v)' <=> Fresh(v)) /\ (Over(v)' <=> Over(v))
      BY <1>1, <2>3, <3>1 DEF Fresh, Over
    <3>4. QED
      BY <1>1, <2>4, <2>5, <3>1, <3>2, <3>3 DEF Clean, Honest
  <2>9. QED
    BY <1>1, <1>3, <2>6, <2>7, <2>8 DEF Results, Judged, VerdictSound
<1>4. QED
  BY <1>2, <1>3

LEMMA ResultsJudge ==
  ASSUME TypeOK, Places, Results, NEW cancel \in BOOLEAN, Judge(cancel)
  PROVE  Results'
<1>1. /\ driver = "verdict" /\ driver' = "ready" /\ AllAt("start")
      /\ UNCHANGED <<n, reps, wrong, done, haveExpected>>
  BY DEF Judge, Places, cfgVars
<1>2. \A w \in Member : Honest(w) /\ ok[w] = agree[w] /\ (agree[w] => done[w] = reps)
  BY <1>1 DEF Results, Judged, Fresh, Over
<1>3. reps > 0 /\ wrong \subseteq Member
  BY <1>1 DEF Results, Judged
<1>4. ASSUME verdict' = "ok" PROVE VerdictSound'
  <2>1. \A w \in Member : ok[w]
    BY <1>4 DEF Judge
  <2>2. \A w \in Member : agree[w] /\ done[w] = reps
    BY <1>2, <2>1
  <2>3. haveExpected => AggregateMatches(cancel)
    BY <1>3, <1>4 DEF Judge
  <2>4. ~haveExpected => wrong = {}
    BY <1>2, <1>3, <2>2 DEF Honest
  <2>5. haveExpected => \A w \in Member : w \in wrong <=> checksum[w] # 0
    BY <1>2, <1>3, <2>2 DEF Honest, TypeOK
  <2>6. haveExpected => \A w \in Member : wrong # {w}
    BY <1>3, <2>3, <2>5 DEF AggregateMatches
  <2>7. QED
    BY <1>1, <1>4, <2>2, <2>4, <2>6 DEF VerdictSound
<1>5. ASSUME verdict' = "bad" PROVE VerdictSound'
  <2>1. CASE \E w \in Member : ~ok[w]
    BY <1>1, <1>2, <1>5, <2>1 DEF Honest, VerdictSound
  <2>2. CASE \A w \in Member : ok[w]
    <3>1. haveExpected /\ ~AggregateMatches(cancel)
      BY <1>5, <2>2 DEF Judge
    <3>2. PICK w \in Member : checksum[w] # 0
      BY <3>1 DEF AggregateMatches
    <3>3. agree[w] /\ done[w] = reps /\ Honest(w)
      BY <1>2, <2>2
    <3>4. w \in wrong
      BY <1>3, <3>1, <3>2, <3>3 DEF Honest
    <3>5. QED
      BY <1>1, <1>5, <3>4 DEF VerdictSound
  <2>3. QED
    BY <2>1, <2>2
<1>6. verdict' \in {"ok", "bad"}
  BY DEF Judge
<1>7. QED
  BY <1>1, <1>4, <1>5, <1>6 DEF Results, Judged

LEMMA ResultsDriverStep ==
  ASSUME TypeOK, Places, Results, DriverStep
  PROVE  Results'
<1> USE DEF runVars, cfgVars
<1>1. CASE SpawnOne
  BY <1>1 DEF SpawnOne, Results, Judged, VerdictSound
<1>2. CASE SpawnFails
  BY <1>2 DEF SpawnFails, Results, Judged, VerdictSound
<1>3. CASE SpawnDone
  BY <1>3 DEF SpawnDone, Places, Results, Judged, VerdictSound
<1>4. CASE Abort
  BY <1>4 DEF Abort, Results, Judged, VerdictSound
<1>5. ASSUME NEW r \in 1 .. MaxReps, Run(r) PROVE Results'
  BY <1>5, BoundsAssumption DEF Run, Results, Judged, VerdictSound
<1>6. CASE StartOpens
  BY <1>6, ResultsStartOpens
<1>7. ASSUME NEW e \in Errors, HashBatch(0, e) PROVE Results'
  <2>1. 0 \in Worker
    BY MaxThreadsAssumption
  <2>2. QED
    BY <1>7, <2>1, ResultsHashBatch, Zenon
<1>8. CASE FinishSlice(0)
  <2>1. 0 \in Worker
    BY MaxThreadsAssumption
  <2>2. QED
    BY <1>8, <2>1, ResultsFinishSlice, Zenon
<1>9. CASE DoneOpens
  <2>1. /\ driver = "done" /\ driver' = "verdict" /\ AllAt("done")
        /\ UNCHANGED <<n, runVars, haveExpected>>
    BY <1>9 DEF DoneOpens
  <2>2. \A w \in Started : ~Fresh(w)' /\ ~Fresh(w)
    <3> SUFFICES ASSUME NEW w \in Started PROVE ~Fresh(w)' /\ ~Fresh(w)
      OBVIOUS
    <3>1. w \in Spawned
      BY MaxThreadsAssumption DEF TypeOK
    <3>2. pc[w] = "done" /\ pc'[w] = "start"
      BY <1>9, <3>1 DEF DoneOpens
    <3>3. QED
      BY <3>2 DEF Fresh
  <2>3. \A w \in Member : ~Fresh(w)' /\ ~Fresh(w) /\ Over(w)
    BY <2>1, <2>2 DEF Fresh, Over
  <2>4. QED
    BY <2>1, <2>3 DEF Results, Judged, Honest, VerdictSound
<1>10. ASSUME NEW cancel \in BOOLEAN, Judge(cancel) PROVE Results'
  BY <1>10, ResultsJudge
<1>11. CASE ReadPinFailed
  BY <1>11 DEF ReadPinFailed, Results, Judged, VerdictSound
<1>12. CASE Destroy
  BY <1>12 DEF Destroy, Results, Judged, VerdictSound
<1>13. CASE Join
  BY <1>13 DEF Join, Results, Judged, VerdictSound
<1>14. QED
  BY <1>1, <1>2, <1>3, <1>4, <1>5, <1>6, <1>7, <1>8, <1>9, <1>10, <1>11,
     <1>12, <1>13
  DEF DriverStep, SliceStep

(* The steps a worker takes before start_bar concern no run in progress. *)
LEMMA ResultsArrival ==
  ASSUME TypeOK, Places, Results, NEW w \in Spawned,
         \/ GateSleep(w) \/ GateSpuriousWakeup(w) \/ PassGate(w) \/ PinWorker(w)
  PROVE  Results'
<1>1. /\ UNCHANGED <<driver, runVars, n, haveExpected>>
  BY DEF GateSleep, GateSpuriousWakeup, PassGate, PinWorker, cfgVars
<1>2. \A v \in Spawned : pc'[v] = pc[v] \/ Before(v)
  BY DEF GateSleep, GateSpuriousWakeup, PassGate, PinWorker, Before, TypeOK
<1>3. CASE driver \in Judged
  <2>1. \A v \in Member : (Fresh(v)' <=> Fresh(v)) /\ (Over(v)' <=> Over(v))
    <3> SUFFICES ASSUME NEW v \in Started
                 PROVE  (Fresh(v)' <=> Fresh(v)) /\ (Over(v)' <=> Over(v))
      BY <1>1 DEF Fresh, Over
    <3>1. v \in Spawned /\ v # 0
      BY MaxThreadsAssumption DEF TypeOK
    <3>2. CASE driver = "verdict"
      <4>1. pc[v] = "start" /\ pc'[v] # "check"
        BY <3>1, <3>2
        DEF Places, GateSleep, GateSpuriousWakeup, PassGate, PinWorker, TypeOK
      <4>2. QED
        BY <1>1, <3>1, <3>2, <4>1 DEF Fresh, Over
    <3>3. CASE driver \in {"slice", "done"}
      <4>1. During(v)
        BY <3>3 DEF Places
      <4>2. pc'[v] = pc[v]
        BY <1>2, <3>1, <4>1 DEF During, Before
      <4>3. QED
        BY <1>1, <3>1, <4>2 DEF Fresh, Over
    <3>4. QED
      BY <1>3, <3>2, <3>3 DEF Judged
  <2>2. QED
    BY <1>1, <1>3, <2>1 DEF runVars, Results, Judged, Clean, Honest, VerdictSound
<1>4. CASE driver \notin Judged
  BY <1>1, <1>4 DEF runVars, Results, VerdictSound
<1>5. QED
  BY <1>3, <1>4

LEMMA ResultsInvariant ==
  TypeOK /\ Places /\ Results /\ [Next]_vars => Results'
<1> SUFFICES ASSUME TypeOK, Places, Results, [Next]_vars PROVE Results'
  OBVIOUS
<1>1. ASSUME NEW threads \in 1 .. MaxThreads, NEW pin \in BOOLEAN,
             NEW have \in BOOLEAN, Create(threads, pin, have)
      PROVE  Results'
  BY <1>1 DEF Create, Results, Judged, VerdictSound
<1>2. CASE DriverStep
  BY <1>2, ResultsDriverStep
<1>3. ASSUME NEW w \in Spawned, WorkerStep(w) \/ GateSpuriousWakeup(w)
      PROVE  Results'
  <2>1. w \in Worker
    OBVIOUS
  <2>2. ASSUME NEW e \in Errors, HashBatch(w, e) PROVE Results'
    BY <2>1, <2>2, ResultsHashBatch
  <2>3. CASE FinishSlice(w)
    BY <2>1, <2>3, ResultsFinishSlice
  <2>4. CASE CheckStop(w)
    BY <2>4, ResultsCheckStop
  <2>5. QED
    BY <1>3, <2>2, <2>3, <2>4, ResultsArrival DEF WorkerStep, SliceStep
<1>4. CASE UNCHANGED vars
  BY <1>4 DEF vars, runVars, cfgVars, Results, Judged, Fresh, Over, Clean,
              Honest, VerdictSound
<1>5. QED
  BY <1>1, <1>2, <1>3, <1>4 DEF Next, NewPool

(* A run that pool_run calls right had every batch of every slice hashed and
   no wrong digest, or at least two wrong slices under a supplied reference;
   one it calls wrong really had a wrong digest.  This holds whatever the
   kernel returns and however the threads interleave. *)
THEOREM PoolVerdictSound == Spec => []VerdictSound
<1>1. Init => Results
  BY DEF Init, Results, Judged, VerdictSound
<1>2. TypeOK /\ Places /\ Results /\ [Next]_vars => Results'
  BY ResultsInvariant
<1>3. Results => VerdictSound
  BY DEF Results
<1>4. QED
  BY <1>1, <1>2, <1>3, AlwaysPlaces, PTL DEF Spec

-----------------------------------------------------------------------------
(* The calling thread's CPU mask. *)

LEMMA SmallRemainder ==
  ASSUME NEW a \in Nat, NEW b \in Nat \ {0}
  PROVE  a % b \in 0 .. b - 1 /\ (a < b => a % b = a)
  OBVIOUS

(* Pinned round-robin, workers spread over all the allowed CPUs, or over as many
   as there are workers. *)
LEMMA DistinctCpusCount ==
  ASSUME NEW threads \in Nat \ {0}, NEW allowed \in Nat \ {0}
  PROVE  DistinctCpus(threads, allowed) = IF threads < allowed THEN threads ELSE allowed
<1> DEFINE k == IF threads < allowed THEN threads ELSE allowed
           S == { w % allowed : w \in 0 .. threads - 1 }
<1>1. k \in Nat \ {0} /\ k <= threads /\ k <= allowed
  OBVIOUS
<1>2. ASSUME NEW w \in 0 .. threads - 1 PROVE w % allowed \in 0 .. k - 1
  <2>1. w \in Nat /\ w % allowed \in 0 .. allowed - 1 /\ (w < allowed => w % allowed = w)
    BY SmallRemainder
  <2> DEFINE r == w % allowed
  <2> HIDE DEF r
  <2>2. r \in 0 .. allowed - 1 /\ (w < allowed => r = w) /\ w \in 0 .. threads - 1
    BY <2>1 DEF r
  <2>3. r \in 0 .. k - 1
    BY <2>2
  <2> QED
    BY <2>3 DEF r
<1>3. ASSUME NEW i \in 0 .. k - 1 PROVE i \in S
  <2>1. i \in 0 .. threads - 1 /\ i \in Nat /\ i < allowed
    BY <1>1
  <2>2. i % allowed = i
    BY <2>1, SmallRemainder
  <2> QED
    BY <2>1, <2>2
<1>4. S = 0 .. k - 1
  BY <1>2, <1>3
<1> HIDE DEF k
<1>5. Cardinality(0 .. k - 1) = k
  <2>1. 0 \in Int /\ k - 1 \in Int /\ ~(0 > k - 1)
    BY <1>1
  <2>2. Cardinality(0 .. k - 1) = k - 1 - 0 + 1
    BY <2>1, FS_Interval
  <2> QED
    BY <1>1, <2>2
<1> QED
  BY <1>4, <1>5 DEF DistinctCpus, k

\* What a process spreads its workers over, once it has asked.
Spread == IF maskUnread THEN NumOnline ELSE NumCpus

(* Unless a mask was lost, the caller's is in the pool while a pool has changed
   it, and untouched otherwise; the list of allowed CPUs is the first mask, or
   what is online if the first read was refused. *)
Masks ==
  /\ IF cachedCpus = 0 THEN driver = "idle" /\ callerCpus = NumCpus /\ ~maskUnread
                       ELSE cachedCpus = Spread
  /\ \/ maskLost
     \/ callerCpus = NumCpus /\ savedCpus \in {0, NumCpus}
     \/ driver # "idle" /\ savedCpus = NumCpus
  /\ driver # "idle" /\ pinCpu
       => pinnedCpus = IF n < Spread THEN n ELSE Spread

LEMMA MasksCreate ==
  ASSUME TypeOK, Masks, NEW threads \in 1 .. MaxThreads, NEW pin \in BOOLEAN,
         NEW have \in BOOLEAN, Create(threads, pin, have)
  PROVE  Masks'
<1>0. PICK read \in BOOLEAN :
             /\ cachedCpus' = AllowedCpus(read)
             /\ pinnedCpus' = IF pin THEN DistinctCpus(threads, AllowedCpus(read)) ELSE 0
             /\ maskUnread' = (maskUnread \/ (cachedCpus = 0 /\ ~read))
  BY Zenon DEF Create
<1>1. driver = "idle" /\ driver' = "spawn" /\ n' = threads /\ pinCpu' = pin /\ PinCaller(pin)
  BY DEF Create
<1>2. /\ AllowedCpus(read) = Spread' /\ Spread' \in Nat \ {0} /\ threads \in Nat \ {0}
      /\ cachedCpus' = Spread' /\ cachedCpus' # 0
  <2>1. NumCpus \in Nat \ {0} /\ NumOnline \in Nat \ {0} /\ threads \in Nat \ {0}
    BY NumCpusAssumption, MaxThreadsAssumption
  <2>2. CASE cachedCpus = 0
    <3>1. callerCpus = NumCpus /\ ~maskUnread
      BY <2>2 DEF Masks
    <3>2. maskUnread' <=> ~read
      BY <1>0, <2>2, <3>1
    <3> QED
      BY <1>0, <2>1, <2>2, <3>1, <3>2 DEF AllowedCpus, Spread
  <2>3. CASE cachedCpus # 0
    <3>1. cachedCpus = Spread
      BY <2>3 DEF Masks
    <3>2. maskUnread' = maskUnread
      BY <1>0, <2>3 DEF TypeOK
    <3> QED
      BY <1>0, <2>1, <2>3, <3>1, <3>2 DEF AllowedCpus, Spread
  <2> QED
    BY <2>2, <2>3
<1>3. pin => pinnedCpus' = IF threads < Spread' THEN threads ELSE Spread'
  BY <1>0, <1>2, DistinctCpusCount
<1>4. \/ maskLost'
      \/ callerCpus' = NumCpus /\ savedCpus' \in {0, NumCpus}
      \/ driver' # "idle" /\ savedCpus' = NumCpus
  <2>1. PICK saved \in BOOLEAN, accepted \in BOOLEAN :
          /\ savedCpus'  = IF pin /\ saved THEN callerCpus ELSE 0
          /\ callerCpus' = IF pin /\ accepted THEN 1 ELSE callerCpus
          /\ maskLost'   = (maskLost \/ (pin /\ ~saved))
    BY <1>1 DEF PinCaller
  <2>2. maskLost \/ callerCpus = NumCpus
    BY <1>1 DEF Masks
  <2>3. CASE maskLost \/ (pin /\ ~saved)
    BY <2>1, <2>3
  <2>4. CASE callerCpus = NumCpus /\ pin /\ saved
    BY <1>1, <2>1, <2>4
  <2>5. CASE callerCpus = NumCpus /\ ~pin
    BY <2>1, <2>5
  <2> QED
    BY <2>2, <2>3, <2>4, <2>5
<1> QED
  BY <1>1, <1>2, <1>3, <1>4 DEF Masks

LEMMA MasksRestore ==
  ASSUME TypeOK, Masks, driver # "idle", RestoreCaller, driver' = "idle"
  PROVE  Masks'
<1>1. cachedCpus # 0 /\ cachedCpus' = cachedCpus /\ Spread' = Spread /\ savedCpus' = 0
  BY DEF RestoreCaller, Masks, Spread
<1>2. maskLost' \/ callerCpus' = NumCpus
  <2>1. \/ maskLost
        \/ callerCpus = NumCpus /\ savedCpus \in {0, NumCpus}
        \/ savedCpus = NumCpus
    BY Zenon DEF Masks
  <2>2. \/ callerCpus' = savedCpus /\ savedCpus # 0 /\ maskLost' = maskLost
        \/ maskLost' = TRUE
        \/ savedCpus = 0 /\ callerCpus' = callerCpus /\ maskLost' = maskLost
    BY Zenon DEF RestoreCaller
  <2>3. NumCpus # 0
    BY NumCpusAssumption
  <2> QED
    BY <2>1, <2>2, <2>3
<1> QED
  BY <1>1, <1>2 DEF Masks

LEMMA MasksInvariant == TypeOK /\ Masks /\ [Next]_vars => Masks'
<1> SUFFICES ASSUME TypeOK, Masks, [Next]_vars PROVE Masks'
  OBVIOUS
<1> USE DEF cfgVars, maskVars
<1>1. ASSUME UNCHANGED <<cfgVars, maskVars>>, driver' = "idle" <=> driver = "idle" PROVE Masks'
  BY <1>1 DEF Masks, Spread
<1>2. ASSUME NEW threads \in 1 .. MaxThreads, NEW pin \in BOOLEAN,
             NEW have \in BOOLEAN, Create(threads, pin, have)
      PROVE  Masks'
  BY <1>2, MasksCreate
<1>3. CASE Abort \/ Join
  BY <1>3, MasksRestore DEF Abort, Join
<1>4. ASSUME SpawnOne \/ SpawnFails \/ SpawnDone \/ StartOpens \/ DoneOpens \/ ReadPinFailed
             \/ Destroy
      PROVE  Masks'
  BY <1>1, <1>4 DEF SpawnOne, SpawnFails, SpawnDone, StartOpens, DoneOpens, ReadPinFailed,
                    Destroy
<1>5. ASSUME NEW r, Run(r) PROVE Masks'
  BY <1>1, <1>5 DEF Run
<1>6. ASSUME NEW cancel, Judge(cancel) PROVE Masks'
  BY <1>1, <1>6 DEF Judge
<1>7. ASSUME NEW w, NEW e, HashBatch(w, e) PROVE Masks'
  BY <1>1, <1>7 DEF HashBatch
<1>8. ASSUME NEW w, FinishSlice(w) PROVE Masks'
  BY <1>1, <1>8 DEF FinishSlice
<1>9. ASSUME NEW w, \/ GateSleep(w) \/ GateSpuriousWakeup(w) \/ PassGate(w) \/ PinWorker(w)
                    \/ CheckStop(w)
      PROVE  Masks'
  BY <1>1, <1>9 DEF GateSleep, GateSpuriousWakeup, PassGate, PinWorker, CheckStop
<1>10. CASE UNCHANGED vars
  BY <1>1, <1>10 DEF vars
<1> QED
  BY <1>2, <1>3, <1>4, <1>5, <1>6, <1>7, <1>8, <1>9, <1>10
  DEF Next, NewPool, DriverStep, WorkerStep, SliceStep

(* However a pool ends, by pool_destroy or because a thread would not start, the
   calling thread has its CPU mask back, unless the system refused to save or
   restore it; and a pinned pool spreads over all the CPUs the process started
   with, although an earlier pool may have pinned its caller to one, or over as
   many as are online if the system would not tell them when first asked. *)
THEOREM PoolMaskKept == Spec => []MaskKept
<1>1. Init => Masks
  BY DEF Init, Masks
<1>2. Masks => MaskKept
  BY DEF Masks, MaskKept, Spread
<1> QED
  BY <1>1, <1>2, InitTypeOK, TypeInvariant, MasksInvariant, PTL DEF Spec

=============================================================================
