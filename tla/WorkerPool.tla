----------------------------- MODULE WorkerPool -----------------------------
(***************************************************************************)
(* The persistent worker pool of src/bench.c: pool_create, worker_main,    *)
(* run_slice, pool_run and pool_destroy, driven the way measure_with_corpus*)
(* and vb_autotune drive it, one pool after another on one calling thread. *)
(*                                                                         *)
(* Worker 0 is the calling thread, the driver; workers 1 .. n-1 are        *)
(* threads it starts.  All of them meet at start_bar before a run and at   *)
(* done_bar after it.  The two barriers are the ones BarrierSpec           *)
(* describes: here a barrier opens in one step once everybody stands at    *)
(* it, and a thread that is late to leave is a thread that is late to take *)
(* its next step.                                                          *)
(*                                                                         *)
(* A slice's digest is represented by its error: 0 is the reference value, *)
(* anything else is a wrong digest.  Which error a call of the kernel      *)
(* makes is chosen freely, so the kernel may be right, constantly wrong or *)
(* not even a function of its input.                                       *)
(***************************************************************************)
EXTENDS Naturals, Integers, FiniteSets

CONSTANTS MaxThreads,  \* bound: threads a pool is asked for
          MaxReps,     \* bound: batches in one pool_run
          MaxRuns,     \* bound: calls of pool_run on one pool
          MaxPools,    \* bound: pools the process creates
          NumCpus,     \* CPUs the process is allowed on
          NumOnline,   \* CPUs that are online, or 1 if the system does not say
          Errors       \* errors a digest may have; 0 is no error

ASSUME MaxThreadsAssumption == MaxThreads \in Nat \ {0}
ASSUME BoundsAssumption     == /\ MaxReps \in Nat \ {0} /\ MaxPools \in Nat
                               /\ MaxRuns \in Nat /\ MaxRuns >= 2
ASSUME NumCpusAssumption    == NumCpus \in Nat \ {0} /\ NumOnline \in Nat \ {0}
ASSUME ErrorsAssumption     == 0 \in Errors

Worker  == 0 .. MaxThreads - 1
Spawned == Worker \ {0}

VARIABLES
  driver,       \* where the calling thread is
  pc,           \* where each started thread is
  asleep,       \* started threads blocked on gate_cv
  n,            \* workers of the pool
  pinCpu,       \* cfg->pin_cpu
  haveExpected, \* the caller supplied a whole-corpus reference
  live,         \* threads running while pool_create starts them
  gate,         \* 0 pending, 1 go, -1 abort
  reps,         \* batches of the current run
  stop,         \* set by pool_destroy
  pinFailed,    \* pool.pin_failed
  pinnedCpus,   \* pool.pinned_cpus
  done,         \* batches each worker hashed in the current run
  agree,        \* the local `ok` of run_slice
  checksum,     \* error of w->checksum
  ok,           \* w->ok
  verdict,      \* what the last pool_run reported
  reported,     \* out->pin_failed, "unread" before it is copied
  cachedCpus,   \* size of the list vb_allowed_cpus cached, 0 before
  callerCpus,   \* CPUs in the calling thread's affinity mask
  savedCpus,    \* the mask saved in the pool, 0 if have_caller_mask is unset
  runs,         \* history: runs of the current pool
  pools,        \* history: pools created
  wrong,        \* history: workers that computed a wrong digest in this run
  refused,      \* history: workers of this pool refused their CPU
  maskUnread,   \* history: vb_allowed_cpus could not read the mask
  maskLost      \* history: a mask could not be saved or restored

runVars  == <<reps, done, agree, checksum, ok, verdict, wrong, runs>>
cfgVars  == <<n, pinCpu, haveExpected, pinnedCpus, pools>>
maskVars == <<cachedCpus, callerCpus, savedCpus, maskUnread, maskLost>>
pinVars  == <<pinFailed, refused, reported>>
gateVars == <<gate, asleep, live>>
vars == <<driver, pc, stop, runVars, cfgVars, maskVars, pinVars, gateVars>>

Member     == 0 .. n - 1
Started    == Member \ {0}
AllAt(at)  == \A w \in Started : pc[w] = at
Hashing(w) == IF w = 0 THEN driver = "slice" ELSE pc[w] = "slice"

-----------------------------------------------------------------------------
(* The calling thread's CPU mask. *)

(* A definition whose name extends another one's, like Abort_NoRestore, is
   a slip a later edit of the code could make; the properties at the end of the
   module tell it from the code. *)

\* vb_allowed_cpus reads the mask once in the life of the process, and keeps what
\* is online instead if that one read is refused.
AllowedCpus(read) ==
  IF cachedCpus # 0 THEN cachedCpus ELSE IF read THEN callerCpus ELSE NumOnline

\* The distinct CPUs of workers pinned round-robin over the allowed ones.
DistinctCpus(threads, allowed) ==
  Cardinality({ w % allowed : w \in 0 .. threads - 1 })

\* restore_caller: what was saved is put back, unless the system refuses.
RestoreCaller ==
  /\ \/ /\ savedCpus # 0
        /\ callerCpus' = savedCpus
        /\ UNCHANGED maskLost
     \/ /\ savedCpus # 0
        /\ maskLost' = TRUE
        /\ UNCHANGED callerCpus
     \/ /\ savedCpus = 0
        /\ UNCHANGED <<callerCpus, maskLost>>
  /\ savedCpus' = 0
  /\ UNCHANGED <<cachedCpus, maskUnread>>

-----------------------------------------------------------------------------
(* pool_create. *)

\* Worker 0 pins the calling thread, after saving its mask; either call can
\* fail on its own.
PinCaller(pin) ==
  \E saved, accepted \in BOOLEAN :
    /\ savedCpus'  = IF pin /\ saved THEN callerCpus ELSE 0
    /\ callerCpus' = IF pin /\ accepted THEN 1 ELSE callerCpus
    /\ maskLost'   = (maskLost \/ (pin /\ ~saved))
    /\ pinFailed'  = (pin /\ ~accepted)
    /\ refused'    = IF pin /\ ~accepted THEN {0} ELSE {}

\* Up to the loop that starts the threads.  A calloc that fails returns
\* before any of this and leaves everything as it was.
Create(threads, pin, have) ==
  /\ driver = "idle" /\ pools < MaxPools
  /\ driver'       = "spawn"
  /\ pools'        = pools + 1
  /\ n'            = threads
  /\ pinCpu'       = pin
  /\ haveExpected' = have
  /\ \E read \in BOOLEAN :
       /\ cachedCpus' = AllowedCpus(read)
       /\ pinnedCpus' = IF pin THEN DistinctCpus(threads, AllowedCpus(read)) ELSE 0
       /\ maskUnread' = (maskUnread \/ (cachedCpus = 0 /\ ~read))
  /\ PinCaller(pin)
  /\ live' = 1 /\ gate' = 0 /\ stop' = FALSE
  /\ reps'     = 0
  /\ done'     = [w \in Worker |-> 0]
  /\ agree'    = [w \in Worker |-> TRUE]
  /\ checksum' = [w \in Worker |-> 0]
  /\ ok'       = [w \in Worker |-> FALSE]
  /\ wrong' = {} /\ runs' = 0
  /\ verdict' = "none" /\ reported' = "unread"
  /\ UNCHANGED <<pc, asleep>>

\* One thread too many is started.
SpawnOne_OffByOne ==
  /\ driver = "spawn" /\ live <= n
  /\ pc'   = [pc EXCEPT ![live] = "gate"]
  /\ live' = live + 1
  /\ UNCHANGED <<driver, gate, asleep, stop, runVars, cfgVars, maskVars, pinVars>>

SpawnOne ==
  /\ driver = "spawn" /\ live < n
  /\ pc'   = [pc EXCEPT ![live] = "gate"]
  /\ live' = live + 1
  /\ UNCHANGED <<driver, gate, asleep, stop, runVars, cfgVars, maskVars, pinVars>>

\* One waiter is woken instead of all.
OpenGate_Mistake(g) ==
  /\ gate' = g
  /\ IF asleep = {} THEN UNCHANGED asleep
     ELSE \E w \in asleep : asleep' = asleep \ {w}

\* Set the gate under its mutex and wake everybody waiting on it.
OpenGate(g) == gate' = g /\ asleep' = {}

\* pthread_create failed: the workers that did start are sent away.
SpawnFails ==
  /\ driver = "spawn" /\ live < n
  /\ OpenGate(-1)
  /\ driver' = "abort"
  /\ UNCHANGED <<pc, live, stop, runVars, cfgVars, maskVars, pinVars>>

\* All of them started: let them go, and compute the reference of slice 0.
SpawnDone ==
  /\ driver = "spawn" /\ live = n
  /\ OpenGate(1)
  /\ driver' = "ready"
  /\ UNCHANGED <<pc, live, stop, runVars, cfgVars, maskVars, pinVars>>

\* pthread_join has returned for every one of these threads.
Joined(threads) ==
  /\ \A w \in threads : pc[w] = "exit"
  /\ pc' = [w \in Spawned |-> IF w \in threads THEN "none" ELSE pc[w]]

\* The last worker that started is not joined.
Abort_NoJoin ==
  /\ driver = "abort"
  /\ Joined(1 .. live - 2)
  /\ driver' = "idle"
  /\ RestoreCaller
  /\ UNCHANGED <<gateVars, stop, runVars, cfgVars, pinVars>>

\* The error return does not put the mask back.
Abort_NoRestore ==
  /\ driver = "abort"
  /\ Joined(1 .. live - 1)
  /\ driver' = "idle"
  /\ UNCHANGED <<gateVars, stop, runVars, cfgVars, maskVars, pinVars>>

\* Join the workers that started, free the pool, restore the mask.
Abort ==
  /\ driver = "abort"
  /\ Joined(1 .. live - 1)
  /\ driver' = "idle"
  /\ RestoreCaller
  /\ UNCHANGED <<gateVars, stop, runVars, cfgVars, pinVars>>

-----------------------------------------------------------------------------
(* worker_main up to its loop. *)

GateSleep(w) ==
  /\ pc[w] = "gate" /\ w \notin asleep /\ gate = 0
  /\ asleep' = asleep \cup {w}
  /\ UNCHANGED <<driver, pc, gate, live, stop, runVars, cfgVars, maskVars, pinVars>>

GateSpuriousWakeup(w) ==
  /\ w \in asleep
  /\ asleep' = asleep \ {w}
  /\ UNCHANGED <<driver, pc, gate, live, stop, runVars, cfgVars, maskVars, pinVars>>

\* Past the gate: return at once if the pool gave up.
PassGate(w) ==
  /\ pc[w] = "gate" /\ w \notin asleep /\ gate # 0
  /\ pc' = [pc EXCEPT ![w] = IF gate < 0 THEN "exit" ELSE "pin"]
  /\ UNCHANGED <<driver, gateVars, stop, runVars, cfgVars, maskVars, pinVars>>

\* Pin, compute the slice's own reference, and come to start_bar.
PinWorker(w) ==
  /\ pc[w] = "pin"
  /\ \E accepted \in BOOLEAN :
       /\ pinFailed' = (pinFailed \/ (pinCpu /\ ~accepted))
       /\ refused'   = IF pinCpu /\ ~accepted THEN refused \cup {w} ELSE refused
  /\ pc' = [pc EXCEPT ![w] = "start"]
  /\ UNCHANGED <<driver, gateVars, stop, runVars, cfgVars, maskVars, reported>>

-----------------------------------------------------------------------------
(* pool_run and the worker loop. *)

\* The driver sets reps and comes to start_bar.  A run that failed was the
\* last: every caller of pool_run gives the pool up.
Run(r) ==
  /\ driver = "ready" /\ runs < MaxRuns /\ verdict # "bad"
  /\ driver' = "start"
  /\ reps'   = r
  /\ done'   = [w \in Worker |-> 0]
  /\ wrong'  = {}
  /\ runs'   = runs + 1
  /\ UNCHANGED <<pc, stop, agree, checksum, ok, verdict, cfgVars, maskVars, pinVars, gateVars>>

\* start_bar opens, for a run or for pool_destroy.
StartOpens ==
  /\ driver \in {"start", "stopping"} /\ AllAt("start")
  /\ pc'     = [w \in Spawned |-> IF w \in Started THEN "check" ELSE pc[w]]
  /\ driver' = IF driver = "start" THEN "slice" ELSE "join"
  /\ done'   = [done EXCEPT ![0] = 0]
  /\ agree'  = [agree EXCEPT ![0] = TRUE]
  /\ UNCHANGED <<stop, reps, checksum, ok, verdict, wrong, runs, cfgVars, maskVars, pinVars, gateVars>>

\* A worker that is through start_bar looks at p->stop.
CheckStop(w) ==
  /\ pc[w] = "check"
  /\ pc'    = [pc EXCEPT ![w] = IF stop THEN "exit" ELSE "slice"]
  /\ done'  = [done EXCEPT ![w] = 0]
  /\ agree' = [agree EXCEPT ![w] = TRUE]
  /\ UNCHANGED <<driver, stop, reps, checksum, ok, verdict, wrong, runs, cfgVars, maskVars, pinVars, gateVars>>

\* One iteration of run_slice: hash the slice, compare the digest with the
\* slice's reference or, when the caller supplied the whole-corpus one, with
\* the first batch of this run.
HashBatch(w, e) ==
  /\ Hashing(w) /\ agree[w] /\ done[w] < reps
  /\ done'  = [done EXCEPT ![w] = @ + 1]
  /\ wrong' = IF e # 0 THEN wrong \cup {w} ELSE wrong
  /\ checksum' = IF haveExpected /\ done[w] = 0
                 THEN [checksum EXCEPT ![w] = e] ELSE checksum
  /\ agree' = [agree EXCEPT ![w] =
                 IF haveExpected THEN done[w] = 0 \/ e = checksum[w] ELSE e = 0]
  /\ UNCHANGED <<driver, pc, stop, reps, ok, verdict, runs, cfgVars, maskVars, pinVars, gateVars>>

\* The end of run_slice; the worker comes to done_bar.
FinishSlice(w) ==
  /\ Hashing(w) /\ (~agree[w] \/ done[w] = reps)
  /\ ok' = [ok EXCEPT ![w] = agree[w]]
  /\ IF w = 0 THEN driver' = "done" /\ UNCHANGED pc
              ELSE pc' = [pc EXCEPT ![w] = "done"] /\ UNCHANGED driver
  /\ UNCHANGED <<stop, reps, done, agree, checksum, verdict, wrong, runs, cfgVars, maskVars, pinVars, gateVars>>

\* The driver does not wait at done_bar.
DoneOpens_NoWait ==
  /\ driver = "done"
  /\ pc'     = [w \in Spawned |-> IF pc[w] = "done" THEN "start" ELSE pc[w]]
  /\ driver' = "verdict"
  /\ UNCHANGED <<stop, runVars, cfgVars, maskVars, pinVars, gateVars>>

\* done_bar opens; the workers go round their loop to start_bar.
DoneOpens ==
  /\ driver = "done" /\ AllAt("done")
  /\ pc'     = [w \in Spawned |-> IF w \in Started THEN "start" ELSE pc[w]]
  /\ driver' = "verdict"
  /\ UNCHANGED <<stop, runVars, cfgVars, maskVars, pinVars, gateVars>>

\* The XOR of the slices against the supplied reference: one wrong slice
\* shows, two or more may cancel.
AggregateMatches(cancel) ==
  LET off == { w \in Member : checksum[w] # 0 }
  IN  off = {} \/ (cancel /\ \A w \in off : off # {w})

\* The slices are asked, the supplied reference is not.
Judge_NoAggregate(cancel) ==
  /\ driver = "verdict"
  /\ verdict' = IF \A w \in Member : ok[w] THEN "ok" ELSE "bad"
  /\ driver' = "ready"
  /\ UNCHANGED <<pc, stop, reps, done, agree, checksum, ok, wrong, runs, cfgVars, maskVars, pinVars, gateVars>>

\* The end of pool_run, on the driver.
Judge(cancel) ==
  /\ driver = "verdict"
  /\ verdict' = IF /\ \A w \in Member : ok[w]
                   /\ haveExpected /\ reps > 0 => AggregateMatches(cancel)
                THEN "ok" ELSE "bad"
  /\ driver' = "ready"
  /\ UNCHANGED <<pc, stop, reps, done, agree, checksum, ok, wrong, runs, cfgVars, maskVars, pinVars, gateVars>>

-----------------------------------------------------------------------------
(* measure_with_corpus around the runs. *)

\* Copied as soon as pool_create returns.
ReadPinFailed_Early ==
  /\ driver = "ready" /\ reported = "unread"
  /\ reported' = IF pinFailed THEN "failed" ELSE "pinned"
  /\ UNCHANGED <<driver, pc, stop, runVars, cfgVars, maskVars, pinFailed, refused, gateVars>>

\* After calibrate_reps, which makes two runs or stops at a failed one.
ReadPinFailed ==
  /\ driver = "ready" /\ reported = "unread"
  /\ runs >= 2 \/ verdict = "bad"
  /\ reported' = IF pinFailed THEN "failed" ELSE "pinned"
  /\ UNCHANGED <<driver, pc, stop, runVars, cfgVars, maskVars, pinFailed, refused, gateVars>>

\* pool_destroy: set stop and come to start_bar a last time.
Destroy ==
  /\ driver = "ready" /\ reported # "unread"
  /\ stop'   = TRUE
  /\ driver' = "stopping"
  /\ UNCHANGED <<pc, runVars, cfgVars, maskVars, pinVars, gateVars>>

\* Join every worker, free the pool, restore the mask.
Join ==
  /\ driver = "join" /\ Joined(Started)
  /\ driver' = "idle"
  /\ RestoreCaller
  /\ UNCHANGED <<stop, runVars, cfgVars, pinVars, gateVars>>

-----------------------------------------------------------------------------

Init ==
  /\ driver = "idle"
  /\ pc     = [w \in Spawned |-> "none"]
  /\ asleep = {}
  /\ n = 1 /\ pinCpu = FALSE /\ haveExpected = FALSE /\ pinnedCpus = 0
  /\ live = 1 /\ gate = 0 /\ reps = 0 /\ stop = FALSE
  /\ pinFailed = FALSE /\ refused = {} /\ reported = "unread"
  /\ done     = [w \in Worker |-> 0]
  /\ agree    = [w \in Worker |-> TRUE]
  /\ checksum = [w \in Worker |-> 0]
  /\ ok       = [w \in Worker |-> FALSE]
  /\ verdict = "none" /\ wrong = {} /\ runs = 0 /\ pools = 0
  /\ cachedCpus = 0 /\ callerCpus = NumCpus /\ savedCpus = 0
  /\ maskUnread = FALSE /\ maskLost = FALSE

NewPool ==
  \E threads \in 1 .. MaxThreads, pin, have \in BOOLEAN : Create(threads, pin, have)

SliceStep(w) == (\E e \in Errors : HashBatch(w, e)) \/ FinishSlice(w)

DriverStep ==
  \/ SpawnOne \/ SpawnFails \/ SpawnDone \/ Abort
  \/ \E r \in 1 .. MaxReps : Run(r)
  \/ StartOpens
  \/ SliceStep(0)
  \/ DoneOpens
  \/ \E cancel \in BOOLEAN : Judge(cancel)
  \/ ReadPinFailed \/ Destroy \/ Join

WorkerStep(w) ==
  GateSleep(w) \/ PassGate(w) \/ PinWorker(w) \/ CheckStop(w) \/ SliceStep(w)

Next ==
  \/ NewPool
  \/ DriverStep
  \/ \E w \in Spawned : WorkerStep(w) \/ GateSpuriousWakeup(w)

(* Threads run: the calling thread and every started thread take their next
   step when they can, a kernel call ends, and a spurious wake-up need never
   come.  Nothing makes the caller ask for another pool. *)
Fairness == WF_vars(DriverStep) /\ \A w \in Spawned : WF_vars(WorkerStep(w))

Spec == Init /\ [][Next]_vars /\ Fairness

-----------------------------------------------------------------------------

DriverAt == {"idle", "spawn", "abort", "ready", "start", "slice", "done",
             "verdict", "stopping", "join"}
WorkerAt == {"none", "gate", "pin", "start", "check", "slice", "done", "exit"}

(* Types and ranges: no more threads are started than the pool has workers,
   and no worker hashes more batches than the run asks for. *)
TypeOK ==
  /\ driver \in DriverAt
  /\ pc \in [Spawned -> WorkerAt]
  /\ asleep \in SUBSET Spawned
  /\ n \in 1 .. MaxThreads /\ live \in 1 .. MaxThreads
  /\ pinCpu \in BOOLEAN /\ haveExpected \in BOOLEAN
  /\ gate \in {-1, 0, 1}
  /\ reps \in 0 .. MaxReps /\ runs \in 0 .. MaxRuns /\ pools \in 0 .. MaxPools
  /\ stop \in BOOLEAN
  /\ pinFailed \in BOOLEAN /\ refused \in SUBSET Worker
  /\ reported \in {"unread", "failed", "pinned"}
  /\ done \in [Worker -> 0 .. MaxReps]
  /\ agree \in [Worker -> BOOLEAN] /\ ok \in [Worker -> BOOLEAN]
  /\ checksum \in [Worker -> Errors]
  /\ verdict \in {"none", "ok", "bad"}
  /\ wrong \in SUBSET Worker
  /\ pinnedCpus \in Nat /\ cachedCpus \in Nat
  /\ callerCpus \in Nat \ {0} /\ savedCpus \in Nat
  /\ maskUnread \in BOOLEAN /\ maskLost \in BOOLEAN

(* pool_run's verdict is about the run it closes.  "ok" says that every slice
   of the corpus was hashed exactly reps times and that no digest was wrong,
   or, under a supplied whole-corpus reference, that the wrong slices were at
   least two (the one case the comment in pool_run concedes).  "bad" says
   that some digest really was wrong. *)
VerdictSound ==
  driver = "ready" =>
    /\ verdict = "ok" =>
         /\ \A w \in Member : done[w] = reps
         /\ ~haveExpected => wrong = {}
         /\ haveExpected  => \A w \in Member : wrong # {w}
    /\ verdict = "bad" => wrong # {}

(* The driver writes reps and stop only when no worker can be reading them:
   the barriers are all that orders these plain fields. *)
DriverWritesQuiescent ==
  [][reps' # reps \/ stop' # stop
       => \A w \in Spawned : pc[w] \notin {"check", "slice"}]_vars

(* The pin_failed a result carries misses no worker that was refused its CPU
   and accuses nobody. *)
PinReportComplete ==
  reported # "unread" => (reported = "failed" <=> refused # {})

(* Between pools no thread of an old one is left that could touch the freed
   pool, and a worker of a pool that gave up never gets to a barrier. *)
TeardownQuiescent ==
  /\ driver = "idle" => \A w \in Spawned : pc[w] = "none"
  /\ gate < 0 => \A w \in Spawned : pc[w] \in {"none", "gate", "exit"}

(* However a pool ends, the calling thread has its CPU mask back, unless the
   system refused to save or to restore it.  And every pinned pool spreads over
   all the CPUs the process started with, whatever earlier pools did to the
   calling thread; or, if the system refused to tell them the one time it was
   asked, over as many as are online, the later pools like the first. *)
MaskKept ==
  /\ driver = "idle" => callerCpus = NumCpus \/ maskLost
  /\ driver # "idle" /\ pinCpu
       => LET cpus == IF maskUnread THEN NumOnline ELSE NumCpus
          IN  pinnedCpus = IF n < cpus THEN n ELSE cpus

(* Every pool that is created is torn down again: nobody waits for ever at
   the gate or at a barrier. *)
PoolDrains == driver # "idle" ~> driver = "idle"

=============================================================================
