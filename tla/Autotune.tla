-------------------------------- MODULE Autotune --------------------------------
(***************************************************************************)
(* Choosing a kernel and measuring it: vb_autotune, vb_measure and         *)
(* measure_with_corpus of src/bench.c, vb_corpus_build of src/workload.c,  *)
(* and what main makes of them, from the kernel it was told to run (or not *)
(* told) to the exit code.                                                 *)
(*                                                                         *)
(* A probe and the final measurement are the same function.  Each run of   *)
(* the worker pool in it is right or wrong (WorkerPool says what that      *)
(* means), and a device kernel's measurement ends in one of the ways that  *)
(* DeviceMeasure tells apart.  Clocks decide only how fast a kernel seems. *)
(* The rows of other algorithms are not in the table.                      *)
(***************************************************************************)
EXTENDS Naturals, Sequences, FiniteSets

CONSTANTS Table,      \* the registry: records [lanes, streams, backend]
          Cpu,        \* the backend of a CPU kernel
          Backends,   \* the device backends
          Portable,   \* kernels any machine can run
          BatchLcm,   \* VB_BATCH_LCM
          Messages,   \* vb_batch_messages
          NumSamples, \* timed samples of a measurement
          Speeds      \* medians a measurement may come to

Kernel == 1 .. Len(Table)
Lanes(k)  == Table[k].lanes
Group(k)  == Table[k].lanes * Table[k].streams
OnCpu(k)  == Table[k].backend = Cpu

ASSUME TableAssumption ==
  Table \in Seq([lanes : Nat \ {0}, streams : Nat \ {0}, backend : Backends \cup {Cpu}])
ASSUME PortableAssumption == Portable \subseteq Kernel
ASSUME SizesAssumption ==
  /\ BatchLcm \in Nat \ {0} /\ NumSamples \in Nat \ {0}
  /\ Messages \in Nat \ {0} /\ Messages % BatchLcm = 0
ASSUME SpeedsAssumption == Speeds \subseteq Nat \ {0}

VARIABLES
  at,          \* where the process is
  named,       \* --kernel, 0 if there is none
  where,       \* --where
  backends,    \* --backend, {} if it names none
  available,   \* kernels whose available() is true
  k,           \* the kernel in hand
  best,        \* best kernel so far, 0 for none
  bestHps,     \* best_hps
  memory,      \* lanes of the corpus in memory, 0 if there is none
  corpusLanes, \* corpus_lanes
  verifyFailed,  \* why->verify_failed
  couldNotRun,   \* why->could_not_run
  verified,    \* out->verified
  runError,    \* out->run_error is not empty
  median,      \* out->median
  sampled,     \* samples taken
  power,       \* "closed", "open" or "running"
  pool,        \* the worker pool exists
  exit,        \* the exit code, "none" before
  passed,      \* history: medians of the kernels that passed a probe
  wrongIn,     \* history: kernels that computed a wrong digest in a probe
  wrongNow     \* history: the measurement in hand has met a wrong digest

cfgVars    == <<named, where, backends, available>>
tuneVars   == <<best, bestHps, corpusLanes, verifyFailed, couldNotRun, passed, wrongIn>>
resultVars == <<verified, runError, median, sampled, wrongNow>>
ownVars    == <<power, pool>>
vars == <<at, k, memory, exit, cfgVars, tuneVars, resultVars, ownVars>>

Timed == {"calibrate", "warmup", "recalibrate", "sample"}
Measuring == {"begin", "validate", "pool", "device", "done"} \cup Timed

(* The definitions whose name ends in what is wrong with them are slips an
   edit of the code could make; the properties tell them from the code. *)

\* vb_batch_divides.
Divides(x) == BatchLcm % Group(x) = 0

\* vb_corpus_build needs lanes that divide the batch, and memory.
CanBuild(x) == Messages % Lanes(x) = 0

\* By --where, or by --backend, which asks for a device kernel as well.
Excluded(x) ==
  \/ where = "cpu" /\ ~OnCpu(x)
  \/ where = "device" /\ OnCpu(x)
  \/ backends # {} /\ Table[x].backend \notin backends

\* What main asks of a kernel it is told to run.
Runnable(x) == x \in available /\ Divides(x)

ExitWith(code) == at' = "exited" /\ exit' = code

-----------------------------------------------------------------------------
(* main, before it runs anything. *)

\* --kernel: first what is wrong on any machine, then what is on this one.
UseNamed ==
  /\ at = "options" /\ named # 0
  /\ CASE Excluded(k)                    -> ExitWith("usage")
       [] ~Excluded(k) /\ ~Runnable(k)   -> ExitWith("cannot_run")
       [] OTHER                          -> at' = "build" /\ UNCHANGED exit
  /\ UNCHANGED <<k, memory, cfgVars, tuneVars, resultVars, ownVars>>

\* No --kernel; --backend has nothing to say of a CPU run.
UseAny ==
  /\ at = "options" /\ named = 0
  /\ IF where = "cpu" /\ backends # {} THEN ExitWith("usage")
                                       ELSE at' = "select" /\ UNCHANGED exit
  /\ UNCHANGED <<k, memory, cfgVars, tuneVars, resultVars, ownVars>>

(* The loop of vb_autotune. *)

\* Excluded by the command line, or not for this machine.
Skip ==
  /\ at = "select" /\ k \in Kernel
  /\ Excluded(k) \/ k \notin available
  /\ k' = k + 1
  /\ UNCHANGED <<at, memory, exit, cfgVars, tuneVars, resultVars, ownVars>>

Candidate == at = "select" /\ k \in Kernel /\ ~Excluded(k) /\ k \in available

\* The corpus in memory has the right lanes.
Reuse ==
  /\ Candidate /\ Lanes(k) = corpusLanes
  /\ at' = "begin"
  /\ UNCHANGED <<k, memory, exit, cfgVars, tuneVars, resultVars, ownVars>>

Rebuild ==
  /\ Candidate /\ Lanes(k) # corpusLanes /\ CanBuild(k)
  /\ memory' = Lanes(k) /\ corpusLanes' = Lanes(k)
  /\ at' = "begin"
  /\ UNCHANGED <<k, exit, best, bestHps, verifyFailed, couldNotRun, passed, wrongIn,
                 cfgVars, resultVars, ownVars>>

\* The width is remembered of a corpus that is no longer there.
RebuildFails_KeepsLanes ==
  /\ Candidate /\ Lanes(k) # corpusLanes
  /\ memory' = 0
  /\ couldNotRun' = couldNotRun + 1
  /\ k' = k + 1
  /\ UNCHANGED <<at, exit, best, bestHps, corpusLanes, verifyFailed, passed, wrongIn,
                 cfgVars, resultVars, ownVars>>

\* The old corpus is gone already when the new one cannot be built.
RebuildFails ==
  /\ Candidate /\ Lanes(k) # corpusLanes
  /\ memory' = 0 /\ corpusLanes' = 0
  /\ couldNotRun' = couldNotRun + 1
  /\ k' = k + 1
  /\ UNCHANGED <<at, exit, best, bestHps, verifyFailed, passed, wrongIn,
                 cfgVars, resultVars, ownVars>>

\* The fastest median is not kept, so that any later kernel beats it.
NewBest_NotKept ==
  IF median > bestHps THEN best' = k /\ UNCHANGED bestHps ELSE UNCHANGED <<best, bestHps>>

NewBest ==
  IF median > bestHps THEN best' = k /\ bestHps' = median ELSE UNCHANGED <<best, bestHps>>

\* Every probe that brought no figure is the kernel's fault.
Blames_All == ~verified

\* A probe that failed and left no reason is one that failed verification.
Blames == ~verified /\ ~runError

\* What the loop makes of a probe.
Account ==
  /\ at = "measured" /\ named = 0
  /\ IF verified THEN NewBest ELSE UNCHANGED <<best, bestHps>>
  /\ couldNotRun' = IF ~verified /\ runError THEN couldNotRun + 1 ELSE couldNotRun
  /\ verifyFailed' = IF Blames THEN verifyFailed + 1 ELSE verifyFailed
  /\ passed' = IF verified THEN [passed EXCEPT ![k] = median] ELSE passed
  /\ wrongIn' = IF wrongNow THEN wrongIn \cup {k} ELSE wrongIn
  /\ k' = k + 1
  /\ at' = "select"
  /\ UNCHANGED <<memory, corpusLanes, exit, cfgVars, resultVars, ownVars>>

\* Whatever could not run comes first.
NoKernel_OutOfOrder ==
  IF couldNotRun = 0 /\ verifyFailed > 0 THEN "verify_failed" ELSE "cannot_run"

\* main, if no kernel was chosen.
NoKernel == IF verifyFailed > 0 THEN "verify_failed" ELSE "cannot_run"

\* The end of the loop; the kernel chosen goes the way of a named one.
Choose ==
  /\ at = "select" /\ k \notin Kernel
  /\ memory' = 0 /\ corpusLanes' = 0
  /\ IF best = 0 THEN ExitWith(NoKernel) /\ UNCHANGED <<k, named>>
                 ELSE at' = "build" /\ k' = best /\ named' = best /\ UNCHANGED exit
  /\ UNCHANGED <<best, bestHps, verifyFailed, couldNotRun, passed, wrongIn,
                 where, backends, available, resultVars, ownVars>>

-----------------------------------------------------------------------------
(* vb_measure. *)

Build ==
  /\ at = "build" /\ CanBuild(k)
  /\ memory' = Lanes(k)
  /\ at' = "begin"
  /\ UNCHANGED <<k, exit, cfgVars, tuneVars, resultVars, ownVars>>

BuildFails ==
  /\ at = "build"
  /\ ExitWith("cannot_run")
  /\ runError' = TRUE
  /\ UNCHANGED <<k, memory, verified, median, sampled, wrongNow, cfgVars, tuneVars, ownVars>>

-----------------------------------------------------------------------------
(* measure_with_corpus. *)

Begin ==
  /\ at = "begin"
  /\ verified' = FALSE /\ runError' = FALSE /\ median' = 0 /\ sampled' = 0
  /\ wrongNow' = FALSE
  /\ power' = "open"
  /\ at' = IF OnCpu(k) THEN "validate" ELSE "device"
  /\ UNCHANGED <<k, memory, exit, pool, cfgVars, tuneVars>>

\* The device measurement: a median, a wrong digest, a device that could not
\* be set up, or an error in the middle.
MeasureDevice(end, speed) ==
  /\ at = "device"
  /\ verified' = (end = "passed")
  /\ median' = IF end = "passed" THEN speed ELSE 0
  /\ runError' = (end = "cannot run")
  /\ wrongNow' = (end = "wrong")
  /\ power' = "closed"
  /\ at' = "measured"
  /\ UNCHANGED <<k, memory, exit, sampled, pool, cfgVars, tuneVars>>

Stumble(wrong) == at' = "done" /\ wrongNow' = wrong

\* vb_validate_kernel: a group that does not divide the batch is not even run.
Validate(right) ==
  /\ at = "validate"
  /\ IF right /\ Divides(k) THEN at' = "pool" /\ UNCHANGED wrongNow
                            ELSE Stumble(Divides(k))
  /\ UNCHANGED <<k, memory, exit, verified, runError, median, sampled, cfgVars, tuneVars, ownVars>>

CreatePool(starts) ==
  /\ at = "pool"
  /\ pool' = starts /\ runError' = ~starts
  /\ at' = IF starts THEN "calibrate" ELSE "done"
  /\ UNCHANGED <<k, memory, exit, power, verified, median, sampled, wrongNow, cfgVars, tuneVars>>

\* pool_run in the untimed phases, each of which may take several.
UntimedRun(right) ==
  /\ at \in Timed \ {"sample"}
  /\ IF ~right THEN Stumble(TRUE) ELSE
       /\ at' = CASE at = "calibrate"   -> "warmup"
                  [] at = "warmup"      -> "recalibrate"
                  [] at = "recalibrate" -> "sample"
       /\ UNCHANGED wrongNow
  /\ power' = IF at' = "sample" THEN "running" ELSE power
  /\ UNCHANGED <<k, memory, exit, pool, verified, runError, median, sampled, cfgVars, tuneVars>>

SampleRun(right, speed) ==
  /\ at = "sample"
  /\ sampled' = IF right THEN sampled + 1 ELSE sampled
  /\ IF ~right THEN Stumble(TRUE) /\ UNCHANGED <<power, verified, median>>
     ELSE /\ IF sampled + 1 < NumSamples
               THEN UNCHANGED <<at, power, verified, median>>
               ELSE /\ power' = "open" /\ verified' = TRUE /\ median' = speed
                    /\ at' = "done"
          /\ UNCHANGED wrongNow
  /\ UNCHANGED <<k, memory, exit, pool, runError, cfgVars, tuneVars>>

\* vb_power_end if it is still running, pool_destroy, vb_power_close.
TearDown == power' = "closed" /\ pool' = FALSE

Done ==
  /\ at = "done"
  /\ TearDown
  /\ at' = "measured"
  /\ UNCHANGED <<k, memory, exit, cfgVars, tuneVars, resultVars>>

\* vb_measure frees its corpus and main reports; "ok" is VB_EXIT_NOISY as well.
Report ==
  /\ at = "measured" /\ named # 0
  /\ memory' = 0
  /\ ExitWith(CASE verified              -> "ok"
                [] ~verified /\ runError -> "cannot_run"
                [] OTHER                 -> "verify_failed")
  /\ UNCHANGED <<k, cfgVars, tuneVars, resultVars, ownVars>>

-----------------------------------------------------------------------------

Init ==
  /\ named \in {0} \cup Kernel
  /\ where \in {"any", "cpu", "device"}
  /\ backends \in SUBSET Backends
  /\ available \in {a \cup Portable : a \in SUBSET Kernel}
  /\ at = "options"
  /\ k = IF named = 0 THEN 1 ELSE named
  /\ best = 0 /\ bestHps = 0 /\ memory = 0 /\ corpusLanes = 0
  /\ verifyFailed = 0 /\ couldNotRun = 0
  /\ verified = FALSE /\ runError = FALSE /\ median = 0 /\ sampled = 0
  /\ power = "closed" /\ pool = FALSE /\ exit = "none"
  /\ passed = [x \in Kernel |-> 0] /\ wrongIn = {} /\ wrongNow = FALSE

Tune == Skip \/ Reuse \/ Rebuild \/ RebuildFails \/ Account \/ Choose

Measure ==
  \/ Begin \/ Done
  \/ \E end \in {"passed", "wrong", "cannot run", "broke off"}, speed \in Speeds :
       MeasureDevice(end, speed)
  \/ \E yes \in BOOLEAN : Validate(yes) \/ CreatePool(yes) \/ UntimedRun(yes)
  \/ \E right \in BOOLEAN, speed \in Speeds : SampleRun(right, speed)

Next == UseNamed \/ UseAny \/ Tune \/ Build \/ BuildFails \/ Measure \/ Report

Spec == Init /\ [][Next]_vars

-----------------------------------------------------------------------------

(* Types and ranges; the counts never exceed the kernels there are. *)
TypeOK ==
  /\ at \in {"options", "select", "build", "measured", "exited"} \cup Measuring
  /\ named \in {0} \cup Kernel /\ where \in {"any", "cpu", "device"}
  /\ backends \subseteq Backends /\ available \subseteq Kernel
  /\ k \in 1 .. Len(Table) + 1 /\ best \in {0} \cup Kernel
  /\ bestHps \in {0} \cup Speeds /\ median \in {0} \cup Speeds
  /\ {memory, corpusLanes} \subseteq {0} \cup {Lanes(x) : x \in Kernel}
  /\ verifyFailed + couldNotRun \in 0 .. Len(Table)
  /\ verified \in BOOLEAN /\ runError \in BOOLEAN /\ sampled \in 0 .. NumSamples
  /\ power \in {"closed", "open", "running"} /\ pool \in BOOLEAN
  /\ exit \in {"none", "ok", "verify_failed", "usage", "cannot_run"}
  /\ passed \in [Kernel -> {0} \cup Speeds] /\ wrongIn \subseteq Kernel
  /\ wrongNow \in BOOLEAN

(* The kernel vb_autotune returns passed its probe, could be asked for, and no
   other that passed was faster, wherever in the table it stands and whatever
   became of the others; it returns none only if none passed. *)
BestIsFastest ==
  /\ \A x \in Kernel : passed[x] <= (IF best = 0 THEN 0 ELSE passed[best])
  /\ best # 0 => best \in available /\ ~Excluded(best) /\ best \notin wrongIn

(* Every measurement reads a corpus that is in memory and laid out for its own
   lanes, though autotune keeps one from kernel to kernel and an attempt to
   replace it may fail half-way. *)
CorpusFits == at \in Measuring => memory = Lanes(k)

(* At the end of a measurement nothing of it is left, whatever broke it off:
   no thread, no open energy source; and no corpus when the process exits. *)
TornDown ==
  /\ at \in {"measured", "select", "build", "exited"} => power = "closed" /\ ~pool
  /\ at = "exited" => memory = 0

(* What a measurement needs is there while it runs, and gone once it is over. *)
OwnsWhatItUses == CorpusFits /\ TornDown

(* "A single wrong answer outranks everything else": if no kernel passed and
   one was wrong, the exit code says so.  A figure is reported only if no
   digest of its measurement was wrong, and a CPU kernel chosen or named is
   blamed only if one was. *)
ExitHonest ==
  at = "exited" =>
    /\ named = 0 /\ wrongIn # {} => exit = "verify_failed"
    /\ exit = "ok" => ~wrongNow
    /\ named # 0 /\ OnCpu(named) /\ exit = "verify_failed" => wrongNow

=============================================================================
