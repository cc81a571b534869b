------------------------------ MODULE DeviceContext ------------------------------
(***************************************************************************)
(* One device context from vb_dev_ctx_init to vb_dev_ctx_free of           *)
(* src/device/device.c, with the back end's build, alloc, pin_staging,     *)
(* launch, read, pipe_open and destroy of src/opencl/backend.c and         *)
(* src/cuda/backend.c: what it holds at every point where a driver call    *)
(* may fail, which geometry it comes to and what its launches hash.        *)
(*                                                                         *)
(* The capacity probe runs on the device as CapacityProbe says.  A hash    *)
(* launch is one step, since the host waits for it; the pipeline's are in  *)
(* DevicePipeline.  Sizes of groups and grids are scaled down by constants *)
(* named as the macros they stand for.                                     *)
(***************************************************************************)
EXTENDS CapacityProbe, DeviceKernel, Sequences, Functions

\* The sizes of a work-group, up to more than any device takes.
Powers == { 2 ^ e : e \in 0 .. 15 }

CONSTANTS
  Devices,    \* records [api, units, maxGroup, kernelMax, scratch, holds, lanes, n]
  Pins,       \* --device-geometry: pairs of sizes, <<0, 0>> for none
  MinLocal, MaxLocal, FloorLocal, PerCu, \* the VB_DEV_ constants of these names
  Target,     \* VB_DEV_TARGET_LAUNCH_NS
  MaxRepeats, \* 0xffff
  Times       \* device times a launch may take, 0 if not profiled

ASSUME MaxRepeatsAssumption == MaxRepeats \in Nat /\ MaxRepeats % 2 = 1
ASSUME TargetAssumption     == Target \in Nat \ {0} /\ Times \subseteq Nat
ASSUME LocalAssumption ==
  {MinLocal, MaxLocal, FloorLocal} \subseteq Powers /\ FloorLocal <= MinLocal /\ MinLocal <= MaxLocal
\* Every row of the kernel table that runs on a device has VB_OCL_LANES lanes, so
\* that a group of any size the tuner tries tiles them and none is skipped.
ASSUME LanesAssumption == \A d \in Devices : d.lanes \in Powers
\* A device that reports no compute unit is taken to have one, or cannot launch.
ASSUME DevicesAssumption ==
  \A d \in Devices :
    /\ d.api \in {"opencl", "cuda"}
    /\ d.units \in Nat \ {0} /\ d.n \in Nat \ {0}
    /\ d.maxGroup \in Nat /\ d.kernelMax \in Nat /\ d.scratch \in Nat
    /\ \A l \in Powers : l <= Larger(MaxLocal, d.maxGroup) => d.holds[l] \in Nat
ASSUME PinsAssumption  == Pins \subseteq Nat \X Nat
ASSUME PerCuAssumption == PerCu \in Nat \ {0}

VARIABLES
  at,       \* where the context is
  dev,      \* the device, kernel and slice
  pin,      \* o->pin_global, o->pin_local
  todo,     \* driver calls the back end still has to make
  next,     \* where it goes after them
  held,     \* what has been acquired and not released
  error,    \* c->error is not empty
  cap,      \* partial_cap
  glob,     \* global_size
  loc,      \* local_size
  repeats,  \* repeats
  saved,    \* measure_capacity's copies of the three
  capacity, \* capacity, in work-items
  local,    \* tune_geometry: the group size being tried
  mult,     \* its multiple of the device
  heldNow,  \* held
  first,    \* t0, or -1 before the warm launch
  best,     \* [rate, glob, loc, held]
  sum,      \* the set of the checksum of the last hash launch, empty before
  stream    \* stream

tuneVars == <<local, mult, heldNow, first, best>>
ctxVars  == <<dev, pin, todo, next, held, error, cap, glob, loc, repeats, saved,
              capacity, sum, stream>>
vars == <<at, ctxVars, tuneVars, probeVars>>

-----------------------------------------------------------------------------
(* Sizes.  The definitions whose name ends in what is wrong with them are slips
   an edit of the code could make; the properties tell them from the code. *)

RoundUp(x, unit) == ((x + unit - 1) \div unit) * unit
Unit(l)    == Larger(l, dev.lanes)
Power(l)   == l \in Powers
MaxGlobal  == RoundUp(Larger(dev.n * dev.lanes, dev.units * PerCu), Larger(MaxLocal, dev.lanes))
ProbeGlobal(l) == RoundUp(Larger(dev.units, 1) * PerCu, Unit(l))

\* local_bounds.
Ceiling ==
  LET device == IF dev.maxGroup = 0 THEN MaxLocal ELSE dev.maxGroup
  IN  IF dev.kernelMax \in 1 .. device THEN dev.kernelMax ELSE device
Halvings == { l \in Powers : FloorLocal <= l /\ l <= MinLocal }
Floor ==
  CHOOSE l \in Halvings : /\ l <= Ceiling \/ l = FloorLocal
                          /\ \A m \in Halvings : m > l => m > Ceiling

ScratchFits(l) == dev.scratch = 0 \/ l <= dev.scratch
Tiles(l)       == Unit(l) % l = 0 /\ Unit(l) % dev.lanes = 0

GeometryOk(g, l) ==
  /\ Power(l) /\ g # 0 /\ g % l = 0
  /\ Tiles(l) /\ g % dev.lanes = 0 /\ ScratchFits(l)

\* One partial for every group of the smallest size the tuner usually tries.
PartialCap_MinLocal ==
  LET tuned == MaxGlobal \div MinLocal
      pinned == IF pin[1] # 0 /\ pin[2] # 0 THEN pin[1] \div pin[2] ELSE 0
  IN  Larger(tuned, pinned)

PartialCap ==
  LET tuned == MaxGlobal \div Floor
      pinned == IF pin[1] # 0 /\ pin[2] # 0 THEN pin[1] \div pin[2] ELSE 0
  IN  Larger(tuned, pinned)

\* The largest grid the tuner tries with groups of l.
Top(l, h) ==
  LET fit == Larger((h \div Unit(l)) * Unit(l), Unit(l))
  IN  IF h # 0 /\ fit < MaxGlobal THEN fit ELSE MaxGlobal

Candidate(l, m, h) ==
  LET grid == RoundUp(l * m * dev.units, Unit(l))
  IN  IF grid >= Top(l, h) THEN Top(l, h) ELSE grid

-----------------------------------------------------------------------------
(* The back ends. *)

OclBuild == <<"impl", "context", "queue", "program", "kernel">>
CuBuild  == <<"impl", "primary", "module", "stream", "k0", "k1", "x0", "x1">>

OclAlloc == <<"corpus", "partial">>                     \* uploaded as it is created
CuAlloc  == <<"corpus", "upload", "partial">>

\* The readback ring is ordinary memory if it cannot be pinned.
OclPipeOpen == <<"copyQueue", "pbuf0", "ppart0", "pbuf1", "ppart1", "ring">>
CuPipeOpen  == <<"copyStream", "events", "pbuf0", "ppart0", "pbuf1", "ppart1", "ring">>

\* Staging is all there or not at all.
OclStaging == {"stagingBuffer", "stagingMap"}
CuStaging  == {"staging"}

\* The staging of a streaming context is forgotten.
CuDestroy_KeepsStaging(h) == h \ (Range(CuBuild) \cup Range(CuAlloc) \cup Range(CuPipeOpen))

\* Whatever there is, by its pointer.
OclDestroy(h) ==
  h \ (Range(OclBuild) \cup Range(OclAlloc) \cup Range(OclPipeOpen) \cup OclStaging)
CuDestroy(h) ==
  h \ (Range(CuBuild) \cup Range(CuAlloc) \cup Range(CuPipeOpen) \cup CuStaging)

\* The vtable of the device's back end.
Opencl      == dev.api = "opencl"
Build       == IF Opencl THEN OclBuild ELSE CuBuild
Alloc       == IF Opencl THEN OclAlloc ELSE CuAlloc
PipeOpen    == IF Opencl THEN OclPipeOpen ELSE CuPipeOpen
Staging     == IF Opencl THEN OclStaging ELSE CuStaging
Destroy(h)  == IF Opencl THEN OclDestroy(h) ELSE CuDestroy(h)

\* All that a context may hold.
Things == Range(Build) \cup Range(Alloc) \cup Range(PipeOpen) \cup Staging \cup {"partials"}

\* A driver call that creates something, or lets it be.
Acquire ==
  /\ at = "acquiring" /\ todo # <<>>
  /\ held' = held \cup {Head(todo)}
  /\ todo' = Tail(todo)
  /\ UNCHANGED <<at, dev, pin, next, error, cap, glob, loc, repeats, saved, capacity,
                 sum, stream, tuneVars, probeVars>>

AcquireFails ==
  /\ at = "acquiring" /\ todo # <<>>
  /\ at' = "failing" /\ error' = TRUE
  /\ todo' = <<>>
  /\ UNCHANGED <<dev, pin, next, held, cap, glob, loc, repeats, saved, capacity,
                 sum, stream, tuneVars, probeVars>>

Acquired ==
  /\ at = "acquiring" /\ todo = <<>>
  /\ at' = next
  /\ UNCHANGED <<ctxVars, tuneVars, probeVars>>

Ask(calls, then) == at' = "acquiring" /\ todo' = calls /\ next' = then

-----------------------------------------------------------------------------
(* vb_dev_ctx_init up to the geometry. *)

Fail == at' = "failing" /\ error' = TRUE

\* No kernel for the algorithm, messages that are not whole groups, an empty
\* slice, a steer the dialect cannot compile: nothing has been acquired yet.
Refuse ==
  /\ at = "begin"
  /\ at' = "failed" /\ error' = TRUE
  /\ UNCHANGED <<dev, pin, todo, next, held, cap, glob, loc, repeats, saved, capacity,
                 sum, stream, tuneVars, probeVars>>

StartBuild ==
  /\ at = "begin"
  /\ Ask(Build, "sizes")
  /\ UNCHANGED <<dev, pin, held, error, cap, glob, loc, repeats, saved, capacity, sum, stream,
                 tuneVars, probeVars>>

\* The slice exceeds the device's largest allocation, or there is no memory for
\* the host's partials.
NoRoom ==
  /\ at = "sizes"
  /\ Fail
  /\ UNCHANGED <<dev, pin, todo, next, held, cap, glob, loc, repeats, saved, capacity,
                 sum, stream, tuneVars, probeVars>>

Size ==
  /\ at = "sizes"
  /\ cap' = PartialCap
  /\ held' = held \cup {"partials"}
  /\ Ask(Alloc, IF pin = <<0, 0>> THEN "tune" ELSE "pin")
  /\ UNCHANGED <<dev, pin, error, glob, loc, repeats, saved, capacity, sum, stream,
                 tuneVars, probeVars>>

-----------------------------------------------------------------------------
(* Launches. *)

\* vb_dev_ctx_enqueue refuses a launch with more groups than partials.
Fits(g, l) == l # 0 /\ g \div l <= cap

\* The context is as it was before the probe, and whatever text a failure left
\* is cleared.
ProbeDone ==
  glob' = saved[1] /\ loc' = saved[2] /\ repeats' = saved[3]

\* measure_capacity for groups of l, in a context whose launch is `keep`.
MeasureCapacity(l, keep) ==
  /\ glob' = ProbeGlobal(l) /\ loc' = l /\ repeats' = 0
  /\ saved' = keep
  /\ IF Fits(glob', l)
       THEN at' = "probing" /\ ProbeStart(glob' \div l, dev.holds[l])
       ELSE at' = "probed" /\ ProbeStart(0, 0)

Probing ==
  /\ at = "probing"
  /\ ProbeStep
  /\ UNCHANGED <<at, ctxVars, tuneVars>>

\* The counters are read, or one of the three driver calls failed.
ProbeReturns(ok) ==
  /\ at = "probing" /\ (ok => ProbeOver)
  /\ at' = "probed"
  /\ IF ok THEN UNCHANGED probeVars ELSE ProbeStart(0, 0)
  /\ UNCHANGED <<ctxVars, tuneVars>>

\* A launch of the hash kernel, waited for, read back and folded.
Launch(g, l, r) == Fits(g, l) /\ sum' = {LaunchSum(g, l, dev.n, dev.lanes, r)}

-----------------------------------------------------------------------------
(* A pinned geometry is used as given or refused. *)

PinRefused ==
  /\ at = "pin"
  /\ ~GeometryOk(pin[1], pin[2]) \/ pin[2] \notin Floor .. Ceiling
  /\ Fail
  /\ UNCHANGED <<dev, pin, todo, next, held, cap, glob, loc, repeats, saved, capacity,
                 sum, stream, tuneVars, probeVars>>

Pin ==
  /\ at = "pin"
  /\ GeometryOk(pin[1], pin[2]) /\ pin[2] \in Floor .. Ceiling
  /\ MeasureCapacity(pin[2], <<pin[1], pin[2], repeats>>)
  /\ UNCHANGED <<dev, pin, todo, next, held, error, cap, capacity, sum, stream, tuneVars>>

PinProbed ==
  /\ at = "probed" /\ pin # <<0, 0>>
  /\ ProbeDone
  /\ capacity' = Counted * loc
  /\ error' = FALSE
  /\ ProbeStart(0, 0)
  /\ at' = "calibrate"
  /\ UNCHANGED <<dev, pin, todo, next, held, cap, saved, sum, stream, tuneVars>>

-----------------------------------------------------------------------------
(* tune_geometry. *)

Untried == [rate |-> -1, glob |-> 0, loc |-> 0, held |-> 0]

TuneStart ==
  /\ at = "tune"
  /\ repeats' = 1
  /\ local' = Floor /\ mult' = 0 /\ heldNow' = 0 /\ first' = -1 /\ best' = Untried
  /\ at' = "local"
  /\ UNCHANGED <<dev, pin, todo, next, held, error, cap, glob, loc, saved, capacity, sum,
                 stream, probeVars>>

\* Only larger groups are ruled out by the scratch, so that the loop stops.
InRange(l) == l <= MaxLocal /\ l <= Ceiling /\ ScratchFits(l)

TryLocal ==
  /\ at = "local" /\ InRange(local)
  /\ MeasureCapacity(local, <<glob, loc, repeats>>)
  /\ UNCHANGED <<dev, pin, todo, next, held, error, cap, capacity, sum, stream, tuneVars>>

LocalProbed ==
  /\ at = "probed" /\ pin = <<0, 0>>
  /\ ProbeDone
  /\ heldNow' = Counted * loc
  /\ error' = FALSE
  /\ mult' = 1 /\ first' = -1
  /\ ProbeStart(0, 0)
  /\ at' = "try"
  /\ UNCHANGED <<dev, pin, todo, next, held, cap, saved, capacity, sum, stream, local, best>>

NextLocal == local' = 2 * local /\ at' = "local"

Warm(t) ==
  /\ at = "try" /\ first = -1
  /\ glob' = Candidate(local, mult, heldNow) /\ loc' = local
  /\ Launch(glob', local, repeats)
  /\ first' = t
  /\ UNCHANGED <<at, dev, pin, todo, next, held, error, cap, repeats, saved, capacity,
                 stream, local, mult, heldNow, best, probeVars>>

Rate(t) ==
  IF 0 \in {first, t} THEN 0
  ELSE 1 + Cardinality({u \in Times : u > first \/ u > t})

Time(t) ==
  /\ at = "try" /\ first # -1
  /\ Launch(glob, loc, repeats)
  /\ best' = IF Rate(t) > best.rate
               THEN [rate |-> Rate(t), glob |-> glob, loc |-> loc, held |-> heldNow]
               ELSE best
  /\ first' = -1
  /\ IF glob = Top(local, heldNow) THEN NextLocal /\ UNCHANGED mult
                                   ELSE mult' = 4 * mult /\ UNCHANGED <<at, local>>
  /\ UNCHANGED <<dev, pin, todo, next, held, error, cap, glob, loc, repeats, saved,
                 capacity, stream, heldNow, probeVars>>

\* A launch that fails disqualifies the group size, not the context.
TryFails ==
  /\ at = "try"
  /\ glob' = Candidate(local, mult, heldNow) /\ loc' = local
  /\ error' = TRUE
  /\ first' = -1
  /\ NextLocal
  /\ UNCHANGED <<dev, pin, todo, next, held, cap, repeats, saved, capacity, sum, stream,
                 mult, heldNow, best, probeVars>>

NoGeometry ==
  /\ at = "local" /\ ~InRange(local) /\ best = Untried
  /\ Fail
  /\ UNCHANGED <<dev, pin, todo, next, held, cap, glob, loc, repeats, saved, capacity,
                 sum, stream, tuneVars, probeVars>>

Tuned ==
  /\ at = "local" /\ ~InRange(local) /\ best # Untried
  /\ glob' = best.glob /\ loc' = best.loc /\ capacity' = best.held
  /\ error' = FALSE
  /\ at' = "calibrate"
  /\ UNCHANGED <<dev, pin, todo, next, held, cap, repeats, saved, sum, stream, tuneVars,
                 probeVars>>

-----------------------------------------------------------------------------
(* calibrate_repeats, and the life of the context after vb_dev_ctx_init. *)

\* As many sweeps as fill the target.
Sweeps_AsMany(t) ==
  IF t \in 1 .. Target - 1
    THEN IF Target \div t > MaxRepeats THEN MaxRepeats ELSE Target \div t
    ELSE 1

\* The number is not limited.
Sweeps_Unlimited(t) ==
  IF t \in 1 .. Target - 1 THEN IF (Target \div t) % 2 = 0 THEN Target \div t + 1 ELSE Target \div t
                           ELSE 1

\* An odd number of sweeps that about fills the target.
Sweeps(t) ==
  IF t \in 1 .. Target - 1
    THEN LET want == IF Target \div t > MaxRepeats THEN MaxRepeats ELSE Target \div t
         IN  IF want % 2 = 0 THEN want + 1 ELSE want
    ELSE 1

Calibrate(t) ==
  /\ at = "calibrate"
  /\ Launch(glob, loc, 1)
  /\ repeats' = Sweeps(t)
  /\ at' = "initialised"
  /\ UNCHANGED <<dev, pin, todo, next, held, error, cap, glob, loc, saved, capacity,
                 stream, tuneVars, probeVars>>

CalibrateFails ==
  /\ at = "calibrate"
  /\ repeats' = 1
  /\ Fail
  /\ UNCHANGED <<dev, pin, todo, next, held, cap, glob, loc, saved, capacity, sum, stream,
                 tuneVars, probeVars>>

\* vb_dev_ctx_set_stream; staging that cannot be pinned is done without.
SetStream(on, pinned) ==
  /\ at = "initialised"
  /\ stream' = on
  /\ repeats' = IF on THEN 1 ELSE repeats
  /\ held' = IF on /\ pinned THEN held \cup Staging ELSE held
  /\ at' = "ready"
  /\ UNCHANGED <<dev, pin, todo, next, error, cap, glob, loc, saved, capacity, sum,
                 tuneVars, probeVars>>

\* vb_dev_ctx_set_overlap.
SetOverlap(pinned) ==
  /\ at = "initialised"
  /\ stream' = TRUE /\ repeats' = 1
  /\ held' = IF pinned THEN held \cup Staging ELSE held
  /\ Ask(PipeOpen, "ready")
  /\ UNCHANGED <<dev, pin, error, cap, glob, loc, saved, capacity, sum, tuneVars, probeVars>>

Run ==
  /\ at = "ready"
  /\ Launch(glob, loc, repeats)
  /\ UNCHANGED <<at, dev, pin, todo, next, held, error, cap, glob, loc, repeats, saved,
                 capacity, stream, tuneVars, probeVars>>

RunFails ==
  /\ at = "ready"
  /\ Fail
  /\ UNCHANGED <<dev, pin, todo, next, held, cap, glob, loc, repeats, saved, capacity, sum,
                 stream, tuneVars, probeVars>>

\* vb_dev_ctx_free, by fail_keep_error or by the caller, who has the reason.
Free ==
  /\ at \in {"ready", "failing"}
  /\ held' = Destroy(held) \ {"partials"}
  /\ at' = IF at = "failing" THEN "failed" ELSE "freed"
  /\ cap' = 0 /\ glob' = 0 /\ loc' = 0 /\ repeats' = 0 /\ capacity' = 0
  /\ stream' = FALSE
  /\ UNCHANGED <<dev, pin, todo, next, error, saved, sum, tuneVars, probeVars>>

-----------------------------------------------------------------------------

Init ==
  /\ dev \in Devices /\ pin \in Pins
  /\ at = "begin" /\ todo = <<>> /\ next = "begin" /\ held = {} /\ error = FALSE
  /\ cap = 0 /\ glob = 0 /\ loc = 0 /\ repeats = 0 /\ saved = <<0, 0, 0>>
  /\ capacity = 0 /\ sum = {} /\ stream = FALSE
  /\ local = 0 /\ mult = 0 /\ heldNow = 0 /\ first = -1 /\ best = Untried
  /\ groups = 0 /\ room = 0 /\ started = 0 /\ finished = 0 /\ most = 0
  /\ where = <<>> /\ seen = <<>> /\ highest = <<>> /\ reads = <<>>

Setup == Refuse \/ StartBuild \/ Acquire \/ AcquireFails \/ Acquired \/ NoRoom \/ Size

Geometry ==
  \/ PinRefused \/ Pin \/ PinProbed
  \/ TuneStart \/ TryLocal \/ LocalProbed \/ TryFails \/ NoGeometry \/ Tuned
  \/ \E t \in Times : Warm(t) \/ Time(t)
  \/ \E ok \in BOOLEAN : ProbeReturns(ok)

Use ==
  \/ \E t \in Times : Calibrate(t)
  \/ CalibrateFails \/ Run \/ RunFails \/ Free
  \/ \E on, pinned \in BOOLEAN : SetStream(on, pinned)
  \/ \E pinned \in BOOLEAN : SetOverlap(pinned)

Host == Setup \/ Geometry \/ Use

Next == Host \/ Probing

Spec == Init /\ [][Next]_vars

\* The host goes on by itself except while it waits for the probe, and the
\* device works: a driver call may fail, but nothing is owed to failures.
FairSpec ==
  /\ Spec
  /\ WF_vars(Host /\ at # "probing")
  /\ WF_vars(ProbeReturns(TRUE))
  /\ WF_vars(Probing)

-----------------------------------------------------------------------------
(* What the context promises. *)

(* Every variable has its type, and the context is at a place of its program. *)
TypeOK ==
  /\ at \in {"begin", "acquiring", "sizes", "tune", "local", "try", "pin", "probing",
             "probed", "calibrate", "initialised", "ready", "failing", "failed", "freed"}
  /\ dev \in Devices /\ pin \in Pins
  /\ todo \in Seq(Things) /\ next \in {"begin", "sizes", "tune", "pin", "ready"}
  /\ held \subseteq Things
  /\ error \in BOOLEAN /\ stream \in BOOLEAN
  /\ repeats \in 0 .. MaxRepeats
  /\ {cap, glob, loc, capacity, local, mult, heldNow} \subseteq Nat
  /\ first \in Times \cup {-1}
  /\ {started, finished} \subseteq 0 .. groups

(* Whatever was tried and measured first, every hash launch has each message
   of the slice in its checksum exactly once: its sweeps are odd in number,
   its grid divides into whole groups of lanes, every work-item's value reaches
   the partial of its group, and a probe never leaves its repeats behind. *)
LaunchExact == sum \subseteq {Corpus(dev.n, dev.lanes)}

(* The partial buffer is sized before the geometry is known, and is enough for
   every launch the tuner, the probe or a pinned geometry can come to: the
   guard of vb_dev_ctx_enqueue never turns a launch away. *)
PartialsSuffice ==
  /\ (at = "local" /\ InRange(local)) => Fits(ProbeGlobal(local), local)
  /\ at = "try" => Fits(Candidate(local, mult, heldNow), local)
  /\ (at = "pin" /\ GeometryOk(pin[1], pin[2]) /\ pin[2] \in Floor .. Ceiling)
        => Fits(ProbeGlobal(pin[2]), pin[2])
  /\ at \in {"calibrate", "initialised", "ready"} => Fits(glob, loc)

(* The probe never counts more groups than the device held, however its groups
   are interleaved, so that a tuned grid whose capacity is known runs in one
   wave, or is the smallest grid there is. *)
HoldsAtOnce ==
  /\ OnlyUndercounts
  /\ at \in {"calibrate", "initialised", "ready"} =>
       /\ capacity <= dev.holds[loc] * loc
       /\ (pin = <<0, 0>> /\ capacity # 0) => glob <= Larger(dev.holds[loc] * loc, Unit(loc))

(* What the sizing, the probe and the tuner settle on fits together. *)
GeometrySound == PartialsSuffice /\ HoldsAtOnce

(* Wherever a driver call fails, everything acquired so far is given back and
   the reason outlives it; a context that came up has no error left from a
   geometry that did not work. *)
FailureIsClean ==
  /\ at \in {"failed", "freed"} => held = {}
  /\ at \in {"failing", "failed"} => error
  /\ at \in {"calibrate", "initialised"} => ~error

(* vb_dev_ctx_init comes back, however few groups of the probe the device
   holds: no group waits for ones that cannot come before it leaves. *)
InitReturns ==
  (at = "begin") ~> (at \in {"initialised", "ready", "failed", "freed"})

=============================================================================
