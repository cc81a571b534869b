# A formal model of valubench

valubench measures how many hashes per second a CPU or a GPU computes. Every
digest it times is verified, and its promise is that it never publishes a fast
wrong number and never calls a healthy machine broken. This directory models,
in TLA+, the parts of the program whose order of steps or whose arithmetic at
the edges decides whether that promise is kept: the worker pool and its
barrier, the set-up, tuning and transfer pipeline of the device kernels, the
corpus, the kernels and the reference they are compared with, the choice of a
kernel, the energy put beside the figure, the command line, and the sweep that
runs the program over a grid. TLC checks the models on small instances; TLAPS
proves every safety property of them for every instance.

Paths are relative to the repository root.

## 1. Inventory

| Component | Where | State it keeps | Operations |
|---|---|---|---|
| Barrier fallback | `include/vb_threads.h` | waiting count, generation | `vb_barrier_init`, `vb_barrier_wait`, `vb_barrier_destroy` |
| CPU worker pool | `src/bench.c` 132–615 | gate, reps, stop, per-worker slice, checksum and `ok`, `pin_failed`, the caller's CPU mask, cached CPU list | `pool_create`, `worker_main`, `run_slice`, `pool_run`, `pool_destroy`, `vb_allowed_cpus` |
| CPU measurement | `src/bench.c` 617–746, 1260–1421 | reps, samples, result | `vb_validate_kernel`, `calibrate_reps`, `measure_with_corpus` |
| Device measurement | `src/bench.c` 752–1258 | contexts, expected checksums, errors, samples | `measure_device`, `pipe_passes` |
| Autotune | `src/bench.c` 1453–1559 | best kernel, outcome counts, one cached corpus | `vb_autotune` |
| Device context and tuner | `src/device/device.c` 100–630 | geometry, capacity, repeats, partials | `vb_dev_ctx_init`, `tune_geometry`, `measure_capacity`, `vb_dev_ctx_enqueue`, `vb_dev_ctx_collect` |
| Device pipeline | `src/device/device.c` 634–792, `src/opencl/backend.c` 476–661, `src/cuda/backend.c` 634–778 | queued and collected counts, ring of events and partials, two chunk buffers | `vb_dev_pipe_begin/next/end`, `pipe_open/enqueue/wait`, `destroy` |
| Device list and slices | `src/device/device.c` 113–121, 650–664, 841–872 | none | `vb_dev_slice`, `vb_dev_auto_chunks`, `vb_devices` |
| Reference oracle | `src/workload.c` 176–355 | per-thread slices, `started[]` | `vb_reference_checksums`, `vb_reference_checksums_mt` |
| Corpus | `src/workload.c` 25–174 | one buffer | `vb_corpus_build`, `vb_build_message` |
| Kernels | `src/kernels/cpu`, `src/kernels/gpu` | none | hash arithmetic, grid-stride sweep, reduction, capacity probe |
| Energy and clocks | `src/power.c` | sources with start reading and validity | `vb_power_open/begin/end/close`, `vb_power_attribute`, GPU clock sampling |
| Reports, system description | `src/report.c`, `src/sysinfo.c` | none | JSON and text output |
| Command line | `src/main.c` | configuration | options, exit code |
| Sweep driver | `tools/sweep.py` | CSV file, set of completed points | grid, resume, running a point, fits |

How they interact. `main` parses options, picks a kernel (`vb_autotune` or
`--kernel`) and calls `vb_measure`, which builds a corpus and calls
`measure_with_corpus`. A CPU kernel is validated on one thread and then run by
a *worker pool*: threads that meet the calling thread at two barriers around
every run and write plain fields of a shared structure, ordered by nothing but
those barriers. A device kernel is run by `measure_device` on one host thread
that drives every device; with `--transfer overlap` through a *pipeline* of
chunks that runs ahead of the host and over the boundaries of calls and
samples. What comes back is compared with a reference computed by the oracle
or supplied with `--expect`. The result's error fields, sample count and
`verified` flag decide the exit code, and `sweep.py` decides from that whether
to record a row, to go on or to stop.

What is hard about it, and cannot be shown by a unit test:

* the interleavings of driver and workers at the gate and at the barriers, with
  thread creation failing half-way and CPU pinning refused here and there;
* state that lives longer than one pool: the calling thread's CPU mask and the
  list of allowed CPUs that is read once;
* two queues of a device that run independently, two buffers, a ring of slots
  and of events that is reused while the host runs ahead of what was asked for;
* failures after part of the work has been queued, and release of everything
  the device may still be using;
* telling "could not run" from "computed a wrong digest" after any failure.

What makes the components correct:

* *Barrier*: nobody leaves before everybody came, and everybody leaves.
* *Pool*: a verdict speaks about the run it closes and about all of it; shared
  fields are written when nobody reads them; a refused pin is reported; the
  caller gets its CPU mask back; threads are gone before their memory is.
* *Pipeline*: a pass folds exactly its own chunks, uploads never overwrite a
  buffer in use, the pipeline is full between calls, everything ends and is
  freed only when idle.
* *Measurement*: no wrong figure is published, no wrong answer is excused, a
  healthy machine is not accused, no context leaks.
* *Oracle*: each message is in the reference exactly once, whatever fails.
* *Autotune*: the fastest kernel that passed is chosen, each probe reads a corpus
  of its own width, and the exit code says "wrong digest" only if there was one.
* *Context*: no launch is larger than its buffers, every launch hashes each
  message once, whatever fails releases everything acquired before it.
* *Device list*: no card twice, none lost; the slices tile the work.
* *Kernels*: kernel and reference pad, lay out and feed back alike.
* *Energy*: each device is counted once, with wraps resolved and resets refused.
* *Command line*: order does not matter, no guard can be got round.
* *Sweep*: no point lost or measured twice across crashes.

The hazards, each at its line and with the properties that cover it, are in
`PROJECT.json`.

## 2. Modules

| Module | Models | Checked by | Proved in |
|---|---|---|---|
| `BarrierSpec` | what `vb_barrier_wait` promises (abstract) | through `Barrier` | `WorkerPoolProofs` |
| `Barrier` | the fallback barrier | `MCBarrier` | `WorkerPoolProofs` |
| `WorkerPool` | the pool and its users | `MCWorkerPool` | `WorkerPoolProofs` |
| `DevicePipeline` | the transfer pipeline and the queues of the devices | `MCDevicePipeline` | `DevicePipelineProofs` |
| `CapacityProbe` | the work-groups of the capacity probe | through `DeviceContext` | through `DeviceContextProofs` |
| `DeviceKernel` | which messages a launch hashes | through `DeviceContext` | through `DeviceContextProofs` |
| `DeviceContext` | one device context and its tuner, over the two above | `MCDeviceContext` | `DeviceContextProofs` |
| `DeviceList` | enumeration, the merged list, slices and chunks | through `DeviceMeasure` | through `DeviceMeasureProofs` |
| `DeviceMeasure` | how a device measurement goes and ends, over `DeviceList` | `MCDeviceMeasure` | `DeviceMeasureProofs` |
| `Corpus` | messages, padding, layout | through `Verification` | through `ReferenceProofs` |
| `Kernels` | reference hashes and CPU kernels over `Corpus` | through `Verification` | through `ReferenceProofs` |
| `Reference` | the multi-threaded oracle | `MCReference`, through `Verification` | `ReferenceProofs` |
| `Verification` | `Reference` beside `Kernels` | `MCReference` | `ReferenceProofs` |
| `Autotune` | the choice of a kernel, a measurement, the exit code | `MCAutotune` | `AutotuneProofs` |
| `Power` | energy and clocks of one measurement | `MCPower` | `PowerProofs` |
| `CommandLine` | options, checks and exit codes of `main` | through `Sweep` | `SweepProofs` |
| `Sweep` | the sweep driver and its file, over `CommandLine` | `MCSweep` | `SweepProofs` |

A definition whose name extends another one's (`WaitLast_NoReset` beside
`WaitLast`) is a slip that a later edit of the code could make. It is not part
of any specification: it is there to show that the named property tells it
from the code.

### Barrier

`vb_barrier_wait` holds a mutex except while it sleeps, so a call consists of
two kinds of atomic section: lock to sleep or unlock (`WaitLast`, `WaitBlock`),
and wake-up to sleep or unlock (`Return`, `SleepAgain`). A broadcast empties
`sleeping`; a `SpuriousWakeup` takes one thread out of it. The generation counts
modulo `GenMod`, which is 2^32 in the code. `arrived` and `passed` are history
and exist to state the contract: `BarrierSpec` says that a call returns only
after every other thread made as many calls. `ImplementsContract` is the
refinement; the mapping is the identity on the two counters. The specification
is `FallbackInit`, `FallbackNext` and `FallbackSpec`, and its type invariant
`FallbackTypes`, so that one module can prove things about it and the pool.

### WorkerPool

The driver (the calling thread, worker 0) goes `idle → spawn → ready`, then
`start → slice → done → verdict → ready` for each `pool_run`, then
`stopping → join → idle`; a failed `pthread_create` goes `spawn → abort →
idle`. A started thread goes `gate → pin → start → check → slice → done →
start …`, to `exit` at the gate of a pool that gave up or when it sees `stop`.
The barriers are used through their contract: `StartOpens` and `DoneOpens` are
one step in which everybody stands at the barrier; a thread that leaves late is
one that takes its next step late. This is sound because a thread's way out of
`vb_barrier_wait` touches no field of the pool.

A digest is represented by its error, 0 being correct. The kernel may err at
any batch. The XOR of the slices is right if none errs, wrong if exactly one
does, and either if several do (`AggregateMatches`): that is all the comparison
in `pool_run` can tell. Every access of `pin_failed`, `reps`, `stop`, `ok` and
`checksum` is in the action of the code that makes it.

Several pools run one after another on one thread, because the cached list of
allowed CPUs and the narrowed mask outlive a pool. Every affinity call may fail:
saving, narrowing and restoring a mask each on its own, and the one read of the
mask that `vb_allowed_cpus` makes in the life of the process. If that one is
refused, the list it caches is what is online (`NumOnline`), for the first pool
and for every later one (`maskUnread`).

Left out: elapsed times (so `calibrate_reps` is two or more runs of any length),
`calloc` failure in `pool_create` (returns before any change), platforms without
an affinity API (pinning does nothing there, and `pinned_cpus` stays 0), and the boundaries
of the slices, which are cut as `vb_dev_slice` cuts (`Slice` of `DeviceList`).

`MaskKept` is about the two things that outlive a pool: outside one the calling
thread has the mask it came with unless a mask call failed, and every pool
spreads its workers over as many CPUs as the first mask allows, or, if that could
not be read, over as many as are online.

### DevicePipeline

One host thread, `NumDevices` devices with two in-order queues each. `Call`,
`Queue`, `Collect`, `Return` are `vb_dev_pipe_next`; `End`, `Drain`,
`Drained`, `EndNext` are `vb_dev_pipe_end`; `Free` is the back end's `destroy`.
`QueueFails` leaves 0, 1 or 2 of a chunk's three commands in the queues, which
is what an enqueue that breaks off leaves; `WaitFails`, `DrainFails`,
`NoMemory` and `WrongPass` are the other failures, all of which end in
`vb_dev_ctx_free`. `StartUpload`, `EndUpload`, `Kernel` and `ReadBack` are the
device's commands, constrained by exactly the wait lists `pipe_enqueue` passes
and by queue order.

Buffers hold the number of the chunk they were filled with, or `Torn` while an
upload is under way, so that reading a buffer too early or too late shows.
Folding is symmetric difference, which is what XOR does to equal partials: a
chunk folded twice vanishes. The OpenCL half is modelled, which releases its
events in `pipe_wait`; the CUDA half keeps them, which allows fewer mistakes.

### CapacityProbe, DeviceKernel, DeviceContext

`DeviceContext` is one context from `vb_dev_ctx_init` to `vb_dev_ctx_free`. The
two back ends differ in what they acquire and release; `OclBuild`, `CuBuild`
and the like list the driver objects in the order of the calls, and any call of
the list may fail (`AcquireFails`). Then come the bound on partials (`Size`),
the pinned geometry (`Pin`) or the tuner (`TuneStart` to `Tuned`), the
calibration, and what the caller does with the context. A launch is one step
whose checksum is the set of messages hashed an odd number of times
(`LaunchSum` of `DeviceKernel`): the grid-stride sweep, the halving reduction
in a work-group, the repeats and the fold. Device times come from a small set
and rates are ranked by them.

The capacity probe runs as `CapacityProbe` says: every work-group counts itself
in, reads the two counters in separate steps, reports and counts itself out,
on a device that has room for a few at a time. Groups are alike, so that they
enter in the order of their numbers. `Stalls` lets a group be held up between
its two reads until more groups have gone than it had seen come; the `probe_wraps` run
shows what follows, and `device_context` is about a device on which a group in
the first wave is not held up that long.

Assumed: the lanes of a device kernel are a power of two (every row of the
kernel table has `VB_OCL_LANES`), so that no group size is skipped for not tiling
them; a device has at least one compute unit (the OpenCL loader makes it so,
CUDA is taken at its word). Left out: the import of PTX, the dump of device
code, a context switch (`CtxSetCurrent`) that fails, and a pinned local size
above 65536, which `parse_geometry` refuses. Group sizes are up to 2^15
(`Powers`); the code's are between 8 and what the device permits, 1024 as a rule.

### DeviceList, DeviceMeasure

`DeviceList` has no state. A machine is what its OpenCL platforms and its CUDA
driver tell of its cards and which parts of a driver are missing: an address
may be complete, lack its domain, or be absent. `VbDevices` merges the two
lists; `Slice`, `AutoChunks` and `Chunks` divide the groups.

`DeviceMeasure` is the control flow of `measure_device`: which devices are
used (`Select`, `SelectFails`), their contexts, and the passes. In each pass any
set of devices may be wrong and two or more may cancel; each phase compares
what the code compares in it (`Rejects`). A driver call may fail at any point
and leaves its reason in that device's context (`PassBreaks`). `Fail`,
`RunErrorOf` and `Exit` are the three places that turn this into an exit code.
One card listed by two OpenCL platforms is two entries, as in the code, and an
address made up without its domain may unite two cards; `WorkDivided` says so.

### Corpus, Kernels, Verification

The algorithm descriptors have their full sizes. An octet is a number or names
the byte of a digest word it is; a hash state is the sequence of blocks
compressed into it, so that two states are equal only if they are for every
compression function. `BuildMessage`, `PadMessage` and `CorpusBuild` are
`vb_corpus_build`; `Update`, `Final` and `RefDigest` the reference hashes with
their own padding; `Md5Pass`, `Sha1Pass` and `Sha512Pass` are one iteration of a
kernel over a lane, `LaneDigest` all of them, `Kernel` its streams, lanes and XOR. `Verification` puts both
beside the threads of `Reference`: its `KernelsAgree` is that a correct kernel
passes whatever the threads did. `AllDistinct` in it is the guard of `main` against
a corpus that repeats a message, whose digests would cancel under XOR.

### Reference

`vb_reference_checksums_mt` on the calling thread: `Alone` is the fallback to
one thread (asked for, or forced by `calloc`), `Split` and `PlanSlice` the loop
that cuts the slices and starts threads, `OwnSlice` slice 0, `Fold` one turn of
the joining loop. `RefSliceMain` is a thread. `PlanSlice(FALSE)` is a
`pthread_create` that failed, after which later ones may succeed, so that the
started threads need not be the first ones.

A checksum is the set of the messages in it and XOR is symmetric difference, so
that a message hashed twice is as visible as one forgotten. A slice is hashed in
one step because threads share nothing. A `pthread_join` is refused only once
the thread has ended: each thread is joinable, joined once and by another
thread, which leaves no error POSIX defines that a running thread could cause.
So the slice that `Fold` redoes after a refusal is never still being written.

### Autotune

One process from its options to its exit code. `at` is the place in the code:
`UseNamed` and `UseAny` are `main`; `Skip` to `Account` and `Choose` the loop of
`vb_autotune`; `Build` and `BuildFails` are `vb_measure`; `Begin` to `Done` are
`measure_with_corpus`, which a probe and the final measurement share; `Report`
is `main` again. After `Choose` the winner is in `named`, because from there on
the code treats it as it treats `--kernel`.

The verdict of a run is one bit (what it means is `WorkerPool`'s subject) and a
device measurement ends in one step in one of four ways (`DeviceMeasure` has the
steps). `UntimedRun` is one run where `calibrate_reps` makes several. A corpus
is its lane count, 0 being freed. `passed`, `wrongIn` and `wrongNow` are history.

`OwnsWhatItUses` says that every measurement reads a corpus that is there and
laid out for its kernel, and that each way out releases what was taken.

Left out: the rows of other algorithms (the loop skips them before anything
else), the cross-check of two kernels' compile modes, the count of eligible
kernels (printed only) and the noise threshold (`ok` stands for both exits).

### Power

Hardware is a set of parts that draw energy one unit at a time. A source reads
one or several of them through powercap, DRM hwmon or NVML and may be
unreadable at the opening, at the beginning and at the end. `Attribute`,
`Begin`, `End`, `Duplicate`, `Totalled`, `Hashing` and `InScope` are the
functions of `power.c`; `Broken`, `SampleFails` and `Finish` the order in which
`bench.c` calls them. A failed device measurement leaves the interval open,
which shows nowhere because its result is not reported. `EnergyTrue` asks
for the full energy only where the code can know it: a counter whose range is longer
than what was drawn, or one that was not reset. `MeasuredHardware` excepts cards
without an address, and does not exclude a denominator that lacks a part whose
only source stopped answering.

The machines have one socket (no domain twice), and no card that is also the
integrated GPU of the package: of a chip whose GPU shows both as a DRM card and
inside the package figure the code would add both, having nothing to tell them
by, and the model does not say what that total means. The address a device gives
is its own or none (`JobsAssumption`).

Left out: what `scan_powercap` assumes when `max_energy_range_uj` cannot be read
(2^32, at 238), which the comment at 540 calls guessing. The header
`include/power.h` (17–20, 63–66) still describes the preference of providers that
`power.c` 554–572 says was given up; the model follows the code.

### CommandLine, Sweep

`CommandLine` has no state: `ReadAll` is the option loop and `Exits` the checks
of `main`, as the set of exit codes a command may end with on a machine. `Sweep`
has the file, the points to do and the command last given to the binary, and a
user who gives it commands of his own. A row is what `csv.DictReader` makes of a
line; a line that was cut off has no end, and the next row is glued to it.
`Die` loses what is buffered, `DieWriting` cuts a row or the header, or writes
all of the header but its line end (`"open"`), after which the next row spoils it.
`Glued` says what has become of a line by the column it was cut in and the one
the row after it was cut in: once it has reached the rate, its point counts as
measured; a cut in the first field leaves the next row whole.

Some fields hold commas and are written in quotes (steers, throttle reasons,
names of drivers). When a line is cut inside one, `csv.DictReader` reads on over
the ends of lines to the next quote: a row that has no quotes is taken in whole
(`swallowed` counts these), one that has some closes the field with its first
and, since its next quoted field may open another, may leave the line open again.
A row taken in is not in the file for a later sweep, which measures its point
again; the line keeps its own `point_id` and, if it gets as far as the rate, counts
as measured. `Further` is how far a line may get. The csv module gives up on a
field of more than 131072 characters, which `load_completed` does not catch
(481); how long rows are is not modelled, so a resumed sweep may fail that way as
soon as one was taken in.

The grid is a sequence. `sweep.py` drops an axis value that is given twice, but
a kernel named both `scalar` and `md5/scalar` is asked for twice (353) and each
of its points is in the grid and in the file twice; so `SweepComplete` bounds the
rows of a point by the number of times it is in the grid (`Copies`).

Left out: the checks of the sweep's own options, its host-memory, geometry and
thread axes, its order of the points (any order, the same each time), the
tables and the fits. `main` says that contradictions come first, but a device
index past the last (893–906) is found before a contradiction with `--kernel`
(913–943); the model has the order of the code. `sweep.py` 1386–1388 promises
that no point is a usage error; a point whose messages repeat is one, and one
that imports a file that is not there. A reference ladder may have more rungs than
the 64 of `VB_MAX_LADDER`, which the sweep does not check for; it then does
without that ladder. `PointsAreValid` names the three exceptions.

## 3. Runs

| Run | Instance | States | Checks |
|---|---|---|---|
| `barrier` | 4 threads, 3 rounds, generation modulo 2 | 558 | `FallbackTypes`, `NobodyRunsAhead`, `ImplementsContract`, `AllRoundsComplete` |
| `pool` | 2 pools, 3 workers, 2 runs, 2 batches, 2 CPUs allowed and 3 online, errors {0, 1} | 958,061 | `TypeOK`, `VerdictSound`, `PinReportComplete`, `TeardownQuiescent`, `MaskKept`, `DriverWritesQuiescent`, `PoolDrains` |
| `pipeline` | 2 devices with 1 and 2 chunks, ring of 3, 2 calls of up to 2 passes | 128,629 | `TypeOK`, `PassIntegrity`, `NeverDrained`, `FreedWhenIdle`, `HostNeverStuck` |
| `device_context` | 4 devices of both back ends, tuned or pinned in 3 ways | 231,173 | `TypeOK`, `LaunchExact`, `GeometrySound`, `FailureIsClean`, `InitReturns` |
| `device_measure` | 4 machines, 10 requests, 2 samples, both modes | 5,664 | `TypeOK`, `WrongNeverPasses`, `ContextsFreed`, `WorkDivided` |
| `reference` | up to 6 messages, up to 4 threads; kernels of 3 algorithms, 6 lengths, 1–4 lanes and streams, 1 and 3 iterations | 702 | `TypeOK`, `ReferenceExact`, `NoThreadOutlives`, `KernelsAgree`, `Returns` |
| `autotune` | 3 CPU kernels and a device kernel, 2 samples, 2 speeds | 14,299 | `TypeOK`, `BestIsFastest`, `OwnsWhatItUses`, `ExitHonest` |
| `power` | 4 machines, 7 jobs, counters modulo 3 | 779,366 | `TypeOK`, `EnergyTrue`, `MeasuredHardware` |
| `sweep` | 4 grids, 2 machines, 3 sweeps, 2 rows cut off; commands of up to 3 options out of 28 | 1,396,966 | `TypeOK`, `SweepComplete`, `CommandsSound` |
| `probe_wraps` | `device_context` with groups held up between two reads | – | `OnlyUndercounts`, violated |
| `driver_error` | 2 devices, both modes | – | `VerifyFailedMeansWrong`, violated |
| `torn_row` | 1 row cut off, 1 resumed sweep | – | `DoneMeansRecorded`, violated |

Why the bounds are enough. *barrier*: with modulus 2 the generation wraps
within three rounds, and four threads are enough for one to be in the next
round, one asleep, one woken and one arriving. *pool*: three workers allow one
to lag while the other laps it and two wrong slices to cancel while a third is
right; two batches allow a slice to disagree with itself; the second pool meets
the mask and the cache of the first; the pool with one worker has no barrier
partner at all. Two CPUs for three workers make the pinning wrap, and a third that
is online but not allowed tells the fallback from the mask. *pipeline*:
three is the smallest ring in which the event of chunk s − 2 survives (the code
has `VB_PIPE_RING` 8, more room for the same protocol); different chunk counts
make the devices finish a call in different rounds; the second call starts on a
pipeline that is ahead. *device_context*: groups of 1, 2 and 4 around a usual
smallest of 2 make the tuner go below it, at it and above it; the devices have
a kernel that permits one work-item, a scratch that rules out large groups, lanes
over two groups, and room for one group only; one pinned geometry is right for some devices, one
not a multiple of the lanes of others, one has more groups than the tuner's
bound. Times are zero, below and above the target. *device_measure*: a second
device is the smallest with an error that is not in the first context and with
errors that cancel; two samples give a failure before, between and in them;
there are machines without a driver, with two cards whose addresses differ
in the domain only, with a card in two platforms and one without an address.
*reference*: four threads leave a gap between two that were started; six
messages over four threads give slices of unequal size; counts below the thread
count take the other path; the six lengths are one byte, a digest, the last that
leaves room for the length, the first that does not, a block, and the last with
two blocks; the first index is 254, so that indices carry into the second byte
(and messages of one byte repeat, which the checksum then shows alike).
*autotune*: a width that comes back after another shows a corpus kept, replaced
and lost; two speeds let a later kernel win, lose or tie; every subset of the
table may be unavailable. *power*: a modulus of 3 wraps once within the two units
a part may draw; the machines have nested domains, one card under two
providers, two cards, and a card without an address. *sweep*: three points have
a row before, in and after the one that is cut off; a third sweep reads what the
second one wrote; one grid has its only kernel twice. A line cut in quotes can
take in several rows of one sweep and of the next before it is closed, or never be.
Every check of `main` is failed by some command of three options.

`CHECK_DEADLOCK FALSE` is set where the system stops by itself: the threads of
`barrier` have made their rounds, the process of `pool` creates no more pools,
the pipeline or the context is freed, the measurement has ended, the reference
is returned, the process of `autotune` has exited, the energy is reported, no
more sweeps are started. Stuck threads are excluded by the liveness properties
instead.

The properties read best in the modules. The deepest: `VerdictSound` says what
"verified" means for a pool under each kind of reference and that "bad" is never
said without a wrong digest; `PassIntegrity` says that each pass, though calls
and passes are cut out of one continuous stream, holds each of its chunks
exactly once and none that a concurrent upload spoilt; `LaunchExact` that
geometry, lanes, reduction and repeats together count each message once;
`KernelsAgree` that two independent ways of padding, laying out and feeding back
never part; `SweepComplete` that crashes between rows cost nothing, and that a cut
row costs the sweep that ends with exit code 0 no more than itself, the next, and
what it took in while its quotes were open, and costs for good no more than one point.

## 4. Fairness

* `Barrier`: a thread that may call or return does (`WF` on `Wait` and
  `Return`): the mutex is granted in the end and the scheduler runs threads. A
  spurious wake-up is never required.
* `WorkerPool`: `WF` on the driver's steps and on each thread's: every kernel
  call ends and every thread is scheduled. Creating another pool is not fair.
  `Judge`, `Destroy` and the like are one fair `DriverStep`: the caller makes
  only finitely many runs.
* `DevicePipeline`: `WF` on the host's steps and on each device's commands: a
  command whose wait list is satisfied is executed in the end, which OpenCL and
  CUDA promise for flushed queues. Failures and new calls are not fair. That
  `End` comes at all is up to the caller's clock, so no property relies on it.
* `DeviceContext`: `WF` on the host except while it waits for the probe, on the
  probe's return once its groups are gone, and on the work-groups together: the
  device schedules those it has room for, and none that it has not. Failures are
  not owed.
* `Reference`: `WF` on the caller and on the threads together. Which call fails
  is not subject to fairness.
* `DeviceMeasure`, `Autotune`, `Power` and `Sweep` have no liveness property: each
  is a sequence of steps with bounded loops.

## 5. Proofs

The theorems hold for every value of the constants that meets the assumptions
in the modules (finite non-empty set of threads, modulus of at least 2, natural
bounds, a ring of at least three slots, at least two runs per pool because
calibration makes two, devices with at least one compute unit, machines with one
socket). Three have a hypothesis beyond those: `ReferenceIsExact`,
`ReferenceKernelsAgree` and `ContextGeometrySound`, see below.

`WorkerPoolProofs`, on the barrier. `NobodyRunsAhead` is not inductive: it says nothing of the
count or of the generation, which are what lets a thread go. `Phases` adds them.
In the k-th phase every thread is outside and has passed k times, or waits for
the next opening and carries the current generation, or has been let go by the
last one, carries an older generation and has not returned yet; and `waiting` is
the number of those that wait. The last thread to
arrive completes the round because `waiting + 1 = threshold` leaves nobody out,
which is the one place that needs cardinalities (`LastCompletes`). That the
generation only needs to differ from its predecessor is `GenerationMoves`, and
so a modulus of 2 suffices. `BarrierImplementsContract` maps `WaitLast` to
`ArriveAndPass`, `WaitBlock` to `Arrive`, `Return` to `Pass` and the rest to
stutters.

`WorkerPoolProofs`, on the pool, proves invariants in layers, each inductive given the ones
before it. `TypeOK`: types and ranges. `Places`: where each started thread can
be for each place of the driver – for instance that while the driver is
`ready`, every worker is between the gate and `start_bar` – which is what the
barriers buy; from it follow `PoolTeardownQuiescent` and
`PoolDriverWritesQuiescent`. `Pinning`: `pin_failed` is set exactly if a worker
of this pool was refused, and after the first run no worker is still to pin;
from it `PoolPinReportComplete`. `Results`: what `done`, `agree`, `ok`,
`checksum` and `wrong` say of each other at every place, so that a verdict can
rely on all slices having been hashed in *this* run; from it
`PoolVerdictSound`. `Masks`, for `PoolMaskKept`: which of the mask calls have
been made and refused at each place, and that the cached list was read from a
mask nobody had narrowed or, if that read was refused, is what was online.

`DevicePipelineProofs`. Everything about one device rests on how far its queues
and the host can be apart (`Counters`): `collected ≤ readBack ≤ ran ≤ up`, the
last two at most two apart because there are two buffers, and what is queued at
most `collected + Ring`. `Events` says which kernel the slot of a chunk in the
ring of events holds: two numbers less than `Ring` apart and equal modulo `Ring`
are equal, and the event of chunk s − 2, which an upload waits for, has not been
replaced because `Ring` is at least 3. With `Waits` follows `Contents`: what
the two buffers and the ring of partials hold, chunk by chunk. `Tally` adds up what `Collect` has folded
over the devices of a call that may still be at different rounds; from it
`PipelinePassIntegrity`. `Ending` follows the failures: which commands a device
still has when the host stops waiting for it (`PipelineFreedWhenIdle`).

`DeviceMeasureProofs`. `SliceTiles` is about `vb_dev_slice` alone. `Setting`
follows the set-up, `Contexts` counts what there is to free at each place;
`Compared` says what the phases passed so far have compared and so cannot be
wrong, `Told` which reason a failure has left where. `MeasureWrongNeverPasses`
follows from the last two for any number of devices. Of `WorkDivided`,
`MeasureDividesGroups` is the part about slices and chunks; the part about the
list is `DevicesComplete`, for any machine of `Hosts`: the folds that enumerate
and merge exist (`FoldingExists`) and go through the devices in turn
(`PutsInTurn`), and each device adds one entry or joins one that its back end
has not, unless the list is full (`OneMoreIs`). `Hosts` takes one thing from the
code's comment: the function of every card CUDA drives is 0.

`DeviceContextProofs`. `Owned` relates what is held to what is still to be
acquired and to what `destroy` of the back end gives back; `Reasons` says where
the error text is set; from both `ContextFailureIsClean`. For the geometry,
`Tuning` says that the sizes tried, restored and settled on are powers of two
whose grids are whole groups and whole sets of lanes within the partials. That
such a launch has each message once (`LaunchCovers`) is proved in three
steps, one per loop of the kernel: the grid-stride sweep reaches a message in
exactly one turn of one work-item, the halving reduction gathers a group's
items, and an odd number of repeats of a set leaves the set. `ContextGeometrySound` assumes `~Stalls`,
as the `device_context` run does: with it `ProbeSees` bounds the capacity the
probe reports by the room on the device, and `Held` carries that number to the
tuned grid. What does not depend on it, that the partials suffice, is
`ContextPartialsSuffice`, on any device.

`PowerProofs`. `Sources` says what each source is (one of five domains of the
package, none twice, or a card as one provider shows it), which nothing changes
after the scan. `Counting` relates what a counter shows to what its parts drew:
`start + drawn = wrap * k + shown` for some number of turns k, or, for a counter
of unknown range, `shown = start + drawn` unless its card was reset, and then no
more than was drawn. `Told` is `EnergyTrue` as soon as the sources have been closed. For
`PowerMeasuredHardware`, two valid readings of one card cannot both be added
(`OneGivesWay`), and the one with the least provider and index does not give way
(`StandIn`); what is left of the package's domains in each sum has no part in
common (`Separate`). The choice of `vb_power_attribute` is still the right one
at the report because it depends on nothing that changed (`Attributed`).

Four models compute with recursive functions or folds: the queue of the probe's
arrivals, the sum over the parts of a source, the list of devices, and the
iterations of a message and of a lane. What is needed of them is proved by least counterexample, with the
well-foundedness of the naturals and of cardinalities, in place of an induction
rule.

`ReferenceProofs`. That the reference is exact rests on the slices tiling the
range, which is about division: slice k begins at `k * (c \div t)` plus the
smaller of k and `c % t` (`Start`), each begins where the one before ends
(`StartNext`) and the last ends at c (`StartEnds`). `Tiling` says that the loop
has laid exactly these slices so far; `Sums`, that the slices of finished
threads are hashed and that `out` is the checksum of the range up to the slice
to be folded next. `ReferenceIsExact` assumes `MallocFails = FALSE`; without it a slice
whose buffer is refused enters as zeros (section 6).

The rest is about what is hashed. `PaddingAgrees`: for any length, terminator,
zeros and length fall on the same bytes in `PadMessage` as in the buffer that an
update() leaves to its final(), with a block more or without. An address of the
corpus is a number in a mixed radix with the digits slot, block, word and lane,
so each word has one place (`AddressOne`, `AddressWithin`, `CorpusHolds`), and
what a lane loads is its padded message (`LoadIs`). `Alike` is the invariant of
the two chains of iterations: the words a kernel holds are the first words of
the message of the reference, and behind the digest the message is still the original; it
holds at first, survives an iteration (`AlikeNext`), and makes both hash the same
blocks (`PassAgrees`), so that a lane and its message have one digest
(`LanesAgree`). For the checksums it must also be known that no two
digests are the same: equal states have equal first blocks, whose first word
leads back through the iterations to the octets of the index, and those tell
apart as many messages as `main` allows (`OctetsTell`, `DigestsDiffer`). Groups,
streams and lanes are in one-to-one relation to messages (`LanesAreMessages`,
`MessagesAreLanes`); with `ReferenceIsExact`, and its hypothesis, that is
`ReferenceKernelsAgree`.

`AutotuneProofs`. One inductive invariant with a part for each concern:
`Position` (kernels from k on are untried), `Ranking` (the best is the maximum
of what passed, and whoever was wrong has been counted), `Corpus` (what is in
memory is what `corpus_lanes` says), `Owned` (who holds threads and energy
sources where), `Truth` (what the fields of the result say of the digests met).
None of the safety properties is inductive: `ExitHonest` speaks of the last step
only, and what the code knows by then is in `Truth` and `Ranking`.

`SweepProofs`. The assumptions are the sweep's own checks: the axes are non-empty
lists of what the binary reports, within its bounds, and `import` comes last and
only with named kernels (`AxesAssumption`); the rest is types (`CommandAssumption`,
`CommandsAssumption`, `SweepsAssumption`). The kernel table, the machines and the
commands of the user are any.

On the command line: the option loop is a fold that stops early, so what it
returns is told without its order. `Says(S, c)` is what a configuration holds
once the options in S have been seen, and `ReadAllSays` that the loop returns such
a one; two orders of options that name each flag once say the same, which is
`OrderFree`. A configuration that comes to no usage error has passed the checks
`HashesSafely` asks for, and which of the checks come first decides
`UsageEverywhere`: those that look at the machine answer "cannot run". What the
sweep makes of a point is read back as that point because a point of the grid
satisfies `PointFits`, which is what `build_grid` and the axes guarantee, so
`PointsAreValid` holds with its exceptions.

On the file: `SweepComplete` speaks of finished sweeps and of whole rows only, and
is not inductive. `SweepInv` has five parts. `WellFormed`: a line is open only if
it is the last, and what an open line can say in each column it may be cut in.
`Work`: a sweep has only points of its grid before it, and a row that has no rate
has been counted as a failure, so that `ok` is not said over it. `Counted`: for
each point, its whole rows, its turns still to come and the row being written
are together no more than its turns in the grid. `Bounded`: `Gone` are the points
that the file says were measured and those the sweep is done with, as far as they
have no whole row; they and the open line, if there is one, are no more than two
for each row cut off and one for each row taken in. A cut adds at most one of each.
A row glued to an open line is a point gone: either the line ends there, and is
no longer counted as open, or the row is one of those taken in. Of these points the ones
that the file itself says were measured (`Missing`) are no more than the cuts,
since only the point of the line that was cut can become one. `Commanded`: the
last command was the user's, or was made of a point. With `exit = "ok"` and
nothing left to measure, a point without a row is `Gone`, which gives
`SweepIsComplete`. TLC has checked `SweepInv` itself on the instance of the
`sweep` run.

Model-checked only: the liveness properties (`AllRoundsComplete`, `PoolDrains`,
`HostNeverStuck`, `InitReturns`, `Returns`), which are outside the prover's reach.
Every safety invariant of a passing run is stated by a theorem. The three
violated properties are about the behaviours that TLC shows and are not theorems.

## 6. Findings

1. `driver_error`: a driver error is reported as *the hardware did not compute
   correct digests*, which `include/bench.h` (the comment on `run_error`) says a
   verification failure means and which `main` says it avoids. Without the
   pipeline, an error on any device but the first stays in that device's
   context, and `fail_run` copies only `ctx[0].error`. Pipelined, an error after
   the first sample sets `n_samples` before it jumps to `fail_run`, and
   `measure_with_corpus` takes a run with samples for one that computed wrong
   answers. (A device list that has become empty, `bench.c` 804, comes to the
   same without any error; it is `SelectFails` in `device_measure`.)
2. `probe_wraps`: the probe's "can only undercount" holds unless a group stalls
   between its two reads while more groups leave than it had seen come; then the
   unsigned difference wraps.
3. `torn_row`: a sweep resumed over a file whose last row was cut off loses that
   point or glues the next row to it, and ends with exit code 0. Cut inside a
   quoted field, the row also takes in every following row up to the next quote;
   their points are measured again by the next sweep, if there is one.

Smaller disagreements that are written into the properties as exceptions:

* `vb_reference_checksums` returns zeros when it cannot allocate its message
  buffer (`workload.c` 309). The multi-threaded form goes out of its way to be
  exact without memory or threads, and then every slice makes this allocation.
  `ReferenceExact` is about runs in which it succeeds (`MallocFails = FALSE`).
* `vb_validate_kernel` refuses a kernel whose group does not divide the batch
  without running it (`bench.c` 626), and `vb_autotune` counts the refusal as a
  failed verification (1543). `include/valubench.h` calls such a kernel
  blameless, and `main` refuses it with another exit code when it is named.
  `ExitHonest` speaks of kernels that are chosen or named.
* `sweep.py` 1386–1388 promises that no point is a usage error; `PointsAreValid`
  excepts messages that repeat, a file to import that is missing, and a ladder of
  more than 64 rungs, which the sweep gives up silently.
* `sweep.py` takes two names of one kernel for two kernels and measures its points
  twice; `SweepComplete` allows as many rows as turns.
* `WrongNeverPasses` states what the code concedes or implies: several wrong
  devices may cancel in the XOR when the reference is supplied or after the
  first pass, and the untimed passes without the pipeline are not checked at all.

## 7. Not modelled

Not modelled: the compression functions and their vector forms, among them the
SHA-NI kernel and the SVE hooks (arithmetic with known-answer tests), the
static tables, CPU feature detection, the text processing of device code (steers, PTX import,
dumps), formatting of reports, system description, `calibrate_reps` and the
statistics (doubles over measured times), the sweep's tables and fits, the
offline tools. They are data or input and output with no state to go wrong
between steps.
