------------------------------ MODULE CommandLine ------------------------------
(***************************************************************************)
(* What valubench makes of its command line: the option loop and the        *)
(* checks of main in src/main.c up to the measurement, as the set of exit   *)
(* codes a command may end with on a machine.                               *)
(*                                                                         *)
(* An option is <<flag, argument>>; a kernel's name is <<algorithm, isa>>.  *)
(* A checksum is named by the algorithm whose digests it has the length of, *)
(* and a path by whether it can be used.                                    *)
(***************************************************************************)
EXTENDS Integers, SequencesExt

CONSTANTS
  Registry,   \* the kernel table: records [name, api], api "cpu" or a device API
  Algorithms, \* by name: [digest, block, length] in bytes
  Batch,      \* VB_BATCH_LCM
  DevMax,     \* VB_DEV_MAX
  MaxLadder   \* VB_MAX_LADDER

ASSUME CommandAssumption == {Batch, DevMax, MaxLadder} \subseteq Nat \ {0}

-----------------------------------------------------------------------------
(* The option loop. *)

Words ==
  [algorithm   |-> DOMAIN Algorithms,
   transfer    |-> {"resident", "stream", "overlap"},
   host_memory |-> {"pinned", "pageable"},
   primitives  |-> {"steered", "neutral"},
   compile     |-> {"ptx-jit", "cubin"},
   where       |-> {"any", "cpu", "device"}]

Million == 1000000
Hour    == 3600000

\* What parse_uint takes: a number within the bounds of the option.
Bounds ==
  [chunks  |-> 1 .. 256,  threads |-> 1 .. 1024, iterations |-> 1 .. Million,
   bytes   |-> 1 .. 2^20, ws      |-> 1 .. 2^24, samples    |-> 1 .. 256,
   time_ms |-> 1 .. Hour, warmup_ms |-> 0 .. Hour]

\* parse_devices: indices within bounds, none twice; none at all are all.
DevicesOk(list) ==
  /\ Range(list) \subseteq 0 .. DevMax - 1
  /\ IsInjective(list)

BackendsOk(names) == names \subseteq {"opencl", "cuda"}
GeometryOk(g)     == g[1] > 0 /\ g[2] \in 1 .. 65536

\* Options whose value main only looks at once it has seen all.
Late     == {"kernel", "expect", "ladder"}
Flags    == {"json", "verbose", "no_pin"}
Actions  == {"list", "list_devices", "ladder"}

Valid(o) ==
  CASE o[1] \in DOMAIN Words     -> o[2] \in Words[o[1]]
    [] o[1] \in DOMAIN Bounds      -> o[2] \in Bounds[o[1]]
    [] o[1] = "device"             -> DevicesOk(o[2])
    [] o[1] = "backend"            -> BackendsOk(o[2])
    [] o[1] = "geometry"           -> GeometryOk(o[2])
    [] o[1] \in {"dump", "import"} -> o[2] = "usable"
    [] OTHER                       -> o[1] \in Late \cup Flags \cup Actions

Defaults ==
  [algorithm |-> "md5", transfer |-> "resident", host_memory |-> "pinned",
   primitives |-> "steered", compile |-> "ptx-jit", where |-> "any", chunks |-> 0,
   threads |-> 0, iterations |-> 1, bytes |-> 55, ws |-> 1024, samples |-> 10,
   time_ms |-> 100, warmup_ms |-> 300,
   device |-> <<>>, backend |-> {}, geometry |-> <<0, 0>>, dump |-> "none",
   import |-> "none", kernel |-> <<>>, expect |-> "none", ladder |-> <<>>,
   given |-> {}, action |-> "run", early |-> "no"]

\* Of --backend only a list that names one counts as given.
Names(o) == IF o[1] = "backend" /\ o[2] = {} THEN {} ELSE {o[1]}

\* One option: the last of several wins, the first bad one and --help end it.
Read(c, o) ==
  IF c.early # "no" THEN c
  ELSE IF o[1] \in {"version", "help"} THEN [c EXCEPT !.early = "ok"]
  ELSE IF ~Valid(o) THEN [c EXCEPT !.early = "usage"]
  ELSE LET d == [c EXCEPT !.given = @ \cup Names(o),
                          !.action = IF o[1] \in Actions THEN o[1] ELSE @]
       IN  IF o[1] \in DOMAIN d THEN [d EXCEPT ![o[1]] = o[2]] ELSE d

ReadAll(argv) == FoldLeft(LAMBDA c, o : Read(c, o), Defaults, argv)

-----------------------------------------------------------------------------
(* The checks. *)

Named(c)  == c.kernel # <<>>
Kernel(c) == CHOOSE k \in Registry : k.name = c.kernel

\* A forced kernel fixes the algorithm.
Algorithm(c) == IF Named(c) THEN c.kernel[1] ELSE c.algorithm
MinIterBytes(c) == Algorithms[Algorithm(c)].digest

KernelKnown(c) ==
  Named(c) => /\ \E k \in Registry : k.name = c.kernel
              /\ "algorithm" \in c.given => c.algorithm = c.kernel[1]

LadderOk(ladder) ==
  /\ Len(ladder) \in 1 .. MaxLadder
  /\ Range(ladder) \subseteq 1 .. Million
  /\ \A i \in 1 .. Len(ladder) - 1 : ladder[i] < ladder[i + 1]

\* The most iterations this run comes to.
MaxIterations(c) == Max({c.iterations} \cup Range(c.ladder))

\* vb_batch_messages, in units of 64 bytes: whole groups of Batch, at least one.
BatchMessages(c) ==
  LET a      == Algorithms[Algorithm(c)]
      blocks == (c.bytes + 1 + a.length + a.block - 1) \div a.block
      whole  == (((c.ws * 16) \div (blocks * (a.block \div 64))) \div Batch) * Batch
  IN  IF whole < Batch THEN Batch ELSE whole

\* vb_distinct_messages: a message begins with its index in up to four bytes.
AllDistinct(c) == c.bytes < 4 => BatchMessages(c) <= 2^(8 * c.bytes)

ExpectOk(c) == c.expect \in {"none", Algorithm(c)}

\* What is wrong with every run and every ladder.
Sane(c) ==
  /\ KernelKnown(c)
  /\ "ladder" \in c.given => LadderOk(c.ladder)
  /\ MaxIterations(c) > 1 => c.bytes >= MinIterBytes(c)
  /\ AllDistinct(c)
  /\ ExpectOk(c)

OnDevice(c)     == Named(c) /\ Kernel(c).api # "cpu"
DeviceCould(c)  == IF Named(c) THEN OnDevice(c) ELSE c.where # "cpu"
DeviceOnly(c)   ==
  c.given \cap {"primitives", "geometry", "dump", "compile", "import", "backend"} # {}

\* Options that apply to nothing this run could choose.
Applies(c) ==
  /\ "chunks" \in c.given => c.transfer = "overlap"
  /\ "import" \in c.given => Named(c) /\ Kernel(c).api = "cuda"
  /\ DeviceOnly(c) => DeviceCould(c)

DevicesThere(c, m) == DeviceCould(c) => \A i \in Range(c.device) : i < m.devices

\* What a named kernel contradicts.
Agrees(c) ==
  LET api == Kernel(c).api IN
  /\ (api # "cpu" /\ c.backend # {}) => api \in c.backend
  /\ ("compile" \in c.given /\ api # "cpu") => api = "cuda"
  /\ c.where # "any" => (c.where = "cpu") = (api = "cpu")

RunsHere(k, m) == k.name \in m.runs /\ k.name \notin m.odd

\* The kernels autotune may choose from.
Eligible(c, m) ==
  {k \in Registry : /\ k.name[1] = c.algorithm /\ k.name \in m.runs
                    /\ c.where # "any" => (c.where = "cpu") = (k.api = "cpu")
                    /\ c.backend # {} => k.api \in c.backend}

Measured == {"ok", "noisy", "verify_failed", "cannot_run"}

\* The exit codes main may return for what ReadAll gives, on machine m: m.runs
\* are the kernels available there, and those in m.odd do not divide the batch.
Exits(c, m) ==
  IF c.early # "no"                             THEN {c.early}
  ELSE IF c.action \in {"list", "list_devices"} THEN {"ok"}
  ELSE IF ~Sane(c)                              THEN {"usage"}
  ELSE IF c.action = "ladder"                   THEN {"ok", "cannot_run"}
  ELSE IF ~Applies(c)                           THEN {"usage"}
  ELSE IF ~DevicesThere(c, m)                   THEN {"cannot_run"}
  ELSE IF Named(c) /\ ~Agrees(c)                THEN {"usage"}
  ELSE IF Named(c) /\ ~RunsHere(Kernel(c), m)   THEN {"cannot_run"}
  ELSE IF ~Named(c) /\ Eligible(c, m) = {}      THEN {"cannot_run"}
  ELSE Measured

=============================================================================
