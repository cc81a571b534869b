---------------------------- MODULE DeviceMeasure ----------------------------
(***************************************************************************)
(* What a measurement of a device kernel ends in: measure_device of        *)
(* src/bench.c, what measure_with_corpus and vb_measure make of it, and    *)
(* the exit code main makes of that.                                       *)
(*                                                                         *)
(* The clock decides how many passes calibration, warm-up and a sample     *)
(* take, so each of these phases may go on or end after any pass.  In a    *)
(* pass any set of devices may compute a wrong checksum for its slice; two *)
(* or more of them may cancel in the XOR of the slices.  A call into a     *)
(* driver may fail at any point, which leaves the reason in the error text *)
(* of that device's context.                                               *)
(***************************************************************************)
EXTENDS DeviceList

CONSTANTS NumSamples, \* timed samples asked for
          Transfers,  \* the modes to consider: "pipelined", "plain"
          Asks        \* records [host, api, named, groups, chunks]: the machine,
                      \* and the back end, --device, groups and chunks asked for

ASSUME SamplesAssumption   == NumSamples \in Nat \ {0}
ASSUME TransfersAssumption == Transfers \subseteq {"pipelined", "plain"}
\* parse_devices lets no device be named twice.
ASSUME AsksAssumption      == \A a \in Asks : /\ a.groups \in Nat \ {0} /\ a.chunks \in Nat
                                              /\ a.named \in Seq(Nat) /\ IsInjective(a.named)
ASSUME HostsAssumption     == \A a \in Asks : a.host \in Hosts

VARIABLES
  at,           \* where the measurement is
  ask,          \* what is asked for
  using,        \* idx: the entries of the device list in use
  slices,       \* of each device: its groups and its chunks
  transfer,     \* cfg->transfer: VB_TRANSFER_OVERLAP is "pipelined"
  haveExpected, \* cfg->have_expected
  nInit,        \* n_init
  holding,      \* contexts that hold device resources
  ctxError,     \* contexts whose error text is not empty
  deviceError,  \* out->device_error is not empty
  runError,     \* out->run_error is not empty
  nSamples,     \* out->n_samples
  sampled,      \* si of the sampling loop
  rc,           \* what measure_device returned
  exit,         \* the exit code, "none" before
  rejected,     \* history: a comparison told a wrong checksum
  accepted      \* history: passes with wrong checksums that went through

cfgVars   == <<transfer, haveExpected, ask, using, slices>>
errorVars == <<ctxError, deviceError, runError>>
history   == <<rejected, accepted>>
vars == <<at, nInit, holding, nSamples, sampled, rc, exit, cfgVars, errorVars, history>>

NumDevices == Len(using)
Device     == 0 .. NumDevices - 1
List       == VbDevices(ask.host)

Streaming == {"calibrate", "warmup", "recalibrate", "sample"}

-----------------------------------------------------------------------------
(* The definitions whose name ends in what is wrong with them are slips a later
   edit of the code could make; the properties tell them from the code. *)

(* Setting up. *)

\* vb_measure could not build the corpus.
NoCorpus ==
  /\ at = "begin"
  /\ runError' = TRUE /\ rc' = 1
  /\ at' = "returned"
  /\ UNCHANGED <<nInit, holding, nSamples, sampled, exit, cfgVars, ctxError, deviceError, history>>

Reachable(i) == List[i][ask.api] # None

\* A set of entries as idx takes them, in the order of the list.
InOrder(R) ==
  UNION { { s \in [1 .. n -> R] : /\ Range(s) = R
                                  /\ \A i, j \in 1 .. n : i < j => s[i] < s[j] }
          : n \in 0 .. DevMax }

\* measure_device uses every device the back end reaches, or the named ones,
\* but never more than there are groups.
Select ==
  /\ at = "begin" /\ at' = "init"
  /\ List # <<>>
  /\ \E chosen \in IF ask.named = <<>> THEN InOrder({ i \in 1 .. Len(List) : Reachable(i) })
                    ELSE { [i \in 1 .. Len(ask.named) |-> ask.named[i] + 1] } :
       /\ chosen # <<>>
       /\ \A i \in Range(chosen) : IF i \in DOMAIN List THEN Reachable(i) ELSE FALSE
       /\ using' = Upto(chosen, ask.groups)
  /\ UNCHANGED <<nInit, holding, nSamples, sampled, rc, exit, transfer, haveExpected, ask,
                 slices, errorVars, history>>

\* It refuses a device that is not there or that the back end does not reach.
\* Only an empty list comes without a reason.
SelectFails ==
  /\ at = "begin"
  /\ \/ List = <<>>
     \/ ask.named = <<>> /\ ~\E i \in DOMAIN List : Reachable(i)
     \/ \E d \in Range(ask.named) : d < Len(List) => ~Reachable(d + 1)
  /\ deviceError' = (List # <<>>) /\ rc' = 1
  /\ at' = "measured"
  /\ UNCHANGED <<nInit, holding, nSamples, sampled, exit, cfgVars, ctxError, runError, history>>

\* vb_dev_ctx_init and the transfer mode of the next device.
InitDevice ==
  /\ at = "init" /\ nInit < NumDevices
  /\ nInit' = nInit + 1
  /\ holding' = holding \cup {nInit}
  /\ LET mine == Slice(ask.groups, NumDevices, nInit)
         mem  == List[using[nInit + 1]][ask.api].mem
     IN  slices' = Append(slices,
                     [mine |-> mine,
                      chunks |-> IF transfer = "pipelined"
                                   THEN Chunks(ask.chunks, mine.count, mem) ELSE 1])
  /\ at' = IF nInit + 1 = NumDevices THEN "check" ELSE "init"
  /\ UNCHANGED <<nSamples, sampled, rc, exit, transfer, haveExpected, ask, using, errorVars,
                 history>>

\* vb_dev_ctx_init fails, and has released what it made.
InitFails ==
  /\ at = "init"
  /\ deviceError' = TRUE
  /\ at' = "failInit"
  /\ UNCHANGED <<nInit, holding, nSamples, sampled, rc, exit, cfgVars, ctxError, runError, history>>

\* The context is counted only once its pipeline is open.
OverlapFails_LateCount ==
  /\ at = "init" /\ transfer = "pipelined"
  /\ holding' = holding \cup {nInit}
  /\ ctxError' = ctxError \cup {nInit}
  /\ deviceError' = TRUE
  /\ at' = "failRun"
  /\ UNCHANGED <<nInit, nSamples, sampled, rc, exit, cfgVars, runError, history>>

\* vb_dev_ctx_set_overlap fails on a context that is there.
OverlapFails ==
  /\ at = "init" /\ transfer = "pipelined"
  /\ nInit' = nInit + 1
  /\ holding' = holding \cup {nInit}
  /\ ctxError' = ctxError \cup {nInit}
  /\ deviceError' = TRUE
  /\ at' = "failRun"
  /\ UNCHANGED <<nSamples, sampled, rc, exit, cfgVars, runError, history>>

-----------------------------------------------------------------------------
(* Passes. *)

\* The XOR of the slices against the XOR expected of them.
Same(bad, cancel) == bad = {} \/ (cancel /\ Cardinality(bad) > 1)

\* What a pass is compared with in each phase: the slices each with their own
\* reference in the first, the aggregate in the timed ones and, pipelined, in
\* all that follow the first.
Rejects_NoFirst(bad, cancel) ==
  \/ at = "check" /\ haveExpected /\ ~Same(bad, cancel)
  \/ at = "sample" /\ ~Same(bad, cancel)
  \/ at \in Streaming /\ transfer = "pipelined" /\ ~Same(bad, cancel)

Rejects(bad, cancel) ==
  \/ at = "check" /\ IF haveExpected THEN ~Same(bad, cancel) ELSE bad # {}
  \/ at = "sample" /\ ~Same(bad, cancel)
  \/ at \in Streaming /\ transfer = "pipelined" /\ ~Same(bad, cancel)

Kind == IF at \in {"check", "sample"} THEN at ELSE "untimed"

\* One sample more than asked for.
Enough_OffByOne(samples) == samples > NumSamples

Enough(samples) == samples = NumSamples

\* A pass goes through; the clock says whether the phase is over.
Pass(bad, cancel, over) ==
  /\ at \in {"check"} \cup Streaming /\ ~Rejects(bad, cancel)
  /\ accepted' = IF bad = {} THEN accepted
                 ELSE accepted \cup {<<Kind, IF Cardinality(bad) = 1 THEN "lone" ELSE "cancelled">>}
  /\ sampled' = IF at = "sample" /\ over THEN sampled + 1 ELSE sampled
  /\ at' = CASE at = "check"                  -> "calibrate"
             [] at = "calibrate" /\ over      -> "warmup"
             [] at = "recalibrate" /\ over    -> "sample"
             [] at = "sample" /\ Enough(sampled') -> "succeeded"
             [] OTHER                         -> at
  /\ UNCHANGED <<nInit, holding, nSamples, rc, exit, cfgVars, errorVars, rejected>>

\* The warm-up time is over, perhaps before the first pass.
WarmedUp ==
  /\ at = "warmup" /\ at' = "recalibrate"
  /\ UNCHANGED <<nInit, holding, nSamples, sampled, rc, exit, cfgVars, errorVars, history>>

PassRejected(bad, cancel) ==
  /\ Rejects(bad, cancel)
  /\ rejected' = TRUE
  /\ nSamples' = IF at = "sample" THEN sampled ELSE nSamples
  /\ at' = "failRun"
  /\ UNCHANGED <<nInit, holding, sampled, rc, exit, cfgVars, errorVars, accepted>>

\* A driver call of device d fails during a pass.  pipe_passes puts the reason
\* where the caller looks, VB_DEV_PASS leaves it where it is; only the
\* pipelined sampling loop also counts the samples taken.
PassBreaks(d) ==
  LET piped == transfer = "pipelined" /\ at # "check"
  IN  /\ at \in {"check"} \cup Streaming
      /\ ctxError' = ctxError \cup {d} \cup (IF piped THEN {0} ELSE {})
      /\ nSamples' = IF piped /\ at = "sample" THEN sampled ELSE nSamples
      /\ at' = "failRun"
      /\ UNCHANGED <<nInit, holding, sampled, rc, exit, cfgVars, deviceError, runError, history>>

-----------------------------------------------------------------------------
(* The ends of measure_device, and after it. *)

FreeContexts == holding' = holding \ (0 .. nInit - 1)

Succeed ==
  /\ at = "succeeded"
  /\ FreeContexts
  /\ nSamples' = NumSamples /\ rc' = 0
  /\ at' = "measured"
  /\ UNCHANGED <<nInit, sampled, exit, cfgVars, errorVars, history>>

\* fail_run and fail_init.
Fail ==
  /\ at \in {"failRun", "failInit"}
  /\ deviceError' = (deviceError \/ (at = "failRun" /\ nInit > 0 /\ 0 \in ctxError))
  /\ FreeContexts
  /\ rc' = 1
  /\ at' = "measured"
  /\ UNCHANGED <<nInit, nSamples, sampled, exit, cfgVars, ctxError, runError, history>>

\* measure_with_corpus: no sample and a device error is a run that failed.
RunErrorOf == rc # 0 /\ nSamples = 0 /\ deviceError

Report ==
  /\ at = "measured"
  /\ runError' = RunErrorOf
  /\ at' = "returned"
  /\ UNCHANGED <<nInit, holding, nSamples, sampled, rc, exit, cfgVars, ctxError, deviceError, history>>

\* main: VB_EXIT_OK or VB_EXIT_NOISY is "measured" here.
Exit ==
  /\ at = "returned" /\ at' = "exited"
  /\ exit' = IF rc = 0 THEN "measured" ELSE IF runError THEN "cannot_run" ELSE "verify_failed"
  /\ UNCHANGED <<nInit, holding, nSamples, sampled, rc, cfgVars, errorVars, history>>

-----------------------------------------------------------------------------

Init ==
  /\ at = "begin"
  /\ transfer \in Transfers /\ haveExpected \in BOOLEAN
  /\ ask \in Asks /\ using = <<>> /\ slices = <<>>
  /\ nInit = 0 /\ holding = {} /\ ctxError = {}
  /\ deviceError = FALSE /\ runError = FALSE
  /\ nSamples = 0 /\ sampled = 0 /\ rc = 0 /\ exit = "none"
  /\ rejected = FALSE /\ accepted = {}

Next ==
  \/ NoCorpus \/ Select \/ SelectFails
  \/ InitDevice \/ InitFails \/ OverlapFails
  \/ \E bad \in SUBSET Device, cancel, over \in BOOLEAN : Pass(bad, cancel, over)
  \/ WarmedUp
  \/ \E bad \in SUBSET Device, cancel \in BOOLEAN : PassRejected(bad, cancel)
  \/ \E d \in Device : PassBreaks(d)
  \/ Succeed \/ Fail \/ Report \/ Exit

Spec == Init /\ [][Next]_vars

-----------------------------------------------------------------------------

(* Types and ranges: no more contexts are counted than there are devices, and
   no more samples than out->sample_ns has room for. *)
TypeOK ==
  /\ at \in {"begin", "init", "check", "succeeded", "failRun", "failInit",
             "measured", "returned", "exited"} \cup Streaming
  /\ transfer \in Transfers /\ haveExpected \in BOOLEAN /\ ask \in Asks
  /\ Range(using) \subseteq DOMAIN List /\ Len(slices) <= NumDevices
  /\ nInit \in 0 .. NumDevices /\ holding \subseteq Device /\ ctxError \subseteq Device
  /\ deviceError \in BOOLEAN /\ runError \in BOOLEAN
  /\ nSamples \in 0 .. NumSamples /\ sampled \in 0 .. NumSamples
  /\ rc \in {0, 1} /\ exit \in {"none", "measured", "cannot_run", "verify_failed"}
  /\ rejected \in BOOLEAN
  /\ accepted \subseteq {"check", "sample", "untimed"} \X {"lone", "cancelled"}

(* A figure is published only if, in the first pass and in every timed one, no
   device was alone in being wrong; without a supplied reference none was
   wrong in the first; and pipelined the passes between are no exception.  A
   wrong answer the host has seen is never put down to a device that could
   not be set up. *)
WrongNeverPasses ==
  /\ exit = "measured" =>
       /\ <<"check", "lone">> \notin accepted /\ <<"sample", "lone">> \notin accepted
       /\ ~haveExpected => <<"check", "cancelled">> \notin accepted
       /\ transfer = "pipelined" => <<"untimed", "lone">> \notin accepted
  /\ rejected /\ at = "exited" => exit = "verify_failed"

Groups(slice) == slice.first .. slice.first + slice.count - 1
Partition(S, n) ==
  /\ \A g \in 0 .. n - 1 : Cardinality({s \in DOMAIN S : g \in Groups(S[s])}) = 1
  /\ \A s \in DOMAIN S : S[s].count > 0 /\ Groups(S[s]) \subseteq 0 .. n - 1

ChunksDivide(n, k) ==
  LET parts == [c \in 1 .. k |-> Slice(n, k, c - 1)]
  IN  Partition(parts, n) /\ \A c \in 1 .. k : parts[c].count <= parts[1].count

\* The slices of the devices in use, and the chunks of each.
GroupsDivided ==
  /\ Len(slices) = NumDevices /\ NumDevices > 0
  /\ Partition([i \in DOMAIN slices |-> slices[i].mine], ask.groups)
  /\ \A i \in DOMAIN slices : ChunksDivide(slices[i].mine.count, slices[i].chunks)
  /\ IsInjective(using)

\* The list of devices, of which those in use are some.
ListComplete ==
  /\ \A b \in Range(Apis) :
       LET all == Enumerate(ask.host, b) IN
       Len(List) < DevMax =>
         Cardinality({i \in DOMAIN List : List[i][b] # None}) = Len(all)
  /\ \A i \in DOMAIN List :
       List[i].opencl # None /\ List[i].cuda # None /\ ~List[i].opencl.guessed =>
         List[i].opencl.card = List[i].cuda.card

(* However many devices there are, and however many groups: the devices in use
   hash every group between them exactly once, and so do the chunks of each,
   none of which is empty or larger than the buffers sized for the first.  No
   device is used twice; none of those listed is lost as long as there is
   room, and an entry of the list unites two back ends' devices only if they
   are one card, or their address was made up without its domain. *)
WorkDivided == at = "check" => GroupsDivided /\ ListComplete

(* Whatever fails, and whenever, no device context outlives the measurement. *)
ContextsFreed == at \in {"measured", "returned", "exited"} => holding = {}

(* "A verification failure means the hardware computed a wrong digest":
   the exit code says so only if some checksum differed. *)
VerifyFailedMeansWrong == exit = "verify_failed" => rejected

=============================================================================
