--------------------------- MODULE DevicePipeline ---------------------------
(***************************************************************************)
(* The transfer pipeline of src/device/device.c (vb_dev_pipe_begin, _next, *)
(* _end) with the OpenCL and CUDA halves of it, pipe_enqueue, pipe_wait    *)
(* and destroy, in use by measure_device.                                  *)
(*                                                                         *)
(* One host thread feeds every device.  A device has two command queues    *)
(* that run in order but independently of each other: the copy queue takes *)
(* chunk s into chunk buffer s % 2, the compute queue runs the kernel on   *)
(* it and reads its partials back into slot s % Ring of a ring in host     *)
(* memory.  Chunks are numbered from vb_dev_pipe_begin; a pass over a      *)
(* device's slice is Chunks[d] of them.                                    *)
(*                                                                         *)
(* What a buffer holds is the number of the chunk it came from, or Torn    *)
(* while it is being overwritten or after a kernel read it meanwhile.  The *)
(* XOR of partials is the symmetric difference of what was folded.         *)
(***************************************************************************)
EXTENDS Naturals, Integers, FiniteSets, FiniteSetsExt

CONSTANTS NumDevices, \* devices one host thread feeds
          Chunks,     \* pipe_chunks of each device
          Ring,       \* VB_PIPE_RING
          MaxPasses,  \* bound: passes one call asks for
          MaxCalls    \* bound: calls of vb_dev_pipe_next

Device == 0 .. NumDevices - 1

ASSUME DevicesAssumption == /\ NumDevices \in Nat \ {0}
                            /\ Chunks \in [Device -> Nat \ {0}]
ASSUME RingAssumption    == Ring \in Nat /\ Ring >= 3
ASSUME BoundsAssumption  == MaxPasses \in Nat \ {0} /\ MaxCalls \in Nat

None == -1
Torn == -2
Slot == 0 .. Ring - 1

VARIABLES
  host,      \* where the host thread is
  turn,      \* the device the host looks at
  passes,    \* passes the current call asks for
  base,      \* pipe_collected of each device when the call began
  got,       \* what has been folded into each pass of the call
  calls,     \* history: calls made
  queued,    \* pipe_queued
  collected, \* pipe_collected
  running,   \* pipe_running
  freed,     \* the device's buffers and ring are gone
  partly,    \* commands of chunk `queued` that went out before one failed
  kev,       \* the kernel event in each ring slot, None once released
  dep,       \* the kernel the upload in each ring slot was told to wait for
  up,        \* uploads that ended
  uploading, \* upload number `up` is under way
  ran,       \* kernels that ended
  readBack,  \* readbacks that ended
  pbuf,      \* the two chunk buffers
  ppart,     \* the two partial buffers
  ring       \* the readback ring

callVars   == <<passes, base, calls>>
hostVars   == <<queued, collected, running, freed, partly, kev, dep>>
deviceVars == <<up, uploading, ran, readBack, pbuf, ppart, ring>>
vars == <<host, turn, got, callVars, hostVars, deviceVars>>

Stop(d) == base[d] + passes * Chunks[d]
Busy    == { d \in Device : collected[d] < Stop(d) }

(* Commands that reached the queues, the ones of a chunk whose enqueueing
   broke off half-way included: an upload, or an upload and a kernel. *)
Uploads(d) == queued[d] + (IF partly[d] >= 1 THEN 1 ELSE 0)
Kernels(d) == queued[d] + (IF partly[d] >= 2 THEN 1 ELSE 0)

Idle(d) == /\ ~uploading[d] /\ up[d] = Uploads(d)
           /\ ran[d] = Kernels(d) /\ readBack[d] = queued[d]

-----------------------------------------------------------------------------
(* vb_dev_pipe_next. *)

(* The definitions whose name ends in what is wrong with them are slips a later
   edit of the code could make; the properties tell them from the code. *)

\* Enter vb_dev_pipe_next.
Call(p) ==
  /\ host = "between" /\ calls < MaxCalls
  /\ host'   = "call"
  /\ passes' = p
  /\ base'   = collected
  /\ got'    = [i \in 0 .. p - 1 |-> {}]
  /\ calls'  = calls + 1
  /\ turn'   = 0
  /\ UNCHANGED <<hostVars, deviceVars>>

\* pipe_enqueue told the upload to wait for no kernel at all.
KernelBefore_None(d, s) == None

\* The event of the kernel that last used chunk s's buffer.
KernelBefore(d, s) == IF s < 2 THEN None ELSE kev[d][(s - 2) % Ring]

Filling(d) == host = "call" /\ turn = d /\ d \in Busy

\* One chunk more than the ring has slots.
HasRoom_OffByOne(d) == queued[d] <= collected[d] + Ring

\* The run-ahead stops at the last chunk this call asked for.
HasRoom_NoRunAhead(d) == queued[d] < collected[d] + Ring /\ queued[d] < Stop(d)

HasRoom(d) == queued[d] < collected[d] + Ring

\* Top the device up by one chunk: pipe_queue and pipe_enqueue.
Queue(d) ==
  /\ Filling(d) /\ HasRoom(d)
  /\ queued' = [queued EXCEPT ![d] = @ + 1]
  /\ dep'    = [dep EXCEPT ![d][queued[d] % Ring] = KernelBefore(d, queued[d])]
  /\ kev'    = [kev EXCEPT ![d][queued[d] % Ring] = queued[d]]
  /\ UNCHANGED <<host, turn, got, callVars, collected, running, freed, partly, deviceVars>>

\* One of the three commands is refused; what went out before it stays out.
QueueFails(d, sent) ==
  /\ Filling(d) /\ HasRoom(d)
  /\ partly' = [partly EXCEPT ![d] = sent]
  /\ dep'    = IF sent = 0 THEN dep ELSE
                 [dep EXCEPT ![d][queued[d] % Ring] = KernelBefore(d, queued[d])]
  /\ kev'    = IF sent < 2 THEN kev
               ELSE [kev EXCEPT ![d][queued[d] % Ring] = queued[d]]
  /\ host' = "free" /\ turn' = 0
  /\ UNCHANGED <<got, callVars, queued, collected, running, freed, deviceVars>>

\* The next device is taken, whether it still owes chunks or not.
NextTurn_NoSkip(d, busy) == (d + 1) % NumDevices

\* Round-robin over the devices that still owe chunks; device 0 when none does.
NextTurn(d, busy) ==
  IF busy = {} THEN 0
  ELSE LET after == { e \in busy : e > d }
       IN  IF after # {} THEN Min(after) ELSE Min(busy)

Retired(d) == /\ collected' = [collected EXCEPT ![d] = @ + 1]
              /\ kev' = [kev EXCEPT ![d][collected[d] % Ring] = None]

PassOf(d, s) == (s - base[d]) \div Chunks[d]

\* pipe_wait for the oldest chunk, and fold its partials into its pass.
Collect(d) ==
  LET s == collected[d]
      p == PassOf(d, s)
      x == { <<d, ring[d][s % Ring]>> }
  IN  /\ Filling(d) /\ ~HasRoom(d) /\ readBack[d] > s
      /\ got' = [got EXCEPT ![p] = (@ \ x) \cup (x \ @)]
      /\ Retired(d)
      /\ turn' = NextTurn(d, { e \in Device : collected'[e] < Stop(e) })
      /\ UNCHANGED <<host, callVars, queued, running, freed, partly, dep, deviceVars>>

WaitFails(d) ==
  /\ Filling(d) /\ ~HasRoom(d)
  /\ host' = "free" /\ turn' = 0
  /\ UNCHANGED <<got, callVars, hostVars, deviceVars>>

Return ==
  /\ host = "call" /\ Busy = {}
  /\ host' = "between"
  /\ UNCHANGED <<turn, got, callVars, hostVars, deviceVars>>

\* pipe_passes around the call: no memory for its checksums, or one of them is
\* not the expected one because a kernel computed it so.
NoMemory ==
  /\ host = "between" /\ calls < MaxCalls
  /\ host' = "free" /\ turn' = 0
  /\ UNCHANGED <<got, callVars, hostVars, deviceVars>>

WrongPass ==
  /\ host = "call" /\ Busy = {}
  /\ host' = "free" /\ turn' = 0
  /\ UNCHANGED <<got, callVars, hostVars, deviceVars>>

-----------------------------------------------------------------------------
(* vb_dev_pipe_end and vb_dev_ctx_free. *)

\* measure_device is done with its samples.
End ==
  /\ host = "between" /\ calls > 0
  /\ host' = "end" /\ turn' = 0
  /\ UNCHANGED <<got, callVars, hostVars, deviceVars>>

Draining(d) == host \in {"end", "free"} /\ turn = d /\ running[d]

\* Wait for the next queued chunk and drop it.
Drain(d) ==
  /\ Draining(d) /\ collected[d] < queued[d] /\ readBack[d] > collected[d]
  /\ Retired(d)
  /\ UNCHANGED <<host, turn, got, callVars, queued, running, freed, partly, dep, deviceVars>>

\* All are retired.
Drained(d) ==
  /\ Draining(d) /\ collected[d] = queued[d]
  /\ running' = [running EXCEPT ![d] = FALSE]
  /\ UNCHANGED <<host, turn, got, callVars, queued, collected, freed, partly, kev, dep, deviceVars>>

\* One could not be waited for: the rest is left to destroy.
DrainFails(d) ==
  /\ Draining(d) /\ collected[d] < queued[d]
  /\ running' = [running EXCEPT ![d] = FALSE]
  /\ UNCHANGED <<host, turn, got, callVars, queued, collected, freed, partly, kev, dep, deviceVars>>

EndNext(d) ==
  /\ host = "end" /\ turn = d /\ ~running[d]
  /\ IF d + 1 \in Device THEN turn' = d + 1 /\ UNCHANGED host
                         ELSE turn' = 0 /\ host' = "free"
  /\ UNCHANGED <<got, callVars, hostVars, deviceVars>>

\* destroy waits for the compute queue only.
Free_OneQueue(d) ==
  /\ host = "free" /\ turn = d /\ ~running[d]
  /\ ran[d] = Kernels(d) /\ readBack[d] = queued[d]
  /\ freed' = [freed EXCEPT ![d] = TRUE]
  /\ IF d + 1 \in Device THEN turn' = d + 1 /\ UNCHANGED host
                         ELSE turn' = 0 /\ host' = "gone"
  /\ UNCHANGED <<got, callVars, queued, collected, running, partly, kev, dep, deviceVars>>

\* destroy: finish both queues, then release everything.
Free(d) ==
  /\ host = "free" /\ turn = d /\ ~running[d]
  /\ Idle(d)
  /\ freed' = [freed EXCEPT ![d] = TRUE]
  /\ IF d + 1 \in Device THEN turn' = d + 1 /\ UNCHANGED host
                         ELSE turn' = 0 /\ host' = "gone"
  /\ UNCHANGED <<got, callVars, queued, collected, running, partly, kev, dep, deviceVars>>

-----------------------------------------------------------------------------
(* The devices. *)

StartUpload(d) ==
  LET s == up[d]
  IN  /\ s < Uploads(d) /\ ~uploading[d] /\ dep[d][s % Ring] < ran[d]
      /\ uploading' = [uploading EXCEPT ![d] = TRUE]
      /\ pbuf' = [pbuf EXCEPT ![d][s % 2] = Torn]
      /\ UNCHANGED <<host, turn, got, callVars, hostVars, up, ran, readBack, ppart, ring>>

EndUpload(d) ==
  /\ uploading[d]
  /\ uploading' = [uploading EXCEPT ![d] = FALSE]
  /\ up'   = [up EXCEPT ![d] = @ + 1]
  /\ pbuf' = [pbuf EXCEPT ![d][up[d] % 2] = up[d]]
  /\ UNCHANGED <<host, turn, got, callVars, hostVars, ran, readBack, ppart, ring>>

\* The kernel waits for its upload, and the compute queue is in order.
Kernel(d) ==
  LET s == ran[d]
  IN  /\ s < Kernels(d) /\ up[d] > s /\ readBack[d] = s
      /\ ran'   = [ran EXCEPT ![d] = @ + 1]
      /\ ppart' = [ppart EXCEPT ![d][s % 2] = IF pbuf[d][s % 2] = s THEN s ELSE Torn]
      /\ UNCHANGED <<host, turn, got, callVars, hostVars, up, uploading, readBack, pbuf, ring>>

ReadBack(d) ==
  LET s == readBack[d]
  IN  /\ s < queued[d] /\ ran[d] > s
      /\ readBack' = [readBack EXCEPT ![d] = @ + 1]
      /\ ring' = [ring EXCEPT ![d][s % Ring] = ppart[d][s % 2]]
      /\ UNCHANGED <<host, turn, got, callVars, hostVars, up, uploading, ran, pbuf, ppart>>

-----------------------------------------------------------------------------

Init ==
  /\ host = "between" /\ turn = 0 /\ passes = 0 /\ calls = 0 /\ got = <<>>
  /\ base      = [d \in Device |-> 0]
  /\ queued    = [d \in Device |-> 0]
  /\ collected = [d \in Device |-> 0]
  /\ running   = [d \in Device |-> TRUE]
  /\ freed     = [d \in Device |-> FALSE]
  /\ partly    = [d \in Device |-> 0]
  /\ kev       = [d \in Device |-> [i \in Slot |-> None]]
  /\ dep       = [d \in Device |-> [i \in Slot |-> None]]
  /\ up        = [d \in Device |-> 0]
  /\ uploading = [d \in Device |-> FALSE]
  /\ ran       = [d \in Device |-> 0]
  /\ readBack  = [d \in Device |-> 0]
  /\ pbuf      = [d \in Device |-> [b \in {0, 1} |-> None]]
  /\ ppart     = [d \in Device |-> [b \in {0, 1} |-> None]]
  /\ ring      = [d \in Device |-> [i \in Slot |-> None]]

HostStep ==
  \/ \E d \in Device :
       Queue(d) \/ Collect(d) \/ Drain(d) \/ Drained(d) \/ EndNext(d) \/ Free(d)
  \/ Return

Failure ==
  \/ NoMemory \/ WrongPass
  \/ \E d \in Device :
       (\E sent \in 0 .. 2 : QueueFails(d, sent)) \/ WaitFails(d) \/ DrainFails(d)

DeviceStep(d) == StartUpload(d) \/ EndUpload(d) \/ Kernel(d) \/ ReadBack(d)

Next ==
  \/ \E p \in 1 .. MaxPasses : Call(p)
  \/ End
  \/ HostStep \/ Failure
  \/ \E d \in Device : DeviceStep(d)

(* A command that can run is run in the end, and the host thread goes on;
   nothing has to fail.  How many calls are made, and when the last one was,
   is up to the caller's clock. *)
Fairness == WF_vars(HostStep) /\ \A d \in Device : WF_vars(DeviceStep(d))

Spec == Init /\ [][Next]_vars /\ Fairness

-----------------------------------------------------------------------------

Seq     == Nat
Content == Seq \cup {None, Torn}
Pass(p) == UNION { { <<d, base[d] + p * Chunks[d] + j>> : j \in 0 .. Chunks[d] - 1 }
                   : d \in Device }

(* Types, and the distance between queueing and collecting that the comment on
   pipe_queued and pipe_collected promises. *)
TypeOK ==
  /\ host \in {"between", "call", "end", "free", "gone"}
  /\ turn \in Device /\ passes \in 0 .. MaxPasses /\ calls \in 0 .. MaxCalls
  /\ base \in [Device -> Seq] /\ queued \in [Device -> Seq]
  /\ collected \in [Device -> Seq]
  /\ \A d \in Device : queued[d] \in collected[d] .. collected[d] + Ring
  /\ running \in [Device -> BOOLEAN] /\ freed \in [Device -> BOOLEAN]
  /\ partly \in [Device -> 0 .. 2]
  /\ kev \in [Device -> [Slot -> Content]] /\ dep \in [Device -> [Slot -> Content]]
  /\ up \in [Device -> Seq] /\ uploading \in [Device -> BOOLEAN]
  /\ ran \in [Device -> Seq] /\ readBack \in [Device -> Seq]
  /\ pbuf \in [Device -> [{0, 1} -> Content]]
  /\ ppart \in [Device -> [{0, 1} -> Content]]
  /\ ring \in [Device -> [Slot -> Content]]
  /\ DOMAIN got = 0 .. passes - 1

(* When a call returns, each pass holds every chunk of every device exactly
   once, none that an upload, a kernel or a readback spoilt and none of another
   pass, although the devices have run ahead of the call. *)
PassIntegrity ==
  host = "call" /\ Busy = {} => \A p \in 0 .. passes - 1 : got[p] = Pass(p)

(* Between two calls every device still has a ring of chunks less one ahead of
   it, so no sample starts or ends with a pipeline that fills or drains. *)
NeverDrained ==
  host = "between" /\ calls > 0
    => \A d \in Device : queued[d] - collected[d] = Ring - 1

(* No buffer, and no host memory a device reads or writes, is released while a
   command may still use it, whatever failed before. *)
FreedWhenIdle == \A d \in Device : freed[d] => Idle(d)

(* The host gets out of every wait.  A call of vb_dev_pipe_next returns: it
   waits for no chunk nobody queued, and no upload for its own kernel.  And a
   pipeline that is to end, at the end of a measurement or after a failure, is
   drained and released, whatever it left queued. *)
HostNeverStuck ==
  /\ host = "call" ~> host # "call"
  /\ host \in {"end", "free"} ~> host = "gone"

=============================================================================
