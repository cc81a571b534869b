------------------------------- MODULE DeviceList -------------------------------
(***************************************************************************)
(* Which devices there are and which groups each of them hashes: the       *)
(* enumeration of src/opencl/loader.c, src/opencl/backend.c and            *)
(* src/cuda/backend.c, the merged list and the slices of                   *)
(* src/device/device.c.  A device is the card it is, <<domain, bus,        *)
(* function>>, and what its driver tells of it.                            *)
(***************************************************************************)
EXTENDS Integers, SequencesExt

CONSTANTS
  DevMax,       \* VB_DEV_MAX, VB_OCL_MAX_DEVICES
  MaxPlatforms, \* MAX_PLATFORMS
  MemShare,     \* VB_PIPE_MEM_SHARE
  MaxChunks     \* 256

ASSUME ListAssumption == {DevMax, MaxPlatforms, MemShare, MaxChunks} \subseteq Nat \ {0}

(* The definitions whose name ends in what is wrong with them are slips an
   edit of the code could make; the properties tell them from the code. *)

Upto(s, n) == SubSeq(s, 1, IF Len(s) < n THEN Len(s) ELSE n)
None == [card |-> <<>>, pci |-> <<>>, guessed |-> FALSE, units |-> 0, mem |-> 0]

\* What a driver tells of a device.  "The function is 0 for every GPU CUDA can
\* enumerate."
OclDevices  == [card : Nat \X Nat \X Nat, tells : {"all", "nodom", "nothing"},
                units : Nat, mem : Nat]
CudaDevices == [card : Nat \X Nat \X {0}, units : Nat, mem : Nat, opens : BOOLEAN]

\* A machine: what OpenCL's platforms and CUDA have, and what is not installed.
Hosts == [platforms : Seq(Seq(OclDevices)), devices : Seq(CudaDevices),
          missing : [opencl : SUBSET STRING, cuda : SUBSET STRING]]

\* The parts of a back end that are found at run time, in the order they are
\* looked for; the first that is missing makes it unavailable.
OclParts  == <<"libOpenCL", "its entry points">>
CudaParts == <<"libcuda", "its entry points", "cuInit", "libnvrtc", "nvrtc's entry points">>

OclLoad(missing)  == Range(OclParts) \cap missing = {}
CudaLoad(missing) == Range(CudaParts) \cap missing = {}

\* get_pci: the full address, one from a query without the domain, or none.
OclInfo(d) ==
  [card |-> d.card,
   pci |-> CASE d.tells = "all"    -> d.card
             [] d.tells = "nodom"  -> <<0, d.card[2], d.card[3]>>
             [] d.tells = "nothing" -> <<>>,
   guessed |-> d.tells = "nodom",
   units |-> IF d.units = 0 THEN 1 ELSE d.units,
   mem |-> d.mem]

\* What OpenCL lists: the devices of each platform that has some.
OclEnumerate(h) ==
  IF ~OclLoad(h.missing.opencl) THEN <<>>
  ELSE LET found == Upto(FlattenSeq(Upto(h.platforms, MaxPlatforms)), DevMax)
       IN  [i \in DOMAIN found |-> OclInfo(found[i])]

\* CUDA knows no function.
CudaInfo(d) ==
  [card |-> d.card, pci |-> <<d.card[1], d.card[2], 0>>, guessed |-> FALSE,
   units |-> d.units, mem |-> d.mem]

\* What CUDA lists: the devices that can be opened.
CudaEnumerate(h) ==
  IF ~CudaLoad(h.missing.cuda) THEN <<>>
  ELSE LET opened == FoldLeft(LAMBDA l, d : IF d.opens THEN Append(l, d) ELSE l, <<>>, h.devices)
           found  == Upto(opened, DevMax)
       IN  [i \in DOMAIN found |-> CudaInfo(found[i])]

Blank == [opencl |-> None, cuda |-> None]
Apis  == <<"opencl", "cuda">>

\* A card one back end lists twice takes the place of the first.
Insert_Overwrites(list, b, info) ==
  LET same == {j \in DOMAIN list : /\ info.pci # <<>>
                                   /\ \E o \in {"opencl", "cuda"} : list[j][o].pci = info.pci}
  IN  IF same # {} THEN [list EXCEPT ![Min(same)][b] = info]
      ELSE IF Len(list) >= DevMax THEN list
      ELSE Append(list, [Blank EXCEPT ![b] = info])

\* vb_devices puts a device of back end b with the first entry that an earlier
\* one has and b has not at this address, or into one of its own.
Insert(list, b, info) ==
  LET same == {j \in DOMAIN list : /\ info.pci # <<>> /\ list[j][b] = None
                                   /\ b # "opencl" /\ list[j].opencl.pci = info.pci}
  IN  IF same # {} THEN [list EXCEPT ![Min(same)][b] = info]
      ELSE IF Len(list) >= DevMax THEN list
      ELSE Append(list, [Blank EXCEPT ![b] = info])

Enumerate(h, b) == IF b = "opencl" THEN OclEnumerate(h) ELSE CudaEnumerate(h)

VbDevices(h) ==
  FoldLeft(LAMBDA list, b : FoldLeft(LAMBDA l, i : Insert(l, b, i), list, Enumerate(h, b)),
           <<>>, Apis)

\* vb_dev_slice: part i of n of `total` groups.
Slice(total, n, i) ==
  LET base == total \div n
      extra == total % n
  IN  [first |-> i * base + (IF i < extra THEN i ELSE extra),
       count |-> base + (IF i < extra THEN 1 ELSE 0)]

\* vb_dev_auto_chunks, for groups of one byte: the fewest chunks two of which
\* fit in the share of the device's memory.
AutoChunks(groups, mem) ==
  LET Fit(c) == \/ c >= groups \/ c = MaxChunks
                \/ 2 * Slice(groups, c, 0).count <= mem \div MemShare
  IN  IF mem \div MemShare = 0 THEN 1
      ELSE CHOOSE c \in 1 .. MaxChunks : Fit(c) /\ \A d \in 1 .. c - 1 : ~Fit(d)

\* The chunks of a slice in vb_dev_ctx_set_overlap, 0 for no number asked for.
Chunks(asked, groups, mem) ==
  LET want == IF asked = 0 THEN AutoChunks(groups, mem) ELSE asked
  IN  IF want > groups THEN groups ELSE want

=============================================================================
