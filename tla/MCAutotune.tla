------------------------------ MODULE MCAutotune ------------------------------
(***************************************************************************)
(* A table with a width that comes back after another, a kernel that does  *)
(* not divide the batch (12 lanes on 384-bit vectors, three streams), and  *)
(* a device kernel.                                                        *)
(***************************************************************************)
EXTENDS Autotune

CpuRow(l, s) == [lanes |-> l, streams |-> s, backend |-> "cpu"]

MCTable == <<CpuRow(4, 1), CpuRow(12, 3), CpuRow(4, 2),
             [lanes |-> 64, streams |-> 1, backend |-> "opencl"]>>

\* What a machine with such vectors registers beside the portable kernels.
CpuTable == <<CpuRow(1, 1), CpuRow(12, 3)>>
=============================================================================
