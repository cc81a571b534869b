---------------------------- MODULE MCDeviceContext ----------------------------
(* A device of each kind the sizes tell apart, driven through every failure. *)
EXTENDS DeviceContext

D(api, units, kernelMax, scratch, h, lanes, n) ==
  [api |-> api, units |-> units, maxGroup |-> 0, kernelMax |-> kernelMax,
   scratch |-> scratch, holds |-> h, lanes |-> lanes, n |-> n]

Hold(a, b, c) == [l \in {1, 2, 4} |-> CASE l = 1 -> a [] l = 2 -> b [] OTHER -> c]

MCDevices == {
  D("cuda",   2, 4, 0, Hold(3, 2, 1), 1, 5),   \* groups of two and of four
  D("opencl", 1, 1, 0, Hold(3, 2, 1), 1, 3),   \* a kernel that permits one work-item
  D("opencl", 2, 0, 2, Hold(3, 3, 2), 2, 3),   \* scratch for groups of two, two lanes
  D("cuda",   1, 2, 0, Hold(1, 1, 1), 4, 2)}   \* one group at a time, lanes over two

MCPins == {<<0, 0>>, <<8, 2>>, <<6, 2>>, <<16, 1>>}
=============================================================================
