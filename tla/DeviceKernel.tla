------------------------------ MODULE DeviceKernel ------------------------------
(***************************************************************************)
(* What one launch of a device kernel hashes: the grid-stride sweep and    *)
(* the reduction that all of src/kernels/gpu/<alg>_device_impl.h share, and *)
(* the fold of src/device/device.c.  A checksum is the set of messages in  *)
(* it an odd number of times, a message being a lane of a group of the     *)
(* slice (all the streams of it, which never part).                        *)
(***************************************************************************)
EXTENDS Integers, FiniteSets

\* The messages of a slice of n groups.
Corpus(n, lanes) == (0 .. n - 1) \X (0 .. lanes - 1)

\* What work-item w of a launch of `global` reads in one sweep.
Reads(w, global, n, lanes) ==
  {<<g, w % lanes>> : g \in {x \in 0 .. n - 1 :
      x >= w \div lanes /\ (x - w \div lanes) % (global \div lanes) = 0}}

\* The work-items of a group of `local` whose value arrives at the first one,
\* when the span is halved from local / 2 down to 1.
Arriving(local) ==
  LET at[s \in 0 .. local] ==
        IF s = 0 THEN {0} ELSE at[s \div 2] \cup {i + s : i \in at[s \div 2]}
  IN  at[local \div 2]

\* The fold of every group's partial, after `repeats` sweeps.
LaunchSum(global, local, n, lanes, repeats) ==
  LET item == {w \in 0 .. global - 1 : w % local \in Arriving(local)}
  IN  {m \in Corpus(n, lanes) :
         (repeats * Cardinality({w \in item : m \in Reads(w, global, n, lanes)})) % 2 = 1}

=============================================================================
