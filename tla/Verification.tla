------------------------------ MODULE Verification -----------------------------
(***************************************************************************)
(* The reference beside the kernels it judges: a checksum of the threads   *)
(* of vb_reference_checksums_mt is compared with that of a kernel over the *)
(* same messages.                                                          *)
(***************************************************************************)
EXTENDS Reference, Kernels

(* Every kernel on every corpus its groups divide.  The lengths are those at
   which the padding or the feedback changes; a digest is fed back only into a
   message that has room for it. *)

Lengths(a) == {1, DigestBytes(a), BlockBytes(a) - a.lengthBytes - 1,
               BlockBytes(a) - a.lengthBytes, BlockBytes(a),
               2 * BlockBytes(a) - a.lengthBytes - 1}

Rounds(a, bytes) == IF bytes >= DigestBytes(a) THEN Ladder ELSE {1}

Corpora ==
  [a \in Algorithms |-> [bytes \in Lengths(a) |-> [n \in Sizes |-> [lanes \in LaneCounts |->
    [memory |-> IF n % lanes # 0 THEN <<>> ELSE CorpusBuild(a, lanes, n, bytes),
     alg |-> a, lanes |-> lanes, blocks |-> BlocksFor(a, bytes)]]]]]

RefDigests ==
  [a \in Algorithms |-> [bytes \in Lengths(a) |-> [it \in Rounds(a, bytes) |->
    [n \in Sizes |-> [m \in 0 .. n - 1 |-> RefDigest(a, m, bytes, it)]]]]]

\* The message the reference makes this digest of, or -1 if there is none.
MessageOf(digests, d) ==
  IF \E m \in DOMAIN digests : digests[m] = d
  THEN CHOOSE m \in DOMAIN digests : digests[m] = d
  ELSE -1

\* The messages in the checksum of a kernel over a corpus.
HashedBy ==
  [a \in Algorithms |-> [bytes \in Lengths(a) |-> [it \in Rounds(a, bytes) |->
    [n \in Sizes |-> [lanes \in LaneCounts |-> [streams \in Streams |->
      IF n % (lanes * streams) # 0 THEN {}
      ELSE LET checksum == Kernel(Corpora[a][bytes][n][lanes], streams,
                                  n \div (lanes * streams), it)
           IN  {MessageOf(RefDigests[a][bytes][it][n], d) : d \in checksum}]]]]]]

-----------------------------------------------------------------------------
(* A kernel without a fault is never failed: whatever threads the reference got
   and whatever joins were refused, its checksum is the one that every shape of
   every kernel finds in the corpus, for messages that end at, before and after
   the edges of a block and for every number of iterations - though the two pad,
   lay out and feed back in code they do not share.  main refuses a corpus that
   would repeat a message. *)
KernelsAgree ==
  pc = "returned" /\ count \in Sizes =>
    \A a \in Algorithms : \A bytes \in Lengths(a) : \A it \in Rounds(a, bytes) :
      \A lanes \in LaneCounts, streams \in Streams :
        AllDistinct(count, bytes) /\ count % (lanes * streams) = 0
          => HashedBy[a][bytes][it][count][lanes][streams] = out

=============================================================================
