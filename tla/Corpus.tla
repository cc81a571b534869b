-------------------------------- MODULE Corpus ---------------------------------
(***************************************************************************)
(* What is hashed, and where it lies: the algorithm descriptors, the       *)
(* message, its padding and the lane-interleaved corpus of src/workload.c. *)
(*                                                                         *)
(* An octet <<n>> is the number n; an octet <<w, x>> is byte x, most       *)
(* significant first, of the digest word w.  A word is the sequence of its *)
(* octets, most significant first, or the digest word they all come from.  *)
(* Memory is a function from addresses, which begin at 0.                  *)
(***************************************************************************)
EXTENDS Integers, Sequences

CONSTANT StartIndex   \* index of the first message

ASSUME StartIndexAssumption == StartIndex \in Nat

WordsPerBlock == 16

\* ALGS: sizes are in bytes, of a digest, a word and the length field.
Algorithms ==
  { [name |-> "md5",    words |-> 4, wordBytes |-> 4, lengthBytes |-> 8,  big |-> FALSE],
    [name |-> "sha1",   words |-> 5, wordBytes |-> 4, lengthBytes |-> 8,  big |-> TRUE],
    [name |-> "sha512", words |-> 8, wordBytes |-> 8, lengthBytes |-> 16, big |-> TRUE] }

BlockBytes(a)  == WordsPerBlock * a.wordBytes
DigestBytes(a) == a.words * a.wordBytes

\* Room for the terminator and the length field, rounded up to whole blocks.
BlocksFor(a, bytes) == (bytes + a.lengthBytes + BlockBytes(a)) \div BlockBytes(a)

\* No index or length has more than four octets.
OctetOf(n, power) == <<IF power > 3 THEN 0 ELSE (n \div 256 ^ power) % 256>>

-----------------------------------------------------------------------------
\* The index, least significant byte first, then a fixed pattern.
BuildMessage(m, bytes) ==
  [p \in 0 .. bytes - 1 |-> IF p < 4 THEN OctetOf(StartIndex + m, p)
                            ELSE <<(p * 157 + 59) % 256>>]

\* The octets of the index tell n messages in a row apart: n is at most 256 to
\* the number of them, which is 2^32 for every message of four bytes or more.
AllDistinct(n, bytes) ==
  LET octets == IF bytes < 4 THEN bytes ELSE 4
  IN  (n - 1) \div 256 ^ (octets - 1) < 256

\* A 64-bit count of bits, in the byte order of the algorithm.
LengthOctet(a, bytes, p) == OctetOf(8 * bytes, IF a.big THEN 7 - p ELSE p)

\* The message, its terminator, zeros, and its length in the last eight bytes;
\* no little-endian algorithm has a longer length field.
PadMessage(a, msg, bytes) ==
  LET total == BlocksFor(a, bytes) * BlockBytes(a)
  IN  [p \in 0 .. total - 1 |->
         IF p >= total - 8 THEN LengthOctet(a, bytes, p - total + 8)
         ELSE IF p < bytes THEN msg[p]
         ELSE IF p = bytes THEN <<128>> ELSE <<0>>]

\* Octets that are a digest word's, in their order, are that word.
Collapse(octets) ==
  IF Len(octets[1]) = 2 /\ \A x \in DOMAIN octets : octets[x] = <<octets[1][1], x>>
  THEN octets[1][1] ELSE octets

LoadWord(a, memory, from) ==
  Collapse([x \in 1 .. a.wordBytes |->
              memory[from + (IF a.big THEN x - 1 ELSE a.wordBytes - x)]])

-----------------------------------------------------------------------------

\* The lanes' copies of a word follow one another.
Address(lanes, blocks, m, b, j) ==
  (((m \div lanes) * blocks + b) * WordsPerBlock + j) * lanes + (m % lanes)

\* The corpus of n messages; lanes divides n.
CorpusBuild(a, lanes, n, bytes) ==
  LET blocks == BlocksFor(a, bytes)
      padded == [m \in 0 .. n - 1 |-> PadMessage(a, BuildMessage(m, bytes), bytes)]
      places == (0 .. n - 1) \X (0 .. blocks - 1) \X (0 .. WordsPerBlock - 1)
  IN  [at \in 0 .. n * blocks * WordsPerBlock - 1 |->
         LET w == CHOOSE q \in places : Address(lanes, blocks, q[1], q[2], q[3]) = at
         IN  LoadWord(a, padded[w[1]], w[2] * BlockBytes(a) + w[3] * a.wordBytes)]

=============================================================================
