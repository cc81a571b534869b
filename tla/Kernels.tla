-------------------------------- MODULE Kernels --------------------------------
(***************************************************************************)
(* The two ways a message is hashed: the reference of src/reference, which *)
(* pads each message itself, and the CPU kernels of src/kernels/cpu, which *)
(* read blocks padded in advance from an interleaved corpus, several       *)
(* streams of several lanes at a time, and keep the words the digest is    *)
(* fed back into in registers.                                             *)
(*                                                                         *)
(* A compression function is not interpreted: a hash state is the sequence *)
(* of the blocks compressed into it, and <<h, j>> is word j of state h.  Two *)
(* states are the same here only if they are for every function.  The      *)
(* compression functions have known-answer tests.                          *)
(***************************************************************************)
EXTENDS Corpus, FiniteSets

CONSTANTS Sizes,      \* numbers of messages in a corpus
          LaneCounts, \* lanes of a kernel
          Streams,    \* streams of a kernel
          Ladder      \* iteration counts

ASSUME SizesAssumption  == Sizes \subseteq Nat \ {0}
ASSUME ShapesAssumption == LaneCounts \cup Streams \subseteq Nat \ {0}
ASSUME LadderAssumption == Ladder \subseteq Nat \ {0} /\ 1 \in Ladder

Compress(h, block) == Append(h, block)
DigestWords(a, h) == [j \in 1 .. a.words |-> <<h, j>>]

BlockOf(a, memory, from) ==
  [j \in 1 .. WordsPerBlock |-> LoadWord(a, memory, from + (j - 1) * a.wordBytes)]

-----------------------------------------------------------------------------
(* The reference. *)

\* md5_update on an empty buffer: the state after the whole blocks.
Update(a, msg, bytes) ==
  [b \in 1 .. bytes \div BlockBytes(a) |-> BlockOf(a, msg, (b - 1) * BlockBytes(a))]

\* The buffer a final() has left over, closed with the terminator and the bytes
\* of the length; if those no longer fit, it takes a block more.
Final(a, h, msg, bytes, length) ==
  LET block == BlockBytes(a)
      reserve == Cardinality(DOMAIN length)
      rest  == bytes % block
      spill == rest + 1 > block - reserve
      total == IF spill THEN 2 * block ELSE block
      buf   == [p \in 0 .. total - 1 |->
                  IF p < rest THEN msg[bytes - rest + p]
                  ELSE IF p = rest THEN <<128>>
                  ELSE IF p < total - reserve THEN <<0>>
                  ELSE length[p - total + reserve]]
      closed == Compress(h, BlockOf(a, buf, 0))
  IN  IF spill THEN Compress(closed, BlockOf(a, buf, block)) ELSE closed

Md5Final(a, h, msg, bytes) ==
  Final(a, h, msg, bytes, [p \in 0 .. 7 |-> OctetOf(8 * bytes, p)])

Sha1Final(a, h, msg, bytes) ==
  Final(a, h, msg, bytes, [p \in 0 .. 7 |-> OctetOf(8 * bytes, 7 - p)])

\* The high half of the length is zero.
Sha512Final(a, h, msg, bytes) ==
  Final(a, h, msg, bytes,
        [p \in 0 .. 15 |-> IF p < 8 THEN <<0>> ELSE OctetOf(8 * bytes, 15 - p)])

\* alg->hash, as the bytes the digest is stored as.
Hash(a, msg, bytes) ==
  LET h == Update(a, msg, bytes)
      digest == CASE a.name = "md5"    -> Md5Final(a, h, msg, bytes)
                  [] a.name = "sha1"   -> Sha1Final(a, h, msg, bytes)
                  [] a.name = "sha512" -> Sha512Final(a, h, msg, bytes)
  IN  [p \in 0 .. DigestBytes(a) - 1 |->
         LET x == p % a.wordBytes
         IN  << <<digest, p \div a.wordBytes + 1>>, IF a.big THEN x + 1 ELSE a.wordBytes - x >>]

\* The chain of vb_reference_checksums: each digest is written over the head of
\* the message, and the one the ladder asks for is read back in words.
RefDigest(a, m, bytes, iterations) ==
  LET msg[it \in 1 .. iterations] ==
        IF it = 1 THEN BuildMessage(m, bytes)
        ELSE LET hashed == msg[it - 1]
                 digest == Hash(a, hashed, bytes)
             IN  [p \in 0 .. bytes - 1 |-> IF p < DigestBytes(a) THEN digest[p]
                                           ELSE hashed[p]]
      last == Hash(a, msg[iterations], bytes)
  IN  [j \in 1 .. a.words |-> LoadWord(a, last, (j - 1) * a.wordBytes)]

-----------------------------------------------------------------------------
(* The kernels.  c is a corpus with its shape; a message is a lane of a slot.
   Fed_Unbraced is a slip an edit of the code could make. *)

Load(c, slot, b, j, lane) ==
  c.memory[((slot * c.blocks + b) * WordsPerBlock + j) * c.lanes + lane]

\* The finished digest takes the place of the leading words.
Feedback(a, h, fb) == DigestWords(a, h)

\* Words 0..3 of MD5 live in registers, which a later block takes from the
\* corpus too.
Md5Block(c, slot, lane, b, wv) ==
  [j \in 1 .. WordsPerBlock |-> IF b = 0 /\ j <= 4 THEN wv[j]
                                ELSE Load(c, slot, b, j - 1, lane)]

\* An `if` without braces round an expanded loop guards only its first word.
Fed_Unbraced(b, j, words) == j <= words /\ (b = 0 \/ j > 1)

Fed(b, j, words) == b = 0 /\ j <= words

\* The digest is laid over the head of block 0 in the schedule window.
ShaBlock(c, slot, lane, b, fb) ==
  [j \in 1 .. WordsPerBlock |-> IF Fed(b, j, c.alg.words) THEN fb[j]
                                ELSE Load(c, slot, b, j - 1, lane)]

\* One iteration over the blocks of a lane, given what was fed back.
Md5Pass(c, slot, lane, wv) == [b \in 1 .. c.blocks |-> Md5Block(c, slot, lane, b - 1, wv)]
Sha1Pass(c, slot, lane, fb) == [b \in 1 .. c.blocks |-> ShaBlock(c, slot, lane, b - 1, fb)]
Sha512Pass(c, slot, lane, fb) == [b \in 1 .. c.blocks |-> ShaBlock(c, slot, lane, b - 1, fb)]

Pass(c, slot, lane, fb) ==
  CASE c.alg.name = "md5"    -> Md5Pass(c, slot, lane, fb)
    [] c.alg.name = "sha1"   -> Sha1Pass(c, slot, lane, fb)
    [] c.alg.name = "sha512" -> Sha512Pass(c, slot, lane, fb)

\* The digest of one lane after all iterations.
LaneDigest(c, slot, lane, iterations) ==
  LET fed[it \in 1 .. iterations] ==
        IF it = 1 THEN [j \in 1 .. c.alg.words |-> Load(c, slot, 0, j - 1, lane)]
        ELSE LET fb == fed[it - 1] IN Feedback(c.alg, Pass(c, slot, lane, fb), fb)
  IN  DigestWords(c.alg, Pass(c, slot, lane, fed[iterations]))

\* What XOR leaves of a family of digests.
Odd(f) == {d \in {f[x] : x \in DOMAIN f} : Cardinality({x \in DOMAIN f : f[x] = d}) % 2 = 1}

\* A group is as many slots as there are streams; the lanes are folded last.
Kernel(c, streams, groups, iterations) ==
  Odd([x \in (0 .. groups - 1) \X (0 .. streams - 1) \X (0 .. c.lanes - 1) |->
         LaneDigest(c, x[1] * streams + x[2], x[3], iterations)])

=============================================================================
