---------------------------- MODULE ReferenceProofs ----------------------------
(***************************************************************************)
(* The reference and the kernels it judges, for every range of messages,   *)
(* number of threads, algorithm, length, shape and number of iterations.   *)
(*                                                                         *)
(* First the slices of vb_reference_checksums_mt: they tile the range, and *)
(* the XOR of what was hashed is the checksum of the range.  Then what is  *)
(* hashed: both ways of padding cut a message into the same blocks; the    *)
(* corpus has one place for every word; from one iteration to the next the *)
(* words a kernel holds are those of the message of the reference; so a    *)
(* lane and its message have the same digest.  Last, no two messages of a  *)
(* range share a digest and every message is one lane of one kernel, so    *)
(* that the two checksums hold the same messages.                          *)
(***************************************************************************)
EXTENDS Verification, FiniteSetTheorems, NaturalsInduction, TLAPS

\* Where slice k begins if c messages are cut into t slices, and what it holds.
Start(c, t, k) == k * (c \div t) + (IF k < c % t THEN k ELSE c % t)
Share(c, t, k) == c \div t + (IF k < c % t THEN 1 ELSE 0)

(* What division leaves. *)
LEMMA Division ==
  ASSUME NEW c \in Nat, NEW t \in Nat \ {0}
  PROVE  /\ c \div t \in Nat /\ c % t \in Nat
         /\ c % t < t
         /\ c = t * (c \div t) + (c % t)
  OBVIOUS

(* Every slice begins where the one before it ends. *)
LEMMA StartNext ==
  ASSUME NEW c \in Nat, NEW t \in Nat \ {0}, NEW k \in Nat
  PROVE  /\ Start(c, t, k) \in Nat /\ Share(c, t, k) \in Nat
         /\ Start(c, t, k + 1) = Start(c, t, k) + Share(c, t, k)
<1> DEFINE b == c \div t
           e == c % t
<1>1. b \in Nat /\ e \in Nat
  BY Division
<1> HIDE DEF b, e
<1>2. k * b \in Nat /\ (k + 1) * b = k * b + b
  BY <1>1
<1>3. (k * b + (IF k < e THEN k ELSE e)) + (b + (IF k < e THEN 1 ELSE 0))
        = (k * b + b) + (IF k + 1 < e THEN k + 1 ELSE e)
  BY <1>1, <1>2
<1>4. /\ Start(c, t, k) = k * b + (IF k < e THEN k ELSE e)
      /\ Start(c, t, k + 1) = (k + 1) * b + (IF k + 1 < e THEN k + 1 ELSE e)
      /\ Share(c, t, k) = b + (IF k < e THEN 1 ELSE 0)
  BY Zenon DEF Start, Share, b, e
<1> QED
  BY <1>1, <1>2, <1>3, <1>4

(* The first slice begins at the beginning of the range, the last one ends at
   its end, and all lie in it. *)
LEMMA StartEnds ==
  ASSUME NEW c \in Nat, NEW t \in Nat \ {0}
  PROVE  /\ Start(c, t, 0) = 0 /\ Start(c, t, t) = c
         /\ \A k \in 0 .. t : Start(c, t, k) \in 0 .. c
<1> DEFINE b == c \div t
           e == c % t
<1>1. b \in Nat /\ e \in Nat /\ e < t /\ c = t * b + e
  BY Division
<1> HIDE DEF b, e
<1>2. 0 * b = 0
  BY <1>1
<1>3. Start(c, t, 0) = 0
  BY <1>1, <1>2 DEF Start, b, e
<1>4. Start(c, t, t) = c
  BY <1>1 DEF Start, b, e
<1>5. ASSUME NEW k \in 0 .. t
      PROVE  Start(c, t, k) \in 0 .. c
  <2>1. k * b \in Nat /\ (t - k) * b \in Nat /\ t * b = k * b + (t - k) * b
    BY <1>1
  <2>2. k * b + (IF k < e THEN k ELSE e) \in 0 .. c
    BY <1>1, <2>1
  <2> QED
    BY <2>2 DEF Start, b, e
<1> QED
  BY <1>3, <1>4, <1>5

-----------------------------------------------------------------------------

\* Slice k has been planned.
Begun(k) == (pc = "start" /\ k < i) \/ pc \in {"own", "join"}

(* What holds of the slices: those planned lie one after another, a thread that
   runs has one, and once the second loop has passed a slice its thread is
   gone. *)
Tiling ==
  /\ TypeOK
  /\ pc = "begin" => i = 0 /\ off = 0 /\ started = {} /\ out = {}
  /\ pc \in {"start", "own", "join"} => threads >= 2
  /\ pc \in {"start", "join"} => i < threads
  /\ pc = "start" => off = Start(count, threads, i)
  /\ \A k \in Slice : Begun(k) => /\ first[k] = Start(count, threads, k)
                                  /\ size[k] = Share(count, threads, k)
  /\ \A k \in started : pc = "start" => k < i
  /\ \A k \in running : pc = "join" => k >= i
  /\ pc = "returned" => running = {}

(* A planned slice lies in the range. *)
LEMMA SliceInRange ==
  ASSUME Tiling, NEW k \in Slice, Begun(k)
  PROVE  /\ first[k] .. first[k] + size[k] - 1 \subseteq Message
         /\ first[k] = Start(count, threads, k)
         /\ first[k] + size[k] = Start(count, threads, k + 1)
         /\ first[k] \in Nat /\ size[k] \in Nat
<1>1. count \in Nat /\ threads \in Nat \ {0} /\ k \in Nat /\ k + 1 \in 0 .. threads
  BY CountsAssumption, ThreadCountsAssumption DEF Tiling, TypeOK, Slice
<1>2. first[k] = Start(count, threads, k) /\ size[k] = Share(count, threads, k)
  BY DEF Tiling
<1>3. /\ Start(count, threads, k) \in Nat /\ Share(count, threads, k) \in Nat
      /\ Start(count, threads, k + 1) = Start(count, threads, k) + Share(count, threads, k)
  BY <1>1, StartNext
<1>4. Start(count, threads, k + 1) \in 0 .. count
  BY <1>1, StartEnds
<1> QED
  BY <1>1, <1>2, <1>3, <1>4 DEF Message

(* The invariant holds at first. *)
LEMMA TilingInit == Init => Tiling
<1> SUFFICES ASSUME Init
             PROVE  Tiling
  OBVIOUS
<1>1. count \in Nat /\ threads \in Nat
  BY CountsAssumption, ThreadCountsAssumption DEF Init
<1>2. TypeOK
  BY <1>1 DEF Init, TypeOK, Slice
<1> QED
  BY <1>2 DEF Init, Tiling, Begun

(* Every step preserves it. *)
LEMMA TilingNext == Tiling /\ [Next]_vars => Tiling'
<1> SUFFICES ASSUME Tiling, [Next]_vars
             PROVE  Tiling'
  OBVIOUS
<1>1. /\ count \in Nat /\ threads \in Nat /\ i \in Nat /\ off \in Nat
      /\ pc \in {"start", "own", "join"} => threads \in Nat \ {0}
  BY CountsAssumption, ThreadCountsAssumption DEF Tiling, TypeOK
<1> USE <1>1
<1>2. \A lost \in Lost : lost \in BOOLEAN
  BY DEF Lost
<1>3. ASSUME NEW lost \in Lost, Alone(lost)
      PROVE  Tiling'
  <2>1. Checksum(0, count, lost) \subseteq Message
    BY DEF Checksum, Message
  <2> QED
    BY <1>3, <2>1 DEF Alone, Tiling, TypeOK, Begun, Slice, Message, cfgVars, sliceVars
<1>4. ASSUME Split
      PROVE  Tiling'
  <2>1. Start(count, threads, 0) = 0
    BY <1>4, StartEnds DEF Split
  <2> QED
    BY <1>4, <2>1 DEF Split, Tiling, TypeOK, Begun, Slice, Message, cfgVars, sliceVars
<1>5. ASSUME NEW created \in BOOLEAN, PlanSlice(created)
      PROVE  Tiling'
  <2>1. i \in Slice /\ ShareOf(i) = Share(count, threads, i)
    BY <1>5 DEF PlanSlice, Tiling, Slice, ShareOf, Share
  <2>2. /\ off = Start(count, threads, i)
        /\ Start(count, threads, i) \in 0 .. count
        /\ Share(count, threads, i) \in Nat
        /\ Start(count, threads, i + 1) = Start(count, threads, i) + Share(count, threads, i)
        /\ Start(count, threads, i + 1) \in 0 .. count
    BY <1>5, <2>1, StartNext, StartEnds DEF PlanSlice, Tiling, Slice
  <2>3. Share(count, threads, i) \in 0 .. count
    BY <2>2
  <2>4. TypeOK'
    <3>1. /\ first' \in [Slice -> 0 .. count] /\ size' \in [Slice -> 0 .. count]
          /\ off' \in 0 .. count /\ i' \in 0 .. threads
      <4>1. /\ first \in [Slice -> 0 .. count] /\ size \in [Slice -> 0 .. count]
            /\ first' = [first EXCEPT ![i] = off] /\ size' = [size EXCEPT ![i] = ShareOf(i)]
            /\ off' = off + ShareOf(i) /\ i' = i + 1
        BY <1>5 DEF PlanSlice, Tiling, TypeOK
      <4>2. off \in 0 .. count /\ ShareOf(i) \in 0 .. count
        BY <2>1, <2>2, <2>3
      <4>3. first' \in [Slice -> 0 .. count] /\ size' \in [Slice -> 0 .. count]
        BY <4>1, <4>2, Zenon
      <4>4. off' \in 0 .. count
        BY <2>1, <2>2, <4>1
      <4>5. i' \in 0 .. threads
        BY <2>1, <4>1 DEF Slice
      <4> QED
        BY <4>3, <4>4, <4>5
    <3>2. started' \subseteq Slice \ {0} /\ running' \subseteq started'
      BY <1>5, <2>1 DEF PlanSlice, Tiling, TypeOK, Slice
    <3> QED
      BY <1>5, <3>1, <3>2, SMTT(60) DEF PlanSlice, Tiling, TypeOK, Slice, Message, cfgVars
  <2>5. \A k \in Slice' : Begun(k)' => /\ first'[k] = Start(count, threads, k)
                                      /\ size'[k] = Share(count, threads, k)
    <3> SUFFICES ASSUME NEW k \in Slice, Begun(k)'
                 PROVE  /\ first'[k] = Start(count, threads, k)
                        /\ size'[k] = Share(count, threads, k)
      BY <1>5 DEF PlanSlice, Slice, cfgVars
    <3>1. k \in Nat /\ k < i + 1
      BY <1>5 DEF PlanSlice, Begun, Slice
    <3>2. CASE k = i
      BY <1>5, <2>1, <2>2, <3>2 DEF PlanSlice, Tiling, TypeOK
    <3>3. CASE k # i
      <4>1. Begun(k)
        BY <1>5, <3>1, <3>3 DEF PlanSlice, Begun
      <4> QED
        BY <1>5, <3>3, <4>1 DEF PlanSlice, Tiling, TypeOK
    <3> QED
      BY <3>2, <3>3
  <2>6. \A k \in started' : pc' = "start" => k < i'
    BY <1>5 DEF PlanSlice, Tiling, TypeOK, Slice
  <2>7. pc' \in {"start", "own"} /\ threads' = threads /\ threads >= 2 /\ count' = count
    BY <1>5 DEF PlanSlice, Tiling, cfgVars
  <2>8. pc' = "start" => i' < threads' /\ off' = Start(count', threads', i')
    BY <1>5, <2>1, <2>2 DEF PlanSlice, Tiling, Slice, cfgVars
  <2> QED
    BY <2>4, <2>5, <2>6, <2>7, <2>8 DEF Tiling
<1>6. ASSUME NEW lost \in Lost, OwnSlice(lost)
      PROVE  Tiling'
  <2>1. 0 \in Slice /\ Begun(0)
    BY <1>6 DEF OwnSlice, Tiling, Slice, Begun
  <2>2. Checksum(first[0], size[0], lost) \subseteq Message
    BY <2>1, SliceInRange DEF Checksum
  <2>3. TypeOK'
    BY <1>6, <2>2 DEF OwnSlice, Tiling, TypeOK, Slice, Message, cfgVars, sliceVars
  <2> QED
    BY <1>6, <2>3 DEF OwnSlice, Tiling, TypeOK, Begun, Slice, cfgVars, sliceVars
<1>7. ASSUME NEW joinFails \in BOOLEAN, NEW lost \in Lost, Fold(joinFails, lost)
      PROVE  Tiling'
  <2>1. i \in Slice /\ Begun(i)
    BY <1>7 DEF Fold, Tiling, Slice, Begun
  <2>2. Checksum(first[i], size[i], lost) \subseteq Message
    BY <2>1, SliceInRange DEF Checksum
  <2>3. part' \in [Slice -> SUBSET Message] /\ out' \subseteq Message
    BY <1>7, <2>1, <2>2 DEF Fold, Tiling, TypeOK, Xor
  <2>4. TypeOK'
    BY <1>7, <2>1, <2>3 DEF Fold, Tiling, TypeOK, Slice, Message, cfgVars, sliceVars
  <2>5. i \notin running
    BY <1>7 DEF Fold, Awaited, Tiling, TypeOK
  <2>6. \A k \in running : k \in Nat /\ k < threads /\ k >= i + 1
    BY <1>7, <2>5 DEF Fold, Tiling, TypeOK, Slice
  <2>7. /\ pc = "join" /\ threads >= 2 /\ i < threads
        /\ \A k \in Slice : first[k] = Start(count, threads, k) /\ size[k] = Share(count, threads, k)
    BY <1>7 DEF Fold, Tiling, Begun
  <2>8. /\ i' = i + 1 /\ pc' = IF i + 1 = threads THEN "returned" ELSE "join"
        /\ running' = running /\ threads' = threads /\ count' = count
        /\ first' = first /\ size' = size /\ Slice' = Slice
    BY <1>7 DEF Fold, Slice, cfgVars, sliceVars
  <2>9. pc' = "join" => i' < threads' /\ \A k \in running' : k >= i'
    BY <2>1, <2>6, <2>7, <2>8 DEF Slice
  <2>10. pc' = "returned" => running' = {}
    <3> SUFFICES ASSUME pc' = "returned", NEW k \in running PROVE FALSE
      BY <2>8
    <3> QED
      BY <2>1, <2>6, <2>8 DEF Slice
  <2> QED
    BY <2>4, <2>7, <2>8, <2>9, <2>10 DEF Tiling
<1>8. ASSUME NEW w \in Slice, NEW lost \in Lost, RefSliceMain(w, lost)
      PROVE  Tiling'
  <2>1. Begun(w)
    BY <1>8 DEF RefSliceMain, Tiling, TypeOK, Begun
  <2>2. Checksum(first[w], size[w], lost) \subseteq Message
    BY <2>1, SliceInRange DEF Checksum
  <2>3. TypeOK'
    BY <1>8, <2>2 DEF RefSliceMain, Tiling, TypeOK, Slice, Message, cfgVars, sliceVars
  <2> QED
    BY <1>8, <2>3 DEF RefSliceMain, Tiling, Begun, Slice, cfgVars, sliceVars
<1>9. CASE UNCHANGED vars
  BY <1>9 DEF vars, Tiling, TypeOK, Begun, Slice, Message, cfgVars, sliceVars
<1> QED
  BY <1>3, <1>4, <1>5, <1>6, <1>7, <1>8, <1>9 DEF Next, Caller, Thread

(* The types and ranges hold always; in particular no slice reaches past the
   range of messages. *)
THEOREM ReferenceTypeOK == Spec => []TypeOK
<1>1. Tiling => TypeOK
  BY DEF Tiling
<1> QED
  BY <1>1, TilingInit, TilingNext, PTL DEF Spec

(* When vb_reference_checksums_mt frees the slices, no thread is left that
   could still write to one. *)
THEOREM ReferenceNoThreadOutlives == Spec => []NoThreadOutlives
<1>1. Tiling => NoThreadOutlives
  BY DEF Tiling, NoThreadOutlives
<1> QED
  BY <1>1, TilingInit, TilingNext, PTL DEF Spec

-----------------------------------------------------------------------------

Hashed(k) == first[k] .. first[k] + size[k] - 1

(* What the checksums hold if the buffers are there: that of a thread that is
   done all its slice, and the sum the slices folded so far. *)
Sums ==
  /\ pc \in {"start", "own"} => out = {}
  /\ \A k \in started \ running : part[k] = Hashed(k)
  /\ pc = "join" => part[0] = Hashed(0) /\ out = 0 .. Start(count, threads, i) - 1
  /\ pc = "returned" => out = Message

(* Two adjacent intervals XOR to one. *)
LEMMA Adjacent ==
  ASSUME NEW a \in Nat, NEW b \in Nat
  PROVE  Xor(0 .. a - 1, a .. a + b - 1) = 0 .. a + b - 1
  BY DEF Xor

(* Every step preserves what the checksums hold, if no message buffer is refused. *)
LEMMA SumsNext ==
  ASSUME MallocFails = FALSE, Tiling, Sums, [Next]_vars
  PROVE  Sums'
<1>1. /\ count \in Nat /\ threads \in Nat /\ i \in Nat /\ off \in Nat
      /\ pc \in {"start", "own", "join"} => threads \in Nat \ {0}
  BY CountsAssumption, ThreadCountsAssumption DEF Tiling, TypeOK
<1> USE <1>1
<1>2. Lost = {FALSE}
  BY DEF Lost
<1>3. ASSUME Alone(FALSE)
      PROVE  Sums'
  <2>1. out' = Message
    BY <1>3 DEF Alone, Checksum, Message
  <2> QED
    BY <1>3, <2>1 DEF Alone, Sums, Tiling, Hashed, Message, cfgVars, sliceVars
<1>4. ASSUME Split
      PROVE  Sums'
  BY <1>4 DEF Split, Sums, Tiling, Hashed, Message, cfgVars, sliceVars
<1>5. ASSUME NEW created \in BOOLEAN, PlanSlice(created)
      PROVE  Sums'
  <2>1. \A k \in started' \ running' : k \in started \ running /\ k # i /\ k \in Slice
    BY <1>5 DEF PlanSlice, Tiling, TypeOK, Slice
  <2>2. \A k \in started' \ running' : part'[k] = Hashed(k)'
    BY <1>5, <2>1 DEF PlanSlice, Sums, Tiling, TypeOK, Hashed
  <2> QED
    BY <1>5, <2>2 DEF PlanSlice, Sums
<1>6. ASSUME OwnSlice(FALSE)
      PROVE  Sums'
  <2>1. 0 \in Slice /\ 0 \notin started
    BY <1>6 DEF OwnSlice, Tiling, TypeOK, Slice
  <2>2. part' = [part EXCEPT ![0] = Hashed(0)] /\ part \in [Slice -> SUBSET Message]
    BY <1>6 DEF OwnSlice, Checksum, Hashed, Tiling, TypeOK
  <2>3. Start(count, threads, 0) = 0
    BY <1>6, StartEnds DEF OwnSlice
  <2>4. out' = {} /\ 0 .. 0 - 1 = {}
    BY <1>6 DEF OwnSlice, Sums
  <2> QED
    BY <1>6, <2>1, <2>2, <2>3, <2>4
    DEF OwnSlice, Sums, Tiling, TypeOK, Hashed, cfgVars, sliceVars
<1>7. ASSUME NEW joinFails \in BOOLEAN, Fold(joinFails, FALSE)
      PROVE  Sums'
  <2>1. i \in Slice /\ Begun(i)
    BY <1>7 DEF Fold, Tiling, Slice, Begun
  <2>2. part'[i] = Hashed(i)
    <3>1. i \notin running
      BY <1>7 DEF Fold, Awaited, Tiling, TypeOK
    <3>2. i = 0 \/ i \in started \/ Missing(i)
      BY DEF Missing
    <3> QED
      BY <1>7, <2>1, <3>1, <3>2 DEF Fold, Missing, Checksum, Hashed, Sums, Tiling, TypeOK
  <2>3. \A k \in Slice : k # i => part'[k] = part[k]
    BY <1>7, <2>1 DEF Fold, Tiling, TypeOK
  <2>4. /\ Hashed(i) = Start(count, threads, i) .. Start(count, threads, i) + size[i] - 1
        /\ Start(count, threads, i + 1) = Start(count, threads, i) + size[i]
        /\ Start(count, threads, i) \in Nat /\ size[i] \in Nat
    BY <2>1, SliceInRange DEF Hashed
  <2>5. out' = 0 .. Start(count, threads, i + 1) - 1
    <3> DEFINE a == Start(count, threads, i)
    <3>1. out' = Xor(out, part'[i]) /\ out = 0 .. a - 1
      BY <1>7 DEF Fold, Sums
    <3>2. part'[i] = a .. a + size[i] - 1
      BY <2>2, <2>4
    <3>3. out' = 0 .. a + size[i] - 1
      BY <2>4, <3>1, <3>2, Adjacent
    <3> QED
      BY <2>4, <3>3
  <2>6. i + 1 = threads => out' = Message
    BY <1>7, <2>5, StartEnds DEF Fold, Message
  <2>7. \A k \in started \ running : part'[k] = Hashed(k)
    BY <2>2, <2>3 DEF Sums, Tiling, TypeOK
  <2>8. part'[0] = Hashed(0)
    <3>1. 0 \in Slice /\ part[0] = Hashed(0)
      BY <1>7 DEF Fold, Sums, Slice
    <3> QED
      BY <2>2, <2>3, <3>1
  <2> QED
    BY <1>7, <2>5, <2>6, <2>7, <2>8 DEF Fold, Sums, Hashed, Message, cfgVars, sliceVars
<1>8. ASSUME NEW w \in Slice, RefSliceMain(w, FALSE)
      PROVE  Sums'
  <2>1. part' = [part EXCEPT ![w] = Hashed(w)] /\ part \in [Slice -> SUBSET Message]
    BY <1>8 DEF RefSliceMain, Checksum, Hashed, Tiling, TypeOK
  <2>2. w # 0 /\ w \in started
    BY <1>8 DEF RefSliceMain, Tiling, TypeOK
  <2>3. \A k \in started \ running' : part'[k] = Hashed(k)
    BY <1>8, <2>1 DEF RefSliceMain, Sums, Tiling, TypeOK
  <2>4. pc = "join" => 0 \in Slice /\ part'[0] = part[0]
    BY <2>1, <2>2 DEF Tiling, Slice
  <2> QED
    BY <1>8, <2>3, <2>4 DEF RefSliceMain, Sums, Hashed, Message, cfgVars, sliceVars
<1>9. CASE UNCHANGED vars
  BY <1>9 DEF vars, Sums, Hashed, Message, cfgVars, sliceVars
<1> QED
  BY <1>2, <1>3, <1>4, <1>5, <1>6, <1>7, <1>8, <1>9 DEF Next, Caller, Thread

(* As long as no slice is denied its message buffer, the reference holds every
   message of the range exactly once: for every range and number of threads,
   and whichever of the allocations, creations and joins of
   vb_reference_checksums_mt fail. *)
THEOREM ReferenceIsExact == MallocFails = FALSE /\ Spec => []ReferenceExact
<1> SUFFICES ASSUME MallocFails = FALSE
             PROVE  Spec => []ReferenceExact
  OBVIOUS
<1>1. Init => Tiling /\ Sums
  BY TilingInit DEF Init, Sums
<1>2. Tiling /\ Sums /\ [Next]_vars => (Tiling /\ Sums)'
  BY TilingNext, SumsNext
<1>3. Tiling /\ Sums => ReferenceExact
  BY DEF Sums, ReferenceExact
<1> QED
  BY <1>1, <1>2, <1>3, PTL DEF Spec

-----------------------------------------------------------------------------
(* A message, its padding and its blocks. *)

(* The three descriptors. *)
LEMMA AlgorithmIs ==
  ASSUME NEW a \in Algorithms
  PROVE  /\ a.wordBytes \in {4, 8} /\ a.words \in {4, 5, 8} /\ a.lengthBytes \in {8, 16}
         /\ a.name \in {"md5", "sha1", "sha512"} /\ a.big \in BOOLEAN
         /\ a.name = "md5" => a.words = 4 /\ ~a.big
         /\ a.name # "md5" => a.big
         /\ a.lengthBytes = IF a.name = "sha512" THEN 16 ELSE 8
         /\ BlockBytes(a) \in {64, 128} /\ BlockBytes(a) = 16 * a.wordBytes
         /\ DigestBytes(a) \in Nat /\ DigestBytes(a) = a.words * a.wordBytes
         /\ DigestBytes(a) <= BlockBytes(a)
         /\ a.wordBytes < BlockBytes(a)
<1>1. CASE a = [name |-> "md5", words |-> 4, wordBytes |-> 4, lengthBytes |-> 8, big |-> FALSE]
  BY <1>1 DEF BlockBytes, DigestBytes, WordsPerBlock
<1>2. CASE a = [name |-> "sha1", words |-> 5, wordBytes |-> 4, lengthBytes |-> 8, big |-> TRUE]
  BY <1>2 DEF BlockBytes, DigestBytes, WordsPerBlock
<1>3. CASE a = [name |-> "sha512", words |-> 8, wordBytes |-> 8, lengthBytes |-> 16, big |-> TRUE]
  BY <1>3 DEF BlockBytes, DigestBytes, WordsPerBlock
<1> QED
  BY <1>1, <1>2, <1>3 DEF Algorithms

(* A block is sixteen words, all within its bytes. *)
LEMMA BlockOfSame ==
  ASSUME NEW a \in Algorithms, NEW f, NEW g, NEW from \in Nat, NEW to \in Nat,
         \A x \in 0 .. BlockBytes(a) - 1 : f[from + x] = g[to + x]
  PROVE  BlockOf(a, f, from) = BlockOf(a, g, to)
<1>1. ASSUME NEW j \in 1 .. 16
      PROVE  LoadWord(a, f, from + (j - 1) * a.wordBytes)
               = LoadWord(a, g, to + (j - 1) * a.wordBytes)
  <2> DEFINE At(m, base) == [x \in 1 .. a.wordBytes |->
                 m[base + (j - 1) * a.wordBytes
                     + (IF a.big THEN x - 1 ELSE a.wordBytes - x)]]
  <2>1. ASSUME NEW x \in 1 .. a.wordBytes
        PROVE  f[from + (j - 1) * a.wordBytes + (IF a.big THEN x - 1 ELSE a.wordBytes - x)]
                 = g[to + (j - 1) * a.wordBytes + (IF a.big THEN x - 1 ELSE a.wordBytes - x)]
    <3> DEFINE y == (j - 1) * a.wordBytes + (IF a.big THEN x - 1 ELSE a.wordBytes - x)
    <3>1. a.wordBytes \in {4, 8} /\ BlockBytes(a) = 16 * a.wordBytes
      BY AlgorithmIs
    <3>2. y \in 0 .. BlockBytes(a) - 1
      <4>1. CASE a.wordBytes = 4
        BY <3>1, <4>1
      <4>2. CASE a.wordBytes = 8
        BY <3>1, <4>2
      <4> QED
        BY <3>1, <4>1, <4>2
    <3>3. /\ from + y = from + (j - 1) * a.wordBytes
                          + (IF a.big THEN x - 1 ELSE a.wordBytes - x)
          /\ to + y = to + (j - 1) * a.wordBytes
                        + (IF a.big THEN x - 1 ELSE a.wordBytes - x)
      <4>1. CASE a.wordBytes = 4
        BY <3>1, <4>1
      <4>2. CASE a.wordBytes = 8
        BY <3>1, <4>2
      <4> QED
        BY <3>1, <4>1, <4>2
    <3>4. f[from + y] = g[to + y]
      BY <3>2
    <3> HIDE DEF y
    <3> QED
      BY <3>3, <3>4
  <2>2. At(f, from) = At(g, to)
    BY <2>1
  <2>3. /\ LoadWord(a, f, from + (j - 1) * a.wordBytes) = Collapse(At(f, from))
        /\ LoadWord(a, g, to + (j - 1) * a.wordBytes) = Collapse(At(g, to))
    BY DEF LoadWord
  <2> QED
    BY <2>2, <2>3
<1> QED
  BY <1>1 DEF BlockOf, WordsPerBlock

\* A state of n blocks and one more.
Joined(h, n, block) == [b \in 1 .. n + 1 |-> IF b <= n THEN h[b] ELSE block]

(* A state and a block more. *)
LEMMA CompressIs ==
  ASSUME NEW n \in Nat, NEW h, h = [b \in 1 .. n |-> h[b]], NEW block
  PROVE  Compress(h, block) = Joined(h, n, block)
<1> DEFINE S == {h[b] : b \in 1 .. n} \cup {block}
<1>1. h \in [1 .. n -> S]
  BY Zenon
<1>2. h \in Seq(S) /\ Len(h) = n /\ block \in S
  BY <1>1
<1> HIDE DEF S
<1>3. /\ Append(h, block) \in Seq(S)
      /\ Len(Append(h, block)) = n + 1
      /\ \A b \in 1 .. n : Append(h, block)[b] = h[b]
      /\ Append(h, block)[n + 1] = block
  BY <1>2
<1>4. Append(h, block) = [b \in 1 .. n + 1 |-> Append(h, block)[b]]
  BY <1>3
<1>5. \A b \in 1 .. n + 1 : Append(h, block)[b] = IF b <= n THEN h[b] ELSE block
  BY <1>3
<1> QED
  BY <1>4, <1>5, Zenon DEF Compress, Joined

\* What closes a message: the length in the last eight bytes of its field.
LengthField(a, bytes) ==
  [p \in 0 .. a.lengthBytes - 1 |->
     IF p < a.lengthBytes - 8 THEN <<0>> ELSE LengthOctet(a, bytes, p - a.lengthBytes + 8)]

\* The state alg->hash ends in, whatever the algorithm.
State(a, msg, bytes) == Final(a, Update(a, msg, bytes), msg, bytes, LengthField(a, bytes))

(* The three final() differ in no more than the field they close with. *)
LEMMA StateIs ==
  ASSUME NEW a \in Algorithms, NEW msg, NEW bytes \in Nat
  PROVE  State(a, msg, bytes)
           = CASE a.name = "md5"    -> Md5Final(a, Update(a, msg, bytes), msg, bytes)
               [] a.name = "sha1"   -> Sha1Final(a, Update(a, msg, bytes), msg, bytes)
               [] a.name = "sha512" -> Sha512Final(a, Update(a, msg, bytes), msg, bytes)
<1> DEFINE h == Update(a, msg, bytes)
<1>1. CASE a.name = "md5"
  <2>1. a.lengthBytes = 8 /\ ~a.big
    BY <1>1, AlgorithmIs
  <2>2. ASSUME NEW p \in 0 .. 7 PROVE LengthField(a, bytes)[p] = OctetOf(8 * bytes, p)
    <3>1. ~(p < 0) /\ p - 8 + 8 = p
      OBVIOUS
    <3> QED
      BY <2>1, <3>1 DEF LengthField, LengthOctet
  <2>3. LengthField(a, bytes) = [p \in 0 .. 7 |-> OctetOf(8 * bytes, p)]
    BY <2>1, <2>2 DEF LengthField
  <2>4. State(a, msg, bytes) = Md5Final(a, h, msg, bytes)
    BY <2>3, Zenon DEF State, Md5Final
  <2> QED
    BY <1>1, <2>4
<1>2. CASE a.name = "sha1"
  <2>1. a.lengthBytes = 8 /\ a.big
    BY <1>2, AlgorithmIs
  <2>2. ASSUME NEW p \in 0 .. 7 PROVE LengthField(a, bytes)[p] = OctetOf(8 * bytes, 7 - p)
    <3>1. ~(p < 0) /\ p - 8 + 8 = p
      OBVIOUS
    <3> QED
      BY <2>1, <3>1 DEF LengthField, LengthOctet
  <2>3. LengthField(a, bytes) = [p \in 0 .. 7 |-> OctetOf(8 * bytes, 7 - p)]
    BY <2>1, <2>2 DEF LengthField
  <2>4. State(a, msg, bytes) = Sha1Final(a, h, msg, bytes)
    BY <2>3, Zenon DEF State, Sha1Final
  <2> QED
    BY <1>2, <2>4
<1>3. CASE a.name = "sha512"
  <2>1. a.lengthBytes = 16 /\ a.big
    BY <1>3, AlgorithmIs
  <2>2. ASSUME NEW p \in 0 .. 15
        PROVE  LengthField(a, bytes)[p] = IF p < 8 THEN <<0>> ELSE OctetOf(8 * bytes, 15 - p)
    <3>1. 16 - 8 = 8 /\ 7 - (p - 16 + 8) = 15 - p
      OBVIOUS
    <3> QED
      BY <2>1, <3>1 DEF LengthField, LengthOctet
  <2>3. LengthField(a, bytes)
          = [p \in 0 .. 15 |-> IF p < 8 THEN <<0>> ELSE OctetOf(8 * bytes, 15 - p)]
    BY <2>1, <2>2 DEF LengthField
  <2>4. State(a, msg, bytes) = Sha512Final(a, h, msg, bytes)
    BY <2>3, Zenon DEF State, Sha512Final
  <2> QED
    BY <1>3, <2>4
<1> QED
  BY <1>1, <1>2, <1>3, AlgorithmIs

(* The digest is stored word after word of that state. *)
LEMMA HashIs ==
  ASSUME NEW a \in Algorithms, NEW msg, NEW bytes \in Nat
  PROVE  Hash(a, msg, bytes)
           = [p \in 0 .. DigestBytes(a) - 1 |->
                << <<State(a, msg, bytes), (p \div a.wordBytes) + 1>>,
                   IF a.big THEN (p % a.wordBytes) + 1 ELSE a.wordBytes - (p % a.wordBytes) >>]
<1> DEFINE h == Update(a, msg, bytes)
           digest == CASE a.name = "md5"    -> Md5Final(a, h, msg, bytes)
                       [] a.name = "sha1"   -> Sha1Final(a, h, msg, bytes)
                       [] a.name = "sha512" -> Sha512Final(a, h, msg, bytes)
<1>1. Hash(a, msg, bytes) = [p \in 0 .. DigestBytes(a) - 1 |->
         LET x == p % a.wordBytes
         IN  << <<digest, (p \div a.wordBytes) + 1>>, IF a.big THEN x + 1 ELSE a.wordBytes - x >>]
  BY Zenon DEF Hash
<1>2. digest = State(a, msg, bytes)
  BY StateIs, Zenon
<1> HIDE DEF digest
<1> QED
  BY <1>1, <1>2, Zenon

\* The blocks of a message that was padded in advance.
Padded(a, msg, bytes) ==
  [b \in 1 .. BlocksFor(a, bytes) |->
     BlockOf(a, PadMessage(a, msg, bytes), (b - 1) * BlockBytes(a))]

(* What the corpus holds of a message is what the reference makes of it as it
   goes: vb_pad_message, and the update() and final() of each algorithm, which
   share no code, cut a message of any length into the same blocks. *)
THEOREM PaddingAgrees ==
  ASSUME NEW a \in Algorithms, NEW msg, NEW bytes \in Nat
  PROVE  State(a, msg, bytes) = Padded(a, msg, bytes)
<1> DEFINE block == BlockBytes(a)
           reserve == a.lengthBytes
           n == bytes \div block
           q == n * block
           rest == bytes % block
           spill == rest + 1 > block - reserve
           total == IF spill THEN 2 * block ELSE block
           field == LengthField(a, bytes)
           buf == [p \in 0 .. total - 1 |->
                     IF p < rest THEN msg[bytes - rest + p]
                     ELSE IF p = rest THEN <<128>>
                     ELSE IF p < total - reserve THEN <<0>>
                     ELSE field[p - total + reserve]]
           h == Update(a, msg, bytes)
           closed == Compress(h, BlockOf(a, buf, 0))
           all == BlocksFor(a, bytes)
           T == all * block
           pad == PadMessage(a, msg, bytes)
           B(b) == BlockOf(a, pad, (b - 1) * block)
<1>1. block \in {64, 128} /\ reserve \in {8, 16}
  BY AlgorithmIs
<1>2. all = (bytes + reserve + block) \div block
  BY DEF BlocksFor
<1>3. Cardinality(DOMAIN field) = reserve
  <2>1. DOMAIN field = 0 .. reserve - 1
    BY DEF LengthField
  <2> HIDE DEF reserve, field
  <2>2. Cardinality(0 .. reserve - 1) = reserve
    BY <1>1, FS_Interval
  <2> QED
    BY <2>1, <2>2
<1>4. State(a, msg, bytes) = IF spill THEN Compress(closed, BlockOf(a, buf, block)) ELSE closed
  <2> HIDE DEF h, field
  <2>1. State(a, msg, bytes) = Final(a, h, msg, bytes, field)
    BY Zenon DEF State, h, field
  <2> QED
    BY <1>3, <2>1, Zenon DEF Final
<1>5. /\ DOMAIN pad = 0 .. T - 1
      /\ \A p \in 0 .. T - 1 :
           pad[p] = IF p >= T - 8 THEN LengthOctet(a, bytes, p - T + 8)
                    ELSE IF p < bytes THEN msg[p]
                    ELSE IF p = bytes THEN <<128>> ELSE <<0>>
  BY Zenon DEF PadMessage
<1>6. h = [b \in 1 .. n |-> BlockOf(a, msg, (b - 1) * block)]
  BY Zenon DEF Update
<1>7. \A x \in 0 .. reserve - 1 :
        field[x] = IF x < reserve - 8 THEN <<0>> ELSE LengthOctet(a, bytes, x - reserve + 8)
  BY Zenon DEF LengthField
<1>8. Padded(a, msg, bytes) = [b \in 1 .. all |-> B(b)]
  BY Zenon DEF Padded
<1>9. ASSUME NEW f, NEW g, NEW from \in Nat, NEW to \in Nat,
             \A x \in 0 .. block - 1 : f[from + x] = g[to + x]
      PROVE  BlockOf(a, f, from) = BlockOf(a, g, to)
  BY <1>9, BlockOfSame
<1> HIDE DEF block, reserve, field, pad, h
<1>10. /\ n \in Nat /\ rest \in 0 .. block - 1
       /\ bytes = q + rest /\ q \in Nat
       /\ (n + 1) * block = q + block
       /\ (n + 2) * block = q + 2 * block
       /\ all = IF spill THEN n + 2 ELSE n + 1
  <2> HIDE DEF all
  <2>1. /\ n \in Nat /\ rest \in 0 .. block - 1
        /\ bytes = n * block + rest
        /\ n * block \in Nat
        /\ (n + 1) * block = n * block + block
        /\ (n + 2) * block = n * block + 2 * block
        /\ (bytes + reserve + block) \div block
             = IF rest + 1 > block - reserve THEN n + 2 ELSE n + 1
    <3>1. CASE block = 64
      BY <1>1, <3>1
    <3>2. CASE block = 128
      BY <1>1, <3>2
    <3> QED
      BY <1>1, <3>1, <3>2
  <2> QED
    BY <1>2, <2>1, Zenon
<1>11. total \in {block, 2 * block} /\ total = (IF spill THEN 2 * block ELSE block)
       /\ (spill <=> rest + 1 > block - reserve)
  OBVIOUS
<1>12. T = q + total
  <2> HIDE DEF n, rest, all, q, spill
  <2>1. CASE spill
    BY <1>10, <2>1
  <2>2. CASE ~spill
    BY <1>10, <2>2
  <2> QED
    BY <2>1, <2>2
<1>13. /\ DOMAIN buf = 0 .. total - 1
       /\ \A p \in 0 .. total - 1 :
            buf[p] = IF p < rest THEN msg[bytes - rest + p]
                     ELSE IF p = rest THEN <<128>>
                     ELSE IF p < total - reserve THEN <<0>>
                     ELSE field[p - total + reserve]
  BY Zenon
<1> HIDE DEF n, q, rest, spill, total, buf, all, T
<1>14. ASSUME NEW p \in 0 .. total - 1 PROVE buf[p] = pad[q + p]
  <2>1. q + p \in 0 .. T - 1 /\ bytes - rest + p = q + p
    BY <1>1, <1>10, <1>11, <1>12
  <2>2. CASE p < total - reserve
    <3>1. /\ ~(q + p >= T - 8) \/ (p # rest /\ ~(p < rest))
          /\ (q + p < bytes <=> p < rest) /\ (q + p = bytes <=> p = rest)
      BY <1>1, <1>10, <1>11, <1>12, <2>2
    <3>2. ~(q + p >= T - 8)
      BY <1>1, <1>10, <1>11, <1>12, <2>2
    <3> QED
      BY <1>5, <1>13, <2>1, <2>2, <3>1, <3>2
  <2>3. CASE ~(p < total - reserve)
    <3> DEFINE x == p - total + reserve
    <3>1. /\ ~(p < rest) /\ p # rest
          /\ x \in 0 .. reserve - 1
          /\ (q + p) - T + 8 = x - reserve + 8
          /\ (q + p >= T - 8 <=> ~(x < reserve - 8))
          /\ ~(q + p < bytes) /\ q + p # bytes
      BY <1>1, <1>10, <1>11, <1>12, <2>3
    <3>2. buf[p] = field[x]
      BY <1>13, <2>3, <3>1
    <3> HIDE DEF x
    <3>3. field[x] = IF x < reserve - 8 THEN <<0>> ELSE LengthOctet(a, bytes, x - reserve + 8)
      BY <1>7, <3>1
    <3> DEFINE y == q + p
    <3>4. pad[y] = IF y >= T - 8 THEN LengthOctet(a, bytes, y - T + 8)
                   ELSE IF y < bytes THEN msg[y]
                   ELSE IF y = bytes THEN <<128>> ELSE <<0>>
      <4> HIDE DEF y
      <4> QED
        BY <1>5, <2>1 DEF y
    <3>5. pad[y] = IF x < reserve - 8 THEN <<0>> ELSE LengthOctet(a, bytes, y - T + 8)
      BY <3>1, <3>4, Zenon
    <3> QED
      BY <3>1, <3>2, <3>3, <3>5, Zenon
  <2> QED
    BY <2>2, <2>3
<1>15. ASSUME NEW p \in 0 .. q - 1 PROVE pad[p] = msg[p]
  <2>1. p \in 0 .. T - 1 /\ ~(p >= T - 8) /\ p < bytes
    BY <1>1, <1>10, <1>11, <1>12
  <2> QED
    BY <1>5, <2>1
<1>16. h = [b \in 1 .. n |-> B(b)]
  <2>1. ASSUME NEW b \in 1 .. n
        PROVE  BlockOf(a, msg, (b - 1) * block) = BlockOf(a, pad, (b - 1) * block)
    <3> DEFINE c == (b - 1) * block
    <3>1. c \in Nat /\ c + block <= q
      <4>1. CASE block = 64
        BY <1>10, <4>1 DEF q
      <4>2. CASE block = 128
        BY <1>10, <4>2 DEF q
      <4> QED
        BY <1>1, <4>1, <4>2
    <3> HIDE DEF c
    <3>2. \A x \in 0 .. block - 1 : c + x \in 0 .. q - 1
      BY <1>1, <1>10, <3>1
    <3>3. \A x \in 0 .. block - 1 : msg[c + x] = pad[c + x]
      BY <1>15, <3>2
    <3>4. BlockOf(a, msg, c) = BlockOf(a, pad, c)
      BY <1>9, <3>1, <3>3
    <3> QED
      BY <3>4 DEF c
  <2> QED
    BY <1>6, <2>1
<1>17. BlockOf(a, buf, 0) = B(n + 1)
  <2>1. \A x \in 0 .. block - 1 : x \in 0 .. total - 1
    BY <1>1, <1>11
  <2>2. \A x \in 0 .. block - 1 : buf[0 + x] = pad[q + x]
    BY <1>1, <1>14, <2>1
  <2>3. BlockOf(a, buf, 0) = BlockOf(a, pad, q)
    BY <1>9, <1>10, <2>2
  <2>4. (n + 1) - 1 = n
    BY <1>10
  <2> QED
    BY <2>3, <2>4 DEF q
<1>18. spill => BlockOf(a, buf, block) = B(n + 2)
  <2> SUFFICES ASSUME spill PROVE BlockOf(a, buf, block) = B(n + 2)
    OBVIOUS
  <2>1. \A x \in 0 .. block - 1 : /\ block + x \in 0 .. total - 1
                                  /\ q + (block + x) = (q + block) + x
    BY <1>1, <1>10, <1>11
  <2>2. \A x \in 0 .. block - 1 : buf[block + x] = pad[(q + block) + x]
    BY <1>14, <2>1
  <2>3. block \in Nat /\ q + block \in Nat
    BY <1>1, <1>10
  <2>4. BlockOf(a, buf, block) = BlockOf(a, pad, q + block)
    <3> DEFINE c == q + block
    <3> HIDE DEF c
    <3>1. c \in Nat /\ \A x \in 0 .. block - 1 : buf[block + x] = pad[c + x]
      BY <2>2, <2>3 DEF c
    <3>2. BlockOf(a, buf, block) = BlockOf(a, pad, c)
      <4> DEFINE d == block
      <4>1. d \in Nat /\ \A x \in 0 .. block - 1 : buf[d + x] = pad[c + x]
        BY <2>3, <3>1
      <4> HIDE DEF d
      <4>2. BlockOf(a, buf, d) = BlockOf(a, pad, c)
        BY <1>9, <3>1, <4>1
      <4> QED
        BY <4>2 DEF d
    <3> QED
      BY <3>2 DEF c
  <2>5. (n + 2) - 1 = n + 1
    BY <1>10
  <2> QED
    BY <1>10, <2>4, <2>5
<1> HIDE DEF B
<1>19. n \in Nat
  BY <1>10
<1>20. closed = [b \in 1 .. n + 1 |-> B(b)]
  <2>1. h = [b \in 1 .. n |-> h[b]] /\ \A b \in 1 .. n : h[b] = B(b)
    BY <1>16
  <2>2. closed = Joined(h, n, B(n + 1))
    <3>1. closed = Compress(h, B(n + 1))
      BY <1>17, Zenon
    <3> HIDE DEF closed
    <3> QED
      BY <1>19, <2>1, <3>1, CompressIs
  <2>3. ASSUME NEW b \in 1 .. n + 1
        PROVE  (IF b <= n THEN h[b] ELSE B(n + 1)) = B(b)
    <3>1. \/ b <= n /\ b \in 1 .. n
          \/ ~(b <= n) /\ b = n + 1
      BY <1>19
    <3> QED
      BY <2>1, <3>1
  <2> QED
    BY <2>2, <2>3, Zenon DEF Joined
<1> HIDE DEF closed
<1>21. spill => Compress(closed, BlockOf(a, buf, block)) = [b \in 1 .. n + 2 |-> B(b)]
  <2> SUFFICES ASSUME spill
               PROVE  Compress(closed, BlockOf(a, buf, block)) = [b \in 1 .. n + 2 |-> B(b)]
    OBVIOUS
  <2>1. n + 1 \in Nat /\ (n + 1) + 1 = n + 2
    BY <1>10
  <2>2. closed = [b \in 1 .. n + 1 |-> closed[b]] /\ \A b \in 1 .. n + 1 : closed[b] = B(b)
    BY <1>20
  <2>3. Compress(closed, B(n + 2)) = Joined(closed, n + 1, B(n + 2))
    BY <2>1, <2>2, CompressIs
  <2>4. ASSUME NEW b \in 1 .. (n + 1) + 1
        PROVE  (IF b <= n + 1 THEN closed[b] ELSE B(n + 2)) = B(b)
    <3>1. \/ b <= n + 1 /\ b \in 1 .. n + 1
          \/ ~(b <= n + 1) /\ b = n + 2
      BY <1>19
    <3> QED
      BY <2>2, <3>1
  <2>5. Compress(closed, B(n + 2)) = [b \in 1 .. (n + 1) + 1 |-> B(b)]
    BY <2>3, <2>4, Zenon DEF Joined
  <2> QED
    BY <1>18, <2>1, <2>5
<1>22. State(a, msg, bytes) = [b \in 1 .. all |-> B(b)]
  BY <1>4, <1>10, <1>20, <1>21
<1> QED
  BY <1>8, <1>22

-----------------------------------------------------------------------------
(* Where the corpus keeps a word. *)

(* A digit and what stands before it: the number stays below the product of the
   radices, and no other digits make it. *)
LEMMA Radix ==
  ASSUME NEW base \in Nat \ {0}, NEW x \in Nat, NEW y \in 0 .. base - 1
  PROVE  /\ x * base + y \in Nat
         /\ \A above \in Nat : x < above => x * base + y < above * base
         /\ \A u \in Nat, v \in 0 .. base - 1 :
              u * base + v = x * base + y => u = x /\ v = y
<1>1. \A p, q \in Nat : p < q => p * base + base <= q * base
  <2> TAKE p, q \in Nat
  <2> HAVE p < q
  <2>1. q - p - 1 \in Nat
    OBVIOUS
  <2> DEFINE r == q - p - 1
  <2>2. q = p + 1 + r
    OBVIOUS
  <2> HIDE DEF r
  <2>3. r * base \in Nat /\ p * base \in Nat
    BY <2>1 DEF r
  <2>4. (p + 1 + r) * base = p * base + base + r * base
    BY <2>1 DEF r
  <2> QED
    BY <2>2, <2>3, <2>4
<1>2. x * base \in Nat
  OBVIOUS
<1>3. x * base + y \in Nat
  BY <1>2
<1>4. ASSUME NEW above \in Nat, x < above PROVE x * base + y < above * base
  <2>1. x * base + base <= above * base /\ above * base \in Nat
    BY <1>1, <1>4
  <2> QED
    BY <1>2, <2>1
<1>5. ASSUME NEW u \in Nat, NEW v \in 0 .. base - 1, u * base + v = x * base + y
      PROVE  u = x /\ v = y
  <2>1. u * base \in Nat
    OBVIOUS
  <2>2. ~(u < x)
    <3> SUFFICES ASSUME u < x PROVE FALSE
      OBVIOUS
    <3>1. u * base + base <= x * base
      BY <1>1
    <3> QED
      BY <1>2, <1>5, <2>1, <3>1
  <2>3. ~(x < u)
    <3> SUFFICES ASSUME x < u PROVE FALSE
      OBVIOUS
    <3>1. x * base + base <= u * base
      BY <1>1
    <3> QED
      BY <1>2, <1>5, <2>1, <3>1
  <2>4. u = x
    BY <2>2, <2>3
  <2> QED
    BY <1>2, <1>5, <2>4
<1> QED
  BY <1>3, <1>4, <1>5

\* The words of messages of so many blocks, and where one of them lies.
Places(blocks) == Nat \X (0 .. blocks - 1) \X (0 .. 15)
PlaceOf(lanes, blocks, q) == Address(lanes, blocks, q[1], q[2], q[3])

(* No two words have an address in common. *)
LEMMA AddressOne ==
  ASSUME NEW lanes \in Nat \ {0}, NEW blocks \in Nat \ {0},
         NEW q \in Places(blocks), NEW r \in Places(blocks),
         PlaceOf(lanes, blocks, q) = PlaceOf(lanes, blocks, r)
  PROVE  q = r
<1> PICK m \in Nat, b \in 0 .. blocks - 1, j \in 0 .. 15 : q = <<m, b, j>>
  BY DEF Places
<1> PICK m2 \in Nat, b2 \in 0 .. blocks - 1, j2 \in 0 .. 15 : r = <<m2, b2, j2>>
  BY DEF Places
<1>0. Address(lanes, blocks, m, b, j) = Address(lanes, blocks, m2, b2, j2)
  BY DEF PlaceOf
<1> DEFINE s == m \div lanes
           l == m % lanes
           s2 == m2 \div lanes
           l2 == m2 % lanes
<1>1. /\ s \in Nat /\ l \in 0 .. lanes - 1 /\ m = s * lanes + l
      /\ s2 \in Nat /\ l2 \in 0 .. lanes - 1 /\ m2 = s2 * lanes + l2
  OBVIOUS
<1>2. ((s * blocks + b) * 16 + j) * lanes + l = ((s2 * blocks + b2) * 16 + j2) * lanes + l2
  BY <1>0 DEF Address, WordsPerBlock
<1> HIDE DEF s, l, s2, l2
<1> DEFINE t == s * blocks + b
           t2 == s2 * blocks + b2
           w == t * 16 + j
           w2 == t2 * 16 + j2
<1>3. t \in Nat /\ t2 \in Nat
  <2> HIDE DEF t, t2
  <2> QED
    BY <1>1, Radix DEF t, t2
<1>4. t = t2 => s = s2 /\ b = b2
  BY <1>1, Radix
<1> HIDE DEF t, t2
<1>5. w \in Nat /\ w2 \in Nat /\ (w = w2 => t = t2 /\ j = j2)
  BY <1>3
<1>6. w * lanes + l = w2 * lanes + l2
  BY <1>2 DEF t, t2
<1> HIDE DEF w, w2
<1>7. w = w2 /\ l = l2
  BY <1>1, <1>5, <1>6, Radix
<1> QED
  BY <1>1, <1>4, <1>5, <1>7

(* Every word has its place in the corpus. *)
LEMMA AddressWithin ==
  ASSUME NEW lanes \in Nat \ {0}, NEW blocks \in Nat \ {0}, NEW n \in Nat, n % lanes = 0,
         NEW m \in 0 .. n - 1, NEW b \in 0 .. blocks - 1, NEW j \in 0 .. 15
  PROVE  Address(lanes, blocks, m, b, j) \in 0 .. n * blocks * WordsPerBlock - 1
<1> DEFINE s == m \div lanes
           l == m % lanes
           k == n \div lanes
           t == s * blocks + b
           w == t * 16 + j
           at == w * lanes + l
<1>1. /\ s \in Nat /\ l \in 0 .. lanes - 1 /\ m = s * lanes + l
      /\ k \in Nat /\ n = k * lanes
  OBVIOUS
<1>2. Address(lanes, blocks, m, b, j) = at
  BY DEF Address, WordsPerBlock
<1> HIDE DEF s, l, k
<1>3. s < k
  <2> SUFFICES ASSUME k <= s PROVE FALSE
    BY <1>1
  <2>1. s - k \in Nat
    BY <1>1
  <2>2. (s - k) * lanes \in Nat /\ s * lanes = k * lanes + (s - k) * lanes
    BY <1>1, <2>1
  <2> QED
    BY <1>1, <2>2
<1>4. t \in Nat /\ t < k * blocks /\ k * blocks \in Nat
  <2>1. k * blocks \in Nat
    BY <1>1
  <2> QED
    BY <1>1, <1>3, <2>1, Radix
<1> DEFINE kb == k * blocks
<1> HIDE DEF t, kb
<1>5. w \in Nat /\ w < kb * 16 /\ kb * 16 \in Nat
  BY <1>4 DEF kb
<1> HIDE DEF w
<1>6. at \in Nat /\ at < (kb * 16) * lanes
  <2> DEFINE above == kb * 16
  <2> HIDE DEF above
  <2>1. above \in Nat /\ w < above
    BY <1>5 DEF above
  <2>2. w * lanes + l \in Nat /\ w * lanes + l < above * lanes
    BY <1>1, <1>5, <2>1, Radix
  <2> QED
    BY <2>2 DEF above
<1>7. (kb * 16) * lanes = n * blocks * WordsPerBlock
  BY <1>1 DEF kb, WordsPerBlock
<1>8. n * blocks * WordsPerBlock \in Nat
  BY DEF WordsPerBlock
<1> HIDE DEF at
<1> QED
  BY <1>2, <1>6, <1>7, <1>8

(* A message has at least one block. *)
LEMMA BlocksAre ==
  ASSUME NEW a \in Algorithms, NEW bytes \in Nat
  PROVE  BlocksFor(a, bytes) \in Nat \ {0}
<1>1. BlockBytes(a) \in {64, 128} /\ a.lengthBytes \in {8, 16}
  BY AlgorithmIs
<1>2. CASE BlockBytes(a) = 64
  BY <1>1, <1>2 DEF BlocksFor
<1>3. CASE BlockBytes(a) = 128
  BY <1>1, <1>3 DEF BlocksFor
<1> QED
  BY <1>1, <1>2, <1>3

\* The words of a corpus, and a message as the corpus holds it.
Within(a, n, bytes)   == (0 .. n - 1) \X (0 .. BlocksFor(a, bytes) - 1) \X (0 .. 15)
Built(a, m, bytes) == PadMessage(a, BuildMessage(m, bytes), bytes)

(* What vb_corpus_build stores for a word of a message is read back from its
   address, for every number of messages, lanes and blocks. *)
LEMMA CorpusHolds ==
  ASSUME NEW a \in Algorithms, NEW lanes \in Nat \ {0}, NEW n \in Nat, n % lanes = 0,
         NEW bytes \in Nat, NEW q \in Within(a, n, bytes)
  PROVE  CorpusBuild(a, lanes, n, bytes)[PlaceOf(lanes, BlocksFor(a, bytes), q)]
           = LoadWord(a, Built(a, q[1], bytes), q[2] * BlockBytes(a) + q[3] * a.wordBytes)
<1> PICK m \in 0 .. n - 1, b \in 0 .. BlocksFor(a, bytes) - 1, j \in 0 .. 15 : q = <<m, b, j>>
  BY DEF Within
<1> DEFINE blocks == BlocksFor(a, bytes)
           padded == [k \in 0 .. n - 1 |-> PadMessage(a, BuildMessage(k, bytes), bytes)]
           places == (0 .. n - 1) \X (0 .. blocks - 1) \X (0 .. WordsPerBlock - 1)
           Is(w, at) == Address(lanes, blocks, w[1], w[2], w[3]) = at
           W(at) == CHOOSE w \in places : Is(w, at)
           here == Address(lanes, blocks, m, b, j)
           Word(w) == LoadWord(a, padded[w[1]], w[2] * BlockBytes(a) + w[3] * a.wordBytes)
<1>1. CorpusBuild(a, lanes, n, bytes)
        = [at \in 0 .. n * blocks * WordsPerBlock - 1 |-> Word(W(at))]
  BY Zenon DEF CorpusBuild
<1>2. blocks \in Nat \ {0}
  BY BlocksAre
<1>3. WordsPerBlock - 1 = 15
  BY DEF WordsPerBlock
<1>4. padded[m] = PadMessage(a, BuildMessage(m, bytes), bytes)
  OBVIOUS
<1> HIDE DEF blocks, padded
<1>5. here \in 0 .. n * blocks * WordsPerBlock - 1
  BY <1>2, AddressWithin DEF blocks
<1>6. <<m, b, j>> \in places /\ Is(<<m, b, j>>, here)
  BY <1>3 DEF blocks
<1>7. W(here) \in places /\ Is(W(here), here)
  <2> HIDE DEF Is, places
  <2> QED
    BY <1>6
<1>8. W(here) = <<m, b, j>>
  <2> DEFINE w == W(here)
  <2> HIDE DEF w
  <2>1. w \in places /\ Is(w, here)
    BY <1>7 DEF w
  <2>2. <<m, b, j>> \in Places(blocks) /\ w \in Places(blocks)
    BY <1>3, <1>6, <2>1 DEF Places
  <2>3. PlaceOf(lanes, blocks, w) = PlaceOf(lanes, blocks, <<m, b, j>>)
    BY <1>6, <2>1, Zenon DEF PlaceOf
  <2> QED
    BY <1>2, <2>2, <2>3, AddressOne DEF w
<1> HIDE DEF W, here, Word
<1>9. CorpusBuild(a, lanes, n, bytes)[here] = Word(<<m, b, j>>)
  BY <1>1, <1>5, <1>8
<1>10. Word(<<m, b, j>>) = LoadWord(a, padded[m], b * BlockBytes(a) + j * a.wordBytes)
  BY DEF Word
<1> QED
  BY <1>4, <1>9, <1>10 DEF here, blocks, PlaceOf, Built

\* The corpus of n messages with its shape, as a kernel is given it.
Shaped(a, lanes, n, bytes) ==
  [memory |-> CorpusBuild(a, lanes, n, bytes), alg |-> a, lanes |-> lanes,
   blocks |-> BlocksFor(a, bytes)]

\* The words of a message, and one of them in the corpus.
Words(a, bytes) == (0 .. BlocksFor(a, bytes) - 1) \X (0 .. 15)
BuiltWord(a, m, bytes, w) ==
  LoadWord(a, Built(a, m, bytes), w[1] * BlockBytes(a) + w[2] * a.wordBytes)

(* A lane of a slot is a message: what a kernel loads for it is what was padded. *)
LEMMA LoadIs ==
  ASSUME NEW a \in Algorithms, NEW lanes \in Nat \ {0}, NEW n \in Nat, n % lanes = 0,
         NEW bytes \in Nat, NEW slot \in Nat, NEW lane \in 0 .. lanes - 1,
         slot * lanes + lane < n, NEW w \in Words(a, bytes)
  PROVE  Load(Shaped(a, lanes, n, bytes), slot, w[1], w[2], lane)
           = BuiltWord(a, slot * lanes + lane, bytes, w)
<1> PICK b \in 0 .. BlocksFor(a, bytes) - 1, j \in 0 .. 15 : w = <<b, j>>
  BY DEF Words
<1> DEFINE blocks == BlocksFor(a, bytes)
           m == slot * lanes + lane
           c == Shaped(a, lanes, n, bytes)
<1>1. m \in Nat
  BY Radix
<1>2. m \div lanes = slot /\ m % lanes = lane
  <2> DEFINE u == m \div lanes
             v == m % lanes
  <2>1. u \in Nat /\ v \in 0 .. lanes - 1 /\ u * lanes + v = m
    <3> HIDE DEF m
    <3> QED
      BY <1>1
  <2> HIDE DEF u, v
  <2>2. u = slot /\ v = lane
    BY <2>1, Radix
  <2> QED
    BY <2>2 DEF u, v
<1>3. Load(c, slot, b, j, lane)
        = CorpusBuild(a, lanes, n, bytes)[((slot * blocks + b) * WordsPerBlock + j) * lanes + lane]
  BY Zenon DEF Load, Shaped
<1>4. Address(lanes, blocks, m, b, j) = ((slot * blocks + b) * WordsPerBlock + j) * lanes + lane
  BY <1>2, Zenon DEF Address
<1>5. m \in 0 .. n - 1
  BY <1>1
<1> HIDE DEF m, blocks, c
<1> DEFINE q == <<m, b, j>>
<1>6. q \in Within(a, n, bytes) /\ q[1] = m /\ q[2] = b /\ q[3] = j
  BY <1>5 DEF Within
<1> HIDE DEF q
<1>7. CorpusBuild(a, lanes, n, bytes)[PlaceOf(lanes, blocks, q)]
        = LoadWord(a, Built(a, q[1], bytes), q[2] * BlockBytes(a) + q[3] * a.wordBytes)
  BY <1>6, CorpusHolds DEF blocks
<1>8. Load(c, slot, b, j, lane)
        = LoadWord(a, Built(a, m, bytes), b * BlockBytes(a) + j * a.wordBytes)
  BY <1>3, <1>4, <1>6, <1>7, Zenon DEF PlaceOf
<1>9. w[1] = b /\ w[2] = j
  OBVIOUS
<1> QED
  BY <1>8, <1>9, Zenon DEF c, m, BuiltWord

\* The blocks of a lane whose leading words are fb.
Seen(a, c, slot, lane, fb) ==
  [b \in 1 .. c.blocks |-> [j \in 1 .. 16 |->
     IF b = 1 /\ j <= a.words THEN fb[j] ELSE Load(c, slot, b - 1, j - 1, lane)]]

(* One iteration of any of the kernels: the leading words are what was fed
   back, the others come from the corpus. *)
LEMMA PassIs ==
  ASSUME NEW a \in Algorithms, NEW c, c.alg = a, NEW slot, NEW lane, NEW fb, c.blocks \in Nat
  PROVE  Pass(c, slot, lane, fb) = Seen(a, c, slot, lane, fb)
<1>1. ASSUME NEW b \in 1 .. c.blocks, a.name = "md5"
      PROVE  Md5Block(c, slot, lane, b - 1, fb)
               = [j \in 1 .. 16 |-> IF b = 1 /\ j <= a.words THEN fb[j]
                                    ELSE Load(c, slot, b - 1, j - 1, lane)]
  <2>1. a.words = 4 /\ (b - 1 = 0 <=> b = 1)
    BY <1>1, AlgorithmIs
  <2> QED
    BY <2>1, Zenon DEF Md5Block, WordsPerBlock
<1>2. ASSUME NEW b \in 1 .. c.blocks
      PROVE  ShaBlock(c, slot, lane, b - 1, fb)
               = [j \in 1 .. 16 |-> IF b = 1 /\ j <= a.words THEN fb[j]
                                    ELSE Load(c, slot, b - 1, j - 1, lane)]
  <2>1. b - 1 = 0 <=> b = 1
    OBVIOUS
  <2> QED
    BY <2>1, Zenon DEF ShaBlock, Fed, WordsPerBlock
<1>3. CASE a.name = "md5"
  <2>1. Pass(c, slot, lane, fb) = Md5Pass(c, slot, lane, fb)
    BY <1>3 DEF Pass
  <2> QED
    BY <1>1, <1>3, <2>1, Zenon DEF Md5Pass, Seen
<1>4. CASE a.name = "sha1"
  <2>1. Pass(c, slot, lane, fb) = Sha1Pass(c, slot, lane, fb)
    BY <1>4 DEF Pass
  <2> QED
    BY <1>2, <2>1, Zenon DEF Sha1Pass, Seen
<1>5. CASE a.name = "sha512"
  <2>1. Pass(c, slot, lane, fb) = Sha512Pass(c, slot, lane, fb)
    BY <1>5 DEF Pass
  <2> QED
    BY <1>2, <2>1, Zenon DEF Sha512Pass, Seen
<1> QED
  BY <1>3, <1>4, <1>5, AlgorithmIs

(* A word is loaded from its own bytes. *)
LEMMA LoadWordSame ==
  ASSUME NEW a \in Algorithms, NEW f, NEW g, NEW from \in Nat,
         \A x \in 0 .. a.wordBytes - 1 : f[from + x] = g[from + x]
  PROVE  LoadWord(a, f, from) = LoadWord(a, g, from)
<1>1. a.wordBytes \in {4, 8}
  BY AlgorithmIs
<1>2. \A x \in 1 .. a.wordBytes :
        (IF a.big THEN x - 1 ELSE a.wordBytes - x) \in 0 .. a.wordBytes - 1
  BY <1>1
<1> QED
  BY <1>2, Zenon DEF LoadWord

(* The bytes a digest is stored as are loaded as its words. *)
LEMMA DigestLoads ==
  ASSUME NEW a \in Algorithms, NEW msg, NEW bytes \in Nat, NEW mem,
         \A p \in 0 .. DigestBytes(a) - 1 : mem[p] = Hash(a, msg, bytes)[p],
         NEW j \in 1 .. a.words
  PROVE  LoadWord(a, mem, (j - 1) * a.wordBytes) = <<State(a, msg, bytes), j>>
<1> DEFINE S == State(a, msg, bytes)
           W == a.wordBytes
           base == (j - 1) * W
           In(x) == IF a.big THEN x - 1 ELSE W - x
           octets == [x \in 1 .. W |-> mem[base + In(x)]]
<1>1. W \in {4, 8} /\ a.words \in {4, 5, 8} /\ DigestBytes(a) = a.words * W
  BY AlgorithmIs
<1>2. Hash(a, msg, bytes) = [p \in 0 .. DigestBytes(a) - 1 |->
         << <<S, (p \div W) + 1>>, IF a.big THEN (p % W) + 1 ELSE W - (p % W) >>]
  BY HashIs, Zenon
<1>3. LoadWord(a, mem, base) = Collapse(octets)
  BY Zenon DEF LoadWord
<1> HIDE DEF S, W
<1>4. ASSUME NEW x \in 1 .. W PROVE octets[x] = << <<S, j>>, x >>
  <2> DEFINE y == In(x)
             p == base + y
  <2>1. y \in 0 .. W - 1 /\ x = IF a.big THEN y + 1 ELSE W - y
    BY <1>1
  <2> HIDE DEF y
  <2>2. p \in 0 .. DigestBytes(a) - 1 /\ (p \div W) + 1 = j /\ p % W = y
    <3>1. CASE W = 4
      <4>1. base = (j - 1) * 4 /\ DigestBytes(a) = a.words * 4
        BY <1>1, <3>1
      <4> QED
        BY <1>1, <2>1, <3>1, <4>1
    <3>2. CASE W = 8
      <4>1. base = (j - 1) * 8 /\ DigestBytes(a) = a.words * 8
        BY <1>1, <3>2
      <4> QED
        BY <1>1, <2>1, <3>2, <4>1
    <3> QED
      BY <1>1, <3>1, <3>2
  <2>3. octets[x] = mem[p]
    BY DEF y
  <2> HIDE DEF p, octets
  <2>4. mem[p] = << <<S, (p \div W) + 1>>, IF a.big THEN (p % W) + 1 ELSE W - (p % W) >>
    BY <1>2, <2>2
  <2>5. mem[p] = << <<S, j>>, IF a.big THEN y + 1 ELSE W - y >>
    BY <2>2, <2>4, Zenon
  <2> QED
    BY <2>1, <2>3, <2>5, Zenon
<1>5. DOMAIN octets = 1 .. W /\ 1 \in 1 .. W
  BY <1>1
<1> HIDE DEF octets
<1>6. Collapse(octets) = <<S, j>>
  <2>1. octets[1] = << <<S, j>>, 1 >>
    BY <1>4, <1>5
  <2>2. octets[1][1] = <<S, j>> /\ Len(octets[1]) = 2
    BY <2>1
  <2>3. \A x \in DOMAIN octets : octets[x] = <<octets[1][1], x>>
    BY <1>4, <1>5, <2>2, Zenon
  <2> QED
    BY <2>2, <2>3, Zenon DEF Collapse
<1> QED
  BY <1>3, <1>6 DEF S, W

-----------------------------------------------------------------------------
(* The chains. *)

\* A set of numbers has a least one.
LEMMA LeastExists ==
  ASSUME NEW S, S \subseteq Nat, S # {}
  PROVE  \E m \in S : \A k \in S : m <= k
<1> DEFINE R == OpToRel(<, Nat)
<1>1. IsWellFoundedOn(R, Nat)
  BY NatLessThanWellFounded
<1>2. \A j, k \in Nat : <<j, k>> \in R <=> j < k
  BY DEF OpToRel
<1> HIDE DEF R
<1>3. PICK m \in S : \A k \in S : ~(<<k, m>> \in R)
  BY <1>1, WFMin
<1>4. ASSUME NEW k \in S PROVE m <= k
  <2>1. k \in Nat /\ m \in Nat /\ ~(k < m)
    BY <1>2, <1>3
  <2> QED
    BY <2>1
<1> QED
  BY <1>4

\* A link of the chain of vb_reference_checksums: the digest of a message over
\* its head; and the messages of so many iterations.
Rehashed(a, bytes, hashed) ==
  LET digest == Hash(a, hashed, bytes)
  IN  [p \in 0 .. bytes - 1 |-> IF p < DigestBytes(a) THEN digest[p] ELSE hashed[p]]

Messages(a, m, bytes, iterations, f) ==
  f = [it \in 1 .. iterations |-> IF it = 1 THEN BuildMessage(m, bytes)
                                  ELSE Rehashed(a, bytes, f[it - 1])]

LEMMA MessagesExist ==
  ASSUME NEW a, NEW m, NEW bytes, NEW iterations \in Nat
  PROVE  \E f : Messages(a, m, bytes, iterations, f)
<1> DEFINE S == { n \in Nat : ~\E f : Messages(a, m, bytes, n, f) }
<1>1. S \subseteq Nat
  OBVIOUS
<1>2. SUFFICES ASSUME S # {} PROVE FALSE
  OBVIOUS
<1>3. PICK n \in S : \A k \in S : n <= k
  <2> HIDE DEF S
  <2> QED
    BY <1>1, <1>2, LeastExists
<1>4. n \in Nat /\ ~\E f : Messages(a, m, bytes, n, f)
  BY <1>3
<1>5. n # 0
  <2> DEFINE f == [it \in 1 .. 0 |-> {}]
  <2>1. 1 .. 0 = {}
    OBVIOUS
  <2>2. f = [it \in 1 .. 0 |-> IF it = 1 THEN BuildMessage(m, bytes)
                               ELSE Rehashed(a, bytes, f[it - 1])]
    BY <2>1, Zenon
  <2>3. Messages(a, m, bytes, 0, f)
    BY <2>2, Zenon DEF Messages
  <2> QED
    BY <1>4, <2>3
<1>6. PICK f : Messages(a, m, bytes, n - 1, f)
  <2>1. n - 1 \in Nat /\ ~(n <= n - 1)
    BY <1>4, <1>5
  <2>2. n - 1 \notin S
    BY <1>3, <2>1
  <2> QED
    BY <2>1, <2>2
<1> HIDE DEF S
<1> DEFINE Made(g, it) == IF it = 1 THEN BuildMessage(m, bytes) ELSE Rehashed(a, bytes, g[it - 1])
           h == [it \in 1 .. n |-> Made(f, it)]
<1>7. f = [it \in 1 .. n - 1 |-> Made(f, it)]
  BY <1>6, Zenon DEF Messages
<1>8. \A it \in 1 .. n - 1 : h[it] = f[it]
  <2> HIDE DEF Made
  <2> QED
    BY <1>4, <1>7
<1>9. ASSUME NEW it \in 1 .. n PROVE Made(f, it) = Made(h, it)
  <2>1. CASE it = 1
    BY <2>1
  <2>2. CASE it # 1
    <3>1. it - 1 \in 1 .. n - 1
      BY <1>4, <2>2
    <3> HIDE DEF h
    <3>2. h[it - 1] = f[it - 1]
      BY <1>8, <3>1
    <3> QED
      BY <2>2, <3>2, Zenon
  <2> QED
    BY <2>1, <2>2
<1>10. h = [it \in 1 .. n |-> Made(h, it)]
  <2> HIDE DEF Made
  <2> QED
    BY <1>9, Zenon
<1>11. Messages(a, m, bytes, n, h)
  <2> HIDE DEF h
  <2> QED
    BY <1>10, Zenon DEF Messages
<1> QED
  BY <1>4, <1>11

(* The reference digest is that of the last message of the chain. *)
LEMMA RefDigestIs ==
  ASSUME NEW a \in Algorithms, NEW m, NEW bytes \in Nat, NEW iterations \in Nat
  PROVE  \E f : /\ Messages(a, m, bytes, iterations, f)
                /\ RefDigest(a, m, bytes, iterations)
                     = DigestWords(a, State(a, f[iterations], bytes))
<1> DEFINE f == CHOOSE g : Messages(a, m, bytes, iterations, g)
           last == Hash(a, f[iterations], bytes)
<1>1. Messages(a, m, bytes, iterations, f)
  BY MessagesExist, Zenon
<1>2. RefDigest(a, m, bytes, iterations)
        = [j \in 1 .. a.words |-> LoadWord(a, last, (j - 1) * a.wordBytes)]
  BY Zenon DEF RefDigest, Messages, Rehashed
<1> HIDE DEF f
<1>3. \A p \in 0 .. DigestBytes(a) - 1 : last[p] = Hash(a, f[iterations], bytes)[p]
  BY Zenon
<1> HIDE DEF last
<1>4. \A j \in 1 .. a.words :
        LoadWord(a, last, (j - 1) * a.wordBytes) = <<State(a, f[iterations], bytes), j>>
  BY <1>3, DigestLoads
<1>5. RefDigest(a, m, bytes, iterations) = DigestWords(a, State(a, f[iterations], bytes))
  BY <1>2, <1>4, Zenon DEF DigestWords
<1> QED
  BY <1>1, <1>5

\* What a kernel begins with, and what it feeds back in so many iterations.
Begins(c, slot, lane) == [j \in 1 .. c.alg.words |-> Load(c, slot, 0, j - 1, lane)]
FedBack(c, slot, lane, fb) == Feedback(c.alg, Pass(c, slot, lane, fb), fb)

Feeds(c, slot, lane, iterations, f) ==
  f = [it \in 1 .. iterations |-> IF it = 1 THEN Begins(c, slot, lane)
                                  ELSE FedBack(c, slot, lane, f[it - 1])]

LEMMA FeedsExist ==
  ASSUME NEW c, NEW slot, NEW lane, NEW iterations \in Nat
  PROVE  \E f : Feeds(c, slot, lane, iterations, f)
<1> DEFINE S == { n \in Nat : ~\E f : Feeds(c, slot, lane, n, f) }
<1>1. S \subseteq Nat
  OBVIOUS
<1>2. SUFFICES ASSUME S # {} PROVE FALSE
  OBVIOUS
<1>3. PICK n \in S : \A k \in S : n <= k
  <2> HIDE DEF S
  <2> QED
    BY <1>1, <1>2, LeastExists
<1>4. n \in Nat /\ ~\E f : Feeds(c, slot, lane, n, f)
  BY <1>3
<1>5. n # 0
  <2> DEFINE f == [it \in 1 .. 0 |-> {}]
  <2>1. 1 .. 0 = {}
    OBVIOUS
  <2>2. f = [it \in 1 .. 0 |-> IF it = 1 THEN Begins(c, slot, lane)
                               ELSE FedBack(c, slot, lane, f[it - 1])]
    BY <2>1, Zenon
  <2>3. Feeds(c, slot, lane, 0, f)
    BY <2>2, Zenon DEF Feeds
  <2> QED
    BY <1>4, <2>3
<1>6. PICK f : Feeds(c, slot, lane, n - 1, f)
  <2>1. n - 1 \in Nat /\ ~(n <= n - 1)
    BY <1>4, <1>5
  <2>2. n - 1 \notin S
    BY <1>3, <2>1
  <2> QED
    BY <2>1, <2>2
<1> HIDE DEF S
<1> DEFINE Made(g, it) == IF it = 1 THEN Begins(c, slot, lane) ELSE FedBack(c, slot, lane, g[it - 1])
           h == [it \in 1 .. n |-> Made(f, it)]
<1>7. f = [it \in 1 .. n - 1 |-> Made(f, it)]
  BY <1>6, Zenon DEF Feeds
<1>8. \A it \in 1 .. n - 1 : h[it] = f[it]
  <2> HIDE DEF Made
  <2> QED
    BY <1>4, <1>7
<1>9. ASSUME NEW it \in 1 .. n PROVE Made(f, it) = Made(h, it)
  <2>1. CASE it = 1
    BY <2>1
  <2>2. CASE it # 1
    <3>1. it - 1 \in 1 .. n - 1
      BY <1>4, <2>2
    <3> HIDE DEF h
    <3>2. h[it - 1] = f[it - 1]
      BY <1>8, <3>1
    <3> QED
      BY <2>2, <3>2, Zenon
  <2> QED
    BY <2>1, <2>2
<1>10. h = [it \in 1 .. n |-> Made(h, it)]
  <2> HIDE DEF Made
  <2> QED
    BY <1>9, Zenon
<1>11. Feeds(c, slot, lane, n, h)
  <2> HIDE DEF h
  <2> QED
    BY <1>10, Zenon DEF Feeds
<1> QED
  BY <1>4, <1>11

LEMMA LaneDigestIs ==
  ASSUME NEW c, NEW slot, NEW lane, NEW iterations \in Nat
  PROVE  \E f : /\ Feeds(c, slot, lane, iterations, f)
                /\ LaneDigest(c, slot, lane, iterations)
                     = DigestWords(c.alg, Pass(c, slot, lane, f[iterations]))
<1> DEFINE f == CHOOSE g : Feeds(c, slot, lane, iterations, g)
<1>1. Feeds(c, slot, lane, iterations, f)
  BY FeedsExist, Zenon
<1>2. LaneDigest(c, slot, lane, iterations) = DigestWords(c.alg, Pass(c, slot, lane, f[iterations]))
  BY Zenon DEF LaneDigest, Feeds, Begins, FedBack
<1> QED
  BY <1>1, <1>2

-----------------------------------------------------------------------------
(* A lane and its message. *)

(* The length never reaches back to the message. *)
LEMMA PadRoom ==
  ASSUME NEW a \in Algorithms, NEW bytes \in Nat
  PROVE  /\ BlocksFor(a, bytes) * BlockBytes(a) \in Nat
         /\ bytes < BlocksFor(a, bytes) * BlockBytes(a) - 8
<1> DEFINE T == BlocksFor(a, bytes) * BlockBytes(a)
<1>1. BlockBytes(a) \in {64, 128} /\ a.lengthBytes \in {8, 16}
  BY AlgorithmIs
<1>2. CASE BlockBytes(a) = 64
  <2>1. T = ((bytes + a.lengthBytes + 64) \div 64) * 64
    BY <1>2 DEF BlocksFor
  <2> QED
    BY <1>1, <2>1
<1>3. CASE BlockBytes(a) = 128
  <2>1. T = ((bytes + a.lengthBytes + 128) \div 128) * 128
    BY <1>3 DEF BlocksFor
  <2> QED
    BY <1>1, <2>1
<1> QED
  BY <1>1, <1>2, <1>3

(* A padded message begins with the message; what follows is the same for all
   messages of a length. *)
LEMMA PadIs ==
  ASSUME NEW a \in Algorithms, NEW bytes \in Nat, NEW f, NEW g
  PROVE  /\ \A p \in 0 .. bytes - 1 : PadMessage(a, f, bytes)[p] = f[p]
         /\ \A p \in 0 .. BlocksFor(a, bytes) * BlockBytes(a) - 1 :
              p >= bytes => PadMessage(a, f, bytes)[p] = PadMessage(a, g, bytes)[p]
<1> DEFINE T == BlocksFor(a, bytes) * BlockBytes(a)
           Octet(h, p) == IF p >= T - 8 THEN LengthOctet(a, bytes, p - T + 8)
                          ELSE IF p < bytes THEN h[p]
                          ELSE IF p = bytes THEN <<128>> ELSE <<0>>
<1>1. T \in Nat /\ bytes < T - 8
  BY PadRoom
<1>2. \A h : PadMessage(a, h, bytes) = [p \in 0 .. T - 1 |-> Octet(h, p)]
  BY Zenon DEF PadMessage
<1> HIDE DEF T
<1>3. ASSUME NEW p \in 0 .. bytes - 1 PROVE PadMessage(a, f, bytes)[p] = f[p]
  <2>1. p \in 0 .. T - 1 /\ ~(p >= T - 8) /\ p < bytes
    BY <1>1
  <2>2. Octet(f, p) = f[p]
    BY <2>1, Zenon
  <2> HIDE DEF Octet
  <2> QED
    BY <1>2, <2>1, <2>2
<1>4. ASSUME NEW p \in 0 .. T - 1, p >= bytes
      PROVE  PadMessage(a, f, bytes)[p] = PadMessage(a, g, bytes)[p]
  <2>1. ~(p < bytes)
    BY <1>1, <1>4
  <2>2. Octet(f, p) = Octet(g, p)
    BY <2>1, Zenon
  <2> HIDE DEF Octet
  <2>3. \A h : PadMessage(a, h, bytes)[p] = Octet(h, p)
    BY <1>2, Zenon
  <2> QED
    BY <2>2, <2>3, Zenon
<1> QED
  BY <1>3, <1>4 DEF T

\* A message as it is after some iterations, and the words of it a kernel holds:
\* behind the digest it is what it was.
Alike(a, bytes, original, msg, fb) ==
  /\ bytes >= DigestBytes(a) \/ msg = original
  /\ \A p \in 0 .. bytes - 1 : p >= DigestBytes(a) => msg[p] = original[p]
  /\ \A j \in 1 .. a.words :
       fb[j] = LoadWord(a, PadMessage(a, msg, bytes), (j - 1) * a.wordBytes)

(* Where the other words of a message lie: behind the digest. *)
LEMMA WordBehind ==
  ASSUME NEW a \in Algorithms, NEW blocks \in Nat, NEW b \in 1 .. blocks, NEW j \in 1 .. 16,
         ~(b = 1 /\ j <= a.words), NEW x \in 0 .. a.wordBytes - 1
  PROVE  /\ (b - 1) * BlockBytes(a) + (j - 1) * a.wordBytes \in Nat
         /\ (b - 1) * BlockBytes(a) + (j - 1) * a.wordBytes + x >= DigestBytes(a)
         /\ (b - 1) * BlockBytes(a) + (j - 1) * a.wordBytes + x
              \in 0 .. blocks * BlockBytes(a) - 1
<1>1. /\ a.wordBytes \in {4, 8} /\ a.words \in {4, 5, 8} /\ BlockBytes(a) = 16 * a.wordBytes
      /\ DigestBytes(a) = a.words * a.wordBytes
  BY AlgorithmIs
<1>2. CASE a.wordBytes = 4
  <2>1. BlockBytes(a) = 64 /\ DigestBytes(a) = 4 * a.words
    BY <1>1, <1>2
  <2> QED
    BY <1>1, <1>2, <2>1
<1>3. CASE a.wordBytes = 8
  <2>1. BlockBytes(a) = 128 /\ DigestBytes(a) = 8 * a.words
    BY <1>1, <1>3
  <2> QED
    BY <1>1, <1>3, <2>1
<1> QED
  BY <1>1, <1>2, <1>3

(* Two messages that are alike behind the digest have their other words in
   common. *)
LEMMA OtherWords ==
  ASSUME NEW a \in Algorithms, NEW bytes \in Nat, NEW original, NEW msg, NEW fb,
         Alike(a, bytes, original, msg, fb),
         NEW b \in 1 .. BlocksFor(a, bytes), NEW j \in 1 .. 16, ~(b = 1 /\ j <= a.words)
  PROVE  LoadWord(a, PadMessage(a, original, bytes), (b - 1) * BlockBytes(a) + (j - 1) * a.wordBytes)
           = LoadWord(a, PadMessage(a, msg, bytes), (b - 1) * BlockBytes(a) + (j - 1) * a.wordBytes)
<1> DEFINE from == (b - 1) * BlockBytes(a) + (j - 1) * a.wordBytes
           blocks == BlocksFor(a, bytes)
           old == PadMessage(a, original, bytes)
           new == PadMessage(a, msg, bytes)
<1>1. CASE msg = original
  BY <1>1
<1>2. CASE bytes >= DigestBytes(a)
  <2>1. blocks \in Nat
    BY BlocksAre
  <2>2. 0 \in 0 .. a.wordBytes - 1
    BY AlgorithmIs
  <2> HIDE DEF blocks
  <2>3. \A x \in 0 .. a.wordBytes - 1 :
          /\ from \in Nat /\ from + x >= DigestBytes(a)
          /\ from + x \in 0 .. blocks * BlockBytes(a) - 1
    BY <2>1, WordBehind DEF blocks
  <2> HIDE DEF from
  <2>4. ASSUME NEW x \in 0 .. a.wordBytes - 1 PROVE old[from + x] = new[from + x]
    <3> DEFINE p == from + x
    <3>1. p >= DigestBytes(a) /\ p \in 0 .. blocks * BlockBytes(a) - 1 /\ p \in Nat
      BY <2>1, <2>3
    <3> HIDE DEF p
    <3>2. CASE p < bytes
      <4>1. p \in 0 .. bytes - 1
        BY <3>1, <3>2
      <4>2. old[p] = original[p] /\ new[p] = msg[p]
        BY <4>1, PadIs
      <4> QED
        BY <3>1, <4>1, <4>2 DEF Alike, p
    <3>3. CASE p >= bytes
      <4>1. old[p] = new[p]
        BY <3>1, <3>3, PadIs DEF blocks
      <4> QED
        BY <4>1 DEF p
    <3> QED
      BY <3>1, <3>2, <3>3
  <2>5. from \in Nat
    BY <2>2, <2>3
  <2> HIDE DEF old, new
  <2>6. LoadWord(a, old, from) = LoadWord(a, new, from)
    BY <2>4, <2>5, LoadWordSame
  <2> QED
    BY <2>6 DEF old, new, from
<1> QED
  BY <1>1, <1>2 DEF Alike

(* One iteration: the kernel compresses the blocks the reference does. *)
LEMMA PassAgrees ==
  ASSUME NEW a \in Algorithms, NEW lanes \in Nat \ {0}, NEW n \in Nat, n % lanes = 0,
         NEW bytes \in Nat, NEW slot \in Nat, NEW lane \in 0 .. lanes - 1,
         slot * lanes + lane < n, NEW msg, NEW fb,
         Alike(a, bytes, BuildMessage(slot * lanes + lane, bytes), msg, fb)
  PROVE  Pass(Shaped(a, lanes, n, bytes), slot, lane, fb) = State(a, msg, bytes)
<1> DEFINE c == Shaped(a, lanes, n, bytes)
           blocks == BlocksFor(a, bytes)
           m == slot * lanes + lane
           pad == PadMessage(a, msg, bytes)
           built == Built(a, m, bytes)
           from(b, j) == (b - 1) * BlockBytes(a) + (j - 1) * a.wordBytes
           Word(b, j) == IF b = 1 /\ j <= a.words THEN fb[j] ELSE Load(c, slot, b - 1, j - 1, lane)
<1>1. c.alg = a /\ c.blocks = blocks /\ blocks \in Nat
  BY BlocksAre DEF Shaped
<1>2. Pass(c, slot, lane, fb) = [b \in 1 .. blocks |-> [j \in 1 .. 16 |-> Word(b, j)]]
  <2> HIDE DEF c, blocks
  <2>1. Pass(c, slot, lane, fb) = Seen(a, c, slot, lane, fb)
    BY <1>1, PassIs
  <2> QED
    BY <1>1, <2>1, Zenon DEF Seen
<1>3. State(a, msg, bytes) = [b \in 1 .. blocks |-> [j \in 1 .. 16 |-> LoadWord(a, pad, from(b, j))]]
  <2>1. 16 = WordsPerBlock
    BY DEF WordsPerBlock
  <2>2. State(a, msg, bytes) = Padded(a, msg, bytes)
    BY PaddingAgrees
  <2> QED
    BY <2>1, <2>2, Zenon DEF Padded, BlockOf
<1>4. ASSUME NEW b \in 1 .. blocks, NEW j \in 1 .. 16
      PROVE  Word(b, j) = LoadWord(a, pad, from(b, j))
  <2>1. CASE b = 1 /\ j <= a.words
    <3>1. j \in 1 .. a.words /\ from(b, j) = (j - 1) * a.wordBytes
      <4>1. a.wordBytes \in {4, 8} /\ BlockBytes(a) \in {64, 128} /\ a.words \in {4, 5, 8}
        BY AlgorithmIs
      <4> QED
        BY <2>1, <4>1
    <3>2. fb[j] = LoadWord(a, pad, (j - 1) * a.wordBytes)
      BY <3>1 DEF Alike
    <3> QED
      BY <2>1, <3>1, <3>2
  <2>2. CASE ~(b = 1 /\ j <= a.words)
    <3> DEFINE b0 == b - 1
               j0 == j - 1
    <3>1. b0 \in 0 .. blocks - 1 /\ j0 \in 0 .. 15
      BY <1>1
    <3> HIDE DEF b0, j0
    <3>2. Load(c, slot, b0, j0, lane) = LoadWord(a, built, b0 * BlockBytes(a) + j0 * a.wordBytes)
      <4> DEFINE w == <<b0, j0>>
      <4>1. w \in Words(a, bytes) /\ w[1] = b0 /\ w[2] = j0
        BY <3>1 DEF Words
      <4> HIDE DEF w
      <4>2. Load(c, slot, w[1], w[2], lane) = BuiltWord(a, m, bytes, w)
        BY <4>1, LoadIs
      <4> QED
        BY <4>1, <4>2, Zenon DEF BuiltWord
    <3>3. LoadWord(a, built, from(b, j)) = LoadWord(a, pad, from(b, j))
      BY <2>2, OtherWords DEF Built
    <3> QED
      BY <2>2, <3>2, <3>3, Zenon DEF b0, j0
  <2> QED
    BY <2>1, <2>2
<1> HIDE DEF c, blocks, Word, from, pad
<1>5. \A b \in 1 .. blocks : [j \in 1 .. 16 |-> Word(b, j)]
                               = [j \in 1 .. 16 |-> LoadWord(a, pad, from(b, j))]
  BY <1>4, Zenon
<1>6. Pass(c, slot, lane, fb) = State(a, msg, bytes)
  BY <1>2, <1>3, <1>5, Zenon
<1> QED
  BY <1>6 DEF c

(* Another iteration leaves them alike. *)
LEMMA AlikeNext ==
  ASSUME NEW a \in Algorithms, NEW bytes \in Nat, bytes >= DigestBytes(a),
         NEW original, NEW msg, NEW fb, Alike(a, bytes, original, msg, fb)
  PROVE  Alike(a, bytes, original, Rehashed(a, bytes, msg),
               DigestWords(a, State(a, msg, bytes)))
<1> DEFINE new == Rehashed(a, bytes, msg)
           fed == DigestWords(a, State(a, msg, bytes))
           pad == PadMessage(a, new, bytes)
<1>1. new = [p \in 0 .. bytes - 1 |-> IF p < DigestBytes(a) THEN Hash(a, msg, bytes)[p] ELSE msg[p]]
  BY Zenon DEF Rehashed
<1>2. DigestBytes(a) \in Nat
  BY AlgorithmIs
<1> HIDE DEF new
<1>3. \A p \in 0 .. bytes - 1 : p >= DigestBytes(a) => new[p] = original[p]
  BY <1>1, <1>2 DEF Alike
<1>4. \A p \in 0 .. DigestBytes(a) - 1 : pad[p] = Hash(a, msg, bytes)[p]
  <2> TAKE p \in 0 .. DigestBytes(a) - 1
  <2>1. p \in 0 .. bytes - 1 /\ p < DigestBytes(a)
    BY <1>2
  <2>2. pad[p] = new[p]
    BY <2>1, PadIs
  <2> QED
    BY <1>1, <2>1, <2>2
<1> HIDE DEF pad
<1>5. \A j \in 1 .. a.words : LoadWord(a, pad, (j - 1) * a.wordBytes) = <<State(a, msg, bytes), j>>
  BY <1>4, DigestLoads
<1>6. \A j \in 1 .. a.words : fed[j] = LoadWord(a, pad, (j - 1) * a.wordBytes)
  BY <1>5 DEF DigestWords
<1> HIDE DEF fed
<1>7. Alike(a, bytes, original, new, fed)
  BY <1>3, <1>6, Zenon DEF Alike, pad
<1> QED
  BY <1>7 DEF new, fed

(* After every iteration, what a kernel holds of a lane is the message of the
   reference. *)
LEMMA ChainsAgree ==
  ASSUME NEW a \in Algorithms, NEW lanes \in Nat \ {0}, NEW n \in Nat, n % lanes = 0,
         NEW bytes \in Nat, NEW slot \in Nat, NEW lane \in 0 .. lanes - 1,
         slot * lanes + lane < n, NEW iterations \in Nat \ {0},
         iterations = 1 \/ bytes >= DigestBytes(a),
         NEW f, Messages(a, slot * lanes + lane, bytes, iterations, f),
         NEW g, Feeds(Shaped(a, lanes, n, bytes), slot, lane, iterations, g),
         NEW it \in 1 .. iterations
  PROVE  Alike(a, bytes, BuildMessage(slot * lanes + lane, bytes), f[it], g[it])
<1> DEFINE c == Shaped(a, lanes, n, bytes)
           m == slot * lanes + lane
           original == BuildMessage(m, bytes)
           Good(k) == Alike(a, bytes, original, f[k], g[k])
           S == { k \in 1 .. iterations : ~Good(k) }
<1>1. c.alg = a
  BY DEF Shaped
<1>2. /\ f[1] = original
      /\ \A k \in 2 .. iterations : f[k] = Rehashed(a, bytes, f[k - 1])
  <2>1. f = [k \in 1 .. iterations |-> IF k = 1 THEN original ELSE Rehashed(a, bytes, f[k - 1])]
    BY Zenon DEF Messages
  <2>2. 1 \in 1 .. iterations /\ \A k \in 2 .. iterations : k \in 1 .. iterations /\ k # 1
    OBVIOUS
  <2> HIDE DEF original
  <2> QED
    BY <2>1, <2>2, Zenon
<1>3. /\ g[1] = Begins(c, slot, lane)
      /\ \A k \in 2 .. iterations : g[k] = FedBack(c, slot, lane, g[k - 1])
  <2>1. g = [k \in 1 .. iterations |-> IF k = 1 THEN Begins(c, slot, lane)
                                       ELSE FedBack(c, slot, lane, g[k - 1])]
    BY Zenon DEF Feeds
  <2>2. 1 \in 1 .. iterations /\ \A k \in 2 .. iterations : k \in 1 .. iterations /\ k # 1
    OBVIOUS
  <2> HIDE DEF c
  <2> QED
    BY <2>1, <2>2, Zenon
<1>4. Good(1)
  <2>1. ASSUME NEW j \in 1 .. a.words
        PROVE  g[1][j] = LoadWord(a, PadMessage(a, f[1], bytes), (j - 1) * a.wordBytes)
    <3>1. g[1][j] = Load(c, slot, 0, j - 1, lane)
      BY <1>1, <1>3 DEF Begins
    <3> DEFINE j0 == j - 1
               b0 == 0
    <3>2. b0 \in 0 .. BlocksFor(a, bytes) - 1 /\ j0 \in 0 .. 15
      <4>1. BlocksFor(a, bytes) \in Nat \ {0} /\ a.words \in {4, 5, 8}
        BY AlgorithmIs, BlocksAre
      <4> QED
        BY <4>1
    <3>3. b0 * BlockBytes(a) + j0 * a.wordBytes = (j - 1) * a.wordBytes
      <4>1. a.wordBytes \in {4, 8} /\ BlockBytes(a) \in {64, 128}
        BY AlgorithmIs
      <4> QED
        BY <4>1
    <3> HIDE DEF j0, b0
    <3>4. Load(c, slot, b0, j0, lane)
            = LoadWord(a, Built(a, m, bytes), b0 * BlockBytes(a) + j0 * a.wordBytes)
      <4> DEFINE w == <<b0, j0>>
      <4>1. w \in Words(a, bytes) /\ w[1] = b0 /\ w[2] = j0
        BY <3>2 DEF Words
      <4> HIDE DEF w
      <4>2. Load(c, slot, w[1], w[2], lane) = BuiltWord(a, m, bytes, w)
        BY <4>1, LoadIs
      <4> QED
        BY <4>1, <4>2, Zenon DEF BuiltWord
    <3> QED
      BY <1>2, <3>1, <3>3, <3>4, Zenon DEF j0, b0, Built
  <2>2. f[1] = original
    BY <1>2
  <2> HIDE DEF original
  <2> QED
    BY <2>1, <2>2, Zenon DEF Alike
<1>5. ASSUME NEW k \in 2 .. iterations, Good(k - 1) PROVE Good(k)
  <2> DEFINE msg == f[k - 1]
             fb == g[k - 1]
  <2>1. bytes >= DigestBytes(a)
    OBVIOUS
  <2> HIDE DEF msg, fb
  <2>2. Alike(a, bytes, original, msg, fb)
    BY <1>5 DEF msg, fb
  <2>3. Pass(c, slot, lane, fb) = State(a, msg, bytes)
    BY <2>2, PassAgrees
  <2>4. g[k] = DigestWords(a, State(a, msg, bytes))
    <3> HIDE DEF c
    <3> QED
      BY <1>1, <1>3, <2>3, Zenon DEF FedBack, Feedback, fb
  <2>5. f[k] = Rehashed(a, bytes, msg)
    BY <1>2, Zenon DEF msg
  <2> HIDE DEF original
  <2>6. Alike(a, bytes, original, Rehashed(a, bytes, msg), DigestWords(a, State(a, msg, bytes)))
    BY <2>1, <2>2, AlikeNext
  <2> QED
    BY <2>4, <2>5, <2>6, Zenon
<1> SUFFICES S = {}
  OBVIOUS
<1>6. SUFFICES ASSUME S # {} PROVE FALSE
  OBVIOUS
<1> HIDE DEF Good
<1>7. PICK k \in S : \A l \in S : k <= l
  <2>1. S \subseteq Nat
    OBVIOUS
  <2> HIDE DEF S
  <2> QED
    BY <1>6, <2>1, LeastExists
<1>8. k \in 2 .. iterations /\ ~Good(k)
  BY <1>4, <1>7
<1>9. k - 1 \in 1 .. iterations /\ ~(k <= k - 1)
  BY <1>8
<1>10. Good(k - 1)
  BY <1>7, <1>9
<1> QED
  BY <1>5, <1>8, <1>10

\* A lane of a slot of a corpus of n messages.
LaneIn(n, lanes, slot, lane) ==
  /\ lanes \in Nat \ {0} /\ n \in Nat /\ n % lanes = 0
  /\ slot \in Nat /\ lane \in 0 .. lanes - 1
  /\ slot * lanes + lane < n

\* So many iterations of so long a message: a digest that is fed back fits.
Room(a, bytes, iterations) ==
  /\ bytes \in Nat /\ iterations \in Nat \ {0}
  /\ iterations = 1 \/ bytes >= DigestBytes(a)

(* A kernel computes of a lane the digest the reference computes of its
   message: for every algorithm, every number of lanes, every corpus those
   divide, every length of message and every number of iterations, as long as
   a digest that is fed back has room in the message. *)
THEOREM LanesAgree ==
  ASSUME NEW a \in Algorithms, NEW n, NEW lanes, NEW slot, NEW lane,
         LaneIn(n, lanes, slot, lane),
         NEW bytes, NEW iterations, Room(a, bytes, iterations)
  PROVE  LaneDigest(Shaped(a, lanes, n, bytes), slot, lane, iterations)
           = RefDigest(a, slot * lanes + lane, bytes, iterations)
<1> DEFINE c == Shaped(a, lanes, n, bytes)
           m == slot * lanes + lane
<1>0. /\ lanes \in Nat \ {0} /\ n \in Nat /\ n % lanes = 0
      /\ slot \in Nat /\ lane \in 0 .. lanes - 1 /\ slot * lanes + lane < n
      /\ bytes \in Nat /\ iterations \in Nat \ {0}
      /\ iterations = 1 \/ bytes >= DigestBytes(a)
  BY DEF LaneIn, Room
<1>1. iterations \in 1 .. iterations /\ c.alg = a
  BY <1>0 DEF Shaped
<1>2. PICK f : /\ Messages(a, m, bytes, iterations, f)
               /\ RefDigest(a, m, bytes, iterations) = DigestWords(a, State(a, f[iterations], bytes))
  <2>1. bytes \in Nat /\ iterations \in Nat
    BY <1>0
  <2> HIDE DEF m
  <2> QED
    BY <2>1, RefDigestIs
<1>3. PICK g : /\ Feeds(c, slot, lane, iterations, g)
               /\ LaneDigest(c, slot, lane, iterations)
                    = DigestWords(c.alg, Pass(c, slot, lane, g[iterations]))
  BY <1>0, LaneDigestIs
<1>4. Alike(a, bytes, BuildMessage(m, bytes), f[iterations], g[iterations])
  BY <1>0, <1>1, <1>2, <1>3, ChainsAgree
<1>5. Pass(c, slot, lane, g[iterations]) = State(a, f[iterations], bytes)
  BY <1>0, <1>4, PassAgrees
<1> QED
  BY <1>1, <1>2, <1>3, <1>5

-----------------------------------------------------------------------------
(* Whose digest a digest is. *)

(* Numbers less than 256 * b apart that end in the same octet are the same, or
   what is left of them without it is less than b apart. *)
LEMMA SameOctet ==
  ASSUME NEW u \in Nat, NEW v \in Nat, NEW b \in Nat,
         u % 256 = v % 256, u - v < 256 * b, v - u < 256 * b
  PROVE  /\ u \div 256 \in Nat /\ v \div 256 \in Nat
         /\ (u \div 256) - (v \div 256) < b /\ (v \div 256) - (u \div 256) < b
         /\ u \div 256 = v \div 256 => u = v
<1> DEFINE q == u \div 256
           r == v \div 256
           e == u % 256
<1>1. q \in Nat /\ r \in Nat /\ e \in Nat /\ u = 256 * q + e /\ v = 256 * r + e
  OBVIOUS
<1> HIDE DEF q, r, e
<1>2. q - r < b /\ r - q < b /\ (q = r => u = v)
  BY <1>1
<1> QED
  BY <1>1, <1>2 DEF q, r

(* What each octet of a number is. *)
LEMMA OctetsAre ==
  ASSUME NEW u \in Nat
  PROVE  /\ OctetOf(u, 0) = <<u % 256>>
         /\ OctetOf(u, 1) = <<(u \div 256) % 256>>
         /\ OctetOf(u, 2) = <<((u \div 256) \div 256) % 256>>
         /\ OctetOf(u, 3) = <<(((u \div 256) \div 256) \div 256) % 256>>
<1>1. 256 ^ 0 = 1 /\ 256 ^ 1 = 256 /\ 256 ^ 2 = 65536 /\ 256 ^ 3 = 16777216
  OBVIOUS
<1>2. /\ u \div 1 = u
      /\ u \div 65536 = (u \div 256) \div 256
      /\ u \div 16777216 = (u \div 65536) \div 256
  OBVIOUS
<1> QED
  BY <1>1, <1>2 DEF OctetOf

\* The numbers agree in so many octets.
SameOctets(octets, u, v) == \A p \in 0 .. octets - 1 : OctetOf(u, p) = OctetOf(v, p)

(* As many octets as tell n numbers in a row apart. *)
LEMMA OctetsTell ==
  ASSUME NEW u \in Nat, NEW v \in Nat, NEW n \in Nat, u - v < n, v - u < n,
         NEW octets \in 1 .. 4, (n - 1) \div 256 ^ (octets - 1) < 256,
         SameOctets(octets, u, v)
  PROVE  u = v
<1> DEFINE u1 == u \div 256
           v1 == v \div 256
           u2 == u1 \div 256
           v2 == v1 \div 256
           u3 == u2 \div 256
           v3 == v2 \div 256
<1>1. /\ u1 \in Nat /\ v1 \in Nat /\ u2 \in Nat /\ v2 \in Nat /\ u3 \in Nat /\ v3 \in Nat
  <2>1. u1 \in Nat /\ v1 \in Nat
    OBVIOUS
  <2> HIDE DEF u1, v1
  <2>2. u2 \in Nat /\ v2 \in Nat
    BY <2>1
  <2> HIDE DEF u2, v2
  <2> QED
    BY <2>1, <2>2
<1>2. /\ OctetOf(u, 0) = <<u % 256>> /\ OctetOf(v, 0) = <<v % 256>>
      /\ OctetOf(u, 1) = <<u1 % 256>> /\ OctetOf(v, 1) = <<v1 % 256>>
      /\ OctetOf(u, 2) = <<u2 % 256>> /\ OctetOf(v, 2) = <<v2 % 256>>
      /\ OctetOf(u, 3) = <<u3 % 256>> /\ OctetOf(v, 3) = <<v3 % 256>>
  BY OctetsAre
<1>3. 256 ^ 0 = 1 /\ 256 ^ 1 = 256 /\ 256 ^ 2 = 65536 /\ 256 ^ 3 = 16777216
  OBVIOUS
<1> HIDE DEF u1, v1, u2, v2, u3, v3
<1>0. \A x, y : <<x>> = <<y>> => x = y
  OBVIOUS
<1> \A p \in 0 .. octets - 1 : OctetOf(u, p) = OctetOf(v, p)
  BY DEF SameOctets
<1>4. u % 256 = v % 256
  BY <1>2, <1>0, 0 \in 0 .. octets - 1
<1>5. octets >= 2 => u1 % 256 = v1 % 256
  BY <1>2, <1>0, octets >= 2 => 1 \in 0 .. octets - 1
<1>6. octets >= 3 => u2 % 256 = v2 % 256
  BY <1>2, <1>0, octets >= 3 => 2 \in 0 .. octets - 1
<1>7. octets = 4 => u3 % 256 = v3 % 256
  BY <1>2, <1>0, octets = 4 => 3 \in 0 .. octets - 1
<1>8. CASE octets = 1
  <2>1. n <= 256
    BY <1>3, <1>8
  <2> QED
    BY <1>4, <2>1
<1>9. CASE octets = 2
  <2>1. n <= 256 * 256
    BY <1>3, <1>9
  <2>2. u1 - v1 < 256 /\ v1 - u1 < 256 /\ (u1 = v1 => u = v)
    BY <1>4, <2>1, SameOctet DEF u1, v1
  <2> QED
    BY <1>1, <1>5, <1>9, <2>2
<1>10. CASE octets = 3
  <2>1. n <= 256 * 65536
    BY <1>3, <1>10
  <2>2. u1 - v1 < 256 * 256 /\ v1 - u1 < 256 * 256 /\ (u1 = v1 => u = v)
    BY <1>4, <2>1, SameOctet DEF u1, v1
  <2>3. u2 - v2 < 256 /\ v2 - u2 < 256 /\ (u2 = v2 => u1 = v1)
    BY <1>1, <1>5, <1>10, <2>2, SameOctet DEF u2, v2
  <2> QED
    BY <1>1, <1>6, <1>10, <2>2, <2>3
<1>11. CASE octets = 4
  <2>1. n <= 256 * 16777216
    BY <1>3, <1>11
  <2>2. u1 - v1 < 256 * 65536 /\ v1 - u1 < 256 * 65536 /\ (u1 = v1 => u = v)
    BY <1>4, <2>1, SameOctet DEF u1, v1
  <2>3. u2 - v2 < 256 * 256 /\ v2 - u2 < 256 * 256 /\ (u2 = v2 => u1 = v1)
    BY <1>1, <1>5, <1>11, <2>2, SameOctet DEF u2, v2
  <2>4. u3 - v3 < 256 /\ v3 - u3 < 256 /\ (u3 = v3 => u2 = v2)
    BY <1>1, <1>6, <1>11, <2>3, SameOctet DEF u3, v3
  <2> QED
    BY <1>1, <1>7, <1>11, <2>2, <2>3, <2>4
<1> QED
  BY <1>8, <1>9, <1>10, <1>11
(* Two of n messages with distinct content that begin with the same word are one. *)
LEMMA FirstWord ==
  ASSUME NEW a \in Algorithms, NEW bytes \in Nat \ {0}, NEW n \in Nat, AllDistinct(n, bytes),
         NEW m \in 0 .. n - 1, NEW m2 \in 0 .. n - 1,
         LoadWord(a, Built(a, m, bytes), 0) = LoadWord(a, Built(a, m2, bytes), 0)
  PROVE  m = m2
<1> DEFINE W == a.wordBytes
           T == BlocksFor(a, bytes) * BlockBytes(a)
           In(x) == IF a.big THEN x - 1 ELSE W - x
           octets(k) == [x \in 1 .. W |-> Built(a, k, bytes)[0 + In(x)]]
           At(p) == IF a.big THEN p + 1 ELSE W - p
           index == IF bytes < 4 THEN bytes ELSE 4
<1>1. W \in {4, 8} /\ a.big \in BOOLEAN
  BY AlgorithmIs
<1>2. T \in Nat /\ bytes < T - 8
  BY PadRoom
<1>3. \A k : LoadWord(a, Built(a, k, bytes), 0) = Collapse(octets(k))
  BY Zenon DEF LoadWord
<1>4. /\ index \in 1 .. 4 /\ 1 \in 1 .. W
      /\ \A p \in 0 .. index - 1 : /\ p \in 0 .. bytes - 1 /\ p < 4
                                   /\ 0 + In(At(p)) = p /\ At(p) \in 1 .. W
  BY <1>1
<1>5. ASSUME NEW k \in 0 .. n - 1
      PROVE  /\ \A p \in 0 .. index - 1 : octets(k)[At(p)] = OctetOf(StartIndex + k, p)
             /\ Collapse(octets(k)) = octets(k)
  <2>1. ASSUME NEW p \in 0 .. index - 1
        PROVE  octets(k)[At(p)] = OctetOf(StartIndex + k, p)
    <3>1. octets(k)[At(p)] = Built(a, k, bytes)[p]
      BY <1>4
    <3>2. p \in 0 .. bytes - 1 /\ p < 4
      BY <1>4
    <3>3. Built(a, k, bytes)[p] = BuildMessage(k, bytes)[p]
      BY <3>2, PadIs DEF Built
    <3>4. BuildMessage(k, bytes)[p] = OctetOf(StartIndex + k, p)
      BY <3>2 DEF BuildMessage
    <3> QED
      BY <3>1, <3>3, <3>4, Zenon
  <2>6. \A p \in 0 .. T - 1 : \E v : Built(a, k, bytes)[p] = <<v>>
    <3> TAKE p \in 0 .. T - 1
    <3>1. Built(a, k, bytes)[p] =
            IF p >= T - 8 THEN LengthOctet(a, bytes, p - T + 8)
            ELSE IF p < bytes THEN BuildMessage(k, bytes)[p]
            ELSE IF p = bytes THEN <<128>> ELSE <<0>>
      BY DEF Built, PadMessage
    <3>2. \A u, power : \E v : OctetOf(u, power) = <<v>>
      BY DEF OctetOf
    <3>3. \E v : LengthOctet(a, bytes, p - T + 8) = <<v>>
      BY <3>2 DEF LengthOctet
    <3>4. ASSUME p < bytes PROVE \E v : BuildMessage(k, bytes)[p] = <<v>>
      <4>1. p \in 0 .. bytes - 1
        BY <1>2, <3>4
      <4>2. BuildMessage(k, bytes)[p] = IF p < 4 THEN OctetOf(StartIndex + k, p)
                                        ELSE <<(p * 157 + 59) % 256>>
        BY <4>1 DEF BuildMessage
      <4> QED
        BY <3>2, <4>2, Zenon
    <3> QED
      BY <3>1, <3>3, <3>4, Zenon
  <2>7. In(1) \in 0 .. T - 1 /\ 0 + In(1) = In(1)
    <3>1. BlocksFor(a, bytes) \in Nat \ {0} /\ BlockBytes(a) \in {64, 128}
      BY AlgorithmIs, BlocksAre
    <3>2. T >= 64
      <4>1. CASE BlockBytes(a) = 64
        BY <3>1, <4>1
      <4>2. CASE BlockBytes(a) = 128
        BY <3>1, <4>2
      <4> QED
        BY <3>1, <4>1, <4>2
    <3> HIDE DEF T
    <3> QED
      BY <1>1, <1>2, <3>2
  <2>8. PICK v : octets(k)[1] = <<v>>
    <3>1. octets(k)[1] = Built(a, k, bytes)[In(1)]
      BY <1>4, <2>7
    <3> QED
      BY <2>6, <2>7, <3>1
  <2> HIDE DEF octets
  <2>9. Len(octets(k)[1]) # 2
    BY <2>8
  <2> QED
    BY <2>1, <2>9, Zenon DEF Collapse
<1> HIDE DEF octets, At
<1>6. octets(m) = octets(m2)
  BY <1>3, <1>5
<1> DEFINE u == StartIndex + m
           v == StartIndex + m2
<1>7. SameOctets(index, u, v)
  BY <1>5, <1>6, Zenon DEF SameOctets
<1>8. /\ u \in Nat /\ v \in Nat /\ u - v = m - m2
      /\ u - v < n /\ v - u < n
  BY StartIndexAssumption
<1>9. (n - 1) \div 256 ^ (index - 1) < 256
  BY Zenon DEF AllDistinct
<1> HIDE DEF u, v, index
<1>10. u = v
  BY <1>4, <1>7, <1>8, <1>9, OctetsTell
<1> QED
  BY <1>8, <1>10

(* Messages whose states are the same begin with the same word. *)
LEMMA SameState ==
  ASSUME NEW a \in Algorithms, NEW bytes \in Nat, NEW f, NEW g,
         State(a, f, bytes) = State(a, g, bytes)
  PROVE  LoadWord(a, PadMessage(a, f, bytes), 0) = LoadWord(a, PadMessage(a, g, bytes), 0)
<1>1. ASSUME NEW h
      PROVE  State(a, h, bytes)[1][1] = LoadWord(a, PadMessage(a, h, bytes), 0)
  <2>1. State(a, h, bytes) = Padded(a, h, bytes)
    BY PaddingAgrees
  <2>2. 1 \in 1 .. BlocksFor(a, bytes) /\ 1 \in 1 .. WordsPerBlock
    BY BlocksAre DEF WordsPerBlock
  <2>3. (1 - 1) * BlockBytes(a) + (1 - 1) * a.wordBytes = 0 /\ (1 - 1) * BlockBytes(a) = 0
    <3>1. BlockBytes(a) \in {64, 128} /\ a.wordBytes \in {4, 8}
      BY AlgorithmIs
    <3> QED
      BY <3>1
  <2>4. Padded(a, h, bytes)[1]
          = BlockOf(a, PadMessage(a, h, bytes), (1 - 1) * BlockBytes(a))
    BY <2>2, Zenon DEF Padded
  <2>5. BlockOf(a, PadMessage(a, h, bytes), (1 - 1) * BlockBytes(a))[1]
          = LoadWord(a, PadMessage(a, h, bytes),
                     (1 - 1) * BlockBytes(a) + (1 - 1) * a.wordBytes)
    BY <2>2, Zenon DEF BlockOf
  <2> QED
    BY <2>1, <2>3, <2>4, <2>5, Zenon
<1> QED
  BY <1>1, Zenon

(* A message that was hashed begins with the state it was hashed to. *)
LEMMA RehashedBegins ==
  ASSUME NEW a \in Algorithms, NEW bytes \in Nat, bytes >= DigestBytes(a), NEW msg
  PROVE  LoadWord(a, PadMessage(a, Rehashed(a, bytes, msg), bytes), 0)
           = <<State(a, msg, bytes), 1>>
<1> DEFINE new == Rehashed(a, bytes, msg)
           pad == PadMessage(a, new, bytes)
<1>1. new = [p \in 0 .. bytes - 1 |-> IF p < DigestBytes(a) THEN Hash(a, msg, bytes)[p] ELSE msg[p]]
  BY Zenon DEF Rehashed
<1>2. DigestBytes(a) \in Nat /\ a.words \in {4, 5, 8} /\ a.wordBytes \in {4, 8}
  BY AlgorithmIs
<1> HIDE DEF new
<1>3. \A p \in 0 .. DigestBytes(a) - 1 : pad[p] = Hash(a, msg, bytes)[p]
  <2> TAKE p \in 0 .. DigestBytes(a) - 1
  <2>1. p \in 0 .. bytes - 1 /\ p < DigestBytes(a)
    BY <1>2
  <2>2. pad[p] = new[p]
    BY <2>1, PadIs
  <2> QED
    BY <1>1, <2>1, <2>2
<1> HIDE DEF pad
<1>4. 1 \in 1 .. a.words /\ (1 - 1) * a.wordBytes = 0
  BY <1>2
<1>5. LoadWord(a, pad, (1 - 1) * a.wordBytes) = <<State(a, msg, bytes), 1>>
  BY <1>3, <1>4, DigestLoads
<1> QED
  BY <1>4, <1>5, Zenon DEF pad, new

\* Two of n messages that have one digest.
Twins(a, bytes, iterations, n, m, m2) ==
  /\ n \in Nat /\ AllDistinct(n, bytes)
  /\ m \in 0 .. n - 1 /\ m2 \in 0 .. n - 1
  /\ RefDigest(a, m, bytes, iterations) = RefDigest(a, m2, bytes, iterations)

(* No two messages of a range whose messages are distinct have a digest in common. *)
LEMMA DigestsDiffer ==
  ASSUME NEW a \in Algorithms, NEW bytes, NEW iterations, Room(a, bytes, iterations), bytes # 0,
         NEW n, NEW m, NEW m2, Twins(a, bytes, iterations, n, m, m2)
  PROVE  m = m2
<1>0. /\ bytes \in Nat \ {0} /\ bytes \in Nat /\ iterations \in Nat \ {0} /\ iterations \in Nat
      /\ iterations = 1 \/ bytes >= DigestBytes(a)
  BY DEF Room
<1> n \in Nat /\ m \in 0 .. n - 1 /\ m2 \in 0 .. n - 1 /\ AllDistinct(n, bytes)
  BY DEF Twins
<1>1. PICK f : /\ Messages(a, m, bytes, iterations, f)
               /\ RefDigest(a, m, bytes, iterations) = DigestWords(a, State(a, f[iterations], bytes))
  BY <1>0, RefDigestIs
<1>2. PICK g : /\ Messages(a, m2, bytes, iterations, g)
               /\ RefDigest(a, m2, bytes, iterations) = DigestWords(a, State(a, g[iterations], bytes))
  BY <1>0, RefDigestIs
<1> DEFINE Same(k) == State(a, f[k], bytes) = State(a, g[k], bytes)
           S == { k \in 1 .. iterations : Same(k) }
<1>3. Same(iterations)
  <2>1. 1 \in 1 .. a.words
    BY AlgorithmIs
  <2>2. \A h : DigestWords(a, h)[1] = <<h, 1>>
    BY <2>1 DEF DigestWords
  <2> DEFINE s == State(a, f[iterations], bytes)
             t == State(a, g[iterations], bytes)
  <2>3. DigestWords(a, s) = DigestWords(a, t)
    BY <1>1, <1>2 DEF Twins
  <2> HIDE DEF s, t
  <2>4. <<s, 1>> = <<t, 1>>
    BY <2>2, <2>3
  <2>5. s = t
    BY <2>4
  <2> QED
    BY <2>5 DEF s, t
<1>4. 1 \in 1 .. iterations /\ \A k \in 2 .. iterations : k \in 1 .. iterations /\ k # 1
  BY <1>0
<1>5. /\ f[1] = BuildMessage(m, bytes)
      /\ \A k \in 2 .. iterations : f[k] = Rehashed(a, bytes, f[k - 1])
  <2>1. f = [k \in 1 .. iterations |-> IF k = 1 THEN BuildMessage(m, bytes)
                                       ELSE Rehashed(a, bytes, f[k - 1])]
    BY <1>1, Zenon DEF Messages
  <2> QED
    BY <1>4, <2>1, Zenon
<1>6. /\ g[1] = BuildMessage(m2, bytes)
      /\ \A k \in 2 .. iterations : g[k] = Rehashed(a, bytes, g[k - 1])
  <2>1. g = [k \in 1 .. iterations |-> IF k = 1 THEN BuildMessage(m2, bytes)
                                       ELSE Rehashed(a, bytes, g[k - 1])]
    BY <1>2, Zenon DEF Messages
  <2> QED
    BY <1>4, <2>1, Zenon
<1>7. ASSUME Same(1) PROVE m = m2
  <2>1. LoadWord(a, Built(a, m, bytes), 0) = LoadWord(a, Built(a, m2, bytes), 0)
    BY <1>0, <1>5, <1>6, <1>7, SameState DEF Built
  <2> QED
    BY <1>0, <2>1, FirstWord
<1>8. ASSUME NEW k \in 2 .. iterations, Same(k) PROVE Same(k - 1)
  <2>1. bytes \in Nat /\ bytes >= DigestBytes(a)
    BY <1>0
  <2> DEFINE p == f[k - 1]
             q == g[k - 1]
  <2>2. f[k] = Rehashed(a, bytes, p) /\ g[k] = Rehashed(a, bytes, q)
    BY <1>5, <1>6, Zenon
  <2> HIDE DEF p, q
  <2>3. State(a, Rehashed(a, bytes, p), bytes) = State(a, Rehashed(a, bytes, q), bytes)
    BY <1>8, <2>2
  <2>4. LoadWord(a, PadMessage(a, Rehashed(a, bytes, p), bytes), 0)
          = LoadWord(a, PadMessage(a, Rehashed(a, bytes, q), bytes), 0)
    BY <2>1, <2>3, SameState
  <2>5. <<State(a, p, bytes), 1>> = <<State(a, q, bytes), 1>>
    BY <2>1, <2>4, RehashedBegins
  <2>6. State(a, p, bytes) = State(a, q, bytes)
    BY <2>5
  <2> QED
    BY <2>6 DEF p, q
<1> HIDE DEF Same
<1>9. S \subseteq Nat /\ iterations \in S
  BY <1>0, <1>3
<1>10. PICK k \in S : \A l \in S : k <= l
  <2> HIDE DEF S
  <2> QED
    BY <1>9, LeastExists
<1>11. k = 1
  <2> SUFFICES ASSUME k # 1 PROVE FALSE
    OBVIOUS
  <2>1. k \in 2 .. iterations /\ Same(k) /\ k - 1 \in 1 .. iterations /\ ~(k <= k - 1)
    BY <1>0, <1>10
  <2>2. k - 1 \in S
    BY <1>8, <2>1
  <2> QED
    BY <1>10, <2>1, <2>2
<1> QED
  BY <1>7, <1>10, <1>11

(* Of a family in which no two are the same, XOR leaves all. *)
LEMMA OddIs ==
  ASSUME NEW f, \A x, y \in DOMAIN f : f[x] = f[y] => x = y
  PROVE  Odd(f) = {f[x] : x \in DOMAIN f}
<1>1. ASSUME NEW x \in DOMAIN f
      PROVE  Cardinality({y \in DOMAIN f : f[y] = f[x]}) % 2 = 1
  <2>1. {y \in DOMAIN f : f[y] = f[x]} = {x}
    OBVIOUS
  <2>2. Cardinality({x}) = 1
    BY FS_Singleton
  <2>3. 1 % 2 = 1
    OBVIOUS
  <2> QED
    BY <2>1, <2>2, <2>3
<1> QED
  BY <1>1, Zenon DEF Odd

(* What is made of so many has no rest. *)
LEMMA Divides ==
  ASSUME NEW k \in Nat, NEW base \in Nat \ {0}, NEW n, n = k * base
  PROVE  n % base = 0
<1> DEFINE u == n \div base
           v == n % base
<1>1. n \in Nat
  OBVIOUS
<1>2. u \in Nat /\ v \in 0 .. base - 1 /\ n = base * u + v
  <2>1. u \in Nat /\ v \in Nat /\ v < base /\ n = base * u + v
    BY <1>1, Division
  <2> HIDE DEF u, v
  <2> QED
    BY <2>1
<1> HIDE DEF u, v
<1>3. u * base + v = k * base + 0 /\ 0 \in 0 .. base - 1
  BY <1>1, <1>2
<1>4. v = 0
  BY <1>2, <1>3, Radix
<1> QED
  BY <1>4 DEF v

\* The lanes of a kernel, and the message that is a lane.
LanesOf(groups, streams, lanes) == (0 .. groups - 1) \X (0 .. streams - 1) \X (0 .. lanes - 1)
MessageAt(streams, lanes, x) == (x[1] * streams + x[2]) * lanes + x[3]

(* The groups, the streams and the lanes of a kernel count the messages, each
   once. *)
LEMMA LanesAreMessages ==
  ASSUME NEW groups \in Nat, NEW streams \in Nat \ {0}, NEW lanes \in Nat \ {0},
         NEW x \in LanesOf(groups, streams, lanes)
  PROVE  /\ x[1] * streams + x[2] \in Nat /\ x[3] \in 0 .. lanes - 1
         /\ MessageAt(streams, lanes, x) \in 0 .. (groups * streams) * lanes - 1
         /\ \A y \in LanesOf(groups, streams, lanes) :
              MessageAt(streams, lanes, x) = MessageAt(streams, lanes, y) => x = y
<1> PICK p \in 0 .. groups - 1, s \in 0 .. streams - 1, l \in 0 .. lanes - 1 : x = <<p, s, l>>
  BY DEF LanesOf
<1> DEFINE slot == p * streams + s
<1>1. slot \in Nat /\ slot < groups * streams /\ groups * streams \in Nat
  <2>1. p \in Nat /\ p < groups /\ groups * streams \in Nat
    OBVIOUS
  <2> QED
    BY <2>1, Radix
<1> DEFINE above == groups * streams
<1> HIDE DEF slot, above
<1>2. slot * lanes + l \in Nat /\ slot * lanes + l < above * lanes
  BY <1>1, Radix DEF above
<1>3. slot * lanes + l \in 0 .. above * lanes - 1
  <2>1. above * lanes \in Nat
    BY <1>1 DEF above
  <2> DEFINE z == slot * lanes + l
             w == above * lanes
  <2>2. z \in Nat /\ w \in Nat /\ z < w
    BY <1>2, <2>1
  <2> HIDE DEF z, w
  <2>3. z \in 0 .. w - 1
    BY <2>2
  <2> QED
    BY <2>3 DEF z, w
<1>4. MessageAt(streams, lanes, x) = slot * lanes + l
  BY DEF MessageAt, slot
<1>5. ASSUME NEW y \in LanesOf(groups, streams, lanes),
             MessageAt(streams, lanes, x) = MessageAt(streams, lanes, y)
      PROVE  x = y
  <2> PICK q \in 0 .. groups - 1, t \in 0 .. streams - 1, k \in 0 .. lanes - 1 : y = <<q, t, k>>
    BY DEF LanesOf
  <2> DEFINE other == q * streams + t
  <2>1. other \in Nat
    BY Radix
  <2>2. MessageAt(streams, lanes, y) = other * lanes + k
    BY DEF MessageAt
  <2>3. slot = other => p = q /\ s = t
    <3> SUFFICES ASSUME slot = other PROVE p = q /\ s = t
      OBVIOUS
    <3>1. q * streams + t = p * streams + s /\ q \in Nat /\ p \in Nat
      BY DEF slot
    <3> QED
      BY <3>1, Radix
  <2> HIDE DEF other
  <2>4. slot = other /\ l = k
    <3>1. other * lanes + k = slot * lanes + l
      BY <1>4, <1>5, <2>2
    <3> QED
      BY <1>1, <2>1, <3>1, Radix
  <2> QED
    BY <2>3, <2>4
<1> QED
  BY <1>1, <1>3, <1>4, <1>5 DEF slot, above

MessagesOf(groups, streams, lanes) == 0 .. (groups * streams) * lanes - 1

(* And leave none out. *)
LEMMA MessagesAreLanes ==
  ASSUME NEW groups \in Nat, NEW streams \in Nat \ {0}, NEW lanes \in Nat \ {0},
         NEW m \in MessagesOf(groups, streams, lanes)
  PROVE  \E x \in LanesOf(groups, streams, lanes) : MessageAt(streams, lanes, x) = m
<1> DEFINE slot == m \div lanes
           l == m % lanes
           p == slot \div streams
           s == slot % streams
           above == groups * streams
<1>1. slot \in Nat /\ l \in 0 .. lanes - 1 /\ m = slot * lanes + l /\ above \in Nat /\ m < above * lanes
  <2>1. m \in 0 .. above * lanes - 1
    BY DEF MessagesOf
  <2>2. above \in Nat /\ above * lanes \in Nat
    OBVIOUS
  <2> HIDE DEF above
  <2> QED
    BY <2>1, <2>2
<1> HIDE DEF slot, l, above
<1>2. slot < above
  <2> SUFFICES ASSUME above <= slot PROVE FALSE
    BY <1>1
  <2>1. slot - above \in Nat
    BY <1>1
  <2>2. (slot - above) * lanes \in Nat /\ slot * lanes = above * lanes + (slot - above) * lanes
    BY <1>1, <2>1
  <2> QED
    BY <1>1, <2>2
<1>3. p \in Nat /\ s \in 0 .. streams - 1 /\ slot = p * streams + s
  BY <1>1
<1> HIDE DEF p, s
<1>4. p < groups
  <2> SUFFICES ASSUME groups <= p PROVE FALSE
    BY <1>3
  <2>1. p - groups \in Nat
    BY <1>3
  <2>2. (p - groups) * streams \in Nat /\ p * streams = groups * streams + (p - groups) * streams
    BY <1>3, <2>1
  <2> QED
    BY <1>2, <1>3, <2>2 DEF above
<1>5. <<p, s, l>> \in LanesOf(groups, streams, lanes)
  BY <1>1, <1>3, <1>4 DEF LanesOf
<1>6. MessageAt(streams, lanes, <<p, s, l>>) = m
  BY <1>1, <1>3 DEF MessageAt
<1> QED
  BY <1>5, <1>6

\* The digests the reference folds for messages 0 .. n - 1.
RefChecksum(a, n, bytes, iterations) == {RefDigest(a, m, bytes, iterations) : m \in 0 .. n - 1}

(* The checksum of a kernel holds the reference's digest of every message of
   its corpus: whatever its lanes and its streams. *)
LEMMA KernelIs ==
  ASSUME NEW a \in Algorithms, NEW groups \in Nat, NEW streams \in Nat \ {0},
         NEW lanes \in Nat \ {0}, NEW n \in Nat, n = (groups * streams) * lanes,
         NEW bytes, NEW iterations, Room(a, bytes, iterations), bytes # 0,
         AllDistinct(n, bytes)
  PROVE  Kernel(Shaped(a, lanes, n, bytes), streams, groups, iterations)
           = RefChecksum(a, n, bytes, iterations)
<1> DEFINE c == Shaped(a, lanes, n, bytes)
           D == LanesOf(groups, streams, lanes)
           At(x) == MessageAt(streams, lanes, x)
           R(m) == RefDigest(a, m, bytes, iterations)
           f == [x \in D |-> LaneDigest(c, x[1] * streams + x[2], x[3], iterations)]
<1>1. Kernel(c, streams, groups, iterations) = Odd(f)
  <2>1. c.lanes = lanes
    BY DEF Shaped
  <2> HIDE DEF c
  <2> QED
    BY <2>1, Zenon DEF Kernel, LanesOf
<1>2. n % lanes = 0
  <2> DEFINE above == groups * streams
  <2>1. above \in Nat /\ n = above * lanes
    OBVIOUS
  <2> HIDE DEF above
  <2> QED
    BY <2>1, Divides
<1>3. ASSUME NEW x \in D PROVE f[x] = R(At(x)) /\ At(x) \in 0 .. n - 1
  <2>1. x[1] * streams + x[2] \in Nat /\ x[3] \in 0 .. lanes - 1
    BY LanesAreMessages
  <2>2. At(x) \in 0 .. n - 1
    BY LanesAreMessages
  <2> DEFINE slot == x[1] * streams + x[2]
             lane == x[3]
  <2>3. At(x) = slot * lanes + lane
    BY DEF MessageAt
  <2>4. f[x] = LaneDigest(c, slot, lane, iterations)
    OBVIOUS
  <2> HIDE DEF slot, lane, At, f, c
  <2>5. slot \in Nat /\ lane \in 0 .. lanes - 1 /\ slot * lanes + lane < n
    BY <2>1, <2>2, <2>3 DEF slot, lane
  <2>6. LaneIn(n, lanes, slot, lane)
    BY <1>2, <2>5 DEF LaneIn
  <2>7. LaneDigest(c, slot, lane, iterations) = R(slot * lanes + lane)
    BY <2>6, LanesAgree DEF c
  <2> QED
    BY <2>2, <2>3, <2>4, <2>7
<1>4. \A x, y \in D : At(x) = At(y) => x = y
  BY LanesAreMessages
<1>5. ASSUME NEW m \in 0 .. n - 1
      PROVE  \E x \in D : At(x) = m
  <2>1. m \in MessagesOf(groups, streams, lanes)
    BY DEF MessagesOf
  <2> HIDE DEF At, D
  <2>2. \E x \in LanesOf(groups, streams, lanes) : MessageAt(streams, lanes, x) = m
    BY <2>1, MessagesAreLanes
  <2> QED
    BY <2>2 DEF At, D
<1>6. \A m, k \in 0 .. n - 1 : R(m) = R(k) => m = k
  <2> TAKE m, k \in 0 .. n - 1
  <2>1. R(m) = R(k) => Twins(a, bytes, iterations, n, m, k)
    BY DEF Twins
  <2> QED
    BY <2>1, DigestsDiffer
<1>7. DOMAIN f = D
  OBVIOUS
<1> HIDE DEF f, c, D, At, R
<1>8. Odd(f) = {f[x] : x \in D}
  <2>1. ASSUME NEW x \in DOMAIN f, NEW y \in DOMAIN f, f[x] = f[y] PROVE x = y
    BY <1>3, <1>4, <1>6, <1>7, <2>1, Zenon
  <2> QED
    BY <1>7, <2>1, OddIs
<1>9. {f[x] : x \in D} = {R(m) : m \in 0 .. n - 1}
  <2>1. \A x \in D : f[x] \in {R(m) : m \in 0 .. n - 1}
    BY <1>3, Zenon
  <2>2. \A m \in 0 .. n - 1 : R(m) \in {f[x] : x \in D}
    BY <1>3, <1>5, Zenon
  <2> QED
    BY <2>1, <2>2, Zenon
<1> QED
  BY <1>1, <1>8, <1>9, Zenon DEF c, R, RefChecksum

(* What a kernel found in a corpus is the range of its messages. *)
LEMMA HashedIs ==
  ASSUME NEW a \in Algorithms, NEW bytes \in Lengths(a), NEW it \in Rounds(a, bytes),
         NEW n \in Sizes, NEW lanes \in LaneCounts, NEW streams \in Streams,
         AllDistinct(n, bytes), n % (lanes * streams) = 0
  PROVE  HashedBy[a][bytes][it][n][lanes][streams] = 0 .. n - 1
<1> DEFINE digests == RefDigests[a][bytes][it][n]
           all == 0 .. n - 1
           R(m) == RefDigest(a, m, bytes, it)
           groups == n \div (lanes * streams)
           checksum == Kernel(Corpora[a][bytes][n][lanes], streams, groups, it)
<1>1. /\ n \in Nat \ {0} /\ lanes \in Nat \ {0} /\ streams \in Nat \ {0}
  BY SizesAssumption, ShapesAssumption
<1>2. bytes \in Nat \ {0}
  <2>1. /\ DigestBytes(a) \in Nat \ {0} /\ BlockBytes(a) \in {64, 128} /\ a.lengthBytes \in {8, 16}
    BY AlgorithmIs
  <2> QED
    BY <2>1 DEF Lengths
<1>3. Room(a, bytes, it) /\ bytes # 0
  BY <1>2, LadderAssumption DEF Rounds, Room
<1>4. groups \in Nat /\ n = (groups * streams) * lanes
  <2> DEFINE unit == lanes * streams
  <2>1. unit \in Nat \ {0}
    BY <1>1
  <2>2. n % unit = 0
    OBVIOUS
  <2> HIDE DEF unit
  <2>3. n \div unit \in Nat /\ n = (n \div unit) * unit
    BY <1>1, <2>1, <2>2
  <2> DEFINE q == n \div unit
  <2> HIDE DEF q
  <2>4. q \in Nat /\ n = q * unit
    BY <2>3 DEF q
  <2>5. q * unit = (q * streams) * lanes
    BY <1>1, <2>4 DEF unit
  <2> QED
    BY <2>4, <2>5 DEF q, unit
<1>5. n % lanes = 0
  <2> DEFINE above == groups * streams
  <2>1. above \in Nat /\ n = above * lanes
    <3> HIDE DEF groups
    <3> QED
      BY <1>1, <1>4
  <2> HIDE DEF above
  <2> QED
    BY <1>1, <2>1, Divides
<1>6. Corpora[a][bytes][n][lanes] = Shaped(a, lanes, n, bytes)
  <2>1. Corpora[a][bytes][n][lanes]
          = [memory |-> IF n % lanes # 0 THEN <<>> ELSE CorpusBuild(a, lanes, n, bytes),
             alg |-> a, lanes |-> lanes, blocks |-> BlocksFor(a, bytes)]
    BY Zenon DEF Corpora
  <2> QED
    BY <1>5, <2>1, Zenon DEF Shaped
<1>7. checksum = {R(m) : m \in 0 .. n - 1}
  <2>1. n \in Nat
    BY <1>1
  <2>2. checksum = RefChecksum(a, n, bytes, it)
    <3>1. checksum = Kernel(Shaped(a, lanes, n, bytes), streams, groups, it)
      BY <1>6, Zenon
    <3> HIDE DEF groups, checksum
    <3>2. Kernel(Shaped(a, lanes, n, bytes), streams, groups, it) = RefChecksum(a, n, bytes, it)
      BY <1>1, <1>3, <1>4, <2>1, KernelIs
    <3> QED
      BY <3>1, <3>2
  <2> QED
    BY <2>2, Zenon DEF RefChecksum
<1>8. digests = [m \in all |-> R(m)]
  BY Zenon DEF RefDigests
<1>9. HashedBy[a][bytes][it][n][lanes][streams] = {MessageOf(digests, d) : d \in checksum}
  <2>1. HashedBy[a][bytes][it][n][lanes][streams]
          = IF n % (lanes * streams) # 0 THEN {} ELSE {MessageOf(digests, d) : d \in checksum}
    BY Zenon DEF HashedBy
  <2> QED
    BY <2>1, Zenon
<1>10. 0 .. n - 1 \subseteq all
  OBVIOUS
<1>11. \A m, k \in all : R(m) = R(k) => m = k
  <2>1. ASSUME NEW m \in all, NEW k \in all,
               RefDigest(a, m, bytes, it) = RefDigest(a, k, bytes, it)
        PROVE  m = k
    <3>1. Twins(a, bytes, it, n, m, k)
      BY <1>1, <2>1 DEF Twins
    <3>2. Room(a, bytes, it) /\ bytes # 0
      BY <1>3
    <3> HIDE DEF all, digests, R, groups, checksum
    <3> QED
      BY <3>1, <3>2, DigestsDiffer
  <2> QED
    BY <2>1, Zenon
<1> HIDE DEF digests, all, R, groups, checksum
<1>12. ASSUME NEW m \in all PROVE MessageOf(digests, R(m)) = m
  <2>1. DOMAIN digests = all /\ \A k \in all : digests[k] = R(k)
    BY <1>8
  <2>2. \A k \in DOMAIN digests : digests[k] = R(m) => k = m
    BY <1>11, <2>1
  <2>3. m \in DOMAIN digests /\ digests[m] = R(m)
    BY <2>1
  <2>4. MessageOf(digests, R(m)) = CHOOSE k \in DOMAIN digests : digests[k] = R(m)
    BY <2>3 DEF MessageOf
  <2> QED
    BY <2>2, <2>3, <2>4, Zenon
<1>13. {MessageOf(digests, d) : d \in {R(m) : m \in 0 .. n - 1}} = 0 .. n - 1
  <2>1. \A m \in 0 .. n - 1 : MessageOf(digests, R(m)) = m
    BY <1>10, <1>12
  <2> QED
    BY <2>1
<1> QED
  BY <1>7, <1>9, <1>13

(* A kernel without a fault is never failed.  As long as no slice is denied its
   message buffer, what vb_reference_checksums_mt returns for a range of
   messages is what every kernel finds in the corpus of that range: for every
   number of lanes, streams, iterations and threads, and every range main lets
   pass. *)
THEOREM ReferenceKernelsAgree == MallocFails = FALSE /\ Spec => []KernelsAgree
<1> SUFFICES ASSUME MallocFails = FALSE
             PROVE  Spec => []KernelsAgree
  OBVIOUS
<1>1. Spec => []ReferenceExact
  BY ReferenceIsExact
<1>2. ReferenceExact => KernelsAgree
  <2> SUFFICES ASSUME ReferenceExact, pc = "returned", count \in Sizes
               PROVE  \A a \in Algorithms : \A bytes \in Lengths(a) : \A it \in Rounds(a, bytes) :
                        \A lanes \in LaneCounts, streams \in Streams :
                          AllDistinct(count, bytes) /\ count % (lanes * streams) = 0
                            => HashedBy[a][bytes][it][count][lanes][streams] = out
    BY Zenon DEF KernelsAgree
  <2> TAKE a \in Algorithms
  <2> TAKE bytes \in Lengths(a)
  <2> TAKE it \in Rounds(a, bytes)
  <2> TAKE lanes \in LaneCounts, streams \in Streams
  <2> HAVE AllDistinct(count, bytes) /\ count % (lanes * streams) = 0
  <2>1. out = 0 .. count - 1
    BY DEF ReferenceExact, Message
  <2> QED
    BY <2>1, HashedIs
<1> QED
  BY <1>1, <1>2, PTL

=============================================================================
