--------------------------- MODULE DeviceMeasureProofs ---------------------------
(***************************************************************************)
(* A measurement on any set of devices, however its calls fail: no figure  *)
(* over a wrong digest, no context left behind, and every group hashed by  *)
(* exactly one device and in exactly one of its chunks.                    *)
(*                                                                         *)
(* SliceTiles is the arithmetic of vb_dev_slice.  Setting follows          *)
(* measure_device through its set-up, Contexts counts what there is to     *)
(* free, Compared says what each phase has let through and Told what is    *)
(* said of a pass that was not.  Last, the list of devices, for every      *)
(* machine: the folds of the model are taken one device at a time.         *)
(***************************************************************************)
EXTENDS DeviceMeasure, FiniteSetTheorems, SequenceTheorems, WellFoundedInduction, TLAPS

-----------------------------------------------------------------------------
(* Slices. *)

(* A non-empty set of naturals has a least element. *)
LEMMA LeastExists ==
  ASSUME NEW S, S \subseteq Nat, S # {}
  PROVE  \E m \in S : \A k \in S : m <= k
<1> DEFINE R == OpToRel(<, Nat)
<1>1. IsWellFoundedOn(R, Nat)
  BY NatLessThanWellFounded
<1>2. \A j, k \in Nat : <<j, k>> \in R <=> j < k
  BY DEF OpToRel
<1> HIDE DEF R
<1>3. PICK m \in S : \A k \in S : ~(<<k, m>> \in R)
  BY <1>1, WFMin
<1>4. ASSUME NEW k \in S PROVE m <= k
  <2>1. k \in Nat /\ m \in Nat /\ ~(k < m)
    BY <1>2, <1>3
  <2> QED
    BY <2>1
<1> QED
  BY <1>4

LEMMA Divide ==
  ASSUME NEW n \in Nat \ {0}, NEW t \in Nat
  PROVE  /\ t = n * (t \div n) + (t % n)
         /\ t \div n \in Nat /\ t % n \in 0 .. n - 1
  OBVIOUS

(* The slices of a total follow one another from nothing up to the whole. *)
LEMMA SliceFollows ==
  ASSUME NEW total \in Nat, NEW n \in Nat \ {0}, NEW i \in Nat
  PROVE  /\ Slice(total, n, i).first \in Nat /\ Slice(total, n, i).count \in Nat
         /\ Slice(total, n, i + 1).first = Slice(total, n, i).first + Slice(total, n, i).count
<1> DEFINE base == total \div n
           extra == total % n
<1>1. base \in Nat /\ extra \in Nat
  BY Divide
<1>2. /\ Slice(total, n, i).first = i * base + (IF i < extra THEN i ELSE extra)
      /\ Slice(total, n, i).count = base + (IF i < extra THEN 1 ELSE 0)
      /\ Slice(total, n, i + 1).first = (i + 1) * base + (IF i + 1 < extra THEN i + 1 ELSE extra)
  BY DEF Slice
<1> HIDE DEF base, extra
<1>3. (i + 1) * base = i * base + base /\ i * base \in Nat
  BY <1>1
<1> DEFINE p == i * base
           q == (i + 1) * base
<1> HIDE DEF p, q
<1>4. /\ Slice(total, n, i).first = p + (IF i < extra THEN i ELSE extra)
      /\ Slice(total, n, i + 1).first = q + (IF i + 1 < extra THEN i + 1 ELSE extra)
      /\ q = p + base /\ p \in Nat
  BY <1>2, <1>3 DEF p, q
<1> QED
  BY <1>1, <1>2, <1>4

LEMMA SliceEnds ==
  ASSUME NEW total \in Nat, NEW n \in Nat \ {0}
  PROVE  Slice(total, n, 0).first = 0 /\ Slice(total, n, n).first = total
<1> DEFINE base == total \div n
           extra == total % n
<1>1. base \in Nat /\ extra \in 0 .. n - 1 /\ total = n * base + extra
  BY Divide
<1>2. /\ Slice(total, n, 0).first = 0 * base + (IF 0 < extra THEN 0 ELSE extra)
      /\ Slice(total, n, n).first = n * base + (IF n < extra THEN n ELSE extra)
  BY DEF Slice
<1> HIDE DEF base, extra
<1>3. 0 * base = 0
  BY <1>1
<1> QED
  BY <1>1, <1>2, <1>3

LEMMA SliceCounts ==
  ASSUME NEW total \in Nat, NEW n \in Nat \ {0}, NEW i \in Nat
  PROVE  /\ Slice(total, n, i).count <= Slice(total, n, 0).count
         /\ n <= total => Slice(total, n, i).count > 0
<1> DEFINE base == total \div n
           extra == total % n
<1>1. base \in Nat /\ extra \in 0 .. n - 1 /\ total = n * base + extra
  BY Divide
<1>2. /\ Slice(total, n, 0).count = base + (IF 0 < extra THEN 1 ELSE 0)
      /\ Slice(total, n, i).count = base + (IF i < extra THEN 1 ELSE 0)
  BY DEF Slice
<1> HIDE DEF base, extra
<1>3. ASSUME n <= total PROVE base # 0
  <2> SUFFICES ASSUME base = 0 PROVE FALSE
    OBVIOUS
  <2>1. n * base = 0
    BY <1>1
  <2> QED
    BY <1>1, <1>3, <2>1
<1> QED
  BY <1>1, <1>2, <1>3

(* A later slice begins where or after an earlier one ends. *)
LEMMA SliceOrder ==
  ASSUME NEW total \in Nat, NEW n \in Nat \ {0}, NEW i \in Nat, NEW j \in Nat, i < j
  PROVE  Slice(total, n, i).first + Slice(total, n, i).count <= Slice(total, n, j).first
<1> DEFINE First(k) == Slice(total, n, k).first
           S == { k \in Nat : i < k /\ First(k) < First(i + 1) }
<1>1. S = {}
  <2> SUFFICES ASSUME S # {} PROVE FALSE
    OBVIOUS
  <2>1. PICK k \in S : \A l \in S : k <= l
    BY LeastExists
  <2>2. k \in Nat /\ i < k /\ First(k) < First(i + 1)
    BY <2>1
  <2>3. \A l \in Nat : First(l) \in Nat
    BY SliceFollows
  <2> HIDE DEF First
  <2>4. k # i + 1
    BY <2>2, <2>3
  <2>5. k - 1 \in Nat /\ i < k - 1 /\ ~(k <= k - 1)
    BY <2>2, <2>4
  <2>6. k - 1 \notin S
    BY <2>1, <2>5
  <2>7. ~(First(k - 1) < First(i + 1))
    BY <2>5, <2>6
  <2>8. First(k - 1) <= First((k - 1) + 1)
    <3>1. /\ First((k - 1) + 1) = First(k - 1) + Slice(total, n, k - 1).count
          /\ Slice(total, n, k - 1).count \in Nat /\ First(k - 1) \in Nat
      BY <2>5, SliceFollows DEF First
    <3> QED
      BY <3>1
  <2>9. (k - 1) + 1 = k
    BY <2>2
  <2> QED
    BY <2>2, <2>3, <2>5, <2>7, <2>8, <2>9
<1>2. First(i + 1) = First(i) + Slice(total, n, i).count
  BY SliceFollows
<1>3. First(j) \in Nat /\ First(i + 1) \in Nat
  BY SliceFollows
<1>4. ~(First(j) < First(i + 1))
  BY <1>1
<1> QED
  BY <1>2, <1>3, <1>4

(* Every number below the total is in one slice. *)
LEMMA SliceOf ==
  ASSUME NEW total \in Nat, NEW n \in Nat \ {0}, NEW g \in 0 .. total - 1
  PROVE  \E i \in 0 .. n - 1 : /\ Slice(total, n, i).first <= g
                               /\ g < Slice(total, n, i).first + Slice(total, n, i).count
<1> DEFINE First(k) == Slice(total, n, k).first
           S == { k \in 0 .. n : g < First(k) }
<1>1. First(0) = 0 /\ First(n) = total /\ \A k \in Nat : First(k) \in Nat
  BY SliceEnds, SliceFollows
<1> HIDE DEF First
<1>2. n \in S /\ S \subseteq Nat
  BY <1>1
<1>3. PICK k \in S : \A l \in S : k <= l
  <2> HIDE DEF S
  <2> QED
    BY <1>2, LeastExists
<1>4. k \in 0 .. n /\ g < First(k) /\ k # 0
  BY <1>1, <1>3
<1>5. k - 1 \in 0 .. n - 1 /\ ~(k <= k - 1)
  BY <1>4
<1>6. k - 1 \notin S
  BY <1>3, <1>5
<1>7. ~(g < First(k - 1))
  BY <1>5, <1>6
<1>8. First(k - 1) <= g
  BY <1>1, <1>5, <1>7
<1>9. First(k) = First(k - 1) + Slice(total, n, k - 1).count
  <2>1. k = (k - 1) + 1 /\ k - 1 \in Nat
    BY <1>4, <1>5
  <2> QED
    BY <2>1, SliceFollows DEF First
<1> QED
  BY <1>4, <1>5, <1>8, <1>9 DEF First

(* vb_dev_slice divides a total of at least n between n parts: each number is in
   exactly one, none is empty, none is larger than the first. *)
THEOREM SliceTiles ==
  ASSUME NEW total \in Nat, NEW n \in Nat \ {0}, n <= total,
         NEW S, DOMAIN S = 1 .. n,
         \A s \in 1 .. n : S[s] = Slice(total, n, s - 1)
  PROVE  Partition(S, total) /\ \A s \in 1 .. n : S[s].count <= S[1].count
<1>1. ASSUME NEW s \in 1 .. n
      PROVE  /\ S[s].first \in Nat /\ S[s].count \in Nat
             /\ S[s].count > 0 /\ S[s].count <= S[1].count
  <2>1. s - 1 \in Nat /\ S[s] = Slice(total, n, s - 1) /\ S[1] = Slice(total, n, 0)
    BY <1>1
  <2> QED
    BY <2>1, SliceFollows, SliceCounts
<1>2. ASSUME NEW s \in 1 .. n, NEW t \in 1 .. n, s < t
      PROVE  S[s].first + S[s].count <= S[t].first
  <2>1. s - 1 \in Nat /\ t - 1 \in Nat /\ s - 1 < t - 1
    BY <1>2
  <2> QED
    BY <2>1, SliceOrder
<1>3. ASSUME NEW s \in 1 .. n PROVE Groups(S[s]) \subseteq 0 .. total - 1
  <2>1. S[s].first + S[s].count <= total
    <3>1. s - 1 \in Nat /\ n \in Nat /\ s - 1 < n /\ S[s] = Slice(total, n, s - 1)
      OBVIOUS
    <3>2. /\ Slice(total, n, s - 1).first + Slice(total, n, s - 1).count
               <= Slice(total, n, n).first
      BY <3>1, SliceOrder
    <3>3. Slice(total, n, n).first = total
      BY SliceEnds
    <3> QED
      BY <3>1, <3>2, <3>3
  <2> QED
    BY <1>1, <2>1 DEF Groups
<1>4. ASSUME NEW g \in 0 .. total - 1
      PROVE  Cardinality({ s \in DOMAIN S : g \in Groups(S[s]) }) = 1
  <2>1. PICK i \in 0 .. n - 1 : /\ Slice(total, n, i).first <= g
                                /\ g < Slice(total, n, i).first + Slice(total, n, i).count
    BY SliceOf
  <2> DEFINE k == i + 1
  <2>2. k \in 1 .. n /\ S[k] = Slice(total, n, i)
    BY <2>1
  <2>3. g \in Groups(S[k])
    BY <1>1, <2>1, <2>2 DEF Groups
  <2>4. ASSUME NEW t \in 1 .. n, g \in Groups(S[t]) PROVE t = k
    <3>1. S[t].first <= g /\ g < S[t].first + S[t].count
      BY <1>1, <2>4 DEF Groups
    <3>2. S[k].first <= g /\ g < S[k].first + S[k].count
      BY <2>1, <2>2
    <3> HIDE DEF k
    <3>3. /\ t < k => S[t].first + S[t].count <= S[k].first
          /\ k < t => S[k].first + S[k].count <= S[t].first
      BY <1>2, <2>2
    <3>4. /\ S[t].first \in Nat /\ S[t].count \in Nat
          /\ S[k].first \in Nat /\ S[k].count \in Nat
      BY <1>1, <2>2
    <3> DEFINE p == S[t].first
               q == p + S[t].count
               u == S[k].first
               v == u + S[k].count
    <3>5. /\ p <= g /\ g < q /\ u <= g /\ g < v
          /\ t < k => q <= u
          /\ k < t => v <= p
      BY <3>1, <3>2, <3>3, Zenon
    <3>6. g \in Nat /\ p \in Nat /\ q \in Nat /\ u \in Nat /\ v \in Nat
      <4>1. \A x, y \in Nat : x + y \in Nat
        OBVIOUS
      <4>2. g \in Nat
        OBVIOUS
      <4> QED
        BY <3>4, <4>1, <4>2, Zenon
    <3> HIDE DEF p, q, u, v
    <3>7. ~(t < k) /\ ~(k < t)
      BY <3>5, <3>6
    <3> QED
      BY <2>2, <3>7
  <2>5. { s \in DOMAIN S : g \in Groups(S[s]) } = {k}
    BY <2>2, <2>3, <2>4
  <2> QED
    BY <2>5, FS_Singleton
<1> QED
  BY <1>1, <1>3, <1>4 DEF Partition

(* A slice of some groups is cut into one chunk at least and one per group at
   most, whatever was asked for and however little memory there is. *)
LEMMA ChunksInRange ==
  ASSUME NEW asked \in Nat, NEW groups \in Nat \ {0}, NEW mem
  PROVE  Chunks(asked, groups, mem) \in 1 .. groups
<1> DEFINE Fit(c) == \/ c >= groups \/ c = MaxChunks
                     \/ 2 * Slice(groups, c, 0).count <= mem \div MemShare
           S == { c \in 1 .. MaxChunks : Fit(c) }
<1>1. MaxChunks \in Nat \ {0}
  BY ListAssumption
<1>2. AutoChunks(groups, mem) \in Nat \ {0}
  <2>1. MaxChunks \in S
    BY <1>1
  <2> HIDE DEF Fit
  <2>a. S \subseteq Nat
    BY <1>1
  <2>2. PICK m \in S : \A k \in S : m <= k
    <3> HIDE DEF S
    <3> QED
      BY <2>1, <2>a, LeastExists
  <2>3. ASSUME NEW d \in 1 .. m - 1 PROVE ~Fit(d)
    <3>1. d \in 1 .. MaxChunks /\ ~(m <= d)
      BY <1>1, <2>2
    <3> QED
      BY <2>2, <3>1
  <2>4. \E c \in 1 .. MaxChunks : Fit(c) /\ \A d \in 1 .. c - 1 : ~Fit(d)
    BY <2>2, <2>3
  <2> DEFINE least == CHOOSE c \in 1 .. MaxChunks : Fit(c) /\ \A d \in 1 .. c - 1 : ~Fit(d)
  <2>5. least \in 1 .. MaxChunks
    BY <2>4
  <2>6. AutoChunks(groups, mem) \in {1, least}
    BY Zenon DEF AutoChunks, Fit
  <2> HIDE DEF least
  <2> QED
    BY <1>1, <2>5, <2>6
<1> QED
  BY <1>2 DEF Chunks

-----------------------------------------------------------------------------
(* Setting up. *)

Over    == {"measured", "returned", "exited"}
Passing == {"check", "succeeded"} \cup Streaming

DeviceSlice == [mine : [first : Nat, count : Nat], chunks : Nat]

Setting ==
  /\ using \in Seq(Nat) /\ IsInjective(using) /\ NumDevices <= ask.groups
  /\ slices \in Seq(DeviceSlice)
  /\ \A i \in 1 .. Len(slices) :
       /\ slices[i].mine = Slice(ask.groups, NumDevices, i - 1)
       /\ slices[i].chunks \in 1 .. slices[i].mine.count
  /\ at = "begin" => nInit = 0 /\ using = <<>> /\ slices = <<>>
  /\ at = "init" => nInit < NumDevices /\ Len(slices) = nInit
  /\ at \in Passing => Len(slices) = NumDevices /\ NumDevices > 0
  /\ at \in {"begin", "init", "check"} \cup Streaming => sampled < NumSamples

LEMMA AskType ==
  ASSUME TypeOK
  PROVE  /\ ask.groups \in Nat \ {0} /\ ask.chunks \in Nat
         /\ ask.named \in Seq(Nat) /\ IsInjective(ask.named)
  BY AsksAssumption DEF TypeOK

\* The first entries of a list without repetition, as many as wanted.
LEMMA UptoOf ==
  ASSUME NEW s \in Seq(Nat), s # <<>>, IsInjective(s), NEW n \in Nat \ {0}
  PROVE  /\ Upto(s, n) \in Seq(Nat) /\ IsInjective(Upto(s, n))
         /\ Len(Upto(s, n)) \in 1 .. n /\ Range(Upto(s, n)) \subseteq Range(s)
<1> DEFINE k == IF Len(s) < n THEN Len(s) ELSE n
           t == Upto(s, n)
<1>1. /\ Len(s) \in Nat \ {0} /\ DOMAIN s = 1 .. Len(s)
      /\ \A i \in 1 .. Len(s) : s[i] \in Nat
  BY EmptySeq, LenProperties, ElementOfSeq
<1>2. k \in 1 .. n /\ k <= Len(s)
  BY <1>1
<1> HIDE DEF k
<1>3. t = SubSeq(s, 1, k)
  BY DEF Upto, k
<1>4. /\ t \in Seq(Nat) /\ Len(t) = k /\ \A i \in 1 .. k : t[i] = s[i]
  <2>1. k \in Int /\ 1 \in Int /\ \A i \in 1 .. k : s[i] \in Nat
    BY <1>1, <1>2
  <2>2. /\ SubSeq(s, 1, k) \in Seq(Nat)
        /\ Len(SubSeq(s, 1, k)) = IF 1 <= k THEN k - 1 + 1 ELSE 0
        /\ \A i \in 1 .. k - 1 + 1 : SubSeq(s, 1, k)[i] = s[1 + i - 1]
    BY <2>1, SubSeqProperties
  <2>3. k - 1 + 1 = k /\ \A i \in 1 .. k : 1 + i - 1 = i
    BY <1>2
  <2> QED
    BY <1>2, <1>3, <2>2, <2>3
<1>5. DOMAIN t = 1 .. k
  BY <1>4, LenProperties
<1> HIDE DEF t
<1>6. \A i \in 1 .. k : i \in DOMAIN s
  BY <1>1, <1>2
<1>7. IsInjective(t)
  BY <1>4, <1>5, <1>6 DEF IsInjective
<1>8. Range(t) \subseteq Range(s)
  BY <1>4, <1>5, <1>6 DEF Range
<1> QED
  BY <1>2, <1>4, <1>7, <1>8 DEF t

LEMMA SettingSelect ==
  ASSUME TypeOK, Setting, Select
  PROVE  /\ using' \in Seq(Nat) /\ IsInjective(using') /\ Len(using') \in 1 .. ask.groups
         /\ Range(using') \subseteq DOMAIN List
<1> DEFINE R == { i \in 1 .. Len(List) : Reachable(i) }
           named == [i \in 1 .. Len(ask.named) |-> ask.named[i] + 1]
<1>1. PICK chosen \in IF ask.named = <<>> THEN InOrder(R) ELSE {named} :
        /\ chosen # <<>>
        /\ \A i \in Range(chosen) : IF i \in DOMAIN List THEN Reachable(i) ELSE FALSE
        /\ using' = Upto(chosen, ask.groups)
  BY DEF Select
<1>2. chosen \in Seq(Nat) /\ IsInjective(chosen)
  <2>1. CASE ask.named = <<>>
    <3>1. PICK n \in 0 .. DevMax :
            /\ chosen \in [1 .. n -> R]
            /\ \A i, j \in 1 .. n : i < j => chosen[i] < chosen[j]
      BY <1>1, <2>1 DEF InOrder
    <3>2. n \in Nat /\ R \subseteq Nat
      BY ListAssumption
    <3>3. chosen \in [1 .. n -> Nat]
      BY <3>1, <3>2
    <3>4. chosen \in Seq(Nat)
      BY <3>2, <3>3, SeqDef
    <3>5. ASSUME NEW i \in 1 .. n, NEW j \in 1 .. n, chosen[i] = chosen[j] PROVE i = j
      <4>1. chosen[i] \in Nat /\ ~(i < j) /\ ~(j < i)
        BY <3>1, <3>3, <3>5
      <4> QED
        BY <3>2, <4>1
    <3> QED
      BY <3>3, <3>4, <3>5 DEF IsInjective
  <2>2. CASE ask.named # <<>>
    <3>1. /\ Len(ask.named) \in Nat /\ DOMAIN ask.named = 1 .. Len(ask.named)
          /\ \A i \in 1 .. Len(ask.named) : ask.named[i] \in Nat
          /\ IsInjective(ask.named)
      BY AskType, LenProperties, ElementOfSeq
    <3>2. named \in [1 .. Len(ask.named) -> Nat]
      BY <3>1
    <3>3. named \in Seq(Nat)
      BY <3>1, <3>2, SeqDef
    <3>4. IsInjective(named)
      <4> SUFFICES ASSUME NEW i \in 1 .. Len(ask.named), NEW j \in 1 .. Len(ask.named),
                          named[i] = named[j]
                   PROVE  i = j
        BY DEF IsInjective
      <4>1. ask.named[i] \in Nat /\ ask.named[j] \in Nat
        BY <3>1
      <4>2. ask.named[i] = ask.named[j]
        BY <4>1
      <4> QED
        BY <3>1, <4>2 DEF IsInjective
    <3> QED
      BY <1>1, <2>2, <3>3, <3>4
  <2> QED
    BY <2>1, <2>2
<1>3. /\ using' \in Seq(Nat) /\ IsInjective(using') /\ Len(using') \in 1 .. ask.groups
      /\ Range(using') \subseteq Range(chosen)
  BY <1>1, <1>2, UptoOf, AskType
<1>4. Range(chosen) \subseteq DOMAIN List
  BY <1>1
<1> QED
  BY <1>3, <1>4

LEMMA SettingInitDevice ==
  ASSUME TypeOK, Setting, InitDevice
  PROVE  /\ slices' \in Seq(DeviceSlice) /\ Len(slices') = nInit + 1
         /\ \A i \in 1 .. Len(slices') :
              /\ slices'[i].mine = Slice(ask.groups, NumDevices, i - 1)
              /\ slices'[i].chunks \in 1 .. slices'[i].mine.count
<1> DEFINE mine == Slice(ask.groups, NumDevices, nInit)
           mem  == List[using[nInit + 1]][ask.api].mem
           k    == IF transfer = "pipelined" THEN Chunks(ask.chunks, mine.count, mem) ELSE 1
           new  == [mine |-> mine, chunks |-> k]
<1>1. /\ slices' = Append(slices, new) /\ slices \in Seq(DeviceSlice) /\ Len(slices) = nInit
      /\ nInit \in Nat /\ NumDevices \in Nat /\ nInit < NumDevices /\ NumDevices <= ask.groups
  <2>1. at = "init" /\ slices' = Append(slices, new)
    BY DEF InitDevice
  <2>2. NumDevices \in Nat /\ nInit \in 0 .. NumDevices
    BY LenProperties DEF Setting, TypeOK, NumDevices
  <2> QED
    BY <2>1, <2>2 DEF Setting
<1>2. mine \in [first : Nat, count : Nat] /\ mine.count \in Nat \ {0}
  <2>1. ask.groups \in Nat /\ NumDevices \in Nat \ {0}
    BY <1>1, AskType
  <2>2. mine.first \in Nat /\ mine.count \in Nat /\ mine.count > 0
    BY <1>1, <2>1, SliceFollows, SliceCounts
  <2>3. mine = [first |-> mine.first, count |-> mine.count]
    BY DEF Slice
  <2> QED
    BY <2>2, <2>3
<1>3. k \in 1 .. mine.count
  <2> HIDE DEF mine, mem
  <2> QED
    BY <1>2, ChunksInRange, AskType
<1> HIDE DEF k, mine
<1>4. new \in DeviceSlice
  BY <1>2, <1>3 DEF DeviceSlice
<1>5. new.mine = mine /\ new.chunks = k
  OBVIOUS
<1> HIDE DEF new
<1>6. /\ slices' \in Seq(DeviceSlice) /\ Len(slices') = nInit + 1
      /\ \A i \in 1 .. nInit : slices'[i] = slices[i]
      /\ slices'[nInit + 1] = new
  BY <1>1, <1>4, AppendProperties
<1>7. ASSUME NEW i \in 1 .. nInit + 1
      PROVE  /\ slices'[i].mine = Slice(ask.groups, NumDevices, i - 1)
             /\ slices'[i].chunks \in 1 .. slices'[i].mine.count
  <2>1. CASE i = nInit + 1
    <3>1. i - 1 = nInit
      BY <1>1, <2>1
    <3> QED
      BY <1>3, <1>5, <1>6, <2>1, <3>1 DEF mine
  <2>2. CASE i # nInit + 1
    <3>1. i \in 1 .. nInit
      BY <1>1, <2>2
    <3> QED
      BY <1>1, <1>6, <3>1 DEF Setting
  <2> QED
    BY <2>1, <2>2
<1> QED
  BY <1>6, <1>7

LEMMA Counts ==
  ASSUME TypeOK, Setting
  PROVE  /\ NumDevices \in Nat /\ nInit \in 0 .. NumDevices
         /\ sampled \in 0 .. NumSamples /\ NumSamples \in Nat \ {0}
         /\ Len(slices) \in Nat /\ nSamples \in 0 .. NumSamples
         /\ DOMAIN using = 1 .. NumDevices
  BY LenProperties, SamplesAssumption DEF Setting, TypeOK, NumDevices

LEMMA MeasureInit == Init => TypeOK /\ Setting
<1> SUFFICES ASSUME Init PROVE TypeOK /\ Setting
  OBVIOUS
<1>1. /\ using = <<>> /\ slices = <<>> /\ nInit = 0 /\ sampled = 0 /\ at = "begin"
      /\ ask \in Asks /\ holding = {} /\ ctxError = {} /\ nSamples = 0
  BY DEF Init
<1>2. /\ using \in Seq(Nat) /\ slices \in Seq(DeviceSlice) /\ Len(using) = 0 /\ Len(slices) = 0
      /\ DOMAIN using = {}
  BY <1>1, EmptySeq, LenProperties
<1>3. Range(using) = {} /\ IsInjective(using)
  BY <1>2 DEF Range, IsInjective
<1>4. Setting
  BY <1>1, <1>2, <1>3, AsksAssumption, SamplesAssumption DEF Setting, NumDevices, Passing, Streaming
<1>5. /\ transfer \in Transfers /\ haveExpected \in BOOLEAN /\ deviceError \in BOOLEAN
      /\ runError \in BOOLEAN /\ rejected \in BOOLEAN
  BY Zenon DEF Init
<1>6. rc \in {0, 1} /\ exit = "none" /\ accepted = {}
  BY DEF Init
<1>7. TypeOK
  BY <1>1, <1>2, <1>3, <1>5, <1>6, SamplesAssumption DEF TypeOK, NumDevices
<1> QED
  BY <1>4, <1>7

\* What a step that neither sets up nor samples leaves alone.
LEMMA SettingKept ==
  ASSUME TypeOK, Setting, UNCHANGED <<cfgVars, sampled>>,
         at' # "begin", at' # "init",
         at' \in Passing => at \in Passing,
         at' \in {"check"} \cup Streaming => sampled < NumSamples
  PROVE  Setting'
<1>1. UNCHANGED <<using, slices, ask, sampled>>
  BY DEF cfgVars
<1> QED
  BY <1>1 DEF Setting, NumDevices

LEMMA SettingStep == TypeOK /\ Setting /\ [Next]_vars => Setting'
<1> SUFFICES ASSUME TypeOK, Setting, [Next]_vars PROVE Setting'
  OBVIOUS
<1>1. CASE NoCorpus \/ SelectFails \/ Succeed \/ Fail \/ Report \/ Exit \/ InitFails
  <2>1. /\ UNCHANGED <<cfgVars, sampled>>
        /\ at' \notin {"begin", "init"} \cup Passing
    BY <1>1 DEF NoCorpus, SelectFails, Succeed, Fail, Report, Exit, InitFails, Passing, Streaming
  <2> QED
    BY <2>1, SettingKept DEF Passing
<1>2. CASE OverlapFails
  <2>1. UNCHANGED <<cfgVars, sampled>> /\ at' = "failRun"
    BY <1>2 DEF OverlapFails
  <2> QED
    BY <2>1, SettingKept DEF Passing, Streaming
<1>3. CASE Select
  <2>1. /\ at = "begin" /\ at' = "init" /\ UNCHANGED <<slices, nInit, ask, sampled>>
    BY <1>3 DEF Select
  <2>2. /\ slices = <<>> /\ nInit = 0 /\ sampled < NumSamples /\ Len(slices) = 0
    BY <2>1, EmptySeq DEF Setting
  <2>3. /\ using' \in Seq(Nat) /\ IsInjective(using') /\ Len(using') \in 1 .. ask.groups
    BY <1>3, SettingSelect
  <2> QED
    BY <2>1, <2>2, <2>3, AskType DEF Setting, NumDevices, Passing, Streaming
<1>4. CASE InitDevice
  <2>1. /\ at = "init" /\ nInit' = nInit + 1 /\ UNCHANGED <<using, ask, sampled>>
        /\ at' = IF nInit + 1 = NumDevices THEN "check" ELSE "init"
    BY <1>4 DEF InitDevice
  <2>2. nInit < NumDevices /\ sampled < NumSamples
    BY <2>1 DEF Setting
  <2>3. NumDevices' = NumDevices
    BY <2>1 DEF NumDevices
  <2>4. /\ slices' \in Seq(DeviceSlice) /\ Len(slices') = nInit + 1
        /\ \A i \in 1 .. Len(slices') :
             /\ slices'[i].mine = Slice(ask.groups, NumDevices, i - 1)
             /\ slices'[i].chunks \in 1 .. slices'[i].mine.count
    BY <1>4, SettingInitDevice
  <2>5. /\ at' = "init" => nInit' < NumDevices /\ Len(slices') = nInit'
        /\ at' \in Passing => Len(slices') = NumDevices /\ NumDevices > 0
    BY <2>1, <2>2, <2>4, Counts DEF Passing, Streaming
  <2>6. using' \in Seq(Nat) /\ IsInjective(using') /\ NumDevices <= ask.groups
    BY <2>1 DEF Setting
  <2> QED
    BY <2>1, <2>2, <2>3, <2>4, <2>5, <2>6 DEF Setting
<1>5. ASSUME NEW bad \in SUBSET Device, NEW cancel \in BOOLEAN, NEW over \in BOOLEAN,
             Pass(bad, cancel, over)
      PROVE  Setting'
  <2>1. /\ at \in {"check"} \cup Streaming /\ UNCHANGED cfgVars
        /\ sampled' = IF at = "sample" /\ over THEN sampled + 1 ELSE sampled
        /\ at' = CASE at = "check"                  -> "calibrate"
                   [] at = "calibrate" /\ over      -> "warmup"
                   [] at = "recalibrate" /\ over    -> "sample"
                   [] at = "sample" /\ Enough(sampled') -> "succeeded"
                   [] OTHER                         -> at
    BY <1>5 DEF Pass
  <2>2. sampled < NumSamples
    BY <2>1 DEF Setting
  <2>3. sampled' <= NumSamples /\ (at # "sample" => sampled' = sampled)
    BY <2>1, <2>2, Counts
  <2>4. at' \in Streaming \cup {"succeeded"}
    BY <2>1 DEF Streaming
  <2>5. at' \in Streaming => sampled' < NumSamples
    <3>1. CASE at # "sample"
      BY <2>2, <2>3, <3>1
    <3>2. CASE at = "sample" /\ Enough(sampled')
      BY <2>1, <3>2 DEF Streaming
    <3>3. CASE at = "sample" /\ ~Enough(sampled')
      BY <2>1, <2>2, <3>3, Counts DEF Enough
    <3> QED
      BY <3>1, <3>2, <3>3
  <2>6. UNCHANGED <<using, slices, ask>> /\ NumDevices' = NumDevices
    BY <2>1 DEF cfgVars, NumDevices
  <2>7. at \in Passing
    BY <2>1 DEF Passing
  <2>8. at' \notin {"begin", "init", "check"}
    BY <2>4 DEF Streaming
  <2> QED
    BY <2>5, <2>6, <2>7, <2>8 DEF Setting
<1>6. CASE WarmedUp
  <2>1. at = "warmup" /\ at' = "recalibrate" /\ UNCHANGED <<cfgVars, sampled>>
    BY <1>6 DEF WarmedUp
  <2>2. at \in Passing /\ sampled < NumSamples
    BY <2>1 DEF Setting, Passing, Streaming
  <2> QED
    BY <2>1, <2>2, SettingKept
<1>7. ASSUME NEW bad \in SUBSET Device, NEW cancel \in BOOLEAN, PassRejected(bad, cancel)
      PROVE  Setting'
  <2>1. UNCHANGED <<cfgVars, sampled>> /\ at' = "failRun"
    BY <1>7 DEF PassRejected
  <2> QED
    BY <2>1, SettingKept DEF Passing, Streaming
<1>8. ASSUME NEW d \in Device, PassBreaks(d) PROVE Setting'
  <2>1. UNCHANGED <<cfgVars, sampled>> /\ at' = "failRun"
    BY <1>8 DEF PassBreaks
  <2> QED
    BY <2>1, SettingKept DEF Passing, Streaming
<1>9. CASE UNCHANGED vars
  BY <1>9 DEF vars, cfgVars, Setting, NumDevices
<1> QED
  BY <1>1, <1>2, <1>3, <1>4, <1>5, <1>6, <1>7, <1>8, <1>9 DEF Next

-----------------------------------------------------------------------------
(* Types. *)

AtType == {"begin", "init", "check", "succeeded", "failRun", "failInit",
           "measured", "returned", "exited"} \cup Streaming

\* The part of the types that a step can disturb once the devices are chosen.
Ranges ==
  /\ nInit \in 0 .. NumDevices /\ holding \subseteq Device /\ ctxError \subseteq Device
  /\ nSamples \in 0 .. NumSamples /\ sampled \in 0 .. NumSamples
  /\ rc \in {0, 1} /\ exit \in {"none", "measured", "cannot_run", "verify_failed"}
  /\ accepted \subseteq {"check", "sample", "untimed"} \X {"lone", "cancelled"}

Flags == /\ deviceError \in BOOLEAN /\ runError \in BOOLEAN /\ rejected \in BOOLEAN

LEMMA TypeParts ==
  TypeOK <=> /\ at \in AtType /\ Ranges /\ Flags
             /\ transfer \in Transfers /\ haveExpected \in BOOLEAN /\ ask \in Asks
             /\ Range(using) \subseteq DOMAIN List /\ Len(slices) <= NumDevices
  BY DEF TypeOK, AtType, Ranges, Flags

LEMMA FlagsStep == TypeOK /\ [Next]_vars => Flags'
<1> SUFFICES ASSUME TypeOK, [Next]_vars PROVE Flags'
  OBVIOUS
<1>1. Flags
  BY TypeParts
<1>2. CASE UNCHANGED <<deviceError, runError, rejected>>
  BY <1>1, <1>2 DEF Flags
<1>3. CASE NoCorpus \/ SelectFails \/ InitFails \/ OverlapFails \/ Fail \/ Report
  <2>1. deviceError' \in BOOLEAN
    BY <1>1, <1>3, Zenon
    DEF NoCorpus, SelectFails, InitFails, OverlapFails, Fail, Report, Flags
  <2>2. runError' \in BOOLEAN
    BY <1>1, <1>3, Zenon
    DEF NoCorpus, SelectFails, InitFails, OverlapFails, Fail, Report, RunErrorOf, Flags
  <2>3. rejected' = rejected
    BY <1>3
    DEF NoCorpus, SelectFails, InitFails, OverlapFails, Fail, Report, history
  <2> QED
    BY <1>1, <2>1, <2>2, <2>3, Zenon DEF Flags
<1>4. ASSUME NEW bad \in SUBSET Device, NEW cancel \in BOOLEAN, PassRejected(bad, cancel)
      PROVE  Flags'
  BY <1>1, <1>4 DEF PassRejected, Flags, errorVars
<1>5. ASSUME Select \/ InitDevice \/ WarmedUp \/ Succeed \/ Exit \/ UNCHANGED vars
      PROVE  UNCHANGED <<deviceError, runError, rejected>>
  BY <1>5 DEF Select, InitDevice, WarmedUp, Succeed, Exit, vars, errorVars, history
<1>6. ASSUME NEW bad, NEW cancel, NEW over, Pass(bad, cancel, over)
      PROVE  UNCHANGED <<deviceError, runError, rejected>>
  BY <1>6 DEF Pass, errorVars
<1>7. ASSUME NEW d, PassBreaks(d) PROVE UNCHANGED <<deviceError, runError, rejected>>
  BY <1>7 DEF PassBreaks, history
<1> QED
  BY <1>2, <1>3, <1>4, <1>5, <1>6, <1>7 DEF Next

LEMMA TypesStep == TypeOK /\ Setting /\ [Next]_vars => TypeOK'
<1> SUFFICES ASSUME TypeOK, Setting, [Next]_vars PROVE TypeOK'
  OBVIOUS
<1>1. Setting' /\ Flags'
  BY SettingStep, FlagsStep
<1>2. /\ at \in AtType /\ Ranges /\ transfer \in Transfers /\ haveExpected \in BOOLEAN
      /\ ask \in Asks /\ Range(using) \subseteq DOMAIN List /\ Len(slices) <= NumDevices
  BY TypeParts
<1>3. SUFFICES /\ at' \in AtType /\ Ranges' /\ UNCHANGED <<transfer, haveExpected, ask>>
               /\ Range(using') \subseteq DOMAIN List /\ Len(slices') <= Len(using')
  BY <1>1, <1>2, TypeParts DEF TypeOK, AtType, Ranges, Flags, NumDevices, List, Device
<1>4. ASSUME UNCHANGED cfgVars, at' \in AtType, Ranges'
      PROVE  /\ at' \in AtType /\ Ranges' /\ UNCHANGED <<transfer, haveExpected, ask>>
             /\ Range(using') \subseteq DOMAIN List /\ Len(slices') <= Len(using')
  BY <1>2, <1>4 DEF cfgVars, NumDevices
<1>5. ASSUME UNCHANGED using
      PROVE  NumDevices' = NumDevices /\ Device' = Device
  BY <1>5 DEF NumDevices, Device
<1>6. CASE NoCorpus \/ SelectFails \/ WarmedUp \/ InitFails \/ Report \/ Exit
  <2>1. UNCHANGED <<cfgVars, nInit, holding, ctxError, nSamples, sampled, accepted>>
        /\ at' \in AtType /\ rc' \in {0, 1}
    BY <1>2, <1>6
    DEF NoCorpus, SelectFails, WarmedUp, InitFails, Report, Exit, AtType, Ranges, Streaming,
        errorVars, history
  <2>2. exit' \in {"none", "measured", "cannot_run", "verify_failed"}
    BY <1>2, <1>6 DEF NoCorpus, SelectFails, WarmedUp, InitFails, Report, Exit, Ranges
  <2>3. Ranges'
    BY <1>2, <1>5, <2>1, <2>2 DEF Ranges, cfgVars
  <2> QED
    BY <1>4, <2>1, <2>3
<1>7. CASE Succeed \/ Fail
  <2>1. UNCHANGED <<cfgVars, nInit, ctxError, sampled, accepted, exit>>
        /\ at' \in AtType /\ rc' \in {0, 1} /\ holding' \subseteq holding
        /\ nSamples' \in {nSamples, NumSamples}
    BY <1>7 DEF Succeed, Fail, FreeContexts, AtType, errorVars, history
  <2>2. Ranges'
    BY <1>2, <1>5, <2>1, SamplesAssumption DEF Ranges, cfgVars
  <2> QED
    BY <1>4, <2>1, <2>2
<1>8. CASE Select
  <2>1. at = "begin" /\ at' = "init"
        /\ UNCHANGED <<nInit, holding, nSamples, sampled, rc, exit, transfer, haveExpected,
                       ask, slices, errorVars, history>>
    BY <1>8 DEF Select
  <2>2. Len(using') \in 1 .. ask.groups /\ Range(using') \subseteq DOMAIN List
    BY <1>8, SettingSelect
  <2>3. nInit = 0 /\ using = <<>> /\ slices = <<>>
    BY <2>1 DEF Setting
  <2>4. holding = {} /\ ctxError = {} /\ Len(slices) = 0
    BY <1>2, <2>3, EmptySeq DEF Ranges, Device, NumDevices
  <2>5. Ranges'
    BY <1>2, <2>1, <2>2, <2>3, <2>4, AskType
    DEF Ranges, NumDevices, Device, errorVars, history
  <2> QED
    BY <2>1, <2>2, <2>4, <2>5, AskType DEF AtType
<1>9. CASE InitDevice
  <2>1. at = "init" /\ nInit' = nInit + 1 /\ holding' = holding \cup {nInit}
        /\ at' \in AtType
        /\ UNCHANGED <<nSamples, sampled, rc, exit, transfer, haveExpected, ask, using,
                       errorVars, history>>
    BY <1>9 DEF InitDevice, AtType
  <2>2. nInit < NumDevices
    BY <2>1 DEF Setting
  <2>3. nInit \in Device /\ nInit' \in 0 .. NumDevices
    BY <2>1, <2>2, Counts DEF Device
  <2>4. Ranges'
    BY <1>2, <1>5, <2>1, <2>3 DEF Ranges, errorVars, history
  <2>5. Len(slices') = nInit + 1
    BY <1>9, SettingInitDevice
  <2> QED
    BY <1>2, <2>1, <2>2, <2>4, <2>5, Counts DEF NumDevices
<1>10. CASE OverlapFails
  <2>1. at = "init" /\ nInit' = nInit + 1 /\ holding' = holding \cup {nInit}
        /\ ctxError' = ctxError \cup {nInit} /\ at' = "failRun"
        /\ UNCHANGED <<nSamples, sampled, rc, exit, cfgVars, history>>
    BY <1>10 DEF OverlapFails
  <2>2. nInit < NumDevices
    BY <2>1 DEF Setting
  <2>3. nInit \in Device /\ nInit' \in 0 .. NumDevices
    BY <2>1, <2>2, Counts DEF Device
  <2>4. Ranges'
    BY <1>2, <1>5, <2>1, <2>3 DEF Ranges, cfgVars, history
  <2> QED
    BY <1>4, <2>1, <2>4 DEF AtType
<1>11. ASSUME NEW bad \in SUBSET Device, NEW cancel \in BOOLEAN, NEW over \in BOOLEAN,
              Pass(bad, cancel, over)
       PROVE  /\ at' \in AtType /\ Ranges' /\ UNCHANGED <<transfer, haveExpected, ask>>
              /\ Range(using') \subseteq DOMAIN List /\ Len(slices') <= Len(using')
  <2>1. /\ at \in {"check"} \cup Streaming
        /\ sampled' = IF at = "sample" /\ over THEN sampled + 1 ELSE sampled
        /\ accepted' = IF bad = {} THEN accepted
                       ELSE accepted \cup {<<Kind, IF Cardinality(bad) = 1 THEN "lone" ELSE "cancelled">>}
        /\ UNCHANGED <<nInit, holding, nSamples, rc, exit, cfgVars, errorVars>>
    BY <1>11 DEF Pass
  <2>2. at' \in AtType
    BY <1>2, <1>11 DEF Pass, AtType, Streaming
  <2>3. sampled < NumSamples
    BY <2>1 DEF Setting
  <2>4. sampled' \in 0 .. NumSamples
    BY <2>1, <2>3, Counts
  <2>5. Kind \in {"check", "sample", "untimed"}
    BY DEF Kind
  <2>6. accepted' \subseteq {"check", "sample", "untimed"} \X {"lone", "cancelled"}
    BY <1>2, <2>1, <2>5 DEF Ranges
  <2>7. Ranges'
    BY <1>2, <1>5, <2>1, <2>4, <2>6 DEF Ranges, cfgVars, errorVars
  <2> QED
    BY <1>4, <2>1, <2>2, <2>7
<1>12. ASSUME NEW bad \in SUBSET Device, NEW cancel \in BOOLEAN, PassRejected(bad, cancel)
       PROVE  /\ at' \in AtType /\ Ranges' /\ UNCHANGED <<transfer, haveExpected, ask>>
              /\ Range(using') \subseteq DOMAIN List /\ Len(slices') <= Len(using')
  <2>1. /\ nSamples' = IF at = "sample" THEN sampled ELSE nSamples
        /\ at' = "failRun"
        /\ UNCHANGED <<nInit, holding, sampled, rc, exit, cfgVars, errorVars, accepted>>
    BY <1>12 DEF PassRejected
  <2>2. Ranges'
    BY <1>2, <1>5, <2>1 DEF Ranges, cfgVars, errorVars
  <2> QED
    BY <1>4, <2>1, <2>2 DEF AtType
<1>13. ASSUME NEW d \in Device, PassBreaks(d)
       PROVE  /\ at' \in AtType /\ Ranges' /\ UNCHANGED <<transfer, haveExpected, ask>>
              /\ Range(using') \subseteq DOMAIN List /\ Len(slices') <= Len(using')
  <2>1. /\ ctxError' \subseteq ctxError \cup {d, 0}
        /\ nSamples' \in {sampled, nSamples}
        /\ at' = "failRun"
        /\ UNCHANGED <<nInit, holding, sampled, rc, exit, cfgVars, accepted>>
    BY <1>13 DEF PassBreaks, history
  <2>2. 0 \in Device
    BY Counts DEF Device
  <2>3. ctxError' \subseteq Device
    BY <1>2, <2>1, <2>2 DEF Ranges
  <2>4. Ranges'
    BY <1>2, <1>5, <2>1, <2>3 DEF Ranges, cfgVars
  <2> QED
    BY <1>4, <2>1, <2>4 DEF AtType
<1>14. CASE UNCHANGED vars
  BY <1>2, <1>5, <1>14 DEF vars, Ranges, cfgVars, errorVars, history, NumDevices
<1> QED
  BY <1>6, <1>7, <1>8, <1>9, <1>10, <1>11, <1>12, <1>13, <1>14 DEF Next

LEMMA MeasureAlways == Spec => [](TypeOK /\ Setting)
  BY MeasureInit, TypesStep, SettingStep, PTL DEF Spec

(* What a measurement keeps track of: never more contexts than devices, never
   more samples than there is room for. *)
THEOREM MeasureTypeOK == Spec => []TypeOK
  BY MeasureAlways, PTL

(* The devices in use divide the groups between them, each of their slices is
   divided into chunks, and no group is hashed twice or forgotten: the first
   part of WorkDivided, for every number of devices, groups and chunks. *)
LEMMA MeasureDividesGroups == Spec => [](at = "check" => GroupsDivided)
<1> SUFFICES ASSUME TypeOK, Setting, at = "check" PROVE GroupsDivided
  BY MeasureAlways, PTL
<1>1. /\ Len(slices) = NumDevices /\ NumDevices \in Nat \ {0} /\ NumDevices <= ask.groups
      /\ ask.groups \in Nat /\ DOMAIN slices = 1 .. NumDevices /\ IsInjective(using)
  BY Counts, AskType, LenProperties DEF Setting, Passing
<1>2. ASSUME NEW i \in 1 .. NumDevices
      PROVE  /\ slices[i].mine = Slice(ask.groups, NumDevices, i - 1)
             /\ slices[i].mine.count \in Nat /\ slices[i].chunks \in 1 .. slices[i].mine.count
  <2>1. i - 1 \in Nat
    BY <1>1
  <2> QED
    BY <1>1, <2>1, SliceFollows DEF Setting
<1>3. Partition([i \in DOMAIN slices |-> slices[i].mine], ask.groups)
  <2> DEFINE S == [i \in DOMAIN slices |-> slices[i].mine]
  <2>1. DOMAIN S = 1 .. NumDevices /\ \A s \in 1 .. NumDevices : S[s] = Slice(ask.groups, NumDevices, s - 1)
    BY <1>1, <1>2
  <2> HIDE DEF S
  <2> QED
    BY <1>1, <2>1, SliceTiles DEF S
<1>4. ASSUME NEW i \in DOMAIN slices
      PROVE  ChunksDivide(slices[i].mine.count, slices[i].chunks)
  <2> DEFINE n == slices[i].mine.count
             k == slices[i].chunks
             parts == [c \in 1 .. k |-> Slice(n, k, c - 1)]
  <2>1. n \in Nat /\ k \in Nat \ {0} /\ k <= n
    BY <1>1, <1>2
  <2>2. DOMAIN parts = 1 .. k /\ \A c \in 1 .. k : parts[c] = Slice(n, k, c - 1)
    OBVIOUS
  <2>3. SUFFICES Partition(parts, n) /\ \A c \in 1 .. k : parts[c].count <= parts[1].count
    BY DEF ChunksDivide
  <2> HIDE DEF n, k, parts
  <2> QED
    BY <2>1, <2>2, SliceTiles
<1> QED
  BY <1>1, <1>3, <1>4 DEF GroupsDivided

-----------------------------------------------------------------------------
(* What there is to free. *)

\* The contexts that n_init counts are those that hold anything, until they are
\* freed: the device that failed to be set up is not one of them, the one whose
\* pipeline failed to open is.
Contexts == holding = IF at \in Over THEN {} ELSE 0 .. nInit - 1

LEMMA ContextsStep == TypeOK /\ Setting /\ Contexts /\ [Next]_vars => Contexts'
<1> SUFFICES ASSUME TypeOK, Setting, Contexts, [Next]_vars PROVE Contexts'
  OBVIOUS
<1>1. nInit \in Nat /\ (at = "begin" => holding = {})
  BY Counts DEF Setting, Contexts, Over
<1>2. ASSUME UNCHANGED <<nInit, holding>>, at \in Over <=> at' \in Over PROVE Contexts'
  BY <1>2 DEF Contexts
<1>3. CASE NoCorpus \/ SelectFails
  BY <1>1, <1>3 DEF NoCorpus, SelectFails, Contexts, Over
<1>4. CASE Select \/ InitFails \/ WarmedUp \/ Report \/ Exit
  BY <1>2, <1>4 DEF Select, InitFails, WarmedUp, Report, Exit, Over
<1>5. CASE InitDevice \/ OverlapFails
  <2>1. /\ at = "init" /\ nInit' = nInit + 1 /\ holding' = holding \cup {nInit}
        /\ at' \notin Over
    BY <1>5 DEF InitDevice, OverlapFails, Over
  <2>2. holding = 0 .. nInit - 1
    BY <2>1 DEF Contexts, Over
  <2>3. 0 .. nInit = (0 .. nInit - 1) \cup {nInit} /\ nInit' - 1 = nInit
    BY <1>1, <2>1
  <2> QED
    BY <2>1, <2>2, <2>3 DEF Contexts
<1>6. CASE Succeed \/ Fail
  <2>1. at \notin Over /\ at' \in Over /\ holding' = holding \ (0 .. nInit - 1)
    BY <1>6 DEF Succeed, Fail, FreeContexts, Over
  <2> QED
    BY <2>1 DEF Contexts
<1>7. ASSUME NEW bad, NEW cancel, NEW over, Pass(bad, cancel, over) PROVE Contexts'
  BY <1>2, <1>7 DEF Pass, Over, Streaming
<1>8. ASSUME NEW bad, NEW cancel, PassRejected(bad, cancel) PROVE Contexts'
  BY <1>2, <1>8 DEF PassRejected, Rejects, Over, Streaming
<1>9. ASSUME NEW d, PassBreaks(d) PROVE Contexts'
  BY <1>2, <1>9 DEF PassBreaks, Over, Streaming
<1>10. CASE UNCHANGED vars
  BY <1>2, <1>10 DEF vars
<1> QED
  BY <1>3, <1>4, <1>5, <1>6, <1>7, <1>8, <1>9, <1>10 DEF Next

(* Whatever fails, and whenever, fail_run, fail_init and the successful end
   free every context that was set up. *)
THEOREM MeasureContextsFreed == Spec => []ContextsFreed
<1>1. Init => Contexts
  BY DEF Init, Contexts, Over
<1>2. TypeOK /\ Setting /\ Contexts => ContextsFreed
  BY DEF Contexts, ContextsFreed, Over
<1> QED
  BY <1>1, <1>2, MeasureAlways, ContextsStep, PTL DEF Spec

-----------------------------------------------------------------------------
(* What is let through, and what is told of what is not. *)

\* What each comparison lets through.
Compared ==
  /\ <<"check", "lone">> \notin accepted /\ <<"sample", "lone">> \notin accepted
  /\ ~haveExpected => <<"check", "cancelled">> \notin accepted
  /\ transfer = "pipelined" => <<"untimed", "lone">> \notin accepted

\* As long as passes run nothing has failed, and a pass that is rejected ends
\* the measurement with no reason in any error text: so there is none to take
\* it for a device that could not run.
Told ==
  /\ at \in {"begin", "init"} \cup Passing => ctxError = {} /\ ~deviceError /\ ~rejected
  /\ rejected => /\ at \in {"failRun"} \cup Over /\ ctxError = {} /\ ~deviceError
                 /\ at \in Over => rc = 1
                 /\ at \in {"returned", "exited"} => ~runError
                 /\ at = "exited" => exit = "verify_failed"

LEMMA SameLone ==
  ASSUME NEW bad, NEW cancel \in BOOLEAN, Same(bad, cancel)
  PROVE  bad = {} \/ Cardinality(bad) # 1
  BY DEF Same

LEMMA ComparedStep == TypeOK /\ Compared /\ [Next]_vars => Compared'
<1> SUFFICES ASSUME TypeOK, Compared, [Next]_vars PROVE Compared'
  OBVIOUS
<1>1. ASSUME UNCHANGED <<accepted, haveExpected, transfer>> PROVE Compared'
  BY <1>1 DEF Compared
<1>2. CASE \/ NoCorpus \/ Select \/ SelectFails \/ InitDevice \/ InitFails \/ OverlapFails
           \/ WarmedUp \/ Succeed \/ Fail \/ Report \/ Exit \/ UNCHANGED vars
  BY <1>1, <1>2
  DEF NoCorpus, Select, SelectFails, InitDevice, InitFails, OverlapFails, WarmedUp, Succeed,
      Fail, Report, Exit, vars, cfgVars, history
<1>3. ASSUME NEW bad \in SUBSET Device, NEW cancel \in BOOLEAN, NEW over \in BOOLEAN,
             Pass(bad, cancel, over), bad # {}
      PROVE  Compared'
  <2> DEFINE how == IF Cardinality(bad) = 1 THEN "lone" ELSE "cancelled"
  <2>1. /\ at \in {"check"} \cup Streaming /\ ~Rejects(bad, cancel)
        /\ accepted' = accepted \cup {<<Kind, how>>}
        /\ UNCHANGED <<haveExpected, transfer>>
    BY <1>3 DEF Pass, cfgVars
  <2>2. CASE at = "check"
    <3>1. haveExpected /\ Same(bad, cancel)
      BY <1>3, <2>1, <2>2 DEF Rejects
    <3>2. accepted' = accepted \cup {<<"check", "cancelled">>}
      BY <1>3, <2>1, <2>2, <3>1, SameLone DEF Kind
    <3> QED
      BY <2>1, <3>1, <3>2 DEF Compared
  <2>3. CASE at = "sample"
    <3>1. Same(bad, cancel)
      BY <2>1, <2>3 DEF Rejects
    <3>2. accepted' = accepted \cup {<<"sample", "cancelled">>}
      BY <1>3, <2>1, <2>3, <3>1, SameLone DEF Kind
    <3> QED
      BY <2>1, <3>2 DEF Compared
  <2>4. CASE at \notin {"check", "sample"}
    <3>1. accepted' = accepted \cup {<<"untimed", how>>} /\ at \in Streaming
      BY <2>1, <2>4 DEF Kind
    <3>2. transfer = "pipelined" => how = "cancelled"
      BY <1>3, <2>1, <3>1, SameLone DEF Rejects
    <3> QED
      BY <2>1, <3>1, <3>2 DEF Compared
  <2> QED
    BY <2>2, <2>3, <2>4
<1>4. ASSUME NEW bad \in SUBSET Device, NEW cancel \in BOOLEAN, NEW over \in BOOLEAN,
             Pass(bad, cancel, over), bad = {}
      PROVE  Compared'
  BY <1>1, <1>4 DEF Pass, cfgVars
<1>5. ASSUME NEW bad, NEW cancel, PassRejected(bad, cancel) PROVE Compared'
  BY <1>1, <1>5 DEF PassRejected, cfgVars
<1>6. ASSUME NEW d, PassBreaks(d) PROVE Compared'
  BY <1>1, <1>6 DEF PassBreaks, cfgVars, history
<1> QED
  BY <1>2, <1>3, <1>4, <1>5, <1>6 DEF Next

\* A step from a state in which nothing was rejected, to one in which nothing is.
LEMMA ToldNothing ==
  ASSUME ~rejected', at' \in {"begin", "init"} \cup Passing => ctxError' = {} /\ ~deviceError'
  PROVE  Told'
  BY Zenon DEF Told

LEMMA ToldStep == TypeOK /\ Told /\ [Next]_vars => Told'
<1> SUFFICES ASSUME TypeOK, Told, [Next]_vars PROVE Told'
  OBVIOUS
<1>1. CASE at \in {"begin", "init"}
  <2>1. ~rejected /\ ctxError = {} /\ ~deviceError
    BY <1>1, Zenon DEF Told
  <2>2. CASE NoCorpus \/ SelectFails \/ InitFails \/ OverlapFails
    <3>1. at' \notin {"begin", "init"} \cup Passing /\ rejected' = rejected
      BY <2>2
      DEF NoCorpus, SelectFails, InitFails, OverlapFails, Passing, Streaming, history
    <3> QED
      BY <2>1, <3>1, ToldNothing
  <2>3. CASE Select \/ InitDevice \/ UNCHANGED vars
    <3>1. UNCHANGED <<ctxError, deviceError, rejected>>
      BY <2>3 DEF Select, InitDevice, vars, errorVars, history
    <3> QED
      BY <2>1, <3>1, ToldNothing
  <2> QED
    BY <1>1, <2>2, <2>3
    DEF Next, WarmedUp, Pass, PassRejected, Rejects, PassBreaks, Succeed, Fail, Report, Exit,
        Streaming
<1>2. CASE at \in Passing
  <2>1. ~rejected /\ ctxError = {} /\ ~deviceError
    BY <1>2, Zenon DEF Told
  <2>2. ASSUME UNCHANGED <<ctxError, deviceError, rejected>> PROVE Told'
    BY <2>1, <2>2, ToldNothing
  <2>3. ASSUME NEW bad, NEW cancel, NEW over, Pass(bad, cancel, over) PROVE Told'
    BY <2>2, <2>3 DEF Pass, errorVars
  <2>4. CASE WarmedUp \/ Succeed \/ UNCHANGED vars
    BY <2>2, <2>4 DEF WarmedUp, Succeed, vars, errorVars, history
  <2>5. ASSUME NEW bad, NEW cancel, PassRejected(bad, cancel) PROVE Told'
    <3>1. at' = "failRun" /\ UNCHANGED <<ctxError, deviceError>>
      BY <2>5 DEF PassRejected, errorVars
    <3>2. at' \notin {"begin", "init"} \cup Passing /\ at' \notin Over
      BY <3>1 DEF Passing, Streaming, Over
    <3> QED
      BY <2>1, <3>1, <3>2 DEF Told, Over
  <2>6. ASSUME NEW d, PassBreaks(d) PROVE Told'
    <3>1. at' = "failRun" /\ rejected' = rejected
      BY <2>6 DEF PassBreaks, history
    <3>2. at' \notin {"begin", "init"} \cup Passing
      BY <3>1 DEF Passing, Streaming
    <3> QED
      BY <2>1, <3>1, <3>2, ToldNothing
  <2> QED
    BY <1>2, <2>3, <2>4, <2>5, <2>6
    DEF Next, NoCorpus, Select, SelectFails, InitDevice, InitFails, OverlapFails, Fail, Report,
        Exit, Passing, Streaming
<1>3. CASE at \notin {"begin", "init"} \cup Passing
  <2>1. at' \notin {"begin", "init"} \cup Passing /\ rejected' = rejected
    BY <1>3
    DEF Next, NoCorpus, Select, SelectFails, InitDevice, InitFails, OverlapFails, WarmedUp, Pass,
        PassRejected, Rejects, PassBreaks, Succeed, Fail, Report, Exit, vars, Passing, Streaming,
        history
  <2>2. CASE ~rejected
    BY <2>1, <2>2, ToldNothing
  <2>3. CASE rejected
    <3>1. /\ at \in {"failRun"} \cup Over /\ ctxError = {} /\ ~deviceError
          /\ at \in Over => rc = 1
          /\ at \in {"returned", "exited"} => ~runError
          /\ at = "exited" => exit = "verify_failed"
      BY <2>3 DEF Told
    <3>2. CASE Fail
      <4>1. at = "failRun" /\ at' = "measured" /\ rc' = 1 /\ UNCHANGED ctxError
            /\ deviceError' = (deviceError \/ (at = "failRun" /\ nInit > 0 /\ 0 \in ctxError))
        BY <3>1, <3>2 DEF Fail, Over
      <4>2. ~deviceError'
        BY <3>1, <4>1, Zenon
      <4>3. at' \in {"failRun"} \cup Over /\ at' \notin {"returned", "exited"}
        BY <4>1 DEF Over
      <4> QED
        BY <2>1, <3>1, <4>1, <4>2, <4>3 DEF Told
    <3>3. CASE Report
      <4>1. /\ at = "measured" /\ at' = "returned" /\ runError' = RunErrorOf
            /\ UNCHANGED <<rc, ctxError, deviceError>>
        BY <3>3 DEF Report
      <4>2. ~runError' /\ rc = 1
        BY <3>1, <4>1, Zenon DEF RunErrorOf, Over
      <4> QED
        BY <2>1, <3>1, <4>1, <4>2 DEF Told, Over
    <3>4. CASE Exit
      <4>1. /\ at = "returned" /\ at' = "exited"
            /\ UNCHANGED <<rc, ctxError, deviceError, runError>>
            /\ exit' = IF rc = 0 THEN "measured" ELSE IF runError THEN "cannot_run" ELSE "verify_failed"
        BY <3>4 DEF Exit, errorVars
      <4>2. rc = 1 /\ ~runError
        BY <3>1, <4>1 DEF Over
      <4>3. exit' = "verify_failed"
        BY <4>1, <4>2
      <4> QED
        BY <2>1, <3>1, <4>1, <4>2, <4>3 DEF Told, Over
    <3>5. CASE UNCHANGED vars
      BY <2>1, <3>1, <3>5 DEF vars, errorVars, Told
    <3> QED
      BY <1>3, <3>1, <3>2, <3>3, <3>4, <3>5
      DEF Next, NoCorpus, Select, SelectFails, InitDevice, InitFails, OverlapFails, WarmedUp,
          Pass, PassRejected, Rejects, PassBreaks, Succeed, Passing, Streaming, Over
  <2> QED
    BY <2>2, <2>3
<1> QED
  BY <1>1, <1>2, <1>3

(* No figure over a digest that a comparison could have told to be wrong, and
   no wrong digest that was seen is put down to a device that cannot run: on
   any number of devices, whichever of them compute wrong slices. *)
THEOREM MeasureWrongNeverPasses == Spec => []WrongNeverPasses
<1>1. Init => Compared
  BY DEF Init, Compared
<1>2. Init => Told
  BY ToldNothing, Zenon DEF Init, Told
<1>3. Compared /\ Told => WrongNeverPasses
  BY DEF Compared, Told, WrongNeverPasses
<1> QED
  BY <1>1, <1>2, <1>3, MeasureAlways, ComparedStep, ToldStep, PTL DEF Spec

-----------------------------------------------------------------------------
(* Folds. *)

(* Of 1 .. m, the greatest element. *)
LEMMA MaxIs ==
  ASSUME NEW m \in Nat, NEW s \in SUBSET (1 .. m + 1), m + 1 \in s
  PROVE  Max(s) = m + 1
<1>1. \A y \in s : m + 1 >= y
  OBVIOUS
<1>2. \A x \in s : (\A y \in s : x >= y) => x = m + 1
  OBVIOUS
<1> QED
  BY <1>1, <1>2 DEF Max

\* What comes of the elements up to the greatest of s, if op adds one more.
Folded(op, base, h, s) == IF s = {} THEN base ELSE op[<<h[s \ {Max(s)}], Max(s)>>]

\* h is what op makes of the sets of numbers up to m.
Folding(T, op, base, m, h) ==
  h \in [SUBSET (1 .. m) -> T] /\ \A s \in SUBSET (1 .. m) : h[s] = Folded(op, base, h, s)

(* There is a fold. *)
LEMMA FoldingExists ==
  ASSUME NEW T, NEW n \in Nat, NEW op \in [T \X (1 .. n) -> T], NEW base \in T
  PROVE  \E h : Folding(T, op, base, n, h)
<1> DEFINE Bad == {m \in 0 .. n : ~\E h : Folding(T, op, base, m, h)}
<1>1. SUFFICES ASSUME Bad # {} PROVE FALSE
  BY <1>1
<1>2. PICK m \in Bad : \A k \in Bad : m <= k
  <2>1. Bad \subseteq Nat
    OBVIOUS
  <2> HIDE DEF Bad
  <2> QED
    BY <1>1, <2>1, LeastExists
<1>3. CASE m = 0
  <2> DEFINE h == [s \in SUBSET (1 .. 0) |-> base]
  <2>1. \A s \in SUBSET (1 .. 0) : s = {}
    OBVIOUS
  <2>2. Folding(T, op, base, 0, h)
    BY <2>1 DEF Folding, Folded
  <2> QED
    BY <1>2, <1>3, <2>2
<1>4. CASE m # 0
  <2> DEFINE l == m - 1
  <2>1. l \in Nat /\ l \in 0 .. n /\ l \notin Bad /\ m = l + 1 /\ m \in 1 .. n
    BY <1>2, <1>4
  <2>2. PICK h : Folding(T, op, base, l, h)
    BY <2>1
  <2> HIDE DEF l
  <2>3. /\ h \in [SUBSET (1 .. l) -> T]
        /\ \A s \in SUBSET (1 .. l) : h[s] = Folded(op, base, h, s)
    BY <2>2 DEF Folding
  <2> DEFINE g == [s \in SUBSET (1 .. m) |-> IF m \in s THEN op[<<h[s \ {m}], m>>] ELSE h[s]]
  <2>4. ASSUME NEW s \in SUBSET (1 .. m), m \notin s
        PROVE  s \in SUBSET (1 .. l) /\ g[s] = h[s] /\ g[s] \in T
    <3>1. s \in SUBSET (1 .. l)
      BY <2>1, <2>4
    <3> QED
      BY <2>3, <2>4, <3>1
  <2>5. ASSUME NEW s \in SUBSET (1 .. m), m \in s
        PROVE  g[s] = op[<<g[s \ {m}], m>>] /\ g[s] \in T /\ Max(s) = m
    <3>1. s \ {m} \in SUBSET (1 .. m) /\ m \notin s \ {m}
      OBVIOUS
    <3>2. g[s \ {m}] = h[s \ {m}] /\ h[s \ {m}] \in T
      BY <2>4, <3>1
    <3>3. Max(s) = m
      BY <2>1, <2>5, MaxIs
    <3>4. op[<<h[s \ {m}], m>>] \in T
      <4> DEFINE x == h[s \ {m}]
      <4>1. x \in T
        BY <3>2
      <4> HIDE DEF x
      <4>2. <<x, m>> \in T \X (1 .. n)
        BY <2>1, <4>1
      <4>3. op[<<x, m>>] \in T
        BY <4>2
      <4> QED
        BY <4>3 DEF x
    <3> QED
      BY <2>5, <3>2, <3>3, <3>4
  <2>6. g \in [SUBSET (1 .. m) -> T]
    <3>1. \A s \in SUBSET (1 .. m) : g[s] \in T
      BY <2>4, <2>5
    <3> QED
      BY <3>1
  <2>7. ASSUME NEW s \in SUBSET (1 .. m) PROVE g[s] = Folded(op, base, g, s)
    <3>1. CASE m \in s
      <4> HIDE DEF g
      <4> QED
        BY <2>5, <3>1 DEF Folded
    <3>2. CASE m \notin s
      <4>1. s \in SUBSET (1 .. l) /\ g[s] = h[s]
        BY <2>4, <3>2
      <4>2. CASE s = {}
        BY <2>3, <4>1, <4>2 DEF Folded
      <4>3. CASE s # {}
        <5> DEFINE r == s \ {Max(s)}
        <5>1. r \in SUBSET (1 .. m) /\ m \notin r
          BY <3>2
        <5>2. g[r] = h[r]
          BY <2>4, <5>1
        <5>3. h[s] = op[<<h[r], Max(s)>>]
          BY <2>3, <4>1, <4>3 DEF Folded
        <5> HIDE DEF g, r
        <5>4. g[s] = op[<<g[r], Max(s)>>]
          BY <4>1, <5>2, <5>3
        <5> QED
          BY <4>3, <5>4 DEF Folded, r
      <4> QED
        BY <4>2, <4>3
    <3> QED
      BY <3>1, <3>2
  <2>8. Folding(T, op, base, m, g)
    <3> HIDE DEF g
    <3> QED
      BY <2>6, <2>7 DEF Folding
  <2> QED
    BY <1>2, <2>8
<1> QED
  BY <1>3, <1>4

(* What goes from each number to the next goes up to the last. *)
LEMMA Upward ==
  ASSUME NEW n \in Nat, NEW G, 0 \in G, \A k \in 1 .. n : k - 1 \in G => k \in G
  PROVE  \A k \in 0 .. n : k \in G
<1> DEFINE Bad == {k \in 0 .. n : k \notin G}
<1>1. SUFFICES ASSUME Bad # {} PROVE FALSE
  BY <1>1
<1>2. PICK m \in Bad : \A k \in Bad : m <= k
  <2>1. Bad \subseteq Nat
    OBVIOUS
  <2> HIDE DEF Bad
  <2> QED
    BY <1>1, <2>1, LeastExists
<1>3. m \in 1 .. n /\ m - 1 \in 0 .. n /\ ~(m <= m - 1)
  BY <1>2
<1>4. m - 1 \in G
  BY <1>2, <1>3
<1> QED
  BY <1>2, <1>3, <1>4

(* The greatest of some numbers up to n is one of them. *)
LEMMA MaxIn ==
  ASSUME NEW n \in Nat, NEW s \in SUBSET (1 .. n), s # {}
  PROVE  Max(s) \in s
<1> DEFINE G == {m \in 0 .. n : \A r \in SUBSET (1 .. m) : r # {} => Max(r) \in r}
<1>1. 0 \in G
  <2>1. \A r \in SUBSET (1 .. 0) : r = {}
    OBVIOUS
  <2>2. \A r \in SUBSET (1 .. 0) : r # {} => Max(r) \in r
    BY <2>1
  <2> QED
    BY <2>2
<1>2. ASSUME NEW k \in 1 .. n, k - 1 \in G PROVE k \in G
  <2> SUFFICES ASSUME NEW r \in SUBSET (1 .. k), r # {} PROVE Max(r) \in r
    OBVIOUS
  <2>1. CASE k \in r
    <3> DEFINE m == k - 1
    <3>1. m \in Nat /\ k = m + 1 /\ r \in SUBSET (1 .. m + 1)
      OBVIOUS
    <3> HIDE DEF m
    <3>2. Max(r) = k
      BY <2>1, <3>1, MaxIs
    <3> QED
      BY <2>1, <3>2
  <2>2. CASE k \notin r
    <3>1. r \in SUBSET (1 .. k - 1)
      BY <2>2
    <3> QED
      BY <1>2, <3>1
  <2> QED
    BY <2>1, <2>2
<1> HIDE DEF G
<1>3. \A k \in 0 .. n : k \in G
  BY <1>1, <1>2, Upward
<1> QED
  BY <1>3 DEF G

LEMMA Prefix ==
  ASSUME NEW n \in Nat, NEW k \in 1 .. n
  PROVE  /\ 1 .. k \in SUBSET (1 .. n) /\ 1 .. k # {}
         /\ Max(1 .. k) = k /\ (1 .. k) \ {k} = 1 .. k - 1
<1> DEFINE m == k - 1
           s == 1 .. k
<1>1. m \in Nat /\ k = m + 1 /\ s \in SUBSET (1 .. m + 1) /\ m + 1 \in s
  OBVIOUS
<1>2. s \in SUBSET (1 .. n) /\ s # {} /\ s \ {k} = 1 .. k - 1
  OBVIOUS
<1> HIDE DEF m, s
<1>3. Max(s) = k
  BY <1>1, MaxIs
<1> QED
  BY <1>2, <1>3 DEF s

-----------------------------------------------------------------------------
(* The list of devices. *)

\* f tells the list after any of the devices a back end b found were put into it.
Putting(base, b, all, f) ==
  f = [s \in SUBSET DOMAIN all |->
         IF s = {} THEN base ELSE Insert(f[s \ {Max(s)}], b, all[Max(s)])]

Puts(base, b, all) == FoldLeft(LAMBDA l, i : Insert(l, b, i), base, all)

LEMMA PutsAre ==
  ASSUME NEW base, NEW b, NEW all
  PROVE  Puts(base, b, all) = (CHOOSE f : Putting(base, b, all, f))[DOMAIN all]
  BY Zenon DEF Puts, FoldLeft, MapThenFoldSet, Putting

\* One device after another.
InTurn(base, b, all, n, g) ==
  /\ g[0] = base
  /\ \A k \in 1 .. n : g[k] = Insert(g[k - 1], b, all[k])

(* The fold puts the devices in one after another. *)
LEMMA PutsInTurn ==
  ASSUME NEW T, NEW base \in T, NEW b, NEW n \in Nat, NEW all, DOMAIN all = 1 .. n,
         \A l \in T : \A k \in 1 .. n : Insert(l, b, all[k]) \in T
  PROVE  \E g : InTurn(base, b, all, n, g) /\ Puts(base, b, all) = g[n]
<1> DEFINE op == [x \in T \X (1 .. n) |-> Insert(x[1], b, all[x[2]])]
<1>1. op \in [T \X (1 .. n) -> T]
  <2>1. \A x \in T \X (1 .. n) : Insert(x[1], b, all[x[2]]) \in T
    OBVIOUS
  <2> QED
    BY <2>1
<1>2. \A l \in T, k \in 1 .. n : op[<<l, k>>] = Insert(l, b, all[k])
  OBVIOUS
<1> HIDE DEF op
<1>3. PICK h : Folding(T, op, base, n, h)
  BY <1>1, FoldingExists
<1>4. /\ h \in [SUBSET (1 .. n) -> T]
      /\ \A s \in SUBSET (1 .. n) : h[s] = Folded(op, base, h, s)
  BY <1>3 DEF Folding
<1>5. ASSUME NEW s \in SUBSET (1 .. n)
      PROVE  h[s] = IF s = {} THEN base ELSE Insert(h[s \ {Max(s)}], b, all[Max(s)])
  <2>1. CASE s = {}
    BY <1>4, <2>1 DEF Folded
  <2>2. CASE s # {}
    <3> DEFINE m == Max(s)
               r == s \ {m}
    <3>1. m \in 1 .. n
      BY <2>2, MaxIn
    <3>2. h[r] \in T
      <4>1. r \in SUBSET (1 .. n)
        OBVIOUS
      <4> QED
        BY <1>4, <4>1
    <3>3. h[s] = op[<<h[r], m>>]
      BY <1>4, <2>2 DEF Folded
    <3>4. op[<<h[r], m>>] = Insert(h[r], b, all[m])
      <4> DEFINE y == h[r]
      <4> HIDE DEF y, m
      <4> QED
        BY <1>2, <3>1, <3>2 DEF y
    <3> QED
      BY <2>2, <3>3, <3>4, Zenon
  <2> QED
    BY <2>1, <2>2
<1>6. Putting(base, b, all, h)
  <2>1. h = [s \in SUBSET (1 .. n) |-> h[s]]
    BY <1>4
  <2> DEFINE e(s) == IF s = {} THEN base ELSE Insert(h[s \ {Max(s)}], b, all[Max(s)])
  <2>2. \A s \in SUBSET (1 .. n) : h[s] = e(s)
    BY <1>5, Zenon
  <2> HIDE DEF e
  <2>3. [s \in SUBSET (1 .. n) |-> h[s]] = [s \in SUBSET (1 .. n) |-> e(s)]
    BY <2>2
  <2>4. h = [s \in SUBSET DOMAIN all |-> e(s)]
    BY <2>1, <2>3, Zenon
  <2> QED
    BY <2>4, Zenon DEF Putting, e
<1> DEFINE f == CHOOSE c : Putting(base, b, all, c)
<1>7. Putting(base, b, all, f)
  BY <1>6, Zenon
<1>8. Puts(base, b, all) = f[1 .. n]
  BY PutsAre, Zenon
<1> HIDE DEF f
<1>9. \A s \in SUBSET (1 .. n) :
        f[s] = IF s = {} THEN base ELSE Insert(f[s \ {Max(s)}], b, all[Max(s)])
  <2>1. f = [s \in SUBSET (1 .. n) |->
               IF s = {} THEN base ELSE Insert(f[s \ {Max(s)}], b, all[Max(s)])]
    BY <1>7, Zenon DEF Putting
  <2> QED
    BY <2>1, Zenon
<1> DEFINE g == [k \in 0 .. n |-> f[1 .. k]]
<1>10. g[0] = base
  <2>1. 1 .. 0 = {} /\ {} \in SUBSET (1 .. n) /\ g[0] = f[1 .. 0]
    OBVIOUS
  <2> QED
    BY <1>9, <2>1
<1>11. ASSUME NEW k \in 1 .. n PROVE g[k] = Insert(g[k - 1], b, all[k])
  <2>1. g[k] = f[1 .. k] /\ g[k - 1] = f[1 .. k - 1]
    OBVIOUS
  <2>2. /\ 1 .. k \in SUBSET (1 .. n) /\ 1 .. k # {}
        /\ Max(1 .. k) = k /\ (1 .. k) \ {k} = 1 .. k - 1
    BY Prefix
  <2> HIDE DEF g
  <2> QED
    BY <1>9, <2>1, <2>2, Zenon
<1>12. g[n] = f[1 .. n]
  OBVIOUS
<1> HIDE DEF g
<1> QED
  BY <1>8, <1>10, <1>11, <1>12 DEF InTurn

\* What a back end can tell of a device.
OclInfos  == {OclInfo(d) : d \in OclDevices}
CudaInfos == {CudaInfo(d) : d \in CudaDevices}
Infos(b)  == IF b = "opencl" THEN OclInfos ELSE CudaInfos

LEMMA OclInfoIs ==
  ASSUME NEW info \in OclInfos
  PROVE  info # None /\ (~info.guessed /\ info.pci # <<>> => info.pci = info.card)
<1>1. PICK d \in OclDevices : info = OclInfo(d)
  BY DEF OclInfos
<1>2. /\ info.card = d.card /\ info.guessed = (d.tells = "nodom")
      /\ info.pci = CASE d.tells = "all" -> d.card
                      [] d.tells = "nodom" -> <<0, d.card[2], d.card[3]>>
                      [] d.tells = "nothing" -> <<>>
  BY <1>1 DEF OclInfo
<1>3. d.card \in Nat \X Nat \X Nat /\ d.tells \in {"all", "nodom", "nothing"}
  BY DEF OclDevices
<1>4. info.card # <<>> /\ None.card = <<>>
  BY <1>2, <1>3 DEF None
<1> QED
  BY <1>2, <1>3, <1>4

LEMMA CudaInfoIs ==
  ASSUME NEW info \in CudaInfos
  PROVE  info # None /\ info.pci # <<>> /\ info.pci = info.card
<1>1. PICK d \in CudaDevices : info = CudaInfo(d)
  BY DEF CudaInfos
<1>2. info.card = d.card /\ info.pci = <<d.card[1], d.card[2], 0>>
  BY <1>1 DEF CudaInfo
<1>3. d.card \in Nat \X Nat \X {0}
  BY DEF CudaDevices
<1>4. info.card # <<>> /\ None.card = <<>> /\ <<d.card[1], d.card[2], 0>> = d.card
  BY <1>2, <1>3 DEF None
<1> QED
  BY <1>2, <1>4

\* An entry: who has the device, which is at one address if both have.
Entries == [opencl : OclInfos \cup {None}, cuda : CudaInfos \cup {None}]
Joins   == {e \in Entries : e.opencl # None /\ e.cuda # None => e.opencl.pci = e.cuda.pci}

\* The devices of a list that a back end has.
Number(l, b) == Cardinality({i \in DOMAIN l : l[i][b] # None})

LEMMA NumberIs ==
  ASSUME NEW l \in Seq(Joins), NEW b
  PROVE  IsFiniteSet({i \in DOMAIN l : l[i][b] # None}) /\ Number(l, b) \in Nat
<1> DEFINE S == {i \in DOMAIN l : l[i][b] # None}
<1>1. IsFiniteSet(1 .. Len(l)) /\ DOMAIN l = 1 .. Len(l)
  BY LenProperties, FS_Interval
<1>2. S \subseteq 1 .. Len(l)
  BY <1>1
<1> QED
  BY <1>1, <1>2, FS_Subset, FS_CardinalityType DEF Number

(* An entry of its own. *)
LEMMA Appended ==
  ASSUME NEW l \in Seq(Joins), NEW e \in Joins, NEW b
  PROVE  /\ Append(l, e) \in Seq(Joins) /\ Len(Append(l, e)) = Len(l) + 1
         /\ Number(Append(l, e), b) = Number(l, b) + (IF e[b] # None THEN 1 ELSE 0)
<1> DEFINE m == Append(l, e)
           n == Len(l)
           S == {i \in DOMAIN l : l[i][b] # None}
           R == {i \in DOMAIN m : m[i][b] # None}
<1>1. /\ m \in Seq(Joins) /\ Len(m) = n + 1 /\ n \in Nat
      /\ \A i \in 1 .. n : m[i] = l[i]
      /\ m[n + 1] = e
  BY AppendProperties, LenProperties
<1>2. DOMAIN m = 1 .. n + 1 /\ DOMAIN l = 1 .. n
  BY <1>1, LenProperties
<1>3. IsFiniteSet(S) /\ n + 1 \notin S
  <2>1. IsFiniteSet(S)
    BY NumberIs
  <2>2. n + 1 \notin 1 .. n
    BY <1>1
  <2> QED
    BY <1>2, <2>1, <2>2
<1> HIDE DEF m, n
<1>4. R = IF e[b] # None THEN S \cup {n + 1} ELSE S
  BY <1>1, <1>2
<1> HIDE DEF S, R
<1>5. Cardinality(R) = Cardinality(S) + (IF e[b] # None THEN 1 ELSE 0)
  <2>1. Cardinality(S \cup {n + 1}) = Cardinality(S) + 1
    BY <1>3, FS_AddElement
  <2>2. Cardinality(S) \in Nat
    BY <1>3, FS_CardinalityType
  <2> QED
    BY <1>4, <2>1, <2>2
<1> QED
  BY <1>1, <1>5 DEF Number, R, S, m, n

(* A device of CUDA joins one of OpenCL. *)
LEMMA Joined ==
  ASSUME NEW l \in Seq(Joins), NEW j \in DOMAIN l, l[j].cuda = None,
         NEW e \in Joins, e.opencl = l[j].opencl, e.cuda # None
  PROVE  /\ [l EXCEPT ![j] = e] \in Seq(Joins) /\ Len([l EXCEPT ![j] = e]) = Len(l)
         /\ Number([l EXCEPT ![j] = e], "opencl") = Number(l, "opencl")
         /\ Number([l EXCEPT ![j] = e], "cuda") = Number(l, "cuda") + 1
<1> DEFINE m == [l EXCEPT ![j] = e]
           n == Len(l)
           S == {i \in DOMAIN l : l[i].cuda # None}
           R == {i \in DOMAIN m : m[i].cuda # None}
<1>1. DOMAIN l = 1 .. n /\ n \in Nat
  BY LenProperties
<1>2. m \in Seq(Joins) /\ Len(m) = n
  BY ExceptSeq
<1>3. DOMAIN m = DOMAIN l /\ \A i \in DOMAIN l : m[i] = IF i = j THEN e ELSE l[i]
  OBVIOUS
<1> HIDE DEF m, n
<1>4. {i \in DOMAIN m : m[i].opencl # None} = {i \in DOMAIN l : l[i].opencl # None}
  BY <1>3
<1>5. R = S \cup {j} /\ j \notin S
  BY <1>3
<1>6. IsFiniteSet(S)
  BY NumberIs
<1>7. Cardinality(R) = Cardinality(S) + 1
  BY <1>5, <1>6, FS_AddElement
<1> QED
  BY <1>2, <1>4, <1>7 DEF Number, m, n

\* One device more of a back end, unless there is no room.
OneMore(l, m, b) ==
  /\ m \in Seq(Joins) /\ Len(l) <= Len(m)
  /\ Len(m) < DevMax =>
       \A o \in {"opencl", "cuda"} : Number(m, o) = Number(l, o) + (IF o = b THEN 1 ELSE 0)

LEMMA OneMoreIs ==
  ASSUME NEW l \in Seq(Joins), NEW b \in {"opencl", "cuda"}, NEW info \in Infos(b)
  PROVE  OneMore(l, Insert(l, b, info), b)
<1> DEFINE same == {j \in DOMAIN l : /\ info.pci # <<>> /\ l[j][b] = None
                                     /\ b # "opencl" /\ l[j].opencl.pci = info.pci}
           own == [Blank EXCEPT ![b] = info]
<1>1. Insert(l, b, info) = IF same # {} THEN [l EXCEPT ![Min(same)][b] = info]
                           ELSE IF Len(l) >= DevMax THEN l ELSE Append(l, own)
  BY Zenon DEF Insert
<1>2. Len(l) \in Nat /\ DevMax \in Nat
  BY LenProperties, ListAssumption
<1>3. CASE same # {}
  <2> DEFINE j == Min(same)
             e == [opencl |-> l[j].opencl, cuda |-> info]
  <2>1. b = "cuda"
    BY <1>3
  <2>2. same \subseteq Nat
    BY LenProperties
  <2>3. j \in same
    <3> HIDE DEF same
    <3>1. \E x \in same : \A y \in same : x =< y
      BY <1>3, <2>2, LeastExists
    <3> QED
      BY <3>1 DEF Min
  <2>4. j \in DOMAIN l /\ l[j].cuda = None /\ l[j].opencl.pci = info.pci /\ info \in CudaInfos
    BY <2>1, <2>3 DEF Infos
  <2>5. l[j] \in Joins
    <3> HIDE DEF j
    <3> QED
      BY <2>4, ElementOfSeq, LenProperties
  <2> HIDE DEF same, j
  <2>6. /\ e \in Joins /\ e.opencl = l[j].opencl /\ e.cuda # None
        /\ l[j] = [opencl |-> l[j].opencl, cuda |-> l[j].cuda]
    BY <2>4, <2>5, CudaInfoIs DEF Joins, Entries
  <2>7. Insert(l, b, info) = [l EXCEPT ![j] = e]
    <3>1. Insert(l, b, info) = [l EXCEPT ![j] = [l[j] EXCEPT !["cuda"] = info]]
      BY <1>1, <1>3, <2>1 DEF j
    <3>2. [l[j] EXCEPT !["cuda"] = info] = e
      BY <2>6
    <3> HIDE DEF e
    <3> QED
      BY <3>1, <3>2
  <2>8. /\ [l EXCEPT ![j] = e] \in Seq(Joins) /\ Len([l EXCEPT ![j] = e]) = Len(l)
        /\ Number([l EXCEPT ![j] = e], "opencl") = Number(l, "opencl")
        /\ Number([l EXCEPT ![j] = e], "cuda") = Number(l, "cuda") + 1
    <3> HIDE DEF e
    <3> QED
      BY <2>4, <2>6, Joined
  <2>9. Number(l, "opencl") \in Nat
    BY NumberIs
  <2> DEFINE m == [l EXCEPT ![j] = e]
  <2>10. /\ Insert(l, b, info) = m /\ m \in Seq(Joins) /\ Len(m) = Len(l)
         /\ Number(m, "opencl") = Number(l, "opencl")
         /\ Number(m, "cuda") = Number(l, "cuda") + 1
    BY <2>7, <2>8, Zenon
  <2> HIDE DEF e, m
  <2>11. \A o \in {"opencl", "cuda"} : Number(m, o) = Number(l, o) + (IF o = b THEN 1 ELSE 0)
    BY <2>1, <2>9, <2>10
  <2> QED
    BY <1>2, <2>10, <2>11 DEF OneMore
<1>4. CASE same = {} /\ Len(l) >= DevMax
  BY <1>1, <1>2, <1>4 DEF OneMore
<1>5. CASE same = {} /\ ~(Len(l) >= DevMax)
  <2>1. Insert(l, b, info) = Append(l, own)
    BY <1>1, <1>5
  <2>2. info # None
    BY OclInfoIs, CudaInfoIs DEF Infos
  <2>3. own \in Joins /\ \A o \in {"opencl", "cuda"} : own[o] # None <=> o = b
    <3>1. CASE b = "opencl"
      <4>1. own = [opencl |-> info, cuda |-> None]
        BY <3>1 DEF Blank
      <4> QED
        BY <2>2, <3>1, <4>1 DEF Joins, Entries, Infos
    <3>2. CASE b = "cuda"
      <4>1. own = [opencl |-> None, cuda |-> info]
        BY <3>2 DEF Blank
      <4> QED
        BY <2>2, <3>2, <4>1 DEF Joins, Entries, Infos
    <3> QED
      BY <3>1, <3>2
  <2> HIDE DEF own, same
  <2>4. \A o : Append(l, own) \in Seq(Joins) /\ Len(Append(l, own)) = Len(l) + 1
               /\ Number(Append(l, own), o) = Number(l, o) + (IF own[o] # None THEN 1 ELSE 0)
    BY <2>3, Appended
  <2> QED
    BY <1>2, <2>1, <2>3, <2>4 DEF OneMore
<1> QED
  BY <1>3, <1>4, <1>5

\* So many devices more of a back end.
More(l, m, b, n) ==
  /\ m \in Seq(Joins) /\ Len(l) <= Len(m)
  /\ Len(m) < DevMax =>
       \A o \in {"opencl", "cuda"} : Number(m, o) = Number(l, o) + (IF o = b THEN n ELSE 0)

(* As long as there is room, none of the devices of a back end is lost. *)
LEMMA PutsMore ==
  ASSUME NEW base \in Seq(Joins), NEW b \in {"opencl", "cuda"}, NEW all \in Seq(Infos(b))
  PROVE  More(base, Puts(base, b, all), b, Len(all))
<1> DEFINE n == Len(all)
<1>1. /\ n \in Nat /\ DOMAIN all = 1 .. n /\ DevMax \in Nat
      /\ \A k \in 1 .. n : all[k] \in Infos(b)
  BY LenProperties, ElementOfSeq, ListAssumption
<1> HIDE DEF n
<1>2. ASSUME NEW l \in Seq(Joins), NEW k \in 1 .. n
      PROVE  OneMore(l, Insert(l, b, all[k]), b)
  <2>1. all[k] \in Infos(b)
    BY <1>1
  <2> QED
    BY <2>1, OneMoreIs
<1>3. \A l \in Seq(Joins) : \A k \in 1 .. n : Insert(l, b, all[k]) \in Seq(Joins)
  BY <1>2 DEF OneMore
<1>4. PICK g : InTurn(base, b, all, n, g) /\ Puts(base, b, all) = g[n]
  <2> DEFINE T == Seq(Joins)
  <2>1. base \in T /\ \A l \in T : \A k \in 1 .. n : Insert(l, b, all[k]) \in T
    BY <1>3
  <2> HIDE DEF T
  <2> QED
    BY <1>1, <2>1, PutsInTurn
<1> DEFINE G == {k \in 0 .. n : More(base, g[k], b, k)}
<1>5. 0 \in G
  <2>1. g[0] = base /\ 0 \in 0 .. n /\ Len(base) \in Nat
    BY <1>1, <1>4, LenProperties DEF InTurn
  <2>2. Number(base, "opencl") \in Nat /\ Number(base, "cuda") \in Nat
    BY NumberIs
  <2> QED
    BY <2>1, <2>2 DEF More
<1>6. ASSUME NEW k \in 1 .. n, k - 1 \in G PROVE k \in G
  <2> DEFINE l == g[k - 1]
             m == g[k]
  <2>1. m = Insert(l, b, all[k]) /\ k \in 0 .. n /\ k - 1 \in Nat
    BY <1>4 DEF InTurn
  <2>2. More(base, l, b, k - 1)
    BY <1>6
  <2> HIDE DEF l, m
  <2>3. l \in Seq(Joins) /\ Len(base) <= Len(l)
    BY <2>2 DEF More
  <2>4. OneMore(l, m, b)
    BY <1>2, <2>1, <2>3
  <2>5. m \in Seq(Joins) /\ Len(l) <= Len(m)
    BY <2>4 DEF OneMore
  <2>6. Len(base) \in Nat /\ Len(l) \in Nat /\ Len(m) \in Nat
    BY <2>3, <2>5, LenProperties
  <2>7. ASSUME Len(m) < DevMax, NEW o \in {"opencl", "cuda"}
        PROVE  Number(m, o) = Number(base, o) + (IF o = b THEN k ELSE 0)
    <3>1. Number(m, o) = Number(l, o) + (IF o = b THEN 1 ELSE 0)
      BY <2>4, <2>7 DEF OneMore
    <3>2. Number(l, o) = Number(base, o) + (IF o = b THEN k - 1 ELSE 0)
      BY <1>1, <2>2, <2>5, <2>6, <2>7 DEF More
    <3>3. Number(base, o) \in Nat
      BY NumberIs
    <3> QED
      BY <3>1, <3>2, <3>3
  <2>8. More(base, m, b, k)
    BY <2>3, <2>5, <2>6, <2>7 DEF More
  <2> QED
    BY <2>1, <2>8 DEF m
<1> HIDE DEF G
<1>7. \A k \in 0 .. n : k \in G
  BY <1>1, <1>5, <1>6, Upward
<1>8. n \in 0 .. n
  BY <1>1
<1> QED
  BY <1>4, <1>7, <1>8 DEF G, n

\* What the list is after any of the two back ends was asked.
Asking(h, f) ==
  f = [s \in SUBSET DOMAIN Apis |->
         IF s = {} THEN <<>>
         ELSE Puts(f[s \ {Max(s)}], Apis[Max(s)], Enumerate(h, Apis[Max(s)]))]

(* OpenCL is asked first. *)
LEMMA ListIs ==
  ASSUME NEW h
  PROVE  VbDevices(h) = Puts(Puts(<<>>, "opencl", Enumerate(h, "opencl")),
                             "cuda", Enumerate(h, "cuda"))
<1> DEFINE P(l, b) == Puts(l, b, Enumerate(h, b))
           first  == P(<<>>, "opencl")
           second == P(<<>>, "cuda")
           whole  == P(first, "cuda")
           f == [s \in SUBSET (1 .. 2) |->
                   IF s = {} THEN <<>> ELSE IF s = {1} THEN first
                   ELSE IF s = {2} THEN second ELSE whole]
           c == CHOOSE x : Asking(h, x)
<1>1. DOMAIN Apis = 1 .. 2 /\ Apis[1] = "opencl" /\ Apis[2] = "cuda"
  BY DEF Apis
<1>2. VbDevices(h) = c[DOMAIN Apis]
  <2>1. VbDevices(h) = FoldLeft(LAMBDA list, b : P(list, b), <<>>, Apis)
    BY Zenon DEF VbDevices, Puts
  <2> QED
    BY <2>1, Zenon DEF FoldLeft, MapThenFoldSet, Asking
<1>3. /\ \A s \in SUBSET (1 .. 2) : s = {} \/ s = {1} \/ s = {2} \/ s = {1, 2}
      /\ {} \in SUBSET (1 .. 2) /\ {1} \in SUBSET (1 .. 2) /\ {2} \in SUBSET (1 .. 2)
      /\ {1, 2} \in SUBSET (1 .. 2) /\ 1 .. 2 = {1, 2}
  <2>1. 1 .. 2 = {1, 2}
    OBVIOUS
  <2>2. ASSUME NEW s \in SUBSET {1, 2} PROVE s = {} \/ s = {1} \/ s = {2} \/ s = {1, 2}
    <3>1. CASE 1 \in s /\ 2 \in s
      BY <3>1
    <3>2. CASE 1 \in s /\ 2 \notin s
      BY <3>2
    <3>3. CASE 1 \notin s /\ 2 \in s
      BY <3>3
    <3>4. CASE 1 \notin s /\ 2 \notin s
      BY <3>4
    <3> QED
      BY <3>1, <3>2, <3>3, <3>4
  <2> QED
    BY <2>1, <2>2, Zenon
<1>4. Max({1}) = 1 /\ Max({2}) = 2 /\ Max({1, 2}) = 2
  <2>1. {1} \in SUBSET (1 .. 0 + 1) /\ 0 + 1 \in {1} /\ 0 + 1 = 1
    OBVIOUS
  <2>2. /\ {2} \in SUBSET (1 .. 1 + 1) /\ 1 + 1 \in {2} /\ 1 + 1 = 2
        /\ {1, 2} \in SUBSET (1 .. 1 + 1) /\ 1 + 1 \in {1, 2}
    OBVIOUS
  <2> QED
    BY <2>1, <2>2, MaxIs
<1>5. {1} \ {1} = {} /\ {2} \ {2} = {} /\ {1, 2} \ {2} = {1} /\ {1} # {2} /\ {1, 2} # {1}
      /\ {1, 2} # {2} /\ {1} # {} /\ {2} # {} /\ {1, 2} # {}
  OBVIOUS
<1> DEFINE e(x, s) == IF s = {} THEN <<>> ELSE P(x[s \ {Max(s)}], Apis[Max(s)])
<1>6. f[{}] = <<>> /\ f[{1}] = first /\ f[{2}] = second /\ f[{1, 2}] = whole
  BY <1>3, <1>5, Zenon
<1> HIDE DEF f
<1>7. ASSUME NEW s \in SUBSET (1 .. 2) PROVE f[s] = e(f, s)
  <2>1. e(f, {}) = <<>>
    BY Zenon
  <2>2. e(f, {1}) = first
    <3>1. {1} \ {Max({1})} = {} /\ Apis[Max({1})] = "opencl" /\ {1} # {}
      BY <1>1, <1>4, <1>5, Zenon
    <3> QED
      BY <1>6, <3>1, Zenon
  <2>3. e(f, {2}) = second
    <3>1. {2} \ {Max({2})} = {} /\ Apis[Max({2})] = "cuda" /\ {2} # {}
      BY <1>1, <1>4, <1>5, Zenon
    <3> QED
      BY <1>6, <3>1, Zenon
  <2>4. e(f, {1, 2}) = whole
    <3>1. {1, 2} \ {Max({1, 2})} = {1} /\ Apis[Max({1, 2})] = "cuda" /\ {1, 2} # {}
      BY <1>1, <1>4, <1>5, Zenon
    <3> QED
      BY <1>6, <3>1, Zenon
  <2> HIDE DEF e, first, second, whole
  <2> QED
    BY <1>3, <1>6, <2>1, <2>2, <2>3, <2>4, Zenon
<1>8. Asking(h, f)
  <2>1. f = [s \in SUBSET (1 .. 2) |-> f[s]]
    BY Zenon DEF f
  <2> HIDE DEF e
  <2>2. [s \in SUBSET (1 .. 2) |-> f[s]] = [s \in SUBSET (1 .. 2) |-> e(f, s)]
    BY <1>7
  <2>3. f = [s \in SUBSET DOMAIN Apis |-> e(f, s)]
    BY <1>1, <2>1, <2>2, Zenon
  <2> QED
    BY <2>3, Zenon DEF Asking, e
<1>9. Asking(h, c)
  BY <1>8, Zenon
<1> HIDE DEF c
<1>10. ASSUME NEW s \in SUBSET (1 .. 2) PROVE c[s] = e(c, s)
  <2>1. c = [s1 \in SUBSET (1 .. 2) |-> e(c, s1)]
    BY <1>1, <1>9, Zenon DEF Asking
  <2> QED
    BY <2>1, Zenon
<1>11. c[{}] = <<>>
  BY <1>3, <1>10, Zenon
<1>12. c[{1}] = first
  <2>1. {1} \ {Max({1})} = {} /\ Apis[Max({1})] = "opencl" /\ {1} # {}
    BY <1>1, <1>4, <1>5, Zenon
  <2>2. e(c, {1}) = first
    BY <1>11, <2>1, Zenon
  <2> HIDE DEF e
  <2> QED
    BY <1>3, <1>10, <2>2, Zenon
<1>13. c[{1, 2}] = whole
  <2>1. {1, 2} \ {Max({1, 2})} = {1} /\ Apis[Max({1, 2})] = "cuda" /\ {1, 2} # {}
    BY <1>1, <1>4, <1>5, Zenon
  <2>2. e(c, {1, 2}) = whole
    BY <1>12, <2>1, Zenon
  <2> HIDE DEF e
  <2> QED
    BY <1>3, <1>10, <2>2, Zenon
<1>14. c[DOMAIN Apis] = c[{1, 2}]
  BY <1>1, <1>3, Zenon
<1> QED
  BY <1>2, <1>13, <1>14, Zenon

(* What the back ends enumerate. *)

LEMMA UptoSeq ==
  ASSUME NEW S, NEW s \in Seq(S), NEW n \in Nat
  PROVE  Upto(s, n) \in Seq(S)
<1> DEFINE k == IF Len(s) < n THEN Len(s) ELSE n
<1>1. Len(s) \in Nat /\ \A i \in 1 .. Len(s) : s[i] \in S
  BY LenProperties, ElementOfSeq
<1>2. k \in Int /\ 1 \in Int /\ \A i \in 1 .. k : s[i] \in S
  BY <1>1
<1> HIDE DEF k
<1>3. SubSeq(s, 1, k) \in Seq(S)
  BY <1>2, SubSeqProperties
<1> QED
  BY <1>3, Zenon DEF Upto, k

\* One platform's devices after another's.
Flattening(seqs, f) ==
  f = [i \in 1 .. Len(seqs) |-> IF i = 1 THEN seqs[i] ELSE f[i - 1] \o seqs[i]]

LEMMA FlattenIs ==
  ASSUME NEW S, NEW seqs \in Seq(Seq(S))
  PROVE  FlattenSeq(seqs) \in Seq(S)
<1> DEFINE n == Len(seqs)
           T == Seq(S)
           op == [x \in T \X (1 .. n) |-> IF x[2] = 1 THEN seqs[x[2]] ELSE x[1] \o seqs[x[2]]]
<1>1. n \in Nat /\ \A i \in 1 .. n : seqs[i] \in T
  BY LenProperties, ElementOfSeq
<1>2. CASE n = 0
  <2>1. FlattenSeq(seqs) = seqs /\ seqs = <<>>
    BY <1>2, EmptySeq DEF FlattenSeq
  <2> QED
    BY <2>1
<1>3. CASE n # 0
  <2>1. \A x, y \in T : x \o y \in T
    BY ConcatProperties
  <2> HIDE DEF n, T
  <2>2. op \in [T \X (1 .. n) -> T]
    <3>1. ASSUME NEW x \in T \X (1 .. n)
          PROVE  (IF x[2] = 1 THEN seqs[x[2]] ELSE x[1] \o seqs[x[2]]) \in T
      <4>1. x[1] \in T /\ x[2] \in 1 .. n /\ seqs[x[2]] \in T
        BY <1>1
      <4>2. x[1] \o seqs[x[2]] \in T
        BY <2>1, <4>1
      <4> QED
        BY <4>1, <4>2
    <3> QED
      BY <3>1
  <2>3. \A x \in T, k \in 1 .. n : op[<<x, k>>] = IF k = 1 THEN seqs[k] ELSE x \o seqs[k]
    OBVIOUS
  <2> HIDE DEF op
  <2>4. <<>> \in T
    BY DEF T
  <2>5. PICK h : Folding(T, op, <<>>, n, h)
    BY <1>1, <2>2, <2>4, FoldingExists
  <2>6. /\ h \in [SUBSET (1 .. n) -> T]
        /\ \A s \in SUBSET (1 .. n) : h[s] = Folded(op, <<>>, h, s)
    BY <2>5 DEF Folding
  <2> DEFINE g == [i \in 1 .. n |-> h[1 .. i]]
             Then(f, i) == IF i = 1 THEN seqs[i] ELSE f[i - 1] \o seqs[i]
  <2>7. ASSUME NEW i \in 1 .. n PROVE g[i] = Then(g, i)
    <3>1. /\ 1 .. i \in SUBSET (1 .. n) /\ 1 .. i # {}
          /\ Max(1 .. i) = i /\ (1 .. i) \ {i} = 1 .. i - 1
      BY <1>1, Prefix
    <3>2. h[1 .. i] = op[<<h[1 .. i - 1], i>>]
      BY <2>6, <3>1, Zenon DEF Folded
    <3> DEFINE x == h[1 .. i - 1]
    <3>3. x \in T
      <4>1. 1 .. i - 1 \in SUBSET (1 .. n)
        BY <1>1
      <4> QED
        BY <2>6, <4>1
    <3>4. i # 1 => g[i - 1] = x
      BY <1>1
    <3>5. g[i] = op[<<x, i>>]
      BY <3>2
    <3> HIDE DEF x, g
    <3>6. op[<<x, i>>] = IF i = 1 THEN seqs[i] ELSE x \o seqs[i]
      BY <2>3, <3>3
    <3> QED
      BY <3>4, <3>5, <3>6
  <2>8. Flattening(seqs, g)
    <3>1. g = [i \in 1 .. n |-> g[i]]
      BY Zenon
    <3> HIDE DEF g, Then
    <3>2. [i \in 1 .. n |-> g[i]] = [i \in 1 .. n |-> Then(g, i)]
      BY <2>7
    <3>3. g = [i \in 1 .. n |-> Then(g, i)]
      BY <3>1, <3>2, Zenon
    <3> QED
      BY <3>3, Zenon DEF Flattening, Then, n
  <2> DEFINE f == CHOOSE c : Flattening(seqs, c)
  <2>9. Flattening(seqs, f)
    BY <2>8, Zenon
  <2>10. FlattenSeq(seqs) = f[n]
    BY <1>3, Zenon DEF FlattenSeq, Flattening, n
  <2> HIDE DEF f
  <2>11. ASSUME NEW i \in 1 .. n PROVE f[i] = Then(f, i)
    <3>1. f = [k \in 1 .. n |-> Then(f, k)]
      BY <2>9, Zenon DEF Flattening, n
    <3> QED
      BY <3>1, Zenon
  <2> DEFINE G == {k \in 0 .. n : k = 0 \/ f[k] \in T}
  <2>12. 0 \in G
    BY <1>1
  <2>13. ASSUME NEW k \in 1 .. n, k - 1 \in G PROVE k \in G
    <3>1. f[k] = Then(f, k) /\ seqs[k] \in T /\ k \in 0 .. n
      BY <1>1, <2>11
    <3>2. CASE k = 1
      BY <3>1, <3>2
    <3>3. CASE k # 1
      <4>1. f[k - 1] \in T
        BY <2>13, <3>3
      <4>2. f[k - 1] \o seqs[k] \in T
        BY <2>1, <3>1, <4>1
      <4> QED
        BY <3>1, <3>3, <4>2
    <3> QED
      BY <3>2, <3>3
  <2> HIDE DEF G
  <2>14. \A k \in 0 .. n : k \in G
    BY <1>1, <2>12, <2>13, Upward
  <2>15. n \in 0 .. n
    BY <1>1
  <2>16. f[n] \in T
    BY <1>3, <2>14, <2>15 DEF G
  <2> QED
    BY <2>10, <2>16 DEF T
<1> QED
  BY <1>2, <1>3

\* f tells which devices were opened, of any of those there are.
Opening(all, f) ==
  f = [s \in SUBSET DOMAIN all |->
         IF s = {} THEN <<>>
         ELSE IF all[Max(s)].opens THEN Append(f[s \ {Max(s)}], all[Max(s)])
              ELSE f[s \ {Max(s)}]]

Opened(all) == FoldLeft(LAMBDA l, d : IF d.opens THEN Append(l, d) ELSE l, <<>>, all)

LEMMA OpenedAre ==
  ASSUME NEW all
  PROVE  Opened(all) = (CHOOSE f : Opening(all, f))[DOMAIN all]
  BY Zenon DEF Opened, FoldLeft, MapThenFoldSet, Opening

LEMMA OpenedIs ==
  ASSUME NEW S, NEW all \in Seq(S)
  PROVE  Opened(all) \in Seq(S)
<1> DEFINE n == Len(all)
           T == Seq(S)
           If(l, d) == IF d.opens THEN Append(l, d) ELSE l
           op == [x \in T \X (1 .. n) |-> If(x[1], all[x[2]])]
<1>1. n \in Nat /\ DOMAIN all = 1 .. n /\ \A i \in 1 .. n : all[i] \in S
  BY LenProperties, ElementOfSeq
<1>2. \A l \in T : \A d \in S : If(l, d) \in T
  BY AppendProperties
<1> HIDE DEF n, T, If
<1>3. op \in [T \X (1 .. n) -> T]
  <2>1. ASSUME NEW x \in T \X (1 .. n) PROVE If(x[1], all[x[2]]) \in T
    <3>1. x[1] \in T /\ all[x[2]] \in S
      BY <1>1
    <3> QED
      BY <1>2, <3>1
  <2> QED
    BY <2>1
<1>4. \A x \in T, k \in 1 .. n : op[<<x, k>>] = If(x, all[k])
  OBVIOUS
<1> HIDE DEF op
<1>5. <<>> \in T
  BY DEF T
<1>6. PICK h : Folding(T, op, <<>>, n, h)
  BY <1>1, <1>3, <1>5, FoldingExists
<1>7. /\ h \in [SUBSET (1 .. n) -> T]
      /\ \A s \in SUBSET (1 .. n) : h[s] = Folded(op, <<>>, h, s)
  BY <1>6 DEF Folding
<1> DEFINE e(f, s) == IF s = {} THEN <<>> ELSE If(f[s \ {Max(s)}], all[Max(s)])
<1>8. ASSUME NEW s \in SUBSET (1 .. n) PROVE h[s] = e(h, s)
  <2>1. CASE s = {}
    BY <1>7, <2>1 DEF Folded
  <2>2. CASE s # {}
    <3> DEFINE m == Max(s)
               y == h[s \ {m}]
    <3>1. m \in 1 .. n
      BY <1>1, <2>2, MaxIn
    <3>2. y \in T
      <4>1. s \ {m} \in SUBSET (1 .. n)
        OBVIOUS
      <4> QED
        BY <1>7, <4>1
    <3>3. h[s] = op[<<y, m>>] /\ e(h, s) = If(y, all[m])
      BY <1>7, <2>2 DEF Folded
    <3> HIDE DEF m, y, e
    <3> QED
      BY <1>4, <3>1, <3>2, <3>3
  <2> QED
    BY <2>1, <2>2
<1>9. Opening(all, h)
  <2>1. h = [s \in SUBSET (1 .. n) |-> h[s]]
    BY <1>7
  <2> HIDE DEF e
  <2>2. [s \in SUBSET (1 .. n) |-> h[s]] = [s \in SUBSET (1 .. n) |-> e(h, s)]
    BY <1>8
  <2>3. h = [s \in SUBSET DOMAIN all |-> e(h, s)]
    BY <1>1, <2>1, <2>2, Zenon
  <2> QED
    BY <2>3, Zenon DEF Opening, e, If
<1> DEFINE f == CHOOSE c : Opening(all, c)
<1>10. Opening(all, f)
  BY <1>9, Zenon
<1>11. Opened(all) = f[1 .. n]
  BY <1>1, OpenedAre, Zenon
<1> HIDE DEF f
<1>12. ASSUME NEW s \in SUBSET (1 .. n) PROVE f[s] = e(f, s)
  <2>1. f = [r \in SUBSET (1 .. n) |-> e(f, r)]
    BY <1>1, <1>10, Zenon DEF Opening, If
  <2> QED
    BY <2>1, Zenon
<1> DEFINE G == {k \in 0 .. n : f[1 .. k] \in T}
<1>13. 0 \in G
  <2>1. 1 .. 0 = {} /\ {} \in SUBSET (1 .. n) /\ 0 \in 0 .. n
    BY <1>1
  <2>2. f[{}] = <<>>
    BY <1>12, <2>1, Zenon
  <2> QED
    BY <1>5, <2>1, <2>2
<1>14. ASSUME NEW k \in 1 .. n, k - 1 \in G PROVE k \in G
  <2>1. /\ 1 .. k \in SUBSET (1 .. n) /\ 1 .. k # {}
        /\ Max(1 .. k) = k /\ (1 .. k) \ {k} = 1 .. k - 1
    BY <1>1, Prefix
  <2>2. f[1 .. k] = If(f[1 .. k - 1], all[k])
    BY <1>12, <2>1, Zenon
  <2>3. f[1 .. k - 1] \in T /\ all[k] \in S /\ k \in 0 .. n
    BY <1>1, <1>14
  <2>4. If(f[1 .. k - 1], all[k]) \in T
    BY <1>2, <2>3
  <2> QED
    BY <2>2, <2>3, <2>4
<1> HIDE DEF G
<1>15. \A k \in 0 .. n : k \in G
  BY <1>1, <1>13, <1>14, Upward
<1>16. n \in 0 .. n
  BY <1>1
<1> QED
  BY <1>11, <1>15, <1>16 DEF G, T

LEMMA EnumerateIs ==
  ASSUME NEW h \in Hosts, NEW b \in {"opencl", "cuda"}
  PROVE  Enumerate(h, b) \in Seq(Infos(b))
<1>1. /\ h.platforms \in Seq(Seq(OclDevices)) /\ h.devices \in Seq(CudaDevices)
      /\ MaxPlatforms \in Nat /\ DevMax \in Nat
  BY ListAssumption DEF Hosts
<1>2. CASE b = "opencl"
  <2> DEFINE found == Upto(FlattenSeq(Upto(h.platforms, MaxPlatforms)), DevMax)
             infos == [i \in DOMAIN found |-> OclInfo(found[i])]
  <2>1. found \in Seq(OclDevices)
    <3>1. Upto(h.platforms, MaxPlatforms) \in Seq(Seq(OclDevices))
      BY <1>1, UptoSeq
    <3>2. FlattenSeq(Upto(h.platforms, MaxPlatforms)) \in Seq(OclDevices)
      BY <3>1, FlattenIs
    <3> QED
      BY <1>1, <3>2, UptoSeq
  <2>2. Enumerate(h, b) = IF ~OclLoad(h.missing.opencl) THEN <<>> ELSE infos
    BY <1>2 DEF Enumerate, OclEnumerate
  <2> HIDE DEF found
  <2>3. /\ DOMAIN found = 1 .. Len(found) /\ Len(found) \in Nat
        /\ \A i \in 1 .. Len(found) : OclInfo(found[i]) \in OclInfos
    BY <2>1, LenProperties, ElementOfSeq DEF OclInfos
  <2>4. infos \in Seq(OclInfos) /\ <<>> \in Seq(OclInfos)
    BY <2>3
  <2> HIDE DEF infos
  <2>5. Infos(b) = OclInfos
    BY <1>2 DEF Infos
  <2> QED
    BY <2>2, <2>4, <2>5
<1>3. CASE b = "cuda"
  <2> DEFINE found == Upto(Opened(h.devices), DevMax)
             infos == [i \in DOMAIN found |-> CudaInfo(found[i])]
  <2>1. found \in Seq(CudaDevices)
    BY <1>1, OpenedIs, UptoSeq
  <2>2. Enumerate(h, b) = IF ~CudaLoad(h.missing.cuda) THEN <<>> ELSE infos
    BY <1>3 DEF Enumerate, CudaEnumerate, Opened
  <2> HIDE DEF found
  <2>3. /\ DOMAIN found = 1 .. Len(found) /\ Len(found) \in Nat
        /\ \A i \in 1 .. Len(found) : CudaInfo(found[i]) \in CudaInfos
    BY <2>1, LenProperties, ElementOfSeq DEF CudaInfos
  <2>4. infos \in Seq(CudaInfos) /\ <<>> \in Seq(CudaInfos)
    BY <2>3
  <2> HIDE DEF infos
  <2>5. Infos(b) = CudaInfos
    BY <1>3 DEF Infos
  <2> QED
    BY <2>2, <2>4, <2>5
<1> QED
  BY <1>2, <1>3

(* None of the devices of a back end is lost as long as there is room, and two
   that share an entry are one card, unless the address of one was made up. *)
THEOREM DevicesComplete ==
  ASSUME NEW h \in Hosts
  PROVE  /\ \A b \in {"opencl", "cuda"} :
              Len(VbDevices(h)) < DevMax => Number(VbDevices(h), b) = Len(Enumerate(h, b))
         /\ \A i \in DOMAIN VbDevices(h) :
              LET e == VbDevices(h)[i] IN
              e.opencl # None /\ e.cuda # None /\ ~e.opencl.guessed => e.opencl.card = e.cuda.card
<1> DEFINE ocl   == Enumerate(h, "opencl")
           cuda  == Enumerate(h, "cuda")
           first == Puts(<<>>, "opencl", ocl)
           whole == Puts(first, "cuda", cuda)
<1>1. VbDevices(h) = whole
  BY ListIs
<1>2. ocl \in Seq(Infos("opencl")) /\ cuda \in Seq(Infos("cuda"))
  BY EnumerateIs
<1> HIDE DEF ocl, cuda
<1>3. <<>> \in Seq(Joins)
  OBVIOUS
<1>4. \A b : Number(<<>>, b) = 0
  <2>1. \A b : {i \in DOMAIN <<>> : <<>>[i][b] # None} = {}
    OBVIOUS
  <2> QED
    BY <2>1, FS_EmptySet DEF Number
<1>5. More(<<>>, first, "opencl", Len(ocl))
  BY <1>2, <1>3, PutsMore
<1> HIDE DEF first
<1>6. first \in Seq(Joins)
  BY <1>5 DEF More
<1>7. More(first, whole, "cuda", Len(cuda))
  BY <1>2, <1>6, PutsMore
<1> HIDE DEF whole
<1>8. whole \in Seq(Joins) /\ Len(first) <= Len(whole)
  BY <1>7 DEF More
<1>9. ASSUME Len(whole) < DevMax
      PROVE  Number(whole, "opencl") = Len(ocl) /\ Number(whole, "cuda") = Len(cuda)
  <2>1. /\ Len(first) \in Nat /\ Len(whole) \in Nat /\ DevMax \in Nat
        /\ Len(ocl) \in Nat /\ Len(cuda) \in Nat
    BY <1>2, <1>6, <1>8, LenProperties, ListAssumption
  <2>2. Len(first) < DevMax
    BY <1>8, <1>9, <2>1
  <2>3. Number(first, "opencl") = 0 + Len(ocl) /\ Number(first, "cuda") = 0 + 0
    BY <1>4, <1>5, <2>2 DEF More
  <2>4. Number(whole, "opencl") = Number(first, "opencl") + 0
        /\ Number(whole, "cuda") = Number(first, "cuda") + Len(cuda)
    BY <1>7, <1>9 DEF More
  <2> QED
    BY <2>1, <2>3, <2>4
<1>10. ASSUME NEW i \in DOMAIN whole, whole[i].opencl # None, whole[i].cuda # None,
              ~whole[i].opencl.guessed
       PROVE  whole[i].opencl.card = whole[i].cuda.card
  <2>1. whole[i] \in Joins
    BY <1>8, LenProperties, ElementOfSeq
  <2>2. /\ whole[i].opencl \in OclInfos /\ whole[i].cuda \in CudaInfos
        /\ whole[i].opencl.pci = whole[i].cuda.pci
    BY <1>10, <2>1 DEF Joins, Entries
  <2> QED
    BY <1>10, <2>2, OclInfoIs, CudaInfoIs
<1> QED
  BY <1>1, <1>9, <1>10 DEF ocl, cuda

(* However many devices, groups and chunks there are: the devices in use divide
   the groups between them, and no device that a driver enumerates is lost from
   the list or taken for another. *)
THEOREM MeasureWorkDivided == Spec => []WorkDivided
<1>1. ASSUME TypeOK PROVE ListComplete
  <2>1. ask.host \in Hosts
    BY <1>1, HostsAssumption DEF TypeOK
  <2> DEFINE l == VbDevices(ask.host)
  <2>2. /\ \A b \in {"opencl", "cuda"} :
             Len(l) < DevMax => Number(l, b) = Len(Enumerate(ask.host, b))
        /\ \A i \in DOMAIN l :
             l[i].opencl # None /\ l[i].cuda # None /\ ~l[i].opencl.guessed =>
               l[i].opencl.card = l[i].cuda.card
    BY <2>1, DevicesComplete
  <2> HIDE DEF l
  <2>3. Range(Apis) = {"opencl", "cuda"}
    <3>1. DOMAIN Apis = 1 .. 2 /\ Apis[1] = "opencl" /\ Apis[2] = "cuda"
      BY DEF Apis
    <3>2. 1 .. 2 = {1, 2}
      OBVIOUS
    <3> QED
      BY <3>1, <3>2 DEF Range
  <2>4. List = l
    BY DEF List, l
  <2> QED
    BY <2>2, <2>3, <2>4, Zenon DEF ListComplete, Number
<1>2. TypeOK /\ (at = "check" => GroupsDivided) => WorkDivided
  BY <1>1 DEF WorkDivided
<1> QED
  BY <1>2, MeasureTypeOK, MeasureDividesGroups, PTL

=============================================================================
