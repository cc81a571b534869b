--------------------------- MODULE DeviceContextProofs ---------------------------
(***************************************************************************)
(* Theorems about DeviceContext, for every device, slice, pinned geometry, *)
(* bound of the tuner and number of the probe's reads.                     *)
(*                                                                         *)
(* A context always is in `Context`: what it holds is what destroy gives   *)
(* back (Owned), an error is set where it fails and nowhere it comes up    *)
(* (Reasons), the partials are allocated before anything is launched       *)
(* (Route), and the size being tried, what the probe has to restore, the   *)
(* best so far and what is settled on all are powers of two with grids of  *)
(* whole groups and lanes, within the partials (Tuning).  The arithmetic   *)
(* of the sizes comes first, then LaunchCovers: such a launch, with an odd *)
(* number of sweeps, has each message once.  On a device that holds up no  *)
(* group between its two reads the probe never sees more groups than there *)
(* is room for (ProbeSees), and Held follows that number from the probe    *)
(* into the tuned geometry.                                                *)
(***************************************************************************)
EXTENDS DeviceContext, FiniteSetTheorems, SequenceTheorems, WellFoundedInduction, TLAPS

-----------------------------------------------------------------------------
(* Arithmetic. *)

LEMMA Divide ==
  ASSUME NEW x \in Nat, NEW n \in Nat \ {0}
  PROVE  /\ x = n * (x \div n) + (x % n)
         /\ x \div n \in Nat /\ x % n \in 0 .. n - 1
  OBVIOUS

LEMMA TimesGrows ==
  ASSUME NEW a \in Nat, NEW i \in Nat, NEW j \in Nat, i <= j
  PROVE  a * i <= a * j /\ a * i \in Nat /\ i * a = a * i
  OBVIOUS

\* A quotient is at least k as soon as the number is k times the divisor.
LEMMA QuotientAtLeast ==
  ASSUME NEW x \in Nat, NEW n \in Nat \ {0}, NEW k \in Nat, n * k <= x
  PROVE  k <= x \div n
<1> DEFINE q == x \div n
           r == x % n
<1>1. x = n * q + r /\ q \in Nat /\ r \in 0 .. n - 1
  BY Divide
<1> HIDE DEF q, r
<1>2. SUFFICES ASSUME q + 1 <= k PROVE FALSE
  BY <1>1 DEF q
<1>3. n * (q + 1) <= n * k
  BY <1>1, <1>2, TimesGrows
<1>4. n * (q + 1) = n * q + n /\ n * q \in Nat /\ n * k \in Nat
  BY <1>1
<1> QED
  BY <1>1, <1>3, <1>4

LEMMA Multiple ==
  ASSUME NEW n \in Nat \ {0}, NEW k \in Nat
  PROVE  (n * k) % n = 0 /\ (n * k) \div n = k
<1> DEFINE q == (n * k) \div n
           r == (n * k) % n
<1>1. n * k \in Nat
  OBVIOUS
<1>2. n * k = n * q + r /\ q \in Nat /\ r \in 0 .. n - 1
  BY <1>1, Divide
<1>3. k <= q
  BY <1>1, QuotientAtLeast
<1> HIDE DEF q, r
<1>4. n * k <= n * q
  BY <1>2, <1>3, TimesGrows
<1>5. r = 0 /\ n * k = n * q
  <2> DEFINE a == n * k
             b == n * q
  <2>1. a \in Nat /\ b \in Nat
    BY <1>2
  <2> HIDE DEF a, b
  <2> QED
    BY <1>2, <1>4, <2>1 DEF a, b
<1>6. ~(k < q)
  <2> SUFFICES ASSUME k + 1 <= q PROVE FALSE
    BY <1>2
  <2>1. n * (k + 1) <= n * q /\ n * (k + 1) = n * k + n
    BY <1>2, TimesGrows
  <2> QED
    BY <1>1, <1>5, <2>1
<1> QED
  BY <1>2, <1>3, <1>5, <1>6 DEF q, r

LEMMA DivMono ==
  ASSUME NEW x \in Nat, NEW y \in Nat, x <= y,
         NEW m \in Nat \ {0}, NEW n \in Nat \ {0}, n <= m
  PROVE  x \div m <= y \div n
<1> DEFINE q == x \div m
<1>1. x = m * q + (x % m) /\ q \in Nat /\ x % m \in Nat
  BY Divide
<1> HIDE DEF q
<1>2. q * n <= q * m /\ q * n = n * q /\ q * m = m * q
  BY <1>1, TimesGrows
<1>3. n * q <= x
  BY <1>1, <1>2
<1>4. n * q <= y
  BY <1>1, <1>3
<1> QED
  BY <1>1, <1>4, QuotientAtLeast DEF q

\* RoundUp gives the least multiple of the unit that is not less.
LEMMA RoundsUp ==
  ASSUME NEW x \in Nat, NEW u \in Nat \ {0}
  PROVE  /\ RoundUp(x, u) \in Nat /\ RoundUp(x, u) % u = 0 /\ x <= RoundUp(x, u)
         /\ \A y \in Nat : x <= y /\ y % u = 0 => RoundUp(x, u) <= y
<1> DEFINE s == x + u - 1
           q == s \div u
<1>1. s \in Nat
  OBVIOUS
<1> HIDE DEF s
<1>2. s = u * q + (s % u) /\ q \in Nat /\ s % u \in 0 .. u - 1
  BY <1>1, Divide
<1> HIDE DEF q
<1>3. RoundUp(x, u) = u * q /\ u * q \in Nat
  BY <1>2 DEF RoundUp, q, s
<1>4. (u * q) % u = 0
  BY <1>2, Multiple
<1>5. x <= u * q
  BY <1>2, <1>3 DEF s
<1>6. ASSUME NEW y \in Nat, x <= y, y % u = 0 PROVE u * q <= y
  <2> DEFINE k == y \div u
  <2>1. y = u * k /\ k \in Nat
    BY <1>6, Divide
  <2> HIDE DEF k
  <2>2. u * q <= s
    BY <1>2, <1>3
  <2>3. ~(k + 1 <= q)
    <3> SUFFICES ASSUME k + 1 <= q PROVE FALSE
      OBVIOUS
    <3>1. u * (k + 1) <= u * q /\ u * (k + 1) = u * k + u
      BY <1>2, <2>1, TimesGrows
    <3> QED
      BY <1>3, <1>6, <2>1, <2>2, <3>1 DEF s
  <2> QED
    BY <1>2, <2>1, <2>3, TimesGrows
<1> QED
  BY <1>3, <1>4, <1>5, <1>6

LEMMA MultipleOfMultiple ==
  ASSUME NEW a \in Nat \ {0}, NEW b \in Nat \ {0}, NEW c \in Nat, b % a = 0, c % b = 0
  PROVE  c % a = 0
<1> DEFINE i == b \div a
           j == c \div b
<1>1. b = a * i /\ c = b * j /\ i \in Nat /\ j \in Nat
  BY Divide
<1> HIDE DEF i, j
<1>2. c = a * (i * j) /\ i * j \in Nat
  BY <1>1
<1> QED
  BY <1>2, Multiple

LEMMA PowersAre ==
  Powers = {1, 2, 4, 8, 16, 32, 64, 128, 256, 512, 1024, 2048, 4096, 8192, 16384, 32768}
<1>1. /\ 2 ^ 0 = 1 /\ 2 ^ 1 = 2 /\ 2 ^ 2 = 4 /\ 2 ^ 3 = 8 /\ 2 ^ 4 = 16 /\ 2 ^ 5 = 32
      /\ 2 ^ 6 = 64 /\ 2 ^ 7 = 128
  OBVIOUS
<1>2. /\ 2 ^ 8 = 256 /\ 2 ^ 9 = 512 /\ 2 ^ 10 = 1024 /\ 2 ^ 11 = 2048 /\ 2 ^ 12 = 4096
      /\ 2 ^ 13 = 8192 /\ 2 ^ 14 = 16384 /\ 2 ^ 15 = 32768
  OBVIOUS
<1>3. 0 .. 15 = {0, 1, 2, 3, 4, 5, 6, 7, 8, 9, 10, 11, 12, 13, 14, 15}
  OBVIOUS
<1> QED
  BY <1>1, <1>2, <1>3 DEF Powers

\* A power of two divides every larger one.
LEMMA PowersDivide ==
  ASSUME NEW a \in Powers, NEW b \in Powers, a <= b
  PROVE  b % a = 0 /\ a \in Nat \ {0} /\ b \in Nat \ {0}
<1>1. CASE a \in {1, 2, 4, 8}
  BY <1>1, PowersAre
<1>2. CASE a \in {16, 32, 64, 128}
  BY <1>2, PowersAre
<1>3. CASE a \in {256, 512, 1024, 2048}
  BY <1>3, PowersAre
<1>4. CASE a \in {4096, 8192, 16384, 32768}
  BY <1>4, PowersAre
<1> QED
  BY <1>1, <1>2, <1>3, <1>4, PowersAre

-----------------------------------------------------------------------------
(* Sizes. *)

LEMMA DevFacts ==
  ASSUME dev \in Devices
  PROVE  /\ dev.lanes \in Powers /\ dev.lanes \in Nat \ {0}
         /\ dev.units \in Nat \ {0} /\ dev.n \in Nat \ {0} /\ PerCu \in Nat \ {0}
         /\ dev.maxGroup \in Nat /\ dev.kernelMax \in Nat
         /\ MinLocal \in Powers /\ MaxLocal \in Powers /\ FloorLocal \in Powers
         /\ MinLocal \in Nat \ {0} /\ MaxLocal \in Nat \ {0} /\ FloorLocal \in Nat \ {0}
         /\ FloorLocal <= MinLocal /\ MinLocal <= MaxLocal
<1>1. \A p \in Powers : p \in Nat \ {0}
  BY PowersAre
<1> QED
  BY <1>1, DevicesAssumption, LanesAssumption, LocalAssumption, PerCuAssumption

\* Unless the size exceeds the largest, Larger gives a power that both divide.
LEMMA LargerPower ==
  ASSUME NEW a \in Powers, NEW b \in Powers
  PROVE  /\ Larger(a, b) \in Powers /\ Larger(a, b) \in Nat \ {0}
         /\ Larger(a, b) % a = 0 /\ Larger(a, b) % b = 0
         /\ a <= Larger(a, b) /\ b <= Larger(a, b)
<1>1. a \in Nat /\ b \in Nat
  BY PowersAre
<1>2. CASE a > b
  BY <1>1, <1>2, PowersDivide DEF Larger
<1>3. CASE ~(a > b)
  BY <1>1, <1>3, PowersDivide DEF Larger
<1> QED
  BY <1>2, <1>3

LEMMA CeilingType ==
  ASSUME dev \in Devices
  PROVE  Ceiling \in Nat \ {0} /\ Ceiling <= Larger(MaxLocal, dev.maxGroup)
  BY DevFacts DEF Ceiling, Larger

\* A non-empty set of naturals has a least element, a bounded one a greatest.
LEMMA LeastExists ==
  ASSUME NEW S, S \subseteq Nat, S # {}
  PROVE  \E m \in S : \A k \in S : m <= k
<1> DEFINE R == OpToRel(<, Nat)
<1>1. IsWellFoundedOn(R, Nat)
  BY NatLessThanWellFounded
<1>2. \A j, k \in Nat : <<j, k>> \in R <=> j < k
  BY DEF OpToRel
<1> HIDE DEF R
<1>3. PICK m \in S : \A k \in S : ~(<<k, m>> \in R)
  BY <1>1, WFMin
<1>4. ASSUME NEW k \in S PROVE m <= k
  <2>1. k \in Nat /\ m \in Nat /\ ~(k < m)
    BY <1>2, <1>3
  <2> QED
    BY <2>1
<1> QED
  BY <1>4

LEMMA GreatestExists ==
  ASSUME NEW S, S \subseteq Nat, S # {}, NEW b \in Nat, \A x \in S : x <= b
  PROVE  \E m \in S : \A k \in S : k <= m
<1> DEFINE T == { b - x : x \in S }
<1>1. \A x \in S : b - x \in Nat /\ x \in Nat
  OBVIOUS
<1>2. T \subseteq Nat /\ T # {}
  BY <1>1
<1>3. PICK t \in T : \A k \in T : t <= k
  <2> HIDE DEF T
  <2> QED
    BY <1>2, LeastExists
<1>4. PICK m \in S : t = b - m
  BY <1>3
<1>5. ASSUME NEW k \in S PROVE k <= m
  <2>1. t <= b - k
    BY <1>3
  <2> QED
    BY <1>1, <1>4, <2>1
<1> QED
  BY <1>5

\* local_bounds halves to a size the kernel takes, or to the least there is.
LEMMA FloorFacts ==
  ASSUME dev \in Devices
  PROVE  /\ Floor \in Powers /\ Floor \in Nat \ {0} /\ Floor <= MinLocal /\ FloorLocal <= Floor
         /\ \A p \in Powers : FloorLocal <= p /\ p <= Ceiling /\ p <= MinLocal => p <= Floor
<1> DEFINE S == { l \in Halvings : l <= Ceiling \/ l = FloorLocal }
<1>1. FloorLocal \in S /\ S \subseteq Halvings /\ Halvings \subseteq Powers
  BY DevFacts DEF Halvings
<1>2. Powers \subseteq Nat \ {0}
  BY PowersAre
<1>3. S \subseteq Nat /\ \A x \in S : x <= MinLocal
  BY <1>1, <1>2 DEF Halvings
<1>4. PICK l \in S : \A x \in S : x <= l
  <2> HIDE DEF S
  <2> QED
    BY <1>1, <1>3, DevFacts, GreatestExists
<1>5. \A m \in Halvings : m > l => m > Ceiling
  <2> SUFFICES ASSUME NEW m \in Halvings, m > l PROVE m > Ceiling
    OBVIOUS
  <2>1. m \in Nat /\ l \in Nat /\ Ceiling \in Nat
    BY <1>1, <1>2, <1>4, CeilingType
  <2>2. m \notin S
    BY <1>4, <2>1
  <2> QED
    BY <2>1, <2>2
<1>6. /\ Floor \in Halvings /\ (Floor <= Ceiling \/ Floor = FloorLocal)
      /\ \A m \in Halvings : m > Floor => m > Ceiling
  <2>1. /\ l \in Halvings /\ (l <= Ceiling \/ l = FloorLocal)
        /\ \A m \in Halvings : m > l => m > Ceiling
    BY <1>4, <1>5
  <2> HIDE DEF S
  <2> QED
    BY <2>1 DEF Floor
<1>7. ASSUME NEW p \in Powers, FloorLocal <= p, p <= Ceiling, p <= MinLocal PROVE p <= Floor
  <2>1. p \in Halvings /\ p \in Nat /\ Floor \in Nat /\ Ceiling \in Nat
    BY <1>1, <1>2, <1>6, <1>7, CeilingType DEF Halvings
  <2> QED
    BY <1>6, <1>7, <2>1
<1> QED
  BY <1>1, <1>2, <1>6, <1>7 DEF Halvings

\* max_global: whole groups of lanes of any size up to the largest, and at
\* least one for every compute unit and one for every message.
LEMMA MaxGlobalFacts ==
  ASSUME dev \in Devices
  PROVE  /\ MaxGlobal \in Nat \ {0} /\ dev.units * PerCu <= MaxGlobal
         /\ MaxGlobal % dev.lanes = 0
         /\ \A p \in Powers : p <= MaxLocal => MaxGlobal % p = 0 /\ MaxGlobal % Unit(p) = 0
<1> DEFINE x == Larger(dev.n * dev.lanes, dev.units * PerCu)
           u == Larger(MaxLocal, dev.lanes)
<1>1. /\ u \in Powers /\ u \in Nat \ {0} /\ u % MaxLocal = 0 /\ u % dev.lanes = 0
      /\ MaxLocal <= u /\ dev.lanes <= u
  BY DevFacts, LargerPower
<1>2. dev.n * dev.lanes \in Nat \ {0} /\ dev.units * PerCu \in Nat
  <2>1. \A i, j \in Nat \ {0} : i * j \in Nat \ {0}
    OBVIOUS
  <2> QED
    BY <2>1, DevFacts
<1>3. x \in Nat \ {0} /\ dev.units * PerCu <= x
  BY <1>2 DEF Larger
<1>4. MaxGlobal = RoundUp(x, u)
  BY DEF MaxGlobal
<1> HIDE DEF x, u
<1>5. MaxGlobal \in Nat \ {0} /\ MaxGlobal % u = 0 /\ dev.units * PerCu <= MaxGlobal
  <2>1. MaxGlobal \in Nat /\ MaxGlobal % u = 0 /\ x <= MaxGlobal
    BY <1>1, <1>3, <1>4, RoundsUp
  <2> DEFINE y == dev.units * PerCu
  <2>2. y \in Nat /\ y <= x
    BY <1>2, <1>3
  <2> HIDE DEF y
  <2>3. MaxGlobal # 0 /\ y <= MaxGlobal
    BY <1>3, <2>1, <2>2
  <2> QED
    BY <2>1, <2>3 DEF y
<1>6. \A p \in Powers : p <= u => MaxGlobal % p = 0
  BY <1>1, <1>5, PowersDivide, MultipleOfMultiple
<1>7. ASSUME NEW p \in Powers, p <= MaxLocal PROVE MaxGlobal % p = 0 /\ MaxGlobal % Unit(p) = 0
  <2>1. p \in Nat
    BY PowersAre
  <2>2. p <= u /\ Unit(p) \in {p, dev.lanes}
    BY <1>1, <1>7, <2>1, DevFacts DEF Unit, Larger
  <2>3. MaxGlobal % p = 0 /\ MaxGlobal % dev.lanes = 0
    BY <1>1, <1>6, <2>2, DevFacts
  <2> QED
    BY <2>2, <2>3
<1> QED
  BY <1>1, <1>5, <1>6, <1>7, DevFacts

LEMMA UnitFacts ==
  ASSUME dev \in Devices, NEW l \in Powers
  PROVE  /\ Unit(l) \in Nat \ {0} /\ Unit(l) % l = 0 /\ Unit(l) % dev.lanes = 0 /\ l <= Unit(l)
         /\ Unit(l) = IF l > dev.lanes THEN l ELSE dev.lanes
<1>1. dev.lanes \in Powers
  BY DevFacts
<1> QED
  BY <1>1, LargerPower DEF Unit, Larger

\* The grids of groups of l that the tuner tries.
LEMMA TopFacts ==
  ASSUME dev \in Devices, NEW l \in Powers, l <= MaxLocal, NEW h \in Nat
  PROVE  /\ Top(l, h) \in Nat \ {0} /\ Top(l, h) % Unit(l) = 0 /\ Top(l, h) <= MaxGlobal
         /\ h # 0 => Top(l, h) <= Larger(h, Unit(l))
<1> DEFINE U == Unit(l)
           k == h \div U
           fit == Larger(k * U, U)
<1>1. U \in Nat \ {0}
  BY UnitFacts
<1>2. MaxGlobal \in Nat \ {0} /\ MaxGlobal % U = 0
  BY MaxGlobalFacts
<1>3. Top(l, h) = IF h # 0 /\ fit < MaxGlobal THEN fit ELSE MaxGlobal
  BY DEF Top
<1> HIDE DEF U
<1>4. h = U * k + (h % U) /\ k \in Nat /\ h % U \in Nat
  BY <1>1, Divide
<1> HIDE DEF k
<1>5. k * U = U * k /\ U * k \in Nat /\ (U * k) % U = 0 /\ (U * 1) % U = 0 /\ U * 1 = U
  BY <1>1, <1>4, Multiple
<1>6. k * U <= h
  BY <1>4, <1>5
<1>7. fit \in Nat \ {0} /\ fit % U = 0 /\ fit <= Larger(h, U)
  <2> DEFINE y == k * U
  <2>1. y \in Nat /\ y % U = 0 /\ U % U = 0 /\ y <= h
    BY <1>5, <1>6
  <2> HIDE DEF y
  <2>2. Larger(y, U) \in Nat \ {0} /\ Larger(y, U) % U = 0 /\ Larger(y, U) <= Larger(h, U)
    BY <1>1, <2>1 DEF Larger
  <2> QED
    BY <2>2 DEF y
<1> HIDE DEF fit
<1>8. Larger(h, U) \in Nat
  BY <1>1 DEF Larger
<1>9. /\ Top(l, h) \in Nat \ {0} /\ Top(l, h) % U = 0 /\ Top(l, h) <= MaxGlobal
      /\ h # 0 => Top(l, h) <= Larger(h, U)
  BY <1>2, <1>3, <1>7, <1>8
<1> QED
  BY <1>9 DEF U

LEMMA CandidateFacts ==
  ASSUME dev \in Devices, NEW l \in Powers, l <= MaxLocal, NEW m \in Nat \ {0}, NEW h \in Nat
  PROVE  /\ Candidate(l, m, h) \in Nat \ {0} /\ Candidate(l, m, h) <= Top(l, h)
         /\ Candidate(l, m, h) % l = 0 /\ Candidate(l, m, h) % dev.lanes = 0
<1> DEFINE U == Unit(l)
           x == l * m * dev.units
<1>1. U \in Nat \ {0} /\ U % l = 0 /\ U % dev.lanes = 0 /\ l \in Nat \ {0}
  BY UnitFacts, PowersAre
<1>2. Top(l, h) \in Nat \ {0} /\ Top(l, h) % U = 0
  BY TopFacts
<1>3. x \in Nat \ {0}
  <2>1. \A i, j \in Nat \ {0} : i * j \in Nat \ {0}
    OBVIOUS
  <2>2. l * m \in Nat \ {0}
    BY <1>1, <2>1
  <2> QED
    BY <2>1, <2>2, DevFacts
<1>4. Candidate(l, m, h) = IF RoundUp(x, U) >= Top(l, h) THEN Top(l, h) ELSE RoundUp(x, U)
  BY DEF Candidate
<1> HIDE DEF U, x
<1>5. RoundUp(x, U) \in Nat \ {0} /\ RoundUp(x, U) % U = 0
  <2>1. RoundUp(x, U) \in Nat /\ RoundUp(x, U) % U = 0 /\ x <= RoundUp(x, U)
    BY <1>1, <1>3, RoundsUp
  <2> QED
    BY <1>3, <2>1
<1>6. /\ Candidate(l, m, h) \in Nat \ {0} /\ Candidate(l, m, h) <= Top(l, h)
      /\ Candidate(l, m, h) % U = 0
  BY <1>2, <1>4, <1>5
<1> QED
  BY <1>1, <1>6, MultipleOfMultiple, DevFacts

LEMMA CandidateFits ==
  ASSUME dev \in Devices, NEW l \in Powers, Floor <= l, l <= MaxLocal,
         NEW m \in Nat \ {0}, NEW h \in Nat
  PROVE  Candidate(l, m, h) \div l <= MaxGlobal \div Floor
<1>1. /\ Candidate(l, m, h) \in Nat /\ Candidate(l, m, h) <= Top(l, h)
      /\ Top(l, h) \in Nat /\ Top(l, h) <= MaxGlobal /\ MaxGlobal \in Nat
  BY CandidateFacts, TopFacts, MaxGlobalFacts
<1>2. l \in Nat \ {0} /\ Floor \in Nat \ {0}
  BY PowersAre, FloorFacts
<1>3. Candidate(l, m, h) <= MaxGlobal
  BY <1>1
<1> QED
  BY <1>1, <1>2, <1>3, DivMono

\* The probe's grid, in groups of any size that the device takes.
LEMMA ProbeFits ==
  ASSUME dev \in Devices, NEW l \in Powers, Floor <= l
  PROVE  ProbeGlobal(l) \in Nat /\ ProbeGlobal(l) \div l <= MaxGlobal \div Floor
<1> DEFINE x == dev.units * PerCu
           U == Unit(l)
<1>1. l \in Nat \ {0} /\ Floor \in Nat \ {0} /\ Floor \in Powers /\ Floor <= MaxLocal
  BY PowersAre, FloorFacts, DevFacts
<1>2. /\ MaxGlobal \in Nat /\ x <= MaxGlobal /\ MaxGlobal % dev.lanes = 0
      /\ MaxGlobal % Floor = 0
  BY <1>1, MaxGlobalFacts
<1>3. ProbeGlobal(l) = RoundUp(x, U)
  BY DevFacts DEF ProbeGlobal, Larger
<1>4. x \in Nat /\ U \in Nat \ {0} /\ U = IF l > dev.lanes THEN l ELSE dev.lanes
  BY UnitFacts, DevFacts
<1> HIDE DEF x, U
<1>5. /\ RoundUp(x, U) \in Nat
      /\ \A y \in Nat : x <= y /\ y % U = 0 => RoundUp(x, U) <= y
  BY <1>4, RoundsUp
<1>6. CASE l > dev.lanes
  <2> DEFINE k == MaxGlobal \div Floor
  <2>1. MaxGlobal = Floor * k /\ k \in Nat
    <3>1. MaxGlobal = Floor * k + (MaxGlobal % Floor) /\ k \in Nat
      BY <1>1, <1>2, Divide
    <3> HIDE DEF k
    <3>2. Floor * k \in Nat
      BY <1>1, <3>1
    <3> QED
      BY <1>2, <3>1, <3>2
  <2> HIDE DEF k
  <2>2. k * Floor <= k * l /\ k * l \in Nat /\ k * Floor = Floor * k
    BY <1>1, <2>1, TimesGrows
  <2>3. (l * k) % l = 0 /\ (l * k) \div l = k /\ l * k = k * l
    BY <1>1, <2>1, Multiple
  <2>4. x <= l * k /\ U = l
    BY <1>2, <1>4, <1>6, <2>1, <2>2, <2>3
  <2>5. RoundUp(x, U) <= l * k
    BY <1>5, <2>2, <2>3, <2>4
  <2>6. RoundUp(x, U) \div l <= (l * k) \div l
    BY <1>1, <1>5, <2>2, <2>3, <2>5, DivMono
  <2> QED
    BY <1>3, <1>5, <2>3, <2>6 DEF k
<1>7. CASE ~(l > dev.lanes)
  <2>1. RoundUp(x, U) <= MaxGlobal
    BY <1>2, <1>4, <1>5, <1>7
  <2> QED
    BY <1>1, <1>2, <1>3, <1>5, <2>1, DivMono
<1> QED
  BY <1>6, <1>7

\* The partials that are allocated.
LEMMA PartialCapFacts ==
  ASSUME dev \in Devices, pin \in Pins
  PROVE  /\ PartialCap \in Nat /\ MaxGlobal \div Floor <= PartialCap
         /\ pin[1] # 0 /\ pin[2] # 0 => pin[1] \div pin[2] <= PartialCap
         /\ pin[1] \in Nat /\ pin[2] \in Nat
<1>1. pin[1] \in Nat /\ pin[2] \in Nat
  BY PinsAssumption
<1>2. MaxGlobal \div Floor \in Nat
  BY MaxGlobalFacts, FloorFacts, Divide
<1> DEFINE tuned == MaxGlobal \div Floor
           pinned == IF pin[1] # 0 /\ pin[2] # 0 THEN pin[1] \div pin[2] ELSE 0
<1>3. pinned \in Nat
  BY <1>1, Divide
<1>4. PartialCap = Larger(tuned, pinned)
  BY DEF PartialCap
<1>5. tuned \in Nat /\ (pin[1] # 0 /\ pin[2] # 0 => pinned = pin[1] \div pin[2])
  BY <1>2
<1> HIDE DEF tuned, pinned
<1>6. PartialCap \in Nat /\ tuned <= PartialCap /\ pinned <= PartialCap
  BY <1>3, <1>4, <1>5 DEF Larger
<1> QED
  BY <1>1, <1>5, <1>6 DEF tuned

-----------------------------------------------------------------------------
(* What a launch hashes. *)

\* The work-items that the halving from half a group down to s folds into the
\* first: Arriving is this table at size / 2.
Folds(f, size) ==
  f = [s \in 0 .. size |-> IF s = 0 THEN {0} ELSE f[s \div 2] \cup {i + s : i \in f[s \div 2]}]

LEMMA FoldsUpTo ==
  ASSUME NEW size \in Nat
  PROVE  \E f : Folds(f, size)
<1> DEFINE S == { n \in Nat : ~\E f : Folds(f, n) }
<1>1. S \subseteq Nat
  OBVIOUS
<1>2. SUFFICES ASSUME S # {} PROVE FALSE
  OBVIOUS
<1>3. PICK n \in S : \A k \in S : n <= k
  <2> HIDE DEF S
  <2> QED
    BY <1>1, <1>2, LeastExists
<1>4. n \in Nat /\ ~\E f : Folds(f, n)
  BY <1>3
<1>5. n # 0
  <2>1. Folds([s \in 0 .. 0 |-> {0}], 0)
    BY DEF Folds
  <2> QED
    BY <1>4, <2>1
<1>6. PICK f : Folds(f, n - 1)
  <2>1. n - 1 \in Nat /\ ~(n <= n - 1)
    BY <1>4, <1>5
  <2>2. n - 1 \notin S
    BY <1>3, <2>1
  <2> QED
    BY <2>1, <2>2
<1> HIDE DEF S
<1>7. ASSUME NEW s \in 1 .. n PROVE s \div 2 \in 0 .. n - 1 /\ s \div 2 < s
  BY <1>4, <1>7
<1> DEFINE Following(s) == IF s = 0 THEN {0} ELSE f[s \div 2] \cup {i + s : i \in f[s \div 2]}
           h == [s \in 0 .. n |-> Following(s)]
<1>8. \A s \in 0 .. n - 1 : f[s] = Following(s)
  BY <1>6 DEF Folds
<1> HIDE DEF Following
<1>9. \A s \in 0 .. n - 1 : h[s] = f[s]
  BY <1>4, <1>8
<1>10. h = [s \in 0 .. n |-> IF s = 0 THEN {0} ELSE h[s \div 2] \cup {i + s : i \in h[s \div 2]}]
  <2>1. ASSUME NEW s \in 0 .. n
        PROVE  Following(s) = IF s = 0 THEN {0} ELSE h[s \div 2] \cup {i + s : i \in h[s \div 2]}
    <3>1. CASE s = 0
      BY <3>1 DEF Following
    <3>2. CASE s # 0
      <4>1. s \in 1 .. n
        BY <1>4, <3>2
      <4>2. s \div 2 \in 0 .. n - 1
        BY <1>7, <4>1
      <4>3. h[s \div 2] = f[s \div 2]
        BY <1>9, <4>2
      <4> QED
        BY <3>2, <4>3 DEF Following
    <3> QED
      BY <3>1, <3>2
  <2> QED
    BY <2>1, Zenon
<1>11. Folds(h, n)
  BY <1>10, Zenon DEF Folds
<1> QED
  BY <1>4, <1>11

\* A table of the kind, on the sizes that are halved.
LEMMA ArrivingTable ==
  ASSUME NEW size \in Nat
  PROVE  \E f : Arriving(size) = f[size \div 2] /\ Folds(f, size)
<1> DEFINE at_ == CHOOSE f : Folds(f, size)
<1>1. Folds(at_, size)
  BY FoldsUpTo, Zenon
<1>2. Arriving(size) = at_[size \div 2]
  BY Zenon DEF Arriving, Folds
<1> QED
  BY <1>1, <1>2

\* One halving more folds twice as many.
LEMMA FoldsHalf ==
  ASSUME NEW size \in Nat, NEW f, Folds(f, size),
         NEW k \in Nat \ {0}, 2 * k <= size, f[k] = 0 .. 2 * k - 1
  PROVE  f[2 * k] = 0 .. 2 * (2 * k) - 1
<1>1. 2 * k \in 0 .. size /\ 2 * k # 0 /\ (2 * k) \div 2 = k
  OBVIOUS
<1>2. f[2 * k] = f[k] \cup {i + 2 * k : i \in f[k]}
  BY <1>1 DEF Folds
<1>3. \A x \in 0 .. 2 * (2 * k) - 1 : x \in 0 .. 2 * k - 1 \/ x - 2 * k \in 0 .. 2 * k - 1
  OBVIOUS
<1>4. \A i \in 0 .. 2 * k - 1 : i + 2 * k \in 0 .. 2 * (2 * k) - 1 /\ i \in 0 .. 2 * (2 * k) - 1
  OBVIOUS
<1>5. \A x \in 0 .. 2 * (2 * k) - 1 : x = (x - 2 * k) + 2 * k
  OBVIOUS
<1>6. f[2 * k] \subseteq 0 .. 2 * (2 * k) - 1
  BY <1>2, <1>4
<1>7. 0 .. 2 * (2 * k) - 1 \subseteq f[2 * k]
  BY <1>2, <1>3, <1>5
<1> QED
  BY <1>6, <1>7

(* The halving of a group whose size is a power of two folds every work-item of
   it into the first. *)
LEMMA EveryoneArrives ==
  ASSUME NEW size \in Powers
  PROVE  Arriving(size) = 0 .. size - 1
<1>1. size \in Nat
  BY PowersAre
<1>2. PICK f : Arriving(size) = f[size \div 2] /\ Folds(f, size)
  BY <1>1, ArrivingTable
<1>3. f[0] = {0}
  BY <1>1, <1>2 DEF Folds
<1>4. 1 <= size => f[1] = 0 .. 1
  <2> SUFFICES ASSUME 1 <= size PROVE f[1] = 0 .. 1
    OBVIOUS
  <2>1. ASSUME NEW s \in 0 .. size, s = 1 PROVE f[s] = {0} \cup {i + s : i \in {0}}
    <3>1. s \div 2 = 0 /\ s # 0
      BY <2>1
    <3> QED
      BY <1>2, <1>3, <3>1 DEF Folds
  <2>2. f[1] = {0} \cup {i + 1 : i \in {0}}
    BY <1>1, <2>1
  <2> QED
    BY <2>2
<1> DEFINE Full(k) == k <= size => f[k] = 0 .. 2 * k - 1
<1>5. ASSUME NEW k \in Nat \ {0}, Full(k) PROVE Full(2 * k)
  BY <1>1, <1>2, <1>5, FoldsHalf
<1>6. Full(1)
  BY <1>4
<1> HIDE DEF Full
<1>7. Full(2) /\ Full(4) /\ Full(8) /\ Full(16)
  <2>1. Full(2 * 1)
    BY <1>5, <1>6
  <2>2. Full(2 * 2)
    BY <1>5, <2>1
  <2>3. Full(2 * 4)
    BY <1>5, <2>2
  <2>4. Full(2 * 8)
    BY <1>5, <2>3
  <2> QED
    BY <2>1, <2>2, <2>3, <2>4
<1>8. Full(32) /\ Full(64) /\ Full(128) /\ Full(256)
  <2>1. Full(2 * 16)
    BY <1>5, <1>7
  <2>2. Full(2 * 32)
    BY <1>5, <2>1
  <2>3. Full(2 * 64)
    BY <1>5, <2>2
  <2>4. Full(2 * 128)
    BY <1>5, <2>3
  <2> QED
    BY <2>1, <2>2, <2>3, <2>4
<1>9. Full(512) /\ Full(1024) /\ Full(2048) /\ Full(4096)
  <2>1. Full(2 * 256)
    BY <1>5, <1>8
  <2>2. Full(2 * 512)
    BY <1>5, <2>1
  <2>3. Full(2 * 1024)
    BY <1>5, <2>2
  <2>4. Full(2 * 2048)
    BY <1>5, <2>3
  <2> QED
    BY <2>1, <2>2, <2>3, <2>4
<1>10. Full(8192) /\ Full(16384)
  <2>1. Full(2 * 4096)
    BY <1>5, <1>9
  <2>2. Full(2 * 8192)
    BY <1>5, <2>1
  <2> QED
    BY <2>1, <2>2
<1>11. size = 1 \/ \E k \in Powers : size = 2 * k /\ Full(k)
  BY <1>6, <1>7, <1>8, <1>9, <1>10, PowersAre
<1>12. CASE size = 1
  BY <1>2, <1>3, <1>12
<1>13. ASSUME NEW k \in Powers, size = 2 * k, Full(k) PROVE Arriving(size) = 0 .. size - 1
  <2>1. k \in Nat /\ size \div 2 = k /\ k <= size
    BY <1>13, PowersAre
  <2> QED
    BY <1>2, <1>13, <2>1 DEF Full
<1> QED
  BY <1>11, <1>12, <1>13

\* Two numbers below n that leave the same remainder are one.
LEMMA SameRemainder ==
  ASSUME NEW n \in Nat \ {0}, NEW x \in Nat, NEW q \in 0 .. n - 1, q <= x, (x - q) % n = 0
  PROVE  q = x % n
<1> DEFINE k == (x - q) \div n
           j == x \div n
           r == x % n
<1>1. x - q = n * k /\ k \in Nat
  <2>1. x - q \in Nat
    OBVIOUS
  <2>2. x - q = n * k + ((x - q) % n) /\ k \in Nat
    BY <2>1, Divide
  <2> HIDE DEF k
  <2>3. n * k \in Nat
    BY <2>2
  <2> QED
    BY <2>2, <2>3
<1>2. x = n * j + r /\ j \in Nat /\ r \in 0 .. n - 1
  BY Divide
<1> HIDE DEF k, j, r
<1>3. n * j \in Nat /\ n * k \in Nat
  BY <1>1, <1>2
<1>4. ~(k + 1 <= j)
  <2> SUFFICES ASSUME k + 1 <= j PROVE FALSE
    OBVIOUS
  <2>1. n * (k + 1) <= n * j /\ n * (k + 1) = n * k + n
    BY <1>1, <1>2, TimesGrows
  <2> QED
    BY <1>1, <1>2, <1>3, <2>1
<1>5. ~(j + 1 <= k)
  <2> SUFFICES ASSUME j + 1 <= k PROVE FALSE
    OBVIOUS
  <2>1. n * (j + 1) <= n * k /\ n * (j + 1) = n * j + n
    BY <1>1, <1>2, TimesGrows
  <2> QED
    BY <1>1, <1>2, <1>3, <2>1
<1>6. k = j
  BY <1>1, <1>2, <1>4, <1>5
<1> QED
  BY <1>1, <1>2, <1>3, <1>6 DEF r

\* Work-item w alone reads message m in a sweep.
SoleReader(w, m, global, n, lanes) ==
  \A v \in 0 .. global - 1 : m \in Reads(v, global, n, lanes) <=> v = w

\* In one sweep of a grid of whole groups of lanes, one work-item reads a message.
LEMMA OneReader ==
  ASSUME NEW global \in Nat \ {0}, NEW lanes \in Nat \ {0}, global % lanes = 0,
         NEW n \in Nat, NEW m \in Corpus(n, lanes)
  PROVE  \E w \in 0 .. global - 1 : SoleReader(w, m, global, n, lanes)
<1> DEFINE G == global \div lanes
<1>1. global = lanes * G /\ G \in Nat
  <2>1. global = lanes * G + (global % lanes) /\ G \in Nat
    BY Divide
  <2> HIDE DEF G
  <2>2. lanes * G \in Nat
    BY <2>1
  <2> QED
    BY <2>1, <2>2
<1>2. PICK g \in 0 .. n - 1 : \E lane \in 0 .. lanes - 1 : m = <<g, lane>>
  BY DEF Corpus
<1>3. PICK lane \in 0 .. lanes - 1 : m = <<g, lane>>
  BY <1>2
<1>4. \A v \in 0 .. global - 1 :
        m \in Reads(v, global, n, lanes)
          <=> lane = v % lanes /\ g >= v \div lanes /\ (g - v \div lanes) % G = 0
  BY <1>2, <1>3 DEF Reads
<1> HIDE DEF G
<1>5. G # 0
  BY <1>1
<1> DEFINE q == g % G
           p == g \div G
           w == lanes * q + lane
<1>6. q \in 0 .. G - 1 /\ g = G * p + q /\ p \in Nat /\ G * p \in Nat
  <2>1. g \in Nat /\ G \in Nat \ {0}
    BY <1>1, <1>2, <1>5
  <2>2. g = G * p + q /\ p \in Nat /\ q \in 0 .. G - 1
    BY <2>1, Divide
  <2> HIDE DEF p, q
  <2> QED
    BY <2>1, <2>2
<1>7. (g - q) % G = 0 /\ q <= g
  <2>1. (G * p) % G = 0
    BY <1>1, <1>5, <1>6, Multiple
  <2> HIDE DEF q, p
  <2>2. g - q = G * p /\ q <= g
    BY <1>6
  <2> QED
    BY <2>1, <2>2
<1> HIDE DEF q, p
<1>8. w \in 0 .. global - 1 /\ w % lanes = lane /\ w \div lanes = q
  <2>1. lanes * (q + 1) <= lanes * G /\ lanes * (q + 1) = lanes * q + lanes /\ lanes * q \in Nat
    BY <1>1, <1>6, TimesGrows
  <2>2. w \in 0 .. global - 1
    BY <1>1, <1>3, <2>1
  <2> DEFINE a == w \div lanes
             b == w % lanes
  <2>3. w = lanes * a + b /\ a \in Nat /\ b \in 0 .. lanes - 1
    <3>1. w \in Nat
      BY <2>2
    <3> HIDE DEF w
    <3> QED
      BY <3>1, Divide
  <2> HIDE DEF a, b
  <2>4. ~(a + 1 <= q)
    <3> SUFFICES ASSUME a + 1 <= q PROVE FALSE
      OBVIOUS
    <3>1. lanes * (a + 1) <= lanes * q /\ lanes * (a + 1) = lanes * a + lanes /\ lanes * a \in Nat
      BY <1>6, <2>3, TimesGrows
    <3> QED
      BY <1>3, <2>1, <2>3, <3>1
  <2>5. ~(q + 1 <= a)
    <3> SUFFICES ASSUME q + 1 <= a PROVE FALSE
      OBVIOUS
    <3>1. lanes * (q + 1) <= lanes * a /\ lanes * a \in Nat
      BY <1>6, <2>3, TimesGrows
    <3> QED
      BY <1>3, <2>1, <2>3, <3>1
  <2>6. a = q
    BY <1>6, <2>3, <2>4, <2>5
  <2>7. b = lane
    BY <1>3, <2>1, <2>3, <2>6
  <2> QED
    BY <2>2, <2>6, <2>7 DEF a, b
<1>9. ASSUME NEW v \in 0 .. global - 1 PROVE m \in Reads(v, global, n, lanes) <=> v = w
  <2>1. CASE v = w
    BY <1>4, <1>7, <1>8, <1>6, <1>2, <2>1
  <2>2. ASSUME m \in Reads(v, global, n, lanes) PROVE v = w
    <3> DEFINE a == v \div lanes
    <3>1. lane = v % lanes /\ g >= a /\ (g - a) % G = 0
      BY <1>4, <2>2
    <3>2. v = lanes * a + lane /\ a \in Nat
      <4>1. v \in Nat
        OBVIOUS
      <4>2. v = lanes * a + (v % lanes) /\ a \in Nat
        BY <4>1, Divide
      <4> QED
        BY <3>1, <4>2
    <3> HIDE DEF a
    <3>3. a <= G - 1
      <4> SUFFICES ASSUME G <= a PROVE FALSE
        BY <1>1, <3>2
      <4>1. lanes * G <= lanes * a /\ lanes * a \in Nat
        BY <1>1, <3>2, TimesGrows
      <4> QED
        BY <1>1, <1>3, <3>2, <4>1
    <3>4. a = q
      <4>1. G \in Nat \ {0} /\ g \in Nat /\ a \in 0 .. G - 1 /\ a <= g
        BY <1>1, <1>2, <1>5, <3>1, <3>2, <3>3
      <4> QED
        BY <3>1, <4>1, SameRemainder DEF q
    <3> QED
      BY <3>2, <3>4
  <2> QED
    BY <2>1, <2>2
<1> HIDE DEF w
<1>10. SoleReader(w, m, global, n, lanes)
  BY <1>9 DEF SoleReader
<1> QED
  BY <1>8, <1>10

(* A launch of any number of work-items, in whole groups of a power of two and
   of lanes, has each message of the slice in its checksum when its sweeps are
   odd in number. *)
LEMMA LaunchCovers ==
  ASSUME NEW global \in Nat \ {0}, NEW size \in Powers, NEW lanes \in Nat \ {0},
         global % lanes = 0, NEW n \in Nat, NEW repeated \in Nat, repeated % 2 = 1
  PROVE  LaunchSum(global, size, n, lanes, repeated) = Corpus(n, lanes)
<1> DEFINE item == {w \in 0 .. global - 1 : w % size \in Arriving(size)}
           Readers(m) == {w \in item : m \in Reads(w, global, n, lanes)}
<1>1. item = 0 .. global - 1
  <2>1. ASSUME NEW w \in 0 .. global - 1 PROVE w % size \in 0 .. size - 1
    <3>1. size \in Nat \ {0} /\ w \in Nat
      BY PowersAre
    <3> QED
      BY <3>1, Divide
  <2> QED
    BY <2>1, EveryoneArrives
<1>2. LaunchSum(global, size, n, lanes, repeated)
        = {m \in Corpus(n, lanes) : (repeated * Cardinality(Readers(m))) % 2 = 1}
  BY DEF LaunchSum
<1>3. ASSUME NEW m \in Corpus(n, lanes)
      PROVE  (repeated * Cardinality(Readers(m))) % 2 = 1
  <2> HIDE DEF item, Readers
  <2>1. PICK w \in 0 .. global - 1 : SoleReader(w, m, global, n, lanes)
    BY OneReader
  <2> USE DEF Readers
  <2>2. Readers(m) = {w}
    BY <1>1, <2>1 DEF SoleReader
  <2>3. Cardinality(Readers(m)) = 1
    BY <2>2, FS_Singleton
  <2> HIDE DEF Readers
  <2> QED
    BY <2>3
<1> HIDE DEF Readers
<1> QED
  BY <1>2, <1>3

-----------------------------------------------------------------------------
(* The probe. *)

Places == {"waiting", "watching", "reading", "reporting", "leaving", "gone"}
Come   == {g \in Group : where[g] # "waiting"}

\* What the counters count.
ProbeCounts ==
  /\ groups \in Nat /\ room \in Nat
  /\ where \in [Group -> Places]
  /\ started \in Nat /\ finished \in Nat /\ most \in Nat
  /\ started = Cardinality(Come) /\ started = finished + Cardinality(Resident)
  /\ Cardinality(Resident) <= room
  /\ seen \in [Group -> Nat] /\ highest \in [Group -> Nat]

\* No group saw more than there were, and if none is held up between its two
\* reads, none sees more out than it saw in.
ProbeSees ==
  /\ \A g \in Group : /\ seen[g] <= started /\ highest[g] <= room
                      /\ where[g] = "reading" => finished <= seen[g]
  /\ most <= room

LEMMA GroupsFinite ==
  ASSUME groups \in Nat
  PROVE  /\ IsFiniteSet(Group) /\ Cardinality(Group) = groups
         /\ IsFiniteSet(Come) /\ IsFiniteSet(Resident) /\ Cardinality(Come) \in 0 .. groups
         /\ Cardinality(Resident) \in Nat
<1>1. IsFiniteSet(Group) /\ Cardinality(Group) = groups
  BY FS_Interval DEF Group
<1>2. Come \subseteq Group /\ Resident \subseteq Group
  BY DEF Come, Resident
<1>3. IsFiniteSet(Come) /\ IsFiniteSet(Resident) /\ Cardinality(Come) <= Cardinality(Group)
  BY <1>1, <1>2, FS_Subset
<1> QED
  BY <1>1, <1>3, FS_CardinalityType

LEMMA ProbeRange ==
  ASSUME ProbeCounts
  PROVE  {started, finished} \subseteq 0 .. groups /\ Counted \in Nat
<1>1. started \in 0 .. groups /\ Cardinality(Resident) \in Nat
  BY GroupsFinite DEF ProbeCounts
<1> QED
  BY <1>1 DEF ProbeCounts, Counted

LEMMA ProbeStarts ==
  ASSUME NEW n \in Nat, NEW r \in Nat, ProbeStart(n, r)
  PROVE  ProbeCounts' /\ ProbeSees' /\ room' = r /\ Counted' = 0
<1>1. /\ groups' = n /\ room' = r /\ started' = 0 /\ finished' = 0 /\ most' = 0
      /\ Group' = 1 .. n
      /\ where' = [g \in 1 .. n |-> "waiting"]
      /\ seen' = [g \in 1 .. n |-> 0] /\ highest' = [g \in 1 .. n |-> 0]
  BY DEF ProbeStart, Group
<1>2. Come' = {} /\ Resident' = {}
  BY <1>1 DEF Come, Resident
<1>3. Cardinality(Come)' = 0 /\ Cardinality(Resident)' = 0
  BY <1>2, FS_EmptySet
<1>4. ProbeCounts'
  BY <1>1, <1>3 DEF ProbeCounts, Places
<1>5. ProbeSees' /\ Counted' = 0
  BY <1>1 DEF ProbeSees, Counted
<1> QED
  BY <1>1, <1>4, <1>5

\* A group that stays counted in and not out.
LEMMA ProbeMoves ==
  ASSUME ProbeCounts, NEW g \in Group, where[g] \notin {"waiting", "gone"},
         NEW p \in Places \ {"waiting", "gone"}, where' = [where EXCEPT ![g] = p],
         UNCHANGED <<groups, room, started, finished>>,
         most' \in Nat, seen' \in [Group -> Nat], highest' \in [Group -> Nat]
  PROVE  ProbeCounts'
<1>1. Group' = Group /\ where' \in [Group -> Places]
  BY DEF Group, ProbeCounts
<1>2. \A h \in Group : where'[h] = IF h = g THEN p ELSE where[h]
  BY DEF ProbeCounts
<1>3. Come' = Come /\ Resident' = Resident
  BY <1>1, <1>2 DEF Come, Resident
<1> QED
  BY <1>1, <1>3 DEF ProbeCounts

LEMMA Remainder ==
  ASSUME NEW x \in Nat
  PROVE  x % Modulus \in Nat /\ x % Modulus <= x
<1> DEFINE q == x \div Modulus
           r == x % Modulus
<1>1. x = Modulus * q + r /\ q \in Nat /\ r \in 0 .. Modulus - 1 /\ Modulus \in Nat
  BY ModulusAssumption, Divide
<1> HIDE DEF q, r
<1>2. Modulus * q \in Nat
  BY <1>1
<1> QED
  BY <1>1, <1>2 DEF r

LEMMA ProbeCountsStep == ProbeCounts /\ ProbeStep => ProbeCounts'
<1> SUFFICES ASSUME ProbeCounts, NEW g \in Group,
                    Enter(g) \/ ReadStarted(g) \/ ReadFinished(g) \/ Report(g) \/ Leave(g)
             PROVE  ProbeCounts'
  BY DEF ProbeStep
<1>1. /\ groups \in Nat /\ room \in Nat /\ where \in [Group -> Places]
      /\ started \in Nat /\ finished \in Nat /\ most \in Nat
      /\ seen \in [Group -> Nat] /\ highest \in [Group -> Nat]
  BY DEF ProbeCounts
<1>2. /\ IsFiniteSet(Come) /\ IsFiniteSet(Resident) /\ Cardinality(Resident) \in Nat
  BY <1>1, GroupsFinite
<1> DEFINE come == Cardinality(Come)
           there == Cardinality(Resident)
<1>8. started = come /\ started = finished + there /\ there <= room
  BY DEF ProbeCounts
<1>3. CASE Enter(g)
  <2>1. /\ where[g] = "waiting" /\ Cardinality(Resident) < room /\ started' = started + 1
        /\ where' = [where EXCEPT ![g] = "watching"]
        /\ UNCHANGED <<groups, room, finished, most, seen, highest>>
    BY <1>3 DEF Enter
  <2>2. Group' = Group /\ where' \in [Group -> Places]
    BY <1>1, <2>1 DEF Group, Places
  <2>3. Come' = Come \cup {g} /\ g \notin Come
    BY <1>1, <2>1, <2>2 DEF Come
  <2>4. Resident' = Resident \cup {g} /\ g \notin Resident
    BY <1>1, <2>1, <2>2 DEF Resident
  <2>5. come' = come + 1 /\ there' = there + 1
    BY <1>2, <2>3, <2>4, FS_AddElement
  <2>6. there < room /\ there \in Nat
    BY <1>2, <2>1
  <2>7. started' = come' /\ started' = finished' + there' /\ there' <= room'
    <3>1. started + 1 = come + 1 /\ started + 1 = finished + (there + 1) /\ there + 1 <= room
      BY <1>1, <1>8, <2>6
    <3> QED
      BY <2>1, <2>5, <3>1
  <2>8. started' \in Nat
    BY <1>1, <2>1
  <2> QED
    BY <1>1, <2>1, <2>2, <2>7, <2>8 DEF ProbeCounts, come, there
<1>4. CASE ReadStarted(g)
  BY <1>1, <1>4, ProbeMoves DEF ReadStarted, counters, Places
<1>5. CASE ReadFinished(g)
  <2>1. /\ where[g] = "reading"
        /\ where' = [where EXCEPT ![g] =
                       IF seen[g] = groups \/ finished # 0 \/ reads'[g] = Spin
                         THEN "reporting" ELSE "watching"]
        /\ highest' = [highest EXCEPT ![g] = Larger(@, (seen[g] - finished) % Modulus)]
        /\ UNCHANGED <<groups, room, counters, seen>>
    BY <1>5 DEF ReadFinished
  <2>2. seen[g] - finished \in Int /\ highest[g] \in Nat
    BY <1>1
  <2>3. \A i \in Int : i % Modulus \in Nat
    BY ModulusAssumption
  <2>4. highest' \in [Group -> Nat]
    BY <1>1, <2>1, <2>2, <2>3 DEF Larger
  <2> QED
    BY <1>1, <2>1, <2>4, ProbeMoves DEF counters, Places
<1>6. CASE Report(g)
  <2>1. /\ where[g] = "reporting" /\ where' = [where EXCEPT ![g] = "leaving"]
        /\ most' = Larger(most, highest[g])
        /\ UNCHANGED <<groups, room, started, finished, seen, highest>>
    BY <1>6 DEF Report
  <2>2. most' \in Nat
    BY <1>1, <2>1 DEF Larger
  <2> QED
    BY <1>1, <2>1, <2>2, ProbeMoves DEF Places
<1>7. CASE Leave(g)
  <2>1. /\ where[g] = "leaving" /\ finished' = finished + 1
        /\ where' = [where EXCEPT ![g] = "gone"]
        /\ UNCHANGED <<groups, room, started, most, seen, highest>>
    BY <1>7 DEF Leave, CountOut
  <2>2. Group' = Group /\ where' \in [Group -> Places]
    BY <1>1, <2>1 DEF Group, Places
  <2>3. Come' = Come
    BY <1>1, <2>1, <2>2 DEF Come
  <2>4. Resident' = Resident \ {g} /\ g \in Resident
    BY <1>1, <2>1, <2>2 DEF Resident
  <2>5. there' = there - 1 /\ come' = come /\ there \in Nat
    BY <1>2, <2>3, <2>4, FS_RemoveElement
  <2>6. started' = come' /\ started' = finished' + there' /\ there' <= room'
    <3>1. started = come /\ started = (finished + 1) + (there - 1) /\ there - 1 <= room
      BY <1>1, <1>8, <2>5
    <3> QED
      BY <2>1, <2>5, <3>1
  <2>7. finished' \in Nat
    BY <1>1, <2>1
  <2> QED
    BY <1>1, <2>1, <2>2, <2>6, <2>7 DEF ProbeCounts, come, there
<1> QED
  BY <1>3, <1>4, <1>5, <1>6, <1>7

LEMMA ProbeSeesStep ==
  ASSUME ~Stalls, ProbeCounts, ProbeSees, ProbeStep
  PROVE  ProbeSees'
<1>1. PICK g \in Group :
        Enter(g) \/ ReadStarted(g) \/ ReadFinished(g) \/ Report(g) \/ Leave(g)
  BY DEF ProbeStep
<1>2. /\ groups \in Nat /\ room \in Nat /\ where \in [Group -> Places]
      /\ started \in Nat /\ finished \in Nat /\ most \in Nat
      /\ seen \in [Group -> Nat] /\ highest \in [Group -> Nat]
  BY DEF ProbeCounts
<1>3. Cardinality(Resident) \in Nat /\ started = finished + Cardinality(Resident)
      /\ Cardinality(Resident) <= room
  BY <1>2, GroupsFinite DEF ProbeCounts
<1>4. CASE Enter(g)
  <2>1. /\ where' = [where EXCEPT ![g] = "watching"] /\ started' = started + 1
        /\ UNCHANGED <<groups, room, finished, most, seen, highest>>
    BY <1>4 DEF Enter
  <2> QED
    BY <1>2, <2>1 DEF ProbeSees, Group
<1>5. CASE ReadStarted(g)
  <2>1. /\ where' = [where EXCEPT ![g] = "reading"] /\ seen' = [seen EXCEPT ![g] = started]
        /\ UNCHANGED <<groups, room, started, finished, most, highest>>
    BY <1>5 DEF ReadStarted, counters
  <2>2. finished <= started
    BY <1>2, <1>3
  <2> QED
    BY <1>2, <2>1, <2>2 DEF ProbeSees, Group
<1>6. CASE ReadFinished(g)
  <2> DEFINE d == seen[g] - finished
  <2>1. /\ where[g] = "reading"
        /\ \A h \in Group : h # g => where'[h] = where[h]
        /\ where'[g] # "reading"
        /\ highest' = [highest EXCEPT ![g] = Larger(@, d % Modulus)]
        /\ UNCHANGED <<groups, room, started, finished, most, seen>>
    BY <1>2, <1>6 DEF ReadFinished, counters
  <2>2. d \in Nat /\ d <= room
    BY <1>2, <1>3, <2>1 DEF ProbeSees
  <2> HIDE DEF d
  <2>3. d % Modulus \in Nat /\ d % Modulus <= room
    BY <1>2, <2>2, Remainder
  <2>4. \A h \in Group : highest'[h] <= room
    BY <1>2, <2>1, <2>3 DEF ProbeSees, Larger
  <2> QED
    BY <1>2, <2>1, <2>4 DEF ProbeSees, Group
<1>7. CASE Report(g)
  <2>1. /\ where' = [where EXCEPT ![g] = "leaving"] /\ most' = Larger(most, highest[g])
        /\ UNCHANGED <<groups, room, started, finished, seen, highest>>
    BY <1>7 DEF Report
  <2>2. most' <= room
    BY <1>2, <2>1 DEF ProbeSees, Larger
  <2> QED
    BY <1>2, <2>1, <2>2 DEF ProbeSees, Group
<1>8. CASE Leave(g)
  <2>1. /\ where' = [where EXCEPT ![g] = "gone"] /\ finished' = finished + 1
        /\ UNCHANGED <<groups, room, started, most, seen, highest>>
    BY <1>8 DEF Leave, CountOut
  <2>2. \A h \in Group : where[h] = "reading" => finished < seen[h]
    BY <1>8, Zenon DEF Leave
  <2> QED
    BY <1>2, <2>1, <2>2 DEF ProbeSees, Group
<1> QED
  BY <1>1, <1>4, <1>5, <1>6, <1>7, <1>8

-----------------------------------------------------------------------------
(* What a context holds. *)

AtType == {"begin", "acquiring", "sizes", "tune", "local", "try", "pin", "probing", "probed",
           "calibrate", "initialised", "ready", "failing", "failed", "freed"}

\* Everything held is given back by destroy, and so is everything a pending call
\* may still acquire; where nothing should be held, nothing is.
Owned ==
  /\ dev \in Devices /\ pin \in Pins /\ at \in AtType
  /\ next \in {"begin", "sizes", "tune", "pin", "ready"}
  /\ at = "acquiring" => next # "begin"
  /\ held \subseteq Things /\ todo \in Seq(Things)
  /\ at \in {"begin", "failed", "freed"} => held = {}

\* A context that fails says why, one that comes up has nothing to say.
Reasons ==
  /\ at \in {"failing", "failed"} => error
  /\ at \in {"calibrate", "initialised"} => ~error
  /\ error \in BOOLEAN

LEMMA FixedDevice == [Next]_vars => UNCHANGED <<dev, pin>>
<1> SUFFICES ASSUME [Next]_vars PROVE UNCHANGED <<dev, pin>>
  OBVIOUS
<1>1. CASE Setup
  BY <1>1
  DEF Setup, Refuse, StartBuild, Acquire, AcquireFails, Acquired, NoRoom, Size, ctxVars
<1>2. CASE Geometry
  BY <1>2
  DEF Geometry, PinRefused, Pin, PinProbed, TuneStart, TryLocal, LocalProbed, TryFails,
      NoGeometry, Tuned, Warm, Time, ProbeReturns, ctxVars
<1>3. CASE Use
  BY <1>3 DEF Use, Calibrate, CalibrateFails, Run, RunFails, Free, SetStream, SetOverlap
<1>4. CASE Probing \/ UNCHANGED vars
  BY <1>4 DEF Probing, vars, ctxVars
<1> QED
  BY <1>1, <1>2, <1>3, <1>4 DEF Next, Host

LEMMA ThingsFixed ==
  ASSUME UNCHANGED dev
  PROVE  Things' = Things
  BY DEF Things, Build, Alloc, PipeOpen, Staging, Opencl

LEMMA CallsType ==
  Build \in Seq(Things) /\ Alloc \in Seq(Things) /\ PipeOpen \in Seq(Things)
<1> DEFINE Entries(s, n) == \A i \in 1 .. n : s[i] \in Things
<1>1. Range(Build) \subseteq Things /\ Range(Alloc) \subseteq Things /\ Range(PipeOpen) \subseteq Things
  BY DEF Things
<1>2. CASE Opencl
  <2>1. Entries(OclBuild, 5) /\ Entries(OclAlloc, 2) /\ Entries(OclPipeOpen, 6)
    <3>1. DOMAIN OclBuild = 1 .. 5 /\ DOMAIN OclAlloc = 1 .. 2 /\ DOMAIN OclPipeOpen = 1 .. 6
      BY DEF OclBuild, OclAlloc, OclPipeOpen
    <3> QED
      BY <1>1, <1>2, <3>1 DEF Build, Alloc, PipeOpen, Range
  <2>2. OclBuild \in Seq(Things)
    BY <2>1 DEF OclBuild
  <2>3. OclAlloc \in Seq(Things) /\ OclPipeOpen \in Seq(Things)
    BY <2>1 DEF OclAlloc, OclPipeOpen
  <2> QED
    BY <1>2, <2>2, <2>3 DEF Build, Alloc, PipeOpen
<1>3. CASE ~Opencl
  <2>1. Entries(CuBuild, 8) /\ Entries(CuAlloc, 3) /\ Entries(CuPipeOpen, 7)
    <3>1. DOMAIN CuBuild = 1 .. 8 /\ DOMAIN CuAlloc = 1 .. 3 /\ DOMAIN CuPipeOpen = 1 .. 7
      BY DEF CuBuild, CuAlloc, CuPipeOpen
    <3> QED
      BY <1>1, <1>3, <3>1 DEF Build, Alloc, PipeOpen, Range
  <2>2. CuBuild \in Seq(Things)
    BY <2>1 DEF CuBuild
  <2>3. CuAlloc \in Seq(Things) /\ CuPipeOpen \in Seq(Things)
    BY <2>1 DEF CuAlloc, CuPipeOpen
  <2> QED
    BY <1>3, <2>2, <2>3 DEF Build, Alloc, PipeOpen
<1> QED
  BY <1>2, <1>3

\* The back end gives back whatever a context may hold.
LEMMA DestroysAll ==
  ASSUME dev \in Devices
  PROVE  Destroy(Things) \ {"partials"} = {}
<1>1. CASE dev.api = "opencl"
  BY <1>1
  DEF Destroy, OclDestroy, Things, Build, Alloc, PipeOpen, Staging, Opencl
<1>2. CASE dev.api # "opencl"
  BY <1>2
  DEF Destroy, CuDestroy, Things, Build, Alloc, PipeOpen, Staging, Opencl
<1> QED
  BY <1>1, <1>2

LEMMA OwnedStep == Owned /\ [Next]_vars => Owned'
<1> SUFFICES ASSUME Owned, [Next]_vars PROVE Owned'
  OBVIOUS
<1>1. /\ UNCHANGED <<dev, pin>> /\ Things' = Things /\ "partials" \in Things
      /\ Staging \subseteq Things
  BY FixedDevice, ThingsFixed DEF Things
<1>2. /\ dev \in Devices /\ pin \in Pins /\ at \in AtType /\ held \subseteq Things
      /\ next \in {"begin", "sizes", "tune", "pin", "ready"}
      /\ at = "acquiring" => next # "begin"
      /\ todo \in Seq(Things)
  BY DEF Owned
<1>3. ASSUME UNCHANGED <<todo, next>>, held' \subseteq Things,
             at' \in AtType \ {"begin", "acquiring", "failed", "freed"}
      PROVE  Owned'
  BY <1>1, <1>2, <1>3 DEF Owned
<1>4. CASE NoRoom \/ PinRefused \/ Pin \/ PinProbed \/ TuneStart \/ TryLocal \/ LocalProbed
  <2>1. /\ UNCHANGED <<todo, next, held>>
        /\ at' \in AtType \ {"begin", "acquiring", "failed", "freed"}
    BY <1>4
    DEF NoRoom, PinRefused, Pin, PinProbed, TuneStart, TryLocal, LocalProbed, MeasureCapacity,
        Fail, AtType
  <2> QED
    BY <1>2, <1>3, <2>1
<1>5. CASE TryFails \/ NoGeometry \/ Tuned \/ CalibrateFails \/ Run \/ RunFails
  <2>1. /\ UNCHANGED <<todo, next, held>>
        /\ at' \in AtType \ {"begin", "acquiring", "failed", "freed"}
    BY <1>5
    DEF TryFails, NoGeometry, Tuned, CalibrateFails, Run, RunFails, NextLocal, Fail, AtType
  <2> QED
    BY <1>2, <1>3, <2>1
<1>6. ASSUME NEW t \in Times, Warm(t) \/ Time(t) \/ Calibrate(t) PROVE Owned'
  <2>1. /\ UNCHANGED <<todo, next, held>>
        /\ at' \in AtType \ {"begin", "acquiring", "failed", "freed"}
    BY <1>6 DEF Warm, Time, Calibrate, NextLocal, AtType
  <2> QED
    BY <1>2, <1>3, <2>1
<1>7. ASSUME NEW ok \in BOOLEAN, ProbeReturns(ok) PROVE Owned'
  BY <1>2, <1>3, <1>7 DEF ProbeReturns, ctxVars, AtType
<1>8. CASE Probing \/ UNCHANGED vars
  <2>1. UNCHANGED <<todo, next, held, at>>
    BY <1>8 DEF Probing, vars, ctxVars
  <2> QED
    BY <1>1, <1>2, <2>1 DEF Owned
<1>9. ASSUME NEW on \in BOOLEAN, NEW pinned \in BOOLEAN, SetStream(on, pinned) PROVE Owned'
  <2>1. UNCHANGED <<todo, next>> /\ at' = "ready" /\ held' \subseteq held \cup Staging
    BY <1>9 DEF SetStream
  <2> QED
    BY <1>1, <1>2, <1>3, <2>1 DEF AtType
<1>10. ASSUME NEW calls \in {Build, Alloc, PipeOpen}, NEW then \in {"sizes", "tune", "pin", "ready"},
              Ask(calls, then), held' \subseteq Things
       PROVE  Owned'
  BY <1>1, <1>2, <1>10, CallsType DEF Ask, Owned, AtType
<1>11. CASE StartBuild
  BY <1>2, <1>10, <1>11 DEF StartBuild
<1>12. CASE Size
  <2>1. /\ held' = held \cup {"partials"}
        /\ Ask(Alloc, IF pin = <<0, 0>> THEN "tune" ELSE "pin")
    BY <1>12 DEF Size
  <2> QED
    BY <1>1, <1>2, <1>10, <2>1
<1>13. ASSUME NEW pinned \in BOOLEAN, SetOverlap(pinned) PROVE Owned'
  <2>1. held' \subseteq held \cup Staging /\ Ask(PipeOpen, "ready")
    BY <1>13 DEF SetOverlap
  <2> QED
    BY <1>1, <1>2, <1>10, <2>1
<1>14. CASE Acquire
  <2>1. /\ at = "acquiring" /\ todo # <<>> /\ UNCHANGED <<at, next>>
        /\ held' = held \cup {Head(todo)} /\ todo' = Tail(todo)
    BY <1>14 DEF Acquire
  <2>2. Head(todo) \in Things /\ Tail(todo) \in Seq(Things)
    BY <1>2, <2>1, HeadTailProperties
  <2> QED
    BY <1>1, <1>2, <2>1, <2>2 DEF Owned
<1>15. CASE AcquireFails
  <2>1. UNCHANGED <<next, held>> /\ at' = "failing" /\ todo' = <<>>
    BY <1>15 DEF AcquireFails
  <2> QED
    BY <1>1, <1>2, <2>1, EmptySeq DEF Owned, AtType
<1>16. CASE Acquired
  <2>1. UNCHANGED <<todo, next, held>> /\ at' = next /\ at = "acquiring"
    BY <1>16 DEF Acquired, ctxVars
  <2> QED
    BY <1>2, <1>3, <2>1 DEF AtType
<1>17. CASE Refuse
  <2>1. UNCHANGED <<todo, next, held>> /\ at' = "failed" /\ held = {}
    BY <1>17 DEF Refuse, Owned
  <2> QED
    BY <1>1, <1>2, <2>1 DEF Owned, AtType
<1>18. CASE Free
  <2>1. /\ UNCHANGED <<todo, next>> /\ at' \in {"failed", "freed"}
        /\ held' = Destroy(held) \ {"partials"}
    BY <1>18 DEF Free
  <2>2. Destroy(held) \subseteq Destroy(Things)
    BY <1>2 DEF Destroy, OclDestroy, CuDestroy
  <2>3. held' = {}
    BY <1>2, <2>1, <2>2, DestroysAll
  <2> QED
    BY <1>1, <1>2, <2>1, <2>3 DEF Owned, AtType
<1> QED
  BY <1>4, <1>5, <1>6, <1>7, <1>8, <1>9, <1>11, <1>12, <1>13, <1>14, <1>15, <1>16, <1>17, <1>18
  DEF Next, Host, Setup, Geometry, Use

LEMMA ReasonsStep == Owned /\ Reasons /\ [Next]_vars => Reasons'
<1> SUFFICES ASSUME Owned, Reasons, [Next]_vars PROVE Reasons'
  OBVIOUS
<1> DEFINE Said   == {"failing", "failed"}
           Silent == {"calibrate", "initialised"}
<1>1. ASSUME error' = TRUE, at' \notin Silent PROVE Reasons'
  BY <1>1 DEF Reasons
<1>2. ASSUME error' = FALSE, at' \notin Said PROVE Reasons'
  BY <1>2 DEF Reasons
<1>3. ASSUME UNCHANGED error, at' \in Said => at \in Said, at' \in Silent => at \in Silent
      PROVE  Reasons'
  BY <1>3, Zenon DEF Reasons
<1>4. CASE Refuse \/ AcquireFails \/ NoRoom \/ PinRefused \/ TryFails \/ NoGeometry
           \/ CalibrateFails \/ RunFails
  <2>1. error' = TRUE /\ at' \notin Silent
    BY <1>4
    DEF Refuse, AcquireFails, NoRoom, PinRefused, TryFails, NoGeometry, CalibrateFails, RunFails,
        Fail, NextLocal
  <2> QED
    BY <1>1, <2>1
<1>5. CASE PinProbed \/ LocalProbed \/ Tuned
  <2>1. error' = FALSE /\ at' \notin Said
    BY <1>5 DEF PinProbed, LocalProbed, Tuned
  <2> QED
    BY <1>2, <2>1
<1>6. CASE StartBuild \/ Acquire \/ Acquired \/ Size \/ Pin \/ TuneStart \/ TryLocal
  <2>1. UNCHANGED error /\ at' \notin Said /\ at' \notin Silent
    BY <1>6
    DEF StartBuild, Acquire, Acquired, Size, Pin, TuneStart, TryLocal, Ask, MeasureCapacity,
        Owned, ctxVars
  <2> QED
    BY <1>3, <2>1
<1>7. CASE Probing \/ Run \/ UNCHANGED vars
  BY <1>3, <1>7 DEF Probing, Run, vars, ctxVars
<1>8. CASE Free
  <2>1. /\ at \in {"ready", "failing"} /\ UNCHANGED error
        /\ at' = IF at = "failing" THEN "failed" ELSE "freed"
    BY <1>8 DEF Free
  <2> QED
    BY <1>3, <2>1
<1>9. ASSUME NEW t \in Times, Warm(t) \/ Time(t) \/ Calibrate(t) PROVE Reasons'
  BY <1>3, <1>9 DEF Warm, Time, Calibrate, NextLocal
<1>10. ASSUME NEW ok \in BOOLEAN, ProbeReturns(ok) PROVE Reasons'
  BY <1>3, <1>10 DEF ProbeReturns, ctxVars
<1>11. ASSUME NEW on \in BOOLEAN, NEW pinned \in BOOLEAN, SetStream(on, pinned) PROVE Reasons'
  BY <1>3, <1>11 DEF SetStream
<1>12. ASSUME NEW pinned \in BOOLEAN, SetOverlap(pinned) PROVE Reasons'
  BY <1>3, <1>12 DEF SetOverlap, Ask
<1> QED
  BY <1>4, <1>5, <1>6, <1>7, <1>8, <1>9, <1>10, <1>11, <1>12 DEF Next, Host, Setup, Geometry, Use

(* Wherever a driver call fails, everything acquired so far is given back, the
   reason outlives it, and a context that came up has none left over. *)
THEOREM ContextFailureIsClean == Spec => []FailureIsClean
<1>1. Init => Owned
  BY EmptySeq DEF Init, Owned, AtType, Things
<1>2. Init => Reasons
  BY DEF Init, Reasons
<1>3. Owned /\ Reasons => FailureIsClean
  BY DEF Owned, Reasons, FailureIsClean
<1> QED
  BY <1>1, <1>2, <1>3, OwnedStep, ReasonsStep, PTL DEF Spec

-----------------------------------------------------------------------------
(* Geometry. *)

\* The context has the geometry that its launches have from here on.
Settled == at \in {"calibrate", "initialised", "ready"} \/ (at = "acquiring" /\ next = "ready")

\* The partials are allocated before anything is launched, and only a context
\* without a pinned geometry is tuned.
Route ==
  /\ at \in {"tune", "local", "try"} => pin = <<0, 0>>
  /\ at = "pin" => pin # <<0, 0>>
  /\ at = "acquiring" /\ next = "tune" => pin = <<0, 0>>
  /\ at = "acquiring" /\ next = "pin" => pin # <<0, 0>>
  /\ \/ at \in {"tune", "local", "try", "pin", "probing", "probed"} \/ Settled
     \/ at = "acquiring" /\ next \in {"tune", "pin"}
     => cap = PartialCap

\* A group size that the tuner tries, and a grid that it may settle on.
GoodSize(l) == l \in Powers /\ Floor <= l /\ l <= MaxLocal /\ l <= Ceiling
GoodGrid(g, l) ==
  l \in Powers /\ g \in Nat \ {0} /\ g % dev.lanes = 0 /\ g \div l <= PartialCap
GoodPin == GeometryOk(pin[1], pin[2]) /\ pin[2] \in Floor .. Ceiling

LocalOk ==
  at = "local" => Floor <= local /\ repeats = 1 /\ (local \in Powers \/ local > MaxLocal)
TryOk ==
  at = "try" => /\ GoodSize(local) /\ mult # 0 /\ repeats = 1
                /\ first # -1 => loc = local /\ GoodGrid(glob, loc)
\* What the context comes back to after the probe.
ProbeOk ==
  at \in {"probing", "probed"} =>
    /\ pin = <<0, 0>> => GoodSize(local) /\ loc = local /\ saved[3] = 1
    /\ pin # <<0, 0>> => GoodPin /\ loc = pin[2] /\ saved[1] = pin[1] /\ saved[2] = pin[2]
BestOk    == best # Untried => GoodGrid(best.glob, best.loc) /\ best.held \in Nat
SettledOk == Settled => GoodGrid(glob, loc) /\ (at # "calibrate" => repeats % 2 = 1)

Tuning == LocalOk /\ TryOk /\ ProbeOk /\ BestOk /\ SettledOk

Ranges ==
  /\ cap \in Nat /\ glob \in Nat /\ loc \in Nat /\ repeats \in 0 .. MaxRepeats
  /\ saved \in Nat \X Nat \X (0 .. MaxRepeats) /\ capacity \in Nat
  /\ local \in Nat /\ mult \in Nat /\ heldNow \in Nat /\ first \in Times \cup {-1}

LEMMA SizesFixed ==
  ASSUME UNCHANGED <<dev, pin>>
  PROVE  /\ Floor' = Floor /\ Ceiling' = Ceiling /\ PartialCap' = PartialCap
         /\ GoodPin' = GoodPin
<1>1. Ceiling' = Ceiling
  BY DEF Ceiling
<1>2. Floor' = Floor
  BY <1>1 DEF Floor
<1>3. MaxGlobal' = MaxGlobal
  BY DEF MaxGlobal
<1>4. PartialCap' = PartialCap
  BY <1>2, <1>3 DEF PartialCap
<1>5. GoodPin' = GoodPin
  BY <1>1, <1>2, Zenon DEF GoodPin, GeometryOk, Tiles, ScratchFits, Unit
<1> QED
  BY <1>1, <1>2, <1>4, <1>5

LEMMA GoodSizeIs ==
  ASSUME dev \in Devices, NEW l, GoodSize(l)
  PROVE  /\ l \in Nat \ {0} /\ l \in Floor .. Ceiling
<1>1. l \in Nat \ {0} /\ Floor \in Nat /\ Ceiling \in Nat
  BY PowersAre, FloorFacts, CeilingType DEF GoodSize
<1> QED
  BY <1>1 DEF GoodSize

LEMMA GoodPinIs ==
  ASSUME dev \in Devices, pin \in Pins, GoodPin
  PROVE  GoodGrid(pin[1], pin[2]) /\ pin[2] \in Nat \ {0}
<1>1. pin[2] \in Powers /\ pin[1] # 0 /\ pin[1] % dev.lanes = 0
  BY DEF GoodPin, GeometryOk, Power
<1>2. pin[2] \in Nat \ {0}
  BY <1>1, PowersAre
<1> QED
  BY <1>1, <1>2, PartialCapFacts DEF GoodGrid

\* The sizes that the tuner's loop lets through.
LEMMA LocalIsTried ==
  ASSUME Tuning, Ranges, at = "local", InRange(local)
  PROVE  GoodSize(local)
  BY LocalAssumption, PowersAre DEF Tuning, LocalOk, Ranges, InRange, GoodSize

\* The grid of a group size that is tried.
LEMMA TriedGrid ==
  ASSUME dev \in Devices, pin \in Pins, GoodSize(local), mult \in Nat \ {0}, heldNow \in Nat
  PROVE  /\ GoodGrid(Candidate(local, mult, heldNow), local)
         /\ Fits(Candidate(local, mult, heldNow), local) \/ cap # PartialCap
<1> DEFINE g == Candidate(local, mult, heldNow)
<1>1. local \in Powers /\ Floor <= local /\ local <= MaxLocal
  BY DEF GoodSize
<1>2. g \in Nat \ {0} /\ g % dev.lanes = 0
  BY <1>1, CandidateFacts
<1>3. g \div local <= MaxGlobal \div Floor
  BY <1>1, CandidateFits
<1>4. local \in Nat \ {0}
  BY <1>1, PowersAre
<1> HIDE DEF g
<1>5. g \div local \in Nat /\ MaxGlobal \div Floor \in Nat
  BY <1>2, <1>4, Divide, MaxGlobalFacts, FloorFacts
<1>6. g \div local <= PartialCap
  BY <1>3, <1>5, PartialCapFacts
<1> QED
  BY <1>1, <1>2, <1>4, <1>6 DEF GoodGrid, Fits, g

\* The probe's launch has a partial for every group.
LEMMA ProbeHasPartials ==
  ASSUME dev \in Devices, pin \in Pins, cap = PartialCap,
         NEW l \in Powers, l \in Floor .. Ceiling
  PROVE  /\ l \in Nat \ {0} /\ Fits(ProbeGlobal(l), l)
         /\ ProbeGlobal(l) \in Nat /\ ProbeGlobal(l) \div l \in Nat
<1>1. l \in Nat \ {0} /\ Floor \in Nat /\ Floor <= l
  BY PowersAre, FloorFacts
<1>2. ProbeGlobal(l) \in Nat /\ ProbeGlobal(l) \div l <= MaxGlobal \div Floor
  BY <1>1, ProbeFits
<1>3. ProbeGlobal(l) \div l \in Nat /\ MaxGlobal \div Floor \in Nat
  BY <1>1, <1>2, Divide, MaxGlobalFacts, FloorFacts
<1>4. Fits(ProbeGlobal(l), l)
  BY <1>1, <1>2, <1>3, PartialCapFacts DEF Fits
<1> QED
  BY <1>1, <1>2, <1>3, <1>4

\* The device's answer is known for every size that it takes.
LEMMA HoldsType ==
  ASSUME dev \in Devices, NEW l \in Powers, l \in Floor .. Ceiling
  PROVE  dev.holds[l] \in Nat
<1>1. l \in Nat /\ Larger(MaxLocal, dev.maxGroup) \in Nat /\ Ceiling \in Nat
  BY PowersAre, CeilingType, DevFacts DEF Larger
<1>2. l <= Larger(MaxLocal, dev.maxGroup)
  BY <1>1, CeilingType
<1> QED
  BY <1>2, DevicesAssumption

\* measure_capacity, with partials for every group it launches.
LEMMA Measures ==
  ASSUME dev \in Devices, pin \in Pins, cap = PartialCap,
         NEW l \in Powers, l \in Floor .. Ceiling, NEW keep, MeasureCapacity(l, keep)
  PROVE  /\ glob' \in Nat /\ loc' = l /\ repeats' = 0 /\ saved' = keep /\ at' = "probing"
         /\ room' = dev.holds[l] /\ ProbeCounts' /\ ProbeSees'
<1>1. /\ Fits(ProbeGlobal(l), l) /\ ProbeGlobal(l) \in Nat /\ ProbeGlobal(l) \div l \in Nat
      /\ dev.holds[l] \in Nat
  BY ProbeHasPartials, HoldsType
<1>2. /\ glob' = ProbeGlobal(l) /\ loc' = l /\ repeats' = 0 /\ saved' = keep
      /\ at' = "probing" /\ ProbeStart(ProbeGlobal(l) \div l, dev.holds[l])
  BY <1>1 DEF MeasureCapacity
<1>3. ProbeCounts' /\ ProbeSees' /\ room' = dev.holds[l]
  BY <1>1, <1>2, ProbeStarts
<1> QED
  BY <1>1, <1>2, <1>3

LEMMA RouteStep == Owned /\ Route /\ Tuning /\ [Next]_vars => Route'
<1> SUFFICES ASSUME Owned, Route, Tuning, [Next]_vars PROVE Route'
  OBVIOUS
<1> DEFINE Tuner == {"tune", "local", "try"}
           Given == Tuner \cup {"pin", "probing", "probed", "calibrate", "initialised", "ready"}
<1>1. UNCHANGED <<dev, pin>> /\ PartialCap' = PartialCap
  BY FixedDevice, SizesFixed
<1>2. at \in Given => cap = PartialCap
  BY DEF Route, Settled
\* Where the context goes next needs nothing of the geometry.
<1>3. ASSUME at' \notin Given \cup {"acquiring"} PROVE Route'
  BY <1>3 DEF Route, Settled
<1>4. ASSUME at \in Given, at' \in Given \ {"pin"}, UNCHANGED cap, at' \in Tuner => pin = <<0, 0>>
      PROVE  Route'
  BY <1>1, <1>2, <1>4 DEF Route, Settled
<1>5. CASE Refuse \/ AcquireFails \/ NoRoom \/ PinRefused \/ NoGeometry \/ CalibrateFails
           \/ RunFails \/ Free
  <2>1. at' \notin Given \cup {"acquiring"}
    BY <1>5
    DEF Refuse, AcquireFails, NoRoom, PinRefused, NoGeometry, CalibrateFails, RunFails, Free, Fail
  <2> QED
    BY <1>3, <2>1
<1>6. CASE StartBuild
  BY <1>6 DEF StartBuild, Ask, Route, Settled
<1>7. CASE Acquire \/ Probing \/ UNCHANGED vars
  <2>1. UNCHANGED <<at, next, cap>>
    BY <1>7 DEF Acquire, Probing, vars, ctxVars
  <2> QED
    BY <1>1, <2>1 DEF Route, Settled
<1>8. CASE Acquired
  <2>1. at = "acquiring" /\ at' = next /\ UNCHANGED cap
    BY <1>8 DEF Acquired, ctxVars
  <2>2. next \in {"sizes", "tune", "pin", "ready"}
    BY <2>1 DEF Owned
  <2> QED
    BY <1>1, <2>1, <2>2 DEF Route, Settled
<1>9. CASE Size
  BY <1>1, <1>9 DEF Size, Ask, Route, Settled
<1>10. CASE Pin \/ TryLocal \/ TuneStart \/ TryFails \/ Tuned \/ PinProbed \/ LocalProbed \/ Run
  <2>1. CASE Pin \/ TryLocal
    <3>1. at \in Given /\ at' \in {"probing", "probed"} /\ UNCHANGED cap
      BY <2>1 DEF Pin, TryLocal, MeasureCapacity
    <3> QED
      BY <1>4, <3>1
  <2>2. CASE TuneStart \/ TryFails
    <3>1. at \in {"tune", "try"} /\ at' = "local" /\ UNCHANGED cap
      BY <2>2 DEF TuneStart, TryFails, NextLocal
    <3> QED
      BY <1>4, <3>1 DEF Route
  <2>3. CASE Tuned \/ PinProbed
    <3>1. at \in Given /\ at' = "calibrate" /\ UNCHANGED cap
      BY <2>3 DEF Tuned, PinProbed
    <3> QED
      BY <1>4, <3>1
  <2>4. CASE LocalProbed
    <3>1. at \in Given /\ at' = "try" /\ pin = <<0, 0>> /\ UNCHANGED cap
      BY <2>4 DEF LocalProbed
    <3> QED
      BY <1>4, <3>1
  <2>5. CASE Run
    <3>1. at = "ready" /\ UNCHANGED <<at, cap>>
      BY <2>5 DEF Run
    <3> QED
      BY <1>4, <3>1
  <2> QED
    BY <1>10, <2>1, <2>2, <2>3, <2>4, <2>5
<1>11. ASSUME NEW t \in Times, Warm(t) \/ Time(t) PROVE Route'
  <2>1. at = "try" /\ at' \in {"try", "local"} /\ UNCHANGED cap
    BY <1>11 DEF Warm, Time, NextLocal
  <2> QED
    BY <1>4, <2>1 DEF Route
<1>12. ASSUME NEW t \in Times, Calibrate(t) PROVE Route'
  BY <1>4, <1>12 DEF Calibrate
<1>13. ASSUME NEW ok \in BOOLEAN, ProbeReturns(ok) PROVE Route'
  BY <1>4, <1>13 DEF ProbeReturns, ctxVars
<1>14. ASSUME NEW on \in BOOLEAN, NEW pinned \in BOOLEAN, SetStream(on, pinned) PROVE Route'
  BY <1>4, <1>14 DEF SetStream
<1>15. ASSUME NEW pinned \in BOOLEAN, SetOverlap(pinned) PROVE Route'
  <2>1. at = "initialised" /\ at' = "acquiring" /\ next' = "ready" /\ UNCHANGED cap
    BY <1>15 DEF SetOverlap, Ask
  <2> QED
    BY <1>1, <1>2, <2>1 DEF Route, Settled
<1> QED
  BY <1>5, <1>6, <1>7, <1>8, <1>9, <1>10, <1>11, <1>12, <1>13, <1>14, <1>15
  DEF Next, Host, Setup, Geometry, Use

\* The probe's counters, from one launch to the next.
LEMMA CountsStep ==
  Owned /\ Route /\ Tuning /\ Ranges /\ ProbeCounts /\ [Next]_vars => ProbeCounts'
<1> SUFFICES ASSUME Owned, Route, Tuning, Ranges, ProbeCounts, [Next]_vars PROVE ProbeCounts'
  OBVIOUS
<1>1. ASSUME UNCHANGED probeVars PROVE ProbeCounts'
  BY <1>1 DEF probeVars, counters, ProbeCounts, Come, Resident, Group
<1>2. ASSUME ProbeStart(0, 0) PROVE ProbeCounts'
  BY <1>2, ProbeStarts
<1>3. dev \in Devices /\ pin \in Pins
  BY DEF Owned
<1>4. CASE Setup
  BY <1>1, <1>4
  DEF Setup, Refuse, StartBuild, Acquire, AcquireFails, Acquired, NoRoom, Size
<1>5. CASE Use
  BY <1>1, <1>5 DEF Use, Calibrate, CalibrateFails, Run, RunFails, Free, SetStream, SetOverlap
<1>6. CASE Pin
  <2>1. cap = PartialCap /\ pin[2] \in Powers /\ pin[2] \in Floor .. Ceiling
    BY <1>6 DEF Pin, Route, GeometryOk, Power
  <2>2. MeasureCapacity(pin[2], <<pin[1], pin[2], repeats>>)
    BY <1>6 DEF Pin
  <2> QED
    BY <1>3, <2>1, <2>2, Measures
<1>7. CASE TryLocal
  <2>1. cap = PartialCap /\ GoodSize(local)
    BY <1>7, LocalIsTried DEF TryLocal, Route
  <2>2. MeasureCapacity(local, <<glob, loc, repeats>>)
    BY <1>7 DEF TryLocal
  <2> QED
    BY <1>3, <2>1, <2>2, GoodSizeIs, Measures DEF GoodSize
<1>8. CASE PinProbed \/ LocalProbed
  BY <1>2, <1>8 DEF PinProbed, LocalProbed
<1>9. CASE TuneStart \/ TryFails \/ NoGeometry \/ Tuned \/ PinRefused
  BY <1>1, <1>9 DEF TuneStart, TryFails, NoGeometry, Tuned, PinRefused
<1>10. ASSUME NEW t \in Times, Warm(t) \/ Time(t) PROVE ProbeCounts'
  BY <1>1, <1>10 DEF Warm, Time
<1>11. ASSUME NEW ok \in BOOLEAN, ProbeReturns(ok) PROVE ProbeCounts'
  BY <1>1, <1>2, <1>11 DEF ProbeReturns
<1>12. CASE Probing
  BY <1>12, ProbeCountsStep DEF Probing
<1>13. CASE UNCHANGED vars
  BY <1>1, <1>13 DEF vars
<1> QED
  BY <1>4, <1>5, <1>6, <1>7, <1>8, <1>9, <1>10, <1>11, <1>12, <1>13 DEF Next, Host, Geometry

\* calibrate_repeats comes to an odd number of sweeps within its range.
LEMMA SweepsOdd ==
  ASSUME NEW t \in Times
  PROVE  Sweeps(t) \in 1 .. MaxRepeats /\ Sweeps(t) % 2 = 1
<1>1. /\ MaxRepeats \in Nat /\ MaxRepeats % 2 = 1 /\ t \in Nat /\ Target \in Nat \ {0}
  BY MaxRepeatsAssumption, TargetAssumption
<1>2. 1 \in 1 .. MaxRepeats /\ 1 % 2 = 1
  BY <1>1
<1>3. CASE t \in 1 .. Target - 1
  <2> DEFINE q == Target \div t
             want == IF q > MaxRepeats THEN MaxRepeats ELSE q
  <2>1. q \in Nat /\ 1 <= q
    <3>1. t * 1 <= Target /\ t \in Nat \ {0}
      BY <1>1, <1>3
    <3> QED
      BY <1>1, <3>1, Divide, QuotientAtLeast
  <2>2. Sweeps(t) = IF want % 2 = 0 THEN want + 1 ELSE want
    BY <1>3 DEF Sweeps
  <2> HIDE DEF q
  <2>3. want \in 1 .. MaxRepeats
    BY <1>1, <1>2, <2>1
  <2> HIDE DEF want
  <2>4. want % 2 = 0 => want < MaxRepeats
    BY <1>1, <2>3
  <2> QED
    BY <1>1, <2>2, <2>3, <2>4
<1>4. CASE t \notin 1 .. Target - 1
  BY <1>2, <1>4 DEF Sweeps
<1> QED
  BY <1>3, <1>4

LEMMA RangesStep ==
  Owned /\ Route /\ Tuning /\ Ranges /\ ProbeCounts /\ [Next]_vars => Ranges'
<1> SUFFICES ASSUME Owned, Route, Tuning, Ranges, ProbeCounts, [Next]_vars PROVE Ranges'
  OBVIOUS
<1>1. /\ cap \in Nat /\ glob \in Nat /\ loc \in Nat /\ repeats \in 0 .. MaxRepeats
      /\ saved \in Nat \X Nat \X (0 .. MaxRepeats) /\ capacity \in Nat
      /\ local \in Nat /\ mult \in Nat /\ heldNow \in Nat /\ first \in Times \cup {-1}
  BY DEF Ranges
<1>2. dev \in Devices /\ pin \in Pins /\ pin[1] \in Nat /\ pin[2] \in Nat
  BY PartialCapFacts DEF Owned
<1>3. 0 \in 0 .. MaxRepeats /\ 1 \in 0 .. MaxRepeats
  BY MaxRepeatsAssumption
<1>4. saved[1] \in Nat /\ saved[2] \in Nat /\ saved[3] \in 0 .. MaxRepeats
  BY <1>1
<1>5. ASSUME UNCHANGED <<cap, glob, loc, saved, capacity, tuneVars>>, repeats' \in 0 .. MaxRepeats
      PROVE  Ranges'
  BY <1>1, <1>5 DEF Ranges, tuneVars
<1>6. CASE Setup
  <2>1. CASE Size
    <3>1. cap' = PartialCap /\ UNCHANGED <<glob, loc, repeats, saved, capacity, tuneVars>>
      BY <2>1 DEF Size
    <3> QED
      BY <1>1, <1>2, <3>1, PartialCapFacts DEF Ranges, tuneVars
  <2> QED
    BY <1>1, <1>5, <1>6, <2>1
    DEF Setup, Refuse, StartBuild, Acquire, AcquireFails, Acquired, NoRoom, ctxVars
<1>7. CASE Probing \/ UNCHANGED vars \/ Run \/ RunFails \/ CalibrateFails \/ NoGeometry \/ PinRefused
  BY <1>1, <1>3, <1>5, <1>7
  DEF Probing, vars, ctxVars, Run, RunFails, CalibrateFails, NoGeometry, PinRefused
<1>8. CASE Free
  BY <1>1, <1>3, <1>8 DEF Free, Ranges, tuneVars
<1>9. ASSUME NEW t \in Times, Calibrate(t) PROVE Ranges'
  BY <1>5, <1>9, SweepsOdd DEF Calibrate
<1>10. ASSUME NEW on \in BOOLEAN, NEW pinned \in BOOLEAN, SetStream(on, pinned) PROVE Ranges'
  <2>1. /\ repeats' \in {1, repeats}
        /\ UNCHANGED <<cap, glob, loc, saved, capacity, tuneVars>>
    BY <1>10 DEF SetStream
  <2> QED
    BY <1>1, <1>3, <1>5, <2>1
<1>11. ASSUME NEW pinned \in BOOLEAN, SetOverlap(pinned) PROVE Ranges'
  BY <1>3, <1>5, <1>11 DEF SetOverlap
<1>12. ASSUME NEW ok \in BOOLEAN, ProbeReturns(ok) PROVE Ranges'
  BY <1>1, <1>5, <1>12 DEF ProbeReturns, ctxVars
<1>13. CASE Pin
  <2>1. cap = PartialCap /\ pin[2] \in Powers /\ pin[2] \in Floor .. Ceiling
    BY <1>13 DEF Pin, Route, GeometryOk, Power
  <2>2. /\ MeasureCapacity(pin[2], <<pin[1], pin[2], repeats>>)
        /\ UNCHANGED <<cap, capacity, tuneVars>>
    BY <1>13 DEF Pin
  <2>3. /\ glob' \in Nat /\ loc' = pin[2] /\ repeats' = 0
        /\ saved' = <<pin[1], pin[2], repeats>>
    BY <1>2, <2>1, <2>2, Measures
  <2> QED
    BY <1>1, <1>2, <1>3, <2>2, <2>3 DEF Ranges, tuneVars
<1>14. CASE TryLocal
  <2>1. cap = PartialCap /\ GoodSize(local)
    BY <1>14, LocalIsTried DEF TryLocal, Route
  <2>2. /\ MeasureCapacity(local, <<glob, loc, repeats>>)
        /\ UNCHANGED <<cap, capacity, tuneVars>>
    BY <1>14 DEF TryLocal
  <2>3. /\ glob' \in Nat /\ loc' = local /\ repeats' = 0
        /\ saved' = <<glob, loc, repeats>>
    BY <1>2, <2>1, <2>2, GoodSizeIs, Measures DEF GoodSize
  <2> QED
    BY <1>1, <1>3, <2>2, <2>3 DEF Ranges, tuneVars
<1>15. Counted \in Nat /\ Counted * loc \in Nat
  <2>1. Counted \in Nat
    BY ProbeRange
  <2> QED
    BY <1>1, <2>1
<1>16. CASE PinProbed
  <2>1. /\ glob' = saved[1] /\ loc' = saved[2] /\ repeats' = saved[3] /\ capacity' = Counted * loc
        /\ UNCHANGED <<cap, saved, tuneVars>>
    BY <1>16 DEF PinProbed, ProbeDone
  <2> QED
    BY <1>1, <1>4, <1>15, <2>1 DEF Ranges, tuneVars
<1>17. CASE LocalProbed
  <2>1. /\ glob' = saved[1] /\ loc' = saved[2] /\ repeats' = saved[3] /\ heldNow' = Counted * loc
        /\ mult' = 1 /\ first' = -1 /\ UNCHANGED <<cap, saved, capacity, local>>
    BY <1>17 DEF LocalProbed, ProbeDone
  <2> QED
    BY <1>1, <1>4, <1>15, <2>1 DEF Ranges
<1>18. CASE TuneStart
  <2>1. /\ repeats' = 1 /\ local' = Floor /\ mult' = 0 /\ heldNow' = 0 /\ first' = -1
        /\ UNCHANGED <<cap, glob, loc, saved, capacity>>
    BY <1>18 DEF TuneStart
  <2> QED
    BY <1>1, <1>2, <1>3, <2>1, FloorFacts DEF Ranges
<1>19. CASE Tuned
  <2>1. /\ glob' = best.glob /\ loc' = best.loc /\ capacity' = best.held /\ best # Untried
        /\ UNCHANGED <<cap, repeats, saved, tuneVars>>
    BY <1>19 DEF Tuned
  <2>2. glob' \in Nat /\ loc' \in Nat /\ capacity' \in Nat
    BY <2>1, PowersAre DEF Tuning, BestOk, GoodGrid
  <2> QED
    BY <1>1, <2>1, <2>2 DEF Ranges, tuneVars
<1>20. at = "try" => /\ GoodSize(local) /\ mult \in Nat \ {0}
                     /\ Candidate(local, mult, heldNow) \in Nat
  <2> SUFFICES ASSUME at = "try" PROVE /\ GoodSize(local) /\ mult \in Nat \ {0}
                                       /\ Candidate(local, mult, heldNow) \in Nat
    OBVIOUS
  <2>1. GoodSize(local) /\ mult \in Nat \ {0}
    BY <1>1 DEF Tuning, TryOk
  <2> QED
    BY <1>1, <1>2, <2>1, TriedGrid DEF GoodGrid
<1>21. CASE TryFails
  <2>1. /\ at = "try" /\ glob' = Candidate(local, mult, heldNow) /\ loc' = local /\ first' = -1
        /\ local' = 2 * local
        /\ UNCHANGED <<cap, repeats, saved, capacity, mult, heldNow>>
    BY <1>21 DEF TryFails, NextLocal
  <2> QED
    BY <1>1, <1>20, <2>1 DEF Ranges
<1>22. ASSUME NEW t \in Times, Warm(t) PROVE Ranges'
  <2>1. /\ at = "try" /\ glob' = Candidate(local, mult, heldNow) /\ loc' = local /\ first' = t
        /\ UNCHANGED <<cap, repeats, saved, capacity, local, mult, heldNow>>
    BY <1>22 DEF Warm
  <2> QED
    BY <1>1, <1>20, <2>1 DEF Ranges
<1>23. ASSUME NEW t \in Times, Time(t) PROVE Ranges'
  <2>1. /\ first' = -1 /\ local' \in {local, 2 * local} /\ mult' \in {mult, 4 * mult}
        /\ UNCHANGED <<cap, glob, loc, repeats, saved, capacity, heldNow>>
    BY <1>23 DEF Time, NextLocal
  <2> QED
    BY <1>1, <2>1 DEF Ranges
<1> QED
  BY <1>6, <1>7, <1>8, <1>9, <1>10, <1>11, <1>12, <1>13, <1>14, <1>16, <1>17, <1>18, <1>19, <1>21,
     <1>22, <1>23
  DEF Next, Host, Geometry, Use

LEMMA TuningStep == Owned /\ Route /\ Tuning /\ Ranges /\ [Next]_vars => Tuning'
<1> SUFFICES ASSUME Owned, Route, Tuning, Ranges, [Next]_vars PROVE Tuning'
  OBVIOUS
<1>1. /\ UNCHANGED <<dev, pin>> /\ PartialCap' = PartialCap /\ Floor' = Floor
      /\ Ceiling' = Ceiling /\ GoodPin' = GoodPin
  BY FixedDevice, SizesFixed
<1>2. dev \in Devices /\ pin \in Pins
  BY DEF Owned
<1>3. ASSUME UNCHANGED best PROVE BestOk'
  BY <1>1, <1>3 DEF Tuning, BestOk, GoodGrid, Untried
<1>4. ASSUME at' \notin {"local", "try", "probing", "probed"}
      PROVE  LocalOk' /\ TryOk' /\ ProbeOk'
  BY <1>4 DEF LocalOk, TryOk, ProbeOk
<1>5. ASSUME Settled, UNCHANGED <<glob, loc, best>>, repeats' % 2 = 1,
             at' \in {"initialised", "ready", "acquiring"}
      PROVE  Tuning'
  <2>1. SettledOk'
    BY <1>1, <1>5 DEF Tuning, SettledOk, GoodGrid
  <2> QED
    BY <1>3, <1>4, <1>5, <2>1 DEF Tuning
<1>6. ASSUME UNCHANGED best, at' \notin {"local", "try", "probing", "probed"}, ~Settled'
      PROVE  Tuning'
  BY <1>3, <1>4, <1>6 DEF Tuning, SettledOk
<1>7. CASE Refuse \/ StartBuild \/ AcquireFails \/ NoRoom \/ PinRefused \/ NoGeometry
           \/ CalibrateFails \/ RunFails \/ Free
  <2>1. /\ UNCHANGED best /\ at' \notin {"local", "try", "probing", "probed"}
        /\ at' \notin {"calibrate", "initialised", "ready"}
        /\ at' = "acquiring" => next' # "ready"
    BY <1>7
    DEF Refuse, StartBuild, AcquireFails, NoRoom, PinRefused, NoGeometry, CalibrateFails,
        RunFails, Free, Ask, Fail, tuneVars
  <2> QED
    BY <1>6, <2>1 DEF Settled
<1>8. CASE Size
  <2>1. UNCHANGED best /\ at' = "acquiring" /\ next' \in {"tune", "pin"}
    BY <1>8 DEF Size, Ask, tuneVars
  <2> QED
    BY <1>6, <2>1 DEF Settled
<1>9. CASE Probing \/ Acquire \/ UNCHANGED vars
  <2>1. UNCHANGED <<at, next, glob, loc, repeats, saved, tuneVars>>
    BY <1>9 DEF Probing, Acquire, vars, ctxVars
  <2>2. BestOk'
    BY <1>3, <2>1 DEF tuneVars
  <2>3. LocalOk' /\ ProbeOk'
    BY <1>1, <2>1 DEF tuneVars, Tuning, LocalOk, ProbeOk, GoodSize
  <2>4. TryOk' /\ SettledOk'
    BY <1>1, <2>1 DEF tuneVars, Tuning, TryOk, SettledOk, Settled, GoodSize, GoodGrid
  <2> QED
    BY <2>2, <2>3, <2>4 DEF Tuning
<1>10. CASE Acquired
  <2>1. /\ at = "acquiring" /\ at' = next /\ next \in {"sizes", "tune", "pin", "ready"}
        /\ UNCHANGED <<glob, loc, repeats, best>>
    BY <1>10 DEF Acquired, ctxVars, tuneVars, Owned
  <2>2. CASE next = "ready"
    BY <1>5, <2>1, <2>2 DEF Settled, Tuning, SettledOk
  <2>3. CASE next # "ready"
    BY <1>6, <2>1, <2>3 DEF Settled
  <2> QED
    BY <2>2, <2>3
<1>11. CASE Pin
  <2>1. cap = PartialCap /\ GoodPin /\ pin[2] \in Powers /\ pin # <<0, 0>>
    BY <1>11 DEF Pin, Route, GeometryOk, Power, GoodPin
  <2>2. MeasureCapacity(pin[2], <<pin[1], pin[2], repeats>>) /\ UNCHANGED best
    BY <1>11 DEF Pin, tuneVars
  <2>3. loc' = pin[2] /\ saved' = <<pin[1], pin[2], repeats>> /\ at' = "probing"
    BY <1>2, <2>1, <2>2, Measures DEF GoodPin
  <2>4. ProbeOk'
    BY <1>1, <2>1, <2>3 DEF ProbeOk
  <2> QED
    BY <1>3, <2>2, <2>3, <2>4 DEF Tuning, LocalOk, TryOk, SettledOk, Settled
<1>12. CASE TryLocal
  <2>1. cap = PartialCap /\ GoodSize(local) /\ pin = <<0, 0>> /\ repeats = 1
    BY <1>12, LocalIsTried DEF TryLocal, Route, Tuning, LocalOk
  <2>2. MeasureCapacity(local, <<glob, loc, repeats>>) /\ UNCHANGED <<best, local>>
    BY <1>12 DEF TryLocal, tuneVars
  <2>3. loc' = local /\ saved' = <<glob, loc, repeats>> /\ at' = "probing"
    BY <1>2, <2>1, <2>2, GoodSizeIs, Measures DEF GoodSize
  <2>4. ProbeOk'
    BY <1>1, <2>1, <2>2, <2>3 DEF ProbeOk, GoodSize
  <2> QED
    BY <1>3, <2>2, <2>3, <2>4 DEF Tuning, LocalOk, TryOk, SettledOk, Settled
<1>13. ASSUME NEW ok \in BOOLEAN, ProbeReturns(ok) PROVE Tuning'
  <2>1. /\ at = "probing" /\ at' = "probed"
        /\ UNCHANGED <<loc, saved, best, local>>
    BY <1>13 DEF ProbeReturns, ctxVars, tuneVars
  <2>2. ProbeOk'
    BY <1>1, <2>1 DEF Tuning, ProbeOk, GoodSize
  <2> QED
    BY <1>3, <2>1, <2>2 DEF Tuning, LocalOk, TryOk, SettledOk, Settled
<1>14. CASE PinProbed
  <2>1. /\ at = "probed" /\ pin # <<0, 0>> /\ at' = "calibrate" /\ UNCHANGED best
        /\ glob' = saved[1] /\ loc' = saved[2]
    BY <1>14 DEF PinProbed, ProbeDone, tuneVars
  <2>2. GoodPin /\ glob' = pin[1] /\ loc' = pin[2]
    BY <2>1 DEF Tuning, ProbeOk
  <2>3. SettledOk'
    BY <1>1, <1>2, <2>1, <2>2, GoodPinIs DEF SettledOk, GoodGrid
  <2> QED
    BY <1>3, <1>4, <2>1, <2>3 DEF Tuning
<1>15. CASE LocalProbed
  <2>1. /\ at = "probed" /\ pin = <<0, 0>> /\ at' = "try" /\ UNCHANGED <<best, local>>
        /\ repeats' = saved[3] /\ mult' = 1 /\ first' = -1
    BY <1>15 DEF LocalProbed, ProbeDone
  <2>2. GoodSize(local) /\ repeats' = 1
    BY <2>1 DEF Tuning, ProbeOk
  <2>3. TryOk'
    BY <1>1, <2>1, <2>2 DEF TryOk, GoodSize
  <2> QED
    BY <1>3, <2>1, <2>3 DEF Tuning, LocalOk, ProbeOk, SettledOk, Settled
<1>16. CASE TuneStart
  <2>1. at' = "local" /\ local' = Floor /\ repeats' = 1 /\ best' = Untried
    BY <1>16 DEF TuneStart
  <2>2. LocalOk' /\ BestOk'
    BY <1>1, <1>2, <2>1, FloorFacts DEF LocalOk, BestOk, Untried
  <2> QED
    BY <2>1, <2>2 DEF Tuning, TryOk, ProbeOk, SettledOk, Settled
\* From a size to the next: twice as much, or too much.
<1>17. ASSUME at = "try", NextLocal, UNCHANGED repeats, BestOk' PROVE Tuning'
  <2>1. GoodSize(local) /\ repeats = 1
    BY <1>17 DEF Tuning, TryOk
  <2>2. at' = "local" /\ local' = 2 * local
    BY <1>17 DEF NextLocal
  <2>3. local \in Nat \ {0} /\ Floor \in Nat /\ MaxLocal \in Powers
    BY <1>2, <2>1, FloorFacts, PowersAre, DevFacts DEF GoodSize
  <2>4. Floor <= 2 * local
    BY <2>1, <2>3 DEF GoodSize
  <2>5. 2 * local \in Powers \/ 2 * local > MaxLocal
    BY <2>1, <2>3, PowersAre DEF GoodSize
  <2>6. LocalOk'
    BY <1>1, <1>17, <2>1, <2>2, <2>4, <2>5 DEF LocalOk
  <2> QED
    BY <1>17, <2>2, <2>6 DEF Tuning, TryOk, ProbeOk, SettledOk, Settled
<1>18. CASE TryFails
  BY <1>3, <1>17, <1>18 DEF TryFails
<1>19. CASE Tuned
  <2>1. /\ glob' = best.glob /\ loc' = best.loc /\ best # Untried /\ at' = "calibrate"
        /\ UNCHANGED best
    BY <1>19 DEF Tuned, tuneVars
  <2>2. SettledOk'
    BY <1>1, <2>1 DEF Tuning, BestOk, SettledOk, GoodGrid
  <2> QED
    BY <1>3, <1>4, <2>1, <2>2 DEF Tuning
<1>20. ASSUME NEW t \in Times, Warm(t) PROVE Tuning'
  <2>1. /\ at = "try" /\ glob' = Candidate(local, mult, heldNow) /\ loc' = local
        /\ UNCHANGED <<at, repeats, local, mult, heldNow, best>>
    BY <1>20 DEF Warm
  <2>2. GoodSize(local) /\ mult \in Nat \ {0} /\ heldNow \in Nat /\ repeats = 1
    BY <2>1 DEF Tuning, TryOk, Ranges
  <2>3. GoodGrid(glob', local)
    BY <1>2, <2>1, <2>2, TriedGrid
  <2>4. TryOk'
    BY <1>1, <2>1, <2>2, <2>3 DEF TryOk, GoodSize, GoodGrid
  <2> QED
    BY <1>3, <2>1, <2>4 DEF Tuning, LocalOk, ProbeOk, SettledOk, Settled
<1>21. ASSUME NEW t \in Times, Time(t) PROVE Tuning'
  <2>1. /\ at = "try" /\ first # -1 /\ UNCHANGED <<glob, loc, repeats>> /\ first' = -1
        /\ best' = IF Rate(t) > best.rate
                     THEN [rate |-> Rate(t), glob |-> glob, loc |-> loc, held |-> heldNow]
                     ELSE best
        /\ IF glob = Top(local, heldNow) THEN NextLocal /\ UNCHANGED mult
                                         ELSE mult' = 4 * mult /\ UNCHANGED <<at, local>>
    BY <1>21 DEF Time
  <2>2. /\ GoodSize(local) /\ repeats = 1 /\ GoodGrid(glob, loc) /\ mult \in Nat \ {0}
        /\ heldNow \in Nat
    BY <2>1 DEF Tuning, TryOk, Ranges
  <2>3. BestOk'
    <3>1. CASE UNCHANGED best
      BY <1>3, <3>1
    <3>2. CASE best' = [rate |-> Rate(t), glob |-> glob, loc |-> loc, held |-> heldNow]
      <4>1. best'.glob = glob /\ best'.loc = loc /\ best'.held = heldNow
        BY <3>2
      <4> QED
        BY <1>1, <2>2, <4>1 DEF BestOk, GoodGrid
    <3> QED
      BY <2>1, <3>1, <3>2
  <2>4. CASE NextLocal
    BY <1>17, <2>1, <2>3, <2>4
  <2>5. CASE mult' = 4 * mult /\ UNCHANGED <<at, local>>
    <3>1. TryOk'
      BY <1>1, <2>1, <2>2, <2>5 DEF TryOk, GoodSize
    <3> QED
      BY <2>1, <2>3, <2>5, <3>1 DEF Tuning, LocalOk, ProbeOk, SettledOk, Settled
  <2> QED
    BY <2>1, <2>4, <2>5
<1>22. ASSUME NEW t \in Times, Calibrate(t) PROVE Tuning'
  <2>1. /\ at = "calibrate" /\ at' = "initialised" /\ repeats' = Sweeps(t)
        /\ UNCHANGED <<glob, loc, best>>
    BY <1>22 DEF Calibrate, tuneVars
  <2> QED
    BY <1>5, <2>1, SweepsOdd DEF Settled
<1>23. ASSUME NEW on \in BOOLEAN, NEW pinned \in BOOLEAN, SetStream(on, pinned) PROVE Tuning'
  <2>1. /\ at = "initialised" /\ at' = "ready" /\ repeats' \in {1, repeats}
        /\ UNCHANGED <<glob, loc, best>>
    BY <1>23 DEF SetStream, tuneVars
  <2>2. repeats % 2 = 1 /\ 1 % 2 = 1
    BY <2>1 DEF Tuning, SettledOk, Settled
  <2> QED
    BY <1>5, <2>1, <2>2 DEF Settled
<1>24. ASSUME NEW pinned \in BOOLEAN, SetOverlap(pinned) PROVE Tuning'
  <2>1. /\ at = "initialised" /\ at' = "acquiring" /\ repeats' = 1
        /\ UNCHANGED <<glob, loc, best>>
    BY <1>24 DEF SetOverlap, Ask, tuneVars
  <2> QED
    BY <1>5, <2>1 DEF Settled
<1>25. CASE Run
  <2>1. at = "ready" /\ UNCHANGED <<at, glob, loc, repeats, best>>
    BY <1>25 DEF Run, tuneVars
  <2> QED
    BY <1>5, <2>1 DEF Settled, Tuning, SettledOk
<1> QED
  BY <1>7, <1>8, <1>9, <1>10, <1>11, <1>12, <1>13, <1>14, <1>15, <1>16, <1>18, <1>19, <1>20,
     <1>21, <1>22, <1>23, <1>24, <1>25
  DEF Next, Host, Setup, Geometry, Use

-----------------------------------------------------------------------------
(* Every variable, and every launch. *)

\* What is true of a context at all times.
Context ==
  Owned /\ Reasons /\ Route /\ Tuning /\ Ranges /\ ProbeCounts /\ stream \in BOOLEAN

LEMMA StreamStep == stream \in BOOLEAN /\ [Next]_vars => stream' \in BOOLEAN
<1> SUFFICES ASSUME stream \in BOOLEAN, [Next]_vars PROVE stream' \in BOOLEAN
  OBVIOUS
<1>1. ASSUME UNCHANGED stream PROVE stream' \in BOOLEAN
  BY <1>1, Zenon
<1>2. CASE Setup
  BY <1>1, <1>2
  DEF Setup, Refuse, StartBuild, Acquire, AcquireFails, Acquired, NoRoom, Size, ctxVars
<1>3. CASE Geometry
  BY <1>1, <1>3
  DEF Geometry, PinRefused, Pin, PinProbed, TuneStart, TryLocal, LocalProbed, TryFails,
      NoGeometry, Tuned, Warm, Time, ProbeReturns, ctxVars
<1>4. CASE Probing \/ UNCHANGED vars
  BY <1>1, <1>4 DEF Probing, vars, ctxVars
<1>5. ASSUME NEW t \in Times, Calibrate(t) PROVE stream' \in BOOLEAN
  BY <1>1, <1>5 DEF Calibrate
<1>6. CASE CalibrateFails \/ Run \/ RunFails
  BY <1>1, <1>6 DEF CalibrateFails, Run, RunFails
<1>7. CASE Free
  BY <1>7 DEF Free
<1>8. ASSUME NEW on \in BOOLEAN, NEW pinned \in BOOLEAN, SetStream(on, pinned)
      PROVE  stream' \in BOOLEAN
  <2>1. stream' = on
    BY <1>8, Zenon DEF SetStream
  <2> QED
    BY <2>1, Zenon
<1>9. ASSUME NEW pinned \in BOOLEAN, SetOverlap(pinned) PROVE stream' \in BOOLEAN
  BY <1>9 DEF SetOverlap
<1> QED
  BY <1>2, <1>3, <1>4, <1>5, <1>6, <1>7, <1>8, <1>9 DEF Next, Host, Use

LEMMA ContextInit == Init => Context
<1> SUFFICES ASSUME Init PROVE Context
  OBVIOUS
<1>1. Owned
  BY EmptySeq DEF Init, Owned, AtType, Things
<1>2. Reasons /\ stream \in BOOLEAN
  BY DEF Init, Reasons
<1>3. Route /\ Tuning
  <2>1. at = "begin" /\ best = Untried
    BY DEF Init
  <2> QED
    BY <2>1 DEF Route, Settled, Tuning, LocalOk, TryOk, ProbeOk, BestOk, SettledOk
<1>4. Ranges
  BY MaxRepeatsAssumption DEF Init, Ranges
<1>5. ProbeCounts
  <2>1. /\ groups = 0 /\ room = 0 /\ started = 0 /\ finished = 0 /\ most = 0
        /\ where = <<>> /\ seen = <<>> /\ highest = <<>> /\ Group = {}
    BY DEF Init, Group
  <2>2. where \in [Group -> Places] /\ seen \in [Group -> Nat] /\ highest \in [Group -> Nat]
    BY <2>1
  <2>3. Cardinality(Come) = 0 /\ Cardinality(Resident) = 0
    BY <2>1, FS_EmptySet DEF Come, Resident
  <2> QED
    BY <2>1, <2>2, <2>3 DEF ProbeCounts
<1> QED
  BY <1>1, <1>2, <1>3, <1>4, <1>5 DEF Context

LEMMA ContextStep == Context /\ [Next]_vars => Context'
<1> SUFFICES ASSUME Context, [Next]_vars PROVE Context'
  OBVIOUS
<1>1. Owned /\ Reasons /\ Route /\ Tuning /\ Ranges /\ ProbeCounts /\ stream \in BOOLEAN
  BY DEF Context
<1>2. Owned' /\ Reasons' /\ Route' /\ Tuning'
  BY <1>1, OwnedStep, ReasonsStep, RouteStep, TuningStep
<1>3. Ranges' /\ ProbeCounts' /\ stream' \in BOOLEAN
  BY <1>1, RangesStep, CountsStep, StreamStep
<1> QED
  BY <1>2, <1>3 DEF Context

LEMMA ContextAlways == Spec => []Context
  BY ContextInit, ContextStep, PTL DEF Spec

(* Every variable of a context has its type, whatever the device and the slice,
   the geometry asked for and the driver calls that fail. *)
THEOREM ContextTypeOK == Spec => []TypeOK
<1>1. Context => TypeOK
  <2> SUFFICES ASSUME Context PROVE TypeOK
    OBVIOUS
  <2>1. Owned /\ Ranges /\ ProbeCounts /\ error \in BOOLEAN /\ stream \in BOOLEAN
    BY Zenon DEF Context, Reasons
  <2>2. {started, finished} \subseteq 0 .. groups
    BY <2>1, ProbeRange
  <2>3. repeats \in 0 .. MaxRepeats /\ first \in Times \cup {-1}
        /\ {cap, glob, loc, capacity, local, mult, heldNow} \subseteq Nat
    BY <2>1 DEF Ranges
  <2>4. /\ dev \in Devices /\ pin \in Pins /\ held \subseteq Things /\ todo \in Seq(Things)
        /\ next \in {"begin", "sizes", "tune", "pin", "ready"} /\ at \in AtType
    BY <2>1 DEF Owned
  <2> QED
    BY <2>1, <2>2, <2>3, <2>4, Zenon DEF TypeOK, AtType
<1> QED
  BY <1>1, ContextAlways, PTL

\* A launch of a grid that the tuner or the user may come to.
LEMMA LaunchIsExact ==
  ASSUME dev \in Devices, NEW g, NEW l, GoodGrid(g, l), NEW r \in Nat, r % 2 = 1, Launch(g, l, r)
  PROVE  sum' = {Corpus(dev.n, dev.lanes)}
<1>1. g \in Nat \ {0} /\ l \in Powers /\ g % dev.lanes = 0
  BY DEF GoodGrid
<1>2. dev.n \in Nat /\ dev.lanes \in Nat \ {0}
  BY DevFacts
<1>3. LaunchSum(g, l, dev.n, dev.lanes, r) = Corpus(dev.n, dev.lanes)
  BY <1>1, <1>2, LaunchCovers
<1> QED
  BY <1>3 DEF Launch

LEMMA LaunchExactStep == Context /\ LaunchExact /\ [Next]_vars => LaunchExact'
<1> SUFFICES ASSUME Context, LaunchExact, [Next]_vars PROVE LaunchExact'
  OBVIOUS
<1>1. Owned /\ Tuning /\ Ranges /\ dev \in Devices /\ pin \in Pins /\ repeats \in Nat
  BY MaxRepeatsAssumption DEF Context, Owned, Ranges
<1>2. UNCHANGED dev
  BY FixedDevice
<1>3. ASSUME UNCHANGED sum PROVE LaunchExact'
  BY <1>2, <1>3 DEF LaunchExact
<1>4. ASSUME NEW g, NEW l, GoodGrid(g, l), NEW r \in Nat, r % 2 = 1, Launch(g, l, r)
      PROVE  LaunchExact'
  <2>1. sum' = {Corpus(dev.n, dev.lanes)}
    BY <1>1, <1>4, LaunchIsExact
  <2> QED
    BY <1>2, <2>1 DEF LaunchExact
<1>5. CASE Setup
  BY <1>3, <1>5
  DEF Setup, Refuse, StartBuild, Acquire, AcquireFails, Acquired, NoRoom, Size, ctxVars
<1>6. CASE PinRefused \/ Pin \/ PinProbed \/ TuneStart \/ TryLocal \/ LocalProbed \/ TryFails
           \/ NoGeometry \/ Tuned
  BY <1>3, <1>6
  DEF PinRefused, Pin, PinProbed, TuneStart, TryLocal, LocalProbed, TryFails, NoGeometry, Tuned
<1>7. ASSUME NEW ok \in BOOLEAN, ProbeReturns(ok) PROVE LaunchExact'
  BY <1>3, <1>7 DEF ProbeReturns, ctxVars
<1>8. CASE CalibrateFails \/ RunFails \/ Free
  BY <1>3, <1>8 DEF CalibrateFails, RunFails, Free
<1>9. ASSUME NEW on \in BOOLEAN, NEW pinned \in BOOLEAN,
             SetStream(on, pinned) \/ SetOverlap(pinned)
      PROVE  LaunchExact'
  BY <1>3, <1>9 DEF SetStream, SetOverlap
<1>10. CASE Probing \/ UNCHANGED vars
  BY <1>3, <1>10 DEF Probing, vars, ctxVars
<1>11. ASSUME NEW t \in Times, Warm(t) PROVE LaunchExact'
  <2>1. /\ at = "try" /\ glob' = Candidate(local, mult, heldNow)
        /\ Launch(glob', local, repeats)
    BY <1>11 DEF Warm
  <2>2. GoodSize(local) /\ mult \in Nat \ {0} /\ heldNow \in Nat /\ repeats = 1
    BY <1>1, <2>1 DEF Tuning, TryOk, Ranges
  <2>3. GoodGrid(glob', local)
    BY <1>1, <2>1, <2>2, TriedGrid
  <2> QED
    BY <1>4, <2>1, <2>2, <2>3
<1>12. ASSUME NEW t \in Times, Time(t) PROVE LaunchExact'
  <2>1. at = "try" /\ first # -1 /\ Launch(glob, loc, repeats)
    BY <1>12 DEF Time
  <2>2. repeats = 1 /\ GoodGrid(glob, loc)
    BY <1>1, <2>1 DEF Tuning, TryOk
  <2> QED
    BY <1>4, <2>1, <2>2
<1>13. ASSUME NEW t \in Times, Calibrate(t) PROVE LaunchExact'
  <2>1. at = "calibrate" /\ Launch(glob, loc, 1)
    BY <1>13 DEF Calibrate
  <2>2. GoodGrid(glob, loc)
    BY <1>1, <2>1 DEF Tuning, SettledOk, Settled
  <2> QED
    BY <1>4, <2>1, <2>2
<1>14. CASE Run
  <2>1. at = "ready" /\ Launch(glob, loc, repeats)
    BY <1>14 DEF Run
  <2>2. GoodGrid(glob, loc) /\ repeats % 2 = 1
    BY <1>1, <2>1 DEF Tuning, SettledOk, Settled
  <2> QED
    BY <1>1, <1>4, <2>1, <2>2
<1> QED
  BY <1>5, <1>6, <1>7, <1>8, <1>9, <1>10, <1>11, <1>12, <1>13, <1>14
  DEF Next, Host, Geometry, Use

(* Whatever was tried and measured first and whatever failed, every hash launch
   has each message of the slice in its checksum exactly once. *)
THEOREM ContextLaunchExact == Spec => []LaunchExact
<1>1. Init => LaunchExact
  BY DEF Init, LaunchExact
<1> QED
  BY <1>1, LaunchExactStep, ContextAlways, PTL DEF Spec

-----------------------------------------------------------------------------
(* The partials and the device's room. *)

LEMMA EnoughPartials == Context => PartialsSuffice
<1> SUFFICES ASSUME Context PROVE PartialsSuffice
  OBVIOUS
<1>1. Owned /\ Route /\ Tuning /\ Ranges /\ dev \in Devices /\ pin \in Pins
  BY DEF Context, Owned
<1>2. ASSUME at = "local", InRange(local) PROVE Fits(ProbeGlobal(local), local)
  <2>1. GoodSize(local) /\ cap = PartialCap
    BY <1>1, <1>2, LocalIsTried DEF Route
  <2> QED
    BY <1>1, <2>1, GoodSizeIs, ProbeHasPartials DEF GoodSize
<1>3. ASSUME at = "try" PROVE Fits(Candidate(local, mult, heldNow), local)
  <2>1. GoodSize(local) /\ mult \in Nat \ {0} /\ heldNow \in Nat /\ cap = PartialCap
    BY <1>1, <1>3 DEF Tuning, TryOk, Ranges, Route
  <2> QED
    BY <1>1, <2>1, TriedGrid
<1>4. ASSUME at = "pin", GeometryOk(pin[1], pin[2]), pin[2] \in Floor .. Ceiling
      PROVE  Fits(ProbeGlobal(pin[2]), pin[2])
  <2>1. pin[2] \in Powers /\ cap = PartialCap
    BY <1>1, <1>4 DEF GeometryOk, Power, Route
  <2> QED
    BY <1>1, <1>4, <2>1, ProbeHasPartials
<1>5. ASSUME at \in {"calibrate", "initialised", "ready"} PROVE Fits(glob, loc)
  <2>1. GoodGrid(glob, loc) /\ cap = PartialCap
    BY <1>1, <1>5 DEF Tuning, SettledOk, Settled, Route
  <2>2. loc \in Nat \ {0}
    BY <2>1, PowersAre DEF GoodGrid
  <2> QED
    BY <2>1, <2>2 DEF GoodGrid, Fits
<1> QED
  BY <1>2, <1>3, <1>4, <1>5 DEF PartialsSuffice

\* How many work-items the device holds in groups of l, and a grid that runs in
\* one wave if the capacity c is known.
Room(l) == dev.holds[l] * l
Within(c, g, l) == c <= Room(l) /\ (pin = <<0, 0>> /\ c # 0 => g <= Larger(Room(l), Unit(l)))

\* What is known of the capacity at each place.
ProbeHeld ==
  /\ at = "probing" => room = dev.holds[loc]
  /\ at = "probed" => Counted <= dev.holds[loc]
TryHeld ==
  at = "try" => /\ heldNow <= Room(local)
                /\ first # -1 => Within(heldNow, glob, local)
BestHeld    == best # Untried => Within(best.held, best.glob, best.loc)
SettledHeld == Settled => Within(capacity, glob, loc)

Held == ProbeHeld /\ TryHeld /\ BestHeld /\ SettledHeld

LEMMA RoomType ==
  ASSUME dev \in Devices, NEW l \in Powers, l \in Floor .. Ceiling
  PROVE  Room(l) \in Nat
<1>1. l \in Nat /\ dev.holds[l] \in Nat
  BY PowersAre, HoldsType
<1> QED
  BY <1>1 DEF Room

\* A grid that is tried when the capacity is known.
LEMMA OneWave ==
  ASSUME dev \in Devices, GoodSize(local), mult \in Nat \ {0}, heldNow \in Nat,
         heldNow <= Room(local)
  PROVE  Within(heldNow, Candidate(local, mult, heldNow), local)
<1> DEFINE g == Candidate(local, mult, heldNow)
           r == Room(local)
           u == Unit(local)
<1>1. local \in Powers /\ local <= MaxLocal /\ local \in Floor .. Ceiling
  BY GoodSizeIs DEF GoodSize
<1>2. r \in Nat /\ u \in Nat
  BY <1>1, RoomType, UnitFacts
<1>3. g \in Nat /\ g <= Top(local, heldNow) /\ Top(local, heldNow) \in Nat
  BY <1>1, CandidateFacts, TopFacts
<1>4. heldNow # 0 => Top(local, heldNow) <= Larger(heldNow, u)
  BY <1>1, TopFacts
<1> HIDE DEF g, r, u
<1>5. heldNow <= r
  BY DEF r
<1>6. heldNow # 0 => g <= Larger(r, u)
  BY <1>2, <1>3, <1>4, <1>5 DEF Larger
<1> QED
  BY <1>6 DEF Within, g, r, u

\* The answer of a probe that has come back.
LEMMA CountedFits ==
  ASSUME ProbeCounts, ProbeSees
  PROVE  Counted <= room
  BY DEF ProbeCounts, ProbeSees, Counted

LEMMA SeesStep ==
  ~Stalls => (Context /\ ProbeSees /\ [Next]_vars => ProbeSees')
<1> SUFFICES ASSUME ~Stalls, Context, ProbeSees, [Next]_vars PROVE ProbeSees'
  OBVIOUS
<1>1. /\ Owned /\ Route /\ Tuning /\ Ranges /\ ProbeCounts
      /\ dev \in Devices /\ pin \in Pins
  BY DEF Context, Owned
<1>2. ASSUME UNCHANGED probeVars PROVE ProbeSees'
  BY <1>2 DEF probeVars, counters, ProbeSees, Group
<1>3. ASSUME ProbeStart(0, 0) PROVE ProbeSees'
  BY <1>3, ProbeStarts
<1>4. CASE Setup
  BY <1>2, <1>4
  DEF Setup, Refuse, StartBuild, Acquire, AcquireFails, Acquired, NoRoom, Size
<1>5. CASE Use
  BY <1>2, <1>5 DEF Use, Calibrate, CalibrateFails, Run, RunFails, Free, SetStream, SetOverlap
<1>6. CASE Pin
  <2>1. cap = PartialCap /\ pin[2] \in Powers /\ pin[2] \in Floor .. Ceiling
    BY <1>1, <1>6 DEF Pin, Route, GeometryOk, Power
  <2>2. MeasureCapacity(pin[2], <<pin[1], pin[2], repeats>>)
    BY <1>6 DEF Pin
  <2> QED
    BY <1>1, <2>1, <2>2, Measures
<1>7. CASE TryLocal
  <2>1. cap = PartialCap /\ GoodSize(local)
    BY <1>1, <1>7, LocalIsTried DEF TryLocal, Route
  <2>2. MeasureCapacity(local, <<glob, loc, repeats>>)
    BY <1>7 DEF TryLocal
  <2> QED
    BY <1>1, <2>1, <2>2, GoodSizeIs, Measures DEF GoodSize
<1>8. CASE PinProbed \/ LocalProbed
  BY <1>3, <1>8 DEF PinProbed, LocalProbed
<1>9. CASE TuneStart \/ TryFails \/ NoGeometry \/ Tuned \/ PinRefused
  BY <1>2, <1>9 DEF TuneStart, TryFails, NoGeometry, Tuned, PinRefused
<1>10. ASSUME NEW t \in Times, Warm(t) \/ Time(t) PROVE ProbeSees'
  BY <1>2, <1>10 DEF Warm, Time
<1>11. ASSUME NEW ok \in BOOLEAN, ProbeReturns(ok) PROVE ProbeSees'
  BY <1>2, <1>3, <1>11 DEF ProbeReturns
<1>12. CASE Probing
  BY <1>1, <1>12, ProbeSeesStep DEF Probing
<1>13. CASE UNCHANGED vars
  BY <1>2, <1>13 DEF vars
<1> QED
  BY <1>4, <1>5, <1>6, <1>7, <1>8, <1>9, <1>10, <1>11, <1>12, <1>13 DEF Next, Host, Geometry

\* The answer travels from the probe to the geometry that the context keeps.
LEMMA HeldStep ==
  Context /\ ProbeSees /\ Held /\ [Next]_vars => Held'
<1> SUFFICES ASSUME Context, ProbeSees, Held, [Next]_vars PROVE Held'
  OBVIOUS
<1>1. /\ Owned /\ Route /\ Tuning /\ Ranges /\ ProbeCounts
      /\ dev \in Devices /\ pin \in Pins
  BY DEF Context, Owned
<1>2. UNCHANGED <<dev, pin>>
  BY FixedDevice
<1>3. ProbeHeld /\ TryHeld /\ BestHeld /\ SettledHeld
  BY DEF Held
<1>4. ASSUME UNCHANGED best PROVE BestHeld'
  BY <1>2, <1>3, <1>4 DEF BestHeld, Within, Room, Unit
<1>5. ASSUME UNCHANGED best, at' \notin {"try", "probing", "probed"}, Settled' => Settled,
             Settled' => UNCHANGED <<capacity, glob, loc>>
      PROVE  Held'
  <2>1. SettledHeld'
    BY <1>2, <1>3, <1>5 DEF SettledHeld, Within, Room, Unit
  <2> QED
    BY <1>4, <1>5, <2>1 DEF Held, ProbeHeld, TryHeld
<1>6. CASE Refuse \/ StartBuild \/ AcquireFails \/ NoRoom \/ PinRefused \/ NoGeometry
           \/ CalibrateFails \/ RunFails \/ Free
  <2>1. /\ UNCHANGED best /\ at' \notin {"try", "probing", "probed"}
        /\ at' \notin {"calibrate", "initialised", "ready"}
        /\ at' = "acquiring" => next' # "ready"
    BY <1>6
    DEF Refuse, StartBuild, AcquireFails, NoRoom, PinRefused, NoGeometry, CalibrateFails,
        RunFails, Free, Ask, Fail, tuneVars
  <2> QED
    BY <1>5, <2>1 DEF Settled
<1>7. CASE Size
  <2>1. UNCHANGED best /\ at' = "acquiring" /\ next' \in {"tune", "pin"}
    BY <1>7 DEF Size, Ask, tuneVars
  <2> QED
    BY <1>5, <2>1 DEF Settled
<1>8. CASE Acquire \/ UNCHANGED vars
  <2>1. UNCHANGED <<at, next, glob, loc, capacity, tuneVars, probeVars>>
    BY <1>8 DEF Acquire, vars, ctxVars
  <2>2. BestHeld'
    BY <1>4, <2>1 DEF tuneVars
  <2>3. SettledHeld' /\ TryHeld'
    BY <1>2, <1>3, <2>1 DEF tuneVars, SettledHeld, TryHeld, Settled, Within, Room, Unit
  <2>4. ProbeHeld'
    BY <1>2, <1>3, <2>1 DEF ProbeHeld, probeVars, counters, Counted
  <2> QED
    BY <2>2, <2>3, <2>4 DEF Held
<1>9. CASE Probing
  <2>1. UNCHANGED <<at, next, glob, loc, capacity, tuneVars>> /\ at = "probing" /\ ProbeStep
    BY <1>9 DEF Probing, ctxVars
  <2>2. UNCHANGED room
    BY <2>1 DEF ProbeStep, Enter, ReadStarted, ReadFinished, Report, Leave, CountOut
  <2>3. ProbeHeld'
    BY <1>2, <1>3, <2>1, <2>2 DEF ProbeHeld
  <2> QED
    BY <1>4, <2>1, <2>3 DEF tuneVars, Held, TryHeld, SettledHeld, Settled
<1>10. CASE Acquired
  <2>1. /\ at = "acquiring" /\ at' = next /\ next \in {"sizes", "tune", "pin", "ready"}
        /\ UNCHANGED <<glob, loc, capacity, best>>
    BY <1>1, <1>10 DEF Acquired, ctxVars, tuneVars, Owned
  <2> QED
    BY <1>5, <2>1 DEF Settled
<1>11. CASE Pin
  <2>1. cap = PartialCap /\ pin[2] \in Powers /\ pin[2] \in Floor .. Ceiling
    BY <1>1, <1>11 DEF Pin, Route, GeometryOk, Power
  <2>2. MeasureCapacity(pin[2], <<pin[1], pin[2], repeats>>) /\ UNCHANGED best
    BY <1>11 DEF Pin, tuneVars
  <2>3. at' = "probing" /\ loc' = pin[2] /\ room' = dev.holds[pin[2]]
    BY <1>1, <2>1, <2>2, Measures
  <2> QED
    BY <1>2, <1>4, <2>2, <2>3 DEF Held, ProbeHeld, TryHeld, SettledHeld, Settled
<1>12. CASE TryLocal
  <2>1. cap = PartialCap /\ GoodSize(local)
    BY <1>1, <1>12, LocalIsTried DEF TryLocal, Route
  <2>2. MeasureCapacity(local, <<glob, loc, repeats>>) /\ UNCHANGED best
    BY <1>12 DEF TryLocal, tuneVars
  <2>3. at' = "probing" /\ loc' = local /\ room' = dev.holds[local]
    BY <1>1, <2>1, <2>2, GoodSizeIs, Measures DEF GoodSize
  <2> QED
    BY <1>2, <1>4, <2>2, <2>3 DEF Held, ProbeHeld, TryHeld, SettledHeld, Settled
\* The size that is probed is one that the device takes.
<1>13. ASSUME at \in {"probing", "probed"}
       PROVE  loc \in Powers /\ loc \in Floor .. Ceiling
  <2>1. CASE pin = <<0, 0>>
    BY <1>1, <1>13, <2>1, GoodSizeIs DEF Tuning, ProbeOk, GoodSize
  <2>2. CASE pin # <<0, 0>>
    BY <1>1, <1>13, <2>2 DEF Tuning, ProbeOk, GoodPin, GeometryOk, Power
  <2> QED
    BY <2>1, <2>2
<1>14. ASSUME NEW ok \in BOOLEAN, ProbeReturns(ok) PROVE Held'
  <2>1. /\ at = "probing" /\ at' = "probed" /\ UNCHANGED <<loc, best>>
        /\ UNCHANGED probeVars \/ ProbeStart(0, 0)
    BY <1>14 DEF ProbeReturns, ctxVars, tuneVars
  <2>2. room = dev.holds[loc] /\ dev.holds[loc] \in Nat
    BY <1>1, <1>3, <1>13, <2>1, HoldsType DEF ProbeHeld
  <2>3. Counted' <= room
    <3>1. CASE UNCHANGED probeVars
      BY <1>1, <3>1, CountedFits DEF probeVars, counters, Counted
    <3>2. CASE ProbeStart(0, 0)
      BY <2>2, <3>2, ProbeStarts
    <3> QED
      BY <2>1, <3>1, <3>2
  <2> QED
    BY <1>2, <1>4, <2>1, <2>2, <2>3 DEF Held, ProbeHeld, TryHeld, SettledHeld, Settled
\* What the probe counted, in work-items.
<1>15. ASSUME at = "probed" PROVE Counted * loc \in Nat /\ Counted * loc <= Room(loc)
  <2>1. loc \in Nat /\ Counted \in Nat /\ dev.holds[loc] \in Nat /\ Counted <= dev.holds[loc]
    BY <1>1, <1>3, <1>13, <1>15, HoldsType, ProbeRange DEF ProbeHeld, Ranges
  <2> DEFINE c == Counted
             h == dev.holds[loc]
  <2> HIDE DEF c, h
  <2>2. loc * c <= loc * h /\ c * loc = loc * c /\ h * loc = loc * h /\ loc * c \in Nat
    BY <2>1, TimesGrows DEF c, h
  <2> QED
    BY <2>2 DEF Room, c, h
<1>16. CASE PinProbed
  <2>1. /\ at = "probed" /\ pin # <<0, 0>> /\ at' = "calibrate" /\ UNCHANGED best
        /\ loc' = saved[2] /\ capacity' = Counted * loc
    BY <1>16 DEF PinProbed, ProbeDone, tuneVars
  <2>2. loc' = loc
    BY <1>1, <2>1 DEF Tuning, ProbeOk
  <2>3. SettledHeld'
    BY <1>2, <1>15, <2>1, <2>2 DEF SettledHeld, Within, Room
  <2> QED
    BY <1>4, <2>1, <2>3 DEF Held, ProbeHeld, TryHeld
<1>17. CASE LocalProbed
  <2>1. /\ at = "probed" /\ pin = <<0, 0>> /\ at' = "try" /\ UNCHANGED <<best, local>>
        /\ heldNow' = Counted * loc /\ first' = -1
    BY <1>17 DEF LocalProbed, tuneVars
  <2>2. local = loc
    BY <1>1, <2>1 DEF Tuning, ProbeOk
  <2>3. TryHeld'
    BY <1>2, <1>15, <2>1, <2>2 DEF TryHeld, Room
  <2> QED
    BY <1>4, <2>1, <2>3 DEF Held, ProbeHeld, SettledHeld, Settled
<1>18. CASE TuneStart
  <2>1. at' = "local" /\ best' = Untried
    BY <1>18 DEF TuneStart
  <2> QED
    BY <2>1 DEF Held, ProbeHeld, TryHeld, BestHeld, SettledHeld, Settled, Untried
<1>19. CASE TryFails
  <2>1. at' = "local" /\ UNCHANGED best
    BY <1>19 DEF TryFails, NextLocal
  <2> QED
    BY <1>5, <2>1 DEF Settled
<1>20. CASE Tuned
  <2>1. /\ glob' = best.glob /\ loc' = best.loc /\ capacity' = best.held /\ best # Untried
        /\ at' = "calibrate" /\ UNCHANGED best
    BY <1>20 DEF Tuned, tuneVars
  <2>2. SettledHeld'
    BY <1>2, <1>3, <2>1 DEF BestHeld, SettledHeld, Within, Room, Unit
  <2> QED
    BY <1>4, <2>1, <2>2 DEF Held, ProbeHeld, TryHeld
<1>21. ASSUME NEW t \in Times, Warm(t) PROVE Held'
  <2>1. /\ at = "try" /\ glob' = Candidate(local, mult, heldNow)
        /\ UNCHANGED <<at, local, mult, heldNow, best>>
    BY <1>21 DEF Warm
  <2>2. GoodSize(local) /\ mult \in Nat \ {0} /\ heldNow \in Nat /\ heldNow <= Room(local)
    BY <1>1, <1>3, <2>1 DEF Tuning, TryOk, Ranges, TryHeld
  <2>3. Within(heldNow, glob', local)
    BY <1>1, <2>1, <2>2, OneWave
  <2>4. TryHeld'
    BY <1>2, <2>1, <2>2, <2>3 DEF TryHeld, Within, Room, Unit
  <2> QED
    BY <1>4, <2>1, <2>4 DEF Held, ProbeHeld, SettledHeld, Settled
<1>22. ASSUME NEW t \in Times, Time(t) PROVE Held'
  <2>1. /\ at = "try" /\ first # -1 /\ first' = -1 /\ UNCHANGED <<glob, loc, heldNow>>
        /\ \/ UNCHANGED best
           \/ best' = [rate |-> Rate(t), glob |-> glob, loc |-> loc, held |-> heldNow]
        /\ (at' = "try" /\ UNCHANGED local) \/ at' = "local"
    BY <1>22 DEF Time, NextLocal
  <2>2. Within(heldNow, glob, local) /\ heldNow <= Room(local) /\ loc = local
    BY <1>1, <1>3, <2>1 DEF TryHeld, Tuning, TryOk
  <2>3. BestHeld'
    <3>1. CASE UNCHANGED best
      BY <1>4, <3>1
    <3>2. CASE best' = [rate |-> Rate(t), glob |-> glob, loc |-> loc, held |-> heldNow]
      <4>1. best'.held = heldNow /\ best'.glob = glob /\ best'.loc = local
        BY <2>2, <3>2
      <4> QED
        BY <1>2, <2>2, <4>1 DEF BestHeld, Within, Room, Unit
    <3> QED
      BY <2>1, <3>1, <3>2
  <2>4. TryHeld'
    BY <1>2, <2>1, <2>2 DEF TryHeld, Room
  <2> QED
    BY <2>1, <2>3, <2>4 DEF Held, ProbeHeld, SettledHeld, Settled
<1>23. ASSUME NEW t \in Times, Calibrate(t) PROVE Held'
  <2>1. /\ at = "calibrate" /\ at' = "initialised" /\ UNCHANGED <<glob, loc, capacity, best>>
    BY <1>23 DEF Calibrate, tuneVars
  <2> QED
    BY <1>5, <2>1 DEF Settled
<1>24. ASSUME NEW on \in BOOLEAN, NEW pinned \in BOOLEAN, SetStream(on, pinned) PROVE Held'
  <2>1. at = "initialised" /\ at' = "ready" /\ UNCHANGED <<glob, loc, capacity, best>>
    BY <1>24 DEF SetStream, tuneVars
  <2> QED
    BY <1>5, <2>1 DEF Settled
<1>25. ASSUME NEW pinned \in BOOLEAN, SetOverlap(pinned) PROVE Held'
  <2>1. at = "initialised" /\ at' = "acquiring" /\ UNCHANGED <<glob, loc, capacity, best>>
    BY <1>25 DEF SetOverlap, Ask, tuneVars
  <2> QED
    BY <1>5, <2>1 DEF Settled
<1>26. CASE Run
  <2>1. at = "ready" /\ UNCHANGED <<at, glob, loc, capacity, best>>
    BY <1>26 DEF Run, tuneVars
  <2> QED
    BY <1>5, <2>1 DEF Settled
<1> QED
  BY <1>6, <1>7, <1>8, <1>9, <1>10, <1>11, <1>12, <1>14, <1>16, <1>17, <1>18, <1>19, <1>20,
     <1>21, <1>22, <1>23, <1>24, <1>25, <1>26
  DEF Next, Host, Setup, Geometry, Use

(* The partial buffer, sized before the geometry is known, is enough for every
   launch of the probe, the tuner and a pinned geometry. *)
THEOREM ContextPartialsSuffice == Spec => []PartialsSuffice
  BY EnoughPartials, ContextAlways, PTL

(* On a device that holds up no group between its two reads, the capacity is
   never more than the device has room for, and a tuned grid whose capacity is
   known runs in one wave or is the smallest there is. *)
THEOREM ContextGeometrySound ==
  ASSUME ~Stalls
  PROVE  Spec => []GeometrySound
<1>1. Init => ProbeSees
  BY DEF Init, ProbeSees, Group
<1>2. Init => Held
  BY DEF Init, Held, ProbeHeld, TryHeld, BestHeld, SettledHeld, Settled
<1>3. Context /\ ProbeSees /\ [Next]_vars => ProbeSees'
  BY SeesStep
<1>4. ProbeSees /\ Held => HoldsAtOnce
  <2> SUFFICES ASSUME ProbeSees, Held PROVE HoldsAtOnce
    OBVIOUS
  <2>1. OnlyUndercounts
    BY DEF ProbeSees, OnlyUndercounts
  <2>2. at \in {"calibrate", "initialised", "ready"} => Within(capacity, glob, loc)
    BY DEF Held, SettledHeld, Settled
  <2> QED
    BY <2>1, <2>2 DEF HoldsAtOnce, Within, Room
<1>5. Context /\ ProbeSees /\ Held => GeometrySound
  BY <1>4, EnoughPartials DEF GeometrySound
<1> QED
  BY <1>1, <1>2, <1>3, <1>5, ContextAlways, HeldStep, PTL DEF Spec

=============================================================================
