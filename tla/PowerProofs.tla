------------------------------- MODULE PowerProofs -------------------------------
(***************************************************************************)
(* What the energy of a report means, for every machine, job, table size,   *)
(* counter range and number of samples: that a valid reading is the energy  *)
(* its parts drew, and that what is added is the hardware that hashed, once. *)
(*                                                                         *)
(* The invariant has three parts.  Sources says what each source is, which  *)
(* no step after the scan changes; Counting relates what a counter shows to *)
(* what its parts drew since the beginning, through whole turns of its range *)
(* and resets; Attributed keeps the choice of vb_power_attribute true until *)
(* the report.  The sum over the parts of a source is a fold: that its table *)
(* exists, and how it grows, are lemmas of least counterexample.            *)
(***************************************************************************)
EXTENDS Power, FiniteSetTheorems, SequenceTheorems, WellFoundedInduction, TLAPS

-----------------------------------------------------------------------------
\* A non-empty set of naturals has a least element.
LEMMA LeastExists ==
  ASSUME NEW S, S \subseteq Nat, S # {}
  PROVE  \E m \in S : \A k \in S : m <= k
<1> DEFINE R == OpToRel(<, Nat)
<1>1. IsWellFoundedOn(R, Nat)
  BY NatLessThanWellFounded
<1>2. \A j, k \in Nat : <<j, k>> \in R <=> j < k
  BY DEF OpToRel
<1> HIDE DEF R
<1>3. PICK m \in S : \A k \in S : ~(<<k, m>> \in R)
  BY <1>1, WFMin
<1>4. ASSUME NEW k \in S PROVE m <= k
  <2>1. k \in Nat /\ m \in Nat /\ ~(k < m)
    BY <1>2, <1>3
  <2> QED
    BY <2>1
<1> QED
  BY <1>4

-----------------------------------------------------------------------------
(* Sums over the parts of a source. *)

Sum(f, S)     == MapThenSumSet(LAMBDA p : f[p], S)
SomeOf(s)     == CHOOSE x \in s : TRUE
Step(f, h, s) == IF s = {} THEN 0 ELSE f[SomeOf(s)] + h[s \ {SomeOf(s)}]
Adds(f, S, h) == h = [s \in SUBSET S |-> Step(f, h, s)]

SumBy(f, S, h) == Sum(f, S) = h[S] /\ \A s \in SUBSET S : h[s] = Step(f, h, s)

LEMMA SomeIsOf == \A s : s # {} => SomeOf(s) \in s
  BY DEF SomeOf

LEMMA SumIs == \A f, S : Sum(f, S) = (CHOOSE h : Adds(f, S, h))[S]
  BY DEF Sum, MapThenSumSet, MapThenFoldSet, Adds, Step, SomeOf

\* A family of subsets that an element more never leaves has them all.
LEMMA SubsetsGrow ==
  ASSUME NEW S, IsFiniteSet(S), NEW G, {} \in G,
         \A s \in SUBSET S : s # {} /\ s \ {SomeOf(s)} \in G => s \in G
  PROVE  SUBSET S \subseteq G
<1> DEFINE Bad == {n \in Nat : \E s \in SUBSET S : s \notin G /\ Cardinality(s) = n}
<1>1. SUFFICES ASSUME Bad # {} PROVE FALSE
  <2> SUFFICES ASSUME NEW s \in SUBSET S, s \notin G PROVE Bad # {}
    BY <1>1
  <2>1. Cardinality(s) \in Nat
    BY FS_Subset, FS_CardinalityType
  <2> QED
    BY <2>1
<1>2. PICK n \in Bad : \A k \in Bad : n <= k
  <2>1. Bad \subseteq Nat
    OBVIOUS
  <2> HIDE DEF Bad
  <2> QED
    BY <1>1, <2>1, LeastExists
<1>3. PICK s \in SUBSET S : s \notin G /\ Cardinality(s) = n
  BY <1>2
<1>4. s # {} /\ SomeOf(s) \in s /\ IsFiniteSet(s)
  <2>1. s # {}
    BY <1>3
  <2> QED
    BY <2>1, SomeIsOf, FS_Subset
<1>5. Cardinality(s \ {SomeOf(s)}) = n - 1
  BY <1>3, <1>4, FS_RemoveElement
<1>6. n - 1 \in Nat
  <2>1. IsFiniteSet(s \ {SomeOf(s)})
    BY <1>4, FS_RemoveElement
  <2> QED
    BY <1>5, <2>1, FS_CardinalityType
<1>7. s \ {SomeOf(s)} \in G
  <2>1. n - 1 \notin Bad
    BY <1>2, <1>6
  <2> QED
    BY <1>5, <1>6, <2>1
<1> QED
  BY <1>3, <1>4, <1>7

\* The table that the sum is read from.
LEMMA TableExists ==
  ASSUME NEW f, NEW S, IsFiniteSet(S)
  PROVE  \E h : Adds(f, S, h)
<1> DEFINE Upto(n)     == {s \in SUBSET S : Cardinality(s) <= n}
           Table(n, h) == h = [s \in Upto(n) |-> Step(f, h, s)]
           Bad         == {n \in Nat : ~\E h : Table(n, h)}
<1>1. ASSUME NEW s \in SUBSET S
      PROVE  /\ IsFiniteSet(s) /\ Cardinality(s) \in Nat
             /\ s # {} => SomeOf(s) \in s /\ Cardinality(s \ {SomeOf(s)}) = Cardinality(s) - 1
  <2>1. IsFiniteSet(s) /\ (s # {} => SomeOf(s) \in s)
    BY FS_Subset, SomeIsOf
  <2> QED
    BY <2>1, FS_CardinalityType, FS_RemoveElement
<1>2. Bad = {}
  <2>1. SUFFICES ASSUME Bad # {} PROVE FALSE
    OBVIOUS
  <2>2. PICK n \in Bad : \A k \in Bad : n <= k
    <3>1. Bad \subseteq Nat
      OBVIOUS
    <3> HIDE DEF Bad
    <3> QED
      BY <2>1, <3>1, LeastExists
  <2>3. n # 0
    <3> SUFFICES ASSUME n = 0 PROVE FALSE
      OBVIOUS
    <3> DEFINE h == [s \in Upto(0) |-> 0]
    <3>1. ASSUME NEW s \in Upto(0) PROVE s = {}
      <4>1. IsFiniteSet(s) /\ Cardinality(s) \in Nat /\ Cardinality(s) <= 0
        BY <1>1
      <4>2. Cardinality(s) = 0
        BY <4>1
      <4> QED
        BY <4>1, <4>2, FS_EmptySet
    <3>2. h = [s \in Upto(0) |-> Step(f, h, s)]
      BY <3>1 DEF Step
    <3> QED
      BY <2>2, <3>2
  <2>4. PICK h : Table(n - 1, h)
    <3>1. n \in Nat
      OBVIOUS
    <3>2. n - 1 \in Nat /\ n - 1 \notin Bad
      <4> HIDE DEF Bad
      <4> QED
        BY <2>2, <2>3, <3>1
    <3> QED
      BY <3>2
  <2> DEFINE g == [s \in Upto(n) |-> IF s \in Upto(n - 1) THEN h[s] ELSE Step(f, h, s)]
  <2>5. ASSUME NEW s \in Upto(n) PROVE g[s] = Step(f, h, s)
    BY <2>4, <2>5
  <2>6. ASSUME NEW s \in Upto(n), s # {} PROVE g[s \ {SomeOf(s)}] = h[s \ {SomeOf(s)}]
    <3>1. /\ Cardinality(s) \in Nat /\ Cardinality(s) <= n /\ n \in Nat
          /\ Cardinality(s \ {SomeOf(s)}) = Cardinality(s) - 1
      BY <1>1, <2>6
    <3>2. Cardinality(s \ {SomeOf(s)}) <= n - 1 /\ Cardinality(s \ {SomeOf(s)}) <= n
      BY <3>1
    <3>3. s \ {SomeOf(s)} \in Upto(n - 1) /\ s \ {SomeOf(s)} \in Upto(n)
      BY <3>2
    <3> QED
      BY <3>3
  <2>7. ASSUME NEW s \in Upto(n) PROVE g[s] = Step(f, g, s)
    <3>1. Step(f, g, s) = Step(f, h, s)
      <4> HIDE DEF g, Upto
      <4> QED
        BY <2>6, <2>7 DEF Step
    <3> QED
      BY <2>5, <3>1
  <2>8. Table(n, g)
    <3>1. DOMAIN g = Upto(n) /\ g = [s \in Upto(n) |-> g[s]]
      OBVIOUS
    <3> HIDE DEF g, Upto
    <3> QED
      BY <2>7, <3>1
  <2> QED
    BY <2>2, <2>8
<1>3. PICK h : Table(Cardinality(S), h)
  BY <1>2, FS_CardinalityType
<1>4. Upto(Cardinality(S)) = SUBSET S
  BY FS_Subset
<1> QED
  BY <1>3, <1>4 DEF Adds

LEMMA SumTable ==
  ASSUME NEW f, NEW S, IsFiniteSet(S)
  PROVE  \E h : SumBy(f, S, h)
<1> DEFINE h == CHOOSE h : Adds(f, S, h)
<1>1. Adds(f, S, h)
  BY TableExists
<1>2. Sum(f, S) = h[S]
  BY SumIs
<1> HIDE DEF h
<1>3. \A s \in SUBSET S : h[s] = Step(f, h, s)
  BY <1>1 DEF Adds
<1> QED
  BY <1>2, <1>3 DEF SumBy

LEMMA SumOfNothing ==
  ASSUME NEW f, NEW S, IsFiniteSet(S), \A p \in S : f[p] = 0
  PROVE  Sum(f, S) = 0
<1>1. PICK h : SumBy(f, S, h)
  BY SumTable
<1> DEFINE G == {s \in SUBSET S : h[s] = 0}
<1>2. {} \in G
  BY <1>1 DEF Step, SumBy
<1>3. ASSUME NEW s \in SUBSET S, s # {}, s \ {SomeOf(s)} \in G PROVE s \in G
  <2>1. SomeOf(s) \in S
    BY <1>3 DEF SomeOf
  <2> QED
    BY <1>1, <1>3, <2>1 DEF Step, SumBy
<1>4. SUBSET S \subseteq G
  <2> HIDE DEF G
  <2> QED
    BY <1>2, <1>3, SubsetsGrow
<1> QED
  BY <1>1, <1>4 DEF SumBy

\* One part counts one more.
LEMMA SumOfMore ==
  ASSUME NEW f, NEW g, NEW S, IsFiniteSet(S), NEW q, \A p \in S : f[p] \in Nat,
         \A p \in S : g[p] = IF p = q THEN f[p] + 1 ELSE f[p]
  PROVE  /\ Sum(f, S) \in Nat
         /\ Sum(g, S) = IF q \in S THEN Sum(f, S) + 1 ELSE Sum(f, S)
<1>1. PICK h : SumBy(f, S, h)
  BY SumTable
<1>2. PICK k : SumBy(g, S, k)
  BY SumTable
<1> DEFINE G == {s \in SUBSET S : h[s] \in Nat /\ k[s] = IF q \in s THEN h[s] + 1 ELSE h[s]}
<1>3. {} \in G
  <2>1. h[{}] = 0 /\ k[{}] = 0
    BY <1>1, <1>2 DEF Step, SumBy
  <2> QED
    BY <2>1
<1>4. ASSUME NEW s \in SUBSET S, s # {}, s \ {SomeOf(s)} \in G PROVE s \in G
  <2> DEFINE x == SomeOf(s)
             r == s \ {x}
  <2>1. x \in S /\ x \in s
    BY <1>4 DEF SomeOf
  <2>2. h[s] = f[x] + h[r] /\ k[s] = g[x] + k[r]
    BY <1>1, <1>2, <1>4 DEF Step, SumBy
  <2>3. h[r] \in Nat /\ k[r] = IF q \in r THEN h[r] + 1 ELSE h[r]
    BY <1>4
  <2>4. f[x] \in Nat /\ g[x] = IF x = q THEN f[x] + 1 ELSE f[x]
    BY <2>1
  <2>5. (q \in r) <=> (q \in s /\ q # x)
    OBVIOUS
  <2> HIDE DEF x, r
  <2>6. h[s] \in Nat /\ k[s] = IF q \in s THEN h[s] + 1 ELSE h[s]
    BY <2>1, <2>2, <2>3, <2>4, <2>5
  <2> QED
    BY <2>6
<1>5. SUBSET S \subseteq G
  <2> HIDE DEF G
  <2> QED
    BY <1>3, <1>4, SubsetsGrow
<1> QED
  BY <1>1, <1>2, <1>5 DEF SumBy

-----------------------------------------------------------------------------
(* What the sources are. *)

MachineOf(m) ==
  /\ m.domains \in Seq(Domains) /\ IsInjective(m.domains)
  /\ m.drm \in Seq([card : Cards(m), energy : BOOLEAN])
  /\ m.nvml \in Seq([card : Cards(m), pci : BOOLEAN])
  /\ m.nvmlEnergy \in BOOLEAN
  /\ Cards(m) \cap {"cores", "igpu", "dram"} = {}

Ids    == {NoId} \cup (Cards(box) \X {"lower", "upper"})
Source ==
  [kind : {"energy", "watts"}, scope : {"package", "cores", "gpu", "other"}, provider : {0, 1, 2},
   contained : BOOLEAN, id : Ids, wrap : Nat, parts : SUBSET Parts(box),
   start : Nat, joules : Nat, valid : BOOLEAN, counted : BOOLEAN]

Rapl(s, scope, contained, parts) ==
  /\ s.kind = "energy" /\ s.provider = 0 /\ s.id = NoId /\ s.wrap = Modulus
  /\ s.scope = scope /\ s.contained = contained /\ s.parts = parts

CardOf(s, c) ==
  /\ s.scope = "gpu" /\ s.provider \in {1, 2} /\ s.contained = FALSE /\ s.wrap = 0
  /\ s.parts = {c} /\ s.id \in {NoId, <<c, "lower">>, <<c, "upper">>}
  /\ s.provider = 1 => s.id # NoId

\* One of the domains of the package, or a card as a provider shows it.
IsSource(s) ==
  \/ Rapl(s, "package", FALSE, {"cores", "igpu"})
  \/ Rapl(s, "cores", FALSE, {"cores"})
  \/ Rapl(s, "gpu", TRUE, {"igpu"})
  \/ Rapl(s, "other", TRUE, Parts(box))
  \/ Rapl(s, "other", FALSE, {"dram"})
  \/ \E c \in Cards(box) : CardOf(s, c)

\* No domain of the package is read twice.
Apart(f) ==
  \A i, j \in DOMAIN f :
    i # j /\ f[i].provider = 0 /\ f[j].provider = 0 => f[i].parts # f[j].parts

Scanned == \A i \in DOMAIN src : IsSource(src[i])
Sources == src \in Seq(Source) /\ Scanned /\ Apart(src) /\ Len(src) <= MaxSrc

LEMMA MachineFacts ==
  ASSUME box \in Machines
  PROVE  MachineOf(box)
  BY MachinesAssumption DEF MachineOf

LEMMA ScansAre ==
  ASSUME box \in Machines
  PROVE  /\ Len(box.drm) \in Nat /\ DOMAIN box.drm = 1 .. Len(box.drm)
         /\ Len(box.nvml) \in Nat /\ DOMAIN box.nvml = 1 .. Len(box.nvml)
         /\ \A i \in DOMAIN box.drm : box.drm[i] \in [card : Cards(box), energy : BOOLEAN]
         /\ \A i \in DOMAIN box.nvml : box.nvml[i] \in [card : Cards(box), pci : BOOLEAN]
<1> DEFINE T == [card : Cards(box), energy : BOOLEAN]
           U == [card : Cards(box), pci : BOOLEAN]
<1>1. box.drm \in Seq(T) /\ box.nvml \in Seq(U)
  BY MachineFacts DEF MachineOf
<1> HIDE DEF T, U
<1>2. /\ Len(box.drm) \in Nat /\ DOMAIN box.drm = 1 .. Len(box.drm)
      /\ \A i \in 1 .. Len(box.drm) : box.drm[i] \in T
  <2>1. Len(box.drm) \in Nat /\ DOMAIN box.drm = 1 .. Len(box.drm)
    BY <1>1, LenProperties
  <2> QED
    BY <1>1, <2>1, ElementOfSeq
<1>3. /\ Len(box.nvml) \in Nat /\ DOMAIN box.nvml = 1 .. Len(box.nvml)
      /\ \A i \in 1 .. Len(box.nvml) : box.nvml[i] \in U
  <2>1. Len(box.nvml) \in Nat /\ DOMAIN box.nvml = 1 .. Len(box.nvml)
    BY <1>1, LenProperties
  <2> QED
    BY <1>1, <2>1, ElementOfSeq
<1> QED
  BY <1>2, <1>3 DEF T, U

LEMMA PartsFacts ==
  ASSUME box \in Machines
  PROVE  /\ {"cores", "igpu", "dram"} \subseteq Parts(box) /\ Cards(box) \subseteq Parts(box)
         /\ \A c \in Cards(box) : c \notin {"cores", "igpu", "dram"} /\ {c} # Parts(box)
         /\ IsFiniteSet(Parts(box))
<1>1. /\ {"cores", "igpu", "dram"} \subseteq Parts(box) /\ Cards(box) \subseteq Parts(box)
      /\ \A c \in Cards(box) : c \notin {"cores", "igpu", "dram"}
  BY MachineFacts DEF Parts, MachineOf
<1>2. IsFiniteSet(Cards(box))
  <2>1. PICK n \in Nat, k \in Nat : DOMAIN box.drm = 1 .. n /\ DOMAIN box.nvml = 1 .. k
    BY ScansAre
  <2>2. IsFiniteSet(DOMAIN box.drm) /\ IsFiniteSet(DOMAIN box.nvml)
    BY <2>1, FS_Interval
  <2> DEFINE A == {box.drm[i].card : i \in DOMAIN box.drm}
             B == {box.nvml[i].card : i \in DOMAIN box.nvml}
             f == [i \in DOMAIN box.drm |-> box.drm[i].card]
             g == [i \in DOMAIN box.nvml |-> box.nvml[i].card]
  <2>3. f \in Surjection(DOMAIN box.drm, A)
    BY DEF Surjection
  <2>4. g \in Surjection(DOMAIN box.nvml, B)
    BY DEF Surjection
  <2>5. IsFiniteSet(A) /\ IsFiniteSet(B)
    BY <2>2, <2>3, <2>4, FS_Surjection
  <2>6. Cards(box) = A \cup B
    BY DEF Cards
  <2> HIDE DEF A, B
  <2>7. IsFiniteSet(A \cup B)
    BY <2>5, FS_Union
  <2> QED
    BY <2>6, <2>7
<1>3. IsFiniteSet(Parts(box))
  <2>1. IsFiniteSet({"cores"}) /\ IsFiniteSet({"igpu"}) /\ IsFiniteSet({"dram"})
    BY FS_Singleton
  <2>2. IsFiniteSet({"cores"} \cup {"igpu"})
    BY <2>1, FS_Union
  <2>3. IsFiniteSet(({"cores"} \cup {"igpu"}) \cup {"dram"})
    BY <2>1, <2>2, FS_Union
  <2>4. Parts(box) = (({"cores"} \cup {"igpu"}) \cup {"dram"}) \cup Cards(box)
    BY DEF Parts
  <2> QED
    BY <1>2, <2>3, <2>4, FS_Union
<1> QED
  BY <1>1, <1>3

LEMMA ReadableFacts ==
  ASSUME box \in Machines, NEW domains \in Readable(box)
  PROVE  /\ domains \in Seq(Domains)
         /\ \A i, j \in DOMAIN domains : i # j => domains[i] # domains[j]
<1>1. box.domains \in Seq(Domains) /\ IsInjective(box.domains)
  BY MachineFacts DEF MachineOf
<1>2. PICK n \in Nat : \E f \in [1 .. n -> DOMAIN box.domains] :
        /\ domains = [i \in DOMAIN f |-> box.domains[f[i]]]
        /\ \A i, j \in DOMAIN f : i < j => f[i] < f[j]
  <2>1. Len(box.domains) \in Nat
    BY <1>1, LenProperties
  <2>2. PICK f \in UNION {[1 .. n -> DOMAIN box.domains] : n \in 0 .. Len(box.domains)} :
          /\ domains = [i \in DOMAIN f |-> box.domains[f[i]]]
          /\ \A i, j \in DOMAIN f : i < j => f[i] < f[j]
    BY DEF Readable
  <2>3. PICK n \in 0 .. Len(box.domains) : f \in [1 .. n -> DOMAIN box.domains]
    BY <2>2
  <2>4. n \in Nat
    BY <2>1
  <2> QED
    BY <2>2, <2>3, <2>4
<1>3. PICK f \in [1 .. n -> DOMAIN box.domains] :
        /\ domains = [i \in DOMAIN f |-> box.domains[f[i]]]
        /\ \A i, j \in DOMAIN f : i < j => f[i] < f[j]
  BY <1>2
<1>4. DOMAIN box.domains = 1 .. Len(box.domains) /\ Len(box.domains) \in Nat
      /\ \A i \in DOMAIN box.domains : box.domains[i] \in Domains
  BY <1>1, LenProperties, ElementOfSeq
<1>5. domains \in [1 .. n -> Domains]
  BY <1>3, <1>4
<1>6. ASSUME NEW i \in 1 .. n, NEW j \in 1 .. n, i # j PROVE domains[i] # domains[j]
  <2>1. f[i] \in Int /\ f[j] \in Int /\ f[i] # f[j]
    <3>1. i < j \/ j < i
      BY <1>6
    <3>2. f[i] \in Int /\ f[j] \in Int
      BY <1>4
    <3>3. f[i] < f[j] \/ f[j] < f[i]
      BY <1>3, <3>1
    <3> QED
      BY <3>2, <3>3
  <2> QED
    BY <1>1, <1>3, <2>1 DEF IsInjective
<1> QED
  BY <1>5, <1>6, SeqDef

LEMMA PowercapFacts ==
  ASSUME box \in Machines, NEW d \in Domains
  PROVE  /\ Powercap(box, d) \in Source /\ IsSource(Powercap(box, d))
         /\ \A e \in Domains : e # d => Powercap(box, e).parts # Powercap(box, d).parts
<1> USE DEF Powercap, New
<1>1. Modulus \in Nat /\ NoId \in Ids /\ {"cores", "igpu", "dram"} \subseteq Parts(box)
  BY ModulusAssumption, PartsFacts DEF Ids
<1>2. Powercap(box, d) \in Source
  <2>1. \A parts \in SUBSET Parts(box) : \A scope \in {"package", "cores", "gpu", "other"} :
        \A contained \in BOOLEAN :
          New("energy", scope, 0, contained, NoId, Modulus, parts) \in Source
    BY <1>1 DEF Source
  <2> QED
    BY <1>1, <2>1 DEF Domains
<1>3. IsSource(Powercap(box, d))
  BY DEF Domains, IsSource, Rapl
<1>4. ASSUME NEW e \in Domains, e # d PROVE Powercap(box, e).parts # Powercap(box, d).parts
  <2>1. \A x \in Domains :
          Powercap(box, x).parts = CASE x = "package" -> {"cores", "igpu"}
                                     [] x = "core"    -> {"cores"}
                                     [] x = "uncore"  -> {"igpu"}
                                     [] x = "psys"    -> Parts(box)
                                     [] x = "dram"    -> {"dram"}
    BY DEF Domains
  <2> QED
    BY <1>1, <1>4, <2>1 DEF Domains
<1> QED
  BY <1>2, <1>3, <1>4

LEMMA CardFacts ==
  ASSUME box \in Machines
  PROVE  /\ \A i \in DOMAIN box.drm :
              /\ DrmHwmon(box.drm[i]) \in Source /\ IsSource(DrmHwmon(box.drm[i]))
              /\ DrmHwmon(box.drm[i]).provider = 1
         /\ \A i \in DOMAIN box.nvml :
              /\ Nvml(box, box.nvml[i]) \in Source /\ IsSource(Nvml(box, box.nvml[i]))
              /\ Nvml(box, box.nvml[i]).provider = 2
<1>1. Cards(box) \subseteq Parts(box) /\ MachineOf(box)
  BY PartsFacts, MachineFacts
<1>0. /\ \A i \in DOMAIN box.drm : box.drm[i] \in [card : Cards(box), energy : BOOLEAN]
      /\ \A i \in DOMAIN box.nvml : box.nvml[i] \in [card : Cards(box), pci : BOOLEAN]
  BY ScansAre
<1>2. ASSUME NEW kind \in {"energy", "watts"}, NEW prov \in {1, 2}, NEW c \in Cards(box),
             NEW id \in {NoId, <<c, "lower">>, <<c, "upper">>}, prov = 1 => id # NoId
      PROVE  LET s == New(kind, "gpu", prov, FALSE, id, 0, {c})
             IN  s \in Source /\ CardOf(s, c) /\ s.provider = prov
  <2>1. id \in Ids /\ {c} \in SUBSET Parts(box)
    BY <1>1 DEF Ids
  <2> QED
    BY <1>2, <2>1 DEF New, Source, CardOf
<1>3. ASSUME NEW i \in DOMAIN box.drm
      PROVE  /\ DrmHwmon(box.drm[i]) \in Source /\ IsSource(DrmHwmon(box.drm[i]))
             /\ DrmHwmon(box.drm[i]).provider = 1
  <2> DEFINE c == box.drm[i]
  <2>1. c \in [card : Cards(box), energy : BOOLEAN]
    BY <1>0
  <2> HIDE DEF c
  <2>2. c.card \in Cards(box) /\ <<c.card, "lower">> # NoId
    BY <2>1 DEF NoId
  <2>3. DrmHwmon(c) \in Source /\ CardOf(DrmHwmon(c), c.card) /\ DrmHwmon(c).provider = 1
    BY <1>2, <2>2 DEF DrmHwmon
  <2> QED
    BY <2>2, <2>3 DEF IsSource, c
<1>4. ASSUME NEW i \in DOMAIN box.nvml
      PROVE  /\ Nvml(box, box.nvml[i]) \in Source /\ IsSource(Nvml(box, box.nvml[i]))
             /\ Nvml(box, box.nvml[i]).provider = 2
  <2> DEFINE c == box.nvml[i]
  <2>1. c \in [card : Cards(box), pci : BOOLEAN]
    BY <1>0
  <2> HIDE DEF c
  <2>2. c.card \in Cards(box)
    BY <2>1
  <2>3. Nvml(box, c) \in Source /\ CardOf(Nvml(box, c), c.card) /\ Nvml(box, c).provider = 2
    <3> DEFINE kind == IF box.nvmlEnergy THEN "energy" ELSE "watts"
               id   == IF c.pci THEN <<c.card, "upper">> ELSE NoId
    <3>1. kind \in {"energy", "watts"}
      OBVIOUS
    <3>2. id \in {NoId, <<c.card, "lower">>, <<c.card, "upper">>}
      OBVIOUS
    <3>3. Nvml(box, c) = New(kind, "gpu", 2, FALSE, id, 0, {c.card})
      BY DEF Nvml
    <3> HIDE DEF kind, id
    <3>5. /\ New(kind, "gpu", 2, FALSE, id, 0, {c.card}) \in Source
          /\ CardOf(New(kind, "gpu", 2, FALSE, id, 0, {c.card}), c.card)
          /\ New(kind, "gpu", 2, FALSE, id, 0, {c.card}).provider = 2
      <4>1. id \in Ids /\ {c.card} \in SUBSET Parts(box)
        BY <1>1, <2>2, <3>2 DEF Ids
      <4> QED
        BY <3>1, <3>2, <4>1 DEF New, Source, CardOf
    <3> QED
      BY <3>3, <3>5
  <2> QED
    BY <2>2, <2>3 DEF IsSource, c
<1> QED
  BY <1>3, <1>4

LEMMA ScanFacts ==
  ASSUME box \in Machines, NEW domains \in Readable(box)
  PROVE  LET all == Scan(box, domains)
         IN  /\ all \in Seq(Source) /\ \A i \in DOMAIN all : IsSource(all[i])
             /\ Apart(all)
<1> DEFINE A == [i \in DOMAIN domains |-> Powercap(box, domains[i])]
           B == [i \in DOMAIN box.drm |-> DrmHwmon(box.drm[i])]
           C == [i \in DOMAIN box.nvml |-> Nvml(box, box.nvml[i])]
           S == {s \in Source : IsSource(s)}
<1>1. /\ domains \in Seq(Domains) /\ \A i, j \in DOMAIN domains : i # j => domains[i] # domains[j]
      /\ MachineOf(box)
  BY ReadableFacts, MachineFacts
<1>2. PICK a \in Nat, b \in Nat, c \in Nat :
        DOMAIN domains = 1 .. a /\ DOMAIN box.drm = 1 .. b /\ DOMAIN box.nvml = 1 .. c
  <2>1. Len(domains) \in Nat /\ DOMAIN domains = 1 .. Len(domains)
    BY <1>1, LenProperties
  <2> QED
    BY <2>1, ScansAre
<1>3. \A i \in DOMAIN domains : domains[i] \in Domains
  BY <1>1, LenProperties, ElementOfSeq
<1>4. /\ A \in [1 .. a -> S]
      /\ \A i \in 1 .. a : \A j \in 1 .. a : i # j => A[i].parts # A[j].parts
  <2>1. \A i \in 1 .. a : A[i] = Powercap(box, domains[i]) /\ domains[i] \in Domains
    BY <1>2, <1>3
  <2>2. \A i \in 1 .. a : A[i] \in S
    BY <2>1, PowercapFacts
  <2>3. ASSUME NEW i \in 1 .. a, NEW j \in 1 .. a, i # j PROVE A[i].parts # A[j].parts
    <3>1. domains[i] # domains[j] /\ domains[i] \in Domains /\ domains[j] \in Domains
      BY <1>1, <1>2, <2>1, <2>3
    <3> QED
      BY <2>1, <3>1, PowercapFacts
  <2> QED
    BY <1>2, <2>2, <2>3
<1>5. B \in [1 .. b -> S] /\ \A i \in 1 .. b : B[i].provider = 1
  BY <1>2, CardFacts
<1>6. C \in [1 .. c -> S] /\ \A i \in 1 .. c : C[i].provider = 2
  BY <1>2, CardFacts
<1> HIDE DEF A, B, C, S
<1>7. A \in Seq(S) /\ B \in Seq(S) /\ C \in Seq(S) /\ Len(A) = a /\ Len(B) = b /\ Len(C) = c
  <2>1. A \in Seq(S) /\ B \in Seq(S) /\ C \in Seq(S)
    BY <1>4, <1>5, <1>6, SeqDef
  <2> QED
    BY <1>4, <1>5, <1>6, <2>1
<1>8. /\ A \o B \in Seq(S) /\ Len(A \o B) = a + b
      /\ \A i \in 1 .. a + b : (A \o B)[i] = IF i <= a THEN A[i] ELSE B[i - a]
  BY <1>7, ConcatProperties
<1> DEFINE D == A \o B
           all == D \o C
<1>10. Scan(box, domains) = all
  BY DEF Scan, A, B, C
<1>16. D \in Seq(S) /\ Len(D) = a + b /\ \A i \in 1 .. a + b : D[i] = IF i <= a THEN A[i] ELSE B[i - a]
  BY <1>8
<1> HIDE DEF D
<1>9. /\ all \in Seq(S) /\ Len(all) = (a + b) + c
      /\ \A i \in 1 .. (a + b) + c : all[i] = IF i <= a + b THEN D[i] ELSE C[i - (a + b)]
  <2>1. /\ D \o C \in Seq(S) /\ Len(D \o C) = Len(D) + Len(C)
        /\ \A i \in 1 .. Len(D) + Len(C) : (D \o C)[i] = IF i <= Len(D) THEN D[i] ELSE C[i - Len(D)]
    <3> D \in Seq(S) /\ C \in Seq(S)
      BY <1>7, <1>16
    <3> QED
      BY ConcatProperties
  <2> QED
    BY <1>7, <1>16, <2>1
<1> HIDE DEF all
<1>11. DOMAIN all = 1 .. (a + b) + c
  BY <1>9, LenProperties
<1>12. \A i \in 1 .. (a + b) + c : i > a => all[i].provider # 0
  <2> SUFFICES ASSUME NEW i \in 1 .. (a + b) + c, i > a PROVE all[i].provider # 0
    OBVIOUS
  <2>1. CASE i <= a + b
    <3>1. all[i] = D[i] /\ i \in 1 .. a + b /\ ~(i <= a)
      BY <1>9, <2>1
    <3>2. D[i] = B[i - a] /\ i - a \in 1 .. b
      BY <1>16, <3>1
    <3> QED
      BY <1>5, <3>1, <3>2
  <2>2. CASE ~(i <= a + b)
    <3>1. all[i] = C[i - (a + b)] /\ i - (a + b) \in 1 .. c
      BY <1>9, <2>2
    <3> QED
      BY <1>6, <3>1
  <2> QED
    BY <2>1, <2>2
<1>13. \A i \in 1 .. a : all[i] = A[i] /\ i \in 1 .. (a + b) + c
  BY <1>9, <1>16
<1>14. Apart(all)
  <2> SUFFICES ASSUME NEW i \in 1 .. (a + b) + c, NEW j \in 1 .. (a + b) + c, i # j,
                      all[i].provider = 0, all[j].provider = 0
               PROVE  all[i].parts # all[j].parts
    BY <1>11 DEF Apart
  <2>1. i \in 1 .. a /\ j \in 1 .. a
    BY <1>12
  <2> QED
    BY <1>4, <1>13, <2>1
<1>15. all \in Seq(Source) /\ \A i \in DOMAIN all : all[i] \in S
  BY <1>9, <1>11, SeqMonotonic, ElementOfSeq DEF S
<1> QED
  BY <1>10, <1>14, <1>15 DEF S

-----------------------------------------------------------------------------
(* What a step leaves of them. *)

\* Two readings of one source.
SameSource(s, t) ==
  /\ t.kind = s.kind /\ t.scope = s.scope /\ t.provider = s.provider /\ t.contained = s.contained
  /\ t.id = s.id /\ t.wrap = s.wrap /\ t.parts = s.parts

\* The step leaves what the sources are.
Kept ==
  /\ box' = box /\ job' = job
  /\ src' = [i \in DOMAIN src |-> src'[i]]
  /\ \A i \in DOMAIN src : src'[i] \in Source /\ SameSource(src[i], src'[i])

LEMMA SourcesAre ==
  ASSUME Sources
  PROVE  /\ DOMAIN src = 1 .. Len(src) /\ Len(src) \in Nat
         /\ \A i \in DOMAIN src : src[i] \in Source /\ IsSource(src[i]) /\ i \in Nat
<1>1. src \in Seq(Source) /\ Scanned
  BY DEF Sources
<1>2. DOMAIN src = 1 .. Len(src) /\ Len(src) \in Nat
  BY <1>1, LenProperties
<1>3. \A i \in DOMAIN src : src[i] \in Source
  BY <1>1, <1>2, ElementOfSeq
<1> QED
  BY <1>1, <1>2, <1>3 DEF Scanned

LEMMA SourcesKept ==
  ASSUME Sources, Kept
  PROVE  Sources' /\ DOMAIN src' = DOMAIN src
<1>1. DOMAIN src' = 1 .. Len(src) /\ Len(src) \in Nat /\ DOMAIN src = 1 .. Len(src)
  BY SourcesAre DEF Kept
<1>2. Source' = Source
  BY DEF Kept, Source, Ids, Parts, Cards
<1>3. src' \in [1 .. Len(src) -> Source]
  BY <1>1 DEF Kept
<1>4. src' \in Seq(Source) /\ Len(src') = Len(src)
  <2>1. src' \in Seq(Source)
    BY <1>1, <1>3, SeqDef
  <2> QED
    BY <1>1, <2>1, LenProperties
<1>5. Scanned'
  <2> SUFFICES ASSUME NEW i \in DOMAIN src PROVE IsSource(src[i])'
    BY <1>1 DEF Scanned
  <2>1. IsSource(src[i]) /\ SameSource(src[i], src'[i]) /\ Parts(box)' = Parts(box)
        /\ Cards(box)' = Cards(box)
    BY SourcesAre DEF Kept, Parts, Cards
  <2>2. \A scope, contained, parts :
          Rapl(src[i], scope, contained, parts) => Rapl(src'[i], scope, contained, parts)
    BY <2>1 DEF Rapl, SameSource
  <2>3. \A c : CardOf(src[i], c) => CardOf(src'[i], c)
    BY <2>1 DEF CardOf, SameSource
  <2> QED
    BY <2>1, <2>2, <2>3 DEF IsSource
<1>6. Apart(src)'
  BY <1>1 DEF Sources, Apart, Kept, SameSource
<1> QED
  BY <1>1, <1>2, <1>4, <1>5, <1>6 DEF Sources

LEMMA JobIs ==
  ASSUME job \in Jobs
  PROVE  /\ job.device \in BOOLEAN /\ job.cpu \in BOOLEAN
         /\ \A c \in job.cards : c[2] # NoId => c[2][1] = c[1]
  BY JobsAssumption

\* Whether a source counts, by its scope.
LEMMA CountedIs ==
  ASSUME Sources, job \in Jobs, NEW i \in DOMAIN src
  PROVE  /\ src[i].scope \in {"package", "cores"} => (IsCounted(i) <=> job.cpu)
         /\ src[i].scope = "gpu" =>
              (IsCounted(i) <=> /\ src[i].id # NoId => Used(i)
                                /\ src[i].id = NoId => job.cards # {} /\ Unmatched
                                /\ ~(src[i].contained /\ job.cpu))
         /\ src[i].scope = "other" => (IsCounted(i) <=> job.cpu /\ ~src[i].contained)
         /\ IsCounted(i) \in BOOLEAN
<1>1. src[i].scope \in {"package", "cores", "gpu", "other"} /\ job.cpu \in BOOLEAN
      /\ src[i].contained \in BOOLEAN
  BY SourcesAre, JobIs DEF Source
<1>2. CASE src[i].scope \in {"package", "cores"}
  <2>1. IsCounted(i) = job.cpu
    BY <1>2 DEF IsCounted
  <2> QED
    BY <1>1, <1>2, <2>1
<1>3. CASE src[i].scope = "gpu"
  <2>1. IsCounted(i) = (/\ IF src[i].id # NoId THEN Used(i) ELSE job.cards # {} /\ Unmatched
                        /\ ~(src[i].contained /\ job.cpu))
    BY <1>3 DEF IsCounted
  <2> QED
    BY <1>1, <1>3, <2>1, Zenon
<1>4. CASE src[i].scope = "other"
  <2>1. IsCounted(i) = (job.cpu /\ ~src[i].contained)
    BY <1>4 DEF IsCounted
  <2> QED
    BY <1>1, <1>4, <2>1
<1> QED
  BY <1>1, <1>2, <1>3, <1>4

LEMMA CountedKept ==
  ASSUME Sources, Kept, job \in Jobs, NEW i \in DOMAIN src
  PROVE  IsCounted(i)' <=> IsCounted(i)
<1>1. Sources' /\ DOMAIN src' = DOMAIN src /\ job' \in Jobs
  BY SourcesKept DEF Kept
<1>2. \A j \in DOMAIN src : src'[j].scope = src[j].scope /\ src'[j].id = src[j].id
                           /\ src'[j].contained = src[j].contained
  BY DEF Kept, SameSource
<1>3. (Used(i)' <=> Used(i)) /\ (Unmatched' <=> Unmatched) /\ job' = job
  BY <1>1, <1>2 DEF Used, Unmatched, Kept
<1>4. src[i].scope \in {"package", "cores", "gpu", "other"}
  BY SourcesAre DEF Source
<1>5. CASE src[i].scope \in {"package", "cores"}
  <2>1. IsCounted(i) = job.cpu /\ IsCounted(i)' = job.cpu
    BY <1>2, <1>3, <1>5 DEF IsCounted
  <2> QED
    BY <2>1
<1>6. CASE src[i].scope = "gpu"
  <2>1. IsCounted(i) = (/\ IF src[i].id # NoId THEN Used(i) ELSE job.cards # {} /\ Unmatched
                        /\ ~(src[i].contained /\ job.cpu))
    BY <1>6 DEF IsCounted
  <2>2. IsCounted(i)' = (/\ IF src[i].id # NoId THEN Used(i)' ELSE job.cards # {} /\ Unmatched'
                         /\ ~(src[i].contained /\ job.cpu))
    BY <1>2, <1>3, <1>6 DEF IsCounted
  <2> QED
    BY <1>3, <2>1, <2>2, Zenon
<1>7. CASE src[i].scope = "other"
  <2>1. IsCounted(i) = (job.cpu /\ ~src[i].contained) /\ IsCounted(i)' = (job.cpu /\ ~src[i].contained)
    BY <1>2, <1>3, <1>7 DEF IsCounted
  <2> QED
    BY <2>1
<1> QED
  BY <1>4, <1>5, <1>6, <1>7

-----------------------------------------------------------------------------
(* The invariant. *)

Typed ==
  /\ at \in {"start", "opened", "attributed", "timed", "closing", "closed"}
  /\ box \in Machines /\ job \in Jobs
  /\ samples \in Nat /\ rc \in {0, 1}
  /\ open \subseteq DOMAIN src /\ (at = "closed" => open = {})

JobCards == {c[1] : c \in job.cards} \subseteq {"igpu"} \cup Cards(box)

Clocks ==
  /\ clocks \in [n : Nat, lo : Nat, hi : Nat, first : Nat, last : Nat]
  /\ clocks.lo <= clocks.first /\ clocks.first <= clocks.hi
  /\ clocks.lo <= clocks.last /\ clocks.last <= clocks.hi

\* What the sources show, and what they showed at the beginning.
Readings ==
  /\ DOMAIN raw = DOMAIN src
  /\ \A i \in DOMAIN src :
       /\ raw[i] \in Nat
       /\ src[i].wrap > 0 => raw[i] < src[i].wrap /\ (at = "timed" => src[i].start < src[i].wrap)

InUse ==
  /\ use \subseteq {i \in DOMAIN src : IsNvml(src[i]) /\ Selected(i)}
  /\ at = "start" => use = {}

Attributed ==
  (at \in {"attributed", "timed"} \/ rc = 0) =>
    \A i \in DOMAIN src : src[i].counted <=> IsCounted(i)

Drawn ==
  /\ spent \in [Parts(box) -> Nat]
  /\ at \in {"start", "opened", "attributed"} => reset = {} /\ \A p \in Parts(box) : spent[p] = 0

\* A counter has counted its parts, but for whole turns of a known range; one of
\* unknown range that started anew shows no more than they drew.
Counts(i) ==
  LET s == src[i]
      e == Sum(spent, s.parts)
  IN  IF s.wrap > 0 THEN \E k \in Nat : s.start + e = s.wrap * k + raw[i]
      ELSE IF s.parts \cap reset = {} THEN raw[i] = s.start + e
      ELSE raw[i] <= e

Counting == at = "timed" => \A i \in DOMAIN src : src[i].kind = "energy" => Counts(i)

Honest(i) ==
  LET s == src[i]
      e == Sum(spent, s.parts)
  IN  s.valid /\ s.kind = "energy" =>
        /\ s.joules <= e
        /\ (s.wrap > e \/ (s.wrap = 0 /\ s.parts \cap reset = {})) => s.joules = e

Told == rc = 0 => at \in {"closing", "closed"} /\ \A i \in DOMAIN src : Honest(i)

IInv ==
  /\ Typed /\ JobCards /\ Clocks /\ Sources /\ Readings /\ InUse
  /\ Attributed /\ Drawn /\ Counting /\ Told

-----------------------------------------------------------------------------
(* The clocks. *)

LEMMA MaxOf2 ==
  ASSUME NEW S, S \subseteq 0 .. 2, S # {}
  PROVE  Max(S) \in 0 .. 2
<1>1. \E x \in S : \A y \in S : x >= y
  <2>1. CASE 2 \in S
    BY <2>1
  <2>2. CASE 2 \notin S /\ 1 \in S
    BY <2>2
  <2>3. CASE 2 \notin S /\ 1 \notin S
    <3>1. PICK x \in S : TRUE
      OBVIOUS
    <3>2. \A y \in S : y = 0
      BY <2>3
    <3>3. x = 0 /\ \A y \in S : x >= y
      BY <3>2
    <3> QED
      BY <3>3
  <2> QED
    BY <2>1, <2>2, <2>3
<1>2. Max(S) \in S
  BY <1>1 DEF Max
<1> QED
  BY <1>2

LEMMA MinMaxPair ==
  ASSUME NEW a \in Nat, NEW b \in Nat
  PROVE  /\ Min({a, b}) = IF a <= b THEN a ELSE b
         /\ Max({a, b}) = IF a <= b THEN b ELSE a
<1>1. PICK x \in {a, b} : x = Min({a, b}) /\ \A y \in {a, b} : x <= y
  <2>1. \E x \in {a, b} : \A y \in {a, b} : x <= y
    OBVIOUS
  <2> QED
    BY <2>1 DEF Min
<1>2. PICK z \in {a, b} : z = Max({a, b}) /\ \A y \in {a, b} : z >= y
  <2>1. \E z \in {a, b} : \A y \in {a, b} : z >= y
    <3>1. CASE a <= b
      BY <3>1
    <3>2. CASE ~(a <= b)
      BY <3>2
    <3> QED
      BY <3>1, <3>2
  <2> QED
    BY <2>1 DEF Max
<1> QED
  BY <1>1, <1>2

LEMMA SampleClocks ==
  ASSUME IInv, Sample
  PROVE  Clocks'
<1>1. PICK mhz \in [use -> 0 .. 2] :
        LET hi == IF use = {} THEN 0 ELSE Max(Range(mhz))
        IN  clocks' = IF hi = 0 THEN clocks
                      ELSE IF clocks.n = 0
                        THEN [n |-> 1, lo |-> hi, hi |-> hi, first |-> hi, last |-> hi]
                        ELSE [clocks EXCEPT !.n = @ + 1, !.last = hi,
                                !.lo = Min({@, hi}), !.hi = Max({@, hi})]
  BY DEF Sample
<1> DEFINE hi == IF use = {} THEN 0 ELSE Max(Range(mhz))
<1>2. hi \in Nat
  <2>1. CASE use # {}
    <3>1. Range(mhz) \subseteq 0 .. 2 /\ Range(mhz) # {}
      BY <2>1 DEF Range
    <3> QED
      BY <3>1, MaxOf2
  <2> QED
    BY <2>1
<1>3. /\ clocks \in [n : Nat, lo : Nat, hi : Nat, first : Nat, last : Nat]
      /\ clocks.lo <= clocks.first /\ clocks.first <= clocks.hi
      /\ clocks.lo <= clocks.last /\ clocks.last <= clocks.hi
  BY DEF IInv, Clocks
<1>4. clocks' = IF hi = 0 THEN clocks
                ELSE IF clocks.n = 0
                  THEN [n |-> 1, lo |-> hi, hi |-> hi, first |-> hi, last |-> hi]
                  ELSE [clocks EXCEPT !.n = @ + 1, !.last = hi,
                          !.lo = Min({@, hi}), !.hi = Max({@, hi})]
  BY <1>1
<1> HIDE DEF hi
<1>5. /\ Min({clocks.lo, hi}) = IF clocks.lo <= hi THEN clocks.lo ELSE hi
      /\ Max({clocks.hi, hi}) = IF clocks.hi <= hi THEN hi ELSE clocks.hi
  BY <1>2, <1>3, MinMaxPair
<1>6. CASE hi = 0
  BY <1>3, <1>4, <1>6 DEF Clocks
<1>7. CASE hi # 0 /\ clocks.n = 0
  BY <1>2, <1>4, <1>7 DEF Clocks
<1>8. CASE hi # 0 /\ clocks.n # 0
  <2> DEFINE lo == Min({clocks.lo, hi})
             up == Max({clocks.hi, hi})
  <2>1. clocks' = [n |-> clocks.n + 1, lo |-> lo, hi |-> up, first |-> clocks.first, last |-> hi]
    BY <1>3, <1>4, <1>8
  <2>2. /\ lo \in Nat /\ lo <= clocks.lo /\ lo <= hi
        /\ up \in Nat /\ clocks.hi <= up /\ hi <= up
    BY <1>2, <1>3, <1>5
  <2> HIDE DEF lo, up
  <2>3. clocks.n + 1 \in Nat /\ lo <= clocks.first /\ clocks.first <= up
    BY <1>3, <2>2
  <2> QED
    BY <1>2, <1>3, <2>1, <2>2, <2>3 DEF Clocks
<1> QED
  BY <1>6, <1>7, <1>8

-----------------------------------------------------------------------------
(* The steps that change what the sources say. *)

LEMMA BetweenIs ==
  ASSUME NEW s \in Source, NEW now \in Nat, samples \in Nat,
         s.wrap > 0 => s.start < s.wrap
  PROVE  Between(s, now) \in Nat \cup {-1}
<1>1. s.start \in Nat /\ s.wrap \in Nat
  BY DEF Source
<1>2. CASE s.kind = "watts"
  <2> DEFINE x == (s.start + now) * samples
  <2>1. x \in Nat
    BY <1>1
  <2>2. Between(s, now) = x \div 2
    BY <1>2 DEF Between
  <2> HIDE DEF x
  <2> QED
    BY <2>1, <2>2
<1>3. CASE s.kind # "watts"
  BY <1>1, <1>3 DEF Between
<1> QED
  BY <1>2, <1>3

\* vb_power_end only writes the energy of a source and whether it is valid.
LEMMA CloseIs ==
  ASSUME NEW s \in Source, NEW now \in Nat, NEW fails \in BOOLEAN, samples \in Nat,
         s.wrap > 0 => s.start < s.wrap
  PROVE  /\ Close(s, now, fails) \in Source /\ SameSource(s, Close(s, now, fails))
         /\ Close(s, now, fails).start = s.start /\ Close(s, now, fails).counted = s.counted
         /\ Close(s, now, fails).valid =>
              s.valid /\ Between(s, now) # -1 /\ Close(s, now, fails).joules = Between(s, now)
<1>1. Between(s, now) \in Nat \cup {-1}
  BY BetweenIs
<1> DEFINE b == Between(s, now)
<1>2. b \in Nat \cup {-1} /\ s.valid \in BOOLEAN
  BY <1>1 DEF Source
<1>3. Close(s, now, fails) = IF ~s.valid \/ fails THEN [s EXCEPT !.valid = FALSE]
                             ELSE IF b = -1 THEN [s EXCEPT !.valid = FALSE, !.joules = 0]
                             ELSE [s EXCEPT !.joules = b]
  BY DEF Close
<1> HIDE DEF b
<1>4. CASE ~s.valid \/ fails
  <2>1. Close(s, now, fails) = [s EXCEPT !.valid = FALSE]
    BY <1>3, <1>4
  <2>2. Close(s, now, fails) \in Source
    <3>1. Close(s, now, fails) =
            [kind |-> s.kind, scope |-> s.scope, provider |-> s.provider,
             contained |-> s.contained, id |-> s.id, wrap |-> s.wrap, parts |-> s.parts,
             start |-> s.start, joules |-> s.joules, valid |-> FALSE, counted |-> s.counted]
      BY <2>1 DEF Source
    <3> QED
      BY <3>1 DEF Source
  <2>4. SameSource(s, Close(s, now, fails))
    BY <2>1 DEF Source, SameSource
  <2>3. /\ Close(s, now, fails).start = s.start /\ Close(s, now, fails).counted = s.counted
        /\ Close(s, now, fails).valid = FALSE
    BY <2>1 DEF Source
  <2> QED
    BY <2>2, <2>3, <2>4
<1>5. CASE s.valid /\ ~fails /\ b = -1
  <2>1. Close(s, now, fails) = [s EXCEPT !.valid = FALSE, !.joules = 0]
    BY <1>3, <1>5
  <2>2. Close(s, now, fails) \in Source
    <3>1. Close(s, now, fails) =
            [kind |-> s.kind, scope |-> s.scope, provider |-> s.provider,
             contained |-> s.contained, id |-> s.id, wrap |-> s.wrap, parts |-> s.parts,
             start |-> s.start, joules |-> 0, valid |-> FALSE, counted |-> s.counted]
      BY <2>1 DEF Source
    <3> QED
      BY <3>1 DEF Source
  <2>4. SameSource(s, Close(s, now, fails))
    BY <2>1 DEF Source, SameSource
  <2>3. /\ Close(s, now, fails).start = s.start /\ Close(s, now, fails).counted = s.counted
        /\ Close(s, now, fails).valid = FALSE
    BY <2>1 DEF Source
  <2> QED
    BY <2>2, <2>3, <2>4
<1>6. CASE s.valid /\ ~fails /\ b # -1
  <2>1. Close(s, now, fails) = [s EXCEPT !.joules = b] /\ b \in Nat
    BY <1>2, <1>3, <1>6
  <2>2. Close(s, now, fails) \in Source
    BY <2>1 DEF Source
  <2>4. SameSource(s, Close(s, now, fails))
    BY <2>1 DEF Source, SameSource
  <2>3. /\ Close(s, now, fails).start = s.start /\ Close(s, now, fails).counted = s.counted
        /\ Close(s, now, fails).joules = b
    BY <2>1 DEF Source
  <2> QED
    BY <1>6, <2>2, <2>3, <2>4 DEF b
<1> QED
  BY <1>2, <1>4, <1>5, <1>6

\* Every source after vb_power_end is what Close makes of one before it.
LEMMA EndKeeps ==
  ASSUME IInv, at = "timed", End, box' = box, job' = job
  PROVE  /\ Kept
         /\ \A i \in DOMAIN src :
              /\ src'[i].start = src[i].start /\ src'[i].counted = src[i].counted
              /\ src'[i].valid => Between(src[i], raw[i]) # -1 /\ src'[i].joules = Between(src[i], raw[i])
<1>1. PICK failing \in SUBSET DOMAIN src :
        src' = [i \in DOMAIN src |-> Close(src[i], raw[i], i \in failing)]
  BY DEF End
<1>2. ASSUME NEW i \in DOMAIN src
      PROVE  /\ src'[i] \in Source /\ SameSource(src[i], src'[i])
             /\ src'[i].start = src[i].start /\ src'[i].counted = src[i].counted
             /\ src'[i].valid => Between(src[i], raw[i]) # -1 /\ src'[i].joules = Between(src[i], raw[i])
  <2>1. src[i] \in Source
    BY SourcesAre DEF IInv
  <2>2. raw[i] \in Nat /\ samples \in Nat /\ (src[i].wrap > 0 => src[i].start < src[i].wrap)
    BY DEF IInv, Readings, Typed
  <2>3. PICK fails \in BOOLEAN : src'[i] = Close(src[i], raw[i], fails)
    <3>1. CASE i \in failing
      <4>1. src'[i] = Close(src[i], raw[i], TRUE)
        BY <1>1, <3>1 DEF Close
      <4> QED
        BY <4>1
    <3>2. CASE i \notin failing
      <4>1. src'[i] = Close(src[i], raw[i], FALSE)
        BY <1>1, <3>2 DEF Close
      <4> QED
        BY <4>1
    <3> QED
      BY <3>1, <3>2
  <2> QED
    BY <2>1, <2>2, <2>3, CloseIs
<1>3. src' = [i \in DOMAIN src |-> src'[i]]
  BY <1>1
<1> QED
  BY <1>2, <1>3 DEF Kept

LEMMA BeginKeeps ==
  ASSUME IInv, Begin
  PROVE  /\ Kept
         /\ \A i \in DOMAIN src : src'[i].start = raw[i] /\ src'[i].counted = src[i].counted
<1>1. PICK failing \in SUBSET DOMAIN src :
        src' = [i \in DOMAIN src |->
                  [src[i] EXCEPT !.valid = i \notin failing, !.start = raw[i], !.joules = 0]]
  BY DEF Begin
<1>2. ASSUME NEW i \in DOMAIN src
      PROVE  /\ src'[i] \in Source /\ SameSource(src[i], src'[i])
             /\ src'[i].start = raw[i] /\ src'[i].counted = src[i].counted
  <2>1. src[i] \in Source /\ raw[i] \in Nat
    BY SourcesAre DEF IInv, Readings
  <2>2. PICK v \in BOOLEAN :
          src'[i] = [src[i] EXCEPT !.valid = v, !.start = raw[i], !.joules = 0]
    BY <1>1
  <2>3. src'[i] \in Source
    <3> DEFINE s == src[i]
    <3>1. src'[i] =
            [kind |-> s.kind, scope |-> s.scope, provider |-> s.provider,
             contained |-> s.contained, id |-> s.id, wrap |-> s.wrap, parts |-> s.parts,
             start |-> raw[i], joules |-> 0, valid |-> v, counted |-> s.counted]
      BY <2>1, <2>2 DEF Source
    <3>2. s \in Source /\ 0 \in Nat
      BY <2>1
    <3> HIDE DEF s
    <3> QED
      BY <2>1, <3>1, <3>2 DEF Source
  <2>5. SameSource(src[i], src'[i])
    BY <2>1, <2>2 DEF Source, SameSource
  <2>4. src'[i].start = raw[i] /\ src'[i].counted = src[i].counted
    BY <2>1, <2>2 DEF Source
  <2> QED
    BY <2>3, <2>4, <2>5
<1>3. src' = [i \in DOMAIN src |-> src'[i]] /\ box' = box /\ job' = job
  BY <1>1 DEF Begin
<1> QED
  BY <1>2, <1>3 DEF Kept

LEMMA AttributeKeeps ==
  ASSUME IInv, Attribute
  PROVE  /\ Kept
         /\ \A i \in DOMAIN src : src'[i].start = src[i].start /\ (src'[i].counted <=> IsCounted(i))
<1>1. src' = [i \in DOMAIN src |-> [src[i] EXCEPT !.counted = IsCounted(i)]]
  BY DEF Attribute
<1>2. ASSUME NEW i \in DOMAIN src
      PROVE  /\ src'[i] \in Source /\ SameSource(src[i], src'[i])
             /\ src'[i].start = src[i].start /\ (src'[i].counted <=> IsCounted(i))
  <2>1. src[i] \in Source /\ IsCounted(i) \in BOOLEAN
    BY SourcesAre, CountedIs DEF IInv, Typed
  <2>2. PICK v \in BOOLEAN : src'[i] = [src[i] EXCEPT !.counted = v] /\ v = IsCounted(i)
    BY <1>1, <2>1
  <2> QED
    BY <2>1, <2>2 DEF Source, SameSource
<1>3. src' = [i \in DOMAIN src |-> src'[i]] /\ box' = box /\ job' = job
  BY <1>1 DEF Attribute
<1> QED
  BY <1>2, <1>3 DEF Kept

LEMMA SameKeeps ==
  ASSUME IInv, UNCHANGED <<box, job, src>>
  PROVE  Kept
<1>1. src \in [1 .. Len(src) -> Source]
  BY LenProperties DEF IInv, Sources
<1> QED
  BY <1>1 DEF Kept, SameSource

-----------------------------------------------------------------------------
(* Every step keeps the invariant. *)

LEMMA StepKeeps ==
  ASSUME IInv, [Next]_vars, ~Open
  PROVE  Kept
<1>1. CASE UNCHANGED <<box, job, src>>
  BY <1>1, SameKeeps
<1>2. CASE Attribute
  BY <1>2, AttributeKeeps
<1>3. CASE Begin
  BY <1>3, BeginKeeps
<1>4. CASE Finish
  BY <1>4, EndKeeps DEF Finish
<1>5. CASE SampleFails
  <2>1. at = "timed" /\ (src' = src \/ End) /\ box' = box /\ job' = job
    BY <1>5 DEF SampleFails
  <2> QED
    BY <1>1, <2>1, EndKeeps
<1>6. CASE Broken \/ Sample \/ CloseAll \/ UNCHANGED vars
  BY <1>1, <1>6 DEF Broken, Sample, CloseAll, vars
<1>7. CASE \E p \in Parts(box) : Draw(p)
  BY <1>1, <1>7 DEF Draw
<1>8. CASE \E c \in Cards(box) : ResetCard(c)
  BY <1>1, <1>8 DEF ResetCard
<1> QED
  BY <1>2, <1>3, <1>4, <1>5, <1>6, <1>7, <1>8 DEF Next

LEMMA OpenFacts ==
  ASSUME IInv, Open
  PROVE  Sources' /\ Readings' /\ open' = DOMAIN src' /\ box' = box /\ job' = job
<1>1. PICK domains \in Readable(box), up \in 0 .. Modulus - 1 :
        /\ src' = SubSeq(Scan(box, domains), 1,
                         IF Len(Scan(box, domains)) < MaxSrc THEN Len(Scan(box, domains)) ELSE MaxSrc)
        /\ raw' = [i \in DOMAIN src' |-> IF src'[i].kind = "energy" THEN up ELSE 1]
  BY DEF Open
<1> DEFINE all == Scan(box, domains)
           n   == IF Len(all) < MaxSrc THEN Len(all) ELSE MaxSrc
<1>2. box \in Machines /\ box' = box /\ job' = job /\ open' = DOMAIN src' /\ at' = "opened"
  BY DEF IInv, Typed, Open
<1>3. all \in Seq(Source) /\ (\A i \in DOMAIN all : IsSource(all[i])) /\ Apart(all)
  BY <1>2, ScanFacts
<1>4. src' = SubSeq(all, 1, n)
  BY <1>1
<1> HIDE DEF all
<1>5. Len(all) \in Nat /\ DOMAIN all = 1 .. Len(all) /\ MaxSrc \in Nat
  BY <1>3, LenProperties, BoundAssumption
<1>6. n \in Nat /\ n <= Len(all) /\ n <= MaxSrc
  BY <1>5
<1> HIDE DEF n
<1>7. src' \in [1 .. n -> Source] /\ \A i \in 1 .. n : src'[i] = all[i] /\ i \in DOMAIN all
  <2>1. src' = [i \in 1 .. n |-> all[i]]
    BY <1>3, <1>4, <1>5, <1>6, SubSeqProperties
  <2>2. \A i \in 1 .. n : i \in DOMAIN all
    BY <1>5, <1>6
  <2>3. \A i \in 1 .. n : all[i] \in Source
    BY <1>3, <1>5, <2>2, ElementOfSeq
  <2> QED
    BY <2>1, <2>2, <2>3
<1>8. src' \in Seq(Source) /\ Len(src') = n /\ DOMAIN src' = 1 .. n
  <2>1. src' \in Seq(Source)
    BY <1>6, <1>7, SeqDef
  <2> QED
    BY <1>6, <1>7, <2>1, LenProperties
<1>10. Source' = Source
  BY <1>2 DEF Source, Ids, Parts, Cards
<1>11. Sources'
  <2>1. Scanned'
    <3> SUFFICES ASSUME NEW i \in 1 .. n PROVE IsSource(src[i])'
      BY <1>8 DEF Scanned
    <3>1. IsSource(src'[i]) /\ Parts(box)' = Parts(box) /\ Cards(box)' = Cards(box)
      BY <1>2, <1>3, <1>7 DEF Parts, Cards
    <3> QED
      BY <3>1 DEF IsSource, Rapl, CardOf
  <2>2. Apart(src)'
    BY <1>3, <1>7, <1>8 DEF Apart
  <2> QED
    BY <1>6, <1>8, <1>10, <2>1, <2>2 DEF Sources
<1>12. Readings'
  <2>1. DOMAIN raw' = DOMAIN src' /\ at' # "timed"
    BY <1>1, <1>2
  <2>2. ASSUME NEW i \in DOMAIN src'
        PROVE  raw'[i] \in Nat /\ (src'[i].wrap > 0 => raw'[i] < src'[i].wrap)
    <3>1. raw'[i] = IF src'[i].kind = "energy" THEN up ELSE 1
      BY <1>1
    <3>2. up \in Nat /\ up < Modulus
      BY ModulusAssumption
    <3>3. src'[i] = all[i] /\ i \in DOMAIN all
      BY <1>7, <1>8
    <3>4. IsSource(src'[i])
      BY <1>3, <3>3
    <3>5. src'[i].wrap = 0 \/ (src'[i].wrap = Modulus /\ src'[i].kind = "energy")
      BY <3>4 DEF IsSource, Rapl, CardOf
    <3> QED
      BY <3>1, <3>2, <3>5
  <2> QED
    BY <2>1, <2>2 DEF Readings
<1> QED
  BY <1>2, <1>11, <1>12

LEMMA StepTyped ==
  ASSUME IInv, [Next]_vars
  PROVE  Typed' /\ JobCards' /\ Clocks'
<1>0. box' = box /\ job' = job /\ Typed /\ JobCards /\ Clocks
  BY StepKeeps, OpenFacts DEF Kept, IInv
<1>1. JobCards'
  BY <1>0 DEF JobCards, Cards
<1>2. Clocks'
  <2>1. CASE Sample
    BY <2>1, SampleClocks
  <2>2. CASE clocks' = clocks
    BY <1>0, <2>2 DEF Clocks
  <2>3. [Next]_vars /\ ~Sample => clocks' = clocks
    BY DEF Next, vars, Open, Broken, Attribute, Begin, Finish, SampleFails, CloseAll, Draw, ResetCard
  <2> QED
    BY <2>1, <2>2, <2>3
<1>3. Typed'
  <2>1. CASE Open
    <3>1. open' = DOMAIN src' /\ at' = "opened" /\ UNCHANGED <<samples, rc>>
      BY <2>1, OpenFacts DEF Open
    <3> QED
      BY <1>0, <3>1 DEF Typed
  <2>2. CASE ~Open
    <3>1. DOMAIN src' = DOMAIN src
      BY <2>2, StepKeeps DEF Kept
    <3>2. CASE CloseAll
      BY <1>0, <3>1, <3>2 DEF CloseAll, Typed
    <3>3. CASE Sample
      BY <1>0, <3>1, <3>3 DEF Sample, Typed
    <3>4. CASE UNCHANGED <<samples, open>> /\ rc' \in {0, rc}
               /\ (at' = at \/ at' \in {"attributed", "timed", "closing"})
      BY <1>0, <3>1, <3>4 DEF Typed
    <3> QED
      BY <2>2, <3>2, <3>3, <3>4
         DEF Next, vars, Broken, Attribute, Begin, Finish, SampleFails, Draw, ResetCard
  <2> QED
    BY <2>1, <2>2
<1> QED
  BY <1>1, <1>2, <1>3

LEMMA StepSources ==
  ASSUME IInv, [Next]_vars
  PROVE  Sources'
<1>1. CASE Open
  BY <1>1, OpenFacts
<1>2. CASE ~Open
  BY <1>2, StepKeeps, SourcesKept DEF IInv
<1> QED
  BY <1>1, <1>2

\* What a counter of a known range shows is below it.
LEMMA StepReadings ==
  ASSUME IInv, [Next]_vars
  PROVE  Readings'
<1>1. CASE Open
  BY <1>1, OpenFacts
<1>2. ASSUME ~Open
      PROVE  /\ DOMAIN src' = DOMAIN src
             /\ \A i \in DOMAIN src : /\ src'[i].wrap = src[i].wrap /\ src[i].wrap \in Nat
                                      /\ raw[i] \in Nat
                                      /\ src[i].wrap > 0 => raw[i] < src[i].wrap
  BY <1>2, StepKeeps, SourcesAre DEF Kept, SameSource, IInv, Readings, Source
<1>3. DOMAIN raw = DOMAIN src /\ \A i \in DOMAIN src : src[i].wrap > 0 /\ at = "timed" => src[i].start < src[i].wrap
  BY DEF IInv, Readings
<1>4. CASE Begin
  <2>1. ~Open /\ raw' = raw
    BY <1>4 DEF Open, Begin
  <2>2. \A i \in DOMAIN src : src'[i].start = raw[i]
    BY <1>4, BeginKeeps
  <2> QED
    BY <1>2, <1>3, <2>1, <2>2 DEF Readings
<1>5. CASE Attribute \/ Broken \/ Finish \/ SampleFails \/ CloseAll
  <2>1. ~Open /\ raw' = raw /\ at' # "timed"
    BY <1>5 DEF Open, Attribute, Broken, Finish, SampleFails, CloseAll
  <2> QED
    BY <1>2, <1>3, <2>1 DEF Readings
<1>6. CASE Sample \/ UNCHANGED vars
  <2>1. raw' = raw /\ at' = at /\ src' = src
    BY <1>6 DEF Sample, vars
  <2> QED
    BY <2>1 DEF Readings, IInv
<1>7. ASSUME NEW p \in Parts(box), Draw(p) PROVE Readings'
  <2>1. /\ ~Open /\ at' = at /\ src' = src
        /\ raw' = [i \in DOMAIN src |->
                     IF p \notin src[i].parts \/ src[i].kind = "watts" THEN raw[i]
                     ELSE IF src[i].wrap > 0 THEN (raw[i] + 1) % src[i].wrap ELSE raw[i] + 1]
    BY <1>7 DEF Draw, Open
  <2>2. ASSUME NEW i \in DOMAIN src
        PROVE  raw'[i] \in Nat /\ (src[i].wrap > 0 => raw'[i] < src[i].wrap)
    <3>1. raw[i] \in Nat /\ src[i].wrap \in Nat /\ (src[i].wrap > 0 => raw[i] < src[i].wrap)
      BY <1>2, <2>1
    <3>2. raw'[i] \in {raw[i], raw[i] + 1, (raw[i] + 1) % src[i].wrap}
          /\ (src[i].wrap > 0 => raw'[i] \in {raw[i], (raw[i] + 1) % src[i].wrap})
          /\ (src[i].wrap = 0 => raw'[i] \in {raw[i], raw[i] + 1})
      BY <2>1, <3>1
    <3>3. src[i].wrap > 0 => (raw[i] + 1) % src[i].wrap \in 0 .. src[i].wrap - 1
      <4> DEFINE x == raw[i] + 1
                 w == src[i].wrap
      <4>1. x \in Nat /\ w \in Nat
        BY <3>1
      <4> HIDE DEF x, w
      <4>2. w > 0 => x % w \in 0 .. w - 1
        BY <4>1
      <4> QED
        BY <4>2 DEF x, w
    <3> QED
      BY <3>1, <3>2, <3>3
  <2>3. DOMAIN raw' = DOMAIN src
    BY <2>1
  <2> QED
    BY <1>3, <2>1, <2>2, <2>3 DEF Readings
<1>8. ASSUME NEW c \in Cards(box), ResetCard(c) PROVE Readings'
  <2>1. /\ ~Open /\ at' = at /\ src' = src
        /\ raw' = [i \in DOMAIN src |->
                     IF src[i].parts = {c} /\ src[i].kind = "energy" THEN 0 ELSE raw[i]]
    BY <1>8 DEF ResetCard, Open
  <2>2. \A i \in DOMAIN src : raw'[i] \in {0, raw[i]}
    BY <2>1
  <2>3. DOMAIN raw' = DOMAIN src
    BY <2>1
  <2> QED
    BY <1>2, <1>3, <2>1, <2>2, <2>3 DEF Readings
<1> QED
  BY <1>1, <1>4, <1>5, <1>6, <1>7, <1>8 DEF Next

LEMMA StepInUse ==
  ASSUME IInv, [Next]_vars
  PROVE  InUse'
<1>1. InUse
  BY DEF IInv
<1>2. CASE Open
  BY <1>1, <1>2 DEF Open, InUse
<1>3. ASSUME ~Open
      PROVE  /\ DOMAIN src' = DOMAIN src
             /\ \A i \in DOMAIN src : /\ IsNvml(src[i])' <=> IsNvml(src[i])
                                      /\ Selected(i)' <=> Selected(i)
  <2>1. Kept
    BY <1>3, StepKeeps
  <2>2. DOMAIN src' = DOMAIN src /\ job' = job
    BY <2>1 DEF Kept
  <2>3. \A i \in DOMAIN src : src'[i].id = src[i].id /\ src'[i].provider = src[i].provider
    BY <2>1 DEF Kept, SameSource
  <2> QED
    BY <2>2, <2>3 DEF IsNvml, Selected, Used
<1>4. CASE Begin
  <2>1. ~Open /\ at' # "start" /\ use' \subseteq {i \in DOMAIN src : IsNvml(src[i]) /\ Selected(i)}
    BY <1>4 DEF Begin, Open
  <2> QED
    BY <1>3, <2>1 DEF InUse
<1>5. CASE ~Begin /\ ~Open
  <2>1. use' = use /\ (at' = "start" => at = "start")
    BY <1>5 DEF Next, vars, Broken, Attribute, Sample, Finish, SampleFails, CloseAll, Draw, ResetCard
  <2> QED
    BY <1>1, <1>3, <1>5, <2>1 DEF InUse
<1> QED
  BY <1>2, <1>4, <1>5

LEMMA StepAttributed ==
  ASSUME IInv, [Next]_vars
  PROVE  Attributed'
<1>1. Attributed /\ Told /\ Sources /\ job \in Jobs /\ rc \in {0, 1}
  BY DEF IInv, Typed
<1>2. CASE Open
  <2>1. at' = "opened" /\ rc' = rc /\ rc # 0
    BY <1>1, <1>2 DEF Open, Told
  <2> QED
    BY <2>1 DEF Attributed
<1>3. ASSUME ~Open
      PROVE  DOMAIN src' = DOMAIN src /\ \A i \in DOMAIN src : IsCounted(i)' <=> IsCounted(i)
  BY <1>1, <1>3, StepKeeps, SourcesKept, CountedKept
<1>4. CASE Attribute
  <2>1. ~Open /\ \A i \in DOMAIN src : src'[i].counted <=> IsCounted(i)
    BY <1>4, AttributeKeeps DEF Attribute, Open
  <2> QED
    BY <1>3, <2>1 DEF Attributed
<1>5. ASSUME ~Open, at \in {"attributed", "timed"} \/ rc = 0,
             \A i \in DOMAIN src : src'[i].counted = src[i].counted
      PROVE  Attributed'
  BY <1>1, <1>3, <1>5 DEF Attributed
<1>6. CASE Begin
  <2>1. ~Open /\ at = "attributed" /\ \A i \in DOMAIN src : src'[i].counted = src[i].counted
    BY <1>6, BeginKeeps DEF Begin, Open
  <2> QED
    BY <1>5, <2>1
<1>7. CASE Finish
  <2>1. ~Open /\ at = "timed" /\ \A i \in DOMAIN src : src'[i].counted = src[i].counted
    BY <1>7, EndKeeps DEF Finish, Open
  <2> QED
    BY <1>5, <2>1
<1>8. CASE SampleFails
  <2>1. ~Open /\ at = "timed" /\ box' = box /\ job' = job /\ (src' = src \/ End)
    BY <1>8 DEF SampleFails, Open
  <2>2. \A i \in DOMAIN src : src'[i].counted = src[i].counted
    BY <2>1, EndKeeps
  <2> QED
    BY <1>5, <2>1, <2>2
<1>9. CASE UNCHANGED <<src, rc>> /\ ~Open /\ (at' = at \/ at' \in {"closing", "closed"})
  <2>1. (at' \in {"attributed", "timed"} \/ rc' = 0) => (at \in {"attributed", "timed"} \/ rc = 0)
    BY <1>9
  <2> QED
    BY <1>5, <1>9, <2>1 DEF Attributed
<1> QED
  BY <1>2, <1>4, <1>6, <1>7, <1>8, <1>9
     DEF Next, vars, Open, Broken, Sample, CloseAll, Draw, ResetCard

LEMMA StepDrawn ==
  ASSUME IInv, [Next]_vars
  PROVE  Drawn'
<1>1. Drawn /\ box' = box
  BY StepKeeps, OpenFacts DEF Kept, IInv
<1>2. Parts(box)' = Parts(box)
  BY <1>1 DEF Parts, Cards
<1>3. ASSUME NEW p \in Parts(box), Draw(p) PROVE Drawn'
  <2>1. spent' = [spent EXCEPT ![p] = @ + 1] /\ at' = "timed"
    BY <1>3 DEF Draw
  <2> QED
    BY <1>1, <1>2, <2>1 DEF Drawn
<1>4. ASSUME NEW c \in Cards(box), ResetCard(c) PROVE Drawn'
  <2>1. spent' = spent /\ at' = "timed"
    BY <1>4 DEF ResetCard
  <2> QED
    BY <1>1, <1>2, <2>1 DEF Drawn
<1>5. CASE /\ UNCHANGED <<spent, reset>>
           /\ at' = at \/ at' \in {"timed", "closing", "closed"}
              \/ (at' \in {"opened", "attributed"} /\ at \in {"start", "opened"})
  BY <1>1, <1>2, <1>5 DEF Drawn
<1> QED
  BY <1>3, <1>4, <1>5
     DEF Next, vars, Open, Broken, Attribute, Begin, Sample, Finish, SampleFails, CloseAll

-----------------------------------------------------------------------------
(* The counters. *)

LEMMA Turns ==
  ASSUME NEW w \in Nat, NEW k \in Nat
  PROVE  /\ w * k \in Nat /\ w * 0 = 0 /\ w * (k + 1) = w * k + w
         /\ k # 0 => w * k >= w
         /\ k \notin {0, 1} => w * k >= w + w
<1>1. w * k \in Nat /\ w * 0 = 0 /\ w * (k + 1) = w * k + w
  OBVIOUS
<1>2. ASSUME k # 0 PROVE w * k >= w
  <2>1. PICK j \in Nat : k = j + 1
    <3>1. k - 1 \in Nat /\ k = (k - 1) + 1
      BY <1>2
    <3> QED
      BY <3>1
  <2>2. w * k = w * j + w /\ w * j \in Nat
    BY <2>1
  <2> DEFINE x == w * j
  <2>3. w * k = x + w /\ x \in Nat
    BY <2>2
  <2> HIDE DEF x
  <2> QED
    BY <2>3
<1>3. ASSUME k \notin {0, 1} PROVE w * k >= w + w
  <2>1. PICK j \in Nat : k = j + 2
    <3>1. k - 2 \in Nat /\ k = (k - 2) + 2
      BY <1>3
    <3> QED
      BY <3>1
  <2>2. w * k = w * j + (w + w) /\ w * j \in Nat
    BY <2>1
  <2> DEFINE x == w * j
  <2>3. w * k = x + (w + w) /\ x \in Nat
    BY <2>2
  <2> HIDE DEF x
  <2> QED
    BY <2>3
<1> QED
  BY <1>1, <1>2, <1>3

LEMMA NextShown ==
  ASSUME NEW r \in Nat, NEW w \in Nat, r < w
  PROVE  (r + 1) % w = IF r + 1 = w THEN 0 ELSE r + 1
<1>1. CASE r + 1 = w
  <2>1. w \in Nat /\ w > 0
    OBVIOUS
  <2>2. w % w = 0
    BY <2>1
  <2> QED
    BY <1>1, <2>2
<1>2. CASE r + 1 # w
  <2>1. r + 1 \in 0 .. w - 1 /\ w > 0
    BY <1>2
  <2> QED
    BY <1>2, <2>1
<1> QED
  BY <1>1, <1>2

\* One turn more than the reading shows is put back, and no other.
LEMMA Unwrapped ==
  ASSUME NEW w \in Nat, NEW k \in Nat, NEW start \in Nat, NEW now \in Nat, NEW e \in Nat,
         start < w, now < w, start + e = w * k + now
  PROVE  LET b == IF now >= start THEN now - start ELSE (w - start) + now
         IN  b <= e /\ (w > e => b = e)
<1> DEFINE t == w * k
<1>1. /\ t \in Nat /\ (k = 0 => t = 0) /\ (k # 0 => t >= w)
      /\ (k = 1 => t = w) /\ (k \notin {0, 1} => t >= w + w)
  <2>1. w * 1 = w
    OBVIOUS
  <2> QED
    BY <2>1, Turns
<1>2. start + e = t + now
  OBVIOUS
<1> HIDE DEF t
<1> QED
  BY <1>1, <1>2

\* What a source that counts energy reads: its part of the package, or one card.
LEMMA ReadsWhat ==
  ASSUME IInv, NEW i \in DOMAIN src
  PROVE  /\ src[i].parts \subseteq Parts(box) /\ IsFiniteSet(src[i].parts)
         /\ src[i].wrap \in Nat /\ src[i].start \in Nat
         /\ src[i].wrap = 0 => \E c \in Cards(box) : src[i].parts = {c}
         /\ src[i].wrap > 0 => \A c \in Cards(box) : src[i].parts # {c}
<1>1. src[i] \in Source /\ IsSource(src[i]) /\ box \in Machines
  BY SourcesAre DEF IInv, Typed
<1>2. src[i].parts \subseteq Parts(box) /\ src[i].wrap \in Nat /\ src[i].start \in Nat
  BY <1>1 DEF Source
<1>3. IsFiniteSet(src[i].parts)
  BY <1>1, <1>2, PartsFacts, FS_Subset
<1>4. Modulus > 0
  BY ModulusAssumption
<1>5. CASE \E c \in Cards(box) : CardOf(src[i], c)
  BY <1>2, <1>3, <1>5 DEF CardOf
<1>6. CASE ~\E c \in Cards(box) : CardOf(src[i], c)
  <2>1. /\ src[i].wrap = Modulus
        /\ src[i].parts \in {{"cores", "igpu"}, {"cores"}, {"igpu"}, {"dram"}, Parts(box)}
    BY <1>1, <1>6 DEF IsSource, Rapl
  <2>2. \A c \in Cards(box) : c \notin {"cores", "igpu", "dram"} /\ {c} # Parts(box)
    BY <1>1, PartsFacts
  <2>3. \A c \in Cards(box) : src[i].parts # {c}
    BY <2>1, <2>2
  <2> QED
    BY <1>2, <1>3, <1>4, <2>1, <2>3
<1> QED
  BY <1>5, <1>6

LEMMA SumIsNat ==
  ASSUME NEW f, NEW S, IsFiniteSet(S), \A p \in S : f[p] \in Nat
  PROVE  Sum(f, S) \in Nat
<1> DEFINE g == [p \in S |-> IF p = S THEN f[p] + 1 ELSE f[p]]
<1>1. \A p \in S : g[p] = IF p = S THEN f[p] + 1 ELSE f[p]
  OBVIOUS
<1> HIDE DEF g
<1>2. Sum(f, S) \in Nat /\ Sum(g, S) = IF S \in S THEN Sum(f, S) + 1 ELSE Sum(f, S)
  BY <1>1, SumOfMore
<1> QED
  BY <1>2

LEMMA BeginCounts ==
  ASSUME IInv, Begin
  PROVE  Counting'
<1>1. /\ Kept /\ spent' = spent /\ reset' = reset /\ raw' = raw
      /\ \A i \in DOMAIN src : src'[i].start = raw[i]
  BY BeginKeeps DEF Begin
<1>2. DOMAIN src' = DOMAIN src /\ reset = {} /\ \A p \in Parts(box) : spent[p] = 0
  BY <1>1 DEF Kept, IInv, Drawn, Begin
<1>3. SUFFICES ASSUME NEW i \in DOMAIN src PROVE Counts(i)'
  BY <1>2 DEF Counting
<1>4. src'[i].parts = src[i].parts /\ src'[i].wrap = src[i].wrap /\ raw[i] \in Nat
  BY <1>1 DEF Kept, SameSource, IInv, Readings
<1>5. src[i].wrap \in Nat /\ src[i].parts \subseteq Parts(box) /\ IsFiniteSet(src[i].parts)
  BY ReadsWhat
<1>6. Sum(spent, src[i].parts) = 0
  BY <1>2, <1>5, SumOfNothing
<1>7. Sum(spent, src[i].parts)' = 0
  BY <1>1, <1>4, <1>6
<1>8. src'[i].start + 0 = src'[i].wrap * 0 + raw'[i] /\ raw'[i] = src'[i].start + 0
  BY <1>1, <1>4, <1>5
<1> QED
  BY <1>1, <1>2, <1>7, <1>8 DEF Counts

LEMMA DrawCounts ==
  ASSUME IInv, NEW p \in Parts(box), Draw(p)
  PROVE  Counting'
<1>1. /\ at = "timed" /\ src' = src /\ reset' = reset
      /\ spent' = [spent EXCEPT ![p] = @ + 1]
      /\ raw' = [i \in DOMAIN src |->
                   IF p \notin src[i].parts \/ src[i].kind = "watts" THEN raw[i]
                   ELSE IF src[i].wrap > 0 THEN (raw[i] + 1) % src[i].wrap ELSE raw[i] + 1]
  BY DEF Draw
<1>2. SUFFICES ASSUME NEW i \in DOMAIN src, src[i].kind = "energy" PROVE Counts(i)'
  BY <1>1 DEF Counting
<1> DEFINE s == src[i]
           e == Sum(spent, s.parts)
           f == Sum(spent', s.parts)
<1>3. s.wrap \in Nat /\ s.start \in Nat /\ s.parts \subseteq Parts(box) /\ IsFiniteSet(s.parts)
  BY ReadsWhat
<1>4. spent \in [Parts(box) -> Nat] /\ raw[i] \in Nat /\ (s.wrap > 0 => raw[i] < s.wrap)
  BY DEF IInv, Drawn, Readings
<1>5. e \in Nat /\ f = IF p \in s.parts THEN e + 1 ELSE e
  <2>1. \A q \in s.parts : spent[q] \in Nat /\ spent'[q] = IF q = p THEN spent[q] + 1 ELSE spent[q]
    BY <1>1, <1>3, <1>4
  <2> QED
    BY <1>3, <2>1, SumOfMore
<1>6. Counts(i)
  BY <1>1, <1>2 DEF IInv, Counting
<1>7. raw'[i] = IF p \notin s.parts THEN raw[i]
                ELSE IF s.wrap > 0 THEN (raw[i] + 1) % s.wrap ELSE raw[i] + 1
  BY <1>1, <1>2
<1>8. Counts(i)' <=>
        IF s.wrap > 0 THEN \E k \in Nat : s.start + f = s.wrap * k + raw'[i]
        ELSE IF s.parts \cap reset = {} THEN raw'[i] = s.start + f
        ELSE raw'[i] <= f
  BY <1>1 DEF Counts
<1>9. IF s.wrap > 0 THEN \E k \in Nat : s.start + e = s.wrap * k + raw[i]
      ELSE IF s.parts \cap reset = {} THEN raw[i] = s.start + e
      ELSE raw[i] <= e
  BY <1>6 DEF Counts
<1> HIDE DEF s, e, f
<1>10. CASE p \notin s.parts
  BY <1>5, <1>7, <1>8, <1>9, <1>10
<1>11. CASE p \in s.parts /\ s.wrap = 0
  BY <1>3, <1>4, <1>5, <1>7, <1>8, <1>9, <1>11
<1>12. CASE p \in s.parts /\ s.wrap > 0
  <2>1. PICK k \in Nat : s.start + e = s.wrap * k + raw[i]
    BY <1>9, <1>12
  <2> DEFINE w == s.wrap
             t == w * k
             u == w * (k + 1)
  <2>2. w \in Nat /\ t \in Nat /\ u = t + w /\ s.start + e = t + raw[i]
    BY <1>3, <2>1, Turns
  <2>3. raw'[i] = IF raw[i] + 1 = w THEN 0 ELSE raw[i] + 1
    BY <1>3, <1>4, <1>7, <1>12, NextShown
  <2>4. s.start + f = t + raw'[i] \/ s.start + f = u + raw'[i]
    <3> HIDE DEF t, u, w
    <3> QED
      BY <1>3, <1>4, <1>5, <1>12, <2>2, <2>3
  <2>5. k \in Nat /\ k + 1 \in Nat
    OBVIOUS
  <2> QED
    BY <1>8, <1>12, <2>4, <2>5
<1> QED
  BY <1>3, <1>10, <1>11, <1>12

LEMMA ResetCounts ==
  ASSUME IInv, NEW c \in Cards(box), ResetCard(c)
  PROVE  Counting'
<1>1. /\ at = "timed" /\ src' = src /\ spent' = spent /\ reset' = reset \cup {c}
      /\ raw' = [i \in DOMAIN src |->
                   IF src[i].parts = {c} /\ src[i].kind = "energy" THEN 0 ELSE raw[i]]
  BY DEF ResetCard
<1>2. SUFFICES ASSUME NEW i \in DOMAIN src, src[i].kind = "energy" PROVE Counts(i)'
  BY <1>1 DEF Counting
<1> DEFINE e == Sum(spent, src[i].parts)
<1>3. /\ src[i].wrap \in Nat /\ src[i].parts \subseteq Parts(box) /\ IsFiniteSet(src[i].parts)
      /\ src[i].wrap = 0 => \E d \in Cards(box) : src[i].parts = {d}
      /\ src[i].wrap > 0 => \A d \in Cards(box) : src[i].parts # {d}
  BY ReadsWhat
<1>4. e \in Nat
  BY <1>3, SumIsNat DEF IInv, Drawn
<1>5. Counts(i)
  BY <1>1, <1>2 DEF IInv, Counting
<1>6. Sum(spent, src[i].parts)' = e
  BY <1>1
<1>7. raw'[i] = IF src[i].parts = {c} THEN 0 ELSE raw[i]
  BY <1>1, <1>2
<1>8. CASE src[i].parts = {c}
  <2>1. src[i].wrap = 0 /\ src[i].parts \cap reset' # {} /\ raw'[i] = 0 /\ 0 <= e
    BY <1>1, <1>3, <1>4, <1>7, <1>8
  <2> QED
    BY <1>1, <1>6, <2>1 DEF Counts
<1>9. CASE src[i].parts # {c}
  <2>1. raw'[i] = raw[i] /\ (src[i].wrap = 0 => src[i].parts \cap reset' = src[i].parts \cap reset)
    BY <1>1, <1>3, <1>7, <1>9
  <2> QED
    BY <1>1, <1>3, <1>5, <1>6, <2>1 DEF Counts
<1> QED
  BY <1>8, <1>9

LEMMA StepCounting ==
  ASSUME IInv, [Next]_vars
  PROVE  Counting'
<1>1. CASE Begin
  BY <1>1, BeginCounts
<1>2. CASE \E p \in Parts(box) : Draw(p)
  BY <1>2, DrawCounts
<1>3. CASE \E c \in Cards(box) : ResetCard(c)
  BY <1>3, ResetCounts
<1>4. CASE Sample \/ UNCHANGED vars
  <2>1. at' = at /\ src' = src /\ raw' = raw /\ spent' = spent /\ reset' = reset
    BY <1>4 DEF Sample, vars
  <2> QED
    BY <2>1 DEF IInv, Counting, Counts
<1>5. CASE Open \/ Broken \/ Attribute \/ Finish \/ SampleFails \/ CloseAll
  <2>1. at' # "timed"
    BY <1>5 DEF Open, Broken, Attribute, Finish, SampleFails, CloseAll
  <2> QED
    BY <2>1 DEF Counting
<1> QED
  BY <1>1, <1>2, <1>3, <1>4, <1>5 DEF Next

LEMMA FinishTold ==
  ASSUME IInv, Finish
  PROVE  Told'
<1>1. at = "timed" /\ at' = "closing" /\ End /\ box' = box /\ job' = job
      /\ spent' = spent /\ reset' = reset
  BY DEF Finish
<1>2. /\ Kept
      /\ \A i \in DOMAIN src :
           src'[i].valid => Between(src[i], raw[i]) # -1 /\ src'[i].joules = Between(src[i], raw[i])
  BY <1>1, EndKeeps
<1>3. DOMAIN src' = DOMAIN src
  BY <1>2 DEF Kept
<1>4. SUFFICES ASSUME NEW i \in DOMAIN src, src'[i].valid, src'[i].kind = "energy"
               PROVE  LET s == src'[i]
                          e == Sum(spent, s.parts)
                      IN  /\ s.joules <= e
                          /\ (s.wrap > e \/ (s.wrap = 0 /\ s.parts \cap reset = {})) => s.joules = e
  BY <1>1, <1>3 DEF Told, Honest
<1> DEFINE s == src[i]
           e == Sum(spent, s.parts)
           b == IF raw[i] >= s.start THEN raw[i] - s.start
                ELSE IF s.wrap > 0 THEN (s.wrap - s.start) + raw[i] ELSE -1
<1>5. src'[i].kind = s.kind /\ src'[i].parts = s.parts /\ src'[i].wrap = s.wrap
  BY <1>2 DEF Kept, SameSource
<1>6. Between(src[i], raw[i]) = b
  BY <1>4, <1>5 DEF Between
<1>7. b # -1 /\ src'[i].joules = b
  BY <1>2, <1>4, <1>6
<1>8. s.wrap \in Nat /\ s.start \in Nat /\ s.parts \subseteq Parts(box) /\ IsFiniteSet(s.parts)
  BY ReadsWhat
<1>9. raw[i] \in Nat /\ (s.wrap > 0 => raw[i] < s.wrap /\ s.start < s.wrap)
  BY <1>1 DEF IInv, Readings
<1>10. e \in Nat
  BY <1>8, SumIsNat DEF IInv, Drawn
<1>11. IF s.wrap > 0 THEN \E k \in Nat : s.start + e = s.wrap * k + raw[i]
       ELSE IF s.parts \cap reset = {} THEN raw[i] = s.start + e
       ELSE raw[i] <= e
  BY <1>1, <1>4, <1>5 DEF IInv, Counting, Counts
<1>12. b <= e /\ ((s.wrap > e \/ (s.wrap = 0 /\ s.parts \cap reset = {})) => b = e)
  <2> DEFINE start == s.start
             w     == s.wrap
             now   == raw[i]
             Clean == s.parts \cap reset = {}
  <2> HIDE DEF e
  <2>1. CASE w > 0
    <3>1. PICK k \in Nat : start + e = w * k + now
      BY <1>11, <2>1
    <3>2. w \in Nat /\ start \in Nat /\ now \in Nat /\ e \in Nat /\ start < w /\ now < w
      BY <1>8, <1>9, <1>10, <2>1
    <3>3. b = IF now >= start THEN now - start ELSE (w - start) + now
      BY <2>1
    <3>4. s.wrap = w
      OBVIOUS
    <3> HIDE DEF b, start, w, now
    <3>5. b <= e /\ (w > e => b = e)
      BY <3>1, <3>2, <3>3, Unwrapped
    <3> QED
      BY <2>1, <3>4, <3>5
  <2>2. CASE w = 0
    <3>1. IF Clean THEN now = start + e ELSE now <= e
      BY <1>11, <2>2
    <3>2. now >= start /\ b = now - start
      BY <1>7, <1>8, <1>9, <2>2
    <3>3. start \in Nat /\ now \in Nat /\ e \in Nat
      BY <1>8, <1>9, <1>10
    <3> HIDE DEF b, start, w, now, Clean
    <3>4. b <= e /\ (Clean => b = e) /\ ~(w > e)
      BY <2>2, <3>1, <3>2, <3>3
    <3> QED
      BY <3>4 DEF w, Clean
  <2> QED
    BY <1>8, <2>1, <2>2
<1> HIDE DEF b
<1> QED
  BY <1>5, <1>7, <1>12

LEMMA StepTold ==
  ASSUME IInv, [Next]_vars
  PROVE  Told'
<1>1. Told /\ rc \in {0, 1}
  BY DEF IInv, Typed
<1>2. CASE Finish
  BY <1>2, FinishTold
<1>3. CASE Open \/ Broken \/ Attribute \/ Begin \/ SampleFails \/ Sample
  <2>1. rc' = rc /\ at \notin {"closing", "closed"}
    BY <1>3 DEF Open, Broken, Attribute, Begin, SampleFails, Sample
  <2> QED
    BY <1>1, <2>1 DEF Told
<1>4. CASE (\E p \in Parts(box) : Draw(p)) \/ (\E c \in Cards(box) : ResetCard(c))
  <2>1. rc' = rc /\ at = "timed"
    BY <1>4 DEF Draw, ResetCard
  <2> QED
    BY <1>1, <2>1 DEF Told
<1>5. CASE CloseAll \/ UNCHANGED vars
  <2>1. rc' = rc /\ src' = src /\ spent' = spent /\ reset' = reset /\ (at' = at \/ at' = "closed")
    BY <1>5 DEF CloseAll, vars
  <2> QED
    BY <1>1, <2>1 DEF Told, Honest
<1> QED
  BY <1>2, <1>3, <1>4, <1>5 DEF Next

-----------------------------------------------------------------------------
(* The theorems. *)

LEMMA InvInit ==
  ASSUME Init
  PROVE  IInv
<1>1. /\ box \in Machines /\ job \in Jobs /\ at = "start" /\ src = <<>> /\ raw = <<>>
      /\ spent = [p \in Parts(box) |-> 0] /\ reset = {} /\ samples = 0
      /\ use = {} /\ clocks = NoClocks /\ open = {} /\ rc = 1
      /\ {c[1] : c \in job.cards} \subseteq {"igpu"} \cup Cards(box)
  BY DEF Init
<1>2. src \in Seq(Source) /\ Len(src) = 0 /\ DOMAIN src = {} /\ DOMAIN raw = {}
  BY <1>1, EmptySeq
<1>3. Typed /\ JobCards /\ Clocks
  BY <1>1, <1>2 DEF Typed, JobCards, Clocks, NoClocks
<1>4. Sources /\ Readings /\ InUse /\ Attributed
  BY <1>1, <1>2, BoundAssumption DEF Sources, Scanned, Apart, Readings, InUse, Attributed
<1>5. Drawn /\ Counting /\ Told
  BY <1>1 DEF Drawn, Counting, Told
<1> QED
  BY <1>3, <1>4, <1>5 DEF IInv

LEMMA InvStep ==
  ASSUME IInv, [Next]_vars
  PROVE  IInv'
  BY StepTyped, StepSources, StepReadings, StepInUse, StepAttributed, StepDrawn, StepCounting,
     StepTold DEF IInv

LEMMA Invariant == Spec => []IInv
<1>1. Init => IInv
  BY InvInit
<1>2. IInv /\ [Next]_vars => IInv'
  BY InvStep
<1> QED
  BY <1>1, <1>2, PTL DEF Spec

(* Every variable has its type: no source has negative energy, however often
   its counter wrapped or started anew and whichever readings failed, the
   sources fit their table, and the clock range is one. *)
THEOREM PowerTypeOK == Spec => []TypeOK
<1>1. ASSUME IInv PROVE TypeOK
  <2>1. /\ Typed /\ Clocks /\ DOMAIN raw = DOMAIN src /\ Len(src) <= MaxSrc /\ use \subseteq DOMAIN src
    BY <1>1 DEF IInv, Readings, Sources, InUse
  <2>2. \A i \in DOMAIN src : {src[i].start, src[i].joules} \subseteq Nat
    BY <1>1, SourcesAre DEF IInv, Source
  <2>3. {clocks.first, clocks.last} \subseteq clocks.lo .. clocks.hi
    BY <2>1 DEF Clocks
  <2> QED
    BY <2>1, <2>2, <2>3 DEF TypeOK, Typed
<1> QED
  BY <1>1, Invariant, PTL

(* A source that is valid in a report never shows energy its parts did not
   draw, and what one turn of a counter of known range hides is put back. *)
THEOREM PowerEnergyTrue == Spec => []EnergyTrue
<1>1. ASSUME IInv PROVE EnergyTrue
  <2>1. \A parts : SpentBy(parts) = Sum(spent, parts)
    BY DEF SpentBy, Sum
  <2> QED
    BY <1>1, <2>1 DEF EnergyTrue, Reported, IInv, Told, Honest
<1> QED
  BY <1>1, Invariant, PTL

-----------------------------------------------------------------------------
(* One card seen by several providers. *)

LEMMA AtMostOne ==
  ASSUME NEW T, \A x, y \in T : x = y
  PROVE  Cardinality(T) <= 1
<1>1. CASE T = {}
  BY <1>1, FS_EmptySet
<1>2. CASE T # {}
  <2>1. PICK x \in T : TRUE
    BY <1>2
  <2>2. T = {x}
    BY <2>1
  <2>3. Cardinality({x}) = 1
    BY FS_Singleton
  <2> QED
    BY <2>2, <2>3
<1> QED
  BY <1>1, <1>2

\* A source with an address is a card's, and the address names the card.
LEMMA Addressed ==
  ASSUME IInv, NEW i \in DOMAIN src, src[i].id # NoId
  PROVE  \E c \in Cards(box) : CardOf(src[i], c) /\ src[i].id[1] = c
<1>1. IsSource(src[i])
  BY SourcesAre DEF IInv
<1>2. PICK c \in Cards(box) : CardOf(src[i], c)
  BY <1>1 DEF IsSource, Rapl
<1>3. src[i].id[1] = c
  BY <1>2 DEF CardOf
<1> QED
  BY <1>2, <1>3

\* Of two valid readings of one card, one gives way.
LEMMA OneGivesWay ==
  ASSUME IInv, NEW i \in DOMAIN src, NEW j \in DOMAIN src, NEW c \in Cards(box), i # j,
         CardOf(src[i], c), CardOf(src[j], c), src[i].id # NoId, src[j].id # NoId,
         src[i].valid, src[j].valid
  PROVE  Duplicate(i) \/ Duplicate(j)
<1>1. src[i].scope = src[j].scope /\ SameDevice(src[i].id, src[j].id) /\ SameDevice(src[j].id, src[i].id)
  BY DEF CardOf, SameDevice
<1>2. src[i].provider \in {1, 2} /\ src[j].provider \in {1, 2}
  BY DEF CardOf
<1>3. i \in Nat /\ j \in Nat
  BY SourcesAre DEF IInv
<1>4. \/ src[i].provider < src[j].provider \/ src[j].provider < src[i].provider
      \/ src[i].provider = src[j].provider /\ (i < j \/ j < i)
  BY <1>2, <1>3
<1>5. i \in DOMAIN src \ {j} /\ j \in DOMAIN src \ {i}
  OBVIOUS
<1>6. CASE src[i].provider < src[j].provider \/ (src[i].provider = src[j].provider /\ i < j)
  BY <1>1, <1>5, <1>6 DEF Duplicate
<1>7. CASE src[j].provider < src[i].provider \/ (src[i].provider = src[j].provider /\ j < i)
  BY <1>1, <1>5, <1>7 DEF Duplicate
<1> QED
  BY <1>4, <1>6, <1>7

\* A reading that gives way leaves its card to one that does not.
LEMMA StandIn ==
  ASSUME IInv, NEW i \in DOMAIN src, src[i].valid, Duplicate(i)
  PROVE  \E j \in DOMAIN src : \E c \in Cards(box) :
           /\ CardOf(src[i], c) /\ CardOf(src[j], c) /\ SameDevice(src[j].id, src[i].id)
           /\ src[j].valid /\ ~Duplicate(j)
<1> DEFINE G == {j \in DOMAIN src : /\ src[j].valid /\ src[j].scope = src[i].scope
                                   /\ SameDevice(src[j].id, src[i].id)}
           P == {src[j].provider : j \in G}
<1>1. P # {}
  BY DEF Duplicate
<1>2. \A j \in DOMAIN src : src[j].provider \in Nat /\ j \in Nat
  BY SourcesAre DEF IInv, Source
<1>3. PICK m \in P : \A n \in P : m <= n
  <2>1. P \subseteq Nat
    BY <1>2
  <2> HIDE DEF P
  <2> QED
    BY <1>1, <2>1, LeastExists
<1> DEFINE Q == {j \in G : src[j].provider = m}
<1>4. PICK j \in Q : \A k \in Q : j <= k
  <2>1. Q # {} /\ Q \subseteq Nat
    BY <1>2, <1>3
  <2> HIDE DEF Q
  <2> QED
    BY <2>1, LeastExists
<1>5. /\ j \in DOMAIN src /\ src[j].valid /\ src[j].scope = src[i].scope
      /\ SameDevice(src[j].id, src[i].id) /\ src[j].provider = m
  BY <1>4
<1>6. ~Duplicate(j)
  <2> SUFFICES ASSUME Duplicate(j) PROVE FALSE
    OBVIOUS
  <2>1. PICK k \in DOMAIN src \ {j} :
          /\ src[k].scope = src[j].scope /\ src[k].valid
          /\ SameDevice(src[k].id, src[j].id)
          /\ \/ src[k].provider < src[j].provider
             \/ src[k].provider = src[j].provider /\ k < j
    BY DEF Duplicate
  <2>2. SameDevice(src[k].id, src[i].id)
    BY <1>5, <2>1 DEF SameDevice
  <2>3. k \in G /\ src[k].provider \in P
    BY <1>5, <2>1, <2>2
  <2>4. m <= src[k].provider /\ m \in Nat /\ src[k].provider \in Nat /\ k \in Nat /\ j \in Nat
    BY <1>2, <1>3, <1>5, <2>1, <2>3
  <2>5. src[k].provider = m /\ k < j
    BY <1>5, <2>1, <2>4
  <2>6. j <= k
    BY <1>4, <2>3, <2>5
  <2> QED
    BY <2>4, <2>5, <2>6
<1>7. src[i].id # NoId /\ src[j].id # NoId /\ src[j].id[1] = src[i].id[1]
  BY <1>5 DEF SameDevice
<1>8. PICK c \in Cards(box) : CardOf(src[i], c) /\ src[i].id[1] = c
  BY <1>7, Addressed
<1>9. CardOf(src[j], c)
  BY <1>5, <1>7, <1>8, Addressed
<1> QED
  BY <1>5, <1>6, <1>8, <1>9

\* A set of sources that has no domain of the package inside another.
Separate(S) ==
  /\ \A i \in S : /\ i \in DOMAIN src /\ src[i].valid /\ ~Duplicate(i)
                  /\ ~Rapl(src[i], "other", TRUE, Parts(box))
  /\ \A i, j \in S :
       i # j /\ src[i].provider = 0 /\ src[j].provider = 0 => src[i].parts \cap src[j].parts = {}

LEMMA SeparateOnce ==
  ASSUME IInv, NEW S, Separate(S)
  PROVE  Once(S)
<1> SUFFICES ASSUME NEW p \in Parts(box), Known(p)
             PROVE  Cardinality({i \in S : p \in src[i].parts}) <= 1
  BY DEF Once
<1> SUFFICES ASSUME NEW i \in S, NEW j \in S, p \in src[i].parts, p \in src[j].parts, i # j
             PROVE  FALSE
  BY AtMostOne
<1>1. /\ i \in DOMAIN src /\ src[i].valid /\ ~Duplicate(i) /\ ~Rapl(src[i], "other", TRUE, Parts(box))
      /\ j \in DOMAIN src /\ src[j].valid /\ ~Duplicate(j) /\ ~Rapl(src[j], "other", TRUE, Parts(box))
  BY DEF Separate
<1>2. \A k \in DOMAIN src :
        ~Rapl(src[k], "other", TRUE, Parts(box)) =>
          \/ src[k].provider = 0 /\ src[k].parts \subseteq {"cores", "igpu", "dram"}
          \/ \E c \in Cards(box) : CardOf(src[k], c)
  <2> SUFFICES ASSUME NEW k \in DOMAIN src, ~Rapl(src[k], "other", TRUE, Parts(box))
               PROVE  \/ src[k].provider = 0 /\ src[k].parts \subseteq {"cores", "igpu", "dram"}
                      \/ \E c \in Cards(box) : CardOf(src[k], c)
    OBVIOUS
  <2>1. IsSource(src[k])
    BY SourcesAre DEF IInv
  <2> QED
    BY <2>1 DEF IsSource, Rapl
<1>3. \A c \in Cards(box) : c \notin {"cores", "igpu", "dram"}
  BY PartsFacts DEF IInv, Typed
<1>4. CASE src[i].provider = 0 /\ src[j].provider = 0
  BY <1>4 DEF Separate
<1>5. CASE ~(src[i].provider = 0 /\ src[j].provider = 0)
  <2>1. p \in Cards(box) /\ CardOf(src[i], p) /\ CardOf(src[j], p)
    <3>1. ASSUME NEW k \in {i, j}, src[k].provider # 0 PROVE p \in Cards(box)
      <4>1. k \in DOMAIN src /\ p \in src[k].parts /\ ~Rapl(src[k], "other", TRUE, Parts(box))
        BY <1>1
      <4>2. PICK c \in Cards(box) : CardOf(src[k], c)
        BY <1>2, <3>1, <4>1
      <4> QED
        BY <4>1, <4>2 DEF CardOf
    <3>2. p \in Cards(box) /\ p \notin {"cores", "igpu", "dram"}
      BY <1>3, <1>5, <3>1
    <3>3. \A k \in {i, j} : \E c \in Cards(box) : CardOf(src[k], c)
      BY <1>1, <1>2, <3>2
    <3>4. \A k \in {i, j} : CardOf(src[k], p)
      BY <3>3 DEF CardOf
    <3> QED
      BY <3>2, <3>4
  <2>2. src[i].id # NoId /\ src[j].id # NoId
    BY <1>1, <2>1 DEF Known, CardOf
  <2> QED
    BY <1>1, <2>1, <2>2, OneGivesWay
<1> QED
  BY <1>4, <1>5

-----------------------------------------------------------------------------
(* The sources that a report adds. *)

LEMMA TotalledSeparate ==
  ASSUME IInv
  PROVE  Separate(Totalled)
<1>1. \A i \in Totalled : /\ i \in DOMAIN src /\ src[i].valid /\ ~Duplicate(i)
                          /\ ~src[i].contained /\ src[i].scope # "cores" /\ IsSource(src[i])
  BY SourcesAre DEF Totalled, IInv
<1>2. \A i \in Totalled : ~Rapl(src[i], "other", TRUE, Parts(box))
  BY <1>1 DEF Rapl
<1>3. \A i \in Totalled : src[i].provider = 0 => src[i].parts \in {{"cores", "igpu"}, {"dram"}}
  BY <1>1 DEF IsSource, Rapl, CardOf
<1>4. ASSUME NEW i \in Totalled, NEW j \in Totalled, i # j, src[i].provider = 0, src[j].provider = 0
      PROVE  src[i].parts \cap src[j].parts = {}
  <2>1. src[i].parts # src[j].parts
    BY <1>1, <1>4 DEF IInv, Sources, Apart
  <2> QED
    BY <1>3, <1>4, <2>1
<1> QED
  BY <1>1, <1>2, <1>4 DEF Separate

\* What a reported source counts for.
LEMMA CountsFor ==
  ASSUME IInv, rc = 0, NEW i \in DOMAIN src
  PROVE  /\ src[i].counted <=> IsCounted(i)
         /\ src[i].scope \in {"package", "cores"} => (IsCounted(i) <=> job.cpu)
         /\ src[i].scope = "gpu" =>
              (IsCounted(i) <=> /\ src[i].id # NoId => Used(i)
                                /\ src[i].id = NoId => job.cards # {} /\ Unmatched
                                /\ ~(src[i].contained /\ job.cpu))
         /\ src[i].scope = "other" => (IsCounted(i) <=> job.cpu /\ ~src[i].contained)
<1>1. Sources /\ job \in Jobs /\ (src[i].counted <=> IsCounted(i))
  BY DEF IInv, Typed, Attributed
<1> QED
  BY <1>1, CountedIs

LEMMA HashingSeparate ==
  ASSUME IInv, rc = 0
  PROVE  Separate(Hashing)
<1>1. \A i \in Hashing : /\ i \in DOMAIN src /\ src[i].valid /\ ~Duplicate(i) /\ src[i].counted
                         /\ (src[i].contained => src[i].scope = "gpu") /\ src[i].scope # "cores"
                         /\ IsSource(src[i])
  BY SourcesAre DEF Hashing, IInv
<1>2. \A i \in Hashing : ~Rapl(src[i], "other", TRUE, Parts(box))
  BY <1>1 DEF Rapl
<1>3. \A i \in Hashing :
        src[i].provider = 0 =>
          \/ src[i].parts = {"cores", "igpu"} /\ src[i].scope = "package"
          \/ src[i].parts = {"igpu"} /\ src[i].scope = "gpu" /\ src[i].contained = TRUE
          \/ src[i].parts = {"dram"}
  BY <1>1 DEF IsSource, Rapl, CardOf
<1>4. ASSUME NEW i \in Hashing, NEW j \in Hashing, i # j, src[i].provider = 0, src[j].provider = 0
      PROVE  src[i].parts \cap src[j].parts = {}
  <2>1. src[i].parts # src[j].parts
    BY <1>1, <1>4 DEF IInv, Sources, Apart
  <2>2. \A k \in Hashing : /\ src[k].scope = "package" => job.cpu
                           /\ src[k].scope = "gpu" /\ src[k].contained = TRUE => ~job.cpu
    <3> SUFFICES ASSUME NEW k \in Hashing
                 PROVE  /\ src[k].scope = "package" => job.cpu
                        /\ src[k].scope = "gpu" /\ src[k].contained = TRUE => ~job.cpu
      OBVIOUS
    <3>1. k \in DOMAIN src /\ IsCounted(k)
      BY <1>1, CountsFor
    <3> QED
      BY <3>1, CountsFor
  <2> QED
    BY <1>3, <1>4, <2>1, <2>2
<1> QED
  BY <1>1, <1>2, <1>4 DEF Separate

LEMMA GpuSeparate ==
  ASSUME IInv
  PROVE  Separate(InScope("gpu"))
<1>1. \A i \in InScope("gpu") : /\ i \in DOMAIN src /\ src[i].valid /\ ~Duplicate(i)
                                /\ src[i].scope = "gpu" /\ IsSource(src[i])
  BY SourcesAre DEF InScope, IInv
<1>2. \A i \in InScope("gpu") : ~Rapl(src[i], "other", TRUE, Parts(box))
  BY <1>1 DEF Rapl
<1>3. \A i \in InScope("gpu") : src[i].provider = 0 => src[i].parts = {"igpu"}
  BY <1>1 DEF IsSource, Rapl, CardOf
<1>4. \A i, j \in InScope("gpu") : i # j /\ src[i].provider = 0 /\ src[j].provider = 0 => FALSE
  BY <1>1, <1>3 DEF IInv, Sources, Apart
<1> QED
  BY <1>1, <1>2, <1>4 DEF Separate

\* The card of a source that was used is one of the job's.
LEMMA UsedCard ==
  ASSUME IInv, NEW i \in DOMAIN src, NEW c, CardOf(src[i], c), Used(i)
  PROVE  c \in {x[1] : x \in job.cards} /\ src[i].id # NoId
<1>1. PICK x \in job.cards : SameDevice(src[i].id, x[2])
  BY DEF Used
<1>2. x[2] # NoId /\ src[i].id # NoId /\ src[i].id[1] = x[2][1]
  BY <1>1 DEF SameDevice
<1>3. x[2][1] = x[1]
  BY <1>2, JobIs DEF IInv, Typed
<1>4. src[i].id[1] = c
  BY <1>2 DEF CardOf
<1> QED
  BY <1>2, <1>3, <1>4

LEMMA HashingHashed ==
  ASSUME IInv, rc = 0, ~Unmatched, NEW i \in Hashing
  PROVE  src[i].parts \subseteq HashedOn
<1>1. /\ i \in DOMAIN src /\ src[i].counted /\ src[i].scope # "cores" /\ IsSource(src[i])
      /\ src[i].contained => src[i].scope = "gpu"
  BY SourcesAre DEF Hashing, IInv
<1>2. IsCounted(i)
  BY <1>1, CountsFor
<1>3. CASE \E c \in Cards(box) : CardOf(src[i], c)
  <2>1. PICK c \in Cards(box) : CardOf(src[i], c)
    BY <1>3
  <2>2. src[i].scope = "gpu" /\ src[i].parts = {c}
    BY <2>1 DEF CardOf
  <2>3. Used(i)
    BY <1>1, <1>2, <2>2, CountsFor
  <2>4. c \in {x[1] : x \in job.cards}
    BY <1>1, <2>1, <2>3, UsedCard
  <2> QED
    BY <2>2, <2>4 DEF HashedOn
<1>4. CASE ~\E c \in Cards(box) : CardOf(src[i], c)
  <2>1. \/ src[i].scope \in {"package", "other"} /\ src[i].parts \subseteq {"cores", "igpu", "dram"}
        \/ src[i].scope = "gpu" /\ src[i].id = NoId
    BY <1>1, <1>4 DEF IsSource, Rapl
  <2>2. CASE src[i].scope \in {"package", "other"} /\ src[i].parts \subseteq {"cores", "igpu", "dram"}
    <3>1. job.cpu
      BY <1>1, <1>2, <2>2, CountsFor
    <3> QED
      BY <2>2, <3>1 DEF HashedOn
  <2>3. CASE src[i].scope = "gpu" /\ src[i].id = NoId
    BY <1>1, <1>2, <2>3, CountsFor
  <2> QED
    BY <2>1, <2>2, <2>3
<1> QED
  BY <1>3, <1>4

\* What is measured is added, by the source itself or by one of the same card.
LEMMA Added ==
  ASSUME IInv, rc = 0, NEW i \in DOMAIN src,
         src[i].valid, src[i].scope # "cores", ~src[i].contained
  PROVE  /\ \E j \in Totalled : src[i].parts \subseteq src[j].parts
         /\ (src[i].parts \subseteq HashedOn /\ (src[i].scope = "gpu" => Used(i))) =>
              \E j \in Hashing : src[i].parts \subseteq src[j].parts
<1>1. IsSource(src[i])
  BY SourcesAre DEF IInv
<1>2. CASE Duplicate(i)
  <2>1. PICK j \in DOMAIN src, c \in Cards(box) :
          /\ CardOf(src[i], c) /\ CardOf(src[j], c) /\ SameDevice(src[j].id, src[i].id)
          /\ src[j].valid /\ ~Duplicate(j)
    BY <1>2, StandIn
  <2>2. /\ src[i].scope = "gpu" /\ src[j].scope = "gpu" /\ src[j].contained = FALSE
        /\ src[i].parts = src[j].parts
    BY <2>1 DEF CardOf
  <2>3. j \in Totalled
    BY <2>1, <2>2 DEF Totalled
  <2>4. ASSUME Used(i) PROVE j \in Hashing
    <3>1. Used(j) /\ src[j].id # NoId
      BY <2>1, <2>4 DEF Used, SameDevice
    <3>2. src[j].counted
      BY <2>2, <3>1, CountsFor
    <3> QED
      BY <2>1, <2>2, <3>2 DEF Hashing
  <2> QED
    BY <2>2, <2>3, <2>4
<1>3. CASE ~Duplicate(i)
  <2>1. i \in Totalled
    BY <1>3 DEF Totalled
  <2>2. ASSUME src[i].parts \subseteq HashedOn, src[i].scope = "gpu" => Used(i)
        PROVE  i \in Hashing
    <3>1. src[i].counted
      <4>1. CASE src[i].scope = "gpu"
        <5>1. src[i].id # NoId
          BY <2>2, <4>1 DEF Used, SameDevice
        <5> QED
          BY <2>2, <4>1, <5>1, CountsFor
      <4>2. CASE src[i].scope # "gpu"
        <5>1. src[i].scope \in {"package", "other"} /\ src[i].parts \cap {"cores", "dram"} # {}
          BY <1>1, <4>2 DEF IsSource, Rapl, CardOf
        <5>2. {x[1] : x \in job.cards} \subseteq {"igpu"} \cup Cards(box)
          BY DEF IInv, JobCards
        <5>3. \A c \in Cards(box) : c \notin {"cores", "igpu", "dram"}
          BY PartsFacts DEF IInv, Typed
        <5>4. {x[1] : x \in job.cards} \cap {"cores", "dram"} = {}
          BY <5>2, <5>3
        <5>5. job.cpu
          BY <2>2, <5>1, <5>4 DEF HashedOn
        <5> QED
          BY <5>1, <5>5, CountsFor
      <4> QED
        BY <4>1, <4>2
    <3> QED
      BY <1>3, <3>1 DEF Hashing
  <2> QED
    BY <2>1, <2>2
<1> QED
  BY <1>2, <1>3

\* An integrated GPU that hashes alone is measured by its domain.
LEMMA IntegratedAdded ==
  ASSUME IInv, rc = 0, job.cards = {<<"igpu", NoId>>}, ~job.cpu,
         NEW i \in DOMAIN src, src[i].valid, src[i].parts = {"igpu"}
  PROVE  i \in Hashing
<1>1. IsSource(src[i]) /\ (\A c \in Cards(box) : c \notin {"cores", "igpu", "dram"})
      /\ {"cores", "igpu", "dram"} \subseteq Parts(box)
  BY SourcesAre, PartsFacts DEF IInv, Typed
<1>2. Rapl(src[i], "gpu", TRUE, {"igpu"})
  <2>1. ~\E c \in Cards(box) : CardOf(src[i], c)
    BY <1>1 DEF CardOf
  <2> QED
    BY <1>1, <2>1 DEF IsSource, Rapl
<1>3. src[i].scope = "gpu" /\ src[i].id = NoId
  BY <1>2 DEF Rapl
<1>4. Unmatched /\ job.cards # {}
  BY DEF Unmatched, SameDevice
<1>5. src[i].counted
  BY <1>3, <1>4, CountsFor
<1>6. ~Duplicate(i)
  BY <1>3 DEF Duplicate, SameDevice
<1> QED
  BY <1>3, <1>5, <1>6 DEF Hashing

\* The clocks are those of the cards used, when every card has an address.
LEMMA ClocksOfUsed ==
  ASSUME IInv, job.cards # {}, \A c \in job.cards : c[2] # NoId, NEW i \in use, src[i].id # NoId
  PROVE  src[i].parts \subseteq {c[1] : c \in job.cards}
<1>1. i \in DOMAIN src /\ Selected(i)
  BY DEF IInv, InUse
<1>2. Used(i)
  BY <1>1 DEF Selected
<1>3. PICK c \in Cards(box) : CardOf(src[i], c)
  BY <1>1, Addressed
<1>4. c \in {x[1] : x \in job.cards} /\ src[i].parts = {c}
  BY <1>1, <1>2, <1>3, UsedCard DEF CardOf
<1> QED
  BY <1>4

(* The denominator of hashes per joule is the hardware that hashed, each part
   of it once and as long as anything that measures it is valid; the machine's
   total has no part twice; the clocks are those of the cards used. *)
THEOREM PowerMeasuredHardware == Spec => []MeasuredHardware
<1>1. ASSUME IInv, Reported PROVE \A S \in {Totalled, Hashing, InScope("gpu")} : Once(S)
  <2>1. rc = 0
    BY <1>1 DEF Reported
  <2>2. Once(Totalled) /\ Once(Hashing) /\ Once(InScope("gpu"))
    BY <1>1, <2>1, TotalledSeparate, HashingSeparate, GpuSeparate, SeparateOnce
  <2> QED
    BY <2>2
<1>2. ASSUME IInv PROVE MeasuredHardware
  <2>1. IInv
    BY <1>2
  <2>2. Reported => rc = 0
    BY DEF Reported
  <2> QED
    BY <1>1, <2>1, <2>2, HashingHashed, Added, IntegratedAdded, ClocksOfUsed DEF MeasuredHardware
<1> QED
  BY <1>2, Invariant, PTL

=============================================================================
