----------------------------- MODULE AutotuneProofs -----------------------------
(***************************************************************************)
(* Invariants of Autotune, for every table of kernels.                     *)
(***************************************************************************)
EXTENDS Autotune, TLAPS

InLoop  == at = "select" \/ at \in Measuring \cup {"measured"}

(* Types without the bound on the counts. *)
Types ==
  /\ at \in {"options", "select", "build", "measured", "exited"} \cup Measuring
  /\ named \in {0} \cup Kernel /\ where \in {"any", "cpu", "device"}
  /\ backends \subseteq Backends /\ available \subseteq Kernel
  /\ k \in 1 .. Len(Table) + 1 /\ best \in {0} \cup Kernel
  /\ bestHps \in {0} \cup Speeds /\ median \in {0} \cup Speeds
  /\ {memory, corpusLanes} \subseteq {0} \cup {Lanes(x) : x \in Kernel}
  /\ verifyFailed \in Nat /\ couldNotRun \in Nat
  /\ verified \in BOOLEAN /\ runError \in BOOLEAN /\ sampled \in 0 .. NumSamples
  /\ power \in {"closed", "open", "running"} /\ pool \in BOOLEAN
  /\ exit \in {"none", "ok", "verify_failed", "usage", "cannot_run"}
  /\ passed \in [Kernel -> {0} \cup Speeds] /\ wrongIn \subseteq Kernel
  /\ wrongNow \in BOOLEAN

(* Where the loop stands: kernels from k on have not been tried, and the kernel
   in hand is one that may be. *)
Position ==
  /\ at \in Measuring \cup {"measured", "build"} => k \in Kernel
  /\ at \in Measuring \cup {"measured"} /\ named = 0 => k \in available /\ ~Excluded(k)
  /\ named = 0 /\ at # "exited" =>
       /\ verifyFailed + couldNotRun < k
       /\ \A x \in Kernel : x >= k => passed[x] = 0 /\ x \notin wrongIn
  /\ verifyFailed + couldNotRun <= Len(Table)
  /\ at = "options" => k = (IF named = 0 THEN 1 ELSE named)
  /\ at = "select" => named = 0
  /\ named # 0 => k = named
  /\ at = "build" => named # 0
  /\ at \in Measuring \ {"begin", "sample", "done"} => sampled = 0
  /\ at = "sample" => sampled < NumSamples

(* What the results so far amount to. *)
Ranking ==
  /\ bestHps = (IF best = 0 THEN 0 ELSE passed[best])
  /\ \A x \in Kernel : passed[x] <= bestHps
  /\ best # 0 => best \in available /\ ~Excluded(best) /\ bestHps # 0
  /\ \A x \in Kernel : passed[x] # 0 => x \notin wrongIn /\ (OnCpu(x) => Divides(x))
  /\ wrongIn # {} => verifyFailed > 0

(* The corpus in memory. *)
Corpus ==
  /\ at \in Measuring => memory = Lanes(k)
  /\ named = 0 /\ InLoop => memory = corpusLanes
  /\ at \in {"options", "build"} => memory = 0
  /\ at = "options" => corpusLanes = 0
  /\ at = "exited" => memory = 0

(* Threads and energy sources. *)
Owned ==
  /\ at \notin Measuring \/ at = "begin" => power = "closed"
  /\ at \notin Timed \cup {"done"} => ~pool

(* What the fields of a result say. *)
Truth ==
  /\ at \in {"validate", "pool", "device"} \cup Timed => ~verified /\ ~runError /\ ~wrongNow
  /\ at \in {"validate", "pool"} \cup Timed => OnCpu(k)
  /\ at = "device" => ~OnCpu(k)
  /\ at \in {"pool"} \cup Timed => Divides(k)
  /\ at \in {"done", "measured"} /\ OnCpu(k) => verified \/ runError \/ wrongNow \/ ~Divides(k)
  /\ at \in {"done", "measured"} /\ verified => median # 0 /\ ~wrongNow /\ (OnCpu(k) => Divides(k))
  /\ at \in {"done", "measured"} /\ wrongNow => ~verified /\ ~runError
  /\ at = "build" \/ (named # 0 /\ at \in Measuring \cup {"measured"}) =>
       (OnCpu(k) => Divides(k))

Inv == Types /\ Position /\ Ranking /\ Corpus /\ Owned /\ Truth /\ ExitHonest

-----------------------------------------------------------------------------

(* What the assumptions say of a kernel and of the bounds, in the form the steps
   use. *)
LEMMA Constants ==
  /\ Len(Table) \in Nat /\ Kernel = 1 .. Len(Table)
  /\ NumSamples \in Nat \ {0} /\ Speeds \subseteq Nat \ {0}
  BY TableAssumption, SizesAssumption, SpeedsAssumption DEF Kernel

(* The invariant holds before main has read its options. *)
LEMMA InvInit == Init => Inv
<1> SUFFICES ASSUME Init
             PROVE  Inv
  OBVIOUS
<1> USE Constants
<1>1. available \subseteq Kernel
  BY PortableAssumption DEF Init
<1>2. Types
  <2>1. k \in 1 .. Len(Table) + 1 /\ named \in {0} \cup Kernel
    BY DEF Init
  <2>2. {memory, corpusLanes} \subseteq {0} \cup {Lanes(x) : x \in Kernel}
    BY DEF Init
  <2>3. passed \in [Kernel -> {0} \cup Speeds] /\ wrongIn \subseteq Kernel
    BY DEF Init
  <2>4. /\ verifyFailed \in Nat /\ couldNotRun \in Nat /\ sampled \in 0 .. NumSamples
        /\ bestHps \in {0} \cup Speeds /\ median \in {0} \cup Speeds
        /\ best \in {0} \cup Kernel
    BY DEF Init
  <2>5. /\ backends \subseteq Backends /\ at = "options" /\ power = "closed" /\ exit = "none"
        /\ {verified, runError, pool, wrongNow} \subseteq BOOLEAN
        /\ where \in {"any", "cpu", "device"}
    BY DEF Init
  <2> QED
    BY <1>1, <2>1, <2>2, <2>3, <2>4, <2>5 DEF Types
<1>3. Position
  BY DEF Init, Position, Measuring, Timed
<1>4. Ranking
  BY DEF Init, Ranking
<1>5. Corpus /\ Owned /\ Truth /\ ExitHonest
  BY DEF Init, Corpus, InLoop, Owned, Truth, ExitHonest, Measuring, Timed
<1> QED
  BY <1>2, <1>3, <1>4, <1>5 DEF Inv

(* Every step preserves the invariant. *)
LEMMA InvNext == Inv /\ [Next]_vars => Inv'
<1> SUFFICES ASSUME Inv, [Next]_vars
             PROVE  Inv'
  OBVIOUS
<1> USE Constants DEF Measuring, Timed
<1>1. ASSUME UseNamed
      PROVE  Inv'
  <2>1. Types'
    BY <1>1
    DEF Inv, Types, UseNamed, cfgVars, tuneVars, resultVars, ownVars, ExitWith, Runnable
  <2>2. Position'
    BY <1>1
    DEF Inv, Types, Position, Excluded, UseNamed, cfgVars, tuneVars, resultVars,
       ownVars, ExitWith, Runnable
  <2>3. Ranking'
    BY <1>1
    DEF Inv, Ranking, Excluded, UseNamed, cfgVars, tuneVars, resultVars, ownVars,
       ExitWith, Runnable
  <2>4. Corpus'
    BY <1>1
    DEF Inv, Corpus, InLoop, UseNamed, cfgVars, tuneVars, resultVars, ownVars, ExitWith,
       Runnable
  <2>5. Owned'
    BY <1>1
    DEF Inv, Owned, UseNamed, cfgVars, tuneVars, resultVars, ownVars, ExitWith, Runnable
  <2>6. Truth'
    BY <1>1
    DEF Inv, Truth, UseNamed, cfgVars, tuneVars, resultVars, ownVars, ExitWith, Runnable
  <2>7. ExitHonest'
    BY <1>1
    DEF Inv, ExitHonest, UseNamed, cfgVars, tuneVars, resultVars, ownVars, ExitWith,
       Runnable
  <2> QED
    BY <2>1, <2>2, <2>3, <2>4, <2>5, <2>6, <2>7 DEF Inv
<1>2. ASSUME UseAny
      PROVE  Inv'
  <2>1. Types'
    BY <1>2
    DEF Inv, Types, UseAny, cfgVars, tuneVars, resultVars, ownVars, ExitWith
  <2>2. Position'
    BY <1>2
    DEF Inv, Position, Excluded, UseAny, cfgVars, tuneVars, resultVars, ownVars, ExitWith
  <2>3. Ranking'
    BY <1>2
    DEF Inv, Ranking, Excluded, UseAny, cfgVars, tuneVars, resultVars, ownVars, ExitWith
  <2>4. Corpus'
    BY <1>2
    DEF Inv, Corpus, InLoop, UseAny, cfgVars, tuneVars, resultVars, ownVars, ExitWith
  <2>5. Owned'
    BY <1>2
    DEF Inv, Owned, UseAny, cfgVars, tuneVars, resultVars, ownVars, ExitWith
  <2>6. Truth'
    BY <1>2
    DEF Inv, Truth, UseAny, cfgVars, tuneVars, resultVars, ownVars, ExitWith
  <2>7. ExitHonest'
    BY <1>2
    DEF Inv, Types, Position, Ranking, Truth, ExitHonest, UseAny, cfgVars, tuneVars,
       resultVars, ownVars, ExitWith
  <2> QED
    BY <2>1, <2>2, <2>3, <2>4, <2>5, <2>6, <2>7 DEF Inv
<1>3. ASSUME Skip
      PROVE  Inv'
  <2>1. Types'
    BY <1>3 DEF Inv, Types, Skip, cfgVars, tuneVars, resultVars, ownVars
  <2>2. Position'
    BY <1>3
    DEF Inv, Types, Position, Excluded, Skip, cfgVars, tuneVars, resultVars, ownVars
  <2>3. Ranking'
    BY <1>3
    DEF Inv, Ranking, Excluded, Skip, cfgVars, tuneVars, resultVars, ownVars
  <2>4. Corpus'
    BY <1>3
    DEF Inv, Corpus, InLoop, Skip, cfgVars, tuneVars, resultVars, ownVars
  <2>5. Owned'
    BY <1>3 DEF Inv, Owned, Skip, cfgVars, tuneVars, resultVars, ownVars
  <2>6. Truth'
    BY <1>3 DEF Inv, Truth, Skip, cfgVars, tuneVars, resultVars, ownVars
  <2>7. ExitHonest'
    BY <1>3
    DEF Inv, ExitHonest, Skip, cfgVars, tuneVars, resultVars, ownVars
  <2> QED
    BY <2>1, <2>2, <2>3, <2>4, <2>5, <2>6, <2>7 DEF Inv
<1>4. ASSUME Reuse
      PROVE  Inv'
  <2>1. Types'
    BY <1>4
    DEF Inv, Types, Reuse, Candidate, cfgVars, tuneVars, resultVars, ownVars
  <2>2. Position'
    BY <1>4
    DEF Inv, Position, Excluded, Reuse, Candidate, cfgVars, tuneVars, resultVars, ownVars
  <2>3. Ranking'
    BY <1>4
    DEF Inv, Ranking, Excluded, Reuse, Candidate, cfgVars, tuneVars, resultVars, ownVars
  <2>4. Corpus'
    BY <1>4
    DEF Inv, Types, Position, Corpus, InLoop, Reuse, Candidate, cfgVars, tuneVars,
       resultVars, ownVars
  <2>5. Owned'
    BY <1>4
    DEF Inv, Owned, Reuse, Candidate, cfgVars, tuneVars, resultVars, ownVars
  <2>6. Truth'
    BY <1>4
    DEF Inv, Types, Position, Truth, Reuse, Candidate, cfgVars, tuneVars, resultVars,
       ownVars
  <2>7. ExitHonest'
    BY <1>4
    DEF Inv, ExitHonest, Reuse, Candidate, cfgVars, tuneVars, resultVars, ownVars
  <2> QED
    BY <2>1, <2>2, <2>3, <2>4, <2>5, <2>6, <2>7 DEF Inv
<1>5. ASSUME Rebuild
      PROVE  Inv'
  <2>1. Types'
    BY <1>5 DEF Inv, Types, Rebuild, Candidate, cfgVars, resultVars, ownVars
  <2>2. Position'
    BY <1>5
    DEF Inv, Position, Excluded, Rebuild, Candidate, cfgVars, resultVars, ownVars
  <2>3. Ranking'
    BY <1>5
    DEF Inv, Ranking, Excluded, Rebuild, Candidate, cfgVars, resultVars, ownVars
  <2>4. Corpus'
    BY <1>5
    DEF Inv, Corpus, InLoop, Rebuild, Candidate, cfgVars, resultVars, ownVars
  <2>5. Owned'
    BY <1>5 DEF Inv, Owned, Rebuild, Candidate, cfgVars, resultVars, ownVars
  <2>6. Truth'
    BY <1>5
    DEF Inv, Types, Position, Truth, Rebuild, Candidate, cfgVars, resultVars, ownVars
  <2>7. ExitHonest'
    BY <1>5
    DEF Inv, ExitHonest, Rebuild, Candidate, cfgVars, resultVars, ownVars
  <2> QED
    BY <2>1, <2>2, <2>3, <2>4, <2>5, <2>6, <2>7 DEF Inv
<1>6. ASSUME RebuildFails
      PROVE  Inv'
  <2>1. Types'
    BY <1>6
    DEF Inv, Types, RebuildFails, Candidate, cfgVars, resultVars, ownVars
  <2>2. Position'
    BY <1>6
    DEF Inv, Types, Position, Excluded, RebuildFails, Candidate, cfgVars, resultVars,
       ownVars
  <2>3. Ranking'
    BY <1>6
    DEF Inv, Ranking, Excluded, RebuildFails, Candidate, cfgVars, resultVars, ownVars
  <2>4. Corpus'
    BY <1>6
    DEF Inv, Corpus, InLoop, RebuildFails, Candidate, cfgVars, resultVars, ownVars
  <2>5. Owned'
    BY <1>6
    DEF Inv, Owned, RebuildFails, Candidate, cfgVars, resultVars, ownVars
  <2>6. Truth'
    BY <1>6
    DEF Inv, Truth, RebuildFails, Candidate, cfgVars, resultVars, ownVars
  <2>7. ExitHonest'
    BY <1>6
    DEF Inv, ExitHonest, RebuildFails, Candidate, cfgVars, resultVars, ownVars
  <2> QED
    BY <2>1, <2>2, <2>3, <2>4, <2>5, <2>6, <2>7 DEF Inv
<1>7. ASSUME Account
      PROVE  Inv'
  <2>1. Types'
    BY <1>7
    DEF Inv, Types, Position, Account, NewBest, Blames, cfgVars, resultVars, ownVars
  <2>2. Position'
    BY <1>7
    DEF Inv, Types, Position, Excluded, Account, NewBest, Blames, cfgVars, resultVars,
       ownVars
  <2>3. Ranking'
    <3>1. /\ k \in Kernel /\ k \in available /\ ~Excluded(k) /\ passed[k] = 0
      BY <1>7 DEF Inv, Types, Position, Account
    <3>2. /\ \A x \in Kernel : passed[x] \in Nat
          /\ bestHps \in Nat /\ median \in Nat
      <4>1. /\ passed \in [Kernel -> {0} \cup Speeds]
            /\ bestHps \in {0} \cup Speeds /\ median \in {0} \cup Speeds
        BY DEF Inv, Types
      <4>2. {0} \cup Speeds \subseteq Nat
        BY Constants
      <4> HIDE Constants
      <4> QED
        BY <4>1, <4>2
    <3>3. /\ verified => ~wrongNow /\ median # 0 /\ (OnCpu(k) => Divides(k))
          /\ wrongNow => ~verified /\ ~runError
      BY <1>7 DEF Inv, Truth, Account
    <3>4. \A x \in Kernel : Excluded(x)' <=> Excluded(x)
      BY <1>7 DEF Account, cfgVars, Excluded
    <3>5. best' \in {0} \cup Kernel
      BY <1>7, <3>1, <3>2 DEF Inv, Types, Account, NewBest
    <3>6. CASE verified
      <4>1. passed' = [passed EXCEPT ![k] = median] /\ wrongIn' = wrongIn
        BY <1>7, <3>3, <3>6 DEF Account
      <4>2. \A x \in Kernel : passed'[x] = IF x = k THEN median ELSE passed[x]
        BY <4>1, <3>1, <3>2 DEF Inv, Types
      <4>3. wrongIn' # {} => verifyFailed' > 0
        BY <1>7, <4>1, <3>6 DEF Inv, Ranking, Account, Blames
      <4>4. CASE median > bestHps
        <5>1. best' = k /\ bestHps' = median
          BY <1>7, <3>6, <4>4 DEF Account, NewBest
        <5>2. \A x \in Kernel : passed'[x] <= bestHps'
          BY <3>1, <3>2, <4>2, <4>4, <5>1 DEF Inv, Ranking
        <5>3. \A x \in Kernel : passed'[x] # 0 => x \notin wrongIn' /\ (OnCpu(x) => Divides(x))
          BY <1>7, <3>1, <3>2, <3>3, <3>6, <4>1, <4>2 DEF Inv, Ranking, Position, Account
        <5> QED
          BY <1>7, <3>1, <3>2, <3>3, <3>4, <3>6, <4>2, <4>3, <5>1, <5>2, <5>3
          DEF Ranking, Account, cfgVars
      <4>5. CASE ~(median > bestHps)
        <5>1. best' = best /\ bestHps' = bestHps
          BY <1>7, <3>6, <4>5 DEF Account, NewBest
        <5>2. best # k
          BY <3>1, <3>2, <3>3, <3>6, <4>5 DEF Inv, Ranking
        <5>3. \A x \in Kernel : passed'[x] <= bestHps'
          BY <3>1, <3>2, <4>2, <4>5, <5>1 DEF Inv, Ranking
        <5>4. \A x \in Kernel : passed'[x] # 0 => x \notin wrongIn' /\ (OnCpu(x) => Divides(x))
          BY <1>7, <3>1, <3>2, <3>3, <3>6, <4>1, <4>2 DEF Inv, Ranking, Position, Account
        <5> QED
          BY <1>7, <3>4, <3>5, <4>2, <4>3, <5>1, <5>2, <5>3, <5>4
          DEF Inv, Ranking, Account, cfgVars
      <4> QED
        BY <4>4, <4>5
    <3>7. CASE ~verified
      <4>1. passed' = passed /\ best' = best /\ bestHps' = bestHps
        BY <1>7, <3>7 DEF Account
      <4>2. wrongIn' # {} => verifyFailed' > 0
        BY <1>7, <3>3, <3>7 DEF Inv, Types, Ranking, Account, Blames
      <4>3. \A x \in Kernel : passed[x] # 0 => x \notin wrongIn'
        BY <1>7, <3>1, <3>2 DEF Inv, Ranking, Account
      <4> QED
        BY <1>7, <3>4, <3>5, <4>1, <4>2, <4>3 DEF Inv, Ranking, Account, cfgVars
    <3> QED
      BY <1>7, <3>6, <3>7 DEF Inv, Types
  <2>4. Corpus'
    BY <1>7
    DEF Inv, Corpus, InLoop, Account, NewBest, Blames, cfgVars, resultVars, ownVars
  <2>5. Owned'
    BY <1>7
    DEF Inv, Owned, Account, NewBest, Blames, cfgVars, resultVars, ownVars
  <2>6. Truth'
    BY <1>7
    DEF Inv, Truth, Account, NewBest, Blames, cfgVars, resultVars, ownVars
  <2>7. ExitHonest'
    BY <1>7
    DEF Inv, ExitHonest, Account, NewBest, Blames, cfgVars, resultVars, ownVars
  <2> QED
    BY <2>1, <2>2, <2>3, <2>4, <2>5, <2>6, <2>7 DEF Inv
<1>8. ASSUME Choose
      PROVE  Inv'
  <2>1. Types'
    BY <1>8 DEF Inv, Types, Choose, NoKernel, resultVars, ownVars, ExitWith
  <2>2. Position'
    BY <1>8
    DEF Inv, Types, Position, Excluded, Choose, NoKernel, resultVars, ownVars, ExitWith
  <2>3. Ranking'
    BY <1>8
    DEF Inv, Ranking, Excluded, Choose, NoKernel, resultVars, ownVars, ExitWith
  <2>4. Corpus'
    BY <1>8
    DEF Inv, Corpus, InLoop, Choose, NoKernel, resultVars, ownVars, ExitWith
  <2>5. Owned'
    BY <1>8 DEF Inv, Owned, Choose, NoKernel, resultVars, ownVars, ExitWith
  <2>6. Truth'
    BY <1>8
    DEF Inv, Types, Position, Ranking, Truth, Choose, NoKernel, resultVars, ownVars,
       ExitWith
  <2>7. ExitHonest'
    BY <1>8
    DEF Inv, Types, Position, Ranking, Truth, ExitHonest, Choose, NoKernel, resultVars,
       ownVars, ExitWith
  <2> QED
    BY <2>1, <2>2, <2>3, <2>4, <2>5, <2>6, <2>7 DEF Inv
<1>9. ASSUME Build
      PROVE  Inv'
  <2>1. Types'
    BY <1>9
    DEF Inv, Types, Position, Build, cfgVars, tuneVars, resultVars, ownVars
  <2>2. Position'
    BY <1>9
    DEF Inv, Position, Excluded, Build, cfgVars, tuneVars, resultVars, ownVars
  <2>3. Ranking'
    BY <1>9
    DEF Inv, Ranking, Excluded, Build, cfgVars, tuneVars, resultVars, ownVars
  <2>4. Corpus'
    BY <1>9
    DEF Inv, Types, Position, Corpus, InLoop, Build, cfgVars, tuneVars, resultVars,
       ownVars
  <2>5. Owned'
    BY <1>9 DEF Inv, Owned, Build, cfgVars, tuneVars, resultVars, ownVars
  <2>6. Truth'
    BY <1>9 DEF Inv, Truth, Build, cfgVars, tuneVars, resultVars, ownVars
  <2>7. ExitHonest'
    BY <1>9
    DEF Inv, ExitHonest, Build, cfgVars, tuneVars, resultVars, ownVars
  <2> QED
    BY <2>1, <2>2, <2>3, <2>4, <2>5, <2>6, <2>7 DEF Inv
<1>10. ASSUME BuildFails
      PROVE  Inv'
  <2>1. Types'
    BY <1>10 DEF Inv, Types, BuildFails, cfgVars, tuneVars, ownVars, ExitWith
  <2>2. Position'
    BY <1>10
    DEF Inv, Position, Excluded, BuildFails, cfgVars, tuneVars, ownVars, ExitWith
  <2>3. Ranking'
    BY <1>10
    DEF Inv, Ranking, Excluded, BuildFails, cfgVars, tuneVars, ownVars, ExitWith
  <2>4. Corpus'
    BY <1>10
    DEF Inv, Corpus, InLoop, BuildFails, cfgVars, tuneVars, ownVars, ExitWith
  <2>5. Owned'
    BY <1>10 DEF Inv, Owned, BuildFails, cfgVars, tuneVars, ownVars, ExitWith
  <2>6. Truth'
    BY <1>10 DEF Inv, Truth, BuildFails, cfgVars, tuneVars, ownVars, ExitWith
  <2>7. ExitHonest'
    BY <1>10
    DEF Inv, Types, Position, ExitHonest, Truth, BuildFails, cfgVars, tuneVars, ownVars,
       ExitWith
  <2> QED
    BY <2>1, <2>2, <2>3, <2>4, <2>5, <2>6, <2>7 DEF Inv
<1>11. ASSUME Begin
      PROVE  Inv'
  <2>1. Types'
    <3>1. /\ at' \in Measuring /\ power' = "open" /\ sampled' = 0 /\ median' = 0
          /\ verified' = FALSE /\ runError' = FALSE /\ wrongNow' = FALSE
      BY <1>11 DEF Begin
    <3>2. UNCHANGED <<k, memory, exit, pool, cfgVars, tuneVars>>
      BY <1>11 DEF Begin
    <3>3. sampled' \in 0 .. NumSamples /\ median' \in {0} \cup Speeds
      BY <3>1
    <3>4. {verified', runError', wrongNow'} \subseteq BOOLEAN
      BY <3>1
    <3> QED
      BY <3>1, <3>2, <3>3, <3>4 DEF Inv, Types, cfgVars, tuneVars
  <2>2. Position'
    BY <1>11 DEF Inv, Position, Excluded, Begin, cfgVars, tuneVars
  <2>3. Ranking'
    BY <1>11 DEF Inv, Ranking, Excluded, Begin, cfgVars, tuneVars
  <2>4. Corpus'
    BY <1>11 DEF Inv, Corpus, InLoop, Begin, cfgVars, tuneVars
  <2>5. Owned'
    BY <1>11 DEF Inv, Owned, Begin, cfgVars, tuneVars
  <2>6. Truth'
    BY <1>11 DEF Inv, Truth, Begin, cfgVars, tuneVars
  <2>7. ExitHonest'
    BY <1>11 DEF Inv, ExitHonest, Begin, cfgVars, tuneVars
  <2> QED
    BY <2>1, <2>2, <2>3, <2>4, <2>5, <2>6, <2>7 DEF Inv
<1>12. ASSUME NEW end \in {"passed", "wrong", "cannot run", "broke off"},
              NEW speed \in Speeds, MeasureDevice(end, speed)
      PROVE  Inv'
  <2>1. Types'
    <3>1. /\ at' = "measured" /\ power' = "closed"
          /\ verified' \in BOOLEAN /\ runError' \in BOOLEAN /\ wrongNow' \in BOOLEAN
      BY <1>12, Zenon DEF MeasureDevice
    <3>2. median' \in {0} \cup Speeds
      BY <1>12 DEF MeasureDevice
    <3>3. UNCHANGED <<k, memory, exit, sampled, pool, cfgVars, tuneVars>>
      BY <1>12, Zenon DEF MeasureDevice
    <3> QED
      BY <3>1, <3>2, <3>3 DEF Inv, Types, cfgVars, tuneVars
  <2>2. Position'
    BY <1>12 DEF Inv, Position, Excluded, MeasureDevice, cfgVars, tuneVars
  <2>3. Ranking'
    BY <1>12 DEF Inv, Ranking, Excluded, MeasureDevice, cfgVars, tuneVars
  <2>4. Corpus'
    BY <1>12 DEF Inv, Corpus, InLoop, MeasureDevice, cfgVars, tuneVars
  <2>5. Owned'
    BY <1>12 DEF Inv, Types, Owned, MeasureDevice, cfgVars, tuneVars
  <2>6. Truth'
    BY <1>12 DEF Inv, Truth, MeasureDevice, cfgVars, tuneVars
  <2>7. ExitHonest'
    BY <1>12 DEF Inv, ExitHonest, MeasureDevice, cfgVars, tuneVars
  <2> QED
    BY <2>1, <2>2, <2>3, <2>4, <2>5, <2>6, <2>7 DEF Inv
<1>13. ASSUME NEW yes \in BOOLEAN, Validate(yes)
      PROVE  Inv'
  <2>1. Types'
    <3>1. at' \in {"pool", "done"} /\ wrongNow' \in BOOLEAN
      <4>1. CASE yes /\ Divides(k)
        BY <1>13, <4>1 DEF Validate, Inv, Types
      <4>2. CASE ~(yes /\ Divides(k))
        <5>1. Divides(k) \in BOOLEAN
          BY DEF Divides
        <5> QED
          BY <1>13, <4>2, <5>1 DEF Validate, Stumble
      <4> QED
        BY <4>1, <4>2
    <3> QED
      BY <1>13, <3>1 DEF Inv, Types, Validate, cfgVars, tuneVars, ownVars
  <2>2. Position'
    BY <1>13
    DEF Inv, Position, Excluded, Validate, Stumble, cfgVars, tuneVars, ownVars
  <2>3. Ranking'
    BY <1>13
    DEF Inv, Ranking, Excluded, Validate, Stumble, cfgVars, tuneVars, ownVars
  <2>4. Corpus'
    BY <1>13
    DEF Inv, Corpus, InLoop, Validate, Stumble, cfgVars, tuneVars, ownVars
  <2>5. Owned'
    BY <1>13 DEF Inv, Owned, Validate, Stumble, cfgVars, tuneVars, ownVars
  <2>6. Truth'
    BY <1>13 DEF Inv, Truth, Validate, Stumble, cfgVars, tuneVars, ownVars
  <2>7. ExitHonest'
    BY <1>13
    DEF Inv, ExitHonest, Validate, Stumble, cfgVars, tuneVars, ownVars
  <2> QED
    BY <2>1, <2>2, <2>3, <2>4, <2>5, <2>6, <2>7 DEF Inv
<1>14. ASSUME NEW yes \in BOOLEAN, CreatePool(yes)
      PROVE  Inv'
  <2>1. Types'
    BY <1>14 DEF Inv, Types, CreatePool, cfgVars, tuneVars
  <2>2. Position'
    BY <1>14 DEF Inv, Position, Excluded, CreatePool, cfgVars, tuneVars
  <2>3. Ranking'
    BY <1>14 DEF Inv, Ranking, Excluded, CreatePool, cfgVars, tuneVars
  <2>4. Corpus'
    BY <1>14 DEF Inv, Corpus, InLoop, CreatePool, cfgVars, tuneVars
  <2>5. Owned'
    BY <1>14 DEF Inv, Owned, CreatePool, cfgVars, tuneVars
  <2>6. Truth'
    BY <1>14 DEF Inv, Truth, CreatePool, cfgVars, tuneVars
  <2>7. ExitHonest'
    BY <1>14 DEF Inv, ExitHonest, CreatePool, cfgVars, tuneVars
  <2> QED
    BY <2>1, <2>2, <2>3, <2>4, <2>5, <2>6, <2>7 DEF Inv
<1>15. ASSUME NEW yes \in BOOLEAN, UntimedRun(yes)
      PROVE  Inv'
  <2>1. Types'
    <3>1. at' \in Measuring /\ power' \in {"closed", "open", "running"}
      BY <1>15 DEF UntimedRun, Stumble, Inv, Types
    <3>2. wrongNow' \in BOOLEAN
      BY <1>15, Zenon DEF UntimedRun, Stumble, Inv, Types
    <3>3. UNCHANGED <<k, memory, exit, pool, verified, runError, median, sampled, cfgVars,
                      tuneVars>>
      BY <1>15, Zenon DEF UntimedRun
    <3> QED
      BY <3>1, <3>2, <3>3 DEF Inv, Types, cfgVars, tuneVars
  <2>2. Position'
    BY <1>15
    DEF Inv, Position, Excluded, UntimedRun, Stumble, cfgVars, tuneVars
  <2>3. Ranking'
    BY <1>15
    DEF Inv, Ranking, Excluded, UntimedRun, Stumble, cfgVars, tuneVars
  <2>4. Corpus'
    BY <1>15 DEF Inv, Corpus, InLoop, UntimedRun, Stumble, cfgVars, tuneVars
  <2>5. Owned'
    BY <1>15 DEF Inv, Owned, UntimedRun, Stumble, cfgVars, tuneVars
  <2>6. Truth'
    BY <1>15 DEF Inv, Truth, UntimedRun, Stumble, cfgVars, tuneVars
  <2>7. ExitHonest'
    BY <1>15 DEF Inv, ExitHonest, UntimedRun, Stumble, cfgVars, tuneVars
  <2> QED
    BY <2>1, <2>2, <2>3, <2>4, <2>5, <2>6, <2>7 DEF Inv
<1>16. ASSUME NEW right \in BOOLEAN, NEW speed \in Speeds, SampleRun(right, speed)
      PROVE  Inv'
  <2>1. Types'
    <3>1. at' \in Measuring /\ wrongNow' \in BOOLEAN /\ verified' \in BOOLEAN
      BY <1>16 DEF SampleRun, Stumble, Inv, Types
    <3>2. power' \in {"closed", "open", "running"} /\ median' \in {0} \cup Speeds
      BY <1>16 DEF SampleRun, Inv, Types
    <3>3. sampled' \in 0 .. NumSamples
      BY <1>16 DEF SampleRun, Inv, Types, Position
    <3> QED
      BY <1>16, <3>1, <3>2, <3>3 DEF Inv, Types, SampleRun, cfgVars, tuneVars
  <2>2. Position'
    BY <1>16
    DEF Inv, Position, Excluded, SampleRun, Stumble, cfgVars, tuneVars
  <2>3. Ranking'
    BY <1>16
    DEF Inv, Ranking, Excluded, SampleRun, Stumble, cfgVars, tuneVars
  <2>4. Corpus'
    BY <1>16 DEF Inv, Corpus, InLoop, SampleRun, Stumble, cfgVars, tuneVars
  <2>5. Owned'
    BY <1>16 DEF Inv, Owned, SampleRun, Stumble, cfgVars, tuneVars
  <2>6. Truth'
    BY <1>16 DEF Inv, Truth, SampleRun, Stumble, cfgVars, tuneVars
  <2>7. ExitHonest'
    BY <1>16 DEF Inv, ExitHonest, SampleRun, Stumble, cfgVars, tuneVars
  <2> QED
    BY <2>1, <2>2, <2>3, <2>4, <2>5, <2>6, <2>7 DEF Inv
<1>17. ASSUME Done
      PROVE  Inv'
  <2>1. Types'
    <3>1. at' = "measured" /\ power' = "closed" /\ pool' = FALSE
      BY <1>17 DEF Done, TearDown
    <3>2. UNCHANGED <<k, memory, exit, cfgVars, tuneVars, resultVars>>
      BY <1>17 DEF Done
    <3> QED
      <4>1. /\ at' = "measured" /\ k' = k /\ power' = "closed" /\ pool' \in BOOLEAN
            /\ memory' = memory /\ exit' = exit
        BY <3>1, <3>2
      <4>2. UNCHANGED <<named, where, backends, available, best, bestHps, corpusLanes,
                        verifyFailed, couldNotRun, passed, wrongIn, verified, runError,
                        median, sampled, wrongNow>>
        BY <3>2 DEF cfgVars, tuneVars, resultVars
      <4> QED
        BY <4>1, <4>2 DEF Inv, Types
  <2>2. Position'
    BY <1>17
    DEF Inv, Position, Excluded, Done, TearDown, cfgVars, tuneVars, resultVars
  <2>3. Ranking'
    BY <1>17
    DEF Inv, Ranking, Excluded, Done, TearDown, cfgVars, tuneVars, resultVars
  <2>4. Corpus'
    BY <1>17
    DEF Inv, Corpus, InLoop, Done, TearDown, cfgVars, tuneVars, resultVars
  <2>5. Owned'
    BY <1>17 DEF Inv, Owned, Done, TearDown, cfgVars, tuneVars, resultVars
  <2>6. Truth'
    BY <1>17 DEF Inv, Truth, Done, TearDown, cfgVars, tuneVars, resultVars
  <2>7. ExitHonest'
    BY <1>17
    DEF Inv, ExitHonest, Done, TearDown, cfgVars, tuneVars, resultVars
  <2> QED
    BY <2>1, <2>2, <2>3, <2>4, <2>5, <2>6, <2>7 DEF Inv
<1>18. ASSUME Report
      PROVE  Inv'
  <2>1. Types'
    BY <1>18
    DEF Inv, Types, Report, cfgVars, tuneVars, resultVars, ownVars, ExitWith
  <2>2. Position'
    BY <1>18
    DEF Inv, Position, Excluded, Report, cfgVars, tuneVars, resultVars, ownVars, ExitWith
  <2>3. Ranking'
    BY <1>18
    DEF Inv, Ranking, Excluded, Report, cfgVars, tuneVars, resultVars, ownVars, ExitWith
  <2>4. Corpus'
    BY <1>18
    DEF Inv, Corpus, InLoop, Report, cfgVars, tuneVars, resultVars, ownVars, ExitWith
  <2>5. Owned'
    BY <1>18
    DEF Inv, Owned, Report, cfgVars, tuneVars, resultVars, ownVars, ExitWith
  <2>6. Truth'
    BY <1>18
    DEF Inv, Truth, Report, cfgVars, tuneVars, resultVars, ownVars, ExitWith
  <2>7. ExitHonest'
    BY <1>18
    DEF Inv, Types, Position, ExitHonest, Truth, Report, cfgVars, tuneVars, resultVars,
       ownVars, ExitWith
  <2> QED
    BY <2>1, <2>2, <2>3, <2>4, <2>5, <2>6, <2>7 DEF Inv
<1>19. CASE UNCHANGED vars
  <2>1. Types'
    BY <1>19 DEF Inv, Types, vars, cfgVars, tuneVars, resultVars, ownVars
  <2>2. Position'
    BY <1>19
    DEF Inv, Position, Excluded, vars, cfgVars, tuneVars, resultVars, ownVars
  <2>3. Ranking'
    BY <1>19
    DEF Inv, Ranking, Excluded, vars, cfgVars, tuneVars, resultVars, ownVars
  <2>4. Corpus'
    BY <1>19
    DEF Inv, Corpus, InLoop, vars, cfgVars, tuneVars, resultVars, ownVars
  <2>5. Owned'
    BY <1>19 DEF Inv, Owned, vars, cfgVars, tuneVars, resultVars, ownVars
  <2>6. Truth'
    BY <1>19 DEF Inv, Truth, vars, cfgVars, tuneVars, resultVars, ownVars
  <2>7. ExitHonest'
    BY <1>19
    DEF Inv, ExitHonest, vars, cfgVars, tuneVars, resultVars, ownVars
  <2> QED
    BY <2>1, <2>2, <2>3, <2>4, <2>5, <2>6, <2>7 DEF Inv
<1> QED
  BY <1>1, <1>2, <1>3, <1>4, <1>5, <1>6, <1>7, <1>8, <1>9, <1>10, <1>11, <1>12, <1>13,
     <1>14, <1>15, <1>16, <1>17, <1>18, <1>19 DEF Next, Tune, Measure

(* So it holds always. *)
LEMMA Invariance == Spec => []Inv
  BY InvInit, InvNext, PTL DEF Spec

-----------------------------------------------------------------------------

(* Types and ranges hold always, and the two counts together never exceed the
   kernels of the table. *)
THEOREM AutotuneTypeOK == Spec => []TypeOK
<1>1. Inv => TypeOK
  BY Constants DEF Inv, Types, Position, TypeOK
<1> QED
  BY <1>1, Invariance, PTL

(* Whatever the table, the machine and the order of results, the kernel chosen
   by vb_autotune passed and none that passed was faster. *)
THEOREM AutotuneBestIsFastest == Spec => []BestIsFastest
<1>1. Inv => BestIsFastest
  BY Constants DEF Inv, Types, Ranking, BestIsFastest
<1> QED
  BY <1>1, Invariance, PTL

(* No measurement ever reads a corpus laid out for other lanes, or one that has
   been freed. *)
THEOREM AutotuneCorpusFits == Spec => []CorpusFits
<1>1. Inv => CorpusFits
  BY DEF Inv, Corpus, CorpusFits
<1> QED
  BY <1>1, Invariance, PTL

(* Every way out of a measurement releases its threads and energy sources, and
   every way out of the process its corpus. *)
THEOREM AutotuneTornDown == Spec => []TornDown
<1>1. Inv => TornDown
  BY DEF Inv, Corpus, Owned, TornDown, Measuring, Timed
<1> QED
  BY <1>1, Invariance, PTL

(* A measurement has the corpus it reads for as long as it runs, and nothing it
   took outlives it. *)
THEOREM AutotuneOwnsWhatItUses == Spec => []OwnsWhatItUses
  BY AutotuneCorpusFits, AutotuneTornDown, PTL DEF OwnsWhatItUses

(* The exit code blames the hardware, or publishes a figure, only where the
   digests say so, and a wrong answer outranks all else. *)
THEOREM AutotuneExitHonest == Spec => []ExitHonest
<1>1. Inv => ExitHonest
  BY DEF Inv
<1> QED
  BY <1>1, Invariance, PTL
=============================================================================
