---------------------------------- MODULE Power ----------------------------------
(***************************************************************************)
(* The energy of one measurement: src/power.c from vb_power_open to         *)
(* vb_power_close, in the order in which measure_with_corpus and            *)
(* measure_device of src/bench.c call it, on machines whose processor       *)
(* domains and cards are seen by up to three providers.                     *)
(*                                                                         *)
(* Hardware is a set of parts that draw energy one unit at a time: the      *)
(* cores and the integrated GPU of the package, the memory and the cards.   *)
(* A source reads the parts it measures.  The address of a card is the card *)
(* and a spelling, since the providers write one address differently.       *)
(***************************************************************************)
EXTENDS Integers, Sequences, FiniteSetsExt, SequencesExt, Functions

CONSTANTS
  Machines,   \* records [domains, drm, nvml, nvmlEnergy], in the order of the scans
  Jobs,       \* records [device, cpu, cards]: what hashed, cards used as <<card, address>>
  MaxSrc,     \* VB_POWER_MAX_SRC
  Modulus,    \* max_energy_range_uj
  MaxUnits,   \* bound: energy a part draws in the interval
  MaxSamples  \* bound: timed samples

ASSUME BoundAssumption   == {MaxSrc, MaxUnits, MaxSamples} \subseteq Nat
ASSUME ModulusAssumption == Modulus \in Nat \ {0}

VARIABLES
  at,      \* where the measurement is
  box,     \* the machine
  job,     \* what hashes
  src,     \* p->src
  raw,     \* what each source shows now
  spent,   \* energy of each part since vb_power_begin
  reset,   \* cards that were reset in the interval
  samples, \* timed samples, one second each
  use,     \* g_use, by source
  clocks,  \* [n, lo, hi, first, last] of vb_gpu_clocks
  open,    \* sources with a handle
  rc       \* what measure_with_corpus returns

vars == <<at, box, job, src, raw, spent, reset, samples, use, clocks, open, rc>>

-----------------------------------------------------------------------------
(* Discovery.  The definitions whose name ends in what is wrong with them are
   slips an edit of the code could make. *)

Cards(m)   == {m.drm[i].card : i \in DOMAIN m.drm} \cup {m.nvml[i].card : i \in DOMAIN m.nvml}
Parts(m)   == {"cores", "igpu", "dram"} \cup Cards(m)
NoId       == <<>>

Domains == {"package", "core", "uncore", "psys", "dram"}

\* One socket, and no card is the integrated GPU: the sources of one that is
\* seen both as a card and in the package have nothing to tell them by.
ASSUME MachinesAssumption ==
  \A m \in Machines :
    /\ m.domains \in Seq(Domains) /\ IsInjective(m.domains)
    /\ m.drm \in Seq([card : Cards(m), energy : BOOLEAN])
    /\ m.nvml \in Seq([card : Cards(m), pci : BOOLEAN])
    /\ m.nvmlEnergy \in BOOLEAN
    /\ Cards(m) \cap {"cores", "igpu", "dram"} = {}
\* The address that a device gives the host is its own, or none.
ASSUME JobsAssumption ==
  \A j \in Jobs :
    /\ j.device \in BOOLEAN /\ j.cpu \in BOOLEAN
    /\ \A c \in j.cards : c[2] # NoId => c[2][1] = c[1]

New(kind, scope, prov, contained, id, wrap, parts) ==
  [kind |-> kind, scope |-> scope, provider |-> prov, contained |-> contained, id |-> id,
   wrap |-> wrap, parts |-> parts,
   start |-> 0, joules |-> 0, valid |-> FALSE, counted |-> FALSE]

\* A powercap domain, by its name.
Powercap(m, d) ==
  CASE d = "package" -> New("energy", "package", 0, FALSE, NoId, Modulus, {"cores", "igpu"})
    [] d = "core"    -> New("energy", "cores", 0, FALSE, NoId, Modulus, {"cores"})
    [] d = "uncore"  -> New("energy", "gpu", 0, TRUE, NoId, Modulus, {"igpu"})
    [] d = "psys"    -> New("energy", "other", 0, TRUE, NoId, Modulus, Parts(m))
    [] d = "dram"    -> New("energy", "other", 0, FALSE, NoId, Modulus, {"dram"})

\* A card's hwmon node: its energy counter, or its average power.
DrmHwmon(c) ==
  New(IF c.energy THEN "energy" ELSE "watts", "gpu", 1, FALSE, <<c.card, "lower">>, 0, {c.card})

\* An NVML device, which may not tell its address.
Nvml(m, c) ==
  New(IF m.nvmlEnergy THEN "energy" ELSE "watts", "gpu", 2, FALSE,
      IF c.pci THEN <<c.card, "upper">> ELSE NoId, 0, {c.card})

\* The domains whose counters a user may read, in the order of the scan.
Readable(m) ==
  {[i \in DOMAIN f |-> m.domains[f[i]]] :
     f \in {g \in UNION {[1 .. n -> DOMAIN m.domains] : n \in 0 .. Len(m.domains)} :
             \A i, j \in DOMAIN g : i < j => g[i] < g[j]}}

Scan(m, domains) ==
  [i \in DOMAIN domains |-> Powercap(m, domains[i])]
  \o [i \in DOMAIN m.drm |-> DrmHwmon(m.drm[i])]
  \o [i \in DOMAIN m.nvml |-> Nvml(m, m.nvml[i])]

IsNvml(s) == s.provider = 2
SameDevice(a, b) == a # NoId /\ b # NoId /\ a[1] = b[1]

-----------------------------------------------------------------------------
(* What the sources add up to. *)

\* A reading that failed still stands in for the same card's other ones.
Duplicate_OfInvalid(i) ==
  \E j \in DOMAIN src \ {i} :
    /\ src[j].scope = src[i].scope
    /\ SameDevice(src[j].id, src[i].id)
    /\ \/ src[j].provider < src[i].provider
       \/ src[j].provider = src[i].provider /\ j < i

Duplicate(i) ==
  \E j \in DOMAIN src \ {i} :
    /\ src[j].scope = src[i].scope /\ src[j].valid
    /\ SameDevice(src[j].id, src[i].id)
    /\ \/ src[j].provider < src[i].provider
       \/ src[j].provider = src[i].provider /\ j < i

\* The sources vb_power_total_joules adds, and those of vb_power_hashing_joules.
Totalled ==
  {i \in DOMAIN src : /\ src[i].valid /\ ~src[i].contained /\ src[i].scope # "cores"
                      /\ ~Duplicate(i)}

Hashing ==
  {i \in DOMAIN src : /\ src[i].valid /\ src[i].counted /\ src[i].scope # "cores"
                      /\ (src[i].contained => src[i].scope = "gpu")
                      /\ ~Duplicate(i)}

\* The sources vb_power_scope_joules adds.
InScope(scope) == {i \in DOMAIN src : src[i].scope = scope /\ src[i].valid /\ ~Duplicate(i)}

-----------------------------------------------------------------------------
(* The measurement. *)

NoClocks == [n |-> 0, lo |-> 0, hi |-> 0, first |-> 0, last |-> 0]

\* vb_power_open, by any user: what cannot be read is no source.  Every counter
\* shows what it has counted since the machine came up.
Open ==
  /\ at = "start"
  /\ \E domains \in Readable(box), up \in 0 .. Modulus - 1 :
       LET all == Scan(box, domains)
       IN  /\ src' = SubSeq(all, 1, IF Len(all) < MaxSrc THEN Len(all) ELSE MaxSrc)
           /\ raw' = [i \in DOMAIN src' |-> IF src'[i].kind = "energy" THEN up ELSE 1]
  /\ open' = DOMAIN src'
  /\ at' = "opened"
  /\ UNCHANGED <<box, job, spent, reset, samples, use, clocks, rc>>

\* A kernel that does not validate, a device that does not come up: nothing was
\* begun.
Broken ==
  /\ at \in {"opened", "attributed"}
  /\ at' = "closing"
  /\ UNCHANGED <<box, job, src, raw, spent, reset, samples, use, clocks, open, rc>>

\* vb_power_attribute.
Used(i) == \E c \in job.cards : SameDevice(src[i].id, c[2])
Unmatched ==
  \E c \in job.cards :
    ~\E i \in DOMAIN src : src[i].scope = "gpu" /\ SameDevice(src[i].id, c[2])

IsCounted(i) ==
  LET s == src[i] IN
  CASE s.scope \in {"package", "cores"} -> job.cpu
    [] s.scope = "gpu" ->
         /\ IF s.id # NoId THEN Used(i) ELSE job.cards # {} /\ Unmatched
         /\ ~(s.contained /\ job.cpu)
    [] OTHER -> job.cpu /\ ~s.contained

Attribute ==
  /\ at = "opened"
  /\ src' = [i \in DOMAIN src |-> [src[i] EXCEPT !.counted = IsCounted(i)]]
  /\ at' = "attributed"
  /\ UNCHANGED <<box, job, raw, spent, reset, samples, use, clocks, open, rc>>

\* vb_gpu_clocks_select forgets the whole list at a card without an address,
\* and without a list every card is selected.
Selected(i) ==
  \/ job.cards = {} \/ \E c \in job.cards : c[2] = NoId
  \/ src[i].id = NoId \/ Used(i)

\* vb_power_begin, and vb_gpu_clocks_reset for a device.
Begin ==
  /\ at = "attributed"
  /\ \E failing \in SUBSET DOMAIN src :
       src' = [i \in DOMAIN src |->
                 [src[i] EXCEPT !.valid = i \notin failing, !.start = raw[i], !.joules = 0]]
  /\ use' = IF job.device THEN {i \in DOMAIN src : IsNvml(src[i]) /\ Selected(i)} ELSE {}
  /\ at' = "timed"
  /\ UNCHANGED <<box, job, raw, spent, reset, samples, clocks, open, rc>>

\* A part that anything measures draws a unit of energy: its counters count on.
Draw(p) ==
  /\ at = "timed" /\ spent[p] < MaxUnits
  /\ \E i \in DOMAIN src : p \in src[i].parts
  /\ spent' = [spent EXCEPT ![p] = @ + 1]
  /\ raw' = [i \in DOMAIN src |->
               IF p \notin src[i].parts \/ src[i].kind = "watts" THEN raw[i]
               ELSE IF src[i].wrap > 0 THEN (raw[i] + 1) % src[i].wrap ELSE raw[i] + 1]
  /\ UNCHANGED <<at, box, job, src, reset, samples, use, clocks, open, rc>>

\* A card is reset, or its counter of unknown range wraps: it starts from zero.
ResetCard(c) ==
  /\ at = "timed" /\ c \notin reset
  /\ \E i \in DOMAIN src : src[i].parts = {c} /\ src[i].kind = "energy"
  /\ reset' = reset \cup {c}
  /\ raw' = [i \in DOMAIN src |->
               IF src[i].parts = {c} /\ src[i].kind = "energy" THEN 0 ELSE raw[i]]
  /\ UNCHANGED <<at, box, job, src, spent, samples, use, clocks, open, rc>>

\* One timed sample, with the clock of the busiest card in use, if any answers.
Sample ==
  /\ at = "timed" /\ samples < MaxSamples
  /\ samples' = samples + 1
  /\ \E mhz \in [use -> 0 .. 2] :
       LET hi == IF use = {} THEN 0 ELSE Max(Range(mhz))
       IN  clocks' = IF hi = 0 THEN clocks
                     ELSE IF clocks.n = 0
                       THEN [n |-> 1, lo |-> hi, hi |-> hi, first |-> hi, last |-> hi]
                       ELSE [clocks EXCEPT !.n = @ + 1, !.last = hi,
                               !.lo = Min({@, hi}), !.hi = Max({@, hi})]
  /\ UNCHANGED <<at, box, job, src, raw, spent, reset, use, open, rc>>

\* The joules between two readings, or refused as -1.  Unknown ranges are taken
\* for the known ones.
Between_Guess(s, now) ==
  IF s.kind = "watts" THEN ((s.start + now) * samples) \div 2
  ELSE IF now >= s.start THEN now - s.start
  ELSE (Modulus - s.start) + now

\* No counter is unwrapped.
Between_NoUnwrap(s, now) ==
  IF s.kind = "watts" THEN ((s.start + now) * samples) \div 2
  ELSE IF now >= s.start \/ s.wrap > 0 THEN now - s.start
  ELSE -1

Between(s, now) ==
  IF s.kind = "watts" THEN ((s.start + now) * samples) \div 2
  ELSE IF now >= s.start THEN now - s.start
  ELSE IF s.wrap > 0 THEN (s.wrap - s.start) + now
  ELSE -1

\* vb_power_end for one source.
Close(s, now, fails) ==
  IF ~s.valid \/ fails THEN [s EXCEPT !.valid = FALSE]
  ELSE IF Between(s, now) = -1 THEN [s EXCEPT !.valid = FALSE, !.joules = 0]
  ELSE [s EXCEPT !.joules = Between(s, now)]

End ==
  \E failing \in SUBSET DOMAIN src :
    src' = [i \in DOMAIN src |-> Close(src[i], raw[i], i \in failing)]

\* All samples are in.
Finish ==
  /\ at = "timed" /\ samples = MaxSamples
  /\ End
  /\ rc' = 0
  /\ at' = "closing"
  /\ UNCHANGED <<box, job, raw, spent, reset, samples, use, clocks, open>>

\* A sample fails: the CPU path ends the interval, the device path does not.
SampleFails ==
  /\ at = "timed" /\ samples < MaxSamples
  /\ IF job.device THEN UNCHANGED src ELSE End
  /\ at' = "closing"
  /\ UNCHANGED <<box, job, raw, spent, reset, samples, use, clocks, open, rc>>

\* vb_power_close; the measurements stay.
CloseAll ==
  /\ at = "closing"
  /\ open' = {}
  /\ at' = "closed"
  /\ UNCHANGED <<box, job, src, raw, spent, reset, samples, use, clocks, rc>>

-----------------------------------------------------------------------------

Init ==
  /\ box \in Machines /\ job \in Jobs
  /\ {c[1] : c \in job.cards} \subseteq {"igpu"} \cup Cards(box)
  /\ at = "start" /\ src = <<>> /\ raw = <<>>
  /\ spent = [p \in Parts(box) |-> 0] /\ reset = {}
  /\ samples = 0 /\ use = {} /\ clocks = NoClocks /\ open = {} /\ rc = 1

Next ==
  \/ Open \/ Broken \/ Attribute \/ Begin \/ Sample \/ Finish \/ SampleFails \/ CloseAll
  \/ \E p \in Parts(box) : Draw(p)
  \/ \E c \in Cards(box) : ResetCard(c)

Spec == Init /\ [][Next]_vars

-----------------------------------------------------------------------------
(* What the energy of a report means. *)

(* Every variable has its type; in particular no source has negative energy,
   and the clock range is one. *)
TypeOK ==
  /\ at \in {"start", "opened", "attributed", "timed", "closing", "closed"}
  /\ box \in Machines /\ job \in Jobs
  /\ \A i \in DOMAIN src : {src[i].start, src[i].joules} \subseteq Nat
  /\ Len(src) <= MaxSrc /\ DOMAIN raw = DOMAIN src
  /\ use \subseteq DOMAIN src /\ open \subseteq DOMAIN src
  /\ {clocks.first, clocks.last} \subseteq clocks.lo .. clocks.hi
  /\ at = "closed" => open = {}
  /\ rc \in {0, 1}

Reported == at = "closed" /\ rc = 0
SpentBy(parts) == MapThenSumSet(LAMBDA p : spent[p], parts)

(* A counter that is still valid when the result is reported never shows
   energy its parts did not draw, whatever wrapped or was reset while nobody
   looked; and what one wrap of a known range can hide is put back. *)
EnergyTrue ==
  Reported => \A i \in DOMAIN src :
    LET s == src[i] IN
    s.valid /\ s.kind = "energy" =>
      /\ s.joules <= SpentBy(s.parts)
      /\ (s.wrap > SpentBy(s.parts) \/ (s.wrap = 0 /\ s.parts \cap reset = {}))
           => s.joules = SpentBy(s.parts)

\* Nothing says which card an NVML source without an address measures.
Known(p) == \A i \in DOMAIN src : src[i].provider # 0 /\ p \in src[i].parts => src[i].id # NoId

\* No part is in the sum more than once.
Once(S) == \A p \in Parts(box) : Known(p) => Cardinality({i \in S : p \in src[i].parts}) <= 1

HashedOn == (IF job.cpu THEN {"cores", "igpu", "dram"} ELSE {}) \cup {c[1] : c \in job.cards}

(* The denominator of hashes per joule is the hardware that hashed, each part
   of it once and as long as anything that measures it is still valid, and the
   machine's total has no part twice either: one card seen by two providers,
   domains inside domains and readings that fail between begin and end
   included.  The clocks are those of the cards used.  Cards the driver does
   not identify are excepted, as the code says. *)
MeasuredHardware ==
  /\ Reported =>
       /\ \A S \in {Totalled, Hashing, InScope("gpu")} : Once(S)
       /\ (~Unmatched => \A i \in Hashing : src[i].parts \subseteq HashedOn)
       /\ \A i \in DOMAIN src :
            src[i].valid /\ src[i].scope # "cores" /\ ~src[i].contained =>
              /\ \E j \in Totalled : src[i].parts \subseteq src[j].parts
              /\ (src[i].parts \subseteq HashedOn /\ (src[i].scope = "gpu" => Used(i))) =>
                   \E j \in Hashing : src[i].parts \subseteq src[j].parts
       /\ (job.cards = {<<"igpu", NoId>>} /\ ~job.cpu) =>
            \A i \in DOMAIN src : src[i].valid /\ src[i].parts = {"igpu"} => i \in Hashing
  /\ (job.cards # {} /\ \A c \in job.cards : c[2] # NoId) =>
       \A i \in use : src[i].id # NoId => src[i].parts \subseteq {c[1] : c \in job.cards}

=============================================================================
