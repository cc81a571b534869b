----------------------------- MODULE SweepProofs -----------------------------
(****************************************************************************)
(* Proofs about tools/sweep.py and the command line of src/main.c it uses,  *)
(* for every kernel table, every set of axes and of machines, every         *)
(* command line a user may give, and any number of sweeps and of rows cut   *)
(* off.                                                                     *)
(*                                                                          *)
(* The command line. The option loop is a fold over the options; Says       *)
(* tells what has become of a set of them without their order, and          *)
(* ReadAllSays that this is so of what the loop returns. All that is known  *)
(* of a command follows from it: that its order does not matter, what a     *)
(* command that is not a usage error was checked for, and that what the     *)
(* sweep makes of a point that fits (PointFits) is read as that point.      *)
(*                                                                          *)
(* The file. SweepComplete is not inductive: it says nothing of a sweep     *)
(* that is not done. SweepInv adds what is in the file (WellFormed), which  *)
(* points no sweep will measure again although they have no row (Gone),     *)
(* and the line that is still open. A row cut off adds at most one of       *)
(* each; the next row turns an open line into one more point that is gone,  *)
(* or is taken in by it, between quotes, and the line stays open: hence     *)
(* twice the rows cut off, beside those taken in (Bounded). Only the point  *)
(* of a line that was cut can be gone for good. Counted does the same for   *)
(* the rows that are there, with what is still to be measured.              *)
(****************************************************************************)
EXTENDS Sweep, FiniteSetTheorems, SequenceTheorems, WellFoundedInduction, TLAPS

-----------------------------------------------------------------------------
(* Numbers. *)

(* Some numbers have a least one. *)
LEMMA LeastExists ==
  ASSUME NEW S, S \subseteq Nat, S # {}
  PROVE  \E m \in S : \A k \in S : m <= k
<1> DEFINE R == OpToRel(<, Nat)
<1>1. IsWellFoundedOn(R, Nat)
  BY NatLessThanWellFounded
<1>2. \A j, k \in Nat : <<j, k>> \in R <=> j < k
  BY DEF OpToRel
<1> HIDE DEF R
<1>3. PICK m \in S : \A k \in S : ~(<<k, m>> \in R)
  BY <1>1, WFMin
<1>4. ASSUME NEW k \in S PROVE m <= k
  <2>1. k \in Nat /\ m \in Nat /\ ~(k < m)
    BY <1>2, <1>3
  <2> QED
    BY <2>1
<1> QED
  BY <1>4

(* What goes from each number to the next goes up to the last. *)
LEMMA Upward ==
  ASSUME NEW n \in Nat, NEW G, 0 \in G, \A k \in 1 .. n : k - 1 \in G => k \in G
  PROVE  \A k \in 0 .. n : k \in G
<1> DEFINE Bad == {k \in 0 .. n : k \notin G}
<1>1. SUFFICES ASSUME Bad # {} PROVE FALSE
  BY <1>1
<1>2. PICK m \in Bad : \A k \in Bad : m <= k
  <2>1. Bad \subseteq Nat
    OBVIOUS
  <2> HIDE DEF Bad
  <2> QED
    BY <1>1, <2>1, LeastExists
<1>3. m \in 1 .. n /\ m - 1 \in 0 .. n /\ ~(m <= m - 1)
  BY <1>2
<1>4. m - 1 \in G
  BY <1>2, <1>3
<1> QED
  BY <1>2, <1>3, <1>4

(* Of 1 .. m, the greatest element. *)
LEMMA MaxIs ==
  ASSUME NEW m \in Nat, NEW s \in SUBSET (1 .. m + 1), m + 1 \in s
  PROVE  Max(s) = m + 1
<1>1. \A y \in s : m + 1 >= y
  OBVIOUS
<1>2. \A x \in s : (\A y \in s : x >= y) => x = m + 1
  OBVIOUS
<1> QED
  BY <1>1, <1>2 DEF Max

(* Some numbers up to n have a greatest, and it is one of them. *)
LEMMA Greatest ==
  ASSUME NEW n \in Nat, NEW s \in SUBSET (0 .. n), s # {}
  PROVE  Max(s) \in s /\ \A y \in s : y <= Max(s)
<1> DEFINE T == {k \in 0 .. n : n - k \in s}
<1>1. PICK m \in T : \A k \in T : m <= k
  <2>1. PICK y \in s : TRUE
    OBVIOUS
  <2>2. n - y \in 0 .. n /\ n - (n - y) = y
    BY <2>1
  <2>3. T \subseteq Nat /\ T # {}
    BY <2>2
  <2> HIDE DEF T
  <2> QED
    BY <2>3, LeastExists
<1>2. n - m \in s
  BY <1>1
<1>3. ASSUME NEW y \in s PROVE n - m >= y
  <2>1. n - y \in 0 .. n /\ n - (n - y) = y
    OBVIOUS
  <2>2. m <= n - y
    BY <1>1, <2>1
  <2> QED
    BY <2>1, <2>2, <1>1
<1>4. \E x \in s : \A y \in s : x >= y
  BY <1>2, <1>3
<1>5. Max(s) \in s /\ \A y \in s : Max(s) >= y
  BY <1>4, Zenon DEF Max
<1>6. \A x, y \in s : x >= y => y <= x
  OBVIOUS
<1> QED
  BY <1>5, <1>6, Zenon

(* Of the numbers from 1 to n, some have a greatest. *)
LEMMA MaxIn ==
  ASSUME NEW n \in Nat, NEW s \in SUBSET (1 .. n), s # {}
  PROVE  Max(s) \in s
<1>1. s \in SUBSET (0 .. n)
  OBVIOUS
<1> QED
  BY <1>1, Greatest

(* The greatest of the numbers up to k, and what is left without it. *)
LEMMA Prefix ==
  ASSUME NEW n \in Nat, NEW k \in 1 .. n
  PROVE  /\ 1 .. k \in SUBSET (1 .. n) /\ 1 .. k # {}
         /\ Max(1 .. k) = k /\ (1 .. k) \ {k} = 1 .. k - 1
<1> DEFINE m == k - 1
           s == 1 .. k
<1>1. m \in Nat /\ k = m + 1 /\ s \in SUBSET (1 .. m + 1) /\ m + 1 \in s
  OBVIOUS
<1>2. s \in SUBSET (1 .. n) /\ s # {} /\ s \ {k} = 1 .. k - 1
  OBVIOUS
<1> HIDE DEF m, s
<1>3. Max(s) = k
  BY <1>1, MaxIs
<1> QED
  BY <1>2, <1>3 DEF s

-----------------------------------------------------------------------------
(* Folds. *)

\* What comes of the elements up to the greatest of s, if op adds one more.
Folded(op, base, h, s) == IF s = {} THEN base ELSE op[<<h[s \ {Max(s)}], Max(s)>>]

\* h is what op makes of the sets of numbers up to m.
Folding(T, op, base, m, h) ==
  h \in [SUBSET (1 .. m) -> T] /\ \A s \in SUBSET (1 .. m) : h[s] = Folded(op, base, h, s)

(* There is a fold. *)
LEMMA FoldingExists ==
  ASSUME NEW T, NEW n \in Nat, NEW op \in [T \X (1 .. n) -> T], NEW base \in T
  PROVE  \E h : Folding(T, op, base, n, h)
<1> DEFINE Bad == {m \in 0 .. n : ~\E h : Folding(T, op, base, m, h)}
<1>1. SUFFICES ASSUME Bad # {} PROVE FALSE
  BY <1>1
<1>2. PICK m \in Bad : \A k \in Bad : m <= k
  <2>1. Bad \subseteq Nat
    OBVIOUS
  <2> HIDE DEF Bad
  <2> QED
    BY <1>1, <2>1, LeastExists
<1>3. CASE m = 0
  <2> DEFINE h == [s \in SUBSET (1 .. 0) |-> base]
  <2>1. \A s \in SUBSET (1 .. 0) : s = {}
    OBVIOUS
  <2>2. Folding(T, op, base, 0, h)
    BY <2>1 DEF Folding, Folded
  <2> QED
    BY <1>2, <1>3, <2>2
<1>4. CASE m # 0
  <2> DEFINE l == m - 1
  <2>1. l \in Nat /\ l \in 0 .. n /\ l \notin Bad /\ m = l + 1 /\ m \in 1 .. n
    BY <1>2, <1>4
  <2>2. PICK h : Folding(T, op, base, l, h)
    BY <2>1
  <2> HIDE DEF l
  <2>3. /\ h \in [SUBSET (1 .. l) -> T]
        /\ \A s \in SUBSET (1 .. l) : h[s] = Folded(op, base, h, s)
    BY <2>2 DEF Folding
  <2> DEFINE g == [s \in SUBSET (1 .. m) |-> IF m \in s THEN op[<<h[s \ {m}], m>>] ELSE h[s]]
  <2>4. ASSUME NEW s \in SUBSET (1 .. m), m \notin s
        PROVE  s \in SUBSET (1 .. l) /\ g[s] = h[s] /\ g[s] \in T
    <3>1. s \in SUBSET (1 .. l)
      BY <2>1, <2>4
    <3> QED
      BY <2>3, <2>4, <3>1
  <2>5. ASSUME NEW s \in SUBSET (1 .. m), m \in s
        PROVE  g[s] = op[<<g[s \ {m}], m>>] /\ g[s] \in T /\ Max(s) = m
    <3>1. s \ {m} \in SUBSET (1 .. m) /\ m \notin s \ {m}
      OBVIOUS
    <3>2. g[s \ {m}] = h[s \ {m}] /\ h[s \ {m}] \in T
      BY <2>4, <3>1
    <3>3. Max(s) = m
      BY <2>1, <2>5, MaxIs
    <3>4. op[<<h[s \ {m}], m>>] \in T
      <4> DEFINE x == h[s \ {m}]
      <4>1. x \in T
        BY <3>2
      <4> HIDE DEF x
      <4>2. <<x, m>> \in T \X (1 .. n)
        BY <2>1, <4>1
      <4>3. op[<<x, m>>] \in T
        BY <4>2
      <4> QED
        BY <4>3 DEF x
    <3> QED
      BY <2>5, <3>2, <3>3, <3>4
  <2>6. g \in [SUBSET (1 .. m) -> T]
    <3>1. \A s \in SUBSET (1 .. m) : g[s] \in T
      BY <2>4, <2>5
    <3> QED
      BY <3>1
  <2>7. ASSUME NEW s \in SUBSET (1 .. m) PROVE g[s] = Folded(op, base, g, s)
    <3>1. CASE m \in s
      <4> HIDE DEF g
      <4> QED
        BY <2>5, <3>1 DEF Folded
    <3>2. CASE m \notin s
      <4>1. s \in SUBSET (1 .. l) /\ g[s] = h[s]
        BY <2>4, <3>2
      <4>2. CASE s = {}
        BY <2>3, <4>1, <4>2 DEF Folded
      <4>3. CASE s # {}
        <5> DEFINE r == s \ {Max(s)}
        <5>1. r \in SUBSET (1 .. m) /\ m \notin r
          BY <3>2
        <5>2. g[r] = h[r]
          BY <2>4, <5>1
        <5>3. h[s] = op[<<h[r], Max(s)>>]
          BY <2>3, <4>1, <4>3 DEF Folded
        <5> HIDE DEF g, r
        <5>4. g[s] = op[<<g[r], Max(s)>>]
          BY <4>1, <5>2, <5>3
        <5> QED
          BY <4>3, <5>4 DEF Folded, r
      <4> QED
        BY <4>2, <4>3
    <3> QED
      BY <3>1, <3>2
  <2>8. Folding(T, op, base, m, g)
    <3> HIDE DEF g
    <3> QED
      BY <2>6, <2>7 DEF Folding
  <2> QED
    BY <1>2, <2>8
<1> QED
  BY <1>3, <1>4

-----------------------------------------------------------------------------
(* What the option loop makes of a command line. *)

\* What options may set.
Settings == DOMAIN Defaults \ {"given", "action", "early"}

(* The options there are. *)
LEMMA OptionNames ==
  /\ DOMAIN Words = {"algorithm", "transfer", "host_memory", "primitives", "compile", "where"}
  /\ DOMAIN Bounds = {"chunks", "threads", "iterations", "bytes", "ws", "samples", "time_ms",
                      "warmup_ms"}
  /\ DOMAIN Defaults = {"algorithm", "transfer", "host_memory", "primitives", "compile", "where",
                        "chunks", "threads", "iterations", "bytes", "ws", "samples", "time_ms",
                        "warmup_ms", "device", "backend", "geometry", "dump", "import",
                        "kernel", "expect", "ladder", "given", "action", "early"}
<1>1. DOMAIN Words = {"algorithm", "transfer", "host_memory", "primitives", "compile", "where"}
  BY DEF Words
<1>2. DOMAIN Bounds = {"chunks", "threads", "iterations", "bytes", "ws", "samples", "time_ms",
                       "warmup_ms"}
  BY DEF Bounds
<1>3. DOMAIN Defaults = {"algorithm", "transfer", "host_memory", "primitives", "compile", "where",
                        "chunks", "threads", "iterations", "bytes", "ws", "samples", "time_ms",
                        "warmup_ms", "device", "backend", "geometry", "dump", "import",
                        "kernel", "expect", "ladder", "given", "action", "early"}
  BY DEF Defaults
<1> QED
  BY <1>1, <1>2, <1>3

(* No option of the command line sets what the loop keeps for itself. *)
LEMMA ValidNames ==
  ASSUME NEW o, Valid(o)
  PROVE  o[1] \notin {"given", "action", "early", "version", "help"}
BY OptionNames DEF Valid, Late, Flags, Actions

\* What c says of the options in S, in any order.
Says(S, c) ==
  /\ c = [x \in DOMAIN Defaults |-> c[x]]
  /\ c.early \in {"no", "ok", "usage"}
  /\ c.early = "ok" => \E o \in S : o[1] \in {"version", "help"}
  /\ c.early = "usage" => \E o \in S : ~Valid(o)
  /\ c.early = "no" =>
       /\ \A o \in S : Valid(o)
       /\ c.given = UNION {Names(o) : o \in S}
       /\ \/ c.action = "run" /\ \A o \in S : o[1] \notin Actions
          \/ \E o \in S : o[1] \in Actions /\ c.action = o[1]
       /\ \A x \in Settings :
            \/ \E o \in S : o[1] = x /\ c[x] = o[2]
            \/ c[x] = Defaults[x] /\ \A o \in S : o[1] # x

(* The defaults are what no option says. *)
LEMMA NothingSaid == Says({}, Defaults)
<1>1. Defaults = [x \in DOMAIN Defaults |-> Defaults[x]]
  BY DEF Defaults
<1>2. Defaults.early = "no" /\ Defaults.given = {} /\ Defaults.action = "run"
  BY DEF Defaults
<1>3. UNION {Names(o) : o \in {}} = {}
  OBVIOUS
<1> QED
  BY <1>1, <1>2, <1>3 DEF Says

(* One more option. *)
LEMMA ReadSays ==
  ASSUME NEW S, NEW c, NEW o, Says(S, c)
  PROVE  Says(S \cup {o}, Read(c, o))
<1> DEFINE D == DOMAIN Defaults
<1>0. {"given", "action", "early"} \subseteq D
  BY OptionNames
<1>1. c = [x \in D |-> c[x]]
  BY DEF Says
<1> HIDE DEF D
<1>2. CASE c.early # "no"
  <2>1. Read(c, o) = c
    BY <1>2 DEF Read
  <2>2. Says(S \cup {o}, c)
    BY <1>2 DEF Says
  <2> QED
    BY <2>1, <2>2
<1>3. CASE c.early = "no" /\ o[1] \in {"version", "help"}
  <2> DEFINE e == [c EXCEPT !.early = "ok"]
  <2>1. Read(c, o) = e
    BY <1>3 DEF Read
  <2>2. e = [x \in D |-> e[x]] /\ e.early = "ok"
    BY <1>0, <1>1
  <2> HIDE DEF e
  <2>3. Says(S \cup {o}, e)
    BY <1>3, <2>2 DEF Says, D
  <2> QED
    BY <2>1, <2>3
<1>4. CASE c.early = "no" /\ o[1] \notin {"version", "help"} /\ ~Valid(o)
  <2> DEFINE e == [c EXCEPT !.early = "usage"]
  <2>1. Read(c, o) = e
    BY <1>4 DEF Read
  <2>2. e = [x \in D |-> e[x]] /\ e.early = "usage"
    BY <1>0, <1>1
  <2> HIDE DEF e
  <2>3. Says(S \cup {o}, e)
    BY <1>4, <2>2 DEF Says, D
  <2> QED
    BY <2>1, <2>3
<1>5. CASE c.early = "no" /\ o[1] \notin {"version", "help"} /\ Valid(o)
  <2> DEFINE d == [c EXCEPT !.given = @ \cup Names(o),
                            !.action = IF o[1] \in Actions THEN o[1] ELSE @]
             e == IF o[1] \in D THEN [d EXCEPT ![o[1]] = o[2]] ELSE d
  <2>1. /\ d = [x \in D |-> d[x]] /\ d.early = "no" /\ d.given = c.given \cup Names(o)
        /\ d.action = (IF o[1] \in Actions THEN o[1] ELSE c.action)
        /\ \A x \in D \ {"given", "action"} : d[x] = c[x]
    BY <1>0, <1>1, <1>5
  <2>2. Read(c, o) = e
    <3>1. DOMAIN d = D
      BY <2>1
    <3>2. Read(c, o) = IF o[1] \in DOMAIN d THEN [d EXCEPT ![o[1]] = o[2]] ELSE d
      BY <1>5, Zenon DEF Read
    <3> HIDE DEF d
    <3> QED
      BY <3>1, <3>2
  <2>3. o[1] \notin {"given", "action", "early"}
    BY <1>5, ValidNames
  <2> HIDE DEF d
  <2>4. /\ e = [x \in D |-> e[x]] /\ e.early = "no" /\ e.given = d.given /\ e.action = d.action
        /\ \A x \in D \ {o[1]} : e[x] = d[x]
        /\ o[1] \in D => e[o[1]] = o[2]
    BY <1>0, <2>1, <2>3
  <2> HIDE DEF e
  <2>5. e.given = UNION {Names(q) : q \in S \cup {o}}
    <3>1. c.given = UNION {Names(q) : q \in S}
      BY <1>5 DEF Says
    <3>2. UNION {Names(q) : q \in S \cup {o}} = (UNION {Names(q) : q \in S}) \cup Names(o)
      OBVIOUS
    <3> QED
      BY <2>1, <2>4, <3>1, <3>2
  <2>6. \/ e.action = "run" /\ \A q \in S \cup {o} : q[1] \notin Actions
        \/ \E q \in S \cup {o} : q[1] \in Actions /\ e.action = q[1]
    BY <1>5, <2>1, <2>4 DEF Says
  <2>7. ASSUME NEW x \in Settings
        PROVE  \/ \E q \in S \cup {o} : q[1] = x /\ e[x] = q[2]
               \/ e[x] = Defaults[x] /\ \A q \in S \cup {o} : q[1] # x
    <3>1. x \in D /\ x \notin {"given", "action", "early"}
      BY DEF Settings, D
    <3>2. CASE o[1] = x
      BY <2>4, <3>1, <3>2
    <3>3. CASE o[1] # x
      <4>1. e[x] = c[x]
        BY <2>1, <2>4, <3>1, <3>3
      <4>2. \/ \E q \in S : q[1] = x /\ c[x] = q[2]
            \/ c[x] = Defaults[x] /\ \A q \in S : q[1] # x
        BY <1>5 DEF Says
      <4> QED
        BY <3>3, <4>1, <4>2
    <3> QED
      BY <3>2, <3>3
  <2>8. \A q \in S \cup {o} : Valid(q)
    BY <1>5 DEF Says
  <2>9. Says(S \cup {o}, e)
    BY <2>4, <2>5, <2>6, <2>7, <2>8 DEF Says, D
  <2> QED
    BY <2>2, <2>9
<1> QED
  <2>1. c.early \in {"no", "ok", "usage"}
    BY DEF Says
  <2> QED
    BY <1>2, <1>3, <1>4, <1>5

\* f tells what any of the options of argv come to, one after another.
Reading(argv, f) ==
  f = [s \in SUBSET DOMAIN argv |->
         IF s = {} THEN Defaults ELSE Read(f[s \ {Max(s)}], argv[Max(s)])]

(* The loop is a fold, whose value is chosen. *)
LEMMA ReadAllIs ==
  ASSUME NEW argv
  PROVE  ReadAll(argv) = (CHOOSE f : Reading(argv, f))[DOMAIN argv]
  BY Zenon DEF ReadAll, FoldLeft, MapThenFoldSet, Reading

\* What the loop can have come to: any of the values that occur.
Came(argv) ==
  {c \in [DOMAIN Defaults ->
            {Defaults[x] : x \in DOMAIN Defaults} \cup {o[2] : o \in Range(argv)}
            \cup (SUBSET {o[1] : o \in Range(argv)}) \cup {o[1] : o \in Range(argv)}
            \cup {"ok", "usage"}] :
     c.given \in SUBSET {o[1] : o \in Range(argv)}}

(* It begins with a value it may come to ... *)
LEMMA DefaultsCame == ASSUME NEW argv PROVE Defaults \in Came(argv)
<1>1. Defaults.given = {} /\ Defaults = [x \in DOMAIN Defaults |-> Defaults[x]]
  BY DEF Defaults
<1> QED
  BY <1>1 DEF Came

(* ... and every option makes one of another. *)
LEMMA ReadCame ==
  ASSUME NEW argv, NEW c \in Came(argv), NEW o \in Range(argv)
  PROVE  Read(c, o) \in Came(argv)
<1> DEFINE D == DOMAIN Defaults
           G == {q[1] : q \in Range(argv)}
           V == {Defaults[x] : x \in D} \cup {q[2] : q \in Range(argv)}
                \cup (SUBSET G) \cup G \cup {"ok", "usage"}
<1>0. {"given", "action", "early"} \subseteq D
  BY OptionNames
<1>1. /\ o[1] \in G /\ o[2] \in V /\ G \subseteq V /\ SUBSET G \subseteq V
      /\ "ok" \in V /\ "usage" \in V
  OBVIOUS
<1>2. Came(argv) = {e \in [D -> V] : e.given \in SUBSET G}
  BY DEF Came
<1> HIDE DEF D, G, V
<1>3. c \in [D -> V] /\ c.given \in SUBSET G
  BY <1>2
<1>4. CASE c.early # "no"
  BY <1>4 DEF Read
<1>5. CASE c.early = "no" /\ o[1] \in {"version", "help"}
  <2> DEFINE e == [c EXCEPT !.early = "ok"]
  <2>1. e \in [D -> V] /\ e.given = c.given
    BY <1>0, <1>1, <1>3
  <2>2. Read(c, o) = e
    BY <1>5 DEF Read
  <2> QED
    BY <1>2, <1>3, <2>1, <2>2
<1>6. CASE c.early = "no" /\ o[1] \notin {"version", "help"} /\ ~Valid(o)
  <2> DEFINE e == [c EXCEPT !.early = "usage"]
  <2>1. e \in [D -> V] /\ e.given = c.given
    BY <1>0, <1>1, <1>3
  <2>2. Read(c, o) = e
    BY <1>6 DEF Read
  <2> QED
    BY <1>2, <1>3, <2>1, <2>2
<1>7. CASE c.early = "no" /\ o[1] \notin {"version", "help"} /\ Valid(o)
  <2> DEFINE g == c.given \cup Names(o)
             a == IF o[1] \in Actions THEN o[1] ELSE c.action
             d == [c EXCEPT !.given = g, !.action = a]
  <2>1. g \in SUBSET G /\ a \in V
    BY <1>0, <1>1, <1>3 DEF Names
  <2>2. /\ Read(c, o) = IF o[1] \in DOMAIN d THEN [d EXCEPT ![o[1]] = o[2]] ELSE d
    BY <1>7, Zenon DEF Read
  <2> HIDE DEF g, a
  <2>3. d \in [D -> V] /\ d.given = g
    BY <1>0, <1>1, <1>3, <2>1
  <2> HIDE DEF d
  <2>4. o[1] # "given"
    BY <1>7, ValidNames
  <2>5. CASE o[1] \in DOMAIN d
    <3> DEFINE e == [d EXCEPT ![o[1]] = o[2]]
    <3>1. e \in [D -> V] /\ e.given = g
      BY <1>0, <1>1, <2>3, <2>4
    <3> QED
      BY <1>2, <2>1, <2>2, <2>5, <3>1
  <2>6. CASE o[1] \notin DOMAIN d
    BY <1>2, <2>1, <2>2, <2>3, <2>6
  <2> QED
    BY <2>5, <2>6
<1> QED
  BY <1>4, <1>5, <1>6, <1>7

(* What comes of a command line says what its options do. *)
LEMMA ReadAllSays ==
  ASSUME NEW argv, argv \in Seq(Range(argv))
  PROVE  Says(Range(argv), ReadAll(argv))
<1> DEFINE n == Len(argv)
           T == Came(argv)
           S == Range(argv)
           op == [x \in T \X (1 .. n) |-> Read(x[1], argv[x[2]])]
<1>1. n \in Nat /\ DOMAIN argv = 1 .. n /\ \A i \in 1 .. n : argv[i] \in S
  <2> HIDE DEF S
  <2>1. argv \in Seq(S)
    BY DEF S
  <2> QED
    BY <2>1, LenProperties, ElementOfSeq
<1>2. \A c \in T : \A o \in S : Read(c, o) \in T
  BY ReadCame
<1>3. Defaults \in T
  BY DefaultsCame
<1>4. S = {argv[i] : i \in 1 .. n}
  BY <1>1 DEF Range
<1> HIDE DEF n, T, S
<1>5. op \in [T \X (1 .. n) -> T]
  <2>1. ASSUME NEW x \in T \X (1 .. n) PROVE Read(x[1], argv[x[2]]) \in T
    <3>1. x[1] \in T /\ argv[x[2]] \in S
      BY <1>1
    <3> QED
      BY <1>2, <3>1
  <2> QED
    BY <2>1
<1>6. \A x \in T, k \in 1 .. n : op[<<x, k>>] = Read(x, argv[k])
  OBVIOUS
<1> HIDE DEF op
<1>7. PICK h : Folding(T, op, Defaults, n, h)
  BY <1>1, <1>3, <1>5, FoldingExists
<1>8. /\ h \in [SUBSET (1 .. n) -> T]
      /\ \A s \in SUBSET (1 .. n) : h[s] = Folded(op, Defaults, h, s)
  BY <1>7 DEF Folding
<1> DEFINE e(f, s) == IF s = {} THEN Defaults ELSE Read(f[s \ {Max(s)}], argv[Max(s)])
<1>9. ASSUME NEW s \in SUBSET (1 .. n) PROVE h[s] = e(h, s)
  <2>1. CASE s = {}
    BY <1>8, <2>1 DEF Folded
  <2>2. CASE s # {}
    <3> DEFINE m == Max(s)
               y == h[s \ {m}]
    <3>1. m \in 1 .. n
      BY <1>1, <2>2, MaxIn
    <3>2. y \in T
      <4>1. s \ {m} \in SUBSET (1 .. n)
        OBVIOUS
      <4> QED
        BY <1>8, <4>1
    <3>3. h[s] = op[<<y, m>>] /\ e(h, s) = Read(y, argv[m])
      BY <1>8, <2>2 DEF Folded
    <3> HIDE DEF m, y, e
    <3> QED
      BY <1>6, <3>1, <3>2, <3>3
  <2> QED
    BY <2>1, <2>2
<1>10. Reading(argv, h)
  <2>1. h = [s \in SUBSET (1 .. n) |-> h[s]]
    BY <1>8
  <2> HIDE DEF e
  <2>2. [s \in SUBSET (1 .. n) |-> h[s]] = [s \in SUBSET (1 .. n) |-> e(h, s)]
    BY <1>9
  <2>3. h = [s \in SUBSET DOMAIN argv |-> e(h, s)]
    BY <1>1, <2>1, <2>2, Zenon
  <2> QED
    BY <2>3, Zenon DEF Reading, e
<1> DEFINE f == CHOOSE c : Reading(argv, c)
<1>11. Reading(argv, f)
  BY <1>10, Zenon
<1>12. ReadAll(argv) = f[1 .. n]
  BY <1>1, ReadAllIs, Zenon
<1> HIDE DEF f
<1>13. ASSUME NEW s \in SUBSET (1 .. n) PROVE f[s] = e(f, s)
  <2>1. f = [r \in SUBSET (1 .. n) |-> e(f, r)]
    BY <1>1, <1>11, Zenon DEF Reading
  <2> QED
    BY <2>1, Zenon
<1> DEFINE G == {k \in 0 .. n : Says({argv[i] : i \in 1 .. k}, f[1 .. k])}
<1>14. 0 \in G
  <2>1. 1 .. 0 = {} /\ {} \in SUBSET (1 .. n) /\ 0 \in 0 .. n
    BY <1>1
  <2>2. f[{}] = Defaults
    BY <1>13, <2>1, Zenon
  <2>3. {argv[i] : i \in 1 .. 0} = {}
    BY <2>1
  <2>4. Says({argv[i] : i \in 1 .. 0}, f[1 .. 0])
    BY <2>1, <2>2, <2>3, NothingSaid, Zenon
  <2> QED
    BY <2>1, <2>4, Zenon
<1>15. ASSUME NEW k \in 1 .. n, k - 1 \in G PROVE k \in G
  <2>1. /\ 1 .. k \in SUBSET (1 .. n) /\ 1 .. k # {}
        /\ Max(1 .. k) = k /\ (1 .. k) \ {k} = 1 .. k - 1
    BY <1>1, Prefix
  <2>2. f[1 .. k] = Read(f[1 .. k - 1], argv[k])
    BY <1>13, <2>1, Zenon
  <2>3. Says({argv[i] : i \in 1 .. k - 1}, f[1 .. k - 1]) /\ k \in 0 .. n
    <3>1. k \in 0 .. n
      BY <1>1
    <3>2. Says({argv[i] : i \in 1 .. k - 1}, f[1 .. k - 1])
      BY <1>15, Zenon
    <3> QED
      BY <3>1, <3>2
  <2>4. {argv[i] : i \in 1 .. k} = {argv[i] : i \in 1 .. k - 1} \cup {argv[k]}
    <3>1. 1 .. k = (1 .. k - 1) \cup {k}
      BY <1>1
    <3> QED
      BY <3>1
  <2>5. Says({argv[i] : i \in 1 .. k - 1} \cup {argv[k]}, Read(f[1 .. k - 1], argv[k]))
    <3> DEFINE s == {argv[i] : i \in 1 .. k - 1}
               c == f[1 .. k - 1]
               o == argv[k]
    <3>1. Says(s, c)
      BY <2>3
    <3> HIDE DEF s, c, o
    <3>2. Says(s \cup {o}, Read(c, o))
      BY <3>1, ReadSays
    <3> QED
      BY <3>2 DEF s, c, o
  <2>6. Says({argv[i] : i \in 1 .. k}, f[1 .. k])
    BY <2>2, <2>4, <2>5, Zenon
  <2> QED
    BY <2>3, <2>6, Zenon
<1> HIDE DEF G
<1>16. \A k \in 0 .. n : k \in G
  BY <1>1, <1>14, <1>15, Upward
<1>17. n \in G
  BY <1>1, <1>16
<1>18. Says({argv[i] : i \in 1 .. n}, f[1 .. n])
  BY <1>17, Zenon DEF G
<1> QED
  BY <1>4, <1>12, <1>18, Zenon DEF S

-----------------------------------------------------------------------------
(* What a command line may end with. *)

(* A command line ends with one of five codes. *)
LEMMA ExitsAre ==
  ASSUME NEW c, NEW m, c.early \in {"no", "ok", "usage"}
  PROVE  Exits(c, m) \subseteq {"ok", "usage", "noisy", "verify_failed", "cannot_run"}
BY DEF Exits, Measured

(* What one machine calls a usage error no machine runs. *)
LEMMA UsageAnywhere ==
  ASSUME NEW c, NEW m, NEW n, "usage" \in Exits(c, m)
  PROVE  Exits(c, n) \subseteq {"usage", "cannot_run"}
<1>1. CASE c.early # "no"
  <2>1. \A k : Exits(c, k) = {c.early}
    BY <1>1 DEF Exits
  <2> QED
    BY <2>1
<1>2. CASE c.early = "no" /\ c.action \in {"list", "list_devices"}
  BY <1>2 DEF Exits
<1>3. CASE c.early = "no" /\ c.action \notin {"list", "list_devices"}
  BY <1>3 DEF Exits, Measured
<1> QED
  BY <1>1, <1>2, <1>3

(* What is run has passed the checks of every run. *)
LEMMA RunIsSane ==
  ASSUME NEW c, NEW m, c.early = "no", c.action \in {"run", "ladder"},
         Exits(c, m) \cap {"ok", "noisy", "verify_failed"} # {}
  PROVE  Sane(c)
<1>1. c.action \notin {"list", "list_devices"}
  OBVIOUS
<1>2. ~Sane(c) => Exits(c, m) = {"usage"}
  BY <1>1 DEF Exits
<1> QED
  BY <1>2

(* What is hashed was checked. *)
LEMMA SafeIfSane ==
  ASSUME NEW S, NEW c, Says(S, c), c.early = "no", c.action \in {"run", "ladder"}, Sane(c),
         \A o \in S : o[1] = "ladder" => o[2] \in Seq(Nat)
  PROVE  LET most == IF c.action = "ladder" THEN Max(Range(c.ladder)) ELSE c.iterations
         IN  /\ most > 1 => c.bytes >= Algorithms[Algorithm(c)].digest
             /\ AllDistinct(c)
<1> DEFINE most == IF c.action = "ladder" THEN Max(Range(c.ladder)) ELSE c.iterations
           s == {c.iterations} \cup Range(c.ladder)
<1>1. Million \in Nat /\ 1 \in 1 .. Million
  <2>1. Million \in Nat
    BY SMT DEF Million
  <2>2. 1 <= Million
    BY SMT DEF Million
  <2> QED
    BY <2>1, <2>2
<1>2. c.iterations \in 1 .. Million
  <2>1. "iterations" \in Settings /\ Defaults.iterations = 1
    BY OptionNames DEF Settings, Defaults
  <2>2. \/ \E o \in S : o[1] = "iterations" /\ c.iterations = o[2]
        \/ c.iterations = 1
    BY <2>1 DEF Says
  <2>3. ASSUME NEW o \in S, o[1] = "iterations", c.iterations = o[2]
        PROVE  c.iterations \in 1 .. Million
    <3>1. Valid(o)
      BY DEF Says
    <3>2. o[2] \in Bounds.iterations
      BY <2>3, <3>1, OptionNames DEF Valid
    <3>3. Bounds.iterations = 1 .. Million
      BY DEF Bounds
    <3> QED
      BY <2>3, <3>2, <3>3
  <2> QED
    BY <1>1, <2>2, <2>3
<1>3. "ladder" \in Settings /\ Defaults.ladder = <<>>
  BY OptionNames DEF Settings, Defaults
<1>4. /\ Range(c.ladder) \subseteq 1 .. Million
      /\ c.action = "ladder" => Range(c.ladder) # {}
  <2>1. CASE \E o \in S : o[1] = "ladder"
    <3>1. "ladder" \in c.given
      <4>1. PICK o \in S : o[1] = "ladder"
        BY <2>1
      <4>2. Names(o) = {"ladder"}
        BY <4>1 DEF Names
      <4>3. Names(o) \subseteq c.given
        BY DEF Says
      <4> QED
        BY <4>2, <4>3
    <3>2. LadderOk(c.ladder)
      BY <3>1 DEF Sane
    <3>3. c.ladder \in Seq(Nat)
      BY <1>3, <2>1 DEF Says
    <3>4. /\ Range(c.ladder) \subseteq 1 .. Million
          /\ Len(c.ladder) \in 1 .. MaxLadder
      BY <3>2, Zenon DEF LadderOk
    <3>5. 1 \in DOMAIN c.ladder
      BY <3>3, <3>4, LenProperties, CommandAssumption
    <3> QED
      BY <3>4, <3>5 DEF Range
  <2>2. CASE \A o \in S : o[1] # "ladder"
    <3>1. c.ladder = <<>> /\ c.action # "ladder"
      BY <1>3, <2>2 DEF Says
    <3>2. Range(c.ladder) = {}
      BY <3>1 DEF Range
    <3> QED
      BY <3>1, <3>2
  <2> QED
    BY <2>1, <2>2
<1>5. s \in SUBSET (0 .. Million) /\ s # {}
  BY <1>1, <1>2, <1>4
<1>6. Max(s) \in s /\ \A y \in s : y <= Max(s)
  BY <1>1, <1>5, Greatest
<1>7. most \in s
  <2>1. CASE c.action = "ladder"
    <3> DEFINE r == Range(c.ladder)
    <3>1. r \in SUBSET (0 .. Million) /\ r # {}
      BY <1>1, <1>4, <2>1
    <3>2. Max(r) \in r
      BY <1>1, <3>1, Greatest
    <3> QED
      BY <2>1, <3>2
  <2>2. CASE c.action # "ladder"
    BY <2>2
  <2> QED
    BY <2>1, <2>2
<1>8. MaxIterations(c) = Max(s)
  BY DEF MaxIterations
<1>9. most > 1 => MaxIterations(c) > 1
  <2> DEFINE t == most
  <2>0. t \in s
    BY <1>7
  <2> DEFINE u == Max(s)
  <2>2. u \in s /\ \A y \in s : y <= u
    BY <1>6
  <2> HIDE DEF most, s, t, u
  <2>3. u \in 0 .. Million /\ t \in 0 .. Million /\ t <= u
    BY <1>5, <2>0, <2>2
  <2>1. Max(s) \in Nat /\ t \in Nat /\ t <= Max(s)
    BY <1>1, <2>3 DEF u
  <2> QED
    BY <1>8, <2>1 DEF t
<1>10. /\ MaxIterations(c) > 1 => c.bytes >= Algorithms[Algorithm(c)].digest
       /\ AllDistinct(c)
  BY Zenon DEF Sane, MinIterBytes
<1> QED
  BY <1>9, <1>10

(* Options that say the same come to the same, if no two are of the same name
   or ask for different actions. *)
LEMMA SameSaid ==
  ASSUME NEW S, NEW c, NEW d, Says(S, c), Says(S, d), c.early = "no", d.early = "no",
         \A o, q \in S : o[1] = q[1] => o[2] = q[2],
         \A o, q \in S : o[1] \in Actions /\ q[1] \in Actions => o[1] = q[1]
  PROVE  c = d
<1>1. c.given = d.given
  BY DEF Says
<1>2. c.action = d.action
  BY DEF Says
<1>3. ASSUME NEW x \in Settings PROVE c[x] = d[x]
  <2>1. \/ \E o \in S : o[1] = x /\ c[x] = o[2]
        \/ c[x] = Defaults[x] /\ \A o \in S : o[1] # x
    BY DEF Says
  <2>2. \/ \E o \in S : o[1] = x /\ d[x] = o[2]
        \/ d[x] = Defaults[x] /\ \A o \in S : o[1] # x
    BY DEF Says
  <2> QED
    BY <2>1, <2>2
<1>4. \A x \in DOMAIN Defaults : c[x] = d[x]
  BY <1>1, <1>2, <1>3 DEF Settings
<1>5. c = [x \in DOMAIN Defaults |-> c[x]] /\ d = [x \in DOMAIN Defaults |-> d[x]]
  BY DEF Says
<1> HIDE DEF Settings
<1>6. [x \in DOMAIN Defaults |-> c[x]] = [x \in DOMAIN Defaults |-> d[x]]
  BY <1>4
<1> QED
  BY <1>5, <1>6, Zenon

(* Of a set with at most one element no two elements differ. *)
LEMMA AtMostOne ==
  ASSUME NEW S, IsFiniteSet(S), Cardinality(S) <= 1, NEW a \in S, NEW b \in S
  PROVE  a = b
<1> SUFFICES ASSUME a # b PROVE FALSE
  OBVIOUS
<1>1. IsFiniteSet({a}) /\ Cardinality({a}) = 1
  BY FS_Singleton
<1>2. IsFiniteSet({a} \cup {b}) /\ Cardinality({a} \cup {b}) = 2
  <2> DEFINE s == {a}
  <2>1. IsFiniteSet(s) /\ Cardinality(s) = 1 /\ b \notin s
    BY <1>1
  <2> HIDE DEF s
  <2>2. IsFiniteSet(s \cup {b}) /\ Cardinality(s \cup {b}) = 2
    BY <2>1, FS_AddElement
  <2> QED
    BY <2>2 DEF s
<1>3. {a} \cup {b} \in SUBSET S
  OBVIOUS
<1>4. Cardinality({a} \cup {b}) <= Cardinality(S)
  BY <1>3, FS_Subset
<1> DEFINE n == Cardinality(S)
<1>5. n \in Nat
  BY FS_CardinalityType
<1>6. 2 <= n /\ n <= 1
  BY <1>2, <1>4
<1> HIDE DEF n
<1> QED
  BY <1>5, <1>6

(* A command line in another order has the same options. *)
LEMMA Reordered ==
  ASSUME NEW argv, argv \in Seq(Range(argv)), NEW q \in Order(argv)
  PROVE  q \in Seq(Range(argv)) /\ Range(q) = Range(argv)
<1> DEFINE n == Len(argv)
           S == Range(argv)
<1>1. n \in Nat /\ DOMAIN argv = 1 .. n /\ \A i \in 1 .. n : argv[i] \in S
  <2> HIDE DEF S
  <2>1. argv \in Seq(S)
    BY DEF S
  <2> QED
    BY <2>1, LenProperties, ElementOfSeq
<1>2. PICK f \in Orders(1 .. n) : q = [i \in 1 .. n |-> argv[f[i]]]
  BY <1>1 DEF Order
<1>3. f \in Injection(1 .. n, 1 .. n)
  BY DEF Orders, Injection
<1>4. IsFiniteSet(1 .. n)
  BY <1>1, FS_Interval
<1>5. f \in Surjection(1 .. n, 1 .. n)
  BY <1>3, <1>4, FS_Injection
<1>6. f \in [1 .. n -> 1 .. n] /\ \A i \in 1 .. n : \E j \in 1 .. n : f[j] = i
  BY <1>5 DEF Surjection
<1>7. S = {argv[i] : i \in 1 .. n}
  BY <1>1 DEF Range
<1> HIDE DEF n, S
<1>8. q \in [1 .. n -> S]
  BY <1>1, <1>2, <1>6
<1>9. q \in Seq(S)
  BY <1>1, <1>8, SeqDef
<1>10. Range(q) = {q[i] : i \in 1 .. n}
  BY <1>8 DEF Range
<1>11. Range(q) = S
  <2>1. \A i \in 1 .. n : q[i] = argv[f[i]] /\ f[i] \in 1 .. n
    BY <1>2, <1>6
  <2>2. ASSUME NEW i \in 1 .. n PROVE \E j \in 1 .. n : argv[i] = q[j]
    <3>1. PICK j \in 1 .. n : f[j] = i
      BY <1>6
    <3>2. q[j] = argv[i]
      BY <2>1, <3>1
    <3> QED
      BY <3>2
  <2>3. Range(q) \subseteq S
    BY <1>7, <1>10, <2>1
  <2>4. S \subseteq Range(q)
    BY <1>7, <1>10, <2>2
  <2> QED
    BY <2>3, <2>4
<1> QED
  BY <1>9, <1>11 DEF S

(* The order of the options does not matter. *)
LEMMA OrderDoesNotMatter ==
  ASSUME NEW argv, argv \in Seq(Range(argv)), NEW q \in Order(argv),
         Cardinality(Reads(argv)) = Len(argv),
         Cardinality(Reads(argv) \cap Actions) <= 1,
         Reads(argv) \cap {"version", "help"} = {}
  PROVE  Run(q) = Run(argv)
<1> DEFINE S == Range(argv)
           n == Len(argv)
           c == ReadAll(argv)
           d == ReadAll(q)
<1>1. Says(S, c)
  BY ReadAllSays
<1>2. q \in Seq(Range(q)) /\ Range(q) = S
  BY Reordered
<1>3. Says(S, d)
  <2>1. Says(Range(q), d)
    BY <1>2, ReadAllSays
  <2> QED
    BY <1>2, <2>1
<1>4. n \in Nat /\ DOMAIN argv = 1 .. n
  BY LenProperties
<1>5. S = {argv[i] : i \in 1 .. n} /\ Reads(argv) = {argv[i][1] : i \in 1 .. n}
  BY <1>4 DEF Range, Reads
<1>6. \A o, p \in S : o[1] = p[1] => o[2] = p[2]
  <2> DEFINE f == [i \in 1 .. n |-> argv[i][1]]
             R == {argv[i][1] : i \in 1 .. n}
  <2>1. f \in Surjection(1 .. n, R)
    BY DEF Surjection
  <2>2. IsFiniteSet(1 .. n) /\ Cardinality(1 .. n) = n
    <3> HIDE DEF n
    <3>1. Cardinality(1 .. n) = IF 1 > n THEN 0 ELSE n - 1 + 1
      BY <1>4, FS_Interval
    <3> QED
      BY <1>4, <3>1, FS_Interval
  <2>3. Cardinality(R) = n
    BY <1>5
  <2> HIDE DEF R, n
  <2>4. f \in Injection(1 .. n, R)
    BY <2>1, <2>2, <2>3, FS_SurjSameCardinalityImpliesInj
  <2>5. \A i, j \in 1 .. n : argv[i][1] = argv[j][1] => i = j
    BY <2>4 DEF Injection, IsInjective
  <2> QED
    BY <1>5, <2>5
<1>7. \A o, p \in S : o[1] \in Actions /\ p[1] \in Actions => o[1] = p[1]
  <2> DEFINE R == Reads(argv) \cap Actions
  <2>1. IsFiniteSet(R)
    <3>1. IsFiniteSet(Actions)
      <4>1. Actions = ({"list"} \cup {"list_devices"}) \cup {"ladder"}
        BY DEF Actions
      <4> QED
        BY <4>1, FS_Singleton, FS_AddElement
    <3> QED
      BY <3>1, FS_Subset
  <2>2. \A o \in S : o[1] \in Reads(argv)
    BY <1>5
  <2>3. \A a, b \in R : a = b
    BY <2>1, AtMostOne
  <2> QED
    BY <2>2, <2>3
<1>8. \A o \in S : o[1] \notin {"version", "help"}
  BY <1>5
<1> HIDE DEF S, c, d
<1>9. c.early = d.early /\ (c.early = "usage" \/ c.early = "no")
  BY <1>1, <1>3, <1>8 DEF Says
<1>10. Exits(c, machine) = Exits(d, machine)
  <2>1. CASE c.early = "no"
    <3>1. c = d
      BY <1>1, <1>3, <1>6, <1>7, <1>9, <2>1, SameSaid
    <3> QED
      BY <3>1
  <2>2. CASE c.early = "usage"
    BY <1>9, <2>2 DEF Exits
  <2> QED
    BY <1>9, <2>1, <2>2
<1> QED
  BY <1>10 DEF Run, c, d

-----------------------------------------------------------------------------
(* The grid. *)

(* A sequence has finitely many elements. *)
LEMMA RangeFinite ==
  ASSUME NEW S, NEW s \in Seq(S)
  PROVE  IsFiniteSet(Range(s)) /\ Range(s) \subseteq S
<1> DEFINE n == Len(s)
<1>1. n \in Nat /\ s \in [1 .. n -> S] /\ DOMAIN s = 1 .. n
  BY LenProperties
<1> HIDE DEF n
<1>2. IsFiniteSet(1 .. n)
  BY <1>1, FS_Interval
<1>3. s \in Surjection(1 .. n, Range(s))
  BY <1>1 DEF Range, Surjection
<1>4. Range(s) \subseteq S
  BY <1>1 DEF Range
<1> QED
  BY <1>2, <1>3, <1>4, FS_Surjection

\* What the lists of the axes hold.
LEMMA AxesHold ==
  ASSUME NEW a \in Axes
  PROVE  /\ Range(a.algorithm) \subseteq DOMAIN Algorithms
         /\ Range(a.where) \subseteq Words.where
         /\ Range(a.transfer) \subseteq Words.transfer
         /\ Range(a.primitives) \subseteq Words.primitives
         /\ Range(a.chunks) \subseteq {0} \cup Bounds.chunks
         /\ Range(a.bytes) \subseteq Bounds.bytes
         /\ Range(a.iterations) \subseteq Bounds.iterations
         /\ Range(a.ws) \subseteq Bounds.ws
         /\ Range(a.compile) \subseteq Words.compile \cup {"import"}
         /\ a.compile[1] # "import"
         /\ "import" \in Range(a.compile) => <<>> \notin Range(a.kernel)
         /\ \A k \in Range(a.kernel) : k \in Seq(Range(k)) /\ Len(k) <= 2
<1>1. /\ a.algorithm \in Seq(DOMAIN Algorithms) /\ a.where \in Seq(Words.where)
      /\ a.transfer \in Seq(Words.transfer) /\ a.primitives \in Seq(Words.primitives)
      /\ a.chunks \in Seq({0} \cup Bounds.chunks) /\ a.bytes \in Seq(Bounds.bytes)
      /\ a.iterations \in Seq(Bounds.iterations) /\ a.ws \in Seq(Bounds.ws)
      /\ a.compile \in Seq(Words.compile \cup {"import"}) /\ a.kernel \in Seq(Range(a.kernel))
  BY AxesAssumption, Zenon DEF List
<1>2. /\ a.compile[1] # "import"
      /\ "import" \in Range(a.compile) => <<>> \notin Range(a.kernel)
      /\ \A k \in Range(a.kernel) : k \in Seq(Range(k)) /\ Len(k) <= 2
  BY AxesAssumption, Zenon
<1>3. /\ Range(a.algorithm) \subseteq DOMAIN Algorithms /\ Range(a.where) \subseteq Words.where
      /\ Range(a.transfer) \subseteq Words.transfer
      /\ Range(a.primitives) \subseteq Words.primitives
      /\ Range(a.chunks) \subseteq {0} \cup Bounds.chunks /\ Range(a.bytes) \subseteq Bounds.bytes
      /\ Range(a.iterations) \subseteq Bounds.iterations /\ Range(a.ws) \subseteq Bounds.ws
      /\ Range(a.compile) \subseteq Words.compile \cup {"import"}
  BY <1>1, RangeFinite, Zenon
<1> QED
  BY <1>2, <1>3, Zenon

(* There are finitely many points. *)
LEMMA AxisPointsFinite ==
  ASSUME NEW a \in Axes
  PROVE  IsFiniteSet(AxisPoints(a))
<1>1. /\ a.algorithm \in Seq(DOMAIN Algorithms) /\ a.where \in Seq(Words.where)
      /\ a.transfer \in Seq(Words.transfer) /\ a.primitives \in Seq(Words.primitives)
      /\ a.chunks \in Seq({0} \cup Bounds.chunks) /\ a.bytes \in Seq(Bounds.bytes)
      /\ a.iterations \in Seq(Bounds.iterations) /\ a.ws \in Seq(Bounds.ws)
      /\ a.compile \in Seq(Words.compile \cup {"import"}) /\ a.kernel \in Seq(Range(a.kernel))
  BY AxesAssumption, Zenon DEF List
<1> DEFINE A == Range(a.algorithm)
           K == Range(a.kernel)
           W == Range(a.where)
           T == Range(a.transfer)
           C == Range(a.chunks)
           P == Range(a.primitives)
           O == Range(a.compile)
           B == Range(a.bytes)
           I == Range(a.iterations)
           S == Range(a.ws)
           R == [algorithm : A, kernel : K, where : W, transfer : T, chunks : C, primitives : P,
                 compile : O, bytes : B, iterations : I, ws : S]
           M == ((A \X K) \X (W \X T)) \X ((C \X P) \X ((O \X B) \X (I \X S)))
           f == [r \in R |-> <<<<<<r.algorithm, r.kernel>>, <<r.where, r.transfer>>>>,
                               <<<<r.chunks, r.primitives>>,
                                 <<<<r.compile, r.bytes>>, <<r.iterations, r.ws>>>>>>>>]
<1>2. /\ IsFiniteSet(A) /\ IsFiniteSet(K) /\ IsFiniteSet(W) /\ IsFiniteSet(T) /\ IsFiniteSet(C)
      /\ IsFiniteSet(P) /\ IsFiniteSet(O) /\ IsFiniteSet(B) /\ IsFiniteSet(I) /\ IsFiniteSet(S)
  BY <1>1, RangeFinite, Zenon
<1>3. AxisPoints(a) = R
  BY Zenon DEF AxisPoints
<1> HIDE DEF A, K, W, T, C, P, O, B, I, S
<1>4. IsFiniteSet(M)
  <2>1. IsFiniteSet((A \X K) \X (W \X T))
    BY <1>2, FS_Product
  <2>2. IsFiniteSet((O \X B) \X (I \X S))
    BY <1>2, FS_Product
  <2>3. IsFiniteSet((C \X P) \X ((O \X B) \X (I \X S)))
    BY <1>2, <2>2, FS_Product
  <2> QED
    BY <2>1, <2>3, FS_Product
<1>5. f \in [R -> M]
  OBVIOUS
<1>6. \A r, s \in R : f[r] = f[s] => r = s
  OBVIOUS
<1>7. f \in Injection(R, M)
  BY <1>5, <1>6 DEF Injection, IsInjective
<1> QED
  BY <1>3, <1>4, <1>7, FS_Injection

(* A finite set as a sequence. *)
LEMMA SetToSeqIs ==
  ASSUME NEW S, IsFiniteSet(S)
  PROVE  /\ Cardinality(S) \in Nat
         /\ SetToSeq(S) \in [1 .. Cardinality(S) -> S]
         /\ \A x \in S : \E i \in 1 .. Cardinality(S) : SetToSeq(S)[i] = x
<1> DEFINE n == Cardinality(S)
           s == SetToSeq(S)
<1>1. n \in Nat /\ ExistsBijection(1 .. n, S)
  BY FS_CardinalityType
<1>2. PICK f : f \in Bijection(1 .. n, S)
  BY <1>1 DEF ExistsBijection
<1>3. f \in [1 .. n -> S] /\ IsInjective(f)
  BY <1>2 DEF Bijection, Injection
<1>4. s \in [1 .. n -> S] /\ IsInjective(s)
  BY <1>3, Zenon DEF SetToSeq
<1>5. s \in Injection(1 .. n, S)
  BY <1>4 DEF Injection
<1>6. IsFiniteSet(1 .. n) /\ Cardinality(1 .. n) = n
  <2> HIDE DEF n
  <2>1. Cardinality(1 .. n) = IF 1 > n THEN 0 ELSE n - 1 + 1
    BY <1>1, FS_Interval
  <2> QED
    BY <1>1, <2>1, FS_Interval
<1> HIDE DEF s
<1>7. s \in Surjection(1 .. n, S)
  BY <1>5, <1>6, FS_Injection
<1> QED
  BY <1>1, <1>4, <1>7 DEF s, Surjection

(* The grid is a sequence of the points that were asked for. *)
LEMMA GridIs ==
  ASSUME NEW a \in Axes, NEW m
  PROVE  /\ Grid(a, m) \in Seq(Range(Grid(a, m)))
         /\ \A p \in Range(Grid(a, m)) : \E q \in Asked(a, m) : p = Point(q)
<1> DEFINE S == Asked(a, m)
           s == SetToSeq(S)
           n == Cardinality(S)
           g == Grid(a, m)
<1>1. IsFiniteSet(S)
  <2>1. S \subseteq AxisPoints(a)
    BY DEF Asked
  <2> QED
    BY <2>1, AxisPointsFinite, FS_Subset
<1> HIDE DEF S
<1>2. n \in Nat /\ s \in [1 .. n -> S]
  BY <1>1, SetToSeqIs
<1>3. DOMAIN s = 1 .. n
  BY <1>2
<1>4. g = [i \in 1 .. n |-> Point(s[i])]
  BY <1>3, Zenon DEF Grid, S
<1> HIDE DEF s, n, g
<1>5. DOMAIN g = 1 .. n /\ \A i \in 1 .. n : g[i] = Point(s[i])
  BY <1>4
<1>6. Range(g) = {g[i] : i \in 1 .. n}
  BY <1>5 DEF Range
<1>7. g \in [1 .. n -> Range(g)]
  <2>1. g = [i \in 1 .. n |-> g[i]]
    BY <1>4
  <2> QED
    BY <1>6, <2>1
<1>8. g \in Seq(Range(g))
  BY <1>2, <1>7, SeqDef
<1>9. ASSUME NEW p \in Range(g) PROVE \E q \in S : p = Point(q)
  <2>1. PICK i \in 1 .. n : p = g[i]
    BY <1>6
  <2>2. s[i] \in S /\ p = Point(s[i])
    BY <1>2, <1>5, <2>1
  <2> QED
    BY <2>2
<1> QED
  BY <1>8, <1>9 DEF g, S

\* What the sweep's own checks and those of build_grid make sure of.
PointFits(p) ==
  /\ p.algorithm \in DOMAIN Algorithms /\ p.where \in Words.where
  /\ p.transfer \in Words.transfer /\ p.primitives \in Words.primitives
  /\ p.bytes \in Bounds.bytes /\ p.iterations \in Bounds.iterations /\ p.ws \in Bounds.ws
  /\ p.chunks # 0 => p.chunks \in Bounds.chunks /\ p.transfer = "overlap"
  /\ p.compile \in Words.compile \cup {"import"}
  /\ p.kernel # <<>> => Exists(p.kernel) /\ p.kernel[1] = p.algorithm
  /\ p.compile = "import" => p.kernel # <<>> /\ ApiOf(p.kernel) = "cuda"
  /\ p.iterations > 1 => p.bytes >= Algorithms[p.algorithm].digest

(* Every point that is asked for fits. *)
LEMMA AskedFits ==
  ASSUME NEW a \in Axes, NEW m, NEW q \in Asked(a, m)
  PROVE  PointFits(Point(q)) /\ Point(q) # <<>>
<1> DEFINE p == Point(q)
           name == Resolve(q.kernel, q.algorithm)
<1>1. q \in AxisPoints(a) /\ Meaningful(a, q) /\ KernelFits(q, m) /\ LongEnough(a, q)
  BY DEF Asked
<1>2. /\ q = [algorithm |-> q.algorithm, kernel |-> q.kernel, where |-> q.where,
              transfer |-> q.transfer, chunks |-> q.chunks, primitives |-> q.primitives,
              compile |-> q.compile, bytes |-> q.bytes, iterations |-> q.iterations,
              ws |-> q.ws]
      /\ q.algorithm \in Range(a.algorithm) /\ q.kernel \in Range(a.kernel)
      /\ q.where \in Range(a.where) /\ q.transfer \in Range(a.transfer)
      /\ q.chunks \in Range(a.chunks) /\ q.primitives \in Range(a.primitives)
      /\ q.compile \in Range(a.compile) /\ q.bytes \in Range(a.bytes)
      /\ q.iterations \in Range(a.iterations) /\ q.ws \in Range(a.ws)
  BY <1>1 DEF AxisPoints
<1>3. /\ p.algorithm = q.algorithm /\ p.where = q.where /\ p.transfer = q.transfer
      /\ p.primitives = q.primitives /\ p.compile = q.compile /\ p.bytes = q.bytes
      /\ p.iterations = q.iterations /\ p.ws = q.ws
      /\ p.kernel = (IF q.kernel = <<>> THEN <<>> ELSE name)
      /\ p.chunks = (IF q.transfer = "overlap" THEN q.chunks ELSE 0)
      /\ "algorithm" \in DOMAIN p
  BY <1>2 DEF Point
<1> HIDE DEF p
<1>4. p # <<>>
  <2>1. DOMAIN <<>> = {}
    OBVIOUS
  <2> QED
    BY <1>3, <2>1
<1>5. /\ p.algorithm \in DOMAIN Algorithms /\ p.where \in Words.where
      /\ p.transfer \in Words.transfer /\ p.primitives \in Words.primitives
      /\ p.bytes \in Bounds.bytes /\ p.iterations \in Bounds.iterations /\ p.ws \in Bounds.ws
      /\ p.compile \in Words.compile \cup {"import"}
  BY <1>2, <1>3, AxesHold, Zenon
<1>6. p.chunks # 0 => p.chunks \in Bounds.chunks /\ p.transfer = "overlap"
  <2>1. q.chunks \in {0} \cup Bounds.chunks
    BY <1>2, AxesHold, Zenon
  <2> QED
    BY <1>3, <2>1
<1>7. p.kernel # <<>> => Exists(p.kernel) /\ p.kernel[1] = p.algorithm
  <2>1. q.kernel # <<>> => name[1] = q.algorithm /\ Exists(name)
    BY <1>1 DEF KernelFits
  <2> QED
    BY <1>3, <2>1
<1>8. p.compile = "import" => p.kernel # <<>> /\ ApiOf(p.kernel) = "cuda"
  <2> SUFFICES ASSUME q.compile = "import"
               PROVE  p.kernel # <<>> /\ ApiOf(p.kernel) = "cuda"
    BY <1>3
  <2>1. q.kernel # <<>> /\ a.compile[1] # "import"
    BY <1>2, AxesHold
  <2>2. IsCuda(q)
    BY <1>1, <2>1 DEF Meaningful
  <2>3. ApiOf(name) = "cuda" /\ p.kernel = name
    BY <1>3, <2>1, <2>2 DEF IsCuda
  <2>4. name # <<>>
    <3>1. CASE Len(q.kernel) = 1
      BY <3>1 DEF Resolve
    <3>2. CASE Len(q.kernel) # 1
      BY <2>1, <3>2 DEF Resolve
    <3> QED
      BY <3>1, <3>2
  <2> QED
    BY <2>3, <2>4
<1>9. p.iterations > 1 => p.bytes >= Algorithms[p.algorithm].digest
  BY <1>1, <1>3 DEF LongEnough
<1>10. PointFits(p)
  BY <1>5, <1>6, <1>7, <1>8, <1>9, Zenon DEF PointFits
<1> QED
  BY <1>4, <1>10 DEF p

(* The grid of a sweep: finitely many points, each of which fits. *)
LEMMA PointsFit ==
  ASSUME args \in Axes, machine \in Machines
  PROVE  /\ TheGrid \in Seq(Points) /\ IsFiniteSet(Points)
         /\ \A p \in Points : PointFits(p) /\ p # <<>>
<1> DEFINE g == Grid(args, machine)
<1>1. TheGrid = g
  <2>1. <<args, machine>> \in Axes \X Machines
    OBVIOUS
  <2> QED
    BY <2>1 DEF TheGrid, Grids
<1>2. g \in Seq(Range(g)) /\ \A p \in Range(g) : \E q \in Asked(args, machine) : p = Point(q)
  BY GridIs
<1>3. IsFiniteSet(Range(g))
  <2> DEFINE S == Range(g)
  <2>1. g \in Seq(S)
    BY <1>2
  <2> HIDE DEF S
  <2> QED
    BY <2>1, RangeFinite DEF S
<1> HIDE DEF g
<1>4. ASSUME NEW p \in Range(g) PROVE PointFits(p) /\ p # <<>>
  <2>1. PICK q \in Asked(args, machine) : p = Point(q)
    BY <1>2
  <2> QED
    BY <2>1, AskedFits
<1> QED
  BY <1>1, <1>2, <1>3, <1>4 DEF Points

(* Ascending puts the numbers of a finite set in order, each once. *)
LEMMA AscendingIs ==
  ASSUME NEW N \in SUBSET Nat, IsFiniteSet(N)
  PROVE  /\ Cardinality(N) \in Nat
         /\ Ascending(N) \in [1 .. Cardinality(N) -> N]
         /\ \A x \in N : \E i \in 1 .. Cardinality(N) : Ascending(N)[i] = x
         /\ \A i, j \in 1 .. Cardinality(N) : i < j => Ascending(N)[i] < Ascending(N)[j]
<1> DEFINE n == Cardinality(N)
           Upto(x) == {j \in N : j <= x}
           r == [x \in N |-> Cardinality(Upto(x))]
           s == Ascending(N)
<1>1. n \in Nat
  BY FS_CardinalityType
<1>2. ASSUME NEW x \in N
      PROVE  IsFiniteSet(Upto(x)) /\ Cardinality(Upto(x)) \in 1 .. n
  <2> DEFINE u == Upto(x)
  <2>1. u \in SUBSET N /\ u # {}
    OBVIOUS
  <2> HIDE DEF u
  <2>2. IsFiniteSet(u) /\ Cardinality(u) <= n
    BY <2>1, FS_Subset
  <2>3. Cardinality(u) \in Nat /\ Cardinality(u) # 0
    BY <2>1, <2>2, FS_CardinalityType, FS_EmptySet
  <2>4. Cardinality(u) \in 1 .. n
    BY <1>1, <2>2, <2>3
  <2> QED
    BY <2>2, <2>4 DEF u
<1>3. ASSUME NEW x \in N, NEW y \in N, x < y PROVE r[x] < r[y]
  <2> DEFINE u == Upto(x)
             v == Upto(y)
  <2>1. u \in SUBSET v /\ y \in v /\ y \notin u
    <3>1. x \in Nat /\ y \in Nat /\ \A j \in N : j \in Nat
      OBVIOUS
    <3>2. \A j \in N : j <= x => j <= y
      BY <1>3, <3>1
    <3>3. ~(y <= x)
      BY <1>3, <3>1
    <3>4. y <= y
      BY <3>1
    <3> HIDE DEF r
    <3>5. u \subseteq v
      BY <3>2, Zenon
    <3>6. y \in v
      BY <3>4, Zenon
    <3>7. y \notin u
      BY <3>3, Zenon
    <3> QED
      BY <3>5, <3>6, <3>7, Zenon
  <2>2. IsFiniteSet(v) /\ Cardinality(u) \in Nat /\ Cardinality(v) \in Nat
    BY <1>2
  <2> HIDE DEF u, v
  <2>3. Cardinality(u) <= Cardinality(v) /\ Cardinality(u) # Cardinality(v)
    BY <2>1, <2>2, FS_Subset
  <2>4. Cardinality(u) < Cardinality(v)
    BY <2>2, <2>3
  <2> QED
    BY <2>4 DEF u, v
<1>4. r \in [N -> 1 .. n]
  <2> HIDE DEF n
  <2> QED
    BY <1>2
<1>5. ASSUME NEW x \in N, NEW y \in N, r[x] = r[y] PROVE x = y
  <2>1. r[x] \in Nat /\ r[y] \in Nat
    BY <1>1, <1>4
  <2> HIDE DEF r
  <2>2. x \in Nat /\ y \in Nat /\ ~(x < y) /\ ~(y < x)
    BY <1>3, <1>5, <2>1
  <2> QED
    BY <2>2
<1>6. r \in Injection(N, 1 .. n)
  <2> HIDE DEF r, n
  <2> QED
    BY <1>4, <1>5 DEF Injection, IsInjective
<1>7. IsFiniteSet(1 .. n) /\ Cardinality(1 .. n) = n
  <2> HIDE DEF n
  <2>1. Cardinality(1 .. n) = IF 1 > n THEN 0 ELSE n - 1 + 1
    BY <1>1, FS_Interval
  <2> QED
    BY <1>1, <2>1, FS_Interval
<1>8. r \in Surjection(N, 1 .. n)
  <2> HIDE DEF r
  <2> QED
    BY <1>6, <1>7, FS_Injection
<1>9. ASSUME NEW k \in 1 .. n PROVE s[k] \in N /\ r[s[k]] = k
  <2>1. \E i \in N : r[i] = k
    BY <1>8 DEF Surjection
  <2>2. \E i \in N : Cardinality(Upto(i)) = k
    BY <2>1
  <2>3. s[k] = CHOOSE i \in N : Cardinality(Upto(i)) = k
    BY DEF Ascending
  <2> HIDE DEF Upto, s
  <2>4. s[k] \in N /\ Cardinality(Upto(s[k])) = k
    BY <2>2, <2>3
  <2> QED
    BY <2>4
<1>10. s = [k \in 1 .. n |-> s[k]]
  BY DEF Ascending
<1> HIDE DEF s, r, n, Upto
<1>11. s \in [1 .. n -> N]
  BY <1>9, <1>10
<1>12. ASSUME NEW x \in N PROVE \E i \in 1 .. n : s[i] = x
  <2>1. r[x] \in 1 .. n
    BY <1>4
  <2>2. s[r[x]] \in N /\ r[s[r[x]]] = r[x]
    BY <1>9, <2>1
  <2> QED
    BY <1>5, <2>1, <2>2
<1>13. ASSUME NEW i \in 1 .. n, NEW j \in 1 .. n, i < j PROVE s[i] < s[j]
  <2>1. /\ s[i] \in N /\ s[j] \in N /\ r[s[i]] = i /\ r[s[j]] = j
        /\ s[i] \in Nat /\ s[j] \in Nat
    BY <1>9
  <2>2. ~(s[j] < s[i])
    <3>1. s[j] < s[i] => j < i
      BY <1>3, <2>1
    <3> QED
      BY <1>1, <1>13, <3>1
  <2>3. s[j] # s[i]
    BY <1>1, <1>13, <2>1
  <2> QED
    BY <2>1, <2>2, <2>3
<1> QED
  BY <1>1, <1>11, <1>12, <1>13 DEF s, n

-----------------------------------------------------------------------------
(* The commands of a sweep. *)

\* What the options a sweep gives may say.
LEMMA ValidIs ==
  ASSUME NEW v
  PROVE  /\ Valid(<<"json", v>>) /\ Valid(<<"kernel", v>>) /\ Valid(<<"expect", v>>)
         /\ Valid(<<"ladder", v>>)
         /\ v \in DOMAIN Algorithms => Valid(<<"algorithm", v>>)
         /\ v \in Words.transfer => Valid(<<"transfer", v>>)
         /\ v \in Words.primitives => Valid(<<"primitives", v>>)
         /\ v \in Words.compile => Valid(<<"compile", v>>)
         /\ v \in Words.where => Valid(<<"where", v>>)
         /\ v \in Bounds.chunks => Valid(<<"chunks", v>>)
         /\ v \in Bounds.bytes => Valid(<<"bytes", v>>)
         /\ v \in Bounds.iterations => Valid(<<"iterations", v>>)
         /\ v \in Bounds.ws => Valid(<<"ws", v>>)
         /\ v = "usable" => Valid(<<"import", v>>)
<1>1. Words.algorithm = DOMAIN Algorithms
  BY DEF Words
<1>2. ASSUME NEW x \in DOMAIN Words, v \in Words[x] PROVE Valid(<<x, v>>)
  BY <1>2, OptionNames DEF Valid
<1>3. ASSUME NEW x \in DOMAIN Bounds, v \in Bounds[x] PROVE Valid(<<x, v>>)
  BY <1>3, OptionNames DEF Valid
<1>4. ASSUME NEW x \in {"json", "kernel", "expect", "ladder"} PROVE Valid(<<x, v>>)
  BY OptionNames DEF Valid, Late, Flags, Actions
<1>5. v = "usable" => Valid(<<"import", v>>)
  BY OptionNames DEF Valid
<1>6. /\ v \in DOMAIN Algorithms => Valid(<<"algorithm", v>>)
      /\ v \in Words.transfer => Valid(<<"transfer", v>>)
      /\ v \in Words.primitives => Valid(<<"primitives", v>>)
      /\ v \in Words.compile => Valid(<<"compile", v>>)
      /\ v \in Words.where => Valid(<<"where", v>>)
  BY <1>1, <1>2, OptionNames
<1>7. /\ v \in Bounds.chunks => Valid(<<"chunks", v>>)
      /\ v \in Bounds.bytes => Valid(<<"bytes", v>>)
      /\ v \in Bounds.iterations => Valid(<<"iterations", v>>)
      /\ v \in Bounds.ws => Valid(<<"ws", v>>)
  BY <1>3, OptionNames
<1> QED
  BY <1>4, <1>5, <1>6, <1>7

(* An option that is given on a condition. *)
LEMMA WhenJoins ==
  ASSUME NEW U, NEW s \in Seq(U), NEW cond, NEW o \in U
  PROVE  /\ s \o When(cond, o) \in Seq(U)
         /\ Range(s \o When(cond, o)) = Range(s) \cup (IF cond THEN {o} ELSE {})
<1>1. CASE cond
  <2> DEFINE w == <<o>>
  <2>1. w \in Seq(U) /\ DOMAIN w = 1 .. 1 /\ w[1] = o
    OBVIOUS
  <2>2. Range(w) = {o}
    BY <2>1 DEF Range
  <2>3. When(cond, o) = w
    BY <1>1 DEF When
  <2> HIDE DEF w
  <2>4. s \o w \in Seq(U) /\ Range(s \o w) = Range(s) \cup Range(w)
    BY <2>1, ConcatProperties, RangeConcatenation
  <2> QED
    BY <1>1, <2>2, <2>3, <2>4
<1>2. CASE ~cond
  <2>1. When(cond, o) = <<>>
    BY <1>2 DEF When
  <2>2. s \o <<>> = s
    BY ConcatEmptySeq
  <2> QED
    BY <1>2, <2>1, <2>2
<1> QED
  BY <1>1, <1>2

\* The options of a point.
OptionsOf(p, known, ptx) ==
  LET deviceOk == p.where # "cpu" /\ (p.kernel # <<>> => ApiOf(p.kernel) # "cpu")
  IN  {<<"json", "">>, <<"algorithm", p.algorithm>>, <<"transfer", p.transfer>>,
       <<"bytes", p.bytes>>, <<"iterations", p.iterations>>, <<"ws", p.ws>>}
      \cup (IF p.iterations > 1 /\ Key(p) \in known THEN {<<"expect", p.algorithm>>} ELSE {})
      \cup (IF p.chunks # 0 THEN {<<"chunks", p.chunks>>} ELSE {})
      \cup (IF deviceOk THEN {<<"primitives", p.primitives>>} ELSE {})
      \cup (IF p.compile = "import" THEN {<<"import", ptx>>} ELSE {})
      \cup (IF /\ p.compile # "import" /\ deviceOk
               /\ p.kernel # <<>> => ApiOf(p.kernel) = "cuda" THEN {<<"compile", p.compile>>} ELSE {})
      \cup (IF p.kernel # <<>> THEN {<<"kernel", p.kernel>>} ELSE {})
      \cup (IF p.kernel = <<>> /\ p.where # "any" THEN {<<"where", p.where>>} ELSE {})

(* The command of a point gives these options and no others. *)
LEMMA CommandIs ==
  ASSUME NEW p, NEW known, NEW ptx
  PROVE  LET argv == Command(p, known, ptx)
         IN  argv \in Seq(Range(argv)) /\ Range(argv) = OptionsOf(p, known, ptx)
<1> DEFINE deviceOk == p.where # "cpu" /\ (p.kernel # <<>> => ApiOf(p.kernel) # "cpu")
           c1 == p.iterations > 1 /\ Key(p) \in known
           c2 == p.chunks # 0
           c3 == deviceOk
           c4 == p.compile = "import"
           c5 == /\ p.compile # "import" /\ deviceOk
                 /\ p.kernel # <<>> => ApiOf(p.kernel) = "cuda"
           c6 == p.kernel # <<>>
           c7 == p.kernel = <<>> /\ p.where # "any"
           o1 == <<"expect", p.algorithm>>
           o2 == <<"chunks", p.chunks>>
           o3 == <<"primitives", p.primitives>>
           o4 == <<"import", ptx>>
           o5 == <<"compile", p.compile>>
           o6 == <<"kernel", p.kernel>>
           o7 == <<"where", p.where>>
           q1 == <<"json", "">>
           q2 == <<"algorithm", p.algorithm>>
           q3 == <<"transfer", p.transfer>>
           q4 == <<"bytes", p.bytes>>
           q5 == <<"iterations", p.iterations>>
           q6 == <<"ws", p.ws>>
           argv == Command(p, known, ptx)
           R == OptionsOf(p, known, ptx)
<1>1. argv = <<q1, q2, q3, q4, q5, q6>> \o When(c1, o1) \o When(c2, o2) \o When(c3, o3)
             \o When(c4, o4) \o When(c5, o5) \o When(c6, o6) \o When(c7, o7)
  BY Zenon DEF Command
<1>2. R = {q1, q2, q3, q4, q5, q6} \cup (IF c1 THEN {o1} ELSE {}) \cup (IF c2 THEN {o2} ELSE {})
          \cup (IF c3 THEN {o3} ELSE {}) \cup (IF c4 THEN {o4} ELSE {})
          \cup (IF c5 THEN {o5} ELSE {}) \cup (IF c6 THEN {o6} ELSE {})
          \cup (IF c7 THEN {o7} ELSE {})
  BY Zenon DEF OptionsOf
<1> HIDE DEF c1, c2, c3, c4, c5, c6, c7, o1, o2, o3, o4, o5, o6, o7, q1, q2, q3, q4, q5, q6, argv, R
<1> DEFINE U == {q1, q2, q3, q4, q5, q6, o1, o2, o3, o4, o5, o6, o7}
           s0 == <<q1, q2, q3, q4, q5, q6>>
           s1 == s0 \o When(c1, o1)
           s2 == s1 \o When(c2, o2)
           s3 == s2 \o When(c3, o3)
           s4 == s3 \o When(c4, o4)
           s5 == s4 \o When(c5, o5)
           s6 == s5 \o When(c6, o6)
           s7 == s6 \o When(c7, o7)
<1>3. s0 \in Seq(U) /\ Range(s0) = {q1, q2, q3, q4, q5, q6}
  <2>1. s0 \in Seq(U)
    OBVIOUS
  <2>2. DOMAIN s0 = 1 .. 6 /\ \A i \in 1 .. 6 : s0[i] \in {q1, q2, q3, q4, q5, q6}
    OBVIOUS
  <2>3. s0[1] = q1 /\ s0[2] = q2 /\ s0[3] = q3 /\ s0[4] = q4 /\ s0[5] = q5 /\ s0[6] = q6
    OBVIOUS
  <2> HIDE DEF s0
  <2>4. Range(s0) = {s0[i] : i \in 1 .. 6}
    BY <2>2 DEF Range
  <2>5. Range(s0) = {q1, q2, q3, q4, q5, q6}
    BY <2>2, <2>3, <2>4
  <2> QED
    BY <2>1, <2>5
<1>4. /\ o1 \in U /\ o2 \in U /\ o3 \in U /\ o4 \in U /\ o5 \in U /\ o6 \in U /\ o7 \in U
  OBVIOUS
<1> HIDE DEF U, s0
<1>5. s1 \in Seq(U) /\ Range(s1) = Range(s0) \cup (IF c1 THEN {o1} ELSE {})
  BY <1>3, <1>4, WhenJoins
<1> HIDE DEF s1
<1>6. s2 \in Seq(U) /\ Range(s2) = Range(s1) \cup (IF c2 THEN {o2} ELSE {})
  BY <1>4, <1>5, WhenJoins
<1> HIDE DEF s2
<1>7. s3 \in Seq(U) /\ Range(s3) = Range(s2) \cup (IF c3 THEN {o3} ELSE {})
  BY <1>4, <1>6, WhenJoins
<1> HIDE DEF s3
<1>8. s4 \in Seq(U) /\ Range(s4) = Range(s3) \cup (IF c4 THEN {o4} ELSE {})
  BY <1>4, <1>7, WhenJoins
<1> HIDE DEF s4
<1>9. s5 \in Seq(U) /\ Range(s5) = Range(s4) \cup (IF c5 THEN {o5} ELSE {})
  BY <1>4, <1>8, WhenJoins
<1> HIDE DEF s5
<1>10. s6 \in Seq(U) /\ Range(s6) = Range(s5) \cup (IF c6 THEN {o6} ELSE {})
  BY <1>4, <1>9, WhenJoins
<1> HIDE DEF s6
<1>11. s7 \in Seq(U) /\ Range(s7) = Range(s6) \cup (IF c7 THEN {o7} ELSE {})
  BY <1>4, <1>10, WhenJoins
<1>12. argv = s7
  BY <1>1 DEF s0, s1, s2, s3, s4, s5, s6, s7
<1> HIDE DEF s7
<1>13. Range(argv) = R
  BY <1>2, <1>3, <1>5, <1>6, <1>7, <1>8, <1>9, <1>10, <1>11, <1>12, Zenon
<1>14. argv \in Seq(Range(argv))
  BY <1>11, <1>12, SeqOfRange
<1> QED
  BY <1>13, <1>14 DEF argv, R

(* An option of a point says what the point says. *)
LEMMA OptionsSay ==
  ASSUME NEW p, NEW known, NEW ptx, NEW o \in OptionsOf(p, known, ptx)
  PROVE  LET deviceOk == p.where # "cpu" /\ (p.kernel # <<>> => ApiOf(p.kernel) # "cpu")
         IN  \/ o = <<"json", "">> \/ o = <<"algorithm", p.algorithm>>
             \/ o = <<"transfer", p.transfer>> \/ o = <<"bytes", p.bytes>>
             \/ o = <<"iterations", p.iterations>> \/ o = <<"ws", p.ws>>
             \/ o = <<"expect", p.algorithm>>
             \/ o = <<"chunks", p.chunks>> /\ p.chunks # 0
             \/ o = <<"primitives", p.primitives>> /\ deviceOk
             \/ o = <<"import", ptx>> /\ p.compile = "import"
             \/ /\ o = <<"compile", p.compile>> /\ p.compile # "import" /\ deviceOk
                /\ p.kernel # <<>> => ApiOf(p.kernel) = "cuda"
             \/ o = <<"kernel", p.kernel>> /\ p.kernel # <<>>
             \/ o = <<"where", p.where>> /\ p.kernel = <<>> /\ p.where # "any"
BY Zenon DEF OptionsOf

\* What becomes of a point whose options can all be read.
PointRead(p, c) ==
  /\ c.action = "run"
  /\ c.algorithm = p.algorithm /\ c.transfer = p.transfer /\ c.bytes = p.bytes
  /\ c.iterations = p.iterations /\ c.kernel = p.kernel
  /\ c.ladder = <<>> /\ c.backend = {} /\ c.expect \in {"none", p.algorithm}
  /\ c.where = IF p.kernel = <<>> THEN p.where ELSE "any"
  /\ c.given \cap {"ladder", "geometry", "dump", "backend"} = {}
  /\ "chunks" \in c.given => p.chunks # 0
  /\ "import" \in c.given => p.compile = "import"
  /\ "primitives" \in c.given \/ "compile" \in c.given =>
       p.where # "cpu" /\ (p.kernel # <<>> => ApiOf(p.kernel) # "cpu")
  /\ "compile" \in c.given /\ p.kernel # <<>> => ApiOf(p.kernel) = "cuda"

(* What a setting is, if all that is said of it is the same or nothing is. *)
LEMMA SettingIs ==
  ASSUME NEW S, NEW c, Says(S, c), c.early = "no", NEW x \in Settings
  PROVE  /\ \A v : (<<x, v>> \in S /\ \A o \in S : o[1] = x => o[2] = v) => c[x] = v
         /\ (\A o \in S : o[1] # x) => c[x] = Defaults[x]
BY Zenon DEF Says

(* Only what was given counts as given. *)
LEMMA GivenIs ==
  ASSUME NEW S, NEW c, Says(S, c), c.early = "no", NEW x \in c.given
  PROVE  \E o \in S : o[1] = x
<1>1. PICK o \in S : x \in Names(o)
  BY DEF Says
<1> QED
  BY <1>1 DEF Names

(* The command of a point is read as the point. *)
LEMMA PointReadIs ==
  ASSUME NEW p, NEW known, NEW ptx, NEW c, PointFits(p),
         Says(OptionsOf(p, known, ptx), c), c.early = "no"
  PROVE  PointRead(p, c)
<1> DEFINE S == OptionsOf(p, known, ptx)
           deviceOk == p.where # "cpu" /\ (p.kernel # <<>> => ApiOf(p.kernel) # "cpu")
<1>1. \A o \in S :
        \/ o = <<"json", "">> \/ o = <<"algorithm", p.algorithm>>
        \/ o = <<"transfer", p.transfer>> \/ o = <<"bytes", p.bytes>>
        \/ o = <<"iterations", p.iterations>> \/ o = <<"ws", p.ws>>
        \/ o = <<"expect", p.algorithm>>
        \/ o = <<"chunks", p.chunks>> /\ p.chunks # 0
        \/ o = <<"primitives", p.primitives>> /\ deviceOk
        \/ o = <<"import", ptx>> /\ p.compile = "import"
        \/ /\ o = <<"compile", p.compile>> /\ p.compile # "import" /\ deviceOk
           /\ p.kernel # <<>> => ApiOf(p.kernel) = "cuda"
        \/ o = <<"kernel", p.kernel>> /\ p.kernel # <<>>
        \/ o = <<"where", p.where>> /\ p.kernel = <<>> /\ p.where # "any"
  BY OptionsSay, Zenon
<1>2. /\ {<<"algorithm", p.algorithm>>, <<"transfer", p.transfer>>, <<"bytes", p.bytes>>,
          <<"iterations", p.iterations>>} \subseteq S
      /\ p.kernel # <<>> => <<"kernel", p.kernel>> \in S
      /\ p.kernel = <<>> /\ p.where # "any" => <<"where", p.where>> \in S
  BY Zenon DEF OptionsOf
<1>3. Says(S, c)
  OBVIOUS
<1>4. {"algorithm", "transfer", "bytes", "iterations", "kernel", "ladder", "backend", "expect",
       "where"} \subseteq Settings
  BY OptionNames DEF Settings
<1>5. /\ Defaults.kernel = <<>> /\ Defaults.ladder = <<>> /\ Defaults.backend = {}
      /\ Defaults.expect = "none" /\ Defaults.where = "any"
  BY DEF Defaults
<1> HIDE DEF S, deviceOk
<1>20. ASSUME NEW o \in S
       PROVE  \/ o[1] \in {"json", "ws"}
              \/ o[1] = "algorithm" /\ o[2] = p.algorithm
              \/ o[1] = "transfer" /\ o[2] = p.transfer
              \/ o[1] = "bytes" /\ o[2] = p.bytes
              \/ o[1] = "iterations" /\ o[2] = p.iterations
              \/ o[1] = "expect" /\ o[2] = p.algorithm
              \/ o[1] = "chunks" /\ p.chunks # 0
              \/ o[1] = "primitives" /\ deviceOk
              \/ o[1] = "import" /\ p.compile = "import"
              \/ /\ o[1] = "compile" /\ deviceOk
                 /\ p.kernel # <<>> => ApiOf(p.kernel) = "cuda"
              \/ o[1] = "kernel" /\ o[2] = p.kernel /\ p.kernel # <<>>
              \/ o[1] = "where" /\ o[2] = p.where /\ p.kernel = <<>> /\ p.where # "any"
  <2>1. \A x, v : o = <<x, v>> => o[1] = x /\ o[2] = v
    OBVIOUS
  <2> QED
    BY <1>1, <2>1, Zenon
<1>6. /\ \A o \in S : o[1] = "algorithm" => o[2] = p.algorithm
      /\ \A o \in S : o[1] = "transfer" => o[2] = p.transfer
      /\ \A o \in S : o[1] = "bytes" => o[2] = p.bytes
      /\ \A o \in S : o[1] = "iterations" => o[2] = p.iterations
      /\ \A o \in S : o[1] = "kernel" => o[2] = p.kernel /\ p.kernel # <<>>
      /\ \A o \in S : o[1] = "where" => o[2] = p.where /\ p.kernel = <<>> /\ p.where # "any"
      /\ \A o \in S : o[1] = "expect" => o[2] = p.algorithm
  BY <1>20
<1>7. \A o \in S : o[1] \notin {"ladder", "backend", "geometry", "dump", "list", "list_devices"}
  BY <1>20
<1>8. /\ c.algorithm = p.algorithm /\ c.transfer = p.transfer /\ c.bytes = p.bytes
      /\ c.iterations = p.iterations
  BY <1>2, <1>3, <1>4, <1>6, SettingIs
<1>9. c.kernel = p.kernel
  <2>1. CASE p.kernel = <<>>
    BY <1>3, <1>4, <1>5, <1>6, <2>1, SettingIs
  <2>2. CASE p.kernel # <<>>
    BY <1>2, <1>3, <1>4, <1>6, <2>2, SettingIs
  <2> QED
    BY <2>1, <2>2
<1>10. c.where = IF p.kernel = <<>> THEN p.where ELSE "any"
  <2>1. CASE p.kernel = <<>> /\ p.where # "any"
    BY <1>2, <1>3, <1>4, <1>6, <2>1, SettingIs
  <2>2. CASE p.kernel # <<>> \/ p.where = "any"
    BY <1>3, <1>4, <1>5, <1>6, <2>2, SettingIs
  <2> QED
    BY <2>1, <2>2
<1>11. c.ladder = <<>> /\ c.backend = {}
  BY <1>3, <1>4, <1>5, <1>7, SettingIs
<1>12. c.expect \in {"none", p.algorithm}
  <2>1. \/ \E o \in S : o[1] = "expect" /\ c.expect = o[2]
        \/ c.expect = Defaults.expect
    BY <1>3, <1>4 DEF Says
  <2> QED
    BY <1>5, <1>6, <2>1
<1>13. c.action = "run"
  BY <1>3, <1>7 DEF Says, Actions
<1>14. \A x \in c.given : \E o \in S : o[1] = x
  BY <1>3, GivenIs
<1>15. c.given \cap {"ladder", "geometry", "dump", "backend"} = {}
  BY <1>7, <1>14
<1>16. /\ "chunks" \in c.given => p.chunks # 0
       /\ "import" \in c.given => p.compile = "import"
       /\ "primitives" \in c.given \/ "compile" \in c.given => deviceOk
       /\ "compile" \in c.given /\ p.kernel # <<>> => ApiOf(p.kernel) = "cuda"
  BY <1>14, <1>20
<1> QED
  BY <1>8, <1>9, <1>10, <1>11, <1>12, <1>13, <1>15, <1>16, Zenon DEF PointRead, deviceOk

(* What is read of a point is wrong with no machine, save for its messages. *)
LEMMA PointIsSane ==
  ASSUME NEW p, NEW c, PointFits(p), PointRead(p, c), AllDistinct(c), "algorithm" \in c.given
  PROVE  Sane(c) /\ Applies(c) /\ (Named(c) => Agrees(c))
<1>1. Algorithm(c) = p.algorithm
  BY DEF Algorithm, Named, PointRead, PointFits
<1>2. p.kernel # <<>> => Kernel(c).api = ApiOf(p.kernel)
  BY DEF Kernel, ApiOf, PointRead
<1>3. KernelKnown(c)
  BY DEF KernelKnown, Named, PointRead, PointFits, Exists
<1>4. MaxIterations(c) > 1 => c.bytes >= MinIterBytes(c)
  <2> DEFINE s == {c.iterations} \cup Range(c.ladder)
             n == p.iterations
  <2>1. s = {n}
    BY DEF PointRead, Range
  <2>2. n \in 1 .. Million
    BY DEF PointFits, Bounds
  <2>3. Million \in Nat
    BY SMT DEF Million
  <2>4. n \in Nat
    BY <2>2, <2>3
  <2> HIDE DEF n
  <2>5. {n} \in SUBSET (0 .. n) /\ {n} # {}
    BY <2>4
  <2>6. Max({n}) = n
    BY <2>4, <2>5, Greatest
  <2>7. MaxIterations(c) = n
    BY <2>1, <2>6 DEF MaxIterations
  <2>8. n > 1 => p.bytes >= Algorithms[p.algorithm].digest
    BY DEF PointFits, n
  <2>9. c.bytes = p.bytes
    BY DEF PointRead
  <2> QED
    BY <1>1, <2>7, <2>8, <2>9 DEF MinIterBytes
<1>5. ExpectOk(c)
  BY <1>1 DEF ExpectOk, PointRead
<1>6. "ladder" \notin c.given
  BY DEF PointRead
<1>7. Sane(c)
  BY <1>3, <1>4, <1>5, <1>6 DEF Sane
<1>8. DeviceOnly(c) => DeviceCould(c)
  <2> SUFFICES ASSUME DeviceOnly(c) PROVE DeviceCould(c)
    OBVIOUS
  <2>1. PICK x \in {"primitives", "compile", "import"} : x \in c.given
    BY DEF DeviceOnly, PointRead
  <2>2. CASE x = "import"
    <3>1. p.kernel # <<>> /\ ApiOf(p.kernel) = "cuda" /\ c.kernel = p.kernel
      BY <2>1, <2>2 DEF PointRead, PointFits
    <3> QED
      BY <1>2, <3>1 DEF DeviceCould, OnDevice, Named
  <2>3. CASE x # "import"
    <3>1. /\ p.where # "cpu" /\ (p.kernel # <<>> => ApiOf(p.kernel) # "cpu")
          /\ c.kernel = p.kernel
          /\ c.where = IF p.kernel = <<>> THEN p.where ELSE "any"
      BY <2>1, <2>3 DEF PointRead
    <3> QED
      BY <1>2, <3>1 DEF DeviceCould, OnDevice, Named
  <2> QED
    BY <2>2, <2>3
<1>9. "import" \in c.given => Named(c) /\ Kernel(c).api = "cuda"
  BY <1>2 DEF PointRead, PointFits, Named
<1>10. "chunks" \in c.given => c.transfer = "overlap"
  BY DEF PointRead, PointFits
<1>11. Applies(c)
  BY <1>8, <1>9, <1>10 DEF Applies
<1>12. Named(c) => Agrees(c)
  BY <1>2 DEF Named, Agrees, PointRead
<1> QED
  BY <1>7, <1>11, <1>12

(* No point comes to a usage error, unless its messages repeat or the file to
   import is not there. *)
LEMMA PointIsValid ==
  ASSUME NEW p, NEW known, NEW ptx \in {"usable", "missing"}, PointFits(p),
         "usage" \in Run(Command(p, known, ptx))
  PROVE  LET argv == Command(p, known, ptx)
         IN  ~AllDistinct(ReadAll(argv)) \/ <<"import", "missing">> \in Range(argv)
<1> DEFINE argv == Command(p, known, ptx)
           S == OptionsOf(p, known, ptx)
           c == ReadAll(argv)
<1>1. argv \in Seq(Range(argv)) /\ Range(argv) = S
  BY CommandIs
<1>2. Says(S, c)
  <2> HIDE DEF argv
  <2>1. Says(Range(argv), ReadAll(argv))
    BY <1>1, ReadAllSays
  <2> QED
    BY <1>1, <2>1
<1>3. "usage" \in Exits(c, machine)
  BY DEF Run
<1> HIDE DEF argv, c
<1> SUFFICES ASSUME <<"import", "missing">> \notin S, AllDistinct(c) PROVE FALSE
  BY <1>1 DEF argv, c
<1>4. ASSUME NEW o \in S PROVE Valid(o) /\ o[1] \notin {"version", "help"}
  <2>1. /\ p.algorithm \in DOMAIN Algorithms /\ p.where \in Words.where
        /\ p.transfer \in Words.transfer /\ p.primitives \in Words.primitives
        /\ p.bytes \in Bounds.bytes /\ p.iterations \in Bounds.iterations
        /\ p.ws \in Bounds.ws /\ (p.chunks # 0 => p.chunks \in Bounds.chunks)
        /\ (p.compile # "import" => p.compile \in Words.compile)
    BY DEF PointFits
  <2>2. \/ o = <<"json", "">> \/ o = <<"algorithm", p.algorithm>>
        \/ o = <<"transfer", p.transfer>> \/ o = <<"bytes", p.bytes>>
        \/ o = <<"iterations", p.iterations>> \/ o = <<"ws", p.ws>>
        \/ o = <<"expect", p.algorithm>>
        \/ o = <<"chunks", p.chunks>> /\ p.chunks # 0
        \/ o = <<"primitives", p.primitives>>
        \/ o = <<"import", "usable">>
        \/ o = <<"compile", p.compile>> /\ p.compile # "import"
        \/ o = <<"kernel", p.kernel>>
        \/ o = <<"where", p.where>>
    BY OptionsSay, Zenon
  <2>3. Valid(o)
    BY <2>1, <2>2, ValidIs, Zenon
  <2> QED
    BY <2>3, ValidNames
<1>5. c.early = "no"
  BY <1>2, <1>4 DEF Says
<1>6. PointRead(p, c)
  BY <1>2, <1>5, PointReadIs
<1>7. "algorithm" \in c.given
  <2>1. <<"algorithm", p.algorithm>> \in S
    BY Zenon DEF OptionsOf
  <2>2. Names(<<"algorithm", p.algorithm>>) = {"algorithm"}
    BY DEF Names
  <2>3. Names(<<"algorithm", p.algorithm>>) \subseteq c.given
    BY <1>2, <1>5, <2>1 DEF Says
  <2> QED
    BY <2>2, <2>3
<1>8. Sane(c) /\ Applies(c) /\ (Named(c) => Agrees(c))
  BY <1>6, <1>7, PointIsSane
<1>9. c.action = "run"
  BY <1>6 DEF PointRead
<1> QED
  BY <1>3, <1>5, <1>8, <1>9 DEF Exits, Measured

(* No reference ladder comes to a usage error, unless its messages repeat or it
   has more rungs than the binary takes. *)
LEMMA LadderIsValid ==
  ASSUME NEW S, \A p \in S : PointFits(p), NEW key \in Keys(S),
         "usage" \in Exits(ReadAll(LadderCommand(S, key)), machine)
  PROVE  LET c == ReadAll(LadderCommand(S, key))
         IN  ~AllDistinct(c) \/ Len(c.ladder) > MaxLadder
<1> DEFINE argv == LadderCommand(S, key)
           c == ReadAll(argv)
           N == {p.iterations : p \in {q \in S : Key(q) = key /\ q.iterations > 1}}
           n == Cardinality(N)
           r == Ascending(N)
           q1 == <<"ladder", r>>
           q2 == <<"algorithm", key[1]>>
           q3 == <<"bytes", key[2]>>
           q4 == <<"ws", key[3]>>
<1>1. PICK q \in S : Key(q) = key /\ q.iterations > 1
  BY DEF Keys
<1>2. Million \in Nat
  BY SMT DEF Million
<1>3. N \in SUBSET (1 .. Million) /\ N # {}
  BY <1>1 DEF PointFits, Bounds
<1>4. IsFiniteSet(N) /\ N \in SUBSET Nat /\ n \in Nat /\ n # 0
  <2> HIDE DEF N
  <2>1. IsFiniteSet(1 .. Million)
    BY <1>2, FS_Interval
  <2>2. IsFiniteSet(N)
    BY <1>3, <2>1, FS_Subset
  <2>3. Cardinality(N) \in Nat /\ Cardinality(N) # 0
    BY <1>3, <2>2, FS_CardinalityType, FS_EmptySet
  <2> QED
    BY <1>2, <1>3, <2>2, <2>3
<1>5. /\ r \in [1 .. n -> N]
      /\ \A i, j \in 1 .. n : i < j => r[i] < r[j]
  <2> HIDE DEF N
  <2> QED
    BY <1>4, AscendingIs
<1> HIDE DEF n
<1>6. argv = <<q1, q2, q3, q4>>
  BY Zenon DEF LadderCommand, Rungs
<1> HIDE DEF q1, q2, q3, q4, argv, c, r, N
<1>7. argv \in Seq({q1, q2, q3, q4}) /\ Range(argv) = {q1, q2, q3, q4}
  <2> DEFINE s == <<q1, q2, q3, q4>>
  <2>1. DOMAIN s = 1 .. 4 /\ s[1] = q1 /\ s[2] = q2 /\ s[3] = q3 /\ s[4] = q4
    OBVIOUS
  <2>2. s \in Seq({q1, q2, q3, q4})
    OBVIOUS
  <2> HIDE DEF s
  <2>3. Range(s) = {s[i] : i \in 1 .. 4}
    BY <2>1 DEF Range
  <2>4. Range(s) = {q1, q2, q3, q4}
    BY <2>1, <2>3
  <2> QED
    BY <1>6, <2>2, <2>4 DEF s
<1>8. Says({q1, q2, q3, q4}, c)
  <2>1. Says(Range(argv), c)
    BY <1>7, ReadAllSays DEF c
  <2> QED
    BY <1>7, <2>1
<1>9. /\ key[1] = q.algorithm /\ key[2] = q.bytes /\ key[3] = q.ws
      /\ q.algorithm \in DOMAIN Algorithms /\ q.bytes \in Bounds.bytes /\ q.ws \in Bounds.ws
      /\ q.bytes >= Algorithms[q.algorithm].digest
  BY <1>1 DEF Key, PointFits
<1>10. Valid(q1) /\ Valid(q2) /\ Valid(q3) /\ Valid(q4)
  BY <1>9, ValidIs DEF q1, q2, q3, q4
<1>11. c.early = "no"
  BY <1>8, <1>10, ValidNames DEF Says
<1>12. q1[1] = "ladder" /\ q1[2] = r /\ q2[1] = "algorithm" /\ q3[1] = "bytes" /\ q4[1] = "ws"
       /\ q2[2] = q.algorithm /\ q3[2] = q.bytes
  BY <1>9 DEF q1, q2, q3, q4
<1>13. c.action = "ladder"
  BY <1>8, <1>11, <1>12 DEF Says, Actions
<1>14. {"algorithm", "bytes", "kernel", "ladder", "expect"} \subseteq Settings
  BY OptionNames DEF Settings
<1>15. Defaults.kernel = <<>> /\ Defaults.expect = "none"
  BY DEF Defaults
<1>16. /\ c.algorithm = q.algorithm /\ c.bytes = q.bytes /\ c.ladder = r
       /\ c.kernel = <<>> /\ c.expect = "none"
  <2> DEFINE O == {q1, q2, q3, q4}
  <2>1. /\ \A o \in O : o[1] = "algorithm" => o[2] = q.algorithm
        /\ \A o \in O : o[1] = "bytes" => o[2] = q.bytes
        /\ \A o \in O : o[1] = "ladder" => o[2] = r
        /\ \A o \in O : o[1] \notin {"kernel", "expect"}
    BY <1>12
  <2>2. /\ <<"algorithm", q.algorithm>> \in O /\ <<"bytes", q.bytes>> \in O
        /\ <<"ladder", r>> \in O
    BY <1>9 DEF q1, q2, q3
  <2>3. Says(O, c)
    BY <1>8
  <2> HIDE DEF O
  <2> QED
    BY <1>11, <1>14, <1>15, <2>1, <2>2, <2>3, SettingIs
<1>17. r \in Seq(1 .. Million) /\ Len(r) = n /\ Range(r) \subseteq 1 .. Million
  <2>1. r \in [1 .. n -> 1 .. Million]
    BY <1>3, <1>5
  <2>2. r \in Seq(1 .. Million)
    BY <1>4, <2>1, SeqDef
  <2>3. Len(r) = n
    BY <1>4, <2>1, <2>2, LenProperties
  <2>4. Range(r) \subseteq 1 .. Million
    BY <2>1 DEF Range
  <2> QED
    BY <2>2, <2>3, <2>4
<1>18. SUFFICES ASSUME AllDistinct(c), n <= MaxLadder PROVE FALSE
  <2>1. MaxLadder \in Nat
    BY CommandAssumption
  <2>2. n <= MaxLadder \/ n > MaxLadder
    BY <1>4, <2>1
  <2> QED
    BY <1>16, <1>17, <1>18, <2>2 DEF c, argv
<1>19. LadderOk(r)
  <2>1. n \in 1 .. MaxLadder
    BY <1>4, <1>18, CommandAssumption
  <2>2. ASSUME NEW i \in 1 .. n - 1 PROVE r[i] < r[i + 1]
    <3>1. i \in 1 .. n /\ i + 1 \in 1 .. n /\ i < i + 1
      BY <1>4
    <3> QED
      BY <1>5, <3>1
  <2> QED
    BY <1>17, <2>1, <2>2, Zenon DEF LadderOk
<1>20. KernelKnown(c)
  BY <1>16 DEF KernelKnown, Named
<1>21. Algorithm(c) = q.algorithm
  BY <1>16 DEF Algorithm, Named
<1>22. c.bytes >= MinIterBytes(c)
  BY <1>9, <1>16, <1>21 DEF MinIterBytes
<1>23. ExpectOk(c)
  BY <1>16 DEF ExpectOk
<1>24. Sane(c)
  BY <1>16, <1>18, <1>19, <1>20, <1>22, <1>23 DEF Sane
<1>25. "usage" \in Exits(c, machine)
  BY DEF c, argv
<1> QED
  BY <1>11, <1>13, <1>24, <1>25 DEF Exits

-----------------------------------------------------------------------------
(* The invariant. *)

\* What a row of the file may be.
Rates == {"whole", "part", "none"}
Rows  == [id : {<<>>} \cup Points, rate : Rates, cut : {"no"} \cup Cuts, quoted : BOOLEAN]

\* A row cut off before its point_id has none, and one cut off before the end of
\* its rate does not have it whole.
WellCut(r) ==
  /\ r.cut \in {"first", "before"} => r.id = <<>>
  /\ r.cut \in {"between", "rate"} => r.rate # "whole"

\* What is in the file: only its last row may lack its end.
WellFormed(f) ==
  /\ f \in [header : {"none", "ours", "torn", "open"}, rows : Seq(Rows)]
  /\ f.header \in {"none", "open"} => f.rows = <<>>
  /\ \A i \in DOMAIN f.rows : /\ i < Len(f.rows) => f.rows[i].cut = "no"
                             /\ WellCut(f.rows[i])

\* The rows a point has in it.
RowsIn(f, p) == {i \in DOMAIN f.rows : f.rows[i].id = p /\ f.rows[i].rate = "whole"}

\* The lines without an end: none, or the last.
Open(f) == IF Ended(f) THEN 0 ELSE 1

\* A point whose row was cut off before its rate: what is appended to it becomes
\* its rate, and the point counts as measured.
Frail(f, p) == f.rows # <<>> /\ LET last == f.rows[Len(f.rows)] IN
                 last.cut \in {"between", "rate"} /\ last.rate = "none" /\ last.id = p

\* The points that the file says, or may soon say, were measured, and that it
\* has no row of.
Missing(f) == {p \in Points : RowsIn(f, p) = {} /\ (p \in Completed(f) \/ Frail(f, p))}

\* The points this sweep is done with, none having failed.
Passed == IF at \in {"points", "write"} /\ ~failed
            THEN {p \in Points : p \notin Range(todo) /\ ~(at = "write" /\ row.id = p)}
            ELSE IF exit = "ok" THEN Points ELSE {}

\* The points that no sweep is going to measure again, without a row.
Gone == Missing(file) \cup {p \in Passed : RowsIn(file, p) = {}}

\* The places of p in a sequence.
Times(s, p) == {i \in DOMAIN s : s[i] = p}

\* The row of p about to be written.
Pending(p) == IF at = "write" /\ row.id = p /\ row.rate = "whole" THEN 1 ELSE 0

\* The types, and what goes with where the sweep is.
Work ==
  /\ args \in Axes /\ machine \in Machines
  /\ at \in {"idle", "points", "write", "shell", "user"}
  /\ todo \in Seq(Points) /\ refs \subseteq Keys(Points)
  /\ starts \in 0 .. MaxStarts /\ tears \in 0 .. MaxTears /\ swallowed \in Nat
  /\ failed \in BOOLEAN /\ exit \in {"none", "ok", "usage", "failed"}
  /\ at \notin {"points", "write"} => todo = <<>>
  /\ at \in {"points", "write"} => exit = "none"
  /\ at = "write" => /\ row \in Rows /\ row.id \in Points /\ row.cut = "no"
                     /\ row.rate \in {"whole", "none"} /\ (row.rate = "none" => failed)

\* No point is in the file, about to be, and still to be measured more often than
\* it was asked for.
Counted ==
  \A p \in Points :
    Cardinality(RowsIn(file, p)) + Cardinality(Times(todo, p)) + Pending(p) <= Cardinality(Copies(p))

\* Each row cut off takes at most two points with it, itself and the one that ends
\* its line, beside those that are taken in before; only its own is missing for good.
Bounded ==
  /\ Cardinality(Gone) + Open(file) <= 2 * tears + swallowed
  /\ Cardinality(Missing(file)) <= tears
  /\ tears = 0 => swallowed = 0

\* What is run is a command of the sweep or of a user, and ends as one may.
Commanded ==
  \/ ran = Nothing
  \/ /\ ran.by \in {"user", "sweep"} /\ ran.exit \in Run(ran.argv)
     /\ ran.by = "user" => ran.argv \in Commands
     /\ ran.by = "sweep" =>
          \E p \in Points, known \in SUBSET Keys(Points), ptx \in {"usable", "missing"} :
            ran.argv = Command(p, known, ptx)

\* The inductive invariant.
SweepInv == WellFormed(file) /\ Work /\ Counted /\ Bounded /\ Commanded

(* Commands of that kind are sound. *)
LEMMA SoundIfCommanded ==
  ASSUME Work, Commanded
  PROVE  CommandsSound
<1>0. args \in Axes /\ machine \in Machines
  BY DEF Work
<1>1. \A p \in Points : PointFits(p)
  BY <1>0, PointsFit
<1>2. PointsAreValid
  <2>1. ASSUME ran.by = "sweep", ran.exit = "usage"
        PROVE  ~AllDistinct(ReadAll(ran.argv)) \/ <<"import", "missing">> \in Range(ran.argv)
    <3>1. ran # Nothing
      BY <2>1 DEF Nothing
    <3>2. PICK p \in Points, known \in SUBSET Keys(Points), ptx \in {"usable", "missing"} :
            ran.argv = Command(p, known, ptx)
      BY <2>1, <3>1 DEF Commanded
    <3>3. "usage" \in Run(ran.argv)
      BY <2>1, <3>1 DEF Commanded
    <3> QED
      BY <1>1, <3>2, <3>3, PointIsValid
  <2>2. ASSUME at = "points", NEW key \in Keys(Range(todo)),
               "usage" \in Exits(ReadAll(LadderCommand(Range(todo), key)), machine)
        PROVE  LET c == ReadAll(LadderCommand(Range(todo), key))
               IN  ~AllDistinct(c) \/ Len(c.ladder) > MaxLadder
    <3> DEFINE S == Range(todo)
    <3>1. S \subseteq Points
      BY RangeFinite DEF Work
    <3>2. \A p \in S : PointFits(p)
      BY <1>1, <3>1
    <3>3. key \in Keys(S) /\ "usage" \in Exits(ReadAll(LadderCommand(S, key)), machine)
      BY <2>2
    <3> HIDE DEF S
    <3>4. LET c == ReadAll(LadderCommand(S, key)) IN ~AllDistinct(c) \/ Len(c.ladder) > MaxLadder
      BY <3>2, <3>3, LadderIsValid
    <3> QED
      BY <3>4, Zenon DEF S
  <2> QED
    BY <2>1, <2>2, Zenon DEF PointsAreValid
<1>3. OrderFree
  <2> SUFFICES ASSUME ran.by = "user", Cardinality(Reads(ran.argv)) = Len(ran.argv),
                      Cardinality(Reads(ran.argv) \cap Actions) <= 1,
                      Reads(ran.argv) \cap {"version", "help"} = {},
                      NEW q \in Order(ran.argv)
               PROVE  Run(q) = Run(ran.argv)
    BY Zenon DEF OrderFree
  <2>1. ran # Nothing
    BY DEF Nothing
  <2>2. ran.argv \in Seq(Range(ran.argv))
    BY <2>1, CommandsAssumption DEF Commanded
  <2> QED
    BY <2>2, OrderDoesNotMatter
<1>4. UsageEverywhere
  <2> SUFFICES ASSUME ran.exit = "usage", NEW m \in Machines
               PROVE  Exits(ReadAll(ran.argv), m) \subseteq {"usage", "cannot_run"}
    BY Zenon DEF UsageEverywhere
  <2>1. ran # Nothing
    BY DEF Nothing
  <2>2. "usage" \in Exits(ReadAll(ran.argv), machine)
    BY <2>1 DEF Commanded, Run
  <2> QED
    BY <2>2, UsageAnywhere
<1>5. HashesSafely
  <2> DEFINE c == ReadAll(ran.argv)
             S == Range(ran.argv)
  <2>0. SUFFICES ASSUME ran.by # "nobody", ran.exit \in {"ok", "noisy", "verify_failed"},
                        c.early = "no", c.action \in {"run", "ladder"}
                 PROVE  LET most == IF c.action = "ladder" THEN Max(Range(c.ladder)) ELSE c.iterations
                        IN  /\ most > 1 => c.bytes >= Algorithms[Algorithm(c)].digest
                            /\ AllDistinct(c)
    BY Zenon DEF HashesSafely
  <2>1. ran # Nothing
    BY <2>0 DEF Nothing
  <2>2. ran.argv \in Seq(S) /\ \A o \in S : o[1] = "ladder" => o[2] \in Seq(Nat)
    <3>1. CASE ran.by = "user"
      BY <2>1, <3>1, CommandsAssumption DEF Commanded
    <3>2. CASE ran.by = "sweep"
      <4>1. PICK p \in Points, known \in SUBSET Keys(Points), ptx \in {"usable", "missing"} :
              ran.argv = Command(p, known, ptx)
        BY <2>1, <3>2 DEF Commanded
      <4>2. ran.argv \in Seq(S) /\ S = OptionsOf(p, known, ptx)
        BY <4>1, CommandIs
      <4>3. ASSUME NEW o \in S PROVE o[1] # "ladder"
        <5>1. \A x, v : o = <<x, v>> => o[1] = x
          OBVIOUS
        <5>2. \/ o[1] = "json" \/ o[1] = "algorithm" \/ o[1] = "transfer" \/ o[1] = "bytes"
              \/ o[1] = "iterations" \/ o[1] = "ws" \/ o[1] = "expect" \/ o[1] = "chunks"
              \/ o[1] = "primitives" \/ o[1] = "import" \/ o[1] = "compile"
              \/ o[1] = "kernel" \/ o[1] = "where"
          <6>1. o \in OptionsOf(p, known, ptx)
            BY <4>2
          <6>2. \/ o = <<"json", "">> \/ o = <<"algorithm", p.algorithm>>
                \/ o = <<"transfer", p.transfer>> \/ o = <<"bytes", p.bytes>>
                \/ o = <<"iterations", p.iterations>> \/ o = <<"ws", p.ws>>
                \/ o = <<"expect", p.algorithm>> \/ o = <<"chunks", p.chunks>>
                \/ o = <<"primitives", p.primitives>> \/ o = <<"import", ptx>>
                \/ o = <<"compile", p.compile>> \/ o = <<"kernel", p.kernel>>
                \/ o = <<"where", p.where>>
            BY <6>1, OptionsSay, Zenon
          <6> QED
            BY <5>1, <6>2, Zenon
        <5> QED
          BY <5>2
      <4> QED
        BY <4>2, <4>3
    <3> QED
      BY <2>1, <3>1, <3>2 DEF Commanded
  <2>3. Says(S, c)
    BY <2>2, ReadAllSays
  <2>4. ran.exit \in Exits(c, machine)
    BY <2>1 DEF Commanded, Run
  <2> HIDE DEF c, S
  <2>5. Sane(c)
    BY <2>0, <2>4, RunIsSane
  <2> QED
    BY <2>0, <2>2, <2>3, <2>5, SafeIfSane
<1> QED
  BY <1>2, <1>3, <1>4, <1>5 DEF CommandsSound

-----------------------------------------------------------------------------
(* The file. *)

(* What more text makes of a line without an end: never another point's, and never
   a whole rate of one that is not. *)
LEMMA FurtherIs ==
  ASSUME NEW line \in Rows, WellCut(line), line.cut # "no", NEW f \in Further(line)
  PROVE  /\ f \in Rows /\ WellCut(f) /\ f.cut \in Cuts /\ f.id = line.id
         /\ line.rate = "whole" <=> f.rate = "whole"
         /\ f.rate = line.rate \/ (line.cut \in {"between", "rate"} /\ f.rate = "part")
         /\ (f.cut \in {"between", "rate"} /\ f.rate = "none") =>
              line.cut \in {"between", "rate"} /\ line.rate = "none"
<1>1. /\ line = [id |-> line.id, rate |-> line.rate, cut |-> line.cut, quoted |-> line.quoted]
      /\ line.id \in {<<>>} \cup Points /\ line.rate \in Rates /\ line.cut \in Cuts
      /\ line.quoted \in BOOLEAN
  BY DEF Rows
<1>2. ASSUME NEW c, NEW rate
      PROVE  [line EXCEPT !.cut = c, !.rate = rate]
               = [id |-> line.id, rate |-> rate, cut |-> c, quoted |-> line.quoted]
  <2> DEFINE m == [line EXCEPT !.cut = c]
  <2>1. line = [id |-> line.id, rate |-> line.rate, cut |-> line.cut, quoted |-> line.quoted]
    BY <1>1
  <2>2. m = [id |-> line.id, rate |-> line.rate, cut |-> c, quoted |-> line.quoted]
    BY <2>1
  <2> HIDE DEF m
  <2>3. [m EXCEPT !.rate = rate] = [id |-> line.id, rate |-> rate, cut |-> c, quoted |-> line.quoted]
    BY <2>2
  <2> QED
    BY <2>3, Zenon DEF m
<1> DEFINE To(cuts, rate) == {[line EXCEPT !.cut = c, !.rate = rate] : c \in cuts}
<1>3. ASSUME NEW cuts, NEW rate, NEW g \in To(cuts, rate)
      PROVE  \E c \in cuts : g = [id |-> line.id, rate |-> rate, cut |-> c, quoted |-> line.quoted]
  <2>1. PICK c \in cuts : g = [line EXCEPT !.cut = c, !.rate = rate]
    BY Zenon
  <2> HIDE DEF To
  <2> QED
    BY <1>2, <2>1, Zenon
<1>4. \/ f = line /\ line.cut \in {"first", "before", "after"}
      \/ line.cut = "between" /\ f \in To({"between", "rate", "after"}, line.rate)
      \/ line.cut \in {"between", "rate"} /\ f \in To({"rate", "after"}, "part")
  <2>1. CASE line.cut = "between"
    <3>1. f \in To({"between", "rate", "after"}, line.rate) \cup To({"rate", "after"}, "part")
      BY <2>1, Zenon DEF Further
    <3> HIDE DEF To
    <3> QED
      BY <2>1, <3>1
  <2>2. CASE line.cut = "rate"
    <3>1. f \in To({"rate", "after"}, "part")
      BY <2>2, Zenon DEF Further
    <3> QED
      BY <2>2, <3>1
  <2>3. CASE line.cut \notin {"between", "rate"}
    <3>1. f = line
      BY <2>3 DEF Further
    <3> QED
      BY <1>1, <2>3, <3>1 DEF Cuts
  <2> QED
    BY <2>1, <2>2, <2>3
<1> HIDE DEF To
<1>5. CASE f = line /\ line.cut \in {"first", "before", "after"}
  BY <1>1, <1>5
<1>6. CASE line.cut = "between" /\ f \in To({"between", "rate", "after"}, line.rate)
  <2>1. PICK c \in {"between", "rate", "after"} :
          f = [id |-> line.id, rate |-> line.rate, cut |-> c, quoted |-> line.quoted]
    BY <1>3, <1>6
  <2> QED
    BY <1>1, <1>6, <2>1 DEF Rows, Rates, Cuts, WellCut
<1>7. CASE line.cut \in {"between", "rate"} /\ f \in To({"rate", "after"}, "part")
  <2>1. PICK c \in {"rate", "after"} :
          f = [id |-> line.id, rate |-> "part", cut |-> c, quoted |-> line.quoted]
    BY <1>3, <1>7
  <2> QED
    BY <1>1, <1>7, <2>1 DEF Rows, Rates, Cuts, WellCut
<1> QED
  BY <1>4, <1>5, <1>6, <1>7

(* What becomes of a row without an end when another follows on its line. *)
LEMMA GluedIs ==
  ASSUME NEW last \in Rows, WellCut(last), last.cut # "no",
         NEW r \in Rows, WellCut(r), NEW quotes \in BOOLEAN, NEW h \in Glued(last, r, quotes)
  PROVE  /\ h \in Rows /\ WellCut(h)
         /\ \/ last.cut = "first" /\ h = r
            \/ /\ h.id = last.id /\ (last.rate = "whole" <=> h.rate = "whole")
               /\ h.rate = last.rate \/ (last.cut \in {"between", "rate"} /\ h.rate = "part")
               /\ (h.cut \in {"between", "rate"} /\ h.rate = "none") =>
                    last.cut \in {"between", "rate"} /\ last.rate = "none"
<1>1. CASE last.cut = "first"
  <2>1. h = r
    BY <1>1 DEF Glued
  <2> QED
    BY <1>1, <2>1
<1>2. CASE last.cut # "first"
  <2>1. PICK quoted \in BOOLEAN, f \in Further(last) :
          h = [f EXCEPT !.cut = IF r.cut = "no" /\ ~quoted THEN "no" ELSE @, !.quoted = quoted]
    <3> DEFINE within == r.cut = "first" \/ (last.quoted /\ ~quotes)
               Ends(quoted) ==
                 {[f EXCEPT !.cut = IF r.cut = "no" /\ ~quoted THEN "no" ELSE @,
                            !.quoted = quoted] :
                    f \in {g \in Further(last) : within => g.cut = last.cut}}
               all == IF ~last.quoted THEN {r.quoted} ELSE IF quotes THEN BOOLEAN ELSE {TRUE}
    <3>1. h \in UNION {Ends(quoted) : quoted \in all}
      BY <1>2, Zenon DEF Glued
    <3>2. all \subseteq BOOLEAN
      BY DEF Rows
    <3>3. PICK quoted \in all : h \in Ends(quoted)
      <4> HIDE DEF all, Ends
      <4> QED
        BY <3>1
    <3>4. PICK f \in Further(last) :
            h = [f EXCEPT !.cut = IF r.cut = "no" /\ ~quoted THEN "no" ELSE @, !.quoted = quoted]
      <4> HIDE DEF all
      <4> QED
        BY <3>3, Zenon
    <3> QED
      <4> HIDE DEF all, Ends
      <4> QED
        BY <3>2, <3>3, <3>4, Zenon
  <2>2. /\ f \in Rows /\ WellCut(f) /\ f.cut \in Cuts /\ f.id = last.id
        /\ last.rate = "whole" <=> f.rate = "whole"
        /\ f.rate = last.rate \/ (last.cut \in {"between", "rate"} /\ f.rate = "part")
        /\ (f.cut \in {"between", "rate"} /\ f.rate = "none") =>
             last.cut \in {"between", "rate"} /\ last.rate = "none"
    BY FurtherIs
  <2> DEFINE c == IF r.cut = "no" /\ ~quoted THEN "no" ELSE f.cut
  <2>3. f = [id |-> f.id, rate |-> f.rate, cut |-> f.cut, quoted |-> f.quoted]
        /\ f.id \in {<<>>} \cup Points /\ f.rate \in Rates
    BY <2>2 DEF Rows
  <2>4. h = [f EXCEPT !.cut = c, !.quoted = quoted]
    BY <2>1
  <2>5. c \in {"no", f.cut}
    OBVIOUS
  <2> HIDE DEF c
  <2>6. h = [id |-> f.id, rate |-> f.rate, cut |-> c, quoted |-> quoted]
    <3> DEFINE m == [f EXCEPT !.cut = c]
    <3>1. m = [id |-> f.id, rate |-> f.rate, cut |-> c, quoted |-> f.quoted]
      BY <2>3
    <3>2. h = [m EXCEPT !.quoted = quoted]
      BY <2>4, Zenon
    <3> HIDE DEF m
    <3> QED
      BY <3>1, <3>2
  <2>7. h \in Rows
    BY <2>2, <2>3, <2>5, <2>6 DEF Rows
  <2>8. WellCut(h)
    BY <2>2, <2>5, <2>6 DEF WellCut
  <2> QED
    BY <2>2, <2>5, <2>6, <2>7, <2>8
<1> QED
  BY <1>1, <1>2

(* What a row that is cut off leaves. *)
LEMMA TornIs ==
  ASSUME NEW r \in Rows, NEW cut \in Cuts, NEW quoted \in BOOLEAN
  PROVE  /\ Torn(r, cut, quoted) \in Rows /\ WellCut(Torn(r, cut, quoted))
         /\ Torn(r, cut, quoted).id \in {<<>>, r.id}
         /\ Torn(r, cut, quoted).rate = "whole" => r.rate = "whole"
<1> DEFINE id   == IF cut \in {"first", "before"} THEN <<>> ELSE r.id
           rate == CASE cut = "after" -> r.rate
                     [] cut = "rate"  -> IF r.rate = "none" THEN "none" ELSE "part"
                     [] OTHER         -> "none"
<1>1. Torn(r, cut, quoted) = [id |-> id, rate |-> rate, cut |-> cut, quoted |-> quoted]
  BY Zenon DEF Torn
<1>2. r.id \in {<<>>} \cup Points /\ r.rate \in {"whole", "part", "none"}
  BY DEF Rows, Rates
<1>3. /\ id \in {<<>>, r.id} /\ (cut \in {"first", "before"} => id = <<>>)
      /\ rate \in {"whole", "part", "none"} /\ (rate = "whole" => r.rate = "whole")
      /\ cut \in {"between", "rate"} => rate # "whole"
  <2>1. CASE cut = "after"
    BY <1>2, <2>1
  <2>2. CASE cut = "rate"
    BY <1>2, <2>2
  <2>3. CASE cut \notin {"after", "rate"}
    <3>1. rate = "none"
      BY <2>3
    <3> QED
      BY <2>3, <3>1
  <2> QED
    BY <2>1, <2>2, <2>3
<1> HIDE DEF id, rate
<1> QED
  BY <1>1, <1>2, <1>3 DEF Rows, Rates, WellCut

\* g is f with something in its last line that concerns r: nothing is lost but
\* what Glued loses, and only r can be gained.
Extends(f, g, r) ==
  /\ WellFormed(g)
  /\ \A p \in Points :
       /\ RowsIn(f, p) \subseteq RowsIn(g, p)
       /\ RowsIn(g, p) \subseteq RowsIn(f, p) \cup {Len(g.rows)}
       /\ (p # r.id \/ r.rate # "whole") => RowsIn(g, p) \subseteq RowsIn(f, p)
       /\ (p # r.id \/ (r.cut = "no" /\ r.rate # "part")) => (p \in Missing(g) => p \in Missing(f))
  /\ (r.cut = "no" /\ Ended(f)) => Ended(g)
  /\ (r.cut = "no" /\ Ended(f) /\ r.rate = "whole" /\ r.id \in Points) => RowsIn(g, r.id) # {}

(* Behind a header without an end a row is lost. *)
LEMMA OntoHeader ==
  ASSUME NEW f, WellFormed(f), NEW r \in Rows, f.header = "open",
         NEW g, g = [header |-> "torn", rows |-> f.rows]
  PROVE  Extends(f, g, r)
<1>1. g.header = "torn" /\ g.rows = <<>> /\ f.rows = <<>>
  BY DEF WellFormed
<1>2. <<>> \in Seq(Rows) /\ DOMAIN <<>> = {}
  OBVIOUS
<1>3. WellFormed(g)
  BY <1>1, <1>2 DEF WellFormed
<1>4. \A p : RowsIn(g, p) = {} /\ RowsIn(f, p) = {}
  BY <1>1, <1>2 DEF RowsIn
<1>5. Completed(g) = {} /\ \A p : ~Frail(g, p)
  BY <1>1, <1>2 DEF Completed, Frail
<1>6. Missing(g) = {}
  BY <1>5, Zenon DEF Missing
<1>7. Ended(g) /\ ~Ended(f)
  BY <1>1 DEF Ended
<1> QED
  BY <1>3, <1>4, <1>6, <1>7, Zenon DEF Extends

(* A row on a line of its own. *)
LEMMA OntoLine ==
  ASSUME \A p \in Points : p # <<>>,
         NEW f, WellFormed(f), NEW r \in Rows, WellCut(r), f.header # "open", Ended(f),
         NEW g, g = [header |-> Begun(f.header), rows |-> Append(f.rows, r)]
  PROVE  Extends(f, g, r)
<1> DEFINE s == f.rows
           t == g.rows
           n == Len(s)
<1>1. /\ s \in Seq(Rows) /\ n \in Nat /\ DOMAIN s = 1 .. n
      /\ \A i \in 1 .. n : s[i].cut = "no" /\ WellCut(s[i])
  <2>1. s \in Seq(Rows)
    BY DEF WellFormed
  <2>2. n \in Nat /\ DOMAIN s = 1 .. n
    BY <2>1, LenProperties
  <2>3. ASSUME NEW i \in 1 .. n PROVE s[i].cut = "no" /\ WellCut(s[i])
    <3>1. s # <<>>
      BY <2>2
    <3>2. i < n \/ i = n
      BY <2>2
    <3> QED
      BY <2>2, <3>1, <3>2 DEF WellFormed, Ended
  <2> QED
    BY <2>1, <2>2, <2>3
<1>2. /\ t \in Seq(Rows) /\ Len(t) = n + 1 /\ DOMAIN t = 1 .. n + 1
      /\ t[n + 1] = r /\ \A i \in 1 .. n : t[i] = s[i]
  <2>1. t = Append(s, r)
    OBVIOUS
  <2> HIDE DEF s, t, n
  <2>2. t \in Seq(Rows) /\ Len(t) = Len(s) + 1 /\ t[Len(s) + 1] = r
        /\ \A i \in 1 .. Len(s) : t[i] = s[i]
    BY <1>1, <2>1, AppendProperties
  <2>3. DOMAIN t = 1 .. Len(t)
    BY <2>2, LenProperties
  <2> QED
    BY <2>2, <2>3 DEF n
<1>3. t # <<>> /\ t[Len(t)] = r
  BY <1>1, <1>2
<1>4. WellFormed(g)
  <2>1. Begun(f.header) \in {"ours", "torn"} /\ g.header = Begun(f.header)
    BY DEF WellFormed, Begun
  <2>2. ASSUME NEW i \in DOMAIN t
        PROVE  (i < Len(t) => t[i].cut = "no") /\ WellCut(t[i])
    <3>1. i \in 1 .. n \/ i = n + 1
      BY <1>1, <1>2
    <3>2. ~(n + 1 < n + 1)
      BY <1>1
    <3> QED
      BY <1>1, <1>2, <3>1, <3>2
  <2>3. g = [header |-> g.header, rows |-> t]
    OBVIOUS
  <2> HIDE DEF t
  <2>4. g \in [header : {"none", "ours", "torn", "open"}, rows : Seq(Rows)]
    BY <1>2, <2>1, <2>3
  <2> QED
    BY <2>1, <2>2, <2>4 DEF WellFormed, t
<1> HIDE DEF s, t, n
<1>5. \A i \in 1 .. n : i \in DOMAIN s /\ i \in DOMAIN t /\ t[i] = s[i]
  BY <1>1, <1>2
<1>6. \A i \in DOMAIN t : i \in 1 .. n \/ (i = Len(t) /\ t[i] = r)
  BY <1>1, <1>2
<1>7. ASSUME NEW p
      PROVE  /\ RowsIn(f, p) \subseteq RowsIn(g, p)
             /\ RowsIn(g, p) \subseteq RowsIn(f, p) \cup {Len(t)}
             /\ (p # r.id \/ r.rate # "whole") => RowsIn(g, p) \subseteq RowsIn(f, p)
  <2>1. RowsIn(f, p) = {i \in DOMAIN s : s[i].id = p /\ s[i].rate = "whole"}
    BY DEF RowsIn, s
  <2>2. RowsIn(g, p) = {i \in DOMAIN t : t[i].id = p /\ t[i].rate = "whole"}
    BY DEF RowsIn, t
  <2> QED
    BY <1>1, <1>5, <1>6, <2>1, <2>2
<1>8. r.rate = "whole" => Len(t) \in RowsIn(g, r.id)
  <2>1. Len(t) \in DOMAIN t
    BY <1>1, <1>2
  <2> QED
    BY <1>3, <2>1 DEF RowsIn, t
<1>9. ASSUME NEW p \in Missing(g), p # r.id \/ (r.cut = "no" /\ r.rate # "part")
      PROVE  p \in Missing(f)
  <2>1. p \in Points /\ RowsIn(g, p) = {} /\ (p \in Completed(g) \/ Frail(g, p))
    BY DEF Missing
  <2>2. RowsIn(f, p) = {} /\ p # <<>>
    BY <1>7, <2>1
  <2>3. ~Frail(g, p)
    <3>1. Frail(g, p) => r.cut \in {"between", "rate"} /\ r.id = p
      BY <1>3 DEF Frail, t
    <3> QED
      BY <1>9, <3>1
  <2>4. PICK i \in DOMAIN t : t[i].id = p /\ t[i].rate # "none"
    BY <2>1, <2>3 DEF Completed, t
  <2>5. i \in 1 .. n
    <3>1. SUFFICES ASSUME i = Len(t), t[i] = r PROVE FALSE
      BY <1>6
    <3>2. r.rate \in {"whole", "part", "none"}
      BY DEF Rows, Rates
    <3>3. r.rate = "whole"
      BY <1>9, <2>4, <3>1, <3>2
    <3> QED
      BY <1>8, <2>1, <2>4, <3>1, <3>3
  <2>6. i \in DOMAIN s /\ s[i].id = p /\ s[i].rate # "none"
    BY <1>5, <2>4, <2>5
  <2>7. p \in Completed(f)
    BY <2>2, <2>6 DEF Completed, s
  <2> QED
    BY <2>1, <2>2, <2>7 DEF Missing
<1>10. r.cut = "no" => Ended(g)
  <2>1. g.header # "open"
    BY DEF Begun
  <2> QED
    BY <1>3, <2>1 DEF Ended, t
<1> QED
  BY <1>4, <1>7, <1>8, <1>9, <1>10 DEF Extends, t

(* A row behind one without an end. *)
LEMMA OntoRow ==
  ASSUME \A p \in Points : p # <<>>,
         NEW f, WellFormed(f), NEW r \in Rows, WellCut(r), f.rows # <<>>, NEW quotes \in BOOLEAN,
         f.rows[Len(f.rows)].cut # "no", NEW h \in Glued(f.rows[Len(f.rows)], r, quotes),
         NEW g, g = [f EXCEPT !.rows[Len(f.rows)] = h]
  PROVE  Extends(f, g, r)
<1> DEFINE s == f.rows
           t == g.rows
           n == Len(s)
           last == s[n]
<1>0. f = [header |-> f.header, rows |-> s] /\ f.header \in {"ours", "torn"}
  BY DEF WellFormed
<1>1. /\ s \in Seq(Rows) /\ n \in Nat /\ n \in 1 .. n /\ DOMAIN s = 1 .. n /\ s \in [1 .. n -> Rows]
      /\ \A i \in 1 .. n : (i < n => s[i].cut = "no") /\ WellCut(s[i])
  <2>1. s \in Seq(Rows)
    BY DEF WellFormed
  <2>2. n \in Nat /\ DOMAIN s = 1 .. n /\ s \in [1 .. n -> Rows] /\ n # 0
    BY <2>1, LenProperties, EmptySeq
  <2> QED
    BY <2>1, <2>2 DEF WellFormed
<1>2. g = [header |-> f.header, rows |-> [s EXCEPT ![n] = h]]
  BY <1>0
<1>3. /\ h \in Rows /\ WellCut(h)
      /\ \/ last.cut = "first" /\ h = r
         \/ /\ h.id = last.id /\ (last.rate = "whole" <=> h.rate = "whole")
            /\ h.rate = last.rate \/ (last.cut \in {"between", "rate"} /\ h.rate = "part")
            /\ (h.cut \in {"between", "rate"} /\ h.rate = "none") =>
                 last.cut \in {"between", "rate"} /\ last.rate = "none"
  <2>1. last \in Rows /\ WellCut(last)
    BY <1>1
  <2>2. last.cut # "no" /\ h \in Glued(last, r, quotes)
    OBVIOUS
  <2> HIDE DEF last
  <2> QED
    BY <2>1, <2>2, GluedIs
<1>4. /\ t \in Seq(Rows) /\ Len(t) = n /\ DOMAIN t = 1 .. n
      /\ t[n] = h /\ \A i \in 1 .. n : i # n => t[i] = s[i]
  <2>1. t = [s EXCEPT ![n] = h]
    BY <1>2
  <2> HIDE DEF s, t, n
  <2>2. t \in [1 .. n -> Rows] /\ t[n] = h /\ \A i \in 1 .. n : i # n => t[i] = s[i]
    BY <1>1, <1>3, <2>1
  <2>3. t \in Seq(Rows)
    BY <1>1, <2>2, SeqDef
  <2>4. Len(t) = n
    BY <1>1, <2>2, <2>3, LenProperties
  <2> QED
    BY <2>2, <2>3, <2>4
<1>5. WellFormed(g)
  <2>1. g.header = f.header
    BY <1>2
  <2>2. ASSUME NEW i \in DOMAIN t
        PROVE  (i < Len(t) => t[i].cut = "no") /\ WellCut(t[i])
    <3>1. ~(n < n)
      BY <1>1
    <3> QED
      BY <1>1, <1>3, <1>4, <3>1
  <2>3. g = [header |-> f.header, rows |-> t]
    BY <1>2
  <2> HIDE DEF t
  <2>4. g \in [header : {"none", "ours", "torn", "open"}, rows : Seq(Rows)]
    BY <1>0, <1>4, <2>3
  <2> QED
    BY <1>0, <2>1, <2>2, <2>4 DEF WellFormed, t
<1>6. last = s[n] /\ last.cut # "no" /\ WellCut(last)
  BY <1>1
<1> HIDE DEF s, t, n, last
<1>7. ASSUME NEW p \in Points
      PROVE  /\ RowsIn(f, p) \subseteq RowsIn(g, p)
             /\ RowsIn(g, p) \subseteq RowsIn(f, p) \cup {Len(t)}
             /\ (p # r.id \/ r.rate # "whole") => RowsIn(g, p) \subseteq RowsIn(f, p)
  <2>1. RowsIn(f, p) = {i \in DOMAIN s : s[i].id = p /\ s[i].rate = "whole"}
    BY DEF RowsIn, s
  <2>2. RowsIn(g, p) = {i \in DOMAIN t : t[i].id = p /\ t[i].rate = "whole"}
    BY DEF RowsIn, t
  <2>3. last.id = p /\ last.rate = "whole" => h.id = p /\ h.rate = "whole"
    <3>1. p # <<>>
      OBVIOUS
    <3> QED
      BY <1>3, <1>6, <3>1 DEF WellCut
  <2>4. (p # r.id \/ r.rate # "whole") =>
          (h.id = p /\ h.rate = "whole" => last.id = p /\ last.rate = "whole")
    BY <1>3
  <2>5. \A i \in DOMAIN t : i = n \/ (i \in DOMAIN s /\ t[i] = s[i])
    BY <1>1, <1>4
  <2>6. \A i \in DOMAIN s : i = n \/ (i \in DOMAIN t /\ t[i] = s[i])
    BY <1>1, <1>4
  <2>7. n \in DOMAIN s /\ n \in DOMAIN t /\ s[n] = last /\ t[n] = h /\ Len(t) = n
    BY <1>1, <1>4, <1>6
  <2>8. RowsIn(f, p) \subseteq RowsIn(g, p)
    BY <2>1, <2>2, <2>3, <2>6, <2>7
  <2>9. RowsIn(g, p) \subseteq RowsIn(f, p) \cup {Len(t)}
    BY <2>1, <2>2, <2>5, <2>7
  <2>10. (p # r.id \/ r.rate # "whole") => RowsIn(g, p) \subseteq RowsIn(f, p)
    BY <2>1, <2>2, <2>4, <2>5, <2>7
  <2> QED
    BY <2>8, <2>9, <2>10
<1>8. ASSUME NEW p \in Missing(g), p # r.id \/ (r.cut = "no" /\ r.rate # "part")
      PROVE  p \in Missing(f)
  <2>1. p \in Points /\ RowsIn(g, p) = {} /\ (p \in Completed(g) \/ Frail(g, p))
    BY DEF Missing
  <2>2. RowsIn(f, p) = {} /\ p # <<>>
    BY <1>7, <2>1
  <2>3. n \in DOMAIN t /\ n \in DOMAIN s
    BY <1>1, <1>4
  <2>4. ~(h.id = p /\ h.rate = "whole")
    BY <1>4, <2>1, <2>3 DEF RowsIn, t
  <2>5. r.rate \in {"whole", "part", "none"} /\ h.rate \in {"whole", "part", "none"}
        /\ last.rate \in {"whole", "part", "none"}
    <3>1. last \in Rows
      BY <1>1, <1>6
    <3> QED
      BY <1>3, <3>1 DEF Rows, Rates
  <2>6. CASE Frail(g, p)
    <3>1. h.cut \in {"between", "rate"} /\ h.rate = "none" /\ h.id = p
      BY <1>4, <2>6 DEF Frail, t
    <3>2. ~(last.cut = "first" /\ h = r)
      BY <1>8, <3>1
    <3>3. last.id = p /\ last.cut \in {"between", "rate"} /\ last.rate = "none"
      BY <1>3, <3>1, <3>2
    <3>4. f.rows # <<>> /\ f.rows[Len(f.rows)] = last
      BY <1>6 DEF s, n
    <3>5. Frail(f, p)
      BY <3>3, <3>4 DEF Frail
    <3> QED
      BY <2>1, <2>2, <3>5 DEF Missing
  <2>7. CASE p \in Completed(g)
    <3>1. PICK i \in DOMAIN t : t[i].id = p /\ t[i].rate # "none"
      BY <2>7 DEF Completed, t
    <3>2. CASE i # n
      <4>1. i \in DOMAIN s /\ s[i].id = p /\ s[i].rate # "none"
        BY <1>1, <1>4, <3>1, <3>2
      <4>2. p \in Completed(f)
        BY <2>2, <4>1 DEF Completed, s
      <4> QED
        BY <2>1, <2>2, <4>2 DEF Missing
    <3>3. CASE i = n
      <4>1. h.id = p /\ h.rate = "part"
        BY <1>4, <2>4, <2>5, <3>1, <3>3
      <4>2. ~(last.cut = "first" /\ h = r)
        BY <1>8, <4>1
      <4>3. last.id = p /\ (last.rate = "part" \/ (last.cut \in {"between", "rate"} /\ last.rate # "whole"))
        BY <1>3, <4>1, <4>2
      <4>4. CASE last.rate # "none"
        <5>1. p \in Completed(f)
          <6>1. n \in DOMAIN f.rows /\ f.rows[n].id # <<>> /\ f.rows[n].rate # "none"
                /\ f.rows[n].id = p
            BY <1>6, <2>2, <2>3, <4>3, <4>4 DEF s
          <6> QED
            BY <6>1 DEF Completed
        <5> QED
          BY <2>1, <2>2, <5>1 DEF Missing
      <4>5. CASE last.rate = "none"
        <5>1. f.rows # <<>> /\ f.rows[Len(f.rows)] = last
          BY <1>6 DEF s, n
        <5>2. Frail(f, p)
          BY <4>3, <4>5, <5>1 DEF Frail
        <5> QED
          BY <2>1, <2>2, <5>2 DEF Missing
      <4> QED
        BY <4>4, <4>5
    <3> QED
      BY <3>2, <3>3
  <2> QED
    BY <2>1, <2>6, <2>7
<1>9. ~Ended(f)
  BY DEF Ended
<1> QED
  BY <1>5, <1>7, <1>8, <1>9 DEF Extends, t

(* Whatever is appended to a file extends it. *)
LEMMA AppendedExtends ==
  ASSUME \A p \in Points : p # <<>>,
         NEW f, WellFormed(f), NEW r \in Rows, WellCut(r), NEW quotes \in BOOLEAN,
         NEW g \in Appended(f, r, quotes)
  PROVE  Extends(f, g, r)
<1> DEFINE n == Len(f.rows)
<1>1. f.rows \in Seq(Rows) /\ n \in Nat
  <2>1. f.rows \in Seq(Rows)
    BY DEF WellFormed
  <2> QED
    BY <2>1, LenProperties
<1>2. n > 0 <=> f.rows # <<>>
  BY <1>1, EmptySeq
<1>3. CASE f.header = "open"
  <2>1. g = [header |-> "torn", rows |-> f.rows]
    BY <1>3 DEF Appended
  <2> QED
    BY <1>3, <2>1, OntoHeader
<1>4. CASE f.header # "open" /\ n > 0 /\ f.rows[n].cut # "no"
  <2>1. g \in {[f EXCEPT !.rows[n] = h] : h \in Glued(f.rows[n], r, quotes)}
    BY <1>4 DEF Appended
  <2>2. PICK h \in Glued(f.rows[n], r, quotes) : g = [f EXCEPT !.rows[n] = h]
    BY <2>1
  <2> QED
    BY <1>2, <1>4, <2>2, OntoRow
<1>5. CASE f.header # "open" /\ ~(n > 0 /\ f.rows[n].cut # "no")
  <2>1. g = [header |-> Begun(f.header), rows |-> Append(f.rows, r)]
    BY <1>5 DEF Appended
  <2>2. Ended(f)
    BY <1>2, <1>5 DEF Ended
  <2> QED
    BY <1>5, <2>1, <2>2, OntoLine
<1> QED
  BY <1>3, <1>4, <1>5

-----------------------------------------------------------------------------
(* Counting. *)

(* A sequence has anything finitely often. *)
LEMMA TimesFinite ==
  ASSUME NEW S, NEW s \in Seq(S), NEW T \in SUBSET (DOMAIN s)
  PROVE  IsFiniteSet(T) /\ Cardinality(T) \in Nat
<1>1. Len(s) \in Nat /\ DOMAIN s = 1 .. Len(s)
  BY LenProperties
<1>2. IsFiniteSet(DOMAIN s)
  BY <1>1, FS_Interval
<1>3. IsFiniteSet(T)
  BY <1>2, FS_Subset
<1> QED
  BY <1>3, FS_CardinalityType

(* Without its first element a sequence has that once less. *)
LEMMA TimesInTail ==
  ASSUME NEW S, NEW s \in Seq(S), s # <<>>, NEW p
  PROVE  Cardinality(Times(Tail(s), p)) + (IF Head(s) = p THEN 1 ELSE 0) <= Cardinality(Times(s, p))
<1> DEFINE t == Tail(s)
           A == Times(t, p)
           B == Times(s, p)
           C == B \ {1}
           f == [i \in A |-> i + 1]
<1>1. /\ t \in Seq(S) /\ Len(t) = Len(s) - 1 /\ Len(s) \in Nat \ {0}
      /\ DOMAIN s = 1 .. Len(s) /\ DOMAIN t = 1 .. Len(t)
      /\ \A i \in 1 .. Len(t) : t[i] = s[i + 1]
      /\ Head(s) = s[1]
  BY HeadTailProperties, LenProperties, EmptySeq
<1>2. B \in SUBSET (DOMAIN s)
  BY DEF Times
<1>3. IsFiniteSet(B) /\ Cardinality(B) \in Nat
  <2> HIDE DEF B
  <2> QED
    BY <1>2, TimesFinite
<1>4. f \in Injection(A, C)
  <2>1. ASSUME NEW i \in A PROVE i \in Nat /\ i + 1 \in C
    <3>1. i \in 1 .. Len(t) /\ t[i] = p
      BY <1>1 DEF Times
    <3>2. i + 1 \in 1 .. Len(s) /\ i + 1 # 1 /\ i \in Nat
      BY <1>1, <3>1
    <3> QED
      BY <1>1, <3>1, <3>2 DEF Times
  <2> HIDE DEF A, C
  <2>2. f \in [A -> C]
    BY <2>1
  <2>3. \A i, j \in A : f[i] = f[j] => i = j
    BY <2>1
  <2> HIDE DEF f
  <2> QED
    BY <2>2, <2>3 DEF Injection, IsInjective
<1> HIDE DEF f, A, t
<1>5. IsFiniteSet(C) /\ Cardinality(C) = IF 1 \in B THEN Cardinality(B) - 1 ELSE Cardinality(B)
  <2> HIDE DEF B
  <2> QED
    BY <1>3, FS_RemoveElement
<1>6. Cardinality(A) <= Cardinality(C) /\ Cardinality(A) \in Nat /\ Cardinality(C) \in Nat
  <2> HIDE DEF C
  <2>1. IsFiniteSet(A) /\ Cardinality(A) <= Cardinality(C)
    BY <1>4, <1>5, FS_Injection
  <2> QED
    BY <1>5, <2>1, FS_CardinalityType
<1>7. Head(s) = p => 1 \in B
  BY <1>1 DEF Times
<1> HIDE DEF B, C
<1>8. Cardinality(A) + (IF Head(s) = p THEN 1 ELSE 0) <= Cardinality(B)
  <2> DEFINE a == Cardinality(A)
             b == Cardinality(B)
             c == Cardinality(C)
  <2>1. a \in Nat /\ b \in Nat /\ c \in Nat /\ a <= c /\ (1 \in B => c = b - 1) /\ (1 \notin B => c = b)
    BY <1>3, <1>5, <1>6
  <2> HIDE DEF a, b, c
  <2>2. CASE Head(s) = p
    <3>1. a + 1 <= b
      BY <1>7, <2>1, <2>2
    <3> QED
      BY <2>2, <3>1 DEF a, b
  <2>3. CASE Head(s) # p
    <3>1. a + 0 <= b
      BY <2>1
    <3> QED
      BY <2>3, <3>1 DEF a, b
  <2> QED
    BY <2>2, <2>3
<1> QED
  BY <1>8 DEF A, B, t

\* What is left of a sequence without what is done, as a resumed sweep has it.
Left(s, done) ==
  LET order == Ascending({i \in DOMAIN s : s[i] \notin done})
  IN  [k \in DOMAIN order |-> s[order[k]]]

(* What is left of a sequence without what is done has nothing more often than
   the sequence. *)
LEMMA TimesLeft ==
  ASSUME NEW S, NEW s \in Seq(S), NEW done
  PROVE  /\ Left(s, done) \in Seq(S)
         /\ \A p \in Range(s) : p \in Range(Left(s, done)) \/ p \in done
         /\ \A p : p \in done => Times(Left(s, done), p) = {}
         /\ \A p : Cardinality(Times(Left(s, done), p)) <= Cardinality(Times(s, p))
<1> DEFINE undone == {i \in DOMAIN s : s[i] \notin done}
           order == Ascending(undone)
           left == Left(s, done)
           n == Cardinality(undone)
<1>0. /\ undone = {i \in DOMAIN s : s[i] \notin done} /\ order = Ascending(undone)
      /\ left = [k \in DOMAIN order |-> s[order[k]]]
  BY Zenon DEF Left
<1> HIDE DEF undone, order, left, n
<1>1. Len(s) \in Nat /\ DOMAIN s = 1 .. Len(s) /\ \A i \in DOMAIN s : s[i] \in S
  BY LenProperties, ElementOfSeq
<1>2. undone \in SUBSET (DOMAIN s) /\ undone \in SUBSET Nat
  BY <1>0, <1>1
<1>3. IsFiniteSet(undone)
  BY <1>2, TimesFinite
<1>4. /\ n \in Nat /\ order \in [1 .. n -> undone]
      /\ \A x \in undone : \E i \in 1 .. n : order[i] = x
      /\ \A i, j \in 1 .. n : i < j => order[i] < order[j]
  BY <1>0, <1>2, <1>3, AscendingIs DEF n
<1>5. /\ DOMAIN left = 1 .. n
      /\ \A k \in 1 .. n : /\ order[k] \in DOMAIN s /\ left[k] = s[order[k]]
                          /\ left[k] \in S /\ left[k] \notin done
  BY <1>0, <1>1, <1>4
<1>6. left \in Seq(S)
  <2>1. left = [k \in 1 .. n |-> left[k]]
    BY <1>0, <1>4
  <2>2. left \in [1 .. n -> S]
    BY <1>5, <2>1
  <2> QED
    BY <1>4, <2>2, SeqDef
<1>7. ASSUME NEW p \in Range(s) PROVE p \in Range(left) \/ p \in done
  <2>1. SUFFICES ASSUME p \notin done PROVE p \in Range(left)
    OBVIOUS
  <2>2. PICK i \in DOMAIN s : s[i] = p
    BY DEF Range
  <2>3. PICK k \in 1 .. n : order[k] = i
    BY <1>0, <1>4, <2>1, <2>2
  <2>4. k \in DOMAIN left /\ left[k] = p
    BY <1>5, <2>2, <2>3
  <2> QED
    BY <2>4 DEF Range
<1>8. ASSUME NEW p PROVE p \in done => Times(left, p) = {}
  BY <1>5 DEF Times
<1>9. ASSUME NEW p PROVE Cardinality(Times(left, p)) <= Cardinality(Times(s, p))
  <2> DEFINE A == Times(left, p)
             B == Times(s, p)
             f == [k \in A |-> order[k]]
  <2>1. \A k \in A : k \in 1 .. n /\ order[k] \in B
    BY <1>5 DEF Times
  <2>2. B \in SUBSET (DOMAIN s)
    BY DEF Times
  <2> HIDE DEF A, B
  <2>3. IsFiniteSet(B)
    BY <2>2, TimesFinite
  <2>4. \A i, j \in A : order[i] = order[j] => i = j
    <3> SUFFICES ASSUME NEW i \in A, NEW j \in A, order[i] = order[j] PROVE i = j
      OBVIOUS
    <3>1. i \in 1 .. n /\ j \in 1 .. n /\ order[i] \in Nat /\ order[j] \in Nat
      BY <1>2, <1>4, <2>1
    <3>2. ~(i < j) /\ ~(j < i)
      BY <1>4, <3>1
    <3> QED
      BY <1>4, <3>1, <3>2
  <2>5. f \in Injection(A, B)
    <3>1. f \in [A -> B]
      BY <2>1
    <3>2. \A i, j \in A : f[i] = f[j] => i = j
      BY <2>4
    <3> HIDE DEF f
    <3> QED
      BY <3>1, <3>2 DEF Injection, IsInjective
  <2> HIDE DEF f
  <2>6. Cardinality(A) <= Cardinality(B)
    BY <2>3, <2>5, FS_Injection
  <2> QED
    BY <2>6 DEF A, B
<1> QED
  BY <1>6, <1>7, <1>8, <1>9 DEF left

(* A set of no more than some others. *)
LEMMA OneMore ==
  ASSUME NEW G, IsFiniteSet(G), NEW H, NEW x, H \subseteq G \cup {x}
  PROVE  /\ IsFiniteSet(H) /\ Cardinality(G) \in Nat /\ Cardinality(H) \in Nat
         /\ Cardinality(H) <= Cardinality(G) + 1
         /\ H \subseteq G => Cardinality(H) <= Cardinality(G)
<1> DEFINE K == G \cup {x}
<1>1. IsFiniteSet(K) /\ Cardinality(K) = IF x \in G THEN Cardinality(G) ELSE Cardinality(G) + 1
  BY FS_AddElement
<1>2. H \in SUBSET K
  OBVIOUS
<1> HIDE DEF K
<1>3. IsFiniteSet(H) /\ Cardinality(H) <= Cardinality(K)
  BY <1>1, <1>2, FS_Subset
<1>4. Cardinality(G) \in Nat /\ Cardinality(H) \in Nat
  BY <1>3, FS_CardinalityType
<1>5. Cardinality(H) <= Cardinality(G) + 1
  BY <1>1, <1>3, <1>4
<1>6. H \subseteq G => Cardinality(H) <= Cardinality(G)
  BY FS_Subset
<1> QED
  BY <1>3, <1>4, <1>5, <1>6

-----------------------------------------------------------------------------
(* The steps. *)

(* As long as the axes and the machine stay, so do the grid and what it makes of
   a file. *)
LEMMA SameGrid ==
  ASSUME UNCHANGED fixed
  PROVE  /\ TheGrid' = TheGrid /\ Points' = Points /\ Rows' = Rows
         /\ WellFormed(file)' <=> WellFormed(file')
         /\ Missing(file)' = Missing(file')
         /\ \A p : Copies(p)' = Copies(p) /\ Copies(p) = Times(TheGrid, p)
<1>1. TheGrid' = TheGrid
  BY DEF fixed, TheGrid
<1>2. Points' = Points
  BY <1>1 DEF Points
<1>3. Rows' = Rows
  BY <1>2 DEF Rows
<1>4. WellFormed(file)' <=> WellFormed(file')
  BY <1>3, Zenon DEF WellFormed
<1>5. Missing(file)' = Missing(file')
  BY <1>2, Zenon DEF Missing, RowsIn, Completed, Frail
<1>6. \A p : Copies(p)' = Copies(p) /\ Copies(p) = Times(TheGrid, p)
  BY <1>1, Zenon DEF Copies, Times
<1> QED
  BY <1>1, <1>2, <1>3, <1>4, <1>5, <1>6

(* What the invariant says of the sets whose elements are counted. *)
LEMMA Known ==
  ASSUME SweepInv
  PROVE  /\ TheGrid \in Seq(Points) /\ IsFiniteSet(Points) /\ \A p \in Points : p # <<>>
         /\ Range(TheGrid) = Points
         /\ IsFiniteSet(Gone) /\ Cardinality(Gone) \in Nat /\ Gone \subseteq Points
         /\ IsFiniteSet(Missing(file)) /\ tears \in Nat /\ swallowed \in Nat
         /\ \A p : /\ Cardinality(RowsIn(file, p)) \in Nat /\ IsFiniteSet(RowsIn(file, p))
                   /\ Cardinality(Times(todo, p)) \in Nat
                   /\ Cardinality(Copies(p)) \in Nat
<1>1. TheGrid \in Seq(Points) /\ IsFiniteSet(Points) /\ \A p \in Points : p # <<>>
  BY PointsFit DEF SweepInv, Work
<1>2. Range(TheGrid) = Points
  BY DEF Points
<1>3. Gone \subseteq Points
  <2>1. Passed \subseteq Points
    BY Zenon DEF Passed
  <2> QED
    BY <2>1 DEF Gone, Missing
<1>4. IsFiniteSet(Gone) /\ Cardinality(Gone) \in Nat
  BY <1>1, <1>3, FS_Subset, FS_CardinalityType
<1>5. IsFiniteSet(Missing(file)) /\ tears \in Nat /\ swallowed \in Nat
  <2>1. Missing(file) \subseteq Points
    BY DEF Missing
  <2> QED
    BY <1>1, <2>1, FS_Subset, SweepsAssumption DEF SweepInv, Work
<1>6. ASSUME NEW p PROVE Cardinality(RowsIn(file, p)) \in Nat /\ IsFiniteSet(RowsIn(file, p))
  <2>1. file.rows \in Seq(Rows) /\ RowsIn(file, p) \in SUBSET (DOMAIN file.rows)
    BY DEF SweepInv, WellFormed, RowsIn
  <2> QED
    BY <2>1, TimesFinite
<1>7. ASSUME NEW p PROVE Cardinality(Times(todo, p)) \in Nat
  <2>1. todo \in Seq(Points) /\ Times(todo, p) \in SUBSET (DOMAIN todo)
    BY DEF SweepInv, Work, Times
  <2> QED
    BY <2>1, TimesFinite
<1>8. ASSUME NEW p PROVE Cardinality(Copies(p)) \in Nat
  <2>1. Copies(p) \in SUBSET (DOMAIN TheGrid)
    BY DEF Copies
  <2> QED
    BY <1>1, <2>1, TimesFinite
<1> QED
  BY <1>1, <1>2, <1>3, <1>4, <1>5, <1>6, <1>7, <1>8

(* The bounds of what is gone and missing, kept by a step that loses nothing, by one
   that loses a point behind a row without an end, which ends it or is taken in, by
   one that cuts off a row, and by one that begins the file anew. *)
LEMMA StaysBounded ==
  ASSUME SweepInv, UNCHANGED fixed, NEW x, tears' \in Nat, swallowed' \in Nat,
         \/ /\ Gone' \subseteq Gone /\ Open(file') <= Open(file)
            /\ Missing(file') \subseteq Missing(file) /\ tears' = tears /\ swallowed' = swallowed
         \/ /\ Gone' \subseteq Gone \cup {x} /\ Open(file') = 0 /\ Open(file) = 1
            /\ Missing(file') \subseteq Missing(file) /\ tears' = tears /\ swallowed' = swallowed
         \/ /\ Gone' \subseteq Gone \cup {x} /\ Open(file) = 1
            /\ Missing(file') \subseteq Missing(file) /\ tears' = tears /\ swallowed' = swallowed + 1
         \/ /\ Gone' \subseteq Gone \cup {x} /\ Missing(file') \subseteq Missing(file) \cup {x}
            /\ tears' = tears + 1 /\ swallowed' = swallowed
         \/ Gone' = {} /\ Missing(file') = {} /\ Open(file') = 0 /\ swallowed' = 0
  PROVE  Bounded'
<1> DEFINE G == Gone
           H == Gone'
           g == Cardinality(G)
           h == Cardinality(H)
           M == Missing(file)
           N == Missing(file')
           m == Cardinality(M)
           k == Cardinality(N)
           o == Open(file)
           q == Open(file')
           t == tears
           u == tears'
           v == swallowed
           w == swallowed'
<1>1. IsFiniteSet(G) /\ IsFiniteSet(M) /\ t \in Nat /\ v \in Nat /\ u \in Nat /\ w \in Nat
  BY Known
<1>2. o \in 0 .. 1 /\ q \in 0 .. 1
  BY DEF Open
<1>3. g + o <= 2 * t + v /\ m <= t /\ (t = 0 => v = 0)
  BY DEF SweepInv, Bounded
<1>4. Bounded' <=> h + q <= 2 * u + w /\ k <= u /\ (u = 0 => w = 0)
  <2>1. Open(file)' = Open(file') /\ Missing(file)' = Missing(file')
    BY SameGrid DEF Open, Ended
  <2> QED
    BY <2>1 DEF Bounded
<1>5. CASE Gone' = {} /\ Missing(file') = {} /\ Open(file') = 0 /\ swallowed' = 0
  <2>1. h = 0 /\ k = 0 /\ q = 0 /\ w = 0
    BY <1>5, FS_EmptySet
  <2> HIDE DEF h, k, q, u, w
  <2>2. h + q <= 2 * u + w /\ k <= u
    BY <1>1, <2>1
  <2> QED
    BY <1>4, <2>1, <2>2
<1>6. CASE H \subseteq G \cup {x} /\ N \subseteq M \cup {x}
  <2>1. \/ H \subseteq G /\ q <= o /\ N \subseteq M /\ u = t /\ w = v
        \/ q = 0 /\ o = 1 /\ N \subseteq M /\ u = t /\ w = v
        \/ o = 1 /\ N \subseteq M /\ u = t /\ w = v + 1
        \/ u = t + 1 /\ w = v
        \/ Gone' = {} /\ Missing(file') = {} /\ Open(file') = 0 /\ swallowed' = 0
    OBVIOUS
  <2> HIDE DEF G, H, M, N
  <2>2. /\ g \in Nat /\ h \in Nat /\ h <= g + 1
        /\ H \subseteq G => h <= g
    BY <1>1, <1>6, OneMore
  <2>3. /\ m \in Nat /\ k \in Nat /\ k <= m + 1
        /\ N \subseteq M => k <= m
    BY <1>1, <1>6, OneMore
  <2> HIDE DEF g, h, m, k, o, q, t, u, v, w
  <2>4. SUFFICES ASSUME ~(Gone' = {} /\ Missing(file') = {} /\ Open(file') = 0 /\ swallowed' = 0)
                 PROVE  h + q <= 2 * u + w /\ k <= u /\ (u = 0 => w = 0)
    BY <1>4, <1>5
  <2> QED
    BY <1>1, <1>2, <1>3, <2>1, <2>2, <2>3, <2>4
<1> QED
  BY <1>5, <1>6

(* A file that gets its header, or none, is otherwise the same. *)
LEMMA SameRows ==
  ASSUME NEW f, WellFormed(f), NEW g, g = f \/ g = [f EXCEPT !.header = Begun(@)]
  PROVE  /\ WellFormed(g) /\ Missing(g) = Missing(f) /\ Open(g) = Open(f)
         /\ \A p : RowsIn(g, p) = RowsIn(f, p)
<1>1. f = [header |-> f.header, rows |-> f.rows]
      /\ f.header \in {"none", "ours", "torn", "open"} /\ f.rows \in Seq(Rows)
  BY DEF WellFormed
<1>2. /\ g = [header |-> g.header, rows |-> f.rows]
      /\ g.header = f.header \/ (f.header = "none" /\ g.header = "ours")
      /\ g.rows = f.rows
  BY <1>1 DEF Begun
<1>3. g \in [header : {"none", "ours", "torn", "open"}, rows : Seq(Rows)]
  BY <1>1, <1>2
<1>4. WellFormed(g)
  BY <1>2, <1>3 DEF WellFormed
<1>5. \A p : RowsIn(g, p) = RowsIn(f, p)
  BY <1>2 DEF RowsIn
<1>6. Completed(g) = Completed(f) /\ \A p : Frail(g, p) <=> Frail(f, p)
  BY <1>2 DEF Completed, Frail
<1>7. Missing(g) = Missing(f)
  BY <1>5, <1>6, Zenon DEF Missing
<1>8. Open(g) = Open(f)
  BY <1>2 DEF Open, Ended
<1> QED
  BY <1>4, <1>5, <1>7, <1>8

(* However a sweep ends, but for a row cut off. *)
LEMMA Stops ==
  ASSUME SweepInv, UNCHANGED fixed, tears' = tears, swallowed' = swallowed,
         starts' \in 0 .. MaxStarts,
         NEW code \in {"none", "ok", "usage", "failed"}, Stop(code),
         file' = file \/ Close,
         code = "ok" => \A p \in Points : RowsIn(file, p) = {} => p \in Gone
  PROVE  WellFormed(file)' /\ Work' /\ Counted' /\ Bounded'
<1>1. /\ at' = "idle" /\ exit' = code /\ todo' = <<>> /\ refs' = {} /\ failed' = FALSE
      /\ args' = args /\ machine' = machine
  BY DEF Stop, fixed
<1>2. /\ WellFormed(file') /\ Missing(file') = Missing(file) /\ Open(file') = Open(file)
      /\ \A p : RowsIn(file', p) = RowsIn(file, p)
  <2>1. file' = file \/ file' = [file EXCEPT !.header = Begun(@)]
    BY DEF Close
  <2>2. WellFormed(file)
    BY DEF SweepInv
  <2> QED
    BY <2>1, <2>2, SameRows
<1>3. /\ Points' = Points /\ (WellFormed(file)' <=> WellFormed(file'))
      /\ Missing(file)' = Missing(file') /\ \A p : Copies(p)' = Copies(p)
  BY SameGrid
<1>4. Work'
  <2>1. todo' \in Seq(Points') /\ refs' \subseteq Keys(Points)'
    BY <1>1
  <2>2. args' \in Axes /\ machine' \in Machines /\ tears' \in 0 .. MaxTears /\ swallowed' \in Nat
    BY <1>1 DEF SweepInv, Work
  <2> QED
    BY <1>1, <2>1, <2>2 DEF Work
<1>5. Counted'
  <2> SUFFICES ASSUME NEW p \in Points'
               PROVE  Cardinality(RowsIn(file, p)') + Cardinality(Times(todo, p)') + Pending(p)'
                        <= Cardinality(Copies(p)')
    BY DEF Counted
  <2>1. Times(todo, p)' = {}
    BY <1>1 DEF Times
  <2>2. Cardinality(Times(todo, p)') = 0
    BY <2>1, FS_EmptySet
  <2>3. Pending(p)' = 0
    BY <1>1 DEF Pending
  <2>4. RowsIn(file, p)' = RowsIn(file, p)
    BY <1>2 DEF RowsIn
  <2>5. Cardinality(RowsIn(file, p)) + Cardinality(Times(todo, p)) + Pending(p) <= Cardinality(Copies(p))
    BY <1>3 DEF SweepInv, Counted
  <2>6. /\ Cardinality(RowsIn(file, p)) \in Nat /\ Cardinality(Times(todo, p)) \in Nat
        /\ Cardinality(Copies(p)) \in Nat
    BY Known
  <2>7. Pending(p) \in 0 .. 1
    BY DEF Pending
  <2>8. Cardinality(RowsIn(file, p)) + 0 + 0 <= Cardinality(Copies(p))
    BY <2>5, <2>6, <2>7
  <2>9. Copies(p)' = Copies(p)
    BY <1>3
  <2> QED
    BY <2>2, <2>3, <2>4, <2>8, <2>9
<1>6. Bounded'
  <2>1. Passed' = IF code = "ok" THEN Points ELSE {}
    BY <1>1, <1>3 DEF Passed
  <2>2. \A p : RowsIn(file, p)' = RowsIn(file, p)
    BY <1>2 DEF RowsIn
  <2>3. Gone' = Missing(file) \cup {p \in Passed' : RowsIn(file, p) = {}}
    BY <1>2, <1>3, <2>2, Zenon DEF Gone
  <2>4. Missing(file) \subseteq Gone
    BY DEF Gone
  <2>5. Gone' \subseteq Gone
    BY <2>1, <2>3, <2>4
  <2>6. Open(file') <= Open(file)
    BY <1>2 DEF Open
  <2>7. tears' \in Nat /\ swallowed' \in Nat
    BY Known
  <2> QED
    BY <1>2, <2>5, <2>6, <2>7, StaysBounded
<1> QED
  BY <1>2, <1>3, <1>4, <1>5, <1>6

(* A command of the sweep, or none, is as it should be. *)
LEMMA StaysCommanded ==
  ASSUME SweepInv, UNCHANGED fixed,
         \/ ran' = Nothing
         \/ ran' = ran
         \/ /\ ran'.by = "user" /\ ran'.argv \in Commands /\ ran'.exit \in Run(ran'.argv)
         \/ /\ ran'.by = "sweep" /\ ran'.exit \in Run(ran'.argv)
            /\ \E p \in Points, known \in SUBSET Keys(Points), ptx \in {"usable", "missing"} :
                 ran'.argv = Command(p, known, ptx)
  PROVE  Commanded'
<1>1. Points' = Points /\ machine' = machine
  BY SameGrid DEF fixed
<1>2. Run(ran.argv)' = Run(ran'.argv)
  BY <1>1 DEF Run
<1>3. Commanded' <=>
        \/ ran' = Nothing
        \/ /\ ran'.by \in {"user", "sweep"} /\ ran'.exit \in Run(ran'.argv)
           /\ ran'.by = "user" => ran'.argv \in Commands
           /\ ran'.by = "sweep" =>
                \E p \in Points, known \in SUBSET Keys(Points), ptx \in {"usable", "missing"} :
                  ran'.argv = Command(p, known, ptx)
  BY <1>1, <1>2, Zenon DEF Commanded
<1>4. CASE ran' = ran
  <2>1. Commanded
    BY DEF SweepInv
  <2> QED
    BY <1>3, <1>4, <2>1 DEF Commanded
<1> QED
  BY <1>3, <1>4

(* What is gone after a step depends on the file it leaves. *)
LEMMA GoneAfter ==
  ASSUME UNCHANGED fixed
  PROVE  /\ Gone' = Missing(file') \cup {p \in Passed' : RowsIn(file', p) = {}}
         /\ \A p : RowsIn(file, p)' = RowsIn(file', p)
<1>1. \A p : RowsIn(file, p)' = RowsIn(file', p)
  BY DEF RowsIn
<1>2. Missing(file)' = Missing(file')
  BY SameGrid
<1> QED
  BY <1>1, <1>2, Zenon DEF Gone

(* A sweep that begins with some points to measure. *)
LEMMA Begins ==
  ASSUME SweepInv, UNCHANGED fixed, starts' \in 0 .. MaxStarts, tears' \in 0 .. MaxTears,
         swallowed' \in Nat, NEW points \in Seq(Points), NEW f, Begin(points, f)
  PROVE  /\ Work' /\ file' = f
         /\ \A p : Pending(p)' = 0 /\ Times(todo, p)' = Times(points, p)
         /\ Passed' = {p \in Points : p \notin Range(points)}
<1>1. /\ at' = "points" /\ todo' = points /\ file' = f /\ failed' = FALSE /\ exit' = "none"
      /\ args' = args /\ machine' = machine /\ refs' \subseteq Keys(Range(points))
  BY DEF Begin, fixed
<1>2. Points' = Points
  BY SameGrid
<1>3. Keys(Range(points)) \subseteq Keys(Points)
  <2>1. Range(points) \subseteq Points
    BY RangeFinite
  <2> QED
    BY <2>1 DEF Keys
<1>4. refs' \subseteq Keys(Points)'
  <2>1. Keys(Points)' = Keys(Points)
    BY <1>2 DEF Keys
  <2> QED
    BY <1>1, <1>3, <2>1
<1>5. args' \in Axes /\ machine' \in Machines
  BY <1>1 DEF SweepInv, Work
<1>6. Work'
  BY <1>1, <1>2, <1>4, <1>5 DEF Work
<1>7. \A p : Pending(p)' = 0 /\ Times(todo, p)' = Times(points, p)
  BY <1>1 DEF Pending, Times
<1>8. Passed' = {p \in Points : p \notin Range(points)}
  BY <1>1, <1>2 DEF Passed
<1> QED
  BY <1>1, <1>6, <1>7, <1>8

(* A sweep that starts: on an unusable file, with nothing left to do, on what is
   left of an earlier one, or anew. *)
LEMMA StartStep ==
  ASSUME SweepInv, NEW resume \in BOOLEAN, Start(resume)
  PROVE  SweepInv'
<1>1. UNCHANGED fixed /\ ran' = Nothing /\ starts' = starts + 1 /\ starts < MaxStarts
  BY DEF Start
<1>2. starts' \in 0 .. MaxStarts
  BY <1>1, SweepsAssumption DEF SweepInv, Work
<1>3. Commanded'
  BY <1>1, StaysCommanded
<1>4. /\ Points' = Points /\ (WellFormed(file)' <=> WellFormed(file'))
      /\ \A p : Copies(p)' = Copies(p) /\ Copies(p) = Times(TheGrid, p)
  BY <1>1, SameGrid
<1>5. /\ TheGrid \in Seq(Points) /\ Range(TheGrid) = Points
      /\ \A p \in Points : p # <<>>
      /\ \A p : Cardinality(RowsIn(file, p)) \in Nat /\ Cardinality(Times(todo, p)) \in Nat
      /\ \A p : Cardinality(Copies(p)) \in Nat
      /\ tears \in Nat /\ swallowed \in Nat
  BY Known
<1>6. ASSUME NEW code \in {"ok", "usage", "failed"}, Stop(code),
             UNCHANGED <<file, tears, swallowed>>,
             code = "ok" => \A p \in Points : RowsIn(file, p) = {} => p \in Gone
      PROVE  SweepInv'
  <2>1. WellFormed(file)' /\ Work' /\ Counted' /\ Bounded'
    BY <1>1, <1>2, <1>6, Stops
  <2> QED
    BY <1>3, <2>1 DEF SweepInv
<1>7. CASE Points = {} \/ (resume /\ file.header = "torn")
  <2>1. Stop("usage") /\ UNCHANGED <<file, tears, swallowed>>
    BY <1>7 DEF Start
  <2> QED
    BY <1>6, <2>1
<1>8. CASE /\ ~(Points = {} \/ (resume /\ file.header = "torn"))
           /\ resume /\ file.header # "none"
  <2> DEFINE done == Completed(file)
             undone == {i \in DOMAIN TheGrid : PointId(TheGrid[i]) \notin done}
             order == Ascending(undone)
             left == [k \in DOMAIN order |-> TheGrid[order[k]]]
  <2>1. /\ \/ swallowed > 0 /\ Stop("failed") /\ UNCHANGED file
           \/ left = <<>> /\ Stop("ok") /\ UNCHANGED file
           \/ left # <<>> /\ Begin(left, file)
        /\ UNCHANGED <<tears, swallowed>>
    BY <1>8, Zenon DEF Start
  <2>2. undone = {i \in DOMAIN TheGrid : TheGrid[i] \notin done}
    BY DEF PointId
  <2> HIDE DEF done, undone
  <2>3. order = Ascending(undone)
    OBVIOUS
  <2> HIDE DEF order
  <2>4. left = [k \in DOMAIN order |-> TheGrid[order[k]]]
    OBVIOUS
  <2> HIDE DEF left
  <2>5. /\ left \in Seq(Points)
        /\ \A p \in Points : p \in Range(left) \/ p \in done
        /\ \A p : p \in done => Times(left, p) = {}
        /\ \A p : Cardinality(Times(left, p)) <= Cardinality(Times(TheGrid, p))
    <3> DEFINE g == TheGrid
    <3>1. g \in Seq(Points) /\ Range(g) = Points
      BY <1>5
    <3>2. left = Left(g, done)
      BY <2>2, <2>3, <2>4, Zenon DEF Left
    <3> HIDE DEF g
    <3>3. /\ Left(g, done) \in Seq(Points)
          /\ \A p \in Range(g) : p \in Range(Left(g, done)) \/ p \in done
          /\ \A p : p \in done => Times(Left(g, done), p) = {}
          /\ \A p : Cardinality(Times(Left(g, done), p)) <= Cardinality(Times(g, p))
      BY <3>1, TimesLeft
    <3> QED
      BY <3>1, <3>2, <3>3 DEF g
  <2>6. ASSUME NEW p \in Points, RowsIn(file, p) = {}, p \in done PROVE p \in Gone
    BY <2>6 DEF Gone, Missing, done
  <2>7. CASE left = <<>> /\ Stop("ok") /\ UNCHANGED file
    <3>1. Range(left) = {}
      BY <2>7 DEF Range
    <3>2. \A p \in Points : RowsIn(file, p) = {} => p \in Gone
      BY <2>5, <2>6, <3>1
    <3> QED
      BY <1>6, <2>1, <2>7, <3>2
  <2>8. CASE left # <<>> /\ Begin(left, file)
    <3>1. Begin(left, file) /\ tears' = tears /\ swallowed' = swallowed
      BY <2>1, <2>8
    <3>2. tears' \in 0 .. MaxTears /\ swallowed' \in Nat
      BY <3>1 DEF SweepInv, Work
    <3>3. /\ Work' /\ file' = file
          /\ \A p : Pending(p)' = 0 /\ Times(todo, p)' = Times(left, p)
          /\ Passed' = {p \in Points : p \notin Range(left)}
      BY <1>1, <1>2, <2>5, <3>1, <3>2, Begins
    <3>4. WellFormed(file)'
      BY <1>4, <3>3 DEF SweepInv
    <3>5. Counted'
      <4> SUFFICES ASSUME NEW p \in Points'
                   PROVE  Cardinality(RowsIn(file, p)') + Cardinality(Times(todo, p)') + Pending(p)'
                            <= Cardinality(Copies(p)')
        BY DEF Counted
      <4>1. RowsIn(file, p)' = RowsIn(file, p)
        BY <3>3 DEF RowsIn
      <4>2. Cardinality(RowsIn(file, p)) + Cardinality(Times(todo, p)) + Pending(p) <= Cardinality(Copies(p))
        BY <1>4 DEF SweepInv, Counted
      <4>3. Pending(p) \in 0 .. 1
        BY DEF Pending
      <4>4. CASE p \in done
        <5>1. Cardinality(Times(left, p)) = 0
          BY <2>5, <4>4, FS_EmptySet
        <5>2. Cardinality(RowsIn(file, p)) + 0 + 0 <= Cardinality(Copies(p))
          BY <1>5, <4>2, <4>3
        <5> QED
          BY <1>4, <3>3, <4>1, <5>1, <5>2
      <4>5. CASE p \notin done
        <5>1. RowsIn(file, p) = {}
          <6>1. ASSUME NEW i \in RowsIn(file, p) PROVE FALSE
            <7>1. i \in DOMAIN file.rows /\ file.rows[i].id = p /\ file.rows[i].rate = "whole"
              BY DEF RowsIn
            <7>2. p \in Completed(file)
              BY <1>4, <1>5, <7>1 DEF Completed
            <7> QED
              BY <4>5, <7>2 DEF done
          <6> QED
            BY <6>1
        <5>2. Cardinality(RowsIn(file, p)) = 0
          BY <5>1, FS_EmptySet
        <5>3. Cardinality(Times(left, p)) \in Nat
          <6>1. Times(left, p) \in SUBSET (DOMAIN left)
            BY DEF Times
          <6> QED
            BY <2>5, <6>1, TimesFinite
        <5>4. Cardinality(Times(left, p)) <= Cardinality(Copies(p))
          BY <1>4, <2>5
        <5>5. 0 + Cardinality(Times(left, p)) + 0 <= Cardinality(Copies(p))
          BY <5>3, <5>4
        <5> QED
          BY <1>4, <3>3, <4>1, <5>2, <5>5
      <4> QED
        BY <4>4, <4>5
    <3>6. Bounded'
      <4>1. Gone' = Missing(file) \cup {p \in Points : p \notin Range(left) /\ RowsIn(file, p) = {}}
        BY <1>1, <3>3, GoneAfter
      <4>2. Gone' \subseteq Gone
        BY <2>5, <2>6, <4>1 DEF Gone
      <4>3. Open(file') <= Open(file) /\ Missing(file') \subseteq Missing(file)
        BY <3>3 DEF Open
      <4> QED
        BY <1>1, <1>5, <3>1, <4>2, <4>3, StaysBounded
    <3> QED
      BY <1>3, <3>3, <3>4, <3>5, <3>6 DEF SweepInv
  <2>9. CASE Stop("failed") /\ UNCHANGED file
    BY <1>6, <2>1, <2>9
  <2> QED
    BY <2>1, <2>7, <2>8, <2>9
<1>9. CASE /\ ~(Points = {} \/ (resume /\ file.header = "torn"))
           /\ ~(resume /\ file.header # "none")
  <2>1. Begin(TheGrid, NoFile) /\ tears' = 0 /\ swallowed' = 0
    BY <1>9, Zenon DEF Start
  <2>2. tears' \in 0 .. MaxTears /\ swallowed' \in Nat
    BY <2>1, SweepsAssumption
  <2>3. /\ Work' /\ file' = NoFile
        /\ \A p : Pending(p)' = 0 /\ Times(todo, p)' = Times(TheGrid, p)
        /\ Passed' = {p \in Points : p \notin Range(TheGrid)}
    BY <1>1, <1>2, <1>5, <2>1, <2>2, Begins
  <2>4. NoFile.header = "none" /\ NoFile.rows = <<>> /\ DOMAIN <<>> = {} /\ <<>> \in Seq(Rows)
    BY DEF NoFile
  <2>5. WellFormed(NoFile)
    BY <2>4 DEF WellFormed, NoFile
  <2>6. \A p : RowsIn(NoFile, p) = {}
    BY <2>4 DEF RowsIn
  <2>7. Missing(NoFile) = {} /\ Open(NoFile) = 0
    <3>1. Completed(NoFile) = {} /\ \A p : ~Frail(NoFile, p)
      BY <2>4 DEF Completed, Frail
    <3> QED
      BY <2>4, <3>1 DEF Missing, Open, Ended
  <2>8. Counted'
    <3> SUFFICES ASSUME NEW p \in Points'
                 PROVE  Cardinality(RowsIn(file, p)') + Cardinality(Times(todo, p)') + Pending(p)'
                          <= Cardinality(Copies(p)')
      BY DEF Counted
    <3>1. RowsIn(file, p)' = {}
      BY <2>3, <2>6 DEF RowsIn
    <3>2. Cardinality(RowsIn(file, p)') = 0
      BY <3>1, FS_EmptySet
    <3>3. 0 + Cardinality(Copies(p)) + 0 <= Cardinality(Copies(p))
      BY <1>5
    <3> QED
      BY <1>4, <2>3, <3>2, <3>3
  <2>9. Bounded'
    <3>1. Passed' = {}
      BY <1>5, <2>3
    <3>2. Gone' = {}
      BY <1>1, <2>3, <2>7, <3>1, GoneAfter
    <3> QED
      BY <1>1, <2>1, <2>3, <2>7, <3>2, StaysBounded
  <2> QED
    BY <1>3, <1>4, <2>3, <2>5, <2>8, <2>9 DEF SweepInv
<1> QED
  BY <1>7, <1>8, <1>9

(* A point is measured, fails, or ends the sweep. *)
LEMMA RunPointStep ==
  ASSUME SweepInv, at = "points", todo # <<>>, NEW ptx \in {"usable", "missing"},
         NEW code \in Run(Command(Head(todo), refs, ptx)),
         RunPoint(Command(Head(todo), refs, ptx), code)
  PROVE  SweepInv'
<1> DEFINE p == Head(todo)
           argv == Command(p, refs, ptx)
<1>1. /\ UNCHANGED fixed /\ starts' = starts /\ tears' = tears /\ swallowed' = swallowed
      /\ ran' = [by |-> "sweep", argv |-> argv, exit |-> code]
  BY DEF RunPoint
<1>2. todo \in Seq(Points) /\ starts \in 0 .. MaxStarts /\ tears \in 0 .. MaxTears
      /\ swallowed \in Nat /\ exit = "none" /\ failed \in BOOLEAN /\ refs \subseteq Keys(Points)
      /\ args \in Axes /\ machine \in Machines
  BY DEF SweepInv, Work
<1>3. /\ p \in Points /\ Tail(todo) \in Seq(Points)
      /\ \A q \in Range(todo) : q = p \/ q \in Range(Tail(todo))
  <2>1. /\ Tail(todo) \in Seq(Points) /\ Len(Tail(todo)) = Len(todo) - 1
        /\ Len(todo) \in Nat \ {0} /\ DOMAIN todo = 1 .. Len(todo)
        /\ DOMAIN Tail(todo) = 1 .. Len(Tail(todo))
        /\ \A i \in 1 .. Len(Tail(todo)) : Tail(todo)[i] = todo[i + 1]
        /\ Head(todo) = todo[1] /\ Head(todo) \in Points
    BY <1>2, HeadTailProperties, LenProperties, EmptySeq
  <2>2. ASSUME NEW q \in Range(todo) PROVE q = p \/ q \in Range(Tail(todo))
    <3>1. PICK i \in DOMAIN todo : q = todo[i]
      BY DEF Range
    <3>2. CASE i = 1
      BY <2>1, <3>1, <3>2
    <3>3. CASE i # 1
      <4>1. i - 1 \in 1 .. Len(Tail(todo)) /\ i - 1 + 1 = i
        BY <2>1, <3>1, <3>3
      <4>2. i - 1 \in DOMAIN Tail(todo) /\ Tail(todo)[i - 1] = q
        BY <2>1, <3>1, <4>1
      <4> QED
        BY <4>2 DEF Range
    <3> QED
      BY <3>2, <3>3
  <2> QED
    BY <2>1, <2>2
<1>4. Commanded'
  <2>1. /\ ran'.by = "sweep" /\ ran'.argv = argv /\ ran'.exit = code
    BY <1>1
  <2>2. refs \in SUBSET Keys(Points)
    BY <1>2
  <2> QED
    BY <1>1, <1>3, <2>1, <2>2, StaysCommanded
<1>5. /\ Points' = Points /\ Rows' = Rows /\ (WellFormed(file)' <=> WellFormed(file'))
      /\ \A q : Copies(q)' = Copies(q)
  BY <1>1, SameGrid
<1> DEFINE measured == /\ \E readable \in BOOLEAN : /\ row' = RowOf(p, readable)
                                                   /\ failed' = (failed \/ ~readable)
                       /\ at' = "write" /\ todo' = Tail(todo)
                       /\ UNCHANGED <<refs, exit, file>>
           skipped == /\ failed' = TRUE /\ todo' = Tail(todo)
                      /\ UNCHANGED <<at, refs, row, exit, file>>
           stopped == Stop("failed") /\ Close
<1>6. measured \/ skipped \/ stopped
  BY DEF RunPoint
<1> HIDE DEF p, argv
\* Either way the point is no longer to be measured.
<1>7. ASSUME todo' = Tail(todo), file' = file, exit' = exit, refs' = refs, Work',
             \A q \in Points : Pending(q)' <= (IF p = q THEN 1 ELSE 0) /\ Pending(q)' \in 0 .. 1,
             Passed' \subseteq Passed
      PROVE  WellFormed(file)' /\ Counted' /\ Bounded'
  <2>1. WellFormed(file)'
    BY <1>5, <1>7 DEF SweepInv
  <2>2. Counted'
    <3> SUFFICES ASSUME NEW q \in Points'
                 PROVE  Cardinality(RowsIn(file, q)') + Cardinality(Times(todo, q)') + Pending(q)'
                          <= Cardinality(Copies(q)')
      BY DEF Counted
    <3> DEFINE r == Cardinality(RowsIn(file, q))
               t == Cardinality(Times(todo, q))
               u == Cardinality(Times(Tail(todo), q))
               c == Cardinality(Copies(q))
               n == Pending(q)'
    <3>1. RowsIn(file, q)' = RowsIn(file, q) /\ Times(todo, q)' = Times(Tail(todo), q)
      BY <1>7 DEF RowsIn, Times
    <3>2. r + t + Pending(q) <= c /\ Pending(q) = 0
      BY <1>5 DEF SweepInv, Counted, Pending
    <3>3. r \in Nat /\ t \in Nat /\ c \in Nat
      BY Known
    <3>4. u \in Nat
      <4>1. Times(Tail(todo), q) \in SUBSET (DOMAIN Tail(todo))
        BY DEF Times
      <4> QED
        BY <1>3, <4>1, TimesFinite
    <3>5. u + (IF p = q THEN 1 ELSE 0) <= t
      BY <1>2, TimesInTail DEF p
    <3>6. n <= (IF p = q THEN 1 ELSE 0) /\ n \in 0 .. 1
      BY <1>5, <1>7
    <3> HIDE DEF r, t, u, c, n
    <3>7. r + u + n <= c
      BY <3>2, <3>3, <3>4, <3>5, <3>6
    <3> QED
      BY <1>5, <3>1, <3>7 DEF r, u, n, c
  <2>3. Bounded'
    <3>1. Gone' = Missing(file) \cup {q \in Passed' : RowsIn(file, q) = {}}
      BY <1>1, <1>7, GoneAfter
    <3>2. Gone' \subseteq Gone
      BY <1>7, <3>1 DEF Gone
    <3>3. /\ Open(file') <= Open(file) /\ Missing(file') \subseteq Missing(file)
          /\ tears' \in Nat /\ swallowed' \in Nat
      BY <1>1, <1>7, Known DEF Open
    <3> QED
      BY <1>1, <3>2, <3>3, StaysBounded
  <2> QED
    BY <2>1, <2>2, <2>3
<1>8. CASE measured
  <2>1. PICK readable \in BOOLEAN : row' = RowOf(p, readable) /\ failed' = (failed \/ ~readable)
    BY <1>8
  <2>2. at' = "write" /\ todo' = Tail(todo) /\ refs' = refs /\ exit' = exit /\ file' = file
    BY <1>8
  <2>3. row' = [id |-> p, rate |-> IF readable THEN "whole" ELSE "none", cut |-> "no",
                quoted |-> FALSE]
    BY <2>1 DEF RowOf, PointId, NoRow
  <2>4. failed' \in BOOLEAN /\ (~readable => failed') /\ (failed => failed')
    BY <1>2, <2>1
  <2>5. Work'
    <3>1. /\ row' \in Rows' /\ row'.id \in Points' /\ row'.cut = "no"
          /\ row'.rate \in {"whole", "none"} /\ (row'.rate = "none" => failed')
      <4>1. row' \in Rows
        BY <1>3, <2>3 DEF Rows, Rates
      <4> QED
        BY <1>3, <1>5, <2>3, <2>4, <4>1
    <3>2. todo' \in Seq(Points') /\ refs' \subseteq Keys(Points)' /\ args' \in Axes /\ machine' \in Machines
      <4>1. Keys(Points)' = Keys(Points)
        BY <1>5 DEF Keys
      <4> QED
        BY <1>1, <1>2, <1>3, <1>5, <2>2, <4>1 DEF fixed
    <3> QED
      BY <1>1, <1>2, <2>2, <2>4, <3>1, <3>2 DEF Work
  <2>6. \A q \in Points : Pending(q)' <= (IF p = q THEN 1 ELSE 0) /\ Pending(q)' \in 0 .. 1
    BY <2>3 DEF Pending
  <2>7. Passed' \subseteq Passed
    <3>1. Passed' = IF ~failed' THEN {q \in Points : q \notin Range(Tail(todo)) /\ q # p} ELSE {}
      BY <1>2, <1>5, <2>2, <2>3 DEF Passed
    <3>2. Passed = IF ~failed THEN {q \in Points : q \notin Range(todo)} ELSE {}
      BY <1>2 DEF Passed
    <3> QED
      BY <1>3, <2>4, <3>1, <3>2
  <2> QED
    BY <1>4, <1>7, <2>2, <2>5, <2>6, <2>7 DEF SweepInv
<1>9. CASE skipped
  <2>1. /\ failed' = TRUE /\ todo' = Tail(todo) /\ at' = "points" /\ refs' = refs /\ exit' = exit
        /\ file' = file
    BY <1>9
  <2>2. Work'
    <3>1. todo' \in Seq(Points') /\ refs' \subseteq Keys(Points)' /\ args' \in Axes /\ machine' \in Machines
      <4>1. Keys(Points)' = Keys(Points)
        BY <1>5 DEF Keys
      <4> QED
        BY <1>1, <1>2, <1>3, <1>5, <2>1, <4>1 DEF fixed
    <3> QED
      BY <1>1, <1>2, <2>1, <3>1 DEF Work
  <2>3. \A q \in Points : Pending(q)' <= (IF p = q THEN 1 ELSE 0) /\ Pending(q)' \in 0 .. 1
    BY <2>1 DEF Pending
  <2>4. Passed' \subseteq Passed
    BY <1>2, <2>1 DEF Passed
  <2> QED
    BY <1>4, <1>7, <2>1, <2>2, <2>3, <2>4 DEF SweepInv
<1>10. CASE stopped
  <2>1. WellFormed(file)' /\ Work' /\ Counted' /\ Bounded'
    BY <1>1, <1>2, <1>10, Stops
  <2> QED
    BY <1>4, <2>1 DEF SweepInv
<1> QED
  BY <1>6, <1>8, <1>9, <1>10

(* A row is written: on a line of its own, or behind one that was cut off. *)
LEMMA WriteStep ==
  ASSUME SweepInv, Write
  PROVE  SweepInv'
<1>0. PICK quotes \in Quotes(row) : file' \in Appended(file, row, quotes)
  BY DEF Write
<1>1. /\ at = "write" /\ at' = "points" /\ ran' = Nothing
      /\ swallowed' = IF Ended(file') THEN swallowed ELSE swallowed + 1
      /\ starts' = starts /\ todo' = todo /\ refs' = refs /\ failed' = failed /\ exit' = exit
      /\ tears' = tears /\ UNCHANGED fixed
  BY DEF Write
<1>2. /\ todo \in Seq(Points) /\ starts \in 0 .. MaxStarts /\ tears \in 0 .. MaxTears
      /\ swallowed \in Nat /\ exit = "none" /\ failed \in BOOLEAN /\ refs \subseteq Keys(Points)
      /\ args \in Axes /\ machine \in Machines
      /\ row \in Rows /\ row.id \in Points /\ row.cut = "no"
      /\ row.rate \in {"whole", "none"} /\ (row.rate = "none" => failed)
  BY <1>1 DEF SweepInv, Work
<1>3. WellCut(row)
  BY <1>2 DEF WellCut
<1>4. Extends(file, file', row)
  <2>1. (\A p \in Points : p # <<>>) /\ WellFormed(file)
    BY Known DEF SweepInv
  <2>2. quotes \in BOOLEAN
    BY <1>0 DEF Quotes
  <2> QED
    BY <1>0, <1>2, <1>3, <2>1, <2>2, AppendedExtends
<1>5. /\ Points' = Points /\ Rows' = Rows /\ (WellFormed(file)' <=> WellFormed(file'))
      /\ \A q : Copies(q)' = Copies(q)
  BY <1>1, SameGrid
<1>6. Commanded'
  BY <1>1, StaysCommanded
<1>7. Work'
  <2>1. Keys(Points)' = Keys(Points)
    BY <1>5 DEF Keys
  <2>2. args' \in Axes /\ machine' \in Machines /\ swallowed' \in Nat
    BY <1>1, <1>2 DEF fixed
  <2> QED
    BY <1>1, <1>2, <1>5, <2>1, <2>2 DEF Work
<1>8. Counted'
  <2> SUFFICES ASSUME NEW q \in Points'
               PROVE  Cardinality(RowsIn(file, q)') + Cardinality(Times(todo, q)') + Pending(q)'
                        <= Cardinality(Copies(q)')
    BY DEF Counted
  <2> DEFINE R == RowsIn(file, q)
             S == RowsIn(file', q)
             r == Cardinality(R)
             s == Cardinality(S)
             t == Cardinality(Times(todo, q))
             c == Cardinality(Copies(q))
             x == Len(file'.rows)
  <2>1. RowsIn(file, q)' = S /\ Times(todo, q)' = Times(todo, q) /\ Pending(q)' = 0
    BY <1>1 DEF RowsIn, Times, Pending
  <2>2. r + t + Pending(q) <= c
    BY <1>5 DEF SweepInv, Counted
  <2>3. r \in Nat /\ t \in Nat /\ c \in Nat /\ IsFiniteSet(R)
    BY Known
  <2>4. /\ S \subseteq R \cup {x}
        /\ (q # row.id \/ row.rate # "whole") => S \subseteq R
    BY <1>4, <1>5 DEF Extends
  <2>5. Pending(q) = IF q = row.id /\ row.rate = "whole" THEN 1 ELSE 0
    BY <1>1 DEF Pending
  <2> HIDE DEF R, S, x
  <2>6. s \in Nat /\ s <= r + 1 /\ (S \subseteq R => s <= r)
    BY <2>3, <2>4, OneMore
  <2> HIDE DEF r, s, t, c
  <2>7. s + t + 0 <= c
    BY <2>2, <2>3, <2>4, <2>5, <2>6
  <2> QED
    BY <1>5, <2>1, <2>7 DEF s, t, c, S
<1>9. Bounded'
  <2>1. Gone' = Missing(file') \cup {p \in Passed' : RowsIn(file', p) = {}}
    BY <1>1, GoneAfter
  <2>2. Missing(file') \subseteq Missing(file)
    <3>1. \A p \in Missing(file') : p \in Points
      BY DEF Missing
    <3> QED
      BY <1>2, <1>4, <3>1 DEF Extends
  <2>3. \A p \in Points : RowsIn(file', p) = {} => RowsIn(file, p) = {}
    BY <1>4 DEF Extends
  <2>4. Passed' = IF ~failed THEN {p \in Points : p \notin Range(todo)} ELSE {}
    BY <1>1, <1>2, <1>5 DEF Passed
  <2>5. Passed = IF ~failed THEN {p \in Points : p \notin Range(todo) /\ row.id # p} ELSE {}
    BY <1>1, <1>2 DEF Passed
  <2>6. Gone' \subseteq Gone \cup {row.id}
    BY <2>1, <2>2, <2>3, <2>4, <2>5 DEF Gone
  <2>7. tears' \in Nat /\ swallowed' \in Nat
    BY <1>1, <1>2, Known
  <2>8. CASE Ended(file)
    <3>1. row.rate = "whole" => RowsIn(file', row.id) # {}
      BY <1>2, <1>4, <2>8 DEF Extends
    <3>2. row.id \in Gone' => row.id \in Gone
      BY <1>2, <2>1, <2>2, <2>4, <3>1 DEF Gone
    <3>3. Gone' \subseteq Gone
      BY <2>6, <3>2
    <3>4. Ended(file')
      BY <1>2, <1>4, <2>8 DEF Extends
    <3>5. Open(file') <= Open(file) /\ swallowed' = swallowed
      BY <1>1, <3>4 DEF Open
    <3> QED
      BY <1>1, <2>2, <2>7, <3>3, <3>5, StaysBounded
  <2>9. CASE ~Ended(file) /\ Ended(file')
    <3>1. Open(file) = 1 /\ Open(file') = 0 /\ swallowed' = swallowed
      BY <1>1, <2>9 DEF Open
    <3> QED
      BY <1>1, <2>2, <2>6, <2>7, <3>1, StaysBounded
  <2>10. CASE ~Ended(file) /\ ~Ended(file')
    <3>1. Open(file) = 1 /\ swallowed' = swallowed + 1
      BY <1>1, <2>10 DEF Open
    <3> QED
      BY <1>1, <2>2, <2>6, <2>7, <3>1, StaysBounded
  <2> QED
    BY <2>8, <2>9, <2>10
<1>10. WellFormed(file)'
  BY <1>4, <1>5 DEF Extends
<1> QED
  BY <1>6, <1>7, <1>8, <1>9, <1>10 DEF SweepInv

(* The last point is done. *)
LEMMA FinishStep ==
  ASSUME SweepInv, Finish
  PROVE  SweepInv'
<1> DEFINE code == IF failed THEN "failed" ELSE "ok"
<1>1. /\ at = "points" /\ todo = <<>> /\ Stop(code) /\ Close /\ ran' = Nothing
      /\ starts' = starts /\ tears' = tears /\ swallowed' = swallowed /\ UNCHANGED fixed
  BY DEF Finish
<1>2. starts \in 0 .. MaxStarts /\ failed \in BOOLEAN
  BY DEF SweepInv, Work
<1>3. code = "ok" => \A p \in Points : RowsIn(file, p) = {} => p \in Gone
  <2> SUFFICES ASSUME ~failed, NEW p \in Points, RowsIn(file, p) = {} PROVE p \in Gone
    OBVIOUS
  <2>1. Range(todo) = {}
    BY <1>1 DEF Range
  <2>2. p \in Passed
    BY <1>1, <2>1 DEF Passed
  <2> QED
    BY <2>2 DEF Gone
<1>4. code \in {"none", "ok", "usage", "failed"} /\ starts' \in 0 .. MaxStarts
  BY <1>1, <1>2
<1> HIDE DEF code
<1>5. WellFormed(file)' /\ Work' /\ Counted' /\ Bounded'
  BY <1>1, <1>3, <1>4, Stops
<1>6. Commanded'
  BY <1>1, StaysCommanded
<1> QED
  BY <1>5, <1>6 DEF SweepInv

(* The machine goes away. *)
LEMMA DieStep ==
  ASSUME SweepInv, Die
  PROVE  SweepInv'
<1>1. /\ Stop("none") /\ ran' = Nothing /\ starts' = starts /\ tears' = tears /\ file' = file
      /\ swallowed' = swallowed /\ UNCHANGED fixed
  BY DEF Die
<1>2. starts' \in 0 .. MaxStarts
  BY <1>1 DEF SweepInv, Work
<1>3. WellFormed(file)' /\ Work' /\ Counted' /\ Bounded'
  BY <1>1, <1>2, Stops
<1>4. Commanded'
  BY <1>1, StaysCommanded
<1> QED
  BY <1>3, <1>4 DEF SweepInv

(* It does so in the middle of a row. *)
LEMMA DieWritingStep ==
  ASSUME SweepInv, NEW cut \in Cuts, DieWriting(cut)
  PROVE  SweepInv'
<1>1. /\ at = "write" /\ tears < MaxTears /\ tears' = tears + 1 /\ swallowed' = swallowed
      /\ \/ \E quotes, quoted \in BOOLEAN : file' \in Appended(file, Torn(row, cut, quoted), quotes)
         \/ file.header = "none" /\ \E header \in {"torn", "open"} : file' = [file EXCEPT !.header = header]
      /\ at' = "idle" /\ exit' = "none" /\ todo' = <<>> /\ refs' = {} /\ failed' = FALSE
      /\ ran' = Nothing /\ starts' = starts /\ UNCHANGED fixed
  BY DEF DieWriting, Stop, Quotes
<1>2. /\ starts \in 0 .. MaxStarts /\ tears \in 0 .. MaxTears
      /\ args \in Axes /\ machine \in Machines
      /\ row \in Rows /\ row.id \in Points /\ row.cut = "no"
      /\ row.rate \in {"whole", "none"} /\ swallowed \in Nat
  BY <1>1 DEF SweepInv, Work
<1>3. /\ Points' = Points /\ (WellFormed(file)' <=> WellFormed(file'))
      /\ \A q : Copies(q)' = Copies(q)
  BY <1>1, SameGrid
<1>4. /\ WellFormed(file')
      /\ Missing(file') \subseteq Missing(file) \cup {row.id}
      /\ \A q \in Points : /\ RowsIn(file', q) \subseteq RowsIn(file, q) \cup {Len(file'.rows)}
                           /\ (q # row.id \/ row.rate # "whole") =>
                                RowsIn(file', q) \subseteq RowsIn(file, q)
  <2>0. (\A p \in Points : p # <<>>) /\ WellFormed(file)
    BY Known DEF SweepInv
  <2>1. CASE \E quotes, quoted \in BOOLEAN : file' \in Appended(file, Torn(row, cut, quoted), quotes)
    <3>0. PICK quotes, quoted \in BOOLEAN : file' \in Appended(file, Torn(row, cut, quoted), quotes)
      BY <2>1
    <3> DEFINE t == Torn(row, cut, quoted)
    <3>1. /\ t \in Rows /\ WellCut(t) /\ t.id \in {<<>>, row.id}
          /\ t.rate = "whole" => row.rate = "whole"
      BY <1>2, TornIs
    <3>2. file' \in Appended(file, t, quotes)
      BY <3>0
    <3> HIDE DEF t
    <3>3. Extends(file, file', t)
      BY <2>0, <3>1, <3>2, AppendedExtends
    <3>4. \A q \in Points : /\ q # row.id => q # t.id
                            /\ row.rate # "whole" => t.rate # "whole"
      BY <2>0, <3>1
    <3>5. \A q \in Missing(file') : q \in Points
      BY DEF Missing
    <3>6. Missing(file') \subseteq Missing(file) \cup {row.id}
      BY <3>3, <3>4, <3>5 DEF Extends
    <3> QED
      BY <3>3, <3>4, <3>6 DEF Extends
  <2>2. CASE file.header = "none" /\ \E header \in {"torn", "open"} : file' = [file EXCEPT !.header = header]
    <3>1. PICK header \in {"torn", "open"} : file' = [file EXCEPT !.header = header]
      BY <2>2
    <3>2. file = [header |-> file.header, rows |-> file.rows] /\ file.rows = <<>>
      BY <2>0, <2>2 DEF WellFormed
    <3>3. file' = [header |-> header, rows |-> <<>>]
      BY <3>1, <3>2
    <3>4. <<>> \in Seq(Rows) /\ DOMAIN <<>> = {}
      OBVIOUS
    <3> DEFINE f == file'
    <3>5. f.header \in {"torn", "open"} /\ f.rows = <<>>
          /\ f \in [header : {"none", "ours", "torn", "open"}, rows : Seq(Rows)]
      BY <3>3, <3>4
    <3> HIDE DEF f
    <3>6. WellFormed(f)
      BY <3>4, <3>5 DEF WellFormed
    <3>7. Completed(f) = {} /\ \A p : ~Frail(f, p)
      BY <3>4, <3>5 DEF Completed, Frail
    <3>8. Missing(f) = {} /\ \A p : RowsIn(f, p) = {}
      BY <3>4, <3>5, <3>7 DEF Missing, RowsIn
    <3> QED
      BY <3>6, <3>8 DEF f
  <2> QED
    BY <1>1, <2>1, <2>2
<1>5. Work'
  <2>1. tears' \in 0 .. MaxTears /\ starts' \in 0 .. MaxStarts /\ swallowed' \in Nat
    BY <1>1, <1>2, SweepsAssumption
  <2>2. todo' \in Seq(Points') /\ refs' \subseteq Keys(Points)'
    BY <1>1
  <2>3. args' \in Axes /\ machine' \in Machines
    BY <1>1, <1>2 DEF fixed
  <2> QED
    BY <1>1, <2>1, <2>2, <2>3 DEF Work
<1>6. Counted'
  <2> SUFFICES ASSUME NEW q \in Points'
               PROVE  Cardinality(RowsIn(file, q)') + Cardinality(Times(todo, q)') + Pending(q)'
                        <= Cardinality(Copies(q)')
    BY DEF Counted
  <2> DEFINE R == RowsIn(file, q)
             S == RowsIn(file', q)
             r == Cardinality(R)
             s == Cardinality(S)
             t == Cardinality(Times(todo, q))
             c == Cardinality(Copies(q))
             x == Len(file'.rows)
  <2>1. RowsIn(file, q)' = S /\ Times(todo, q)' = {} /\ Pending(q)' = 0
    BY <1>1 DEF RowsIn, Times, Pending
  <2>2. Cardinality(Times(todo, q)') = 0
    BY <2>1, FS_EmptySet
  <2>3. r + t + Pending(q) <= c
    BY <1>3 DEF SweepInv, Counted
  <2>4. r \in Nat /\ t \in Nat /\ c \in Nat /\ IsFiniteSet(R)
    BY Known
  <2>5. /\ S \subseteq R \cup {x}
        /\ (q # row.id \/ row.rate # "whole") => S \subseteq R
    BY <1>3, <1>4
  <2>6. Pending(q) = IF q = row.id /\ row.rate = "whole" THEN 1 ELSE 0
    BY <1>1 DEF Pending
  <2> HIDE DEF R, S, x
  <2>7. s \in Nat /\ s <= r + 1 /\ (S \subseteq R => s <= r)
    BY <2>4, <2>5, OneMore
  <2> HIDE DEF r, s, t, c
  <2>8. s + 0 + 0 <= c
    BY <2>3, <2>4, <2>5, <2>6, <2>7
  <2> QED
    BY <1>3, <2>1, <2>2, <2>8 DEF s, c, S
<1>7. Bounded'
  <2>1. Passed' = {}
    BY <1>1 DEF Passed
  <2>2. Gone' = Missing(file')
    BY <1>1, <2>1, GoneAfter
  <2>3. Gone' \subseteq Gone \cup {row.id}
    BY <1>4, <2>2 DEF Gone
  <2>4. tears' \in Nat /\ swallowed' \in Nat
    <3>1. tears \in Nat /\ swallowed \in Nat
      BY Known
    <3> QED
      BY <1>1, <3>1
  <2> QED
    BY <1>1, <1>4, <2>3, <2>4, StaysBounded
<1>8. Commanded'
  BY <1>1, StaysCommanded
<1> QED
  BY <1>3, <1>4, <1>5, <1>6, <1>7, <1>8 DEF SweepInv

(* A step after which the file and what is to be measured are what they were. *)
LEMMA NothingDone ==
  ASSUME SweepInv, Commanded',
         UNCHANGED <<starts, todo, refs, file, row, failed, exit, tears, swallowed, fixed>>,
         at' = at \/ (at = "shell" /\ at' = "user")
  PROVE  SweepInv'
<1>1. /\ starts' = starts /\ todo' = todo /\ refs' = refs /\ file' = file /\ row' = row
      /\ failed' = failed /\ exit' = exit /\ tears' = tears /\ swallowed' = swallowed /\ UNCHANGED fixed
      /\ args' = args /\ machine' = machine
  BY DEF fixed
<1>2. /\ Points' = Points /\ Rows' = Rows /\ (WellFormed(file)' <=> WellFormed(file'))
      /\ \A q : Copies(q)' = Copies(q)
  BY <1>1, SameGrid
<1>3. Keys(Points)' = Keys(Points)
  BY <1>2 DEF Keys
<1>4. Work'
  BY <1>1, <1>2, <1>3 DEF SweepInv, Work
<1>5. /\ \A p : /\ RowsIn(file, p)' = RowsIn(file, p) /\ Times(todo, p)' = Times(todo, p)
                /\ Pending(p)' = Pending(p)
      /\ Passed' = Passed
  <2>1. \A p : RowsIn(file, p)' = RowsIn(file, p) /\ Times(todo, p)' = Times(todo, p)
    BY <1>1, Zenon DEF RowsIn, Times
  <2>2. at' \in {"points", "write"} <=> at \in {"points", "write"}
    OBVIOUS
  <2>3. at' = "write" <=> at = "write"
    OBVIOUS
  <2>4. \A p : Pending(p)' = Pending(p)
    BY <1>1, <2>3, Zenon DEF Pending
  <2>5. Passed' = Passed
    <3>1. \A p \in Points : (p \notin Range(todo') /\ ~(at' = "write" /\ row'.id = p))
                         <=> (p \notin Range(todo) /\ ~(at = "write" /\ row.id = p))
      BY <1>1, <2>3, Zenon
    <3>2. CASE at \in {"points", "write"} /\ ~failed
      BY <1>1, <1>2, <2>2, <3>1, <3>2 DEF Passed
    <3>3. CASE ~(at \in {"points", "write"} /\ ~failed)
      BY <1>1, <1>2, <2>2, <3>3 DEF Passed
    <3> QED
      BY <3>2, <3>3
  <2> QED
    BY <2>1, <2>4, <2>5
<1>6. Counted'
  BY <1>2, <1>5, Zenon DEF SweepInv, Counted
<1>7. Bounded'
  <2>1. Gone' = Gone
    BY <1>1, <1>5, GoneAfter DEF Gone
  <2>2. /\ Open(file') = Open(file) /\ Open(file) \in 0 .. 1 /\ Missing(file') = Missing(file)
        /\ tears' \in Nat /\ swallowed' \in Nat
    BY <1>1, Known DEF Open
  <2> QED
    BY <1>1, <2>1, <2>2, StaysBounded
<1>8. WellFormed(file)'
  BY <1>1, <1>2 DEF SweepInv
<1> QED
  BY <1>4, <1>6, <1>7, <1>8 DEF SweepInv

(* A user runs the binary. *)
LEMMA UserRunsStep ==
  ASSUME SweepInv, UserRuns
  PROVE  SweepInv'
<1>0. PICK argv \in Commands :
             \E code \in Run(argv) : ran' = [by |-> "user", argv |-> argv, exit |-> code]
  BY DEF UserRuns
<1>1. PICK code \in Run(argv) : ran' = [by |-> "user", argv |-> argv, exit |-> code]
  BY <1>0
<1>2. /\ at = "shell" /\ at' = "user" /\ UNCHANGED fixed
      /\ UNCHANGED <<starts, todo, refs, file, row, failed, exit, tears, swallowed, fixed>>
  BY DEF UserRuns
<1>3. ran'.by = "user" /\ ran'.argv \in Commands /\ ran'.exit \in Run(ran'.argv)
  BY <1>1
<1>4. Commanded'
  BY <1>2, <1>3, StaysCommanded
<1> QED
  BY <1>2, <1>4, NothingDone

(* Nothing happens. *)
LEMMA StutterStep ==
  ASSUME SweepInv, UNCHANGED vars
  PROVE  SweepInv'
<1>1. /\ UNCHANGED fixed /\ ran' = ran /\ at' = at
      /\ UNCHANGED <<starts, todo, refs, file, row, failed, exit, tears, swallowed, fixed>>
  BY DEF vars
<1>2. Commanded'
  BY <1>1, StaysCommanded
<1> QED
  BY <1>1, <1>2, NothingDone

(* The invariant holds at first ... *)
LEMMA SweepInvInit == Init => SweepInv
<1> SUFFICES ASSUME Init PROVE SweepInv
  OBVIOUS
<1>1. /\ machine \in Machines /\ at \in {"idle", "shell"} /\ starts = 0 /\ todo = <<>> /\ refs = {}
      /\ file = NoFile /\ row = NoRow /\ failed = FALSE /\ exit = "none" /\ ran = Nothing
      /\ tears = 0 /\ swallowed = 0
  BY DEF Init
<1>2. args \in Axes
  BY AxesAssumption DEF Init
<1>3. starts \in 0 .. MaxStarts /\ tears \in 0 .. MaxTears /\ swallowed \in Nat
  BY <1>1, SweepsAssumption
<1>4. file.header = "none" /\ file.rows = <<>> /\ DOMAIN <<>> = {} /\ <<>> \in Seq(Rows)
  BY <1>1 DEF NoFile
<1>5. WellFormed(file)
  BY <1>1, <1>4 DEF WellFormed, NoFile
<1>6. Work
  <2>1. todo \in Seq(Points) /\ refs \subseteq Keys(Points)
    BY <1>1
  <2>2. at \notin {"points", "write"} /\ at \in {"idle", "points", "write", "shell", "user"}
    BY <1>1
  <2>3. failed \in BOOLEAN /\ exit \in {"none", "ok", "usage", "failed"}
    BY <1>1
  <2> QED
    BY <1>1, <1>2, <1>3, <2>1, <2>2, <2>3 DEF Work
<1>7. \A p : RowsIn(file, p) = {} /\ Times(todo, p) = {} /\ Pending(p) = 0
  BY <1>1, <1>4 DEF RowsIn, Times, Pending
<1>8. Counted
  <2> SUFFICES ASSUME NEW p \in Points
               PROVE  Cardinality(RowsIn(file, p)) + Cardinality(Times(todo, p)) + Pending(p)
                        <= Cardinality(Copies(p))
    BY DEF Counted
  <2>1. Cardinality(RowsIn(file, p)) = 0 /\ Cardinality(Times(todo, p)) = 0
    BY <1>7, FS_EmptySet
  <2>2. Cardinality(Copies(p)) \in Nat
    <3>1. TheGrid \in Seq(Points)
      BY <1>1, <1>2, PointsFit
    <3>2. Copies(p) \in SUBSET (DOMAIN TheGrid)
      BY DEF Copies
    <3> QED
      BY <3>1, <3>2, TimesFinite
  <2>3. 0 + 0 + 0 <= Cardinality(Copies(p))
    BY <2>2
  <2> QED
    BY <1>7, <2>1, <2>3
<1>9. Bounded
  <2>1. Completed(file) = {} /\ \A p : ~Frail(file, p)
    BY <1>4 DEF Completed, Frail
  <2>2. Passed = {}
    BY <1>1 DEF Passed
  <2>3. Missing(file) = {} /\ Gone = {}
    BY <2>1, <2>2 DEF Gone, Missing
  <2>4. Cardinality(Missing(file)) = 0 /\ Cardinality(Gone) = 0 /\ Open(file) = 0
    BY <1>4, <2>3, FS_EmptySet DEF Open, Ended
  <2> QED
    BY <1>1, <2>4 DEF Bounded
<1>10. Commanded
  BY <1>1 DEF Commanded
<1> QED
  BY <1>5, <1>6, <1>8, <1>9, <1>10 DEF SweepInv

(* ... is kept by every step ... *)
LEMMA SweepInvStep == SweepInv /\ [Next]_vars => SweepInv'
<1> SUFFICES ASSUME SweepInv, [Next]_vars PROVE SweepInv'
  OBVIOUS
<1>1. CASE \E resume \in BOOLEAN : Start(resume)
  BY <1>1, StartStep
<1>2. CASE /\ at = "points" /\ todo # <<>>
           /\ \E argv \in {Command(Head(todo), refs, ptx) : ptx \in {"usable", "missing"}} :
                \E code \in Run(argv) : RunPoint(argv, code)
  <2>1. PICK argv \in {Command(Head(todo), refs, ptx) : ptx \in {"usable", "missing"}} :
               \E code \in Run(argv) : RunPoint(argv, code)
    BY <1>2
  <2>2. PICK ptx \in {"usable", "missing"} : argv = Command(Head(todo), refs, ptx)
    BY <2>1
  <2>3. PICK code \in Run(Command(Head(todo), refs, ptx)) :
               RunPoint(Command(Head(todo), refs, ptx), code)
    BY <2>1, <2>2
  <2> QED
    BY <1>2, <2>3, RunPointStep
<1>3. CASE Write
  BY <1>3, WriteStep
<1>4. CASE Finish
  BY <1>4, FinishStep
<1>5. CASE Die
  BY <1>5, DieStep
<1>6. CASE \E cut \in Cuts : DieWriting(cut)
  BY <1>6, DieWritingStep
<1>7. CASE UserRuns
  BY <1>7, UserRunsStep
<1>8. CASE UNCHANGED vars
  BY <1>8, StutterStep
<1> QED
  BY <1>1, <1>2, <1>3, <1>4, <1>5, <1>6, <1>7, <1>8 DEF Next

(* ... and so holds of every behaviour of tools/sweep.py and the binary. *)
THEOREM SweepInvariant == Spec => []SweepInv
BY SweepInvInit, SweepInvStep, PTL DEF Spec

(* It implies the types. *)
LEMMA TypeOKFromInv == SweepInv => TypeOK
<1> SUFFICES ASSUME SweepInv PROVE TypeOK
  OBVIOUS
<1> DEFINE ids == {<<>>} \cup {PointId(p) : p \in Points}
<1>1. Range(todo) \subseteq Points
  BY RangeFinite DEF SweepInv, Work
<1>2. file.header \in {"none", "ours", "torn", "open"} /\ file.rows \in Seq(Rows)
  BY DEF SweepInv, WellFormed
<1>3. ids = {<<>>} \cup Points
  BY DEF PointId
<1>4. ASSUME NEW i \in DOMAIN file.rows
      PROVE  /\ file.rows[i].id \in ids /\ file.rows[i].rate \in {"whole", "part", "none"}
             /\ i < Len(file.rows) => file.rows[i].cut = "no"
  <2>1. file.rows[i] \in Rows
    BY <1>2, LenProperties
  <2>2. file.rows[i].id \in {<<>>} \cup Points /\ file.rows[i].rate \in Rates
    BY <2>1 DEF Rows
  <2>3. i < Len(file.rows) => file.rows[i].cut = "no"
    BY DEF SweepInv, WellFormed
  <2> QED
    BY <1>3, <2>2, <2>3 DEF Rates
<1>5. ran.exit \in ExitCodes
  <2>1. CASE ran = Nothing
    BY <2>1 DEF Nothing, ExitCodes
  <2>2. CASE ran # Nothing
    <3>1. /\ ran.by \in {"user", "sweep"} /\ ran.exit \in Run(ran.argv)
          /\ ran.by = "user" => ran.argv \in Commands
          /\ ran.by = "sweep" =>
               \E p \in Points, known \in SUBSET Keys(Points), ptx \in {"usable", "missing"} :
                 ran.argv = Command(p, known, ptx)
      BY <2>2 DEF SweepInv, Commanded
    <3>2. ran.argv \in Seq(Range(ran.argv))
      <4>1. CASE ran.by = "user"
        BY <3>1, <4>1, CommandsAssumption
      <4>2. CASE ran.by = "sweep"
        <5>1. PICK p \in Points, known \in SUBSET Keys(Points), ptx \in {"usable", "missing"} :
                ran.argv = Command(p, known, ptx)
          BY <3>1, <4>2
        <5> QED
          BY <5>1, CommandIs
      <4> QED
        BY <3>1, <4>1, <4>2
    <3>3. ReadAll(ran.argv).early \in {"no", "ok", "usage"}
      BY <3>2, ReadAllSays DEF Says
    <3>4. Exits(ReadAll(ran.argv), machine) \subseteq {"ok", "usage", "noisy", "verify_failed", "cannot_run"}
      BY <3>3, ExitsAre
    <3> QED
      BY <3>1, <3>4 DEF Run, ExitCodes
  <2> QED
    BY <2>1, <2>2
<1>6. exit \in ExitCodes
  BY DEF SweepInv, Work, ExitCodes
<1>7. /\ at \in {"idle", "points", "write", "shell", "user"} /\ refs \subseteq Keys(Points)
      /\ starts \in 0 .. MaxStarts /\ tears \in 0 .. MaxTears /\ swallowed \in Nat
      /\ failed \in BOOLEAN
  BY DEF SweepInv, Work
<1> QED
  BY <1>1, <1>2, <1>4, <1>5, <1>6, <1>7 DEF TypeOK

(* It implies that a sweep is complete but for what rows cut off took with them. *)
LEMMA CompleteFromInv == SweepInv => SweepComplete
<1> SUFFICES ASSUME SweepInv PROVE SweepComplete
  OBVIOUS
<1>1. \A p : RowsOf(p) = RowsIn(file, p)
  BY DEF RowsOf, RowsIn, PointId
<1>2. ASSUME exit = "ok"
      PROVE  IF tears = 0 THEN Lost = {} ELSE Cardinality(Lost) <= 2 * tears + swallowed
  <2>1. at \notin {"points", "write"}
    BY <1>2 DEF SweepInv, Work
  <2>2. Passed = Points
    BY <1>2, <2>1 DEF Passed
  <2>3. Lost \subseteq Gone
    BY <1>1, <2>2 DEF Lost, Gone
  <2> DEFINE G == Gone
             H == Lost
             g == Cardinality(G)
             h == Cardinality(H)
  <2>4. IsFiniteSet(G) /\ tears \in Nat /\ swallowed \in Nat
    BY Known
  <2>5. /\ g + Open(file) <= 2 * tears + swallowed /\ Open(file) \in 0 .. 1
        /\ tears = 0 => swallowed = 0
    BY DEF SweepInv, Bounded, Open
  <2>6. H \subseteq G /\ H \subseteq G \cup {0}
    BY <2>3
  <2> HIDE DEF G, H
  <2>7. g \in Nat /\ h \in Nat /\ h <= g
    BY <2>4, <2>6, OneMore
  <2>8. IsFiniteSet(H)
    BY <2>4, <2>6, FS_Subset
  <2>9. h = 0 => H = {}
    BY <2>8, FS_EmptySet
  <2> HIDE DEF g, h
  <2>10. h <= 2 * tears + swallowed /\ (tears = 0 => h = 0)
    BY <2>4, <2>5, <2>7
  <2> QED
    BY <2>9, <2>10 DEF h, H
<1>3. Cardinality(Spoilt) <= tears
  <2> DEFINE M == Missing(file)
             S == Spoilt
             m == Cardinality(M)
             k == Cardinality(S)
  <2>1. S \subseteq M \cup {0} /\ S \subseteq M
    BY <1>1 DEF Spoilt, Missing, PointId
  <2>2. IsFiniteSet(M) /\ tears \in Nat /\ m <= tears
    BY Known DEF SweepInv, Bounded
  <2> HIDE DEF M, S
  <2>3. m \in Nat /\ k \in Nat /\ k <= m
    BY <2>1, <2>2, OneMore
  <2> HIDE DEF m, k
  <2>4. k <= tears
    BY <2>2, <2>3
  <2> QED
    BY <2>4 DEF k, S
<1>4. ASSUME NEW p \in Points PROVE Cardinality(RowsOf(p)) <= Cardinality(Copies(p))
  <2> DEFINE r == Cardinality(RowsIn(file, p))
             t == Cardinality(Times(todo, p))
             c == Cardinality(Copies(p))
  <2>1. r + t + Pending(p) <= c
    BY DEF SweepInv, Counted
  <2>2. r \in Nat /\ t \in Nat /\ c \in Nat /\ Pending(p) \in 0 .. 1
    BY Known DEF Pending
  <2> HIDE DEF r, t, c
  <2>3. r <= c
    BY <2>1, <2>2
  <2> QED
    BY <1>1, <2>3 DEF r, c
<1> QED
  BY <1>2, <1>3, <1>4 DEF SweepComplete

(* Every variable of a sweep has its type: it does only points of its grid, the
   file never has more than its last line open, and the binary ends with an exit
   code it has. *)
THEOREM SweepTypeOK == Spec => []TypeOK
BY SweepInvariant, TypeOKFromInv, PTL

(* A sweep that ends with exit 0 has measured what the file does not say was
   measured before: however often it died or was resumed, no point is missing if
   no row was cut off, and at most two for each beside the rows that one cut off in
   quotes took in.  Of these only one for each is missing for good, and no point is
   there more often than it was asked for. *)
THEOREM SweepIsComplete == Spec => []SweepComplete
BY SweepInvariant, CompleteFromInv, PTL

(* It implies that commands are sound. *)
LEMMA SoundFromInv == SweepInv => CommandsSound
BY SoundIfCommanded DEF SweepInv

(* The command line means the same in any order and on every machine, guards what
   it runs, and the sweep only gives the binary commands it takes: for every
   kernel table, every grid and every command line. *)
THEOREM SweepCommandsSound == Spec => []CommandsSound
BY SweepInvariant, SoundFromInv, PTL

=============================================================================
