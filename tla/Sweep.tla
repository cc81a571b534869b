---------------------------------- MODULE Sweep ----------------------------------
(***************************************************************************)
(* tools/sweep.py: the grid it builds, the commands it makes of the points, *)
(* the CSV it appends to row by row, and how a sweep that died is resumed   *)
(* from that file, with the binary as CommandLine has it.  The order of the *)
(* points (itertools.product, then interleave) is some order, the same in   *)
(* every sweep of the same axes.                                            *)
(*                                                                         *)
(* A row is what csv.DictReader makes of a line: its point_id, its rate     *)
(* ("whole", some other text, or none) and, of a line without an end, the   *)
(* column it ends in and whether that is in quotes, which the writer puts   *)
(* round a field with a comma: a name, the steers or the throttle reasons,  *)
(* all behind the point_id.  A header is torn once it is not that of the    *)
(* sweep, and open if only its line end is missing.                         *)
(***************************************************************************)
EXTENDS CommandLine

CONSTANTS
  Axes,      \* records of sequences, as parse_list and parse_choice_list give them
  Machines,  \* records [runs, odd, devices]
  Commands,  \* command lines a user may give the binary instead
  MaxStarts, \* bound: sweeps started
  MaxTears   \* bound: rows cut off

List(s, S) == s \in Seq(S) /\ s # <<>>

\* What the sweep's own checks let through: lists of what the binary reports,
\* within its bounds; "import" comes last and only with kernels that are named.
ASSUME AxesAssumption ==
  /\ Axes # {}
  /\ \A a \in Axes :
       /\ List(a.algorithm, DOMAIN Algorithms) /\ List(a.where, Words.where)
       /\ List(a.transfer, Words.transfer) /\ List(a.primitives, Words.primitives)
       /\ List(a.chunks, {0} \cup Bounds.chunks) /\ List(a.bytes, Bounds.bytes)
       /\ List(a.iterations, Bounds.iterations) /\ List(a.ws, Bounds.ws)
       /\ List(a.compile, Words.compile \cup {"import"}) /\ a.compile[1] # "import"
       /\ List(a.kernel, Range(a.kernel))
       /\ \A k \in Range(a.kernel) : k \in Seq(Range(k)) /\ Len(k) <= 2
       /\ "import" \in Range(a.compile) => <<>> \notin Range(a.kernel)

ASSUME CommandsAssumption ==
  \A argv \in Commands :
    /\ argv \in Seq(Range(argv))
    /\ \A o \in Range(argv) : o[1] = "ladder" => o[2] \in Seq(Nat)
ASSUME SweepsAssumption   == MaxStarts \in Nat /\ MaxTears \in Nat /\ Machines # {}

VARIABLES
  at,        \* "idle", "points" or "write"; a user is at the "shell" or "user"
  args,      \* the axes
  machine,   \* the machine
  keepGoing, \* --keep-going
  starts,    \* sweeps started
  todo,      \* points to be measured by this one
  refs,      \* keys of the reference ladders that worked
  file,      \* [header, rows] of the CSV
  row,       \* the row to be written
  failed,    \* failed > 0: a point of this sweep failed
  exit,      \* the exit code of the last sweep, "none" if it died
  ran,       \* the command just given to the binary: [by, argv, exit]
  tears,     \* history: rows cut off since the file was begun
  swallowed  \* history: rows since then that a line without an end took in whole

fixed == <<args, machine, keepGoing>>
vars  == <<at, starts, todo, refs, file, row, failed, exit, ran, tears, swallowed, fixed>>

-----------------------------------------------------------------------------
(* The grid. *)

\* resolve_kernel: a bare name means the point's algorithm.
Resolve(kern, alg) == IF Len(kern) = 1 THEN <<alg, kern[1]>> ELSE kern
Exists(name)       == \E k \in Registry : k.name = name
ApiOf(name)        == (CHOOSE k \in Registry : k.name = name).api

AxisPoints(a) ==
  [algorithm : Range(a.algorithm), kernel : Range(a.kernel), where : Range(a.where),
   transfer : Range(a.transfer), chunks : Range(a.chunks), primitives : Range(a.primitives),
   compile : Range(a.compile), bytes : Range(a.bytes), iterations : Range(a.iterations),
   ws : Range(a.ws)]

\* An axis that means nothing to a point keeps its first value only.
OnCpu(p) ==
  \/ p.where = "cpu"
  \/ /\ p.kernel # <<>> /\ Exists(Resolve(p.kernel, p.algorithm))
     /\ ApiOf(Resolve(p.kernel, p.algorithm)) = "cpu"
IsCuda(p) == /\ p.kernel # <<>> /\ Exists(Resolve(p.kernel, p.algorithm))
             /\ ApiOf(Resolve(p.kernel, p.algorithm)) = "cuda"
Meaningful(a, p) ==
  /\ p.transfer # "overlap" => p.chunks = a.chunks[1]
  /\ OnCpu(p) => p.primitives = a.primitives[1]
  /\ (p.kernel # <<>> /\ ~IsCuda(p)) => p.compile = a.compile[1]

\* A kernel that is there, runs here and is not excluded by the filter.
KernelFits(p, m) ==
  p.kernel # <<>> =>
    LET name == Resolve(p.kernel, p.algorithm) IN
    /\ name[1] = p.algorithm /\ Exists(name) /\ name \in m.runs
    /\ p.where # "any" => (p.where = "cpu") = (ApiOf(name) = "cpu")

\* The minimum is that of the first algorithm.
LongEnough_First(a, p) == p.iterations > 1 => p.bytes >= Algorithms[a.algorithm[1]].digest

LongEnough(a, p) == p.iterations > 1 => p.bytes >= Algorithms[p.algorithm].digest

Asked(a, m) ==
  {q \in AxisPoints(a) : Meaningful(a, q) /\ KernelFits(q, m) /\ LongEnough(a, q)}

Point(q) == [q EXCEPT !.kernel = IF @ = <<>> THEN @ ELSE Resolve(@, q.algorithm),
                      !.chunks = IF q.transfer = "overlap" THEN @ ELSE 0]

\* build_grid.  A kernel asked for by both of its names gives each point twice.
Grid(a, m) == LET asked == SetToSeq(Asked(a, m)) IN [i \in DOMAIN asked |-> Point(asked[i])]

Grids   == [x \in Axes \X Machines |-> Grid(x[1], x[2])]
TheGrid == Grids[<<args, machine>>]
Points  == Range(TheGrid)

\* point_id: what was asked for, never what was decided.
PointId(p) == p

-----------------------------------------------------------------------------
(* Commands. *)

\* Numbers in their order.
Ascending(N) ==
  [k \in 1 .. Cardinality(N) |-> CHOOSE i \in N : Cardinality({j \in N : j <= i}) = k]

\* The points one checkpointed walk serves.
Key(p) == <<p.algorithm, p.bytes, p.ws>>
Keys(S) == {Key(p) : p \in {q \in S : q.iterations > 1}}
Rungs(S, key) == Ascending({p.iterations : p \in {q \in S : Key(q) = key /\ q.iterations > 1}})

LadderCommand(S, key) ==
  <<<<"ladder", Rungs(S, key)>>, <<"algorithm", key[1]>>, <<"bytes", key[2]>>, <<"ws", key[3]>>>>

When(cond, o) == IF cond THEN <<o>> ELSE <<>>

\* run_point.  ptx tells whether the file of an imported kernel can be used.
Command(p, known, ptx) ==
  LET deviceOk == p.where # "cpu" /\ (p.kernel # <<>> => ApiOf(p.kernel) # "cpu")
  IN  <<<<"json", "">>, <<"algorithm", p.algorithm>>, <<"transfer", p.transfer>>,
        <<"bytes", p.bytes>>, <<"iterations", p.iterations>>, <<"ws", p.ws>>>>
      \o When(p.iterations > 1 /\ Key(p) \in known, <<"expect", p.algorithm>>)
      \o When(p.chunks # 0, <<"chunks", p.chunks>>)
      \o When(deviceOk, <<"primitives", p.primitives>>)
      \o When(p.compile = "import", <<"import", ptx>>)
      \o When(/\ p.compile # "import" /\ deviceOk
              /\ p.kernel # <<>> => ApiOf(p.kernel) = "cuda", <<"compile", p.compile>>)
      \o When(p.kernel # <<>>, <<"kernel", p.kernel>>)
      \o When(p.kernel = <<>> /\ p.where # "any", <<"where", p.where>>)

Run(argv) == Exits(ReadAll(argv), machine)

-----------------------------------------------------------------------------
(* The file. *)

Nothing == [by |-> "nobody", argv |-> <<>>, exit |-> "none"]

NoFile == [header |-> "none", rows |-> <<>>]
NoRow  == [id |-> <<>>, rate |-> "none", cut |-> "no", quoted |-> FALSE]

RowOf(p, readable) ==
  [NoRow EXCEPT !.id = PointId(p), !.rate = IF readable THEN "whole" ELSE "none"]

\* Whether a row has quotes in it: that of an unreadable result has no text.
Quotes(r) == IF r.rate = "none" THEN {FALSE} ELSE BOOLEAN

\* What a line says that was cut off in its first field, before its point_id,
\* before its rate, in it, or after it, in quotes or not.
Torn(r, cut, quoted) ==
  LET rate == CASE cut = "after" -> r.rate
                [] cut = "rate"  -> IF r.rate = "none" THEN "none" ELSE "part"
                [] OTHER         -> "none"
  IN  [id |-> IF cut \in {"first", "before"} THEN <<>> ELSE r.id,
       rate |-> rate, cut |-> cut, quoted |-> quoted]

Cuts == {"first", "before", "between", "rate", "after"}

\* What a line may say, and where it may end, with more text behind it.  Before its
\* point_id it has none that means anything from then on.
Further(line) ==
  LET To(cuts, rate) == {[line EXCEPT !.cut = c, !.rate = rate] : c \in cuts}
  IN  CASE line.cut = "between" -> To({"between", "rate", "after"}, line.rate)
                                     \cup To({"rate", "after"}, "part")
        [] line.cut = "rate"    -> To({"rate", "after"}, "part")
        [] OTHER                -> {line}

\* The line once a row follows on it, with quotes in it or not.  Text in quotes goes
\* on, over the ends of lines, to the next quote; it takes in a row that has none.
\* That quote closes it, unless what follows looks like the next quoted field.
Glued(last, r, quotes) ==
  LET within == r.cut = "first" \/ (last.quoted /\ ~quotes)
      Ends(quoted) == {[f EXCEPT !.cut = IF r.cut = "no" /\ ~quoted THEN "no" ELSE @,
                                 !.quoted = quoted] :
                         f \in {g \in Further(last) : within => g.cut = last.cut}}
  IN  IF last.cut = "first" THEN {r}
      ELSE UNION {Ends(quoted) : quoted \in IF ~last.quoted THEN {r.quoted}
                                           ELSE IF quotes THEN BOOLEAN ELSE {TRUE}}

Begun(header) == IF header = "none" THEN "ours" ELSE header

\* As if a line that was cut off had an end.
Appended_OwnLine(f, r, quotes) == {[header |-> Begun(f.header), rows |-> Append(f.rows, r)]}

\* The file with a row at its end, header and all.
Appended(f, r, quotes) ==
  LET n == Len(f.rows) IN
  IF f.header = "open" THEN {[header |-> "torn", rows |-> f.rows]}
  ELSE IF n > 0 /\ f.rows[n].cut # "no"
    THEN {[f EXCEPT !.rows[n] = g] : g \in Glued(f.rows[n], r, quotes)}
    ELSE {[header |-> Begun(f.header), rows |-> Append(f.rows, r)]}

\* Whether the next row gets a line of its own.
Ended(f) == f.header # "open" /\ (f.rows # <<>> => f.rows[Len(f.rows)].cut = "no")

\* A row is enough, whether it has a rate or not.
Completed_AnyRow(f) == {f.rows[i].id : i \in {j \in DOMAIN f.rows : f.rows[j].id # <<>>}}

\* load_completed: a row with a point_id and some rate.
Completed(f) ==
  {f.rows[i].id : i \in {j \in DOMAIN f.rows : f.rows[j].id # <<>> /\ f.rows[j].rate # "none"}}

-----------------------------------------------------------------------------
(* A sweep. *)

Stop(code) ==
  /\ at' = "idle" /\ exit' = code
  /\ todo' = <<>> /\ refs' = {} /\ row' = NoRow /\ failed' = FALSE

\* One with points to measure, after precompute_references.
Begin(points, f) ==
  /\ at' = "points" /\ todo' = points /\ file' = f
  /\ \E known \in SUBSET Keys(Range(points)) : refs' = known
  /\ failed' = FALSE /\ exit' = "none" /\ row' = NoRow

\* main up to the loop.  A file with nothing in it is begun anew.  With enough rows
\* in one field the csv module gives up, which nothing catches.
Start(resume) ==
  /\ at = "idle" /\ starts < MaxStarts
  /\ starts' = starts + 1
  /\ IF Points = {} \/ (resume /\ file.header = "torn")
       THEN Stop("usage") /\ UNCHANGED <<file, tears, swallowed>>
     ELSE IF resume /\ file.header # "none"
       THEN LET undone == {i \in DOMAIN TheGrid : PointId(TheGrid[i]) \notin Completed(file)}
                order  == Ascending(undone)
                left   == [k \in DOMAIN order |-> TheGrid[order[k]]]
            IN
            /\ \/ swallowed > 0 /\ Stop("failed") /\ UNCHANGED file
               \/ left = <<>> /\ Stop("ok") /\ UNCHANGED file
               \/ left # <<>> /\ Begin(left, file)
            /\ UNCHANGED <<tears, swallowed>>
       ELSE Begin(TheGrid, NoFile) /\ tears' = 0 /\ swallowed' = 0
  /\ ran' = Nothing
  /\ UNCHANGED fixed

\* finally: csv_target.close(), which writes a header still in the buffer.
Close == file' = [file EXCEPT !.header = Begun(@)]

\* A point is measured: a row of its result, or none if it failed.
RunPoint(argv, code) ==
  LET p == Head(todo) IN
  /\ ran' = [by |-> "sweep", argv |-> argv, exit |-> code]
  /\ \/ /\ code \in {"ok", "noisy"}
        /\ \E readable \in BOOLEAN :
             /\ row' = RowOf(p, readable)
             /\ failed' = (failed \/ ~readable)
        /\ at' = "write" /\ todo' = Tail(todo)
        /\ UNCHANGED <<refs, exit, file>>
     \/ \* no JSON, a time-out, or an exit code that is not a measurement
        /\ code = "verify_failed" => keepGoing
        /\ failed' = TRUE /\ todo' = Tail(todo)
        /\ UNCHANGED <<at, refs, row, exit, file>>
     \/ /\ code = "verify_failed" /\ ~keepGoing
        /\ Stop("failed") /\ Close
  /\ UNCHANGED <<starts, tears, swallowed, fixed>>

\* writer.writerow and csv_target.flush.
Write ==
  /\ at = "write"
  /\ file' \in UNION {Appended(file, row, quotes) : quotes \in Quotes(row)}
  /\ swallowed' = IF Ended(file') THEN swallowed ELSE swallowed + 1
  /\ at' = "points" /\ row' = NoRow
  /\ ran' = Nothing
  /\ UNCHANGED <<starts, todo, refs, failed, exit, tears, fixed>>

Finish ==
  /\ at = "points" /\ todo = <<>>
  /\ Stop(IF failed THEN "failed" ELSE "ok")
  /\ Close
  /\ ran' = Nothing
  /\ UNCHANGED <<starts, tears, swallowed, fixed>>

\* The machine goes away, with nothing of what is in the buffer in the file.
Die ==
  /\ at \in {"points", "write"}
  /\ Stop("none")
  /\ ran' = Nothing
  /\ UNCHANGED <<starts, file, tears, swallowed, fixed>>

\* It does so, or the disk is full, in the middle of writing a row or the
\* header before the first.
DieWriting(cut) ==
  /\ at = "write" /\ tears < MaxTears
  /\ tears' = tears + 1
  /\ \/ \E quotes, quoted \in Quotes(row) :
          /\ quotes => cut \notin {"first", "before"}
          /\ quoted => quotes /\ cut # "rate"
          /\ file' \in Appended(file, Torn(row, cut, quoted), quotes)
     \/ file.header = "none" /\ \E header \in {"torn", "open"} : file' = [file EXCEPT !.header = header]
  /\ Stop("none")
  /\ ran' = Nothing
  /\ UNCHANGED <<starts, swallowed, fixed>>

\* A user gives the binary a command line.
UserRuns ==
  /\ at = "shell"
  /\ \E argv \in Commands : \E code \in Run(argv) :
       ran' = [by |-> "user", argv |-> argv, exit |-> code]
  /\ at' = "user"
  /\ UNCHANGED <<starts, todo, refs, file, row, failed, exit, tears, swallowed, fixed>>

-----------------------------------------------------------------------------

Init ==
  /\ machine \in Machines
  /\ \/ at = "idle" /\ args \in Axes /\ keepGoing \in BOOLEAN
     \/ at = "shell" /\ args = (CHOOSE a \in Axes : TRUE) /\ keepGoing = FALSE
  /\ starts = 0 /\ todo = <<>> /\ refs = {}
  /\ file = NoFile /\ row = NoRow /\ failed = FALSE /\ exit = "none"
  /\ ran = Nothing
  /\ tears = 0 /\ swallowed = 0

Next ==
  \/ \E resume \in BOOLEAN : Start(resume)
  \/ /\ at = "points" /\ todo # <<>>
     /\ \E argv \in {Command(Head(todo), refs, ptx) : ptx \in {"usable", "missing"}} :
          \E code \in Run(argv) : RunPoint(argv, code)
  \/ Write \/ Finish \/ Die
  \/ \E cut \in Cuts : DieWriting(cut)
  \/ UserRuns

Spec == Init /\ [][Next]_vars

-----------------------------------------------------------------------------

ExitCodes == {"none", "ok", "usage", "noisy", "verify_failed", "cannot_run", "failed"}

(* Every variable has its type: a sweep does only points of its grid, and the
   file never has more open lines than its last. *)
TypeOK ==
  LET ids == {<<>>} \cup {PointId(p) : p \in Points} IN
  /\ at \in {"idle", "points", "write", "shell", "user"}
  /\ Range(todo) \subseteq Points /\ refs \subseteq Keys(Points)
  /\ starts \in 0 .. MaxStarts /\ tears \in 0 .. MaxTears /\ swallowed \in Nat
  /\ file.header \in {"none", "ours", "torn", "open"}
  /\ \A i \in DOMAIN file.rows :
       /\ file.rows[i].id \in ids
       /\ file.rows[i].rate \in {"whole", "part", "none"}
       /\ i < Len(file.rows) => file.rows[i].cut = "no"
  /\ failed \in BOOLEAN
  /\ {exit, ran.exit} \subseteq ExitCodes

RowsOf(p) == {i \in DOMAIN file.rows : file.rows[i].id = PointId(p) /\ file.rows[i].rate = "whole"}
Copies(p) == LET grid == TheGrid IN {i \in DOMAIN grid : grid[i] = p}
Lost      == {p \in Points : RowsOf(p) = {}}

(* "A grid that dies partway through ... should not have to start over": when a
   sweep, resumed or not, ends with exit 0, every point is in the file.  A row
   that was cut off takes the next one with it. *)
DoneMeansRecorded == exit = "ok" => Lost = {}

\* What every sweep from now on takes for measured, and is not in the file.
Spoilt == {p \in Points : RowsOf(p) = {} /\ PointId(p) \in Completed(file)}

(* A sweep that ends with exit 0 has measured what the file does not say was
   measured before, however often it died, failed, could not be read or was
   resumed: without a row cut off in the middle no point is missing, with some
   at most two for each, beside the rows that one cut off in quotes took in.  Of
   these only one for each cut can be missing for good, as the others are
   measured by the next sweep.  No point is there more often than it was asked for. *)
SweepComplete ==
  /\ exit = "ok" => IF tears = 0 THEN Lost = {} ELSE Cardinality(Lost) <= 2 * tears + swallowed
  /\ Cardinality(Spoilt) <= tears
  /\ \A p \in Points : Cardinality(RowsOf(p)) <= Cardinality(Copies(p))

Orders(S)   == {f \in [S -> S] : IsInjective(f)}
Order(argv) == {[i \in DOMAIN argv |-> argv[f[i]]] : f \in Orders(DOMAIN argv)}

(* No point of a grid, and no reference ladder, comes to a usage error of the
   binary, unless its messages cannot all be distinct, the file to import is not
   there, or the ladder has more rungs than the binary takes. *)
PointsAreValid ==
  /\ (ran.by = "sweep" /\ ran.exit = "usage") =>
       ~AllDistinct(ReadAll(ran.argv)) \/ <<"import", "missing">> \in Range(ran.argv)
  /\ at = "points" => \A key \in Keys(Range(todo)) :
       LET c == ReadAll(LadderCommand(Range(todo), key)) IN
       "usage" \in Exits(c, machine) => ~AllDistinct(c) \/ Len(c.ladder) > MaxLadder

Reads(argv) == {argv[i][1] : i \in DOMAIN argv}

(* The order of the options on the command line does not matter, unless one is
   given twice, two ask for different actions or one only asks for help. *)
OrderFree ==
  (/\ ran.by = "user"
   /\ Cardinality(Reads(ran.argv)) = Len(ran.argv)
   /\ Cardinality(Reads(ran.argv) \cap Actions) <= 1
   /\ Reads(ran.argv) \cap {"version", "help"} = {})
     => \A q \in Order(ran.argv) : Run(q) = Run(ran.argv)

(* "A command that is wrong everywhere is a usage error": what one machine calls
   one no machine runs. *)
UsageEverywhere ==
  ran.exit = "usage" =>
    \A m \in Machines : Exits(ReadAll(ran.argv), m) \subseteq {"usage", "cannot_run"}

(* What is hashed was checked: at every iteration count that is reached the
   digest of the algorithm that runs fits into its message, and no message of
   the batch repeats another. *)
HashesSafely ==
  ran.by # "nobody" =>
  LET c    == ReadAll(ran.argv)
      most == IF c.action = "ladder" THEN Max(Range(c.ladder)) ELSE c.iterations
  IN  (/\ ran.exit \in {"ok", "noisy", "verify_failed"} /\ c.early = "no"
       /\ c.action \in {"run", "ladder"}) =>
        /\ most > 1 => c.bytes >= Algorithms[Algorithm(c)].digest
        /\ AllDistinct(c)

(* The command line means the same in any order and on every machine, guards
   what it runs, and the sweep only gives the binary commands it takes. *)
CommandsSound == PointsAreValid /\ OrderFree /\ UsageEverywhere /\ HashesSafely

=============================================================================
