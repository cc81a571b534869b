------------------------------- MODULE Reference -------------------------------
(***************************************************************************)
(* The reference every digest is compared with: vb_reference_checksums_mt  *)
(* of src/workload.c, which cuts the range of messages into one slice per  *)
(* thread, starts the threads it can, does the work of the others itself   *)
(* and XORs the slices.                                                    *)
(*                                                                         *)
(* A checksum is the set of messages whose digests are in it.  The XOR of  *)
(* two checksums is then their symmetric difference: a message that is in  *)
(* both is in neither.  All iteration counts of a ladder see the same      *)
(* messages, so one checksum stands for the ladder.  A slice is hashed in  *)
(* one step, since threads share nothing but what they are given.          *)
(***************************************************************************)
EXTENDS Integers, FiniteSets

CONSTANTS Counts,       \* numbers of messages to consider
          ThreadCounts, \* numbers of threads to consider
          MallocFails   \* the message buffer of a slice may be refused

ASSUME CountsAssumption       == Counts \subseteq Nat
ASSUME ThreadCountsAssumption == ThreadCounts \subseteq Nat
ASSUME MallocFailsAssumption  == MallocFails \in BOOLEAN

VARIABLES
  pc,      \* where the calling thread is
  count,   \* messages of the range
  threads, \* threads asked for
  i,       \* the loops' index
  off,     \* messages given to slices so far
  first,   \* sl[i].start
  size,    \* sl[i].count
  started, \* slices whose started[i] is set
  running, \* threads at work
  part,    \* sl[i].out, the checksum of a slice
  out      \* the checksum returned

cfgVars   == <<count, threads>>
sliceVars == <<off, first, size, started>>
vars == <<pc, i, running, part, out, cfgVars, sliceVars>>

Slice   == 0 .. threads - 1
Message == 0 .. count - 1

Xor(a, b) == (a \ b) \cup (b \ a)

\* vb_reference_checksums over n messages from a: without its buffer it
\* returns the zeros it began with.
Checksum(a, n, lost) == IF lost THEN {} ELSE a .. a + n - 1

Lost == IF MallocFails THEN BOOLEAN ELSE {FALSE}

-----------------------------------------------------------------------------
(* The definitions whose name ends in what is wrong with them are slips an
   edit of the code could make, or has made; the properties tell them from the
   code. *)

\* One thread is enough, or there is no memory for more.
Alone(lost) ==
  /\ pc = "begin"
  /\ out' = Checksum(0, count, lost)
  /\ pc' = "returned"
  /\ UNCHANGED <<i, running, part, cfgVars, sliceVars>>

Split ==
  /\ pc = "begin"
  /\ threads >= 2 /\ count >= threads
  /\ pc' = "start"
  /\ UNCHANGED <<i, running, part, out, cfgVars, sliceVars>>

\* One slice too many gets one of the messages that are left over.
ShareOf_OffByOne(k) == count \div threads + (IF k <= count % threads THEN 1 ELSE 0)

\* The messages of slice k.
ShareOf(k) == count \div threads + (IF k < count % threads THEN 1 ELSE 0)

\* The first loop: slice i, and a thread for it.  The slice of the calling
\* thread needs none, and pthread_create may fail for any other.
PlanSlice(created) ==
  /\ pc = "start" /\ (i = 0 => ~created)
  /\ first' = [first EXCEPT ![i] = off]
  /\ size' = [size EXCEPT ![i] = ShareOf(i)]
  /\ off' = off + ShareOf(i)
  /\ started' = IF created THEN started \cup {i} ELSE started
  /\ running' = IF created THEN running \cup {i} ELSE running
  /\ i' = i + 1
  /\ pc' = IF i + 1 = threads THEN "own" ELSE "start"
  /\ UNCHANGED <<part, out, cfgVars>>

\* A thread hashes its slice and ends.
RefSliceMain(w, lost) ==
  /\ w \in running
  /\ part' = [part EXCEPT ![w] = Checksum(first[w], size[w], lost)]
  /\ running' = running \ {w}
  /\ UNCHANGED <<pc, i, out, cfgVars, sliceVars>>

\* The calling thread takes slice 0.
OwnSlice(lost) ==
  /\ pc = "own"
  /\ part' = [part EXCEPT ![0] = Checksum(first[0], size[0], lost)]
  /\ i' = 0
  /\ pc' = "join"
  /\ UNCHANGED <<running, out, cfgVars, sliceVars>>

\* A thread that is not ready is not waited for.
Awaited_Impatient(k) == TRUE

\* A slice is ready once there is something in it.
Awaited_ByResult(k) == k > 0 => part[k] # {}

\* pthread_join has returned.  It can refuse a thread it is given, but a thread
\* of this function is joinable and joined once, so that no refusal can come
\* while it still runs.
Awaited(k) == k \in started => k \notin running

\* Any thread below the last that was started is taken for started.
Missing_HighWater(k) == \A s \in started : s < k

\* No thread has hashed slice k.
Missing(k) == k \notin started

\* The second loop: slice i is there, or is hashed here, and is folded in.
Fold(joinFails, lost) ==
  /\ pc = "join" /\ Awaited(i)
  /\ LET again == i > 0 /\ (Missing(i) \/ joinFails)
     IN  part' = IF again THEN [part EXCEPT ![i] = Checksum(first[i], size[i], lost)]
                          ELSE part
  /\ out' = Xor(out, part'[i])
  /\ i' = i + 1
  /\ pc' = IF i + 1 = threads THEN "returned" ELSE "join"
  /\ UNCHANGED <<running, cfgVars, sliceVars>>

-----------------------------------------------------------------------------

Init ==
  /\ pc = "begin"
  /\ count \in Counts /\ threads \in ThreadCounts
  /\ i = 0 /\ off = 0
  /\ first = [k \in Slice |-> 0] /\ size = [k \in Slice |-> 0]
  /\ started = {} /\ running = {}
  /\ part = [k \in Slice |-> {}] /\ out = {}

Caller ==
  \/ \E lost \in Lost : Alone(lost) \/ OwnSlice(lost)
  \/ Split
  \/ \E created \in BOOLEAN : PlanSlice(created)
  \/ \E joinFails \in BOOLEAN, lost \in Lost : Fold(joinFails, lost)

Thread(w) == \E lost \in Lost : RefSliceMain(w, lost)

Next == Caller \/ \E w \in Slice : Thread(w)

Spec == Init /\ [][Next]_vars

FairSpec == Spec /\ WF_vars(Caller) /\ WF_vars(\E w \in Slice : Thread(w))

-----------------------------------------------------------------------------

(* Types and ranges: slices never run past the range, and only the slices that
   were given a thread have one. *)
TypeOK ==
  /\ pc \in {"begin", "start", "own", "join", "returned"}
  /\ count \in Counts /\ threads \in ThreadCounts
  /\ i \in 0 .. threads /\ off \in 0 .. count
  /\ first \in [Slice -> 0 .. count] /\ size \in [Slice -> 0 .. count]
  /\ started \subseteq Slice \ {0} /\ running \subseteq started
  /\ part \in [Slice -> SUBSET Message] /\ out \subseteq Message

(* The reference holds every message of the range exactly once, whichever
   threads, joins or slice tables were refused on the way: "a wrong oracle ...
   fails correct kernels".  This asks that no message buffer is (MallocFails). *)
ReferenceExact == pc = "returned" => out = Message

(* No thread is still writing to its slice when the slices are freed. *)
NoThreadOutlives == pc = "returned" => running = {}

(* The call returns: no slice is waited for that nobody hashes. *)
Returns == <>(pc = "returned")

=============================================================================
