----------------------------- MODULE CapacityProbe -----------------------------
(***************************************************************************)
(* How many work-groups of a kernel a device holds at once: the probe      *)
(* VB_CAPACITY_PROBE of src/kernels/gpu/device_capacity.h, one work-item   *)
(* per work-group, and what measure_capacity of src/device/device.c makes  *)
(* of its three counters.                                                  *)
(*                                                                         *)
(* The other work-items of a group wait at a barrier and hold its place.   *)
(* A group takes its place and counts itself in in one step, and counts    *)
(* itself out and gives up its place in one: with time between, fewer      *)
(* groups would be in by the counters than there are, never more.          *)
(***************************************************************************)
EXTENDS Integers, FiniteSets

CONSTANTS Spin,    \* reads before a group leaves by itself
          Modulus, \* 2^32, the counters are vb_u32
          Stalls   \* a group may be held up between its two reads until more
                   \* groups have gone than it had seen come

ASSUME SpinAssumption    == Spin \in Nat \ {0}
ASSUME ModulusAssumption == Modulus \in Nat \ {0}
ASSUME StallsAssumption  == Stalls \in BOOLEAN

VARIABLES
  groups,   \* work-groups of the launch, 0 if none is under way
  room,     \* how many of them the device holds at once
  started,  \* count[0]
  finished, \* count[1]
  most,     \* count[2]
  where,    \* what each group is doing
  seen,     \* started_ of each group
  highest,  \* most_ of each group
  reads     \* i_ of each group

counters  == <<started, finished, most>>
probeVars == <<groups, room, counters, where, seen, highest, reads>>

Group    == 1 .. groups
Resident == {g \in Group : where[g] \notin {"waiting", "gone"}}
Larger(a, b) == IF a > b THEN a ELSE b

(* The definitions whose name ends in what is wrong with them are slips an
   edit of the code could make; the properties tell them from the code. *)

\* The host zeroes the counters and launches n groups on a device with room
\* for r.
ProbeStart(n, r) ==
  /\ groups' = n /\ room' = r
  /\ started' = 0 /\ finished' = 0 /\ most' = 0
  /\ where' = [g \in 1 .. n |-> "waiting"]
  /\ seen' = [g \in 1 .. n |-> 0]
  /\ highest' = [g \in 1 .. n |-> 0]
  /\ reads' = [g \in 1 .. n |-> 0]

\* The device has a place for the next group, which counts itself in.  Groups
\* are alike, so that they come in the order of their numbers.
Enter(g) ==
  /\ where[g] = "waiting" /\ Cardinality(Resident) < room
  /\ \A h \in 1 .. g - 1 : where[h] # "waiting"
  /\ where' = [where EXCEPT ![g] = "watching"]
  /\ started' = started + 1
  /\ UNCHANGED <<groups, room, finished, most, seen, highest, reads>>

ReadStarted(g) ==
  /\ where[g] = "watching"
  /\ seen' = [seen EXCEPT ![g] = started]
  /\ where' = [where EXCEPT ![g] = "reading"]
  /\ UNCHANGED <<groups, room, counters, highest, reads>>

\* A group leaves when it sees the whole launch in, or the first one out, or
\* has looked often enough.
ReadFinished(g) ==
  /\ where[g] = "reading"
  /\ highest' = [highest EXCEPT ![g] = Larger(@, (seen[g] - finished) % Modulus)]
  /\ reads' = [reads EXCEPT ![g] = @ + 1]
  /\ where' = [where EXCEPT ![g] =
                 IF seen[g] = groups \/ finished # 0 \/ reads'[g] = Spin
                   THEN "reporting" ELSE "watching"]
  /\ UNCHANGED <<groups, room, counters, seen>>

Report(g) ==
  /\ where[g] = "reporting"
  /\ most' = Larger(most, highest[g])
  /\ where' = [where EXCEPT ![g] = "leaving"]
  /\ UNCHANGED <<groups, room, started, finished, seen, highest, reads>>

CountOut(g) ==
  /\ where[g] = "leaving"
  /\ finished' = finished + 1
  /\ where' = [where EXCEPT ![g] = "gone"]
  /\ UNCHANGED <<groups, room, started, most, seen, highest, reads>>

Leave(g) ==
  /\ Stalls \/ \A h \in Group : where[h] = "reading" => finished < seen[h]
  /\ CountOut(g)

\* A group watches until it has seen the whole launch, however long.
ReadFinished_Patient(g) ==
  /\ where[g] = "reading"
  /\ highest' = [highest EXCEPT ![g] = Larger(@, (seen[g] - finished) % Modulus)]
  /\ where' = [where EXCEPT ![g] =
                 IF seen[g] = groups \/ finished # 0 THEN "reporting" ELSE "watching"]
  /\ UNCHANGED <<groups, room, counters, seen, reads>>

ProbeStep_Patient ==
  \E g \in Group : Enter(g) \/ ReadStarted(g) \/ ReadFinished_Patient(g)
                   \/ Report(g) \/ Leave(g)

ProbeStep ==
  \E g \in Group : Enter(g) \/ ReadStarted(g) \/ ReadFinished(g) \/ Report(g) \/ Leave(g)

ProbeOver == \A g \in Group : where[g] = "gone"

\* The answer in work-groups: every one counted in and out, or it means nothing.
Counted == IF started = groups /\ finished = groups THEN most ELSE 0

(* The counters only undercount: no group sees more groups in at once than the
   device has room for. *)
OnlyUndercounts == most <= room

=============================================================================
