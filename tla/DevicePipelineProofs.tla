-------------------------- MODULE DevicePipelineProofs --------------------------
(***************************************************************************)
(* The transfer pipeline folds every chunk of every pass exactly once and  *)
(* none that was overwritten, is full between calls, and is released only  *)
(* when it is idle: for every number of devices, chunks, passes and calls, *)
(* and every ring of at least three slots.                                 *)
(*                                                                         *)
(* For one device, Counters says how far apart its two queues and the host *)
(* can be, Events and Waits what the ring of events holds and so what an   *)
(* upload waits for, and Contents what the buffers hold because of that.   *)
(* Tally and Ahead are about the calls.                                    *)
(***************************************************************************)
EXTENDS DevicePipeline, WellFoundedInduction, TLAPS

-----------------------------------------------------------------------------
(* One device. *)

\* Where chunk s is in a ring, and in a pair of buffers.
At(s)   == s % Ring
Half(s) == s % 2

Counters(d) ==
  /\ collected[d] <= readBack[d] /\ readBack[d] <= queued[d]
  /\ readBack[d] <= ran[d] /\ ran[d] <= readBack[d] + 1
  /\ ran[d] <= up[d] /\ ran[d] <= Kernels(d)
  /\ up[d] <= Uploads(d) /\ Uploads(d) <= collected[d] + Ring
  /\ up[d] <= ran[d] + 2
  /\ uploading[d] => up[d] < Uploads(d) /\ up[d] < ran[d] + 2

\* A slot of the ring of events holds the kernel of the chunk that has it, if
\* that kernel was queued and nobody has waited for the chunk.
Events(d) ==
  \A s \in collected[d] .. collected[d] + Ring - 1 :
    kev[d][At(s)] = IF s < Kernels(d) THEN s ELSE None

\* An upload that has not ended waits for the kernel that reads its buffer, or
\* for none because that one is over.
Waits(d) ==
  \A s \in up[d] .. Uploads(d) - 1 :
    \/ s >= 2 /\ dep[d][At(s)] = s - 2
    \/ s <= collected[d] + 1 /\ dep[d][At(s)] = None

\* What was uploaded is there until its kernel has run, what that computed until
\* it is read back, and what was read back until it is collected.
Contents(d) ==
  /\ \A s \in ran[d] .. up[d] - 1 : pbuf[d][Half(s)] = s
  /\ \A s \in readBack[d] .. ran[d] - 1 : ppart[d][Half(s)] = s
  /\ \A s \in collected[d] .. readBack[d] - 1 : ring[d][At(s)] = s

Sane(d) == Counters(d) /\ Events(d) /\ Waits(d) /\ Contents(d)

\* What Sane is about.
Local(d) == <<queued[d], collected[d], partly[d], kev[d], dep[d], up[d], uploading[d],
              ran[d], readBack[d], pbuf[d], ppart[d], ring[d]>>

\* Only a failure leaves a chunk half enqueued, and nothing is released before
\* the host is done with calls.
Ending == \A d \in Device : partly[d] # 0 \/ freed[d] => host \in {"free", "gone"}

(* Calls. *)

\* The chunks of a pass that have been collected.
Folded(p) == { x \in Pass(p) : x[2] < collected[x[1]] }

Tally ==
  host = "call" =>
    /\ passes # 0
    /\ \A d \in Device : collected[d] \in base[d] .. Stop(d)
    /\ \A p \in 0 .. passes - 1 : got[p] = Folded(p)

\* A device that has collected a chunk in this call was full before it.
Ahead ==
  /\ host = "call" =>
       \A d \in Device :
         \/ collected[d] = base[d]
         \/ queued[d] - collected[d] = Ring - 1
         \/ turn = d /\ d \in Busy /\ queued[d] - collected[d] = Ring
  /\ NeverDrained

-----------------------------------------------------------------------------
(* Arithmetic. *)

(* A non-empty set of naturals has a least element. *)
LEMMA LeastExists ==
  ASSUME NEW S, S \subseteq Nat, S # {}
  PROVE  \E m \in S : \A k \in S : m <= k
<1> DEFINE R == OpToRel(<, Nat)
<1>1. IsWellFoundedOn(R, Nat)
  BY NatLessThanWellFounded
<1>2. \A j, k \in Nat : <<j, k>> \in R <=> j < k
  BY DEF OpToRel
<1> HIDE DEF R
<1>3. PICK m \in S : \A k \in S : ~(<<k, m>> \in R)
  BY <1>1, WFMin
<1>4. ASSUME NEW k \in S PROVE m <= k
  <2>1. k \in Nat /\ m \in Nat /\ ~(k < m)
    BY <1>2, <1>3
  <2> QED
    BY <2>1
<1> QED
  BY <1>4

LEMMA MinIn ==
  ASSUME NEW S, S \subseteq Nat, S # {}
  PROVE  Min(S) \in S
  BY LeastExists DEF Min

LEMMA Divide ==
  ASSUME NEW n \in Nat \ {0}, NEW t \in Nat
  PROVE  t = n * (t \div n) + (t % n) /\ t \div n \in Nat /\ t % n \in 0 .. n - 1
  OBVIOUS

(* Quotient and remainder are unique. *)
LEMMA Quotient ==
  ASSUME NEW R \in Nat \ {0}, NEW a \in Nat, NEW q \in Nat, NEW r \in 0 .. R - 1,
         a = R * q + r
  PROVE  a \div R = q /\ a % R = r
<1> DEFINE x == a \div R
           y == a % R
<1>1. a = R * x + y /\ x \in Nat /\ y \in 0 .. R - 1
  OBVIOUS
<1> HIDE DEF x, y
<1>2. R * x \in Nat /\ R * q \in Nat
  BY <1>1
<1>3. CASE x <= q - 1
  <2>1. R * x <= R * (q - 1) /\ R * (q - 1) = R * q - R
    BY <1>1, <1>3
  <2> QED
    BY <1>1, <1>2, <2>1
<1>4. CASE x >= q + 1
  <2>1. R * x >= R * (q + 1) /\ R * (q + 1) = R * q + R
    BY <1>1, <1>4
  <2> QED
    BY <1>1, <1>2, <2>1
<1>5. CASE x = q
  BY <1>1, <1>5 DEF x, y
<1> QED
  BY <1>1, <1>3, <1>4, <1>5

(* Two chunks less than a ring apart have different slots, ... *)
LEMMA OtherSlot ==
  ASSUME NEW R \in Nat \ {0}, NEW a \in Nat, NEW b \in Nat, a < b, b < a + R
  PROVE  a % R # b % R
<1> DEFINE x == a \div R
           y == b \div R
<1>1. a = R * x + (a % R) /\ b = R * y + (b % R) /\ x \in Nat /\ y \in Nat
  OBVIOUS
<1> SUFFICES ASSUME a % R = b % R PROVE FALSE
  OBVIOUS
<1>2. R * y - R * x \in 1 .. R - 1
  BY <1>1
<1> HIDE DEF x, y
<1>3. R * y - R * x = R * (y - x)
  BY <1>1
<1>4. CASE y <= x
  BY <1>1, <1>2, <1>3, <1>4
<1>5. CASE y >= x + 1
  BY <1>1, <1>2, <1>3, <1>5
<1> QED
  BY <1>1, <1>4, <1>5

(* ... and one a whole ring away has the same. *)
LEMMA SameSlot ==
  ASSUME NEW R \in Nat \ {0}, NEW a \in Nat
  PROVE  (a + R) % R = a % R /\ a % R \in 0 .. R - 1
<1> DEFINE x == a \div R
           y == a % R
<1>1. a = R * x + y /\ x \in Nat /\ y \in 0 .. R - 1
  OBVIOUS
<1> HIDE DEF x, y
<1>2. R * (x + 1) = R * x + R /\ R * x \in Nat
  BY <1>1
<1>3. a + R = R * (x + 1) + y /\ a + R \in Nat /\ x + 1 \in Nat
  BY <1>1, <1>2
<1>4. (a + R) % R = y
  BY <1>1, <1>3, Quotient
<1> QED
  BY <1>1, <1>4 DEF y

LEMMA Parity ==
  ASSUME NEW a \in Nat
  PROVE  a % 2 \in {0, 1} /\ (a + 1) % 2 # a % 2 /\ (a + 2) % 2 = a % 2
  OBVIOUS

-----------------------------------------------------------------------------
(* Types. *)

LEMMA DeviceIsNat == Device \subseteq Nat /\ 0 \in Device
  BY DevicesAssumption DEF Device

LEMMA TurnStays ==
  ASSUME NEW d \in Device, NEW busy \in SUBSET Device
  PROVE  NextTurn(d, busy) \in Device
<1> DEFINE after == {e \in busy : e > d}
<1>1. after # {} => Min(after) \in after
  BY DeviceIsNat, MinIn
<1>2. busy # {} => Min(busy) \in busy
  BY DeviceIsNat, MinIn
<1> QED
  BY <1>1, <1>2, DeviceIsNat DEF NextTurn

LEMMA SlotOf ==
  ASSUME NEW s \in Nat
  PROVE  s % Ring \in Slot /\ s % 2 \in {0, 1}
<1>1. s % Ring \in 0 .. Ring - 1
  BY RingAssumption, SameSlot
<1> QED
  BY <1>1, Parity DEF Slot

LEMMA EventIsContent ==
  ASSUME TypeOK, NEW d \in Device, NEW s \in Nat
  PROVE  KernelBefore(d, s) \in Content
<1>1. CASE s < 2
  BY <1>1 DEF KernelBefore, Content
<1>2. CASE s >= 2
  <2>1. (s - 2) % Ring \in Slot
    BY <1>2, SlotOf
  <2> QED
    BY <1>2, <2>1 DEF KernelBefore, TypeOK
<1> QED
  BY <1>1, <1>2

(* The variables the devices share with the host's accounts keep their types,
   and the host stays less than a ring ahead. *)
LEMMA TypesInit == Init => TypeOK
<1> SUFFICES ASSUME Init PROVE TypeOK
  OBVIOUS
<1>1. DOMAIN got = 0 .. passes - 1
  BY DEF Init
<1> QED
  BY <1>1, DeviceIsNat, BoundsAssumption, RingAssumption
     DEF Init, TypeOK, Content, Seq

LEMMA Numbers ==
  ASSUME TypeOK
  PROVE  /\ queued \in [Device -> Nat] /\ collected \in [Device -> Nat]
         /\ up \in [Device -> Nat] /\ ran \in [Device -> Nat] /\ readBack \in [Device -> Nat]
         /\ base \in [Device -> Nat] /\ partly \in [Device -> 0 .. 2]
         /\ \A d \in Device : collected[d] <= queued[d] /\ queued[d] <= collected[d] + Ring
<1>1. /\ queued \in [Device -> Nat] /\ collected \in [Device -> Nat]
      /\ up \in [Device -> Nat] /\ ran \in [Device -> Nat] /\ readBack \in [Device -> Nat]
      /\ base \in [Device -> Nat] /\ partly \in [Device -> 0 .. 2]
      /\ \A d \in Device : queued[d] \in collected[d] .. collected[d] + Ring
  BY DEF TypeOK, Seq
<1> QED
  BY <1>1, RingAssumption

LEMMA TypesStep == TypeOK /\ [Next]_vars => TypeOK'
<1> SUFFICES ASSUME TypeOK, [Next]_vars PROVE TypeOK'
  OBVIOUS
<1> USE RingAssumption, DeviceIsNat
<1>1. ASSUME NEW p \in 1 .. MaxPasses, Call(p) PROVE TypeOK'
  <2>1. passes' \in 0 .. MaxPasses /\ calls' \in 0 .. MaxCalls
    BY <1>1, BoundsAssumption DEF Call, TypeOK
  <2>2. DOMAIN got' = 0 .. passes' - 1
    BY <1>1 DEF Call
  <2> QED
    BY <1>1, <2>1, <2>2 DEF Call, TypeOK, hostVars, deviceVars
<1>2. ASSUME NEW d \in Device, Queue(d) PROVE TypeOK'
  <2>1. queued[d] \in Nat /\ queued[d] % Ring \in Slot
    BY SlotOf DEF TypeOK, Seq
  <2>2. KernelBefore(d, queued[d]) \in Content
    BY <2>1, EventIsContent
  <2>3. kev' \in [Device -> [Slot -> Content]] /\ dep' \in [Device -> [Slot -> Content]]
    BY <1>2, <2>1, <2>2 DEF Queue, TypeOK, Content, Seq
  <2> DEFINE q == queued[d] + 1
  <2>a. queued' = [queued EXCEPT ![d] = q] /\ collected' = collected
        /\ queued[d] < collected[d] + Ring
    BY <1>2 DEF Queue, HasRoom
  <2>b. q \in Nat /\ q <= collected[d] + Ring /\ collected[d] <= q
    BY <2>a, Numbers
  <2> HIDE DEF q
  <2>4. queued' \in [Device -> Seq]
    BY <2>a, <2>b, Numbers DEF Seq
  <2>5. ASSUME NEW e \in Device PROVE queued'[e] \in collected'[e] .. collected'[e] + Ring
    BY <2>a, <2>b, Numbers
  <2> QED
    BY <1>2, <2>3, <2>4, <2>5 DEF Queue, TypeOK, callVars, deviceVars
<1>3. ASSUME NEW d \in Device, NEW sent \in 0 .. 2, QueueFails(d, sent) PROVE TypeOK'
  <2>1. queued[d] \in Nat /\ queued[d] % Ring \in Slot
    BY SlotOf DEF TypeOK, Seq
  <2>2. KernelBefore(d, queued[d]) \in Content
    BY <2>1, EventIsContent
  <2>3. kev' \in [Device -> [Slot -> Content]] /\ dep' \in [Device -> [Slot -> Content]]
    BY <1>3, <2>1, <2>2 DEF QueueFails, TypeOK, Content, Seq
  <2> QED
    BY <1>3, <2>3 DEF QueueFails, TypeOK, callVars, deviceVars
<1>4. ASSUME NEW d \in Device, Retired(d), queued' = queued, collected[d] < queued[d]
      PROVE  /\ kev' \in [Device -> [Slot -> Content]]
             /\ collected' \in [Device -> Seq]
             /\ \A e \in Device : queued'[e] \in collected'[e] .. collected'[e] + Ring
  <2>1. collected[d] \in Nat /\ collected[d] % Ring \in Slot
    BY SlotOf DEF TypeOK, Seq
  <2>2. kev' \in [Device -> [Slot -> Content]]
    BY <1>4, <2>1 DEF Retired, TypeOK, Content
  <2> DEFINE c == collected[d] + 1
  <2>a. collected' = [collected EXCEPT ![d] = c]
    BY <1>4 DEF Retired
  <2>b. c \in Nat /\ c <= queued[d] /\ queued[d] <= c + Ring
    BY <1>4, Numbers
  <2> HIDE DEF c
  <2>3. collected' \in [Device -> Seq]
    BY <2>a, <2>b, Numbers DEF Seq
  <2>4. ASSUME NEW e \in Device PROVE queued'[e] \in collected'[e] .. collected'[e] + Ring
    BY <1>4, <2>a, <2>b, Numbers
  <2> QED
    BY <2>2, <2>3, <2>4
<1>5. ASSUME NEW d \in Device, Collect(d) PROVE TypeOK'
  <2>a. ~(queued[d] < collected[d] + Ring) /\ queued' = queued
    BY <1>5 DEF Collect, HasRoom
  <2>b. queued[d] \in Nat /\ collected[d] \in Nat
    BY Numbers
  <2>1. collected[d] < queued[d] /\ queued' = queued
    BY <2>a, <2>b
  <2>2. turn' \in Device
    BY <1>5, TurnStays DEF Collect
  <2>3. DOMAIN got' = DOMAIN got
    BY <1>5 DEF Collect
  <2> QED
    BY <1>4, <1>5, <2>1, <2>2, <2>3 DEF Collect, TypeOK, callVars, deviceVars
<1>6. ASSUME NEW d \in Device, Drain(d) PROVE TypeOK'
  BY <1>4, <1>6 DEF Drain, TypeOK, callVars, deviceVars
<1>7. CASE NoMemory \/ WrongPass \/ End \/ Return \/ UNCHANGED vars
  BY <1>7 DEF NoMemory, WrongPass, End, Return, TypeOK, vars, callVars, hostVars, deviceVars
<1>8. ASSUME NEW d \in Device, WaitFails(d) \/ EndNext(d) PROVE TypeOK'
  BY <1>8 DEF WaitFails, EndNext, TypeOK, callVars, hostVars, deviceVars
<1>9. ASSUME NEW d \in Device, Drained(d) \/ DrainFails(d) PROVE TypeOK'
  BY <1>9 DEF Drained, DrainFails, TypeOK, callVars, deviceVars
<1>10. ASSUME NEW d \in Device, Free(d) PROVE TypeOK'
  BY <1>10 DEF Free, TypeOK, callVars, deviceVars
<1>11. ASSUME NEW d \in Device, StartUpload(d) PROVE TypeOK'
  <2>1. up[d] % 2 \in {0, 1}
    BY SlotOf DEF TypeOK, Seq
  <2>2. pbuf' \in [Device -> [{0, 1} -> Content]]
    BY <1>11, <2>1 DEF StartUpload, TypeOK, Content
  <2> QED
    BY <1>11, <2>2 DEF StartUpload, TypeOK, callVars, hostVars
<1>12. ASSUME NEW d \in Device, EndUpload(d) PROVE TypeOK'
  <2>1. up[d] \in Nat /\ up[d] % 2 \in {0, 1}
    BY SlotOf DEF TypeOK, Seq
  <2>2. pbuf' \in [Device -> [{0, 1} -> Content]]
    BY <1>12, <2>1 DEF EndUpload, TypeOK, Content, Seq
  <2>3. up[d] + 1 \in Seq
    BY <2>1 DEF Seq
  <2>4. up' \in [Device -> Seq]
    BY <1>12, <2>3 DEF EndUpload, TypeOK
  <2> QED
    BY <1>12, <2>2, <2>4 DEF EndUpload, TypeOK, callVars, hostVars
<1>13. ASSUME NEW d \in Device, Kernel(d) PROVE TypeOK'
  <2>1. ran[d] \in Nat /\ ran[d] % 2 \in {0, 1}
    BY SlotOf DEF TypeOK, Seq
  <2>2. ppart' \in [Device -> [{0, 1} -> Content]]
    BY <1>13, <2>1 DEF Kernel, TypeOK, Content, Seq
  <2>3. ran[d] + 1 \in Seq
    BY <2>1 DEF Seq
  <2>4. ran' \in [Device -> Seq]
    BY <1>13, <2>3 DEF Kernel, TypeOK
  <2> QED
    BY <1>13, <2>2, <2>4 DEF Kernel, TypeOK, callVars, hostVars
<1>14. ASSUME NEW d \in Device, ReadBack(d) PROVE TypeOK'
  <2>1. readBack[d] \in Nat /\ readBack[d] % 2 \in {0, 1} /\ readBack[d] % Ring \in Slot
    BY SlotOf DEF TypeOK, Seq
  <2>2. ring' \in [Device -> [Slot -> Content]]
    BY <1>14, <2>1 DEF ReadBack, TypeOK
  <2>3. readBack[d] + 1 \in Seq
    BY <2>1 DEF Seq
  <2>4. readBack' \in [Device -> Seq]
    BY <1>14, <2>3 DEF ReadBack, TypeOK
  <2> QED
    BY <1>14, <2>2, <2>4 DEF ReadBack, TypeOK, callVars, hostVars
<1> QED
  BY <1>1, <1>2, <1>3, <1>5, <1>6, <1>7, <1>8, <1>9, <1>10, <1>11, <1>12, <1>13, <1>14
     DEF Next, HostStep, Failure, DeviceStep

(* What the counters and buffers are, and that the host is never more than a
   ring of chunks ahead of what it has collected: the distance the comment on
   pipe_queued and pipe_collected promises. *)
THEOREM PipelineTypeOK == Spec => []TypeOK
  BY TypesInit, TypesStep, PTL DEF Spec

-----------------------------------------------------------------------------
(* One device: what it holds is there as long as somebody needs it. *)

LEMMA Rooms ==
  ASSUME NEW s \in Nat
  PROVE  /\ At(s) \in Slot /\ At(s + Ring) = At(s)
         /\ Half(s) \in {0, 1} /\ Half(s + 1) # Half(s)
<1>1. Ring \in Nat \ {0}
  BY RingAssumption
<1>2. (s + Ring) % Ring = s % Ring /\ s % Ring \in 0 .. Ring - 1
  BY <1>1, SameSlot
<1> QED
  BY <1>2, Parity DEF At, Half, Slot

LEMMA RoomsApart ==
  ASSUME NEW a \in Nat, NEW b \in Nat, a # b, a < b + Ring, b < a + Ring
  PROVE  At(a) # At(b)
<1> Ring \in Nat \ {0}
  BY RingAssumption
<1>1. CASE a < b
  BY <1>1, OtherSlot DEF At
<1>2. CASE b < a
  BY <1>2, OtherSlot DEF At
<1> QED
  BY <1>1, <1>2

LEMMA CommandCounts ==
  ASSUME TypeOK, NEW d \in Device
  PROVE  /\ Uploads(d) \in Nat /\ Kernels(d) \in Nat
         /\ queued[d] <= Kernels(d) /\ Kernels(d) <= Uploads(d)
  BY Numbers DEF Uploads, Kernels

\* Whatever leaves a device alone leaves it sane.
LEMMA Untouched ==
  ASSUME NEW d \in Device, Sane(d), Local(d)' = Local(d)
  PROVE  Sane(d)'
<1>1. /\ queued'[d] = queued[d] /\ collected'[d] = collected[d] /\ partly'[d] = partly[d]
      /\ kev'[d] = kev[d] /\ dep'[d] = dep[d] /\ up'[d] = up[d]
      /\ uploading'[d] = uploading[d] /\ ran'[d] = ran[d] /\ readBack'[d] = readBack[d]
      /\ pbuf'[d] = pbuf[d] /\ ppart'[d] = ppart[d] /\ ring'[d] = ring[d]
  BY DEF Local
<1>2. Uploads(d)' = Uploads(d) /\ Kernels(d)' = Kernels(d)
  BY <1>1 DEF Uploads, Kernels
<1>3. Counters(d)'
  BY <1>1, <1>2 DEF Sane, Counters
<1>4. Events(d)' /\ Waits(d)'
  BY <1>1, <1>2 DEF Sane, Events, Waits
<1>5. Contents(d)'
  BY <1>1 DEF Sane, Contents
<1> QED
  BY <1>3, <1>4, <1>5 DEF Sane

(* Enqueueing a chunk, or as much of it as goes out: the event of the kernel two
   chunks before is still in the ring, or that kernel is over. *)
LEMMA EnqueueKeeps ==
  ASSUME TypeOK, NEW d \in Device, Sane(d), partly[d] = 0, HasRoom(d),
         NEW u, u = Uploads(d)', NEW k, k = Kernels(d)',
         u \in {queued[d], queued[d] + 1}, k \in {queued[d], u},
         queued'[d] \in {queued[d], k},
         dep'[d] = IF u = queued[d] THEN dep[d]
                   ELSE [dep[d] EXCEPT ![At(queued[d])] = KernelBefore(d, queued[d])],
         kev'[d] = IF k = queued[d] THEN kev[d]
                   ELSE [kev[d] EXCEPT ![At(queued[d])] = queued[d]],
         UNCHANGED <<collected, deviceVars>>
  PROVE  Sane(d)'
<1> DEFINE q == queued[d]
           c == collected[d]
<1>1. /\ q \in Nat /\ c \in Nat /\ c <= q /\ q < c + Ring /\ At(q) \in Slot
      /\ up[d] \in Nat /\ ran[d] \in Nat /\ readBack[d] \in Nat
      /\ Ring \in Nat /\ Ring >= 3
  BY Numbers, Rooms, RingAssumption DEF HasRoom
<1>2. Uploads(d) = q /\ Kernels(d) = q
  BY <1>1 DEF Uploads, Kernels
<1>3. /\ collected' = collected /\ up' = up /\ uploading' = uploading /\ ran' = ran
      /\ readBack' = readBack /\ pbuf' = pbuf /\ ppart' = ppart /\ ring' = ring
  BY DEF deviceVars
<1>4. kev[d] \in [Slot -> Content] /\ dep[d] \in [Slot -> Content]
  BY DEF TypeOK
<1>5. Counters(d)'
  BY <1>1, <1>2, <1>3 DEF Sane, Counters
<1>6. Events(d)'
  <2> SUFFICES ASSUME NEW s \in c .. c + Ring - 1
               PROVE  kev'[d][At(s)] = IF s < k THEN s ELSE None
    BY <1>3 DEF Events
  <2>1. s \in Nat /\ kev[d][At(s)] = IF s < q THEN s ELSE None
    BY <1>1, <1>2 DEF Sane, Events
  <2>2. s # q => At(s) # At(q)
    BY <1>1, <2>1, RoomsApart
  <2> QED
    BY <1>1, <1>4, <2>1, <2>2
<1>7. Waits(d)'
  <2> SUFFICES ASSUME NEW s \in up[d] .. u - 1
               PROVE  \/ s >= 2 /\ dep'[d][At(s)] = s - 2
                      \/ s <= c + 1 /\ dep'[d][At(s)] = None
    BY <1>3 DEF Waits
  <2>1. s \in Nat /\ c <= s
    BY <1>1 DEF Sane, Counters
  <2>2. CASE s # q
    <3>1. At(s) # At(q) /\ s \in up[d] .. q - 1
      BY <1>1, <2>1, <2>2, RoomsApart
    <3>2. dep'[d][At(s)] = dep[d][At(s)]
      BY <1>4, <3>1
    <3> QED
      BY <1>2, <3>1, <3>2 DEF Sane, Waits
  <2>3. CASE s = q
    <3>1. dep'[d][At(q)] = KernelBefore(d, q)
      BY <1>1, <1>4, <2>3
    <3>2. CASE q < 2
      BY <1>1, <2>3, <3>1, <3>2 DEF KernelBefore
    <3>3. CASE q - 2 >= c
      <4>1. q - 2 \in c .. c + Ring - 1 /\ q - 2 < q
        BY <1>1, <3>3
      <4>2. kev[d][At(q - 2)] = q - 2
        BY <1>2, <4>1 DEF Sane, Events
      <4> QED
        BY <1>1, <2>3, <3>1, <3>3, <4>2 DEF KernelBefore, At
    <3>4. CASE q >= 2 /\ q - 2 < c
      <4>1. q - 2 + Ring \in c .. c + Ring - 1 /\ ~(q - 2 + Ring < q) /\ q - 2 \in Nat
        BY <1>1, <3>4
      <4>2. kev[d][At(q - 2 + Ring)] = None /\ At(q - 2 + Ring) = At(q - 2)
        BY <1>2, <4>1, Rooms DEF Sane, Events
      <4> QED
        BY <1>1, <2>3, <3>1, <3>4, <4>2 DEF KernelBefore, At
    <3> QED
      BY <1>1, <3>2, <3>3, <3>4
  <2> QED
    BY <2>2, <2>3
<1>8. Contents(d)'
  BY <1>3 DEF Sane, Contents
<1> QED
  BY <1>5, <1>6, <1>7, <1>8 DEF Sane

(* Collecting or draining a chunk empties its slot of the ring of events for the
   chunk that has the slot next. *)
LEMMA RetireKeeps ==
  ASSUME TypeOK, NEW d \in Device, Sane(d), Retired(d), readBack[d] > collected[d],
         UNCHANGED <<queued, partly, dep, deviceVars>>
  PROVE  Sane(d)'
<1> DEFINE c == collected[d]
<1>1. /\ c \in Nat /\ Ring \in Nat /\ Ring >= 3 /\ At(c) \in Slot
      /\ up[d] \in Nat /\ ran[d] \in Nat /\ readBack[d] \in Nat
      /\ Uploads(d) \in Nat /\ Kernels(d) \in Nat /\ Kernels(d) <= Uploads(d)
  BY Numbers, Rooms, CommandCounts, RingAssumption
<1>2. /\ queued' = queued /\ partly' = partly /\ dep' = dep /\ up' = up
      /\ uploading' = uploading /\ ran' = ran /\ readBack' = readBack
      /\ pbuf' = pbuf /\ ppart' = ppart /\ ring' = ring
  BY DEF deviceVars
<1>3. collected'[d] = c + 1
  BY Numbers DEF Retired
<1>4. /\ kev[d] \in [Slot -> Content]
      /\ kev'[d] = [kev[d] EXCEPT ![At(c)] = None]
  BY DEF Retired, At, TypeOK
<1>5. Uploads(d)' = Uploads(d) /\ Kernels(d)' = Kernels(d)
  BY <1>2 DEF Uploads, Kernels
<1>6. Counters(d)'
  BY <1>1, <1>2, <1>3, <1>5, Numbers DEF Sane, Counters
<1>7. Events(d)'
  <2> SUFFICES ASSUME NEW s \in c + 1 .. c + Ring
               PROVE  kev'[d][At(s)] = IF s < Kernels(d) THEN s ELSE None
    BY <1>1, <1>3, <1>5 DEF Events
  <2>1. CASE s = c + Ring
    <3>1. At(s) = At(c) /\ ~(s < Kernels(d))
      BY <1>1, <2>1, Rooms DEF Sane, Counters
    <3> QED
      BY <1>1, <1>4, <3>1
  <2>2. CASE s # c + Ring
    <3>1. s \in c .. c + Ring - 1 /\ At(s) # At(c)
      BY <1>1, <2>2, RoomsApart
    <3>2. kev'[d][At(s)] = kev[d][At(s)]
      BY <1>4, <3>1
    <3> QED
      BY <3>1, <3>2 DEF Sane, Events
  <2> QED
    BY <2>1, <2>2
<1>8. Waits(d)'
  BY <1>1, <1>2, <1>3, <1>5 DEF Sane, Waits
<1>9. Contents(d)'
  BY <1>1, <1>2, <1>3 DEF Sane, Contents
<1> QED
  BY <1>6, <1>7, <1>8, <1>9 DEF Sane

(* An upload starts only when the kernel that read its buffer is over. *)
LEMMA StartUploadKeeps ==
  ASSUME TypeOK, NEW d \in Device, Sane(d), StartUpload(d)
  PROVE  Sane(d)'
<1> DEFINE n == up[d]
<1>1. /\ n \in Nat /\ collected[d] \in Nat /\ Ring \in Nat /\ Ring >= 3 /\ Half(n) \in {0, 1}
      /\ ran[d] \in Nat /\ readBack[d] \in Nat
      /\ Uploads(d) \in Nat /\ Kernels(d) \in Nat
  BY Numbers, Rooms, CommandCounts, RingAssumption
<1>2. /\ queued' = queued /\ partly' = partly /\ dep' = dep /\ up' = up
      /\ kev' = kev /\ collected' = collected /\ ran' = ran /\ readBack' = readBack
      /\ ppart' = ppart /\ ring' = ring
  BY DEF StartUpload, hostVars
<1>3. n < Uploads(d) /\ dep[d][At(n)] < ran[d]
  BY DEF StartUpload, At
<1>4. pbuf[d] \in [{0, 1} -> Content] /\ pbuf'[d] = [pbuf[d] EXCEPT ![Half(n)] = Torn]
  BY DEF StartUpload, Half, TypeOK
<1>5. Uploads(d)' = Uploads(d) /\ Kernels(d)' = Kernels(d)
  BY <1>2 DEF Uploads, Kernels
<1>6. n < ran[d] + 2
  <2>1. \/ n >= 2 /\ dep[d][At(n)] = n - 2
        \/ n <= collected[d] + 1
    BY <1>1, <1>3 DEF Sane, Waits
  <2> QED
    BY <1>1, <1>3, <2>1 DEF Sane, Counters
<1>7. Counters(d)'
  BY <1>1, <1>2, <1>3, <1>5, <1>6 DEF Sane, Counters
<1>8. Events(d)' /\ Waits(d)'
  BY <1>2, <1>5 DEF Sane, Events, Waits
<1>9. ASSUME NEW s \in ran[d] .. n - 1 PROVE pbuf'[d][Half(s)] = s
  <2>1. s + 1 = n /\ s \in Nat
    BY <1>1, <1>6
  <2>2. Half(s) # Half(n) /\ Half(s) \in {0, 1}
    BY <2>1, Rooms
  <2>3. pbuf[d][Half(s)] = s
    BY DEF Sane, Contents
  <2> QED
    BY <1>4, <2>2, <2>3
<1>10. Contents(d)'
  BY <1>2, <1>9 DEF Sane, Contents
<1> QED
  BY <1>7, <1>8, <1>10 DEF Sane

LEMMA EndUploadKeeps ==
  ASSUME TypeOK, NEW d \in Device, Sane(d), EndUpload(d)
  PROVE  Sane(d)'
<1> DEFINE n == up[d]
<1>1. /\ n \in Nat /\ collected[d] \in Nat /\ Ring \in Nat /\ Ring >= 3 /\ Half(n) \in {0, 1}
      /\ ran[d] \in Nat /\ readBack[d] \in Nat
      /\ Uploads(d) \in Nat /\ Kernels(d) \in Nat
  BY Numbers, Rooms, CommandCounts, RingAssumption
<1>2. /\ queued' = queued /\ partly' = partly /\ dep' = dep
      /\ kev' = kev /\ collected' = collected /\ ran' = ran /\ readBack' = readBack
      /\ ppart' = ppart /\ ring' = ring
  BY DEF EndUpload, hostVars
<1>3. up'[d] = n + 1 /\ uploading[d] /\ ~uploading'[d]
  BY DEF EndUpload, TypeOK
<1>4. pbuf[d] \in [{0, 1} -> Content] /\ pbuf'[d] = [pbuf[d] EXCEPT ![Half(n)] = n]
  BY DEF EndUpload, Half, TypeOK
<1>5. Uploads(d)' = Uploads(d) /\ Kernels(d)' = Kernels(d)
  BY <1>2 DEF Uploads, Kernels
<1>6. n < Uploads(d) /\ n < ran[d] + 2 /\ ran[d] <= n
  BY <1>3 DEF Sane, Counters
<1>7. Counters(d)'
  BY <1>1, <1>2, <1>3, <1>5, <1>6 DEF Sane, Counters
<1>8. Events(d)' /\ Waits(d)'
  BY <1>1, <1>2, <1>3, <1>5 DEF Sane, Events, Waits
<1>9. ASSUME NEW s \in ran[d] .. n PROVE pbuf'[d][Half(s)] = s
  <2>1. CASE s = n
    BY <1>1, <1>4, <2>1
  <2>2. CASE s # n
    <3>1. s + 1 = n /\ s \in Nat /\ s \in ran[d] .. n - 1
      BY <1>1, <1>6, <2>2
    <3>2. Half(s) # Half(n) /\ Half(s) \in {0, 1}
      BY <3>1, Rooms
    <3>3. pbuf[d][Half(s)] = s
      BY <3>1 DEF Sane, Contents
    <3> QED
      BY <1>4, <3>2, <3>3
  <2> QED
    BY <2>1, <2>2
<1>10. Contents(d)'
  BY <1>1, <1>2, <1>3, <1>9 DEF Sane, Contents
<1> QED
  BY <1>7, <1>8, <1>10 DEF Sane

(* A kernel reads the chunk it was queued for. *)
LEMMA KernelKeeps ==
  ASSUME TypeOK, NEW d \in Device, Sane(d), Kernel(d)
  PROVE  Sane(d)'
<1> DEFINE n == ran[d]
<1>1. /\ n \in Nat /\ collected[d] \in Nat /\ Ring \in Nat /\ Ring >= 3 /\ Half(n) \in {0, 1}
      /\ up[d] \in Nat /\ readBack[d] \in Nat /\ queued[d] \in Nat
      /\ Uploads(d) \in Nat /\ Kernels(d) \in Nat
  BY Numbers, Rooms, CommandCounts, RingAssumption
<1>2. /\ queued' = queued /\ partly' = partly /\ dep' = dep /\ uploading' = uploading
      /\ kev' = kev /\ collected' = collected /\ up' = up /\ readBack' = readBack
      /\ pbuf' = pbuf /\ ring' = ring
  BY DEF Kernel, hostVars
<1>3. ran'[d] = n + 1 /\ n < Kernels(d) /\ n < up[d] /\ readBack[d] = n
  BY Numbers DEF Kernel
<1>4. pbuf[d][Half(n)] = n
  BY <1>1, <1>3 DEF Sane, Contents
<1>5. ppart[d] \in [{0, 1} -> Content] /\ ppart'[d] = [ppart[d] EXCEPT ![Half(n)] = n]
  BY <1>4 DEF Kernel, Half, TypeOK
<1>6. Uploads(d)' = Uploads(d) /\ Kernels(d)' = Kernels(d)
  BY <1>2 DEF Uploads, Kernels
<1>7. Counters(d)'
  BY <1>1, <1>2, <1>3, <1>6 DEF Sane, Counters
<1>8. Events(d)' /\ Waits(d)'
  BY <1>2, <1>6 DEF Sane, Events, Waits
<1>9. Contents(d)'
  BY <1>1, <1>2, <1>3, <1>5 DEF Sane, Contents
<1> QED
  BY <1>7, <1>8, <1>9 DEF Sane

LEMMA ReadBackKeeps ==
  ASSUME TypeOK, NEW d \in Device, Sane(d), ReadBack(d)
  PROVE  Sane(d)'
<1> DEFINE n == readBack[d]
<1>1. /\ n \in Nat /\ collected[d] \in Nat /\ Ring \in Nat /\ Ring >= 3 /\ At(n) \in Slot
      /\ up[d] \in Nat /\ ran[d] \in Nat /\ queued[d] \in Nat
      /\ Uploads(d) \in Nat /\ Kernels(d) \in Nat
  BY Numbers, Rooms, CommandCounts, RingAssumption
<1>2. /\ queued' = queued /\ partly' = partly /\ dep' = dep /\ uploading' = uploading
      /\ kev' = kev /\ collected' = collected /\ up' = up /\ ran' = ran
      /\ pbuf' = pbuf /\ ppart' = ppart
  BY DEF ReadBack, hostVars
<1>3. readBack'[d] = n + 1 /\ n < queued[d] /\ n < ran[d]
  BY Numbers DEF ReadBack
<1>4. ppart[d][Half(n)] = n
  BY <1>1, <1>3 DEF Sane, Contents
<1>5. ring[d] \in [Slot -> Content] /\ ring'[d] = [ring[d] EXCEPT ![At(n)] = n]
  BY <1>4 DEF ReadBack, Half, At, TypeOK
<1>6. Uploads(d)' = Uploads(d) /\ Kernels(d)' = Kernels(d)
  BY <1>2 DEF Uploads, Kernels
<1>7. Counters(d)'
  BY <1>1, <1>2, <1>3, <1>6 DEF Sane, Counters
<1>8. Events(d)' /\ Waits(d)'
  BY <1>2, <1>6 DEF Sane, Events, Waits
<1>9. ASSUME NEW s \in collected[d] .. n PROVE ring'[d][At(s)] = s
  <2>1. CASE s = n
    BY <1>1, <1>5, <2>1
  <2>2. CASE s # n
    <3>1. queued[d] <= collected[d] + Ring
      BY Numbers
    <3>2. s \in Nat /\ s \in collected[d] .. n - 1 /\ n < s + Ring
      BY <1>1, <1>3, <2>2, <3>1
    <3>3. At(s) # At(n) /\ ring[d][At(s)] = s
      BY <1>1, <3>2, RoomsApart DEF Sane, Contents
    <3>4. At(s) \in Slot
      BY <3>2, Rooms
    <3> QED
      BY <1>5, <3>3, <3>4
  <2> QED
    BY <2>1, <2>2
<1>10. Contents(d)'
  BY <1>1, <1>2, <1>3, <1>9 DEF Sane, Contents
<1> QED
  BY <1>7, <1>8, <1>10 DEF Sane

\* Before the first call nothing was queued.
LEMMA SaneInit == Init => \A d \in Device : Sane(d)
<1> SUFFICES ASSUME Init, NEW d \in Device PROVE Sane(d)
  OBVIOUS
<1>1. /\ queued[d] = 0 /\ collected[d] = 0 /\ partly[d] = 0 /\ up[d] = 0 /\ ~uploading[d]
      /\ ran[d] = 0 /\ readBack[d] = 0 /\ kev[d] = [i \in Slot |-> None]
  BY DEF Init
<1>2. Uploads(d) = 0 /\ Kernels(d) = 0
  BY <1>1 DEF Uploads, Kernels
<1>3. Counters(d)
  BY <1>1, <1>2, RingAssumption DEF Counters
<1>4. Events(d)
  <2> SUFFICES ASSUME NEW s \in 0 .. Ring - 1 PROVE kev[d][At(s)] = None /\ ~(s < 0)
    BY <1>1, <1>2, RingAssumption DEF Events
  <2>1. At(s) \in Slot
    BY Rooms, RingAssumption
  <2> QED
    BY <1>1, <2>1, RingAssumption
<1>5. Waits(d)
  BY <1>1, <1>2 DEF Waits
<1>6. Contents(d)
  BY <1>1 DEF Contents
<1> QED
  BY <1>3, <1>4, <1>5, <1>6 DEF Sane

LEMMA SaneStep ==
  TypeOK /\ Ending /\ (\A d \in Device : Sane(d)) /\ [Next]_vars
    => \A d \in Device : Sane(d)'
<1> SUFFICES ASSUME TypeOK, Ending, \A d \in Device : Sane(d), [Next]_vars,
                    NEW e \in Device
             PROVE  Sane(e)'
  OBVIOUS
<1>1. CASE UNCHANGED <<hostVars, deviceVars>>
  BY <1>1, Untouched DEF hostVars, deviceVars, Local
<1>2. ASSUME NEW d \in Device, Queue(d) PROVE Sane(e)'
  <2>1. CASE e # d
    <3>1. Local(e)' = Local(e)
      BY <1>2, <2>1 DEF Queue, Local, TypeOK, deviceVars
    <3> QED
      BY <3>1, Untouched
  <2>2. CASE e = d
    <3>1. partly[d] = 0 /\ partly' = partly
      BY <1>2 DEF Queue, Filling, Ending, TypeOK
    <3>2. queued[d] \in Nat /\ queued'[d] = queued[d] + 1
      BY <1>2, Numbers DEF Queue
    <3>3. Uploads(d)' = queued[d] + 1 /\ Kernels(d)' = queued[d] + 1
      BY <3>1, <3>2 DEF Uploads, Kernels
    <3>4. /\ dep'[d] = [dep[d] EXCEPT ![At(queued[d])] = KernelBefore(d, queued[d])]
          /\ kev'[d] = [kev[d] EXCEPT ![At(queued[d])] = queued[d]]
      BY <1>2 DEF Queue, TypeOK, At
    <3>5. HasRoom(d) /\ UNCHANGED <<collected, deviceVars>>
      BY <1>2 DEF Queue
    <3> QED
      BY <2>2, <3>1, <3>2, <3>3, <3>4, <3>5, EnqueueKeeps
  <2> QED
    BY <2>1, <2>2
<1>3. ASSUME NEW d \in Device, NEW sent \in 0 .. 2, QueueFails(d, sent) PROVE Sane(e)'
  <2>1. CASE e # d
    <3>1. Local(e)' = Local(e)
      BY <1>3, <2>1 DEF QueueFails, Local, TypeOK, deviceVars
    <3> QED
      BY <3>1, Untouched
  <2>2. CASE e = d
    <3>1. partly[d] = 0 /\ partly'[d] = sent
      BY <1>3 DEF QueueFails, Filling, Ending, TypeOK
    <3>2. queued[d] \in Nat /\ queued'[d] = queued[d]
      BY <1>3, Numbers DEF QueueFails
    <3>3. /\ Uploads(d)' = IF sent >= 1 THEN queued[d] + 1 ELSE queued[d]
          /\ Kernels(d)' = IF sent >= 2 THEN queued[d] + 1 ELSE queued[d]
      BY <3>1, <3>2 DEF Uploads, Kernels
    <3>4. /\ dep'[d] = IF sent = 0 THEN dep[d]
                       ELSE [dep[d] EXCEPT ![At(queued[d])] = KernelBefore(d, queued[d])]
          /\ kev'[d] = IF sent < 2 THEN kev[d]
                       ELSE [kev[d] EXCEPT ![At(queued[d])] = queued[d]]
      BY <1>3 DEF QueueFails, TypeOK, At
    <3>5. HasRoom(d) /\ UNCHANGED <<collected, deviceVars>>
      BY <1>3 DEF QueueFails
    <3>6. /\ Uploads(d)' \in {queued[d], queued[d] + 1}
          /\ Kernels(d)' \in {queued[d], Uploads(d)'}
          /\ sent = 0 <=> Uploads(d)' = queued[d]
          /\ sent < 2 <=> Kernels(d)' = queued[d]
      BY <3>2, <3>3
    <3> QED
      BY <2>2, <3>1, <3>2, <3>4, <3>5, <3>6, EnqueueKeeps
  <2> QED
    BY <2>1, <2>2
<1>4. ASSUME NEW d \in Device, Collect(d) \/ Drain(d) PROVE Sane(e)'
  <2>1. /\ Retired(d) /\ readBack[d] > collected[d]
        /\ UNCHANGED <<queued, partly, dep, deviceVars>>
    BY <1>4 DEF Collect, Drain
  <2>2. CASE e # d
    <3>1. Local(e)' = Local(e)
      BY <2>1, <2>2 DEF Retired, Local, TypeOK, deviceVars
    <3> QED
      BY <3>1, Untouched
  <2> QED
    BY <2>1, <2>2, RetireKeeps
<1>5. ASSUME NEW d \in Device, Drained(d) \/ DrainFails(d) \/ Free(d) PROVE Sane(e)'
  <2>1. Local(e)' = Local(e)
    BY <1>5 DEF Drained, DrainFails, Free, Local, deviceVars
  <2> QED
    BY <2>1, Untouched
<1>6. ASSUME NEW d \in Device, StartUpload(d) PROVE Sane(e)'
  <2>1. CASE e # d
    <3>1. Local(e)' = Local(e)
      BY <1>6, <2>1 DEF StartUpload, Local, TypeOK, hostVars
    <3> QED
      BY <3>1, Untouched
  <2> QED
    BY <1>6, <2>1, StartUploadKeeps
<1>7. ASSUME NEW d \in Device, EndUpload(d) PROVE Sane(e)'
  <2>1. CASE e # d
    <3>1. Local(e)' = Local(e)
      BY <1>7, <2>1 DEF EndUpload, Local, TypeOK, hostVars
    <3> QED
      BY <3>1, Untouched
  <2> QED
    BY <1>7, <2>1, EndUploadKeeps
<1>8. ASSUME NEW d \in Device, Kernel(d) PROVE Sane(e)'
  <2>1. CASE e # d
    <3>1. Local(e)' = Local(e)
      BY <1>8, <2>1 DEF Kernel, Local, TypeOK, hostVars
    <3> QED
      BY <3>1, Untouched
  <2> QED
    BY <1>8, <2>1, KernelKeeps
<1>9. ASSUME NEW d \in Device, ReadBack(d) PROVE Sane(e)'
  <2>1. CASE e # d
    <3>1. Local(e)' = Local(e)
      BY <1>9, <2>1 DEF ReadBack, Local, TypeOK, hostVars
    <3> QED
      BY <3>1, Untouched
  <2> QED
    BY <1>9, <2>1, ReadBackKeeps
<1> QED
  BY <1>1, <1>2, <1>3, <1>4, <1>5, <1>6, <1>7, <1>8, <1>9
     DEF Next, HostStep, Failure, DeviceStep, Call, NoMemory, WrongPass, End, Return,
         WaitFails, EndNext, vars

(* Nothing fails or is freed while calls go on. *)
LEMMA EndingInit == Init => Ending
  BY DEF Init, Ending

LEMMA EndingStep == TypeOK /\ Ending /\ [Next]_vars => Ending'
<1> SUFFICES ASSUME TypeOK, Ending, [Next]_vars PROVE Ending'
  OBVIOUS
<1>1. CASE UNCHANGED <<partly, freed, host>>
  BY <1>1 DEF Ending
<1>2. CASE \E p \in 1 .. MaxPasses : Call(p)
  BY <1>2 DEF Call, hostVars, Ending
<1>3. CASE NoMemory \/ WrongPass \/ End \/ Return
  BY <1>3 DEF NoMemory, WrongPass, End, Return, hostVars, Ending
<1>4. ASSUME NEW d \in Device, WaitFails(d) \/ EndNext(d) PROVE Ending'
  BY <1>4 DEF WaitFails, EndNext, hostVars, Ending
<1>5. ASSUME NEW d \in Device, NEW sent \in 0 .. 2, QueueFails(d, sent) PROVE Ending'
  BY <1>5 DEF QueueFails, Ending
<1>6. ASSUME NEW d \in Device, Free(d) PROVE Ending'
  BY <1>6 DEF Free, Ending
<1>7. ASSUME NEW d \in Device,
             \/ Queue(d) \/ Collect(d) \/ Drain(d) \/ Drained(d) \/ DrainFails(d)
             \/ StartUpload(d) \/ EndUpload(d) \/ Kernel(d) \/ ReadBack(d)
      PROVE  UNCHANGED <<partly, freed, host>>
  BY <1>7 DEF Queue, Collect, Drain, Drained, DrainFails,
              StartUpload, EndUpload, Kernel, ReadBack, hostVars
<1> QED
  BY <1>1, <1>2, <1>3, <1>4, <1>5, <1>6, <1>7
     DEF Next, HostStep, Failure, DeviceStep, vars, hostVars

LEMMA SaneAlways == Spec => [](TypeOK /\ Ending /\ \A d \in Device : Sane(d))
<1> DEFINE Inv == TypeOK /\ Ending /\ \A d \in Device : Sane(d)
<1>1. Init => Inv
  BY TypesInit, EndingInit, SaneInit
<1>2. Inv /\ [Next]_vars => Inv'
  BY TypesStep, EndingStep, SaneStep
<1> QED
  BY <1>1, <1>2, PTL DEF Spec

-----------------------------------------------------------------------------
(* Release. *)

LEMMA FreedStep == TypeOK /\ Ending /\ FreedWhenIdle /\ [Next]_vars => FreedWhenIdle'
<1> SUFFICES ASSUME TypeOK, Ending, FreedWhenIdle, [Next]_vars, NEW e \in Device, freed'[e]
             PROVE  Idle(e)'
  BY DEF FreedWhenIdle
<1>1. CASE ~freed[e]
  <2>1. ASSUME freed'[e] = freed[e] PROVE FALSE
    BY <1>1, <2>1
  <2>2. ASSUME NEW d \in Device, Free(d) PROVE Idle(e)'
    <3>1. CASE d = e
      BY <2>2, <3>1 DEF Free, Idle, Uploads, Kernels, deviceVars
    <3>2. CASE d # e
      BY <2>1, <2>2, <3>2 DEF Free, TypeOK
    <3> QED
      BY <3>1, <3>2
  <2>3. ASSUME freed' = freed PROVE FALSE
    BY <2>1, <2>3
  <2> QED
    BY <2>2, <2>3
       DEF Next, HostStep, Failure, DeviceStep, Call, End, Return, NoMemory, WrongPass, Queue,
           Collect, Drain, Drained, EndNext, QueueFails, WaitFails, DrainFails, StartUpload,
           EndUpload, Kernel, ReadBack, hostVars, vars
<1>2. CASE freed[e]
  <2>1. /\ ~uploading[e] /\ up[e] = Uploads(e) /\ ran[e] = Kernels(e)
        /\ readBack[e] = queued[e] /\ host \in {"free", "gone"}
    BY <1>2 DEF FreedWhenIdle, Idle, Ending
  <2>2. /\ up[e] \in Nat /\ ran[e] \in Nat /\ readBack[e] \in Nat
    BY Numbers
  <2>3. ASSUME UNCHANGED <<uploading, up, ran, readBack, queued, partly>> PROVE Idle(e)'
    BY <2>1, <2>3 DEF Idle, Uploads, Kernels
  <2>4. ASSUME NEW d \in Device, DeviceStep(d) PROVE Idle(e)'
    <3>1. d # e
      BY <2>1, <2>2, <2>4 DEF DeviceStep, StartUpload, EndUpload, Kernel, ReadBack
    <3>2. /\ uploading'[e] = uploading[e] /\ up'[e] = up[e] /\ ran'[e] = ran[e]
          /\ readBack'[e] = readBack[e] /\ queued' = queued /\ partly' = partly
      BY <2>4, <3>1
         DEF DeviceStep, StartUpload, EndUpload, Kernel, ReadBack, TypeOK, hostVars
    <3> QED
      BY <2>1, <3>2 DEF Idle, Uploads, Kernels
  <2> QED
    BY <2>1, <2>3, <2>4
       DEF Next, HostStep, Failure, Call, End, Return, NoMemory, WrongPass, Queue, Filling,
           Collect, Drain, Drained, EndNext, Free, QueueFails, WaitFails, DrainFails,
           hostVars, deviceVars, vars
<1> QED
  BY <1>1, <1>2

(* No buffer and no ring a device still uses is released, whatever failed: each
   device's queues are empty, the commands of a chunk that went out only in part
   included. *)
THEOREM PipelineFreedWhenIdle == Spec => []FreedWhenIdle
<1>1. Init => FreedWhenIdle
  BY DEF Init, FreedWhenIdle
<1> QED
  BY <1>1, TypesInit, TypesStep, EndingInit, EndingStep, FreedStep, PTL DEF Spec

-----------------------------------------------------------------------------
(* Calls. *)

LEMMA ChunksPositive ==
  ASSUME TypeOK, NEW d \in Device
  PROVE  Chunks[d] \in Nat \ {0} /\ base[d] \in Nat /\ passes \in Nat
         /\ passes * Chunks[d] \in Nat /\ Stop(d) \in Nat /\ Stop(d) = base[d] + passes * Chunks[d]
<1>1. Chunks[d] \in Nat \ {0} /\ base[d] \in Nat /\ passes \in Nat
  BY DevicesAssumption, BoundsAssumption, Numbers DEF TypeOK
<1>2. passes * Chunks[d] \in Nat
  BY <1>1
<1> QED
  BY <1>1, <1>2 DEF Stop

LEMMA PassShape ==
  ASSUME NEW p, NEW x
  PROVE  x \in Pass(p) <=> \E d \in Device : \E j \in 0 .. Chunks[d] - 1 :
                             x = <<d, base[d] + p * Chunks[d] + j>>
  BY DEF Pass

(* A pass holds the chunks whose number tells so. *)
LEMMA PassHolds ==
  ASSUME TypeOK, NEW d \in Device, NEW s \in Nat, s >= base[d], NEW p \in Nat
  PROVE  <<d, s>> \in Pass(p) <=> PassOf(d, s) = p
<1> DEFINE n == Chunks[d]
           t == s - base[d]
           r == t % n
           q == t \div n
<1>1. n \in Nat \ {0} /\ base[d] \in Nat /\ t \in Nat
  BY ChunksPositive
<1>2. t = n * q + r /\ r \in 0 .. n - 1 /\ q \in Nat
  BY <1>1, Divide
<1>3. ASSUME q = p PROVE <<d, s>> \in Pass(p)
  <2>1. n * p = p * n /\ p * n \in Nat
    BY <1>1
  <2> HIDE DEF q, r
  <2>2. t = p * n + r
    BY <1>2, <1>3, <2>1
  <2>3. s = base[d] + t
    BY <1>1
  <2> DEFINE m == p * n
  <2> HIDE DEF t, m
  <2>4. s = base[d] + m + r
    BY <1>1, <1>2, <2>1, <2>2, <2>3 DEF m
  <2> QED
    BY <1>2, <2>4, PassShape DEF m
<1>4. ASSUME <<d, s>> \in Pass(p) PROVE q = p
  <2>1. PICK j \in 0 .. n - 1 : s = base[d] + p * n + j
    BY <1>4, PassShape
  <2>2. p * n = n * p /\ n * p \in Nat
    BY <1>1
  <2>3. t = n * p + j
    BY <1>1, <2>1, <2>2
  <2> QED
    BY <1>1, <2>3, Quotient
<1> QED
  BY <1>3, <1>4 DEF PassOf

(* What a call asks for of a device ends where its last pass does. *)
LEMMA PassBounds ==
  ASSUME TypeOK, NEW d \in Device, NEW s \in Nat, s >= base[d]
  PROVE  PassOf(d, s) \in Nat /\ (s < Stop(d) <=> PassOf(d, s) < passes)
<1> DEFINE n == Chunks[d]
           t == s - base[d]
           r == t % n
           q == t \div n
<1>1. n \in Nat \ {0} /\ base[d] \in Nat /\ t \in Nat /\ passes \in Nat
      /\ passes * n \in Nat /\ Stop(d) = base[d] + passes * n
  BY ChunksPositive
<1>2. t = n * q + r /\ r \in 0 .. n - 1 /\ q \in Nat
  BY <1>1, Divide
<1> HIDE DEF q, r
<1> HIDE DEF n
<1>a. n * q \in Nat /\ n * (q + 1) = n * q + n
  BY <1>1, <1>2
<1>b. n * passes = passes * n
  BY <1>1
<1>3. n * q \in Nat /\ n * passes = passes * n /\ n * (q + 1) = n * q + n
  BY <1>a, <1>b
<1>4. q < passes => n * (q + 1) <= n * passes
  BY <1>1, <1>2
<1>5. ~(q < passes) => n * passes <= n * q
  BY <1>1, <1>2
<1>6. t < passes * n <=> q < passes
  BY <1>1, <1>2, <1>3, <1>4, <1>5
<1>7. s < Stop(d) <=> t < passes * n
  BY <1>1
<1> QED
  BY <1>2, <1>6, <1>7 DEF PassOf, q, n

\* A call folds nothing before it is made, and everything when it returns.
LEMMA FoldedNone ==
  ASSUME TypeOK, NEW p \in Nat, collected = base
  PROVE  Folded(p) = {}
<1> SUFFICES ASSUME NEW x \in Pass(p), x[2] < collected[x[1]] PROVE FALSE
  BY DEF Folded
<1>a. PICK d \in Device : \E j \in 0 .. Chunks[d] - 1 :
        x = <<d, base[d] + p * Chunks[d] + j>>
  BY PassShape
<1>1. PICK j \in 0 .. Chunks[d] - 1 : x = <<d, base[d] + p * Chunks[d] + j>>
  BY <1>a
<1>2. Chunks[d] \in Nat /\ base[d] \in Nat /\ p * Chunks[d] \in Nat
  BY ChunksPositive
<1>3. base[d] + p * Chunks[d] + j < base[d]
  BY <1>1
<1> QED
  BY <1>2, <1>3

LEMMA FoldedAll ==
  ASSUME TypeOK, Busy = {}, NEW p \in 0 .. passes - 1
  PROVE  Folded(p) = Pass(p)
<1> SUFFICES ASSUME NEW x \in Pass(p) PROVE x[2] < collected[x[1]]
  BY DEF Folded
<1>a. PICK d \in Device : \E j \in 0 .. Chunks[d] - 1 :
        x = <<d, base[d] + p * Chunks[d] + j>>
  BY PassShape
<1>1. PICK j \in 0 .. Chunks[d] - 1 : x = <<d, base[d] + p * Chunks[d] + j>>
  BY <1>a
<1>2. p \in Nat /\ passes \in Nat /\ p < passes /\ Chunks[d] \in Nat /\ base[d] \in Nat
      /\ p * Chunks[d] \in Nat /\ collected[d] \in Nat /\ Stop(d) \in Nat
  BY ChunksPositive, Numbers
<1> DEFINE s == base[d] + p * Chunks[d] + j
<1>3. s \in Nat /\ s >= base[d]
  BY <1>2
<1>4. <<d, s>> \in Pass(p)
  BY <1>1
<1> HIDE DEF s
<1>5. PassOf(d, s) = p
  BY <1>2, <1>3, <1>4, PassHolds
<1>6. s < Stop(d)
  BY <1>2, <1>3, <1>5, PassBounds
<1>7. ~(collected[d] < Stop(d))
  BY DEF Busy
<1>8. s < collected[d]
  BY <1>2, <1>3, <1>6, <1>7
<1>9. x[1] = d /\ x[2] = s
  BY <1>1 DEF s
<1> QED
  BY <1>8, <1>9

(* Collecting a chunk adds it to the pass it is of, and to no other. *)
LEMMA CollectFolds ==
  ASSUME TypeOK, NEW d \in Device, Sane(d), Tally, Collect(d)
  PROVE  Tally'
<1> DEFINE c == collected[d]
           p == PassOf(d, c)
<1>1. /\ host = "call" /\ d \in Busy /\ readBack[d] > c /\ collected' = [collected EXCEPT ![d] = c + 1]
      /\ UNCHANGED <<host, passes, base>>
  BY DEF Collect, Filling, Retired, callVars
<1>2. /\ passes # 0 /\ DOMAIN got = 0 .. passes - 1
      /\ \A e \in Device : collected[e] \in base[e] .. Stop(e)
      /\ \A i \in 0 .. passes - 1 : got[i] = Folded(i)
  BY <1>1 DEF Tally, TypeOK
<1>3. /\ c \in Nat /\ base[d] \in Nat /\ passes \in Nat /\ Stop(d) \in Nat
      /\ base[d] <= c /\ c < Stop(d)
  BY <1>1, <1>2, ChunksPositive, Numbers DEF Busy
<1>4. p \in 0 .. passes - 1
  BY <1>3, PassBounds
<1>5. ring[d][c % Ring] = c
  <2>1. c \in c .. readBack[d] - 1
    BY <1>1, <1>3, Numbers
  <2> QED
    BY <2>1 DEF Sane, Contents, At
<1>6. got' = [got EXCEPT ![p] = (@ \ {<<d, c>>}) \cup ({<<d, c>>} \ @)]
  BY <1>5 DEF Collect
<1>7. \A i \in 0 .. passes - 1 : <<d, c>> \in Pass(i) <=> i = p
  BY <1>3, <1>4, PassHolds
<1>8. Busy' = { e \in Device : collected'[e] < Stop(e) } /\ \A i : Pass(i)' = Pass(i)
      /\ \A e \in Device : Stop(e)' = Stop(e)
  BY <1>1 DEF Busy, Stop, Pass
<1> HIDE DEF p
<1>9. ASSUME NEW i \in 0 .. passes - 1
      PROVE  Folded(i)' = IF i = p THEN Folded(i) \cup {<<d, c>>} ELSE Folded(i)
  <2>1. ASSUME NEW x \in Pass(i)
        PROVE  x[2] < collected'[x[1]] <=> x[2] < collected[x[1]] \/ x = <<d, c>>
    <3>a. PICK e \in Device : \E j \in 0 .. Chunks[e] - 1 :
            x = <<e, base[e] + i * Chunks[e] + j>>
      BY <2>1, PassShape
    <3>1. PICK j \in 0 .. Chunks[e] - 1 : x = <<e, base[e] + i * Chunks[e] + j>>
      BY <3>a
    <3> DEFINE n == base[e] + i * Chunks[e] + j
    <3>2. Chunks[e] \in Nat /\ base[e] \in Nat /\ i \in Nat /\ i * Chunks[e] \in Nat
      BY <1>3, ChunksPositive
    <3>3. n \in Nat
      BY <3>2
    <3>4. x = <<e, n>> /\ x[1] = e /\ x[2] = n
      BY <3>1
    <3> HIDE DEF n
    <3>5. CASE e = d
      <4>1. collected'[e] = c + 1
        BY <1>1, <3>5, Numbers
      <4> QED
        BY <1>3, <3>3, <3>4, <3>5, <4>1
    <3>6. CASE e # d
      <4>1. collected'[e] = collected[e]
        BY <1>1, <3>6, Numbers
      <4> QED
        BY <3>4, <3>6, <4>1
    <3> QED
      BY <3>5, <3>6
  <2>2. Folded(i)' = { x \in Pass(i) : x[2] < collected[x[1]] \/ x = <<d, c>> }
    BY <1>8, <2>1 DEF Folded
  <2>3. Folded(i)' = Folded(i) \cup { x \in Pass(i) : x = <<d, c>> }
    BY <2>2 DEF Folded
  <2> QED
    BY <1>7, <2>3
<1>10. \A i \in 0 .. passes - 1 : <<d, c>> \notin Folded(i)
  BY <1>3 DEF Folded
<1>11. ASSUME NEW i \in 0 .. passes - 1 PROVE got'[i] = Folded(i)'
  <2>1. CASE i = p
    BY <1>2, <1>6, <1>9, <1>10, <2>1
  <2>2. CASE i # p
    BY <1>2, <1>6, <1>9, <2>2
  <2> QED
    BY <2>1, <2>2
<1>12. ASSUME NEW e \in Device PROVE collected'[e] \in base[e] .. Stop(e)
  <2>1. CASE e = d
    BY <1>1, <1>3, <2>1, Numbers
  <2>2. CASE e # d
    BY <1>1, <1>2, <2>2, Numbers
  <2> QED
    BY <2>1, <2>2
<1> QED
  BY <1>1, <1>2, <1>8, <1>11, <1>12 DEF Tally

LEMMA TallyStep ==
  TypeOK /\ (\A d \in Device : Sane(d)) /\ Tally /\ [Next]_vars => Tally'
<1> SUFFICES ASSUME TypeOK, \A d \in Device : Sane(d), Tally, [Next]_vars PROVE Tally'
  OBVIOUS
<1>1. CASE UNCHANGED <<host, got, passes, base, collected>>
  BY <1>1 DEF Tally, Folded, Pass, Stop
<1>2. CASE host' # "call"
  BY <1>2 DEF Tally
<1>3. ASSUME NEW p \in 1 .. MaxPasses, Call(p) PROVE Tally'
  <2>1. /\ passes' = p /\ base' = collected /\ got' = [i \in 0 .. p - 1 |-> {}]
        /\ collected' = base'
    BY <1>3 DEF Call, hostVars
  <2>2. TypeOK'
    BY <1>3, TypesStep DEF Next
  <2>3. \A i \in 0 .. p - 1 : Folded(i)' = {}
    <3> SUFFICES ASSUME NEW i \in 0 .. p - 1 PROVE Folded(i)' = {}
      OBVIOUS
    <3>1. i \in Nat
      BY BoundsAssumption
    <3>2. \A x \in Pass(i)' : ~(x[2] < collected'[x[1]])
      <4> SUFFICES ASSUME NEW x \in Pass(i)', x[2] < collected'[x[1]] PROVE FALSE
        OBVIOUS
      <4>a. PICK d \in Device : \E j \in 0 .. Chunks[d] - 1 :
              x = <<d, base'[d] + i * Chunks[d] + j>>
        BY DEF Pass
      <4>1. PICK j \in 0 .. Chunks[d] - 1 : x = <<d, base'[d] + i * Chunks[d] + j>>
        BY <4>a
      <4>b. Chunks[d] \in Nat /\ base'[d] \in Nat
        BY <2>1, Numbers, DevicesAssumption
      <4>2. base'[d] \in Nat /\ i * Chunks[d] \in Nat
        BY <3>1, <4>b
      <4>3. base'[d] + i * Chunks[d] + j < base'[d]
        BY <2>1, <4>1
      <4> QED
        BY <4>2, <4>3
    <3> QED
      BY <3>2 DEF Folded
  <2>4. ASSUME NEW d \in Device PROVE collected'[d] \in base'[d] .. Stop(d)'
    <3>1. Chunks[d] \in Nat /\ p \in Nat /\ p * Chunks[d] \in Nat /\ collected'[d] \in Nat
      BY <2>1, BoundsAssumption, DevicesAssumption, Numbers
    <3>2. Stop(d)' = base'[d] + p * Chunks[d]
      BY <2>1 DEF Stop
    <3> QED
      BY <2>1, <3>1, <3>2
  <2> QED
    BY <2>1, <2>3, <2>4 DEF Tally
<1>4. ASSUME NEW d \in Device, DeviceStep(d) \/ Queue(d)
      PROVE  UNCHANGED <<host, got, passes, base, collected>>
  BY <1>4 DEF DeviceStep, StartUpload, EndUpload, Kernel, ReadBack, Queue, callVars, hostVars
<1>5. ASSUME NEW d \in Device,
             \/ Drain(d) \/ Drained(d) \/ EndNext(d) \/ Free(d) \/ WaitFails(d) \/ DrainFails(d)
             \/ \E sent \in 0 .. 2 : QueueFails(d, sent)
      PROVE  host' # "call"
  BY <1>5 DEF Drain, Drained, Draining, EndNext, Free, WaitFails, DrainFails, QueueFails
<1>6. ASSUME End \/ Return \/ NoMemory \/ WrongPass PROVE host' # "call"
  BY <1>6 DEF End, Return, NoMemory, WrongPass
<1>7. ASSUME UNCHANGED vars PROVE UNCHANGED <<host, got, passes, base, collected>>
  BY <1>7 DEF vars, callVars, hostVars
<1> QED
  BY <1>1, <1>2, <1>3, <1>4, <1>5, <1>6, <1>7, CollectFolds DEF Next, HostStep, Failure

LEMMA AheadStep == TypeOK /\ Tally /\ Ahead /\ [Next]_vars => Ahead'
<1> SUFFICES ASSUME TypeOK, Tally, Ahead, [Next]_vars PROVE Ahead'
  OBVIOUS
<1>1. CASE UNCHANGED <<host, turn, base, passes, calls, queued, collected>>
  BY <1>1 DEF Ahead, NeverDrained, Busy, Stop
<1>2. CASE host' \notin {"call", "between"}
  BY <1>2 DEF Ahead, NeverDrained
<1>3. ASSUME NEW p \in 1 .. MaxPasses, Call(p) PROVE Ahead'
  BY <1>3 DEF Call, hostVars, Ahead, NeverDrained
<1>4. ASSUME NEW d \in Device, Queue(d) PROVE Ahead'
  <2>1. /\ host = "call" /\ turn = d /\ d \in Busy /\ queued[d] < collected[d] + Ring
        /\ UNCHANGED <<host, turn, base, passes, collected>>
        /\ queued' = [queued EXCEPT ![d] = queued[d] + 1]
    BY <1>4 DEF Queue, Filling, HasRoom, callVars
  <2>2. Busy' = Busy
    BY <2>1 DEF Busy, Stop
  <2>3. ASSUME NEW e \in Device
        PROVE  \/ collected'[e] = base'[e]
               \/ queued'[e] - collected'[e] = Ring - 1
               \/ turn' = e /\ e \in Busy' /\ queued'[e] - collected'[e] = Ring
    <3>1. /\ queued[d] \in Nat /\ collected[d] \in Nat /\ Ring \in Nat
          /\ \/ collected[e] = base[e]
             \/ queued[e] - collected[e] = Ring - 1
             \/ turn = e /\ e \in Busy /\ queued[e] - collected[e] = Ring
      BY <2>1, Numbers, RingAssumption DEF Ahead
    <3>2. CASE e = d
      <4>1. queued'[d] = queued[d] + 1 /\ collected'[d] = collected[d]
        BY <2>1, Numbers
      <4> QED
        BY <2>1, <2>2, <3>1, <3>2, <4>1
    <3>3. CASE e # d
      <4>1. queued'[e] = queued[e]
        BY <2>1, <3>3, Numbers
      <4> QED
        BY <2>1, <2>2, <3>1, <3>3, <4>1
    <3> QED
      BY <3>2, <3>3
  <2> QED
    BY <2>1, <2>3 DEF Ahead, NeverDrained
<1>5. ASSUME NEW d \in Device, Collect(d) PROVE Ahead'
  <2>1. /\ host = "call" /\ turn = d /\ ~(queued[d] < collected[d] + Ring)
        /\ UNCHANGED <<host, base, passes, queued>>
        /\ collected' = [collected EXCEPT ![d] = collected[d] + 1]
    BY <1>5 DEF Collect, Filling, HasRoom, Retired, callVars
  <2>2. ASSUME NEW e \in Device
        PROVE  collected'[e] = base'[e] \/ queued'[e] - collected'[e] = Ring - 1
    <3>1. /\ queued[d] \in Nat /\ collected[d] \in Nat /\ Ring \in Nat
          /\ queued[d] <= collected[d] + Ring
      BY Numbers, RingAssumption
    <3>2. CASE e = d
      <4>1. collected'[d] = collected[d] + 1
        BY <2>1, Numbers
      <4> QED
        BY <2>1, <3>1, <3>2, <4>1
    <3>3. CASE e # d
      <4>1. collected'[e] = collected[e]
        BY <2>1, <3>3, Numbers
      <4> QED
        BY <2>1, <3>3, <4>1 DEF Ahead
    <3> QED
      BY <3>2, <3>3
  <2> QED
    BY <2>1, <2>2 DEF Ahead, NeverDrained
<1>6. CASE Return
  <2>1. /\ host = "call" /\ host' = "between" /\ Busy = {}
        /\ UNCHANGED <<queued, collected, calls>>
    BY <1>6 DEF Return, hostVars, callVars
  <2>2. ASSUME NEW d \in Device PROVE queued[d] - collected[d] = Ring - 1
    <3>1. /\ collected[d] \in Nat /\ base[d] \in Nat /\ passes \in Nat \ {0}
          /\ Chunks[d] \in Nat \ {0} /\ Stop(d) = base[d] + passes * Chunks[d]
      BY <2>1, ChunksPositive, Numbers DEF Tally
    <3>2. passes * Chunks[d] \in Nat \ {0}
      BY <3>1
    <3>3. Stop(d) \in Nat /\ Stop(d) > base[d]
      BY <3>1, <3>2
    <3>4. ~(collected[d] < Stop(d))
      BY <2>1 DEF Busy
    <3>5. collected[d] # base[d]
      BY <3>1, <3>3, <3>4
    <3> QED
      BY <2>1, <3>5 DEF Ahead
  <2> QED
    BY <2>1, <2>2 DEF Ahead, NeverDrained
<1>7. ASSUME NEW d \in Device, DeviceStep(d)
      PROVE  UNCHANGED <<host, turn, base, passes, calls, queued, collected>>
  BY <1>7 DEF DeviceStep, StartUpload, EndUpload, Kernel, ReadBack, callVars, hostVars
<1>8. ASSUME NEW d \in Device,
             \/ Drain(d) \/ Drained(d) \/ EndNext(d) \/ Free(d) \/ WaitFails(d) \/ DrainFails(d)
             \/ \E sent \in 0 .. 2 : QueueFails(d, sent)
      PROVE  host' \notin {"call", "between"}
  BY <1>8 DEF Drain, Drained, Draining, EndNext, Free, WaitFails, DrainFails, QueueFails
<1>9. ASSUME End \/ NoMemory \/ WrongPass PROVE host' \notin {"call", "between"}
  BY <1>9 DEF End, NoMemory, WrongPass
<1>10. ASSUME UNCHANGED vars
       PROVE  UNCHANGED <<host, turn, base, passes, calls, queued, collected>>
  BY <1>10 DEF vars, callVars, hostVars
<1> QED
  BY <1>1, <1>2, <1>3, <1>4, <1>5, <1>6, <1>7, <1>8, <1>9, <1>10 DEF Next, HostStep, Failure

LEMMA TallyAlways == Spec => [](TypeOK /\ Tally)
<1> DEFINE Inv == TypeOK /\ Ending /\ \A d \in Device : Sane(d)
<1>1. Init => Tally
  BY DEF Init, Tally
<1>2. Inv /\ Tally /\ [Next]_vars => Tally'
  BY TallyStep
<1>3. Spec => []Inv
  BY SaneAlways
<1>4. Inv => TypeOK
  OBVIOUS
<1> HIDE DEF Inv
<1> QED
  BY <1>1, <1>2, <1>3, <1>4, PTL DEF Spec

(* When a call of vb_dev_pipe_next returns, each pass it asked for is the XOR of
   every chunk of the pass on every device, once each: nothing that a later
   upload, kernel or readback spoilt, and nothing of a pass the devices have
   already run ahead into. *)
THEOREM PipelinePassIntegrity == Spec => []PassIntegrity
<1>1. TypeOK /\ Tally => PassIntegrity
  BY FoldedAll DEF Tally, PassIntegrity
<1> QED
  BY <1>1, TallyAlways, PTL

(* Between two calls no device has less than a ring of chunks less one queued:
   the timed passes neither fill nor drain the pipeline. *)
THEOREM PipelineNeverDrained == Spec => []NeverDrained
<1>1. Init => Ahead
  BY DEF Init, Ahead, NeverDrained
<1>2. Ahead => NeverDrained
  BY DEF Ahead
<1> QED
  BY <1>1, <1>2, TallyAlways, AheadStep, PTL DEF Spec

=============================================================================
